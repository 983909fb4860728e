SPECIFICATION FairSpec
CONSTANTS
    Client = {c1, c2}
    Query = {q1, q2}
    Oversized = {q2}
    Cut = cut
    None = none
    Worker = {w1, w2}
    MaxSent = 2
INVARIANTS
    TypeOK
    RepliesWereAsked
    DnsInv
PROPERTIES
    RefinesService
    WorkersEnd
    CloseEndsAll
CHECK_DEADLOCK FALSE
