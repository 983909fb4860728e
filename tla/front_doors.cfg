SPECIFICATION DoorsSpec
CONSTANTS
    IP = {i1, i2}
    Literal = literal
    Name = name
    MaxRecords = 2
    Field = {te, x}
    HopByHop = {te}
    MaxLines = 2
INVARIANTS
    DialsByThePlan
    FailsOnlyAfterAll
    ForwardsEndToEnd
CHECK_DEADLOCK FALSE
