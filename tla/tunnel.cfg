SPECIFICATION FairSpec
CONSTANTS
    N = 2
    M = 2
    Cap = 1
INVARIANTS
    AnswerComesFirst
    UpstreamHeardToTheEnd
PROPERTIES
    UpIsPipe
    DownIsPipe
    HandlerTakesAllDown
    UpstreamCloseEndsBoth
CHECK_DEADLOCK FALSE
