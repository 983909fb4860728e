SPECIFICATION FairSpec
CONSTANTS
    N = 1
    M = 1
    Cap = 1
PROPERTIES
    ClientCloseEndsBoth
CHECK_DEADLOCK FALSE
