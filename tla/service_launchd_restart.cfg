SPECIFICATION Spec
CONSTANTS
    Backends = {"launchd"}
    MaxCommands = 4
    MaxFailures = 1
INVARIANTS
    UpStaysUp
CHECK_DEADLOCK FALSE
