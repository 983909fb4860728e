SPECIFICATION Spec
CONSTANTS
    Backends = {"launchd"}
    MaxCommands = 4
    MaxFailures = 1
INVARIANTS
    DownStaysDown
CHECK_DEADLOCK FALSE
