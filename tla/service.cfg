SPECIFICATION FairSpec
CONSTANTS
    Backends = {"launchd", "systemd", "task"}
    MaxCommands = 4
    MaxFailures = 2
INVARIANTS
    GoalKept
PROPERTIES
    OnlyFailuresRestart
    StartedAgain
CHECK_DEADLOCK FALSE
