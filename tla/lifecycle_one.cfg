SPECIFICATION FairSpec
CONSTANTS
    p1 = p1
    p2 = p2
    a1 = a1
    a2 = a2
    a3 = a3
    a4 = a4
    direct = direct
    exitnode = exitnode
    nodns = nodns
    NoAddr = NoAddr
    NoPrefs = NoPrefs
    Proc = {p1}
    Addr = {a1, a2, a3, a4}
    Prefs = {direct, exitnode, nodns}
    AcceptDNS = {direct, exitnode}
    Config <- FullConfigs
    MaxLaunches = 2
INVARIANTS
    TypeOK
    ServedAsAsked
    CleanExitWasAsked
    NoServerBlocked
    LeavesTailnet
PROPERTIES
    RefinesProcess
    SignalEnds
    ServerErrorEnds
CHECK_DEADLOCK FALSE
