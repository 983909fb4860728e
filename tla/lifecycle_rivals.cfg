SPECIFICATION Spec
CONSTANTS
    p1 = p1
    p2 = p2
    a1 = a1
    a2 = a2
    a3 = a3
    a4 = a4
    direct = direct
    exitnode = exitnode
    nodns = nodns
    NoAddr = NoAddr
    NoPrefs = NoPrefs
    Proc = {p1, p2}
    Addr = {a1, a2, a3, a4}
    Prefs = {direct, exitnode, nodns}
    AcceptDNS = {direct, exitnode}
    Config <- RivalConfigs
    MaxLaunches = 2
INVARIANTS
    OneLogin
    HoldsListenersWhileJoined
    LifecycleInv
PROPERTIES
    RefinesSession
SYMMETRY Symmetry
CHECK_DEADLOCK FALSE
