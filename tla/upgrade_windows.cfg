SPECIFICATION Spec
CONSTANTS
    bin = bin
    zsh = zsh
    env = env
    u1 = u1
    u2 = u2
    Upgrader = {u1, u2}
    File = {bin, zsh, env}
    Bin = bin
    Shipped = {bin, zsh}
    MaxVersion = 2
    Archives <- BinaryLast
    Windows = TRUE
    MaxStarts = 3
INVARIANTS
    TypeOK
    BinaryNotLost
    UpgradeInv
CHECK_DEADLOCK FALSE
