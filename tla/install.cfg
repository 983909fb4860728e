SPECIFICATION InstallSpec
CONSTANTS
    bin = bin
    zsh = zsh
    env = env
    u1 = u1
    u2 = u2
    Upgrader = {u1}
    File = {bin, zsh, env}
    Bin = bin
    Shipped = {bin, zsh}
    MaxVersion = 2
    Archives <- BinaryLast
    Windows = FALSE
    MaxStarts = 3
    MaxInstalls = 2
INVARIANTS
    FilesWhole
PROPERTIES
    SuccessIsComplete
    LatestMeansPrograms
    KeepsTheUsers
CHECK_DEADLOCK FALSE
