SPECIFICATION FuseSpec
CONSTANTS
    a = a
    m1 = m1
    m2 = m2
    Keys <- ObjectKeys
    NoKey = NoKey
    Names = {a}
    BadNames = {}
    Modes = {0}
    RootMode = 0
    Batches <- NoBatches
    Sizes = {0}
    MaxInodeId = 2
    MaxVersion = 3
    Mounts = {m1}
    Flags <- AllWrites
    DirsOpened = {1}
    Offsets = {0}
    Lengths = {1}
    MaxHandles = 2
    MaxWrites = 2
    MaxFailures = 1
    MaxRestarts = 1
VIEW WithoutResult
INVARIANT LiveExtentsBacked
PROPERTIES WritesLeaveByCommit ObjectsNeverOverwritten
CHECK_DEADLOCK FALSE
