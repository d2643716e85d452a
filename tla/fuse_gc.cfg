SPECIFICATION FuseGcSpec
CONSTANTS
    a = a
    m1 = m1
    Keys <- ObjectKeys
    NoKey = NoKey
    Names = {a}
    BadNames = {}
    Modes = {0}
    RootMode = 0
    Batches <- NoBatches
    Sizes = {0}
    MaxInodeId = 2
    MaxVersion = 3
    Mounts = {m1}
    Flags <- AllWrites
    DirsOpened = {}
    Offsets = {0}
    Lengths = {1}
    MaxHandles = 1
    MaxWrites = 2
    MaxFailures = 1
    MaxRestarts = 0
    GraceMs = 3
    MaxPending = 1
    MaxListDelay = 1
    MaxTime = 4
VIEW WithoutResult
INVARIANTS LiveExtentsStored ReadableUnlessChanged
CHECK_DEADLOCK FALSE
