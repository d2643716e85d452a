SPECIFICATION FuseSpec
CONSTANTS
    a = a
    m1 = m1
    m2 = m2
    Keys <- ObjectKeys
    NoKey = NoKey
    Names = {a}
    BadNames = {}
    Modes = {0}
    RootMode = 0
    Batches <- NoBatches
    Sizes = {}
    MaxInodeId = 2
    MaxVersion = 5
    Mounts = {m1}
    Flags <- JustAppend
    DirsOpened = {}
    Offsets = {0}
    Lengths = {1}
    MaxHandles = 1
    MaxWrites = 1
    MaxFailures = 1
    MaxRestarts = 0
INVARIANT WrittenOnce
CHECK_DEADLOCK FALSE
