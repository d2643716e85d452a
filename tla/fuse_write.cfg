SPECIFICATION FuseSpec
CONSTANTS
    a = a
    m1 = m1
    m2 = m2
    Keys <- ObjectKeys
    NoKey = NoKey
    Names = {a}
    BadNames = {}
    Modes = {0}
    RootMode = 0
    Batches <- NoBatches
    Sizes = {1}
    MaxInodeId = 2
    MaxVersion = 4
    Mounts = {m1, m2}
    Flags <- WriteAndAppend
    DirsOpened = {}
    Offsets = {0, 1}
    Lengths = {2}
    MaxHandles = 1
    MaxWrites = 3
    MaxFailures = 0
    MaxRestarts = 0
SYMMETRY MountSymmetry
VIEW WithoutResult
INVARIANTS LiveExtentsBacked WrittenOnce
PROPERTIES CommitKeepsWhatWasRead AppendLeavesNoHole
CHECK_DEADLOCK FALSE
