SPECIFICATION ServiceSpec
CONSTANTS
    c1 = c1  c2 = c2  a = a  b = b  k1 = k1
    NoKey = NoKey
    Keys = {k1}
    Names = {a, b}
    BadNames = {}
    Modes = {0}
    RootMode = 0
    Batches <- SomeBatches
    Sizes = {0}
    MaxInodeId = 3
    MaxVersion = 20
    Clients = {c1, c2}
    Commands <- SomeCommands
    Reads <- SomeReads
    MaxCommands = 2
    MaxCrashes = 1
INVARIANTS LinearizableReads ErrnoTellsOutcome StampsMoveForward
PROPERTIES ImplementsMetaState CallsReturn
