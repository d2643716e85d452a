SPECIFICATION DirSpec
CONSTANTS
    NoKey = NoKey
    Keys <- NoKeys
    Names = {1, 2}
    BadNames = {}
    Modes = {0}
    RootMode = 0
    Batches <- NoExtents
    Sizes = {}
    MaxInodeId = 3
    MaxVersion = 4
    PageSize = 1
    Listed = {1, 2}
VIEW WithoutResult
INVARIANTS ListingDriftBounded DotDotRight
CHECK_DEADLOCK FALSE
