SPECIFICATION Spec
CONSTANTS
    a = a  b = b  bad = bad  k1 = k1  k2 = k2  m1 = m1  m2 = m2
    NoKey = NoKey
    Keys = {k1}
    Names = {a, b}
    BadNames = {bad}
    Modes = {m1}
    RootMode = m1
    Batches <- NoExtents
    Sizes = {}
    Bytes = {}
    MaxInodeId = 4
    MaxVersion = 4
INVARIANTS NoDanglingDentry OneParent Rooted NlinkMatches SnapshotRestorable
CHECK_DEADLOCK FALSE
SYMMETRY NameSymmetry
