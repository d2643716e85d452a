SPECIFICATION Spec
CONSTANTS
    a = a  b = b  bad = bad  k1 = k1  k2 = k2  m1 = m1  m2 = m2
    NoKey = NoKey
    Keys = {k1, k2}
    Names = {a, b}
    BadNames = {}
    Modes = {m1}
    RootMode = m1
    Batches <- HeadRefused
    Sizes = {0, 1, 4}
    Bytes = {0, 1, 2, 3, 4, 5, 6, 7}
    MaxInodeId = 2
    MaxVersion = 5
INVARIANTS TypeOK ExtentsDisjoint LayoutsInSync ExtentsWithinSize
PROPERTIES ImplementsByteFiles VersionTellsChange
CHECK_DEADLOCK FALSE
