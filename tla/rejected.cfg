SPECIFICATION Spec
CONSTANTS
    a = a  b = b  bad = bad  k1 = k1  k2 = k2  m1 = m1  m2 = m2
    NoKey = NoKey
    Keys = {k1, k2}
    Names = {a}
    BadNames = {}
    Modes = {m1, m2}
    RootMode = m1
    Batches <- HalfMerged
    Sizes = {0, 2}
    Bytes = {}
    MaxInodeId = 3
    MaxVersion = 4
PROPERTIES RejectedCommandHasNoEffect
CHECK_DEADLOCK FALSE
