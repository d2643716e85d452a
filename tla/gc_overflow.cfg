SPECIFICATION Spec
CONSTANTS
    Keys = {1}
    PageSize = 1
    GraceSeconds = 9
    MsPerSecond = 2
    Word = 16
    MaxPending = 1
    MaxListDelay = 1
    MaxSkew = 0
    MaxTime = 4
PROPERTIES GracePeriodHonoured
