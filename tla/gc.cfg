SPECIFICATION FairSpec
CONSTANTS
    Keys = {1, 2}
    PageSize = 1
    GraceSeconds = 2
    MsPerSecond = 2
    Word = 16
    MaxPending = 1
    MaxListDelay = 1
    MaxSkew = 1
    MaxTime = 4
INVARIANTS WantedObjectsStored
PROPERTIES GracePeriodHonoured SweepComplete RunTerminates
