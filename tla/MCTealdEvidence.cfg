SPECIFICATION FairSpec
CONSTANTS
    SubjectOf <- LastDiffers
    MaxEntry = 3
    QueueRoom = 1
    EventRoom = 1
    AnalysisRoom = 1
    MaxEvents = 2
    MaxFail = 1
    MaxCrash = 1
    MaxFile = 2
    MaxAnomaly = 2
    MaxGap = 1
    MaxGroup = 2
INVARIANTS SecuredStays WrittenIsThere AnalysisFromLog
PROPERTY NobodyWaits
CHECK_DEADLOCK FALSE
