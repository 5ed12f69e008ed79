\* One caller at a time changes two keys; messages queue up, a save fails, the process
\* crashes: safety, and what must happen in the end.
SPECIFICATION FairSpec
CONSTANTS
    Limit = Limit
    other = other
    p1 = p1
    Nothing = Nothing
    Keys <- MCKeys
    Values <- MCValues
    Default = 1
    Setters <- MCSetters
    QueueSize = 2
    MaxUsed = 2
    MaxFaults = 1
    MaxCrashes = 1
INVARIANTS
    TypeOK
    LimitFollows
    AckedSurvives
PROPERTIES
    SetsEnd
    GuardTracks
