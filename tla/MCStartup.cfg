\* The process starts, serves two handlers, fails or is told to stop at any moment.
\* It stops for good when it is over.
SPECIFICATION FairSpec
CONSTANTS
    h1 = h1
    h2 = h2
    Handlers <- MCHandlers
    MaxKeys = 2
CHECK_DEADLOCK FALSE
INVARIANTS
    TypeOK
    StartsInOrder
    ServesOnlyWhenUp
PROPERTIES
    ServedExitsCleanly
    StartEnds
    StopEnds
