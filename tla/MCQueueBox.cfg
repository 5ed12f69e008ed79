\* Two queues, two clients, a clean-up, failures and a crash: with liveness
\* properties, so without symmetry.
SPECIFICATION FairSpec
CONSTANTS
    q1 = q1
    q2 = q2
    t1 = t1
    t2 = t2
    k1 = k1
    k2 = k2
    NoQueue = NoQueue
    Queues <- MCQueues
    Operated <- MCOneQueue
    Colons <- MCColons
    Clients <- MCClients
    Cleaners <- MCOneCleaner
    BatchSize = 1
    MaxLen = 1
    MaxFaults = 1
    MaxCrashes = 1
    MaxNested = 0
INVARIANTS
    TypeOK
    Coherent
    StatsBalance
    Resident
    PauseHolds
PROPERTIES
    PausedUntouched
    RequestsEnd
    
