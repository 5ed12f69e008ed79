\* Two clean-ups that overlap as they like, an operator and a client on one queue.
SPECIFICATION Spec
CONSTANTS
    q1 = q1
    q2 = q2
    t1 = t1
    t2 = t2
    k1 = k1
    k2 = k2
    NoQueue = NoQueue
    Queues <- MCOneQueue
    Operated <- MCOneQueue
    Colons <- MCColons
    Clients <- MCOneClient
    Cleaners <- MCTwoCleaners
    BatchSize = 1
    MaxLen = 1
    MaxFaults = 0
    MaxCrashes = 0
    MaxNested = 1
SYMMETRY CleanerSymmetry
INVARIANT CleaningExcludes
