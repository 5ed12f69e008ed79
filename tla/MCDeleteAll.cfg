\* One clean-up over two queues.
SPECIFICATION Spec
CONSTANTS
    q1 = q1
    q2 = q2
    t1 = t1
    t2 = t2
    k1 = k1
    k2 = k2
    NoQueue = NoQueue
    Queues <- MCQueues
    Operated <- MCNone
    Colons <- MCColons
    Clients <- MCOneClient
    Cleaners <- MCOneCleaner
    BatchSize = 2
    MaxLen = 1
    MaxFaults = 0
    MaxCrashes = 0
    MaxNested = 0
PROPERTY DeleteAllDeletes
