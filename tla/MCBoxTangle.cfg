\* An operator's call on a queue while a clean-up runs.
SPECIFICATION Spec
CONSTANTS
    q1 = q1
    q2 = q2
    t1 = t1
    t2 = t2
    o1 = o1
    o2 = o2
    k1 = k1
    k2 = k2
    Nobody = Nobody
    Queues <- MCOneQueue
    Clients <- MCNone
    Operators <- MCOneOperator
    Cleaners <- MCOneCleaner
INVARIANT Untangled
