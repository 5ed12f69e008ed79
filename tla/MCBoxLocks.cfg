\* A request, an operator and two clean-ups on one queue: a circle of waiting
\* goroutines (MCBoxTangle) may stop all of them.
SPECIFICATION Spec
CONSTANTS
    q1 = q1
    q2 = q2
    t1 = t1
    t2 = t2
    o1 = o1
    o2 = o2
    k1 = k1
    k2 = k2
    Nobody = Nobody
    Queues <- MCOneQueue
    Clients <- MCOneClient
    Operators <- MCOneOperator
    Cleaners <- MCCleaners
SYMMETRY Symmetry
CHECK_DEADLOCK FALSE
INVARIANT TangledOnlyByCleaning
