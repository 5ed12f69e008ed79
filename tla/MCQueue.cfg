\* Three producers and three consumers race on one queue while Redis may fail twice.
SPECIFICATION Spec
CONSTANTS
    p1 = p1
    p2 = p2
    p3 = p3
    c1 = c1
    c2 = c2
    c3 = c3
    Producers <- MCProducers
    Consumers <- MCConsumers
    Limit = 2
    MaxLen = 3
    MaxFaults = 2
SYMMETRY Symmetry
INVARIANTS
    TypeOK
    CountersMatch
    Admission
    ProducersFit
    Books
    NoEmptyPop
    PausedIsQuiet
PROPERTY ImplementsReservedQueue
