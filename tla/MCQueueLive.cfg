\* One producer and one consumer: liveness, so no symmetry.
SPECIFICATION FairSpec
CONSTANTS
    p1 = p1
    p2 = p2
    p3 = p3
    c1 = c1
    c2 = c2
    c3 = c3
    Producers <- MCOneProducer
    Consumers <- MCOneConsumer
    Limit = 2
    MaxLen = 3
    MaxFaults = 2
PROPERTY LoneConsumerDrains
