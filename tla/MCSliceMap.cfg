\* Five ids with two objects each; the slice shrinks early.
SPECIFICATION Spec
CONSTANTS
    i1 = i1
    i2 = i2
    i3 = i3
    i4 = i4
    i5 = i5
    c1 = c1
    c2 = c2
    Nil = Nil
    Ids <- MCIds
    Copies <- MCCopies
    MinShrink = 1
    Slack = 2
    QueueSizes <- MCQueueSizes
INVARIANTS
    TypeOK
    Layout
    SlackBounded
    IteratorsComplete
    TopNRight
PROPERTY ImplementsMap
