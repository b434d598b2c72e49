\* Two producers, two consumers and an invalidator over three nodes.
CONSTANTS
    p1 = p1
    p2 = p2
    c1 = c1
    c2 = c2
    x = x
    Producers <- MCProducers
    Consumers <- MCConsumers
    Invalidators <- MCInvalidators
    Items = {a, b}
    NoItem = NoItem
    NoThread = NoThread
    MaxNodes = 3
SPECIFICATION FairSpec
INVARIANTS
    TypeOK
    ListShape
    TokenConservation
    NoFaultBeforeInvalidation
PROPERTIES
    ImplementsFifo
    NoLostWakeup
\* Every thread may end up blocked in P on an empty queue, or the process dies.
CHECK_DEADLOCK FALSE
