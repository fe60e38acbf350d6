SPECIFICATION FairQueueSpec
CONSTANTS
    Producer = {p1, p2, p3}
    Consumer = {c1, c2}
    little = little
    small = small
    big = big
    huge = huge
    Item = {little, small, big, huge}
    NoItem = NoItem
    Size <- SizeDef
    ItemCapacity = 2
    ByteCapacity = 2
    MaxPush = 4
INVARIANTS
    QueueInv
PROPERTIES
    Fifo
    PushReturns
    Drained
    ShutdownWakesAll
