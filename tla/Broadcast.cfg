\* Two broadcasts of a bot to two users, one or both of them active at first, in
\* pages and batches of one, a worker of two slots, one redelivery of each, one event.
SPECIFICATION LiveSpec
CONSTANTS
    NumUsers = 2
    Initially <- MCInitially
    Broadcast = {1, 2}
    PageSize = 1
    ChunkSize = 1
    Slots = 2
    MaxRedelivery = 1
    MaxEvents = 1
INVARIANTS
    TypeOK
    OneAtATime
    LockIsReleased
    NobodyIsMissed
    CopiesAreExplained
    ReportAddsUp
PROPERTIES
    BroadcastEnds
CHECK_DEADLOCK FALSE
