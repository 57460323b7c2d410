SPECIFICATION FairSpec
CONSTANTS
    Threads = {t1, t2}
    t1 = t1
    t2 = t2
    MaxQueue = 2
    MaxCalls = 3
CHECK_DEADLOCK FALSE
INVARIANTS
    TypeOK
    MessageHasOnePlace
    DroppedIsBufferFull
    FlushWaits
PROPERTIES
    ImplementsProduceContract
    OutcomesAreServed
