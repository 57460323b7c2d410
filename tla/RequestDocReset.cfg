SPECIFICATION Spec
CONSTANTS
    Threads = {t1}
    t1 = t1
    MaxRequests = 2
    MaxRecords = 2
CHECK_DEADLOCK FALSE
INVARIANTS
    NothingBleeds
