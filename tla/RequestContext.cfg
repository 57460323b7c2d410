SPECIFICATION Spec
CONSTANTS
    Threads = {t1, t2}
    t1 = t1
    t2 = t2
    MaxRequests = 3
    MaxRecords = 4
CHECK_DEADLOCK FALSE
SYMMETRY Symmetric
INVARIANTS
    IInv
    RecordsNameTheirRequest
    OnlyCompletionIsTimed
