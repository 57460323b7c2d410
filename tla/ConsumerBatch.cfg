SPECIFICATION Spec
CONSTANTS
    Members = {m1}
    Partitions = {p1, p2}
    m1 = m1
    p1 = p1
    p2 = p2
    NoMember = NoMember
    NoMessage = NoMessage
    DecodeJson = TRUE
    ConsumeBatch = TRUE
    BatchMaxSize = 2
    EnableAutoCommit = FALSE
    MaxLog = 2
    MaxFaults = 1
SYMMETRY Symmetric
INVARIANTS
    TypeOK
    GracefulStop
PROPERTIES
    ImplementsContract
    HandledOncePerAssignment
    CommitCoversBatch
