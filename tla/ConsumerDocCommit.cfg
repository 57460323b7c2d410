SPECIFICATION Spec
CONSTANTS
    Members = {m1}
    Partitions = {p1}
    m1 = m1
    p1 = p1
    NoMember = NoMember
    NoMessage = NoMessage
    DecodeJson = TRUE
    ConsumeBatch = FALSE
    BatchMaxSize = 1
    EnableAutoCommit = FALSE
    MaxLog = 2
    MaxFaults = 1
INVARIANTS
    CommittedImpliesHandled
