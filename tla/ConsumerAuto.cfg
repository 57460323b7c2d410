SPECIFICATION Spec
CONSTANTS
    Members = {m1, m2}
    Partitions = {p1}
    m1 = m1
    m2 = m2
    p1 = p1
    NoMember = NoMember
    NoMessage = NoMessage
    DecodeJson = TRUE
    ConsumeBatch = FALSE
    BatchMaxSize = 1
    EnableAutoCommit = TRUE
    MaxLog = 2
    MaxFaults = 2
SYMMETRY Symmetric
INVARIANTS
    AutoCommitLosesOnlyTheAbandoned
