SPECIFICATION Spec
CONSTANTS
    Members = {m1, m2}
    Partitions = {p1}
    m1 = m1
    m2 = m2
    p1 = p1
    NoMember = NoMember
    NoMessage = NoMessage
    DecodeJson = TRUE
    ConsumeBatch = TRUE
    BatchMaxSize = 2
    EnableAutoCommit = FALSE
    MaxLog = 2
    MaxFaults = 2
SYMMETRY Symmetric
INVARIANTS
    IInv
PROPERTIES
    ImplementsContract
