SPECIFICATION FairSpec
CONSTANTS
    Members = {m1, m2}
    Partitions = {p1}
    m1 = m1
    m2 = m2
    p1 = p1
    NoMember = NoMember
    NoMessage = NoMessage
    DecodeJson = TRUE
    ConsumeBatch = FALSE
    BatchMaxSize = 1
    EnableAutoCommit = FALSE
    MaxLog = 1
    MaxFaults = 2
PROPERTIES
    StopIsObeyed
    EverythingSettles
