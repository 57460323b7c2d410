SPECIFICATION Spec
CONSTANTS
    FirstTime = 0
    LastTime = 3
    MaxOffset = 2
    DictKeys = {"a", "b"}
    Values <- MCValues
    Levels = {0, 1, 2, 3}
CHECK_DEADLOCK FALSE
INVARIANTS
    SchemaIsIdempotent
    SchemaLosesOnlyBlanks
    DiffRedoesAndUndoes
    DiffIsSymmetric
    DiffSeesLostKeysOnly
    SameMomentSameText
    WrittenOnceAndComplete
    LineNamesOneContext
    AuditRefusedForCause
