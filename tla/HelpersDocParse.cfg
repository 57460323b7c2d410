SPECIFICATION Spec
CONSTANTS
    FirstTime = 0
    LastTime = 3
    MaxOffset = 2
    DictKeys = {"a"}
    Values <- MCFewValues
    Levels = {1}
CHECK_DEADLOCK FALSE
INVARIANTS
    ParseNeverRaises
