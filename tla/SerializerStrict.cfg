SPECIFICATION Spec
CONSTANTS
    Names = {"name", "note", "other"}
    Numbers = {"42"}
    Required <- MCRequired
    Optional <- MCOptional
    Strict = TRUE
    Types <- MCTypes
    Objects = {o1}
    o1 = o1
    NotADict = NotADict
    Hooks <- MCAnyHook
CHECK_DEADLOCK FALSE
INVARIANTS
    TypeOK
    AnswerIsRight
    HookSeesConforming
    DataXorErrors
