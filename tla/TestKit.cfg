SPECIFICATION Spec
CONSTANTS
    MaxCalls = 2
    MaxTests = 3
    OtherMetrics <- MCOtherMetrics
CHECK_DEADLOCK FALSE
INVARIANTS
    CapturedAsCalled
    FakeAnswersLikeProducer
    RegistryHoldsTheLasting
