SPECIFICATION Spec
CONSTANTS
    Request = {r1, r2}
    Content = {"a", "b"}
    Prompt <- GrowingPrompts
    BlockSize = 2
    KernelChunk = 4
    MinReplay = 2
    TokenBudget = 4
    ConvWindow = 2
    MaxNumSeqs = 2
    GdnCapacity = 2
    Modes <- AdmissionMode
    Preemption = TRUE
    None = None
INVARIANT
    RequestStateMatchesProgress
CHECK_DEADLOCK FALSE
