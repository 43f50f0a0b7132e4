SPECIFICATION Spec
CONSTANTS
    Request = {r1, r2}
    Content = {"a", "b"}
    Prompt <- Prompts
    BlockSize = 2
    KernelChunk = 4
    MinReplay = 2
    TokenBudget = 4
    ConvWindow = 2
    MaxNumSeqs = 1
    GdnCapacity = 2
    Modes <- EveryMode
    Preemption = FALSE
    None = None
INVARIANTS
    TypeOK
    SavedStateIsPrefixState
    RequestStateMatchesProgress
    NoStepRaises
PROPERTIES
    PrefillCompletes
