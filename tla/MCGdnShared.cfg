SPECIFICATION Spec
CONSTANTS
    Request = {r1, r2}
    Content = {"a", "b"}
    Prompt <- ManyLengths
    BlockSize = 2
    KernelChunk = 4
    MinReplay = 2
    TokenBudget = 4
    ConvWindow = 2
    MaxNumSeqs = 2
    GdnCapacity = 1
    Modes <- EveryMode
    Preemption = TRUE
    None = None
INVARIANTS
    WorkerMatchesIndex
    CaptureEndsForward
    QueryWithinBudget
CHECK_DEADLOCK FALSE
