SPECIFICATION Spec
CONSTANTS
    Request = {r1, r2, r3}
    MaxN = 2
    MaxPrompt = 3
    MaxSteps = 4
    BlockSize = 2
    TokenBudget = 6
    MaxNumSeqs = 3
SYMMETRY Symmetry
INVARIANTS
    TypeOK
    StateFollowsSequence
    MappedIsLive
    RowsSufficeForBatch
CHECK_DEADLOCK FALSE
