SPECIFICATION Spec
CONSTANTS
    Modes <- AllModes
    numel = 3
    topk_num = 1
    num_experts = 2
    block_size = 2
    max_tokens_per_batch = 3
    WARP_SIZE = 2
    FillThreads = 2
    Garbage = 9
INVARIANTS
    TypeOK
    BlocksGroupByExpert
    IndexIsInverse
