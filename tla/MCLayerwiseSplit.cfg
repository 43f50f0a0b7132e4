SPECIFICATION Spec
CONSTANTS
    NumLayers = 4
    world_size = 3
    HeadCounts = {1, 2, 4, 5}
    Builds = {"ilu", "mlu", "npu", "cuda"}
    Dtypes = {1, 2, 7, 15}
    head_dim = 3
    ValueDims = {0, 3, 5}
    WarpSize = 2
    BlockTokens = 1
    HbmPerCard = 120
INVARIANTS
    TypeOK
    HeadsArePlacedOnce
    SmallLayersAreBalanced
    EstimateCoversAllocation
