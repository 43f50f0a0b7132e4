SPECIFICATION Spec
CONSTANTS
    Hash = {h1, h2, h3, h4}
    GpuBlock = {b1, b2, b3}
    Capacity = 2
    None = None
    Chunked = TRUE
SYMMETRY Symmetry
INVARIANT
    ComputedBlockHoldsContent
