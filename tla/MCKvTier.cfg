SPECIFICATION Spec
CONSTANTS
    Hash = {h1, h2, h3, h4}
    GpuBlock = {b1, b2, b3}
    Capacity = 2
    None = None
    Chunked = FALSE
SYMMETRY Symmetry
INVARIANTS
    TypeOK
    IndexConsistent
    ReadySlotHoldsContent
    ComputedBlockHoldsContent
    VictimIsPreserved
    OneBlockPerHash
    NoOperationRaises
PROPERTIES
    PinnedSlotKeepsEntry
