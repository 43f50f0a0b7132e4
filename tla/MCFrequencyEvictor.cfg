SPECIFICATION Spec
CONSTANTS
    Block = {0, 1}
    Hash = {h1, h2}
    Time = {0, 1}
    Tokens = {1, 2}
    MaxGeneration = 4
    None = None
INVARIANTS
    TypeOK
    EvictFindsEntry
    HeapIsBounded
PROPERTIES
    AbstractSpec
    EvictReturns
CHECK_DEADLOCK FALSE
