SPECIFICATION Spec
CONSTANTS
    Block = {b1, b2, b3, b4}
    g1 = g1
    g2 = g2
    a = a
    b = b
    Group = {g1, g2}
    N <- Samples
    Token = {a, b}
    Prompts <- SomePrompts
    block_size = 2
    watermark_blocks = 0
    MaxLen = 3
    None = None
SYMMETRY Symmetry
INVARIANTS
    TypeOK
    BlocksArePartitioned
    CheckedAllocationSucceeds
    TablesHoldTheirTokens
CHECK_DEADLOCK FALSE
