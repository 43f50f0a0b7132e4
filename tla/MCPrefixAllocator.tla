--------------------------- MODULE MCPrefixAllocator ---------------------------
EXTENDS PrefixCachingAllocator

CONSTANTS g1, g2, a, b

Samples == g1 :> 2 @@ g2 :> 1
SomePrompts == {<<a>>, <<a, a>>, <<a, b, a>>, <<a, a, a, a, a, a, a, a, a>>}
Symmetry == Permutations(Block)
=============================================================================
