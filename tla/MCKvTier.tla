------------------------------ MODULE MCKvTier ------------------------------
(* Model values and symmetry for checking KvTier on small instances. *)
EXTENDS KvTier, TLC

Symmetry == Permutations(Hash) \cup Permutations(GpuBlock)
=============================================================================
