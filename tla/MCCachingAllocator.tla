------------------------ MODULE MCCachingAllocator ------------------------
(* Small instances of CachingDeviceAllocator. *)
EXTENDS CachingDeviceAllocator, TLC

Symmetry == Permutations(Ptr) \cup Permutations(Thread)
=============================================================================
