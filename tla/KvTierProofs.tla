---------------------------- MODULE KvTierProofs ----------------------------
(***************************************************************************)
(* Proofs about KvTier for every number of hashes, GPU blocks and CPU      *)
(* slots.  The index invariants (Index) need no assumption on the forward  *)
(* pass; the content invariants (Content) need Chunked = FALSE.            *)
(***************************************************************************)
EXTENDS KvTier, TLAPS

----------------------------------------------------------------------------
(* The inductive invariant *)

\* What may be left over from a step, phase by phase.
PhaseInv ==
    /\ phase \in {"idle", "execute"} =>
         /\ step_slots_in_use = {} /\ step_load_slots = {}
         /\ step_h2d = NoSwapIn /\ step_d2h = NoSwapOut
         /\ deferred_d2h = <<>> /\ step_blocks = {}
    /\ phase \in {"schedule", "drain"} => pending_ready_slots = {}
    /\ phase # "schedule" => claim = None
    /\ phase # "execute" => swap_in = NoSwapIn /\ swap_out = NoSwapOut

\* Which slots the step pins, and why: loads pin ready slots, stores pin slots
\* that are not.
PinInv ==
    /\ ready_slots \subseteq resident
    /\ pending_ready_slots \subseteq resident \ ready_slots
    /\ step_load_slots \subseteq ready_slots
    /\ step_slots_in_use = step_load_slots \cup d2h_targets
    /\ d2h_targets \subseteq resident \ ready_slots
    /\ claim # None => /\ hash_to_slot[claim] \in step_load_slots
                       /\ hash_to_slot[claim] \notin h2d_sources
    /\ step_load_slots = h2d_sources \cup
                         (IF claim = None THEN {} ELSE {hash_to_slot[claim]})

\* The blocks at either end of a staged transfer belong to requests of this
\* step, and no destination is staged twice.
MapInv ==
    /\ step_blocks \subseteq held
    /\ \A s \in Slot : step_h2d[s] # None =>
         step_h2d[s] \in step_blocks /\ gpu_hash[step_h2d[s]] = slot_to_hash[s]
    /\ \A b \in GpuBlock : step_d2h[b] # None => b \in step_blocks
    /\ \A b, c \in GpuBlock : step_d2h[b] # None /\ step_d2h[b] = step_d2h[c] => b = c

\* Stores waiting for a slot: the blocks and the hashes are new to the maps.
DeferInv ==
    /\ deferred_d2h # <<>> => free_slots = {}
    /\ \A i \in 1 .. Len(deferred_d2h) :
         /\ deferred_d2h[i][1] \in step_blocks
         /\ step_d2h[deferred_d2h[i][1]] = None
         /\ hash_to_slot[deferred_d2h[i][2]] = None
    /\ \A i, j \in 1 .. Len(deferred_d2h) :
         deferred_d2h[i][1] = deferred_d2h[j][1] \/ deferred_d2h[i][2] = deferred_d2h[j][2]
         => i = j

\* The maps in flight to the worker.
FlightInv ==
    /\ \A s \in Slot : swap_in[s] # None =>
         s \in ready_slots /\ gpu_hash[swap_in[s]] = slot_to_hash[s]
    /\ \A b \in GpuBlock : swap_out[b] # None => swap_out[b] \in pending_ready_slots
    /\ phase = "execute" =>
         \A s \in pending_ready_slots : \E b \in GpuBlock : swap_out[b] = s

Index ==
    /\ TypeOK /\ IndexConsistent /\ OneBlockPerHash /\ TransfersAreIndependent
    /\ PhaseInv /\ PinInv /\ MapInv /\ DeferInv /\ FlightInv

\* Where the values of each content are.
DataInv ==
    /\ ReadySlotHoldsContent
    /\ VictimIsPreserved
    /\ \A b \in GpuBlock : step_d2h[b] # None => gpu_data[b] = slot_to_hash[step_d2h[b]]
    /\ \A b \in GpuBlock : swap_out[b] # None => gpu_data[b] = slot_to_hash[swap_out[b]]
    /\ \A i \in 1 .. Len(deferred_d2h) : gpu_data[deferred_d2h[i][1]] = deferred_d2h[i][2]
    /\ \A b \in GpuBlock : gpu_hash[b] # None =>
         \/ b \in to_compute
         \/ b \in h2d_targets
         \/ \E s \in Slot : swap_in[s] = b
         \/ gpu_data[b] = gpu_hash[b]
    /\ to_compute \subseteq held
    /\ phase = "idle" => to_compute = {}
    /\ phase \in {"schedule", "drain"} => to_compute \subseteq step_blocks

Content == Index /\ DataInv

\* None is not a slot.
LEMMA NoneNotSlot == None \notin Slot
BY NoneAssumption, CapacityAssumption DEF Slot

----------------------------------------------------------------------------
(* Type correctness *)

\* Each way of taking a block id keeps the index well typed; the three methods
\* that call _allocate_block_id share this.
LEMMA AllocateBlockIdType ==
    ASSUME TypeOK, NEW b \in GpuBlock, allocate_block_id(b),
           step_h2d' \in [Slot -> GpuBlock \cup {None}]
    PROVE  CacheTypeOK'
<1> USE DEF TypeOK, CacheTypeOK, TierTypeOK, touch, resident
<1>1. CASE b \in hashless_free /\ UNCHANGED <<hash_to_slot, slot_to_hash, ready_slots,
             lru, free_slots, step_slots_in_use, step_load_slots, step_d2h, deferred_d2h,
             pending_ready_slots>>
  BY <1>1
<1>2. CASE b \in evictable /\ stage_store(gpu_hash[b], b)
  <2>1. gpu_hash[b] \in Hash
    BY <1>2 DEF evictable
  <2>2. CASE stage_store_deduplicated(gpu_hash[b])
    BY <1>2, <2>1, <2>2 DEF stage_store, stage_store_deduplicated
  <2>3. CASE stage_store_committed(gpu_hash[b], b)
    BY <1>2, <2>1, <2>3 DEF stage_store, stage_store_committed, commit_store
  <2>4. CASE stage_store_deferred(gpu_hash[b], b)
    BY <1>2, <2>1, <2>4 DEF stage_store, stage_store_deferred
  <2>5. QED
    BY <1>2, <2>2, <2>3, <2>4 DEF stage_store
<1>3. QED
  BY <1>1, <1>2 DEF allocate_block_id

\* Every operation of the tier keeps every variable in its type.
LEMMA TypeStep == TypeOK /\ [Next]_vars => TypeOK'
<1> SUFFICES ASSUME TypeOK, [Next]_vars PROVE TypeOK'
  OBVIOUS
<1> USE DEF TypeOK, CacheTypeOK, TierTypeOK, touch, resident, gpuVars, workerVars, cacheVars,
           NoSwapIn, NoSwapOut
<1>1. CASE BeginStep
  BY <1>1 DEF BeginStep, begin_step
<1>2. ASSUME NEW b \in GpuBlock, HitGpuBlock(b) PROVE TypeOK'
  BY <1>2 DEF HitGpuBlock
<1>3. ASSUME NEW h \in Hash, ClaimRestore(h) PROVE TypeOK'
  BY <1>3 DEF ClaimRestore, claim_load, is_ready
<1>4. ASSUME NEW b \in GpuBlock, FinishRestore(b) PROVE TypeOK'
  <2>1. step_h2d' \in [Slot -> GpuBlock \cup {None}]
    BY <1>4 DEF FinishRestore, stage_load, stage_load_raises
  <2>2. CacheTypeOK'
    BY <1>4, <2>1, AllocateBlockIdType DEF FinishRestore
  <2>3. TierTypeOK'
    BY <1>4 DEF FinishRestore
  <2>4. QED
    BY <2>2, <2>3
<1>5. CASE CancelRestore
  BY <1>5 DEF CancelRestore, cancel_load
<1>6. ASSUME NEW h \in Hash, NEW b \in GpuBlock, AllocateImmutable(h, b) PROVE TypeOK'
  <2>1. CacheTypeOK'
    BY <1>6, AllocateBlockIdType DEF AllocateImmutable
  <2>2. TierTypeOK'
    BY <1>6 DEF AllocateImmutable
  <2>3. QED
    BY <2>1, <2>2
<1>7. ASSUME NEW b \in GpuBlock, AllocateMutable(b) PROVE TypeOK'
  <2>1. CacheTypeOK'
    BY <1>7, AllocateBlockIdType DEF AllocateMutable
  <2>2. TierTypeOK'
    BY <1>7 DEF AllocateMutable
  <2>3. QED
    BY <2>1, <2>2
<1>8. ASSUME NEW b \in GpuBlock, NEW h \in Hash, PromoteToImmutable(b, h) PROVE TypeOK'
  BY <1>8 DEF PromoteToImmutable
<1>9. ASSUME NEW b \in GpuBlock, NEW c \in GpuBlock, PromoteToCached(b, c) PROVE TypeOK'
  BY <1>9 DEF PromoteToCached
<1>10. ASSUME NEW b \in GpuBlock, Free(b) PROVE TypeOK'
  BY <1>10 DEF Free
<1>11. CASE EndScheduling
  BY <1>11 DEF EndScheduling
<1>12. CASE ResolveDeferred
  <2>1. CASE skip_all_deferred
    BY <1>12, <2>1 DEF ResolveDeferred, skip_all_deferred
  <2>2. CASE skip_deferred
    <3>1. Tail(deferred_d2h) \in Seq(GpuBlock \X Hash)
      BY <2>2 DEF skip_deferred
    <3>2. QED
      BY <1>12, <2>2, <3>1 DEF ResolveDeferred, skip_deferred
  <2>3. CASE commit_deferred
    <3>1. Head(deferred_d2h) \in GpuBlock \X Hash /\ Tail(deferred_d2h) \in Seq(GpuBlock \X Hash)
      BY <2>3 DEF commit_deferred
    <3>2. QED
      BY <1>12, <2>3, <3>1 DEF ResolveDeferred, commit_deferred, commit_store
  <2>4. QED
    BY <1>12, <2>1, <2>2, <2>3 DEF ResolveDeferred
<1>13. CASE DrainStep
  BY <1>13 DEF DrainStep, drain_step, d2h_targets, d2h_sources
<1>14. ASSUME NEW done \in SUBSET GpuBlock, WorkerExecute(done) PROVE TypeOK'
  <2>1. \A s \in Slot : after_swap_out(s) \in Hash \cup {None}
    BY DEF after_swap_out
  <2>2. \A b \in GpuBlock : after_forward(b, done) \in Hash \cup {None}
    BY <2>1 DEF after_forward, after_swap_in
  <2>3. QED
    BY <1>14, <2>1, <2>2 DEF WorkerExecute
<1>15. CASE UNCHANGED vars
  BY <1>15 DEF vars
<1>16. QED
  BY <1>1, <1>2, <1>3, <1>4, <1>5, <1>6, <1>7, <1>8, <1>9, <1>10, <1>11, <1>12, <1>13,
     <1>14, <1>15 DEF Next

\* The type invariant of KvTier (the state of cpu_kv_content_cache.py, of the
\* GPU allocator and of the worker) holds in every behaviour.
THEOREM TypeCorrect == Spec => []TypeOK
<1>1. Init => TypeOK
  BY CapacityAssumption DEF Init, CacheInit, TypeOK, CacheTypeOK, TierTypeOK, NoSwapIn, NoSwapOut
<1>2. QED
  BY <1>1, TypeStep, PTL DEF Spec

----------------------------------------------------------------------------
(* The index invariants *)

\* What taking a block id does to the index, whichever way it goes: the block was
\* nobody's, entries in use stay, and a store goes to a slot no transfer pins.
AllocateEffect(b) ==
    /\ b \notin held
    /\ IndexConsistent'
    /\ ready_slots' = ready_slots
    /\ step_load_slots' = step_load_slots /\ pending_ready_slots' = pending_ready_slots
    /\ \A s \in Slot : slot_to_hash[s] # None => slot_to_hash'[s] = slot_to_hash[s]
    /\ \A h \in Hash : h # gpu_hash[b] => hash_to_slot'[h] = hash_to_slot[h]
    /\ step_slots_in_use' = step_load_slots \cup d2h_targets'
    /\ d2h_targets' \subseteq {s \in Slot : slot_to_hash'[s] # None} \ ready_slots
    /\ \A c \in GpuBlock : c # b => step_d2h'[c] = step_d2h[c]
    /\ \A c, d \in GpuBlock : step_d2h'[c] # None /\ step_d2h'[c] = step_d2h'[d] => c = d
    /\ deferred_d2h' # <<>> => free_slots' = {}
    /\ \A i \in 1 .. Len(deferred_d2h') :
         /\ deferred_d2h'[i][1] \in step_blocks \cup {b}
         /\ step_d2h'[deferred_d2h'[i][1]] = None
         /\ hash_to_slot'[deferred_d2h'[i][2]] = None
    /\ \A i, j \in 1 .. Len(deferred_d2h') :
         \/ deferred_d2h'[i][1] = deferred_d2h'[j][1]
         \/ deferred_d2h'[i][2] = deferred_d2h'[j][2]
         => i = j

\* What _allocate_block_id does to the index: from a free id, from an evicted
\* block, and with a claim on a slot.
LEMMA AllocateBlockIdEffect ==
    ASSUME Index, phase = "schedule", NEW b \in GpuBlock, allocate_block_id(b), TypeOK'
    PROVE  AllocateEffect(b)
<1> USE NoneAssumption, NoneNotSlot DEF Index, TypeOK, CacheTypeOK, TierTypeOK
<1>1. b \notin held /\ b \notin step_blocks
  BY DEF allocate_block_id, hashless_free, evictable, MapInv
<1>2. CASE b \in hashless_free /\ UNCHANGED <<hash_to_slot, slot_to_hash, ready_slots,
             lru, free_slots, step_slots_in_use, step_load_slots, step_d2h, deferred_d2h,
             pending_ready_slots>>
  BY <1>1, <1>2 DEF AllocateEffect, IndexConsistent, PinInv, MapInv, DeferInv, d2h_targets,
     d2h_sources, resident
<1>3. CASE b \in evictable /\ stage_store(gpu_hash[b], b)
  <2>1. gpu_hash[b] \in Hash
    BY <1>3 DEF evictable
  <2>2. CASE stage_store_deduplicated(gpu_hash[b])
    BY <1>1, <1>3, <2>1, <2>2 DEF stage_store, stage_store_deduplicated, AllocateEffect,
       IndexConsistent, PinInv, MapInv, DeferInv, d2h_targets, d2h_sources, resident
  <2>3. CASE stage_store_committed(gpu_hash[b], b)
    <3>1. PICK slot \in Slot : /\ slot \in free_slots
                               /\ commit_store(gpu_hash[b], b, slot)
                               /\ free_slots' = free_slots \ {slot}
      BY <2>3 DEF stage_store_committed, heappop
    <3>2. slot_to_hash[slot] = None /\ hash_to_slot[gpu_hash[b]] = None
      BY <3>1, <2>3 DEF IndexConsistent, stage_store_committed, stage_store_is_duplicate
    <3>3. deferred_d2h = <<>> /\ UNCHANGED deferred_d2h
      BY <3>1, <2>3 DEF DeferInv, stage_store_committed
    <3>4. step_d2h' = [step_d2h EXCEPT ![b] = slot] /\ step_d2h[b] = None
      BY <3>1, <1>1 DEF commit_store, MapInv
    <3>5. d2h_targets' = d2h_targets \cup {slot}
      BY <3>4 DEF d2h_targets, d2h_sources
    <3>6. ready_slots' = ready_slots /\ slot \notin d2h_targets /\ slot \notin ready_slots
      BY <3>1, <3>2 DEF commit_store, PinInv, resident
    <3>7. IndexConsistent'
      <4>1. /\ hash_to_slot' = [g \in Hash |-> IF g = gpu_hash[b] THEN slot ELSE hash_to_slot[g]]
            /\ slot_to_hash' = [slot_to_hash EXCEPT ![slot] = gpu_hash[b]]
        BY <3>1, <3>2 DEF commit_store
      <4>2. QED
        BY <4>1, <3>1, <3>2, <2>1 DEF IndexConsistent
    <3>8. step_slots_in_use' = step_load_slots \cup d2h_targets'
      BY <3>1, <3>5 DEF commit_store, PinInv
    <3>9. d2h_targets' \subseteq {s \in Slot : slot_to_hash'[s] # None} \ ready_slots
      BY <3>1, <3>5, <3>6, <2>1 DEF commit_store, PinInv, resident
    <3>10. \A c, d \in GpuBlock : step_d2h'[c] # None /\ step_d2h'[c] = step_d2h'[d] => c = d
      BY <3>4, <3>6 DEF MapInv, d2h_targets, d2h_sources
    <3>11. \A h \in Hash : h # gpu_hash[b] => hash_to_slot'[h] = hash_to_slot[h]
      BY <3>1, <3>2 DEF commit_store
    <3>12. \A s \in Slot : slot_to_hash[s] # None => slot_to_hash'[s] = slot_to_hash[s]
      BY <3>1, <3>2 DEF commit_store
    <3>13. QED
      BY <1>1, <1>3, <3>3, <3>4, <3>6, <3>7, <3>8, <3>9, <3>10, <3>11, <3>12
      DEF AllocateEffect, stage_store
  <2>4. CASE stage_store_deferred(gpu_hash[b], b)
    <3>1. /\ deferred_d2h' = Append(deferred_d2h, <<b, gpu_hash[b]>>)
          /\ UNCHANGED <<hash_to_slot, slot_to_hash, ready_slots, lru, free_slots,
                         step_slots_in_use, step_d2h, step_load_slots, pending_ready_slots>>
          /\ free_slots = {}
          /\ hash_to_slot[gpu_hash[b]] = None
          /\ gpu_hash[b] \notin deferred_hashes
      BY <1>3, <2>4 DEF stage_store, stage_store_deferred, stage_store_is_duplicate
    <3>2. step_d2h[b] = None /\ \A i \in 1 .. Len(deferred_d2h) : deferred_d2h[i][1] # b
      BY <1>1 DEF MapInv, DeferInv
    <3>3. \A i \in 1 .. Len(deferred_d2h) : deferred_d2h[i][2] # gpu_hash[b]
      BY <3>1 DEF deferred_hashes
    <3>4. /\ Len(deferred_d2h') = Len(deferred_d2h) + 1
          /\ deferred_d2h'[Len(deferred_d2h) + 1] = <<b, gpu_hash[b]>>
          /\ \A i \in 1 .. Len(deferred_d2h) : deferred_d2h'[i] = deferred_d2h[i]
      BY <3>1, <2>1
    <3>5. \A i \in 1 .. Len(deferred_d2h') :
             /\ deferred_d2h'[i][1] \in step_blocks \cup {b}
             /\ step_d2h'[deferred_d2h'[i][1]] = None
             /\ hash_to_slot'[deferred_d2h'[i][2]] = None
      BY <3>1, <3>2, <3>4 DEF DeferInv
    <3>6. \A i, j \in 1 .. Len(deferred_d2h') :
             \/ deferred_d2h'[i][1] = deferred_d2h'[j][1]
             \/ deferred_d2h'[i][2] = deferred_d2h'[j][2]
             => i = j
      <4> SUFFICES ASSUME NEW i \in 1 .. Len(deferred_d2h'), NEW j \in 1 .. Len(deferred_d2h'),
                          \/ deferred_d2h'[i][1] = deferred_d2h'[j][1]
                          \/ deferred_d2h'[i][2] = deferred_d2h'[j][2]
                   PROVE  i = j
        OBVIOUS
      <4>1. CASE i \in 1 .. Len(deferred_d2h) /\ j \in 1 .. Len(deferred_d2h)
        BY <4>1, <3>4 DEF DeferInv
      <4>2. CASE i = Len(deferred_d2h) + 1 /\ j \in 1 .. Len(deferred_d2h)
        <5>1. deferred_d2h'[i][1] = b /\ deferred_d2h'[i][2] = gpu_hash[b]
          BY <4>2, <3>4
        <5>2. deferred_d2h'[j] = deferred_d2h[j]
          BY <4>2, <3>4
        <5>3. QED
          BY <4>2, <5>1, <5>2, <3>2, <3>3
      <4>3. CASE j = Len(deferred_d2h) + 1 /\ i \in 1 .. Len(deferred_d2h)
        <5>1. deferred_d2h'[j][1] = b /\ deferred_d2h'[j][2] = gpu_hash[b]
          BY <4>3, <3>4
        <5>2. deferred_d2h'[i] = deferred_d2h[i]
          BY <4>3, <3>4
        <5>3. QED
          BY <4>3, <5>1, <5>2, <3>2, <3>3
      <4>4. Len(deferred_d2h) \in Nat
        OBVIOUS
      <4>5. QED
        BY <4>1, <4>2, <4>3, <4>4, <3>4
    <3>7. IndexConsistent'
      BY <3>1 DEF IndexConsistent
    <3>8. d2h_targets' = d2h_targets
      BY <3>1 DEF d2h_targets, d2h_sources
    <3>9. QED
      BY <1>1, <3>1, <3>5, <3>6, <3>7, <3>8 DEF AllocateEffect, PinInv, MapInv, resident
  <2>5. QED
    BY <1>3, <2>2, <2>3, <2>4 DEF stage_store
<1>4. QED
  BY <1>2, <1>3 DEF allocate_block_id

\* The three callers of _allocate_block_id preserve the parts of the index
\* invariant that speak of the block taken: g is what the block is cached under
\* afterwards.
LEMMA AllocateKeepsIndex ==
    ASSUME Index, TypeOK', phase = "schedule", phase' = "schedule",
           NEW b \in GpuBlock, NEW g \in Hash \cup {None}, AllocateEffect(b),
           g # None => ~is_cached(g),
           claim # None => claim # gpu_hash[b],
           gpu_hash' = [gpu_hash EXCEPT ![b] = g],
           held' = held \cup {b}, step_blocks' = step_blocks \cup {b},
           \/ claim = None /\ claim' = None /\ step_h2d' = step_h2d
           \/ /\ claim # None /\ claim' = None /\ g = claim
              /\ step_h2d' = [step_h2d EXCEPT ![hash_to_slot[claim]] = b],
           UNCHANGED <<swap_in, swap_out>>
    PROVE  Index'
<1> USE NoneAssumption, NoneNotSlot DEF Index, TypeOK, CacheTypeOK, TierTypeOK
<1>1. OneBlockPerHash'
  BY DEF OneBlockPerHash, is_cached
<1>2. IndexConsistent' /\ TransfersAreIndependent'
  BY DEF AllocateEffect, TransfersAreIndependent
<1>3. PhaseInv'
  BY DEF PhaseInv, AllocateEffect
<1>4. FlightInv'
  BY DEF FlightInv, AllocateEffect, PhaseInv, NoSwapIn, NoSwapOut
<1>5. MapInv'
  <2>1. step_blocks' \subseteq held'
    BY DEF MapInv
  <2>2. \A c \in GpuBlock : step_d2h'[c] # None => c \in step_blocks'
    BY DEF MapInv, AllocateEffect
  <2>3. b \notin step_blocks
    BY DEF MapInv, AllocateEffect
  <2>4. ASSUME NEW s \in Slot, step_h2d'[s] # None
        PROVE  step_h2d'[s] \in step_blocks' /\ gpu_hash'[step_h2d'[s]] = slot_to_hash'[s]
    <3>1. CASE step_h2d'[s] = step_h2d[s]
      <4>1. step_h2d[s] \in step_blocks /\ gpu_hash[step_h2d[s]] = slot_to_hash[s]
        BY <2>4, <3>1 DEF MapInv
      <4>2. slot_to_hash[s] # None
        BY <2>4, <3>1 DEF PinInv, h2d_sources, resident
      <4>3. QED
        BY <3>1, <4>1, <4>2, <2>3 DEF AllocateEffect
    <3>2. CASE claim # None /\ s = hash_to_slot[claim] /\ step_h2d'[s] = b /\ g = claim
      <4>1. slot_to_hash[s] = claim
        BY <3>2 DEF IndexConsistent, PinInv
      <4>2. QED
        BY <3>2, <4>1 DEF AllocateEffect
    <3>3. QED
      BY <3>1, <3>2
  <2>5. QED
    BY <2>1, <2>2, <2>4 DEF MapInv, AllocateEffect
<1>6. DeferInv'
  BY DEF DeferInv, AllocateEffect
<1>7. PinInv'
  <2>1. resident \subseteq resident' /\ resident' = {s \in Slot : slot_to_hash'[s] # None}
    BY DEF resident, AllocateEffect
  <2>2. /\ ready_slots' \subseteq resident'
        /\ pending_ready_slots' \subseteq resident' \ ready_slots'
        /\ step_load_slots' \subseteq ready_slots'
        /\ step_slots_in_use' = step_load_slots' \cup d2h_targets'
        /\ d2h_targets' \subseteq resident' \ ready_slots'
    BY <2>1 DEF PinInv, AllocateEffect
  <2>3. CASE claim = None /\ claim' = None /\ step_h2d' = step_h2d
    BY <2>2, <2>3 DEF PinInv, AllocateEffect, h2d_sources
  <2>4. CASE /\ claim # None /\ claim' = None /\ g = claim
             /\ step_h2d' = [step_h2d EXCEPT ![hash_to_slot[claim]] = b]
    <3>1. h2d_sources' = h2d_sources \cup {hash_to_slot[claim]}
      BY <2>4 DEF h2d_sources, PinInv
    <3>2. QED
      BY <2>2, <2>4, <3>1 DEF PinInv, AllocateEffect
  <2>5. QED
    BY <2>3, <2>4
<1>8. QED
  BY <1>1, <1>2, <1>3, <1>4, <1>5, <1>6, <1>7

\* One iteration of the loop of _resolve_deferred_stores that finds a slot.
LEMMA CommitDeferredKeepsIndex ==
    ASSUME Index, TypeOK', phase = "drain", commit_deferred,
           UNCHANGED <<gpuVars, workerVars, claim, phase>>
    PROVE  Index'
<1> USE NoneAssumption, NoneNotSlot DEF Index, TypeOK, CacheTypeOK, TierTypeOK
<1> DEFINE b == Head(deferred_d2h)[1]
           h == Head(deferred_d2h)[2]
<1>1. /\ deferred_d2h # <<>> /\ Len(deferred_d2h) \in Nat \ {0}
      /\ b = deferred_d2h[1][1] /\ h = deferred_d2h[1][2]
      /\ b \in GpuBlock /\ h \in Hash
      /\ deferred_d2h' = Tail(deferred_d2h)
      /\ step_load_slots = {}
  BY DEF commit_deferred
<1>2. PICK slot \in Slot : is_lru_slot(slot) /\ commit_store(h, b, slot)
  BY DEF commit_deferred
<1> HIDE DEF b, h
<1>3. slot_to_hash[slot] \in Hash /\ slot \notin step_slots_in_use
  BY <1>2 DEF is_lru_slot, replaceable, resident
<1>4. /\ b \in step_blocks /\ step_d2h[b] = None /\ hash_to_slot[h] = None
      /\ h # slot_to_hash[slot]
  BY <1>1, <1>2, <1>3 DEF DeferInv, IndexConsistent
<1>5. /\ hash_to_slot' = [g \in Hash |-> IF g = h THEN slot
                                         ELSE IF g = slot_to_hash[slot] THEN None
                                         ELSE hash_to_slot[g]]
      /\ slot_to_hash' = [slot_to_hash EXCEPT ![slot] = h]
      /\ ready_slots' = ready_slots \ {slot}
      /\ step_slots_in_use' = step_slots_in_use \cup {slot}
      /\ step_d2h' = [step_d2h EXCEPT ![b] = slot]
      /\ UNCHANGED <<free_slots, step_load_slots, step_h2d, pending_ready_slots>>
  BY <1>2 DEF commit_store, commit_deferred
<1>6. claim = None /\ pending_ready_slots = {} /\ swap_in = NoSwapIn /\ swap_out = NoSwapOut
  BY DEF PhaseInv
<1>7. d2h_targets' = d2h_targets \cup {slot} /\ slot \notin d2h_targets
  BY <1>3, <1>4, <1>5, <1>1 DEF d2h_targets, d2h_sources, PinInv
<1>8. IndexConsistent'
  BY <1>1, <1>3, <1>4, <1>5 DEF IndexConsistent
<1>9. PinInv'
  <2>1. h2d_sources = {} /\ h2d_sources' = {}
    BY <1>1, <1>5, <1>6 DEF PinInv, h2d_sources
  <2>2. resident' = resident
    BY <1>1, <1>3, <1>5 DEF resident
  <2>3. slot \in resident
    BY <1>2 DEF is_lru_slot, replaceable
  <2>4. QED
    BY <1>1, <1>5, <1>6, <1>7, <2>1, <2>2, <2>3 DEF PinInv
<1>10. MapInv'
  <2>1. \A s \in Slot : step_h2d[s] = None
    BY <1>1, <1>6 DEF PinInv, h2d_sources
  <2>2. \A c, d \in GpuBlock : step_d2h'[c] # None /\ step_d2h'[c] = step_d2h'[d] => c = d
    BY <1>5, <1>7 DEF MapInv, d2h_targets, d2h_sources
  <2>3. QED
    BY <1>4, <1>5, <2>1, <2>2 DEF MapInv, gpuVars
<1>11. DeferInv'
  <2>1. /\ Len(deferred_d2h') = Len(deferred_d2h) - 1
        /\ \A i \in 1 .. Len(deferred_d2h') :
              i + 1 \in 2 .. Len(deferred_d2h) /\ deferred_d2h'[i] = deferred_d2h[i + 1]
    BY <1>1
  <2>2. \A i \in 2 .. Len(deferred_d2h) : deferred_d2h[i][1] # b /\ deferred_d2h[i][2] # h
    BY <1>1 DEF DeferInv
  <2>3. \A i \in 2 .. Len(deferred_d2h) :
           /\ deferred_d2h[i][1] \in step_blocks /\ step_d2h'[deferred_d2h[i][1]] = None
           /\ hash_to_slot'[deferred_d2h[i][2]] = None
    BY <1>1, <1>5, <2>2 DEF DeferInv
  <2>4. ASSUME NEW i \in 1 .. Len(deferred_d2h'), NEW j \in 1 .. Len(deferred_d2h'),
               \/ deferred_d2h'[i][1] = deferred_d2h'[j][1]
               \/ deferred_d2h'[i][2] = deferred_d2h'[j][2]
        PROVE  i = j
    <3>1. /\ i + 1 \in 1 .. Len(deferred_d2h) /\ j + 1 \in 1 .. Len(deferred_d2h)
          /\ deferred_d2h'[i] = deferred_d2h[i + 1] /\ deferred_d2h'[j] = deferred_d2h[j + 1]
      BY <2>1
    <3>2. i + 1 = j + 1
      BY <2>4, <3>1 DEF DeferInv
    <3>3. QED
      BY <3>2
  <2>5. free_slots = {} /\ free_slots' = {}
    BY <1>1, <1>5 DEF DeferInv
  <2>6. \A i \in 1 .. Len(deferred_d2h') :
           /\ deferred_d2h'[i][1] \in step_blocks' /\ step_d2h'[deferred_d2h'[i][1]] = None
           /\ hash_to_slot'[deferred_d2h'[i][2]] = None
    <3> SUFFICES ASSUME NEW i \in 1 .. Len(deferred_d2h')
                 PROVE  /\ deferred_d2h'[i][1] \in step_blocks'
                        /\ step_d2h'[deferred_d2h'[i][1]] = None
                        /\ hash_to_slot'[deferred_d2h'[i][2]] = None
      OBVIOUS
    <3>1. step_blocks' = step_blocks
      BY DEF gpuVars
    <3>2. i + 1 \in 2 .. Len(deferred_d2h) /\ deferred_d2h'[i] = deferred_d2h[i + 1]
      BY <2>1
    <3>3. QED
      BY <2>3, <3>1, <3>2
  <2>7. QED
    BY <2>4, <2>5, <2>6 DEF DeferInv
<1>12. OneBlockPerHash' /\ TransfersAreIndependent'
  BY DEF OneBlockPerHash, is_cached, TransfersAreIndependent, gpuVars, workerVars
<1>13. PhaseInv' /\ FlightInv'
  BY <1>5, <1>6 DEF PhaseInv, FlightInv, NoSwapIn, NoSwapOut, workerVars
<1>14. QED
  BY <1>8, <1>9, <1>10, <1>11, <1>12, <1>13

\* Every operation of the tier preserves the index invariant.
LEMMA IndexStep == Index /\ [Next]_vars => Index'
<1> SUFFICES ASSUME Index, [Next]_vars PROVE Index'
  OBVIOUS
<1> USE NoneAssumption, NoneNotSlot
<1>0. TypeOK /\ TypeOK'
  BY TypeStep DEF Index
<1>1. CASE BeginStep
  <2>1. IndexConsistent' /\ OneBlockPerHash' /\ TransfersAreIndependent' /\ MapInv' /\ DeferInv'
    BY <1>1 DEF BeginStep, begin_step, gpuVars, workerVars, Index, IndexConsistent,
       OneBlockPerHash, is_cached, TransfersAreIndependent, MapInv, DeferInv
  <2>2. PhaseInv' /\ FlightInv'
    BY <1>1 DEF BeginStep, begin_step, gpuVars, workerVars, Index, PhaseInv, FlightInv, NoSwapIn,
       NoSwapOut
  <2>3. PinInv'
    BY <1>1 DEF BeginStep, begin_step, gpuVars, workerVars, Index, PinInv, PhaseInv, resident,
       h2d_sources, d2h_targets, d2h_sources, NoSwapOut
  <2>4. QED
    BY <1>0, <2>1, <2>2, <2>3 DEF Index
<1>2. ASSUME NEW b \in GpuBlock, HitGpuBlock(b) PROVE Index'
  BY <1>0, <1>2 DEF HitGpuBlock, allocator_callable, cacheVars, workerVars, Index,
     IndexConsistent, OneBlockPerHash, is_cached, TransfersAreIndependent, MapInv, DeferInv,
     PhaseInv, FlightInv, PinInv, resident, h2d_sources, d2h_targets, d2h_sources
<1>3. ASSUME NEW h \in Hash, ClaimRestore(h) PROVE Index'
  <2> USE DEF ClaimRestore, allocator_callable, claim_load, gpuVars, workerVars, Index
  <2>1. IndexConsistent' /\ OneBlockPerHash' /\ TransfersAreIndependent' /\ MapInv' /\ DeferInv'
    BY <1>3 DEF IndexConsistent, OneBlockPerHash, is_cached, TransfersAreIndependent, MapInv,
       DeferInv
  <2>2. PhaseInv' /\ FlightInv'
    BY <1>3 DEF PhaseInv, FlightInv
  <2>3. hash_to_slot[h] \in ready_slots /\ hash_to_slot[h] \notin step_slots_in_use
    BY <1>3 DEF is_ready, claim_load_raises
  <2>4. PinInv'
    BY <1>3, <2>3 DEF PinInv, resident, h2d_sources, d2h_targets, d2h_sources
  <2>5. QED
    BY <1>0, <2>1, <2>2, <2>4
<1>4. ASSUME NEW b \in GpuBlock, FinishRestore(b) PROVE Index'
  <2>1. AllocateEffect(b)
    BY <1>0, <1>4, AllocateBlockIdEffect DEF FinishRestore
  <2>2. ~is_cached(claim) /\ claim # gpu_hash[b] /\ claim \in Hash
    BY <1>0, <1>4 DEF FinishRestore, Index, OneBlockPerHash, is_cached, TypeOK, TierTypeOK
  <2>3. QED
    BY <1>0, <1>4, <2>1, <2>2, AllocateKeepsIndex DEF FinishRestore, stage_load, workerVars
<1>5. CASE CancelRestore
  <2> USE DEF CancelRestore, cancel_load, gpuVars, workerVars, Index
  <2>1. IndexConsistent' /\ OneBlockPerHash' /\ TransfersAreIndependent' /\ MapInv' /\ DeferInv'
    BY <1>5 DEF IndexConsistent, OneBlockPerHash, is_cached, TransfersAreIndependent, MapInv,
       DeferInv
  <2>2. PhaseInv' /\ FlightInv'
    BY <1>5 DEF PhaseInv, FlightInv
  <2>3. PinInv'
    BY <1>5 DEF PinInv, resident, h2d_sources, d2h_targets, d2h_sources
  <2>4. QED
    BY <1>0, <2>1, <2>2, <2>3
<1>6. ASSUME NEW h \in Hash, NEW b \in GpuBlock, AllocateImmutable(h, b) PROVE Index'
  <2>1. AllocateEffect(b)
    BY <1>0, <1>6, AllocateBlockIdEffect DEF AllocateImmutable, allocator_callable
  <2>2. QED
    BY <1>0, <1>6, <2>1, AllocateKeepsIndex DEF AllocateImmutable, allocator_callable, workerVars
<1>7. ASSUME NEW b \in GpuBlock, AllocateMutable(b) PROVE Index'
  <2>1. AllocateEffect(b)
    BY <1>0, <1>7, AllocateBlockIdEffect DEF AllocateMutable, allocator_callable
  <2>2. QED
    BY <1>0, <1>7, <2>1, AllocateKeepsIndex DEF AllocateMutable, allocator_callable, workerVars
<1>8. ASSUME NEW b \in GpuBlock, NEW h \in Hash, PromoteToImmutable(b, h) PROVE Index'
  <2> USE <1>0 DEF PromoteToImmutable, allocator_callable, cacheVars, workerVars, Index, TypeOK,
               TierTypeOK, CacheTypeOK
  <2>1. IndexConsistent' /\ TransfersAreIndependent' /\ DeferInv'
    BY <1>8 DEF IndexConsistent, TransfersAreIndependent, DeferInv
  <2>2. PhaseInv' /\ PinInv'
    BY <1>8 DEF PhaseInv, PinInv, resident, h2d_sources, d2h_targets, d2h_sources
  <2>3. OneBlockPerHash'
    BY <1>8 DEF OneBlockPerHash, is_cached
  <2>4. MapInv'
    BY <1>8 DEF MapInv
  <2>5. FlightInv'
    BY <1>8 DEF FlightInv, PhaseInv, NoSwapIn
  <2>6. QED
    BY <2>1, <2>2, <2>3, <2>4, <2>5
<1>9. ASSUME NEW b \in GpuBlock, NEW c \in GpuBlock, PromoteToCached(b, c) PROVE Index'
  BY <1>0, <1>9 DEF PromoteToCached, allocator_callable, cacheVars, workerVars, Index,
     IndexConsistent, OneBlockPerHash, is_cached, TransfersAreIndependent, MapInv, DeferInv,
     PhaseInv, FlightInv, PinInv, resident, h2d_sources, d2h_targets, d2h_sources
<1>10. ASSUME NEW b \in GpuBlock, Free(b) PROVE Index'
  BY <1>0, <1>10 DEF Free, allocator_callable, cacheVars, workerVars, Index,
     IndexConsistent, OneBlockPerHash, is_cached, TransfersAreIndependent, MapInv, DeferInv,
     PhaseInv, FlightInv, PinInv, resident, h2d_sources, d2h_targets, d2h_sources
<1>11. CASE EndScheduling
  BY <1>0, <1>11 DEF EndScheduling, allocator_callable, cacheVars, gpuVars, workerVars, Index,
     IndexConsistent, OneBlockPerHash, is_cached, TransfersAreIndependent, MapInv, DeferInv,
     PhaseInv, FlightInv, PinInv, resident, h2d_sources, d2h_targets, d2h_sources
<1>12. CASE ResolveDeferred
  <2>1. CASE skip_all_deferred
    BY <1>0, <1>12, <2>1 DEF ResolveDeferred, skip_all_deferred, gpuVars, workerVars, Index,
       IndexConsistent, OneBlockPerHash, is_cached, TransfersAreIndependent, MapInv, DeferInv,
       PhaseInv, FlightInv, PinInv, resident, h2d_sources, d2h_targets, d2h_sources
  <2>2. CASE skip_deferred
    <3>1. /\ deferred_d2h # <<>> /\ deferred_d2h \in Seq(GpuBlock \X Hash)
          /\ deferred_d2h' = Tail(deferred_d2h)
      BY <1>0, <2>2 DEF skip_deferred, TypeOK, CacheTypeOK
    <3>2. /\ Len(deferred_d2h') = Len(deferred_d2h) - 1
          /\ \A i \in 1 .. Len(deferred_d2h') :
                i + 1 \in 1 .. Len(deferred_d2h) /\ deferred_d2h'[i] = deferred_d2h[i + 1]
      BY <3>1
    <3>3. ASSUME NEW i \in 1 .. Len(deferred_d2h'), NEW j \in 1 .. Len(deferred_d2h'),
                 \/ deferred_d2h'[i][1] = deferred_d2h'[j][1]
                 \/ deferred_d2h'[i][2] = deferred_d2h'[j][2]
          PROVE  i = j
      <4>1. /\ i + 1 \in 1 .. Len(deferred_d2h) /\ j + 1 \in 1 .. Len(deferred_d2h)
            /\ deferred_d2h'[i] = deferred_d2h[i + 1] /\ deferred_d2h'[j] = deferred_d2h[j + 1]
        BY <3>2
      <4>2. i + 1 = j + 1
        BY <3>3, <4>1 DEF DeferInv, Index
      <4>3. QED
        BY <4>2
    <3>4. DeferInv'
      BY <1>12, <2>2, <3>1, <3>2, <3>3 DEF ResolveDeferred, skip_deferred, DeferInv, Index, gpuVars
    <3>5. QED
      BY <1>0, <1>12, <2>2, <3>4 DEF ResolveDeferred, skip_deferred, gpuVars, workerVars, Index,
         IndexConsistent, OneBlockPerHash, is_cached, TransfersAreIndependent, MapInv,
         PhaseInv, FlightInv, PinInv, resident, h2d_sources, d2h_targets, d2h_sources
  <2>3. CASE commit_deferred
    BY <1>0, <1>12, <2>3, CommitDeferredKeepsIndex DEF ResolveDeferred
  <2>4. QED
    BY <1>12, <2>1, <2>2, <2>3 DEF ResolveDeferred
<1>13. CASE DrainStep
  <2> USE DEF DrainStep, drain_step, Index
  <2>1. IndexConsistent' /\ OneBlockPerHash'
    BY <1>13 DEF IndexConsistent, OneBlockPerHash, is_cached
  <2>2. h2d_sources = step_load_slots /\ h2d_sources \cap d2h_targets = {}
    BY <1>13 DEF drain_step_raises
  <2>3. \A s, t \in Slot : step_h2d[s] # None /\ step_h2d[s] = step_h2d[t] => s = t
    <3> SUFFICES ASSUME NEW s \in Slot, NEW t \in Slot, step_h2d[s] # None,
                        step_h2d[s] = step_h2d[t]
                 PROVE  s = t
      OBVIOUS
    <3>1. slot_to_hash[s] = slot_to_hash[t]
      BY DEF MapInv
    <3>2. slot_to_hash[s] # None
      BY DEF PinInv, h2d_sources, resident
    <3>3. QED
      BY <3>1, <3>2 DEF IndexConsistent
  <2>4. TransfersAreIndependent'
    BY <1>0, <1>13, <2>2, <2>3 DEF TransfersAreIndependent, MapInv, h2d_sources, d2h_targets,
       d2h_sources, TypeOK, CacheTypeOK
  <2>5. PhaseInv'
    BY <1>13 DEF PhaseInv, NoSwapIn, NoSwapOut
  <2>6. h2d_sources' = {} /\ d2h_sources' = {} /\ d2h_targets' = {}
    BY <1>13 DEF h2d_sources, d2h_sources, d2h_targets
  <2>7. claim = None /\ claim' = None /\ pending_ready_slots = {}
    BY <1>13 DEF PhaseInv
  <2>8. PinInv'
    BY <1>13, <2>6, <2>7 DEF PinInv, resident
  <2>9. MapInv'
    BY <1>13 DEF MapInv
  <2>10. DeferInv'
    BY <1>13 DEF DeferInv
  <2>11. FlightInv'
    BY <1>0, <1>13, <2>2, <2>7 DEF FlightInv, MapInv, PinInv, h2d_sources, d2h_targets,
       d2h_sources, TypeOK, CacheTypeOK
  <2>12. QED
    BY <1>0, <2>1, <2>4, <2>5, <2>8, <2>9, <2>10, <2>11
<1>14. ASSUME NEW done \in SUBSET GpuBlock, WorkerExecute(done) PROVE Index'
  <2> USE DEF WorkerExecute, cacheVars, Index
  <2>1. IndexConsistent' /\ OneBlockPerHash' /\ MapInv' /\ DeferInv'
    BY <1>14 DEF IndexConsistent, OneBlockPerHash, is_cached, MapInv, DeferInv
  <2>2. TransfersAreIndependent' /\ FlightInv'
    BY <1>14 DEF TransfersAreIndependent, FlightInv, NoSwapIn, NoSwapOut
  <2>3. PhaseInv' /\ PinInv'
    BY <1>14 DEF PhaseInv, PinInv, resident, h2d_sources, d2h_targets, d2h_sources
  <2>4. QED
    BY <1>0, <2>1, <2>2, <2>3
<1>15. CASE UNCHANGED vars
  BY <1>0, <1>15 DEF vars, cacheVars, gpuVars, workerVars, Index, IndexConsistent,
     OneBlockPerHash, is_cached, TransfersAreIndependent, MapInv, DeferInv, PhaseInv, FlightInv,
     PinInv, resident, h2d_sources, d2h_targets, d2h_sources
<1>16. QED
  BY <1>1, <1>2, <1>3, <1>4, <1>5, <1>6, <1>7, <1>8, <1>9, <1>10, <1>11, <1>12, <1>13,
     <1>14, <1>15 DEF Next

\* The index invariant holds before the first request.
LEMMA IndexInit == Init => Index
<1> SUFFICES ASSUME Init PROVE Index
  OBVIOUS
<1> USE NoneAssumption, NoneNotSlot DEF Init, CacheInit
<1>1. TypeOK
  BY CapacityAssumption DEF TypeOK, CacheTypeOK, TierTypeOK, NoSwapIn, NoSwapOut
<1>2. IndexConsistent /\ OneBlockPerHash /\ TransfersAreIndependent
  BY DEF IndexConsistent, OneBlockPerHash, TransfersAreIndependent, NoSwapIn, NoSwapOut
<1>3. PhaseInv /\ MapInv /\ DeferInv /\ FlightInv
  BY DEF PhaseInv, MapInv, DeferInv, FlightInv, NoSwapIn, NoSwapOut
<1>4. PinInv
  BY DEF PinInv, h2d_sources, d2h_targets, d2h_sources
<1>5. QED
  BY <1>1, <1>2, <1>3, <1>4 DEF Index

\* The inductive invariant of the index: the two directions of the slot map
\* agree, no content is cached twice, and the transfer maps a step hands to the
\* worker share no slot and write no destination twice.
THEOREM IndexInvariant == Spec => []Index
<1>1. QED
  BY IndexInit, IndexStep, PTL DEF Spec

\* The two directions of the slot map of the CPU index agree, for every number of
\* hashes, blocks and slots, with chunked prefill or without it.
THEOREM IndexIsSound == Spec => []IndexConsistent
<1>1. Index => IndexConsistent
  BY DEF Index
<1>2. QED
  BY <1>1, IndexInvariant, PTL

\* No content has two GPU blocks, and a promotion never claims a hash the GPU
\* tier has: the RuntimeError "external prefix promotion raced with a GPU cache
\* insert" is unreachable.
THEOREM HashesAreUnique == Spec => []OneBlockPerHash
<1>1. Index => OneBlockPerHash
  BY DEF Index
<1>2. QED
  BY <1>1, IndexInvariant, PTL

\* The maps a step hands to the worker never make it read a slot it also writes,
\* or write one twice.
THEOREM TransfersDoNotCollide == Spec => []TransfersAreIndependent
<1>1. Index => TransfersAreIndependent
  BY DEF Index
<1>2. QED
  BY <1>1, IndexInvariant, PTL

----------------------------------------------------------------------------
(* Consequences of the index invariant *)

\* No method of cpu_kv_content_cache.py raises a RuntimeError when the allocator
\* and the scheduler call it, at any step of any behaviour.
THEOREM NeverRaises == Spec => []NoOperationRaises
<1>1. Index => NoOperationRaises
  <2> SUFFICES ASSUME Index PROVE NoOperationRaises
    OBVIOUS
  <2> USE NoneAssumption, NoneNotSlot DEF Index, TypeOK, CacheTypeOK, TierTypeOK
  <2>1. phase = "idle" => ~begin_step_raises
    BY DEF PhaseInv, begin_step_raises, h2d_sources, d2h_sources, NoSwapIn, NoSwapOut
  <2>2. ASSUME allocator_callable, NEW h \in Hash, ~is_cached(h)
        PROVE  ~claim_load_raises(h)
    <3>1. SUFFICES ASSUME is_ready(h), hash_to_slot[h] \in step_slots_in_use PROVE FALSE
      BY <2>2 DEF claim_load_raises, step_not_started, PhaseInv, allocator_callable
    <3>2. hash_to_slot[h] \in h2d_sources
      BY <2>2, <3>1 DEF is_ready, PinInv, allocator_callable
    <3>3. gpu_hash[step_h2d[hash_to_slot[h]]] = slot_to_hash[hash_to_slot[h]]
      BY <3>2 DEF MapInv, h2d_sources
    <3>4. slot_to_hash[hash_to_slot[h]] = h
      BY <3>1 DEF is_ready, IndexConsistent
    <3>5. step_h2d[hash_to_slot[h]] \in GpuBlock
      BY <3>2 DEF h2d_sources
    <3>6. QED
      BY <2>2, <3>3, <3>4, <3>5 DEF is_cached
  <2>3. ASSUME phase = "schedule", NEW b \in evictable
        PROVE  /\ ~stage_store_raises(gpu_hash[b], b)
               /\ \A s \in free_slots : ~commit_store_raises(s)
    <3>1. b \in GpuBlock /\ b \notin step_blocks
      BY <2>3 DEF evictable, MapInv
    <3>2. b \notin d2h_sources /\ b \notin deferred_blocks
      BY <3>1 DEF d2h_sources, MapInv, DeferInv, deferred_blocks
    <3>3. \A s \in free_slots : s \notin h2d_sources /\ s \notin d2h_targets /\ slot_to_hash[s] = None
      BY DEF IndexConsistent, PinInv, resident
    <3>4. QED
      BY <2>3, <3>2, <3>3 DEF stage_store_raises, commit_store_raises, step_not_started, PhaseInv
  <2>4. ASSUME phase = "schedule", claim # None
        PROVE  /\ ~cancel_load_raises(claim, hash_to_slot[claim])
               /\ \A b \in hashless_free \cup evictable :
                     ~stage_load_raises(claim, hash_to_slot[claim], b)
    <3>1. \A b \in hashless_free \cup evictable : b \notin h2d_targets
      BY DEF hashless_free, evictable, MapInv, h2d_targets, h2d_sources
    <3>2. QED
      BY <2>4, <3>1 DEF PinInv, cancel_load_raises, stage_load_raises
  <2>5. phase = "drain" => \A s \in Slot : is_lru_slot(s) => ~commit_store_raises(s)
    BY DEF is_lru_slot, replaceable, commit_store_raises, PinInv, PhaseInv
  <2>6. phase = "drain" => ~drain_step_raises
    BY DEF drain_step_raises, PinInv, PhaseInv
  <2>7. QED
    BY <2>1, <2>2, <2>3, <2>4, <2>5, <2>6 DEF NoOperationRaises
<1>2. QED
  BY <1>1, IndexInvariant, PTL

\* Pinning works: a slot either transfer direction uses in a step keeps its entry
\* until the step is drained.
THEOREM PinningHolds == Spec => PinnedSlotKeepsEntry
<1> DEFINE Keeps == \A s \in step_slots_in_use :
              slot_to_hash'[s] = slot_to_hash[s] /\ hash_to_slot'[slot_to_hash[s]] = s
<1>1. ASSUME Index, Index', [Next]_vars PROVE Keeps
  <2> USE NoneAssumption, NoneNotSlot
  <2>1. SUFFICES ASSUME NEW s \in step_slots_in_use PROVE slot_to_hash'[s] = slot_to_hash[s]
    <3>1. \A s \in step_slots_in_use : s \in Slot /\ slot_to_hash[s] # None
      BY <1>1 DEF Index, TypeOK, CacheTypeOK, PinInv, resident
    <3>2. QED
      BY <1>1, <3>1 DEF Index, IndexConsistent
  <2>2. s \in Slot /\ slot_to_hash[s] # None
    BY <1>1, <2>1 DEF Index, TypeOK, CacheTypeOK, PinInv, resident
  <2>3. ASSUME NEW b \in GpuBlock, allocate_block_id(b), phase = "schedule"
        PROVE  slot_to_hash'[s] = slot_to_hash[s]
    <3>1. AllocateEffect(b)
      BY <1>1, <2>3, AllocateBlockIdEffect DEF Index
    <3>2. QED
      BY <2>2, <3>1 DEF AllocateEffect
  <2>4. CASE ResolveDeferred /\ commit_deferred
    BY <1>1, <2>2, <2>4, <2>1 DEF commit_deferred, commit_store, is_lru_slot, replaceable, Index,
       TypeOK, CacheTypeOK
  <2>5. QED
    BY <1>1, <2>3, <2>4 DEF Next, vars, cacheVars, BeginStep, begin_step, HitGpuBlock,
       ClaimRestore, claim_load, FinishRestore, CancelRestore, cancel_load, AllocateImmutable,
       AllocateMutable, allocator_callable, PromoteToImmutable, PromoteToCached, Free,
       EndScheduling, ResolveDeferred, skip_all_deferred, skip_deferred, DrainStep, drain_step,
       WorkerExecute
<1>2. QED
  BY <1>1, IndexInvariant, PTL DEF Spec, PinnedSlotKeepsEntry

----------------------------------------------------------------------------
(* The content invariants, without chunked prefill *)

\* The content of an unreferenced cached block is in place.
LEMMA EvictableHoldsContent ==
    ASSUME Content, phase = "schedule", NEW b \in evictable
    PROVE  gpu_data[b] = gpu_hash[b]
<1>1. b \in GpuBlock /\ b \notin step_blocks /\ gpu_hash[b] # None
  BY DEF evictable, Content, Index, MapInv
<1>2. b \notin to_compute /\ b \notin h2d_targets
  BY <1>1 DEF Content, DataInv, Index, MapInv, h2d_targets, h2d_sources
<1>3. \A s \in Slot : swap_in[s] # b
  BY <1>1, NoneAssumption DEF Content, Index, PhaseInv, NoSwapIn
<1>4. QED
  BY <1>1, <1>2, <1>3 DEF Content, DataInv

\* Taking a block id stages the block's own values for the CPU tier.
LEMMA AllocateKeepsData ==
    ASSUME Content, Index', phase = "schedule", phase' = "schedule",
           NEW b \in GpuBlock, allocate_block_id(b), AllocateEffect(b),
           NEW g \in Hash \cup {None},
           gpu_hash' = [gpu_hash EXCEPT ![b] = g],
           held' = held \cup {b}, step_blocks' = step_blocks \cup {b},
           UNCHANGED workerVars,
           g # None => b \in to_compute' \/ b \in h2d_targets',
           to_compute' = to_compute \/ to_compute' = to_compute \cup {b},
           h2d_targets \subseteq h2d_targets'
    PROVE  DataInv'
<1> USE NoneAssumption, NoneNotSlot DEF Content, Index, TypeOK, CacheTypeOK, TierTypeOK, workerVars
<1>1. ReadySlotHoldsContent'
  BY DEF DataInv, ReadySlotHoldsContent, AllocateEffect
<1>2. VictimIsPreserved'
  BY DEF VictimIsPreserved, AllocateEffect, PhaseInv
<1>3. \A c \in GpuBlock : swap_out'[c] # None => gpu_data'[c] = slot_to_hash'[swap_out'[c]]
  BY DEF PhaseInv, NoSwapOut
<1>4. /\ \A c \in GpuBlock : step_d2h'[c] # None => gpu_data'[c] = slot_to_hash'[step_d2h'[c]]
      /\ \A i \in 1 .. Len(deferred_d2h') : gpu_data'[deferred_d2h'[i][1]] = deferred_d2h'[i][2]
  <2>1. \A s \in d2h_targets : slot_to_hash'[s] = slot_to_hash[s]
    BY DEF PinInv, resident, AllocateEffect
  <2>2. CASE UNCHANGED <<step_d2h, deferred_d2h>>
    BY <2>1, <2>2 DEF DataInv, d2h_targets, d2h_sources
  <2>3. CASE b \in evictable /\ stage_store_committed(gpu_hash[b], b)
    <3>1. gpu_data[b] = gpu_hash[b]
      BY <2>3, EvictableHoldsContent
    <3>2. PICK slot \in Slot : /\ step_d2h' = [step_d2h EXCEPT ![b] = slot]
                               /\ slot_to_hash' = [slot_to_hash EXCEPT ![slot] = gpu_hash[b]]
      BY <2>3 DEF stage_store_committed, commit_store
    <3>3. UNCHANGED deferred_d2h
      BY <2>3 DEF stage_store_committed
    <3>4. QED
      BY <2>1, <3>1, <3>2, <3>3 DEF DataInv, d2h_targets, d2h_sources
  <2>4. CASE b \in evictable /\ stage_store_deferred(gpu_hash[b], b)
    <3>1. gpu_data[b] = gpu_hash[b] /\ gpu_hash[b] \in Hash
      BY <2>4, EvictableHoldsContent DEF evictable
    <3>2. UNCHANGED step_d2h /\ deferred_d2h' = Append(deferred_d2h, <<b, gpu_hash[b]>>)
      BY <2>4 DEF stage_store_deferred
    <3>3. /\ Len(deferred_d2h') = Len(deferred_d2h) + 1 /\ Len(deferred_d2h) \in Nat
          /\ deferred_d2h'[Len(deferred_d2h) + 1] = <<b, gpu_hash[b]>>
          /\ \A i \in 1 .. Len(deferred_d2h) : deferred_d2h'[i] = deferred_d2h[i]
      BY <3>1, <3>2
    <3>4. ASSUME NEW i \in 1 .. Len(deferred_d2h')
          PROVE  gpu_data'[deferred_d2h'[i][1]] = deferred_d2h'[i][2]
      <4>1. CASE i \in 1 .. Len(deferred_d2h)
        BY <3>3, <4>1 DEF DataInv
      <4>2. CASE i = Len(deferred_d2h) + 1
        BY <3>1, <3>3, <4>2
      <4>3. QED
        BY <3>3, <4>1, <4>2
    <3>5. QED
      BY <2>1, <3>2, <3>4 DEF DataInv, d2h_targets, d2h_sources
  <2>5. QED
    BY <2>2, <2>3, <2>4 DEF allocate_block_id, stage_store, stage_store_deduplicated
<1>5. \A c \in GpuBlock : gpu_hash'[c] # None =>
         \/ c \in to_compute' \/ c \in h2d_targets'
         \/ \E s \in Slot : swap_in'[s] = c
         \/ gpu_data'[c] = gpu_hash'[c]
  BY DEF DataInv
<1>6. to_compute' \subseteq held' /\ to_compute' \subseteq step_blocks'
  BY DEF DataInv
<1>7. QED
  BY <1>1, <1>2, <1>3, <1>4, <1>5, <1>6 DEF DataInv

\* Without chunked prefill every operation preserves what the blocks and slots hold.
LEMMA DataStep == Chunked = FALSE => (Content /\ [Next]_vars => DataInv')
<1> SUFFICES ASSUME Chunked = FALSE, Content, [Next]_vars PROVE DataInv'
  OBVIOUS
<1> USE NoneAssumption, NoneNotSlot
<1>0. Index /\ Index' /\ TypeOK /\ TypeOK' /\ DataInv
  BY IndexStep DEF Content, Index
<1>1. CASE BeginStep
  <2>1. ReadySlotHoldsContent' /\ VictimIsPreserved'
    BY <1>0, <1>1 DEF BeginStep, begin_step, workerVars, DataInv, ReadySlotHoldsContent,
       VictimIsPreserved, Index, PinInv, resident
  <2>2. QED
    BY <1>0, <1>1, <2>1 DEF BeginStep, begin_step, gpuVars, workerVars, DataInv, h2d_targets,
       h2d_sources
<1>2. ASSUME NEW b \in GpuBlock, HitGpuBlock(b) PROVE DataInv'
  BY <1>0, <1>2 DEF HitGpuBlock, allocator_callable, cacheVars, workerVars, DataInv,
     ReadySlotHoldsContent, VictimIsPreserved, h2d_targets, h2d_sources
<1>3. ASSUME NEW h \in Hash, ClaimRestore(h) PROVE DataInv'
  BY <1>0, <1>3 DEF ClaimRestore, claim_load, allocator_callable, gpuVars, workerVars, DataInv,
     ReadySlotHoldsContent, VictimIsPreserved, h2d_targets, h2d_sources
<1>4. ASSUME NEW b \in GpuBlock, FinishRestore(b) PROVE DataInv'
  <2>1. AllocateEffect(b)
    BY <1>0, <1>4, AllocateBlockIdEffect DEF FinishRestore
  <2>2. /\ hash_to_slot[claim] \in Slot /\ step_h2d[hash_to_slot[claim]] = None
        /\ step_h2d' = [step_h2d EXCEPT ![hash_to_slot[claim]] = b]
    BY <1>0, <1>4 DEF FinishRestore, stage_load, Index, PinInv, h2d_sources, TypeOK, CacheTypeOK
  <2>3. h2d_targets \subseteq h2d_targets' /\ b \in h2d_targets'
    BY <1>0, <2>2 DEF h2d_targets, h2d_sources, TypeOK, CacheTypeOK
  <2>4. claim \in Hash \cup {None}
    BY <1>0 DEF TypeOK, TierTypeOK
  <2>5. QED
    BY <1>0, <1>4, <2>1, <2>3, <2>4, AllocateKeepsData DEF FinishRestore
<1>5. CASE CancelRestore
  BY <1>0, <1>5 DEF CancelRestore, cancel_load, gpuVars, workerVars, DataInv,
     ReadySlotHoldsContent, VictimIsPreserved, h2d_targets, h2d_sources
<1>6. ASSUME NEW h \in Hash, NEW b \in GpuBlock, AllocateImmutable(h, b) PROVE DataInv'
  <2>1. AllocateEffect(b)
    BY <1>0, <1>6, AllocateBlockIdEffect DEF AllocateImmutable, allocator_callable
  <2>2. h2d_targets' = h2d_targets
    BY <1>6 DEF AllocateImmutable, h2d_targets, h2d_sources
  <2>3. QED
    BY <1>0, <1>6, <2>1, <2>2, AllocateKeepsData DEF AllocateImmutable, allocator_callable
<1>7. ASSUME NEW b \in GpuBlock, AllocateMutable(b) PROVE DataInv'
  <2>1. AllocateEffect(b)
    BY <1>0, <1>7, AllocateBlockIdEffect DEF AllocateMutable, allocator_callable
  <2>2. h2d_targets' = h2d_targets
    BY <1>7 DEF AllocateMutable, h2d_targets, h2d_sources
  <2>3. QED
    BY <1>0, <1>7, <2>1, <2>2, AllocateKeepsData DEF AllocateMutable, allocator_callable
<1>8. ASSUME NEW b \in GpuBlock, NEW h \in Hash, PromoteToImmutable(b, h) PROVE DataInv'
  BY <1>0, <1>8 DEF PromoteToImmutable, allocator_callable, cacheVars, workerVars, DataInv,
     ReadySlotHoldsContent, VictimIsPreserved, h2d_targets, h2d_sources, TypeOK, TierTypeOK
<1>9. ASSUME NEW b \in GpuBlock, NEW c \in GpuBlock, PromoteToCached(b, c) PROVE DataInv'
  BY <1>0, <1>9 DEF PromoteToCached, allocator_callable, cacheVars, workerVars, DataInv,
     ReadySlotHoldsContent, VictimIsPreserved, h2d_targets, h2d_sources
<1>10. ASSUME NEW b \in GpuBlock, Free(b) PROVE DataInv'
  BY <1>0, <1>10 DEF Free, allocator_callable, cacheVars, workerVars, DataInv,
     ReadySlotHoldsContent, VictimIsPreserved, h2d_targets, h2d_sources
<1>11. CASE EndScheduling
  BY <1>0, <1>11 DEF EndScheduling, allocator_callable, cacheVars, gpuVars, workerVars, DataInv,
     ReadySlotHoldsContent, VictimIsPreserved, h2d_targets, h2d_sources
<1>12. CASE ResolveDeferred
  <2> USE DEF ResolveDeferred, gpuVars, workerVars
  <2>1. CASE skip_all_deferred
    BY <1>0, <1>12, <2>1 DEF skip_all_deferred, DataInv, ReadySlotHoldsContent,
       VictimIsPreserved, h2d_targets, h2d_sources
  <2>2. CASE skip_deferred \/ commit_deferred
    <3>1. /\ deferred_d2h # <<>> /\ deferred_d2h \in Seq(GpuBlock \X Hash)
          /\ deferred_d2h' = Tail(deferred_d2h)
          /\ step_load_slots = {} /\ UNCHANGED step_h2d
      BY <1>0, <2>2 DEF skip_deferred, commit_deferred, TypeOK, CacheTypeOK
    <3>2. \A i \in 1 .. Len(deferred_d2h') : gpu_data'[deferred_d2h'[i][1]] = deferred_d2h'[i][2]
      <4> SUFFICES ASSUME NEW i \in 1 .. Len(deferred_d2h')
                   PROVE  gpu_data'[deferred_d2h'[i][1]] = deferred_d2h'[i][2]
        OBVIOUS
      <4>1. i + 1 \in 1 .. Len(deferred_d2h) /\ deferred_d2h'[i] = deferred_d2h[i + 1]
        BY <3>1
      <4>2. QED
        BY <1>0, <1>12, <4>1 DEF DataInv
    <3>3. CASE skip_deferred
      BY <1>0, <1>12, <3>2, <3>3 DEF skip_deferred, DataInv, ReadySlotHoldsContent,
         VictimIsPreserved, h2d_targets, h2d_sources
    <3>4. CASE commit_deferred
      <4>1. PICK slot \in Slot : /\ is_lru_slot(slot)
                                 /\ commit_store(Head(deferred_d2h)[2], Head(deferred_d2h)[1], slot)
        BY <3>4 DEF commit_deferred
      <4>2. /\ Head(deferred_d2h) = deferred_d2h[1] /\ 1 \in 1 .. Len(deferred_d2h)
            /\ deferred_d2h[1][1] \in GpuBlock /\ deferred_d2h[1][2] \in Hash
        BY <3>1
      <4>3. slot \notin d2h_targets
        BY <1>0, <4>1 DEF is_lru_slot, replaceable, Index, PinInv
      <4>4. /\ slot_to_hash' = [slot_to_hash EXCEPT ![slot] = deferred_d2h[1][2]]
            /\ ready_slots' = ready_slots \ {slot}
            /\ step_d2h' = [step_d2h EXCEPT ![deferred_d2h[1][1]] = slot]
        BY <4>1, <4>2 DEF commit_store
      <4>5. ReadySlotHoldsContent'
        BY <1>0, <1>12, <4>4 DEF DataInv, ReadySlotHoldsContent, TypeOK, CacheTypeOK
      <4>6. pending_ready_slots' = {} /\ \A b \in GpuBlock : swap_out'[b] = None
        BY <1>0, <1>12, <3>4 DEF commit_deferred, Index, PhaseInv, NoSwapOut
      <4>7. \A b \in GpuBlock : step_d2h'[b] # None => gpu_data'[b] = slot_to_hash'[step_d2h'[b]]
        <5> SUFFICES ASSUME NEW b \in GpuBlock, step_d2h'[b] # None
                     PROVE  gpu_data'[b] = slot_to_hash'[step_d2h'[b]]
          OBVIOUS
        <5>1. CASE b = deferred_d2h[1][1]
          <6>1. gpu_data[b] = deferred_d2h[1][2]
            BY <1>0, <4>2, <5>1 DEF DataInv
          <6>2. QED
            BY <1>0, <1>12, <4>2, <4>4, <5>1, <6>1 DEF TypeOK, CacheTypeOK
        <5>2. CASE b # deferred_d2h[1][1]
          <6>1. step_d2h'[b] = step_d2h[b] /\ step_d2h[b] # slot
            BY <1>0, <4>3, <4>4, <5>2 DEF d2h_targets, d2h_sources, TypeOK, CacheTypeOK
          <6>2. gpu_data[b] = slot_to_hash[step_d2h[b]]
            BY <1>0, <6>1 DEF DataInv
          <6>3. QED
            BY <1>0, <1>12, <4>4, <6>1, <6>2 DEF TypeOK, CacheTypeOK
        <5>3. QED
          BY <5>1, <5>2
      <4>8. h2d_targets' = h2d_targets
        BY <3>1 DEF h2d_targets, h2d_sources
      <4>9. QED
        BY <1>0, <1>12, <3>2, <4>5, <4>6, <4>7, <4>8 DEF DataInv, VictimIsPreserved
    <3>5. QED
      BY <2>2, <3>3, <3>4
  <2>3. QED
    BY <1>12, <2>1, <2>2
<1>13. CASE DrainStep
  <2> USE DEF DrainStep, drain_step
  <2>1. ReadySlotHoldsContent' /\ VictimIsPreserved'
    BY <1>0, <1>13 DEF DataInv, ReadySlotHoldsContent, VictimIsPreserved
  <2>2. \A b \in GpuBlock : gpu_hash'[b] # None =>
          \/ b \in to_compute'
          \/ \E s \in Slot : swap_in'[s] = b
          \/ gpu_data'[b] = gpu_hash'[b]
    BY <1>0, <1>13 DEF DataInv, h2d_targets, h2d_sources, Index, PhaseInv, NoSwapIn
  <2>3. to_compute' \subseteq held'
    BY <1>0, <1>13 DEF DataInv
  <2>4. \A b \in GpuBlock : step_d2h'[b] = None
    BY <1>13
  <2>5. \A b \in GpuBlock : swap_out'[b] # None => gpu_data'[b] = slot_to_hash'[swap_out'[b]]
    BY <1>0, <1>13 DEF DataInv
  <2>6. deferred_d2h' = <<>> /\ phase' = "execute"
    BY <1>13
  <2>7. QED
    BY <2>1, <2>2, <2>3, <2>4, <2>5, <2>6 DEF DataInv
<1>14. ASSUME NEW done \in SUBSET GpuBlock, WorkerExecute(done) PROVE DataInv'
  <2> USE DEF WorkerExecute, cacheVars
  <2>1. phase = "execute" /\ phase' = "idle" /\ done = to_compute /\ to_compute' = {}
    BY <1>14
  <2>2. \A s \in Slot : cpu_data'[s] = after_swap_out(s)
    BY <1>14
  <2>3. \A s \in pending_ready_slots : after_swap_out(s) = slot_to_hash[s]
    <3> SUFFICES ASSUME NEW s \in pending_ready_slots PROVE after_swap_out(s) = slot_to_hash[s]
      OBVIOUS
    <3>1. \E b \in GpuBlock : swap_out[b] = s
      BY <1>0, <2>1 DEF Index, FlightInv
    <3>2. \A b \in GpuBlock : swap_out[b] = s => gpu_data[b] = slot_to_hash[s]
      <4>1. s # None
        BY <1>0 DEF TypeOK, CacheTypeOK
      <4>2. QED
        BY <1>0, <4>1 DEF DataInv
    <3>3. QED
      BY <3>1, <3>2 DEF after_swap_out
  <2>4. \A s \in ready_slots : after_swap_out(s) = cpu_data[s]
    BY <1>0 DEF after_swap_out, Index, FlightInv, PinInv, TypeOK, CacheTypeOK
  <2>5. ReadySlotHoldsContent'
    BY <1>0, <1>14, <2>2, <2>4 DEF DataInv, ReadySlotHoldsContent, TypeOK, CacheTypeOK
  <2>6. VictimIsPreserved'
    BY <1>0, <1>14, <2>2, <2>3 DEF VictimIsPreserved, TypeOK, CacheTypeOK
  <2>7. ASSUME NEW b \in GpuBlock, gpu_hash[b] # None PROVE gpu_data'[b] = gpu_hash[b]
    <3>1. gpu_data'[b] = after_forward(b, done)
      BY <1>14
    <3>2. CASE b \in to_compute
      BY <2>1, <3>1, <3>2 DEF after_forward
    <3>3. CASE b \notin to_compute /\ \E s \in Slot : swap_in[s] = b
      <4>1. gpu_data'[b] = after_swap_out(CHOOSE s \in Slot : swap_in[s] = b)
        BY <2>1, <2>7, <3>1, <3>3 DEF after_forward, after_swap_in
      <4>2. PICK s \in Slot : swap_in[s] = b /\ gpu_data'[b] = after_swap_out(s)
        BY <3>3, <4>1
      <4>3. s \in ready_slots /\ gpu_hash[b] = slot_to_hash[s]
        BY <1>0, <4>2 DEF Index, FlightInv
      <4>4. QED
        BY <1>0, <2>4, <4>2, <4>3 DEF DataInv, ReadySlotHoldsContent
    <3>4. CASE b \notin to_compute /\ ~ \E s \in Slot : swap_in[s] = b
      <4>1. b \notin h2d_targets
        BY <1>0, <2>1 DEF Index, PhaseInv, h2d_targets, h2d_sources, NoSwapIn
      <4>2. gpu_data[b] = gpu_hash[b]
        BY <1>0, <2>7, <3>4, <4>1 DEF DataInv
      <4>3. QED
        BY <2>1, <2>7, <3>1, <3>4, <4>2 DEF after_forward, after_swap_in
    <3>5. QED
      BY <3>2, <3>3, <3>4
  <2>8. /\ \A b \in GpuBlock : step_d2h'[b] = None /\ swap_out'[b] = None
        /\ deferred_d2h' = <<>>
    BY <1>0, <1>14, <2>1 DEF Index, PhaseInv, NoSwapOut
  <2>9. QED
    BY <1>14, <2>1, <2>5, <2>6, <2>7, <2>8 DEF DataInv
<1>15. CASE UNCHANGED vars
  BY <1>0, <1>15 DEF vars, cacheVars, gpuVars, workerVars, DataInv,
     ReadySlotHoldsContent, VictimIsPreserved, h2d_targets, h2d_sources
<1>16. QED
  BY <1>1, <1>2, <1>3, <1>4, <1>5, <1>6, <1>7, <1>8, <1>9, <1>10, <1>11, <1>12, <1>13,
     <1>14, <1>15 DEF Next

\* Without chunked prefill, the index and the data agree: the inductive
\* invariant of the contents.
THEOREM ContentInvariant == Chunked = FALSE => (Spec => []Content)
<1> SUFFICES ASSUME Chunked = FALSE PROVE Spec => []Content
  OBVIOUS
<1>1. Init => Content
  <2>1. Init => DataInv
    BY NoneAssumption, NoneNotSlot DEF Init, CacheInit, DataInv, ReadySlotHoldsContent,
       VictimIsPreserved, NoSwapOut
  <2>2. QED
    BY <2>1, IndexInit DEF Content
<1>2. Content /\ [Next]_vars => Content'
  BY DataStep, IndexStep DEF Content
<1>3. QED
  BY <1>1, <1>2, PTL DEF Spec

\* Every slot the CPU index offers for loading holds the KV values of its content.
THEOREM ReadySlotsAreSound == Chunked = FALSE => (Spec => []ReadySlotHoldsContent)
<1>1. Content => ReadySlotHoldsContent
  BY DEF Content, DataInv
<1>2. QED
  BY <1>1, ContentInvariant, PTL

\* The values of an evicted block reach its slot before the block is reused by
\* a load or by the forward pass of the same step.
THEOREM VictimsAreSaved == Chunked = FALSE => (Spec => []VictimIsPreserved)
<1>1. Content => VictimIsPreserved
  BY DEF Content, DataInv
<1>2. QED
  BY <1>1, ContentInvariant, PTL

\* Every block the allocator reports as computed holds the KV values of its hash
\* when a step begins: without chunked prefill the comment at scheduler.py:1679
\* is right, and no request is served another content or uninitialised memory.
THEOREM ContentIsSound == Chunked = FALSE => (Spec => []ComputedBlockHoldsContent)
<1>1. Content => ComputedBlockHoldsContent
  <2> SUFFICES ASSUME Content, phase = "idle", NEW b \in GpuBlock, gpu_hash[b] # None
               PROVE  gpu_data[b] = gpu_hash[b]
    BY DEF Content, DataInv, ComputedBlockHoldsContent
  <2>1. b \notin h2d_targets /\ b \notin to_compute /\ \A s \in Slot : swap_in[s] # b
    BY NoneAssumption DEF Content, Index, DataInv, PhaseInv, h2d_targets, h2d_sources, NoSwapIn
  <2>2. QED
    BY <2>1 DEF Content, DataInv
<1>2. QED
  BY <1>1, ContentInvariant, PTL
=============================================================================
