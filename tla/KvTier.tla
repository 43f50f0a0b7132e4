------------------------------- MODULE KvTier -------------------------------
(***************************************************************************)
(* The two tiers of the prefix cache and the worker that moves their data: *)
(* the GPU prefix-caching allocator (prefix_caching_block.py) calling the  *)
(* CPU index (CpuKvContentCache) while Scheduler.schedule() runs, and the  *)
(* worker executing the step's transfers and its forward pass.             *)
(*                                                                         *)
(* One scheduler step is                                                   *)
(*   idle -> begin_step -> schedule (allocator calls) -> drain -> execute  *)
(*        -> idle                                                          *)
(* The allocator's reference counts are abstracted to "held" (count > 0);  *)
(* which unreferenced block the evictor picks is left open.  A request     *)
(* scheduled in a step is never freed in that step (scheduler.py schedules *)
(* a group only after taking it out of the queue victims are popped from), *)
(* so the blocks such a request uses, step_blocks, stay held to its end.   *)
(*                                                                         *)
(* What a block or a slot really contains is tracked beside what the       *)
(* scheduler believes: gpu_data and cpu_data hold the hash whose KV values *)
(* the memory holds, or None for anything else.                            *)
(***************************************************************************)
EXTENDS CpuKvContentCache

CONSTANT
    Chunked     \* --enable-chunked-prefill: a prompt may take several steps

ASSUME ChunkedAssumption == Chunked \in BOOLEAN

VARIABLES
    gpu_hash,     \* GpuBlock -> Hash or None: _cached_blocks, inverted
    held,         \* blocks with a reference count above zero
    touched,      \* _touched_blocks
    computed,     \* blocks whose tracker says computed
    step_blocks,  \* blocks of the requests scheduled in this step
    to_compute,   \* cached blocks whose KV values no forward pass has written yet
    claim,        \* hash of the load claimed and not yet staged, or None
    gpu_data,     \* worker: GpuBlock -> Hash or None
    cpu_data,     \* worker: Slot -> Hash or None
    swap_in,      \* the maps drain_step returned, until the worker runs them
    swap_out,
    phase         \* "idle", "schedule", "drain" or "execute"

gpuVars == <<gpu_hash, held, touched, computed, step_blocks, to_compute>>
workerVars == <<gpu_data, cpu_data, swap_in, swap_out>>
vars == <<cacheVars, gpuVars, workerVars, claim, phase>>

NoSwapIn == [s \in Slot |-> None]
NoSwapOut == [b \in GpuBlock |-> None]

TierTypeOK ==
    /\ gpu_hash \in [GpuBlock -> Hash \cup {None}]
    /\ held \subseteq GpuBlock
    /\ touched \subseteq GpuBlock
    /\ computed \subseteq GpuBlock
    /\ step_blocks \subseteq GpuBlock
    /\ to_compute \subseteq GpuBlock
    /\ claim \in Hash \cup {None}
    /\ gpu_data \in [GpuBlock -> Hash \cup {None}]
    /\ cpu_data \in [Slot -> Hash \cup {None}]
    /\ swap_in \in [Slot -> GpuBlock \cup {None}]
    /\ swap_out \in [GpuBlock -> Slot \cup {None}]
    /\ phase \in {"idle", "schedule", "drain", "execute"}

\* Every variable of the two tiers and of the worker has its type.
TypeOK == CacheTypeOK /\ TierTypeOK

Init ==
    /\ CacheInit
    /\ gpu_hash = [b \in GpuBlock |-> None]
    /\ held = {}
    /\ touched = {}
    /\ computed = {}
    /\ step_blocks = {}
    /\ to_compute = {}
    /\ claim = None
    /\ gpu_data = [b \in GpuBlock |-> None]
    /\ cpu_data = [s \in Slot |-> None]
    /\ swap_in = NoSwapIn
    /\ swap_out = NoSwapOut
    /\ phase = "idle"

----------------------------------------------------------------------------
\* _cached_blocks holds the hash, on some GPU block.
is_cached(h) == \E b \in GpuBlock : gpu_hash[b] = h

\* The free list of the hashless allocator, and the evictor's free table.
hashless_free == {b \in GpuBlock \ held : gpu_hash[b] = None}
evictable == {b \in GpuBlock \ held : gpu_hash[b] # None}

\* block_is_computed: the tracker's flag, or membership of the evictor.
block_is_computed(b) == IF b \in held THEN b \in computed ELSE b \in evictable

\* The allocator may be called: schedule() is running and no load is half done.
allocator_callable == phase = "schedule" /\ claim = None

\* _allocate_block_id: a free hashless block, or else an evicted one, whose
\* content is offered to the CPU tier.
allocate_block_id(b) ==
    \/ /\ b \in hashless_free
       /\ UNCHANGED <<hash_to_slot, slot_to_hash, ready_slots, lru, free_slots,
                      step_slots_in_use, step_load_slots, step_d2h, deferred_d2h,
                      pending_ready_slots>>
    \/ /\ hashless_free = {}
       /\ b \in evictable
       /\ stage_store(gpu_hash[b], b)

\* begin_prefix_cache_step, the first call of schedule().
BeginStep ==
    /\ phase = "idle"
    /\ begin_step
    /\ phase' = "schedule"
    /\ UNCHANGED <<gpuVars, workerVars, claim>>

\* allocate_immutable_block: a hit on a block the GPU tier holds.  A block taken
\* back from the evictor (count 0 -> 1) is tracked as computed.
HitGpuBlock(b) ==
    /\ allocator_callable
    /\ gpu_hash[b] # None
    /\ held' = held \cup {b}
    /\ computed' = IF b \in held THEN computed ELSE computed \cup {b}
    /\ step_blocks' = step_blocks \cup {b}
    /\ UNCHANGED <<cacheVars, workerVars, gpu_hash, touched, to_compute, claim, phase>>

\* _maybe_restore_external_cached_block, up to the claim of the CPU slot.
ClaimRestore(h) ==
    /\ allocator_callable
    /\ ~is_cached(h)
    /\ claim_load(h)
    /\ claim' = h
    /\ UNCHANGED <<gpuVars, workerVars, phase>>

\* ... and from the claim on: allocate the GPU block, stage the H2D copy, enter
\* the block as cached and computed.
FinishRestore(b) ==
    /\ phase = "schedule"
    /\ claim # None
    /\ allocate_block_id(b)
    /\ stage_load(claim, hash_to_slot[claim], b)
    /\ gpu_hash' = [gpu_hash EXCEPT ![b] = claim]
    /\ held' = held \cup {b}
    /\ computed' = computed \cup {b}
    /\ step_blocks' = step_blocks \cup {b}
    /\ claim' = None
    /\ UNCHANGED <<workerVars, touched, to_compute, phase>>

\* ... or the NoFreeBlocksError path, which cancels the claim.
CancelRestore ==
    /\ phase = "schedule"
    /\ claim # None
    /\ hashless_free = {}
    /\ evictable = {}
    /\ cancel_load(claim, hash_to_slot[claim])
    /\ claim' = None
    /\ UNCHANGED <<gpuVars, workerVars, phase>>

\* allocate_immutable_block of a hash neither tier has: a mutable block that is
\* filled and promoted at once.  Its KV values are computed by a later forward.
AllocateImmutable(h, b) ==
    /\ allocator_callable
    /\ ~is_cached(h)
    /\ ~is_ready(h)
    /\ allocate_block_id(b)
    /\ gpu_hash' = [gpu_hash EXCEPT ![b] = h]
    /\ held' = held \cup {b}
    /\ computed' = computed \ {b}
    /\ touched' = touched \cup {b}
    /\ step_blocks' = step_blocks \cup {b}
    /\ to_compute' = to_compute \cup {b}
    /\ UNCHANGED <<step_h2d, workerVars, claim, phase>>

\* allocate_mutable_block: the block a sequence writes next.
AllocateMutable(b) ==
    /\ allocator_callable
    /\ allocate_block_id(b)
    /\ gpu_hash' = [gpu_hash EXCEPT ![b] = None]
    /\ held' = held \cup {b}
    /\ computed' = computed \ {b}
    /\ step_blocks' = step_blocks \cup {b}
    /\ UNCHANGED <<step_h2d, workerVars, touched, to_compute, claim, phase>>

\* Mutant of promote_to_immutable_block: no lookup of _cached_blocks.
PromoteToImmutable_unchecked(b, h) ==
    /\ allocator_callable
    /\ b \in held \ step_blocks
    /\ gpu_hash[b] = None
    /\ gpu_hash' = [gpu_hash EXCEPT ![b] = h]
    /\ touched' = touched \cup {b}
    /\ step_blocks' = step_blocks \cup {b}
    /\ to_compute' = to_compute \cup {b}
    /\ UNCHANGED <<cacheVars, workerVars, held, computed, claim, phase>>

\* promote_to_immutable_block of a mutable block of an earlier step that the
\* append of this step has filled: cached under its own id, or dropped for the
\* block that already holds the same content.
PromoteToImmutable(b, h) ==
    /\ allocator_callable
    /\ b \in held \ step_blocks
    /\ gpu_hash[b] = None
    /\ ~is_cached(h)
    /\ gpu_hash' = [gpu_hash EXCEPT ![b] = h]
    /\ touched' = touched \cup {b}
    /\ step_blocks' = step_blocks \cup {b}
    /\ to_compute' = to_compute \cup {b}
    /\ UNCHANGED <<cacheVars, workerVars, held, computed, claim, phase>>

PromoteToCached(b, c) ==
    /\ allocator_callable
    /\ b \in held \ step_blocks
    /\ gpu_hash[b] = None
    /\ gpu_hash[c] # None
    /\ held' = (held \ {b}) \cup {c}
    /\ computed' = IF c \in held THEN computed \ {b} ELSE (computed \ {b}) \cup {c}
    /\ step_blocks' = step_blocks \cup {c}
    /\ UNCHANGED <<cacheVars, workerVars, gpu_hash, touched, to_compute, claim, phase>>

\* Mutant of free: a request scheduled in this step is preempted.
Free_scheduled(b) ==
    /\ phase = "idle" \/ allocator_callable
    /\ b \in held
    /\ held' = held \ {b}
    /\ computed' = computed \ {b}
    /\ to_compute' = to_compute \ {b}
    /\ UNCHANGED <<cacheVars, workerVars, gpu_hash, touched, step_blocks, claim, phase>>

\* free: the last reference to a block goes, by a finished or aborted request
\* between steps or by a preemption inside schedule().  A cached block goes to
\* the evictor whether or not its values were ever computed.
Free(b) ==
    /\ phase = "idle" \/ allocator_callable
    /\ b \in held \ step_blocks
    /\ held' = held \ {b}
    /\ computed' = computed \ {b}
    /\ to_compute' = to_compute \ {b}
    /\ UNCHANGED <<cacheVars, workerVars, gpu_hash, touched, step_blocks, claim, phase>>

\* schedule() has its batch and calls get_and_reset_prefix_swaps.
EndScheduling ==
    /\ allocator_callable
    /\ phase' = "drain"
    /\ UNCHANGED <<cacheVars, gpuVars, workerVars, claim>>

ResolveDeferred ==
    /\ phase = "drain"
    /\ skip_all_deferred \/ commit_deferred \/ skip_deferred
    /\ UNCHANGED <<gpuVars, workerVars, claim, phase>>

\* Mutant of the drain: the caller unpacks the two maps in the wrong order.
DrainStep_swapped ==
    /\ phase = "drain"
    /\ drain_step
    /\ swap_in' = step_d2h
    /\ swap_out' = step_h2d
    /\ computed' = computed \cup touched
    /\ touched' = {}
    /\ step_blocks' = {}
    /\ phase' = "execute"
    /\ UNCHANGED <<gpu_hash, held, to_compute, gpu_data, cpu_data, claim>>

\* drain_step, then mark_blocks_as_computed: every touched block is now computed.
DrainStep ==
    /\ phase = "drain"
    /\ drain_step
    /\ swap_in' = step_h2d
    /\ swap_out' = step_d2h
    /\ computed' = computed \cup touched
    /\ touched' = {}
    /\ step_blocks' = {}
    /\ phase' = "execute"
    /\ UNCHANGED <<gpu_hash, held, to_compute, gpu_data, cpu_data, claim>>

\* Mutant of the worker: the H2D copies run before the D2H copies.
after_swap_out_last(s) ==
    IF \E b \in GpuBlock : swap_out[b] = s
    THEN LET b == CHOOSE b \in GpuBlock : swap_out[b] = s IN
         IF \E t \in Slot : swap_in[t] = b
         THEN cpu_data[CHOOSE t \in Slot : swap_in[t] = b]
         ELSE gpu_data[b]
    ELSE cpu_data[s]

\* Worker: every D2H copy, then every H2D copy, then the forward pass, which
\* writes the blocks in done and the mutable blocks of its sequences.
after_swap_out(s) ==
    IF \E b \in GpuBlock : swap_out[b] = s
    THEN gpu_data[CHOOSE b \in GpuBlock : swap_out[b] = s]
    ELSE cpu_data[s]

after_swap_in(b) ==
    IF \E s \in Slot : swap_in[s] = b
    THEN after_swap_out(CHOOSE s \in Slot : swap_in[s] = b)
    ELSE gpu_data[b]

after_forward(b, done) ==
    IF b \in done THEN gpu_hash[b]
    ELSE IF b \in held /\ gpu_hash[b] = None THEN None
    ELSE after_swap_in(b)

\* Without chunked prefill one forward pass computes every block scheduled for
\* it; with it, a non-empty part, and the rest stays for later steps.
WorkerExecute(done) ==
    /\ phase = "execute"
    /\ done \subseteq to_compute
    /\ IF Chunked THEN to_compute # {} => done # {} ELSE done = to_compute
    /\ cpu_data' = [s \in Slot |-> after_swap_out(s)]
    /\ gpu_data' = [b \in GpuBlock |-> after_forward(b, done)]
    /\ to_compute' = to_compute \ done
    /\ swap_in' = NoSwapIn
    /\ swap_out' = NoSwapOut
    /\ phase' = "idle"
    /\ UNCHANGED <<cacheVars, gpu_hash, held, touched, computed, step_blocks, claim>>

Next ==
    \/ BeginStep
    \/ \E b \in GpuBlock : HitGpuBlock(b)
    \/ \E h \in Hash : ClaimRestore(h)
    \/ \E b \in GpuBlock : FinishRestore(b)
    \/ CancelRestore
    \/ \E h \in Hash, b \in GpuBlock : AllocateImmutable(h, b)
    \/ \E b \in GpuBlock : AllocateMutable(b)
    \/ \E b \in GpuBlock, h \in Hash : PromoteToImmutable(b, h)
    \/ \E b, c \in GpuBlock : PromoteToCached(b, c)
    \/ \E b \in GpuBlock : Free(b)
    \/ EndScheduling
    \/ ResolveDeferred
    \/ DrainStep
    \/ \E done \in SUBSET GpuBlock : WorkerExecute(done)

Spec == Init /\ [][Next]_vars

----------------------------------------------------------------------------
(* Properties *)

\* hash_to_slot and slot_to_hash are inverse to each other and a free slot is
\* unassigned: the index never names one slot for two contents, however stores
\* replace entries (_commit_store).
IndexConsistent ==
    /\ \A h \in Hash : hash_to_slot[h] # None => slot_to_hash[hash_to_slot[h]] = h
    /\ \A s \in Slot : slot_to_hash[s] # None => hash_to_slot[slot_to_hash[s]] = s
    /\ \A s \in Slot : s \in free_slots <=> slot_to_hash[s] = None

\* A slot the index offers for loading really holds the KV values of the content
\* it is listed under, at every moment, transfers in flight included: a stored
\* slot is published only after the worker has copied it (begin_step) and is
\* withdrawn before it is overwritten (_commit_store).
ReadySlotHoldsContent ==
    \A s \in ready_slots : slot_to_hash[s] # None /\ cpu_data[s] = slot_to_hash[s]

\* Between two steps every block block_is_computed reports holds the values of
\* its hash, whether it was computed, hit in the evictor or promoted from the
\* CPU tier.  scheduler.py:1679: "we can assume all blocks in the batch will have
\* been computed before the next scheduling invocation".
ComputedBlockHoldsContent ==
    phase = "idle" =>
        \A b \in GpuBlock :
            gpu_hash[b] # None /\ block_is_computed(b) => gpu_data[b] = gpu_hash[b]

\* Whatever the worker copies to the CPU tier is the content the slot is listed
\* under: the victim's values are read before its block is reused, by an H2D
\* copy or by the forward pass of the same step.
VictimIsPreserved ==
    \A s \in pending_ready_slots :
        phase \in {"idle", "schedule"} => cpu_data[s] = slot_to_hash[s]

\* No two blocks are cached under one hash, and no claim is for a hash the GPU
\* tier already has ("external prefix promotion raced with a GPU cache insert").
OneBlockPerHash ==
    /\ \A b, c \in GpuBlock : gpu_hash[b] # None /\ gpu_hash[b] = gpu_hash[c] => b = c
    /\ claim # None => ~is_cached(claim)

\* The two maps of a step are what the worker may execute in any order of their
\* entries: no CPU slot is both a source and a destination, no destination is
\* written twice (the class comment of CpuKvContentCache; swap_blocks rejects
\* duplicates).
TransfersAreIndependent ==
    /\ \A s \in Slot, b \in GpuBlock : swap_in[s] # None => swap_out[b] # s
    /\ \A s, t \in Slot : swap_in[s] # None /\ swap_in[s] = swap_in[t] => s = t
    /\ \A b, c \in GpuBlock : swap_out[b] # None /\ swap_out[b] = swap_out[c] => b = c

\* No call of the allocator or the scheduler meets one of the RuntimeErrors of
\* the index: a raised error ends the engine.
NoOperationRaises ==
    /\ phase = "idle" => ~begin_step_raises
    /\ allocator_callable => \A h \in Hash : ~is_cached(h) => ~claim_load_raises(h)
    /\ phase = "schedule" /\ hashless_free = {} =>
         \A b \in evictable :
            /\ ~stage_store_raises(gpu_hash[b], b)
            /\ \A s \in free_slots : heappop(s) => ~commit_store_raises(s)
    /\ phase = "schedule" /\ claim # None =>
         /\ ~cancel_load_raises(claim, hash_to_slot[claim])
         /\ \A b \in IF hashless_free # {} THEN hashless_free ELSE evictable :
               ~stage_load_raises(claim, hash_to_slot[claim], b)
    /\ phase = "drain" /\ deferred_d2h # <<>> =>
         \A s \in Slot : is_lru_slot(s) => ~commit_store_raises(s)
    /\ phase = "drain" /\ deferred_d2h = <<>> => ~drain_step_raises

\* Pinning: while a slot is pinned in a step its entry is not replaced, so an H2D
\* source keeps its content until the worker has read it, and loading a block
\* leaves the CPU copy in the index (the tier is inclusive).
PinnedSlotKeepsEntry ==
    [][\A s \in step_slots_in_use :
          slot_to_hash'[s] = slot_to_hash[s] /\ hash_to_slot'[slot_to_hash[s]] = s]_vars
=============================================================================
