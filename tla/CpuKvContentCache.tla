------------------------- MODULE CpuKvContentCache -------------------------
(***************************************************************************)
(* The scheduler's index of the CPU tier of the KV cache                   *)
(* (vllm_overrides/core/block/cpu_kv_content_cache.py).                    *)
(*                                                                         *)
(* The index maps the content hash of an immutable KV block to a slot of   *)
(* the worker's pinned CPU cache.  It never moves data: in each scheduler  *)
(* step it collects two maps, CPU slot -> GPU block (H2D, a promotion) and *)
(* GPU block -> CPU slot (D2H, the preservation of an evicted block), that *)
(* drain_step hands to the worker.  A stored slot becomes readable only at *)
(* the begin_step that follows.                                            *)
(*                                                                         *)
(* Each method is an action on the index's own variables, named as in the  *)
(* source; module KvTier composes them with their callers.  What a method  *)
(* raises is a predicate <method>_raises: the action is guarded by its     *)
(* negation and KvTier!NoOperationRaises says no caller ever meets it.     *)
(* The hit/miss counters are left out.                                     *)
(***************************************************************************)
EXTENDS Naturals, Sequences

CONSTANTS
    Hash,       \* content hashes of immutable blocks
    GpuBlock,   \* physical GPU block ids
    Capacity,   \* number of CPU slots
    None        \* Python's None

ASSUME CapacityAssumption == Capacity \in Nat \ {0}
ASSUME NoneAssumption == None \notin Hash /\ None \notin GpuBlock /\ None \notin Nat

Slot == 0 .. Capacity - 1

VARIABLES
    hash_to_slot,        \* Hash -> Slot or None
    slot_to_hash,        \* Slot -> Hash or None
    ready_slots,         \* slots a load may read
    lru,                 \* the order of the OrderedDict: pairs <<older, newer>>
    free_slots,          \* slots never used yet
    step_slots_in_use,   \* slots pinned by either direction in this step
    step_load_slots,     \* slots claimed as H2D sources in this step
    step_h2d,            \* Slot -> GpuBlock or None
    step_d2h,            \* GpuBlock -> Slot or None
    deferred_d2h,        \* <<GPU block, hash>> in order: stores waiting for a slot
    pending_ready_slots  \* D2H destinations of the step the worker is executing

cacheVars == <<hash_to_slot, slot_to_hash, ready_slots, lru, free_slots,
               step_slots_in_use, step_load_slots, step_h2d, step_d2h,
               deferred_d2h, pending_ready_slots>>

\* _deferred_hashes and the key set of _deferred_d2h, kept in step with it by
\* the three places that write them.
deferred_hashes == {deferred_d2h[i][2] : i \in DOMAIN deferred_d2h}
deferred_blocks == {deferred_d2h[i][1] : i \in DOMAIN deferred_d2h}

\* The slots in the OrderedDict: a slot enters it when it first receives
\* content and never leaves.
resident == {s \in Slot : slot_to_hash[s] # None}

h2d_sources == {s \in Slot : step_h2d[s] # None}
h2d_targets == {step_h2d[s] : s \in h2d_sources}
d2h_sources == {b \in GpuBlock : step_d2h[b] # None}
d2h_targets == {step_d2h[b] : b \in d2h_sources}

CacheTypeOK ==
    /\ hash_to_slot \in [Hash -> Slot \cup {None}]
    /\ slot_to_hash \in [Slot -> Hash \cup {None}]
    /\ ready_slots \subseteq Slot
    /\ lru \subseteq Slot \X Slot
    /\ free_slots \subseteq Slot
    /\ step_slots_in_use \subseteq Slot
    /\ step_load_slots \subseteq Slot
    /\ step_h2d \in [Slot -> GpuBlock \cup {None}]
    /\ step_d2h \in [GpuBlock -> Slot \cup {None}]
    /\ deferred_d2h \in Seq(GpuBlock \X Hash)
    /\ pending_ready_slots \subseteq Slot

CacheInit ==
    /\ hash_to_slot = [h \in Hash |-> None]
    /\ slot_to_hash = [s \in Slot |-> None]
    /\ ready_slots = {}
    /\ lru = {}
    /\ free_slots = Slot
    /\ step_slots_in_use = {}
    /\ step_load_slots = {}
    /\ step_h2d = [s \in Slot |-> None]
    /\ step_d2h = [b \in GpuBlock |-> None]
    /\ deferred_d2h = <<>>
    /\ pending_ready_slots = {}

----------------------------------------------------------------------------
\* _touch: slot s becomes the most recently used one.
touch(s) ==
    lru' = {p \in lru : p[1] # s /\ p[2] # s} \cup {<<t, s>> : t \in resident \ {s}}

\* begin_step: publish the D2H stores of the preceding, synchronous step.
begin_step_raises ==
    \/ step_slots_in_use # {}
    \/ h2d_sources # {}
    \/ d2h_sources # {}
    \/ deferred_d2h # <<>>

begin_step ==
    /\ ~begin_step_raises
    /\ ready_slots' = ready_slots \cup pending_ready_slots
    /\ pending_ready_slots' = {}
    /\ UNCHANGED <<hash_to_slot, slot_to_hash, lru, free_slots, step_slots_in_use,
                   step_load_slots, step_h2d, step_d2h, deferred_d2h>>

\* _require_step_started, called by every lookup and every store.
step_not_started == pending_ready_slots # {}

\* is_ready: the hash has a slot and the slot may be read.
is_ready(h) == hash_to_slot[h] # None /\ hash_to_slot[h] \in ready_slots

\* claim_load of a hash that is ready (otherwise it returns None and changes
\* nothing): pin the slot for this step.
claim_load_raises(h) ==
    \/ step_not_started
    \/ is_ready(h) /\ hash_to_slot[h] \in step_slots_in_use

claim_load(h) ==
    /\ ~claim_load_raises(h)
    /\ is_ready(h)
    /\ LET slot == hash_to_slot[h] IN
         /\ step_slots_in_use' = step_slots_in_use \cup {slot}
         /\ step_load_slots' = step_load_slots \cup {slot}
         /\ touch(slot)
    /\ UNCHANGED <<hash_to_slot, slot_to_hash, ready_slots, free_slots, step_h2d,
                   step_d2h, deferred_d2h, pending_ready_slots>>

\* cancel_load: release a claim when no GPU block could be allocated.
cancel_load_raises(h, slot) ==
    \/ hash_to_slot[h] # slot
    \/ slot \in h2d_sources
    \/ slot \notin step_slots_in_use

\* Mutant of cancel_load: the H2D claim set is not rolled back.
cancel_load_keeps_claim(h, slot) ==
    /\ ~cancel_load_raises(h, slot)
    /\ step_slots_in_use' = step_slots_in_use \ {slot}
    /\ UNCHANGED <<hash_to_slot, slot_to_hash, ready_slots, lru, free_slots, step_h2d,
                   step_d2h, step_load_slots, deferred_d2h, pending_ready_slots>>

\* Mutant of cancel_load: giving up the claim also drops the entry.
cancel_load_drops_entry(h, slot) ==
    /\ ~cancel_load_raises(h, slot)
    /\ hash_to_slot' = [hash_to_slot EXCEPT ![h] = None]
    /\ slot_to_hash' = [slot_to_hash EXCEPT ![slot] = None]
    /\ step_slots_in_use' = step_slots_in_use \ {slot}
    /\ step_load_slots' = step_load_slots \ {slot}
    /\ UNCHANGED <<ready_slots, lru, free_slots, step_h2d, step_d2h, deferred_d2h,
                   pending_ready_slots>>

cancel_load(h, slot) ==
    /\ ~cancel_load_raises(h, slot)
    /\ step_slots_in_use' = step_slots_in_use \ {slot}
    /\ step_load_slots' = step_load_slots \ {slot}
    /\ UNCHANGED <<hash_to_slot, slot_to_hash, ready_slots, lru, free_slots, step_h2d,
                   step_d2h, deferred_d2h, pending_ready_slots>>

\* stage_load: stage one CPU-to-GPU promotion.  It writes step_h2d alone, so it
\* combines with the stage_store of the block evicted to make room for it.
stage_load_raises(h, slot, b) ==
    \/ hash_to_slot[h] # slot
    \/ slot \notin ready_slots
    \/ slot \notin step_slots_in_use
    \/ slot \in h2d_sources
    \/ b \in h2d_targets
    \/ slot \in d2h_targets

stage_load(h, slot, b) ==
    /\ ~stage_load_raises(h, slot, b)
    /\ step_h2d' = [step_h2d EXCEPT ![slot] = b]

\* _commit_store: give slot to hash h, whatever it held before, and stage D2H.
commit_store_raises(slot) ==
    \/ slot_to_hash[slot] # None /\ slot \in step_slots_in_use
    \/ slot \in h2d_sources
    \/ slot \in d2h_targets

\* Mutant of _commit_store: the replaced hash keeps its slot.
commit_store_keeps_old_hash(h, b, slot) ==
    /\ ~commit_store_raises(slot)
    /\ hash_to_slot' = [hash_to_slot EXCEPT ![h] = slot]
    /\ slot_to_hash' = [slot_to_hash EXCEPT ![slot] = h]
    /\ ready_slots' = ready_slots \ {slot}
    /\ step_slots_in_use' = step_slots_in_use \cup {slot}
    /\ step_d2h' = [step_d2h EXCEPT ![b] = slot]
    /\ touch(slot)

commit_store(h, b, slot) ==
    /\ ~commit_store_raises(slot)
    /\ hash_to_slot' = [g \in Hash |-> IF g = h THEN slot
                                       ELSE IF g = slot_to_hash[slot] THEN None
                                       ELSE hash_to_slot[g]]
    /\ slot_to_hash' = [slot_to_hash EXCEPT ![slot] = h]
    /\ ready_slots' = ready_slots \ {slot}
    /\ step_slots_in_use' = step_slots_in_use \cup {slot}
    /\ step_d2h' = [step_d2h EXCEPT ![b] = slot]
    /\ touch(slot)

\* stage_store: keep a copy of the immutable block b, evicted with hash h.
stage_store_is_duplicate(h) == hash_to_slot[h] # None \/ h \in deferred_hashes

stage_store_raises(h, b) ==
    \/ step_not_started
    \/ ~stage_store_is_duplicate(h) /\ (b \in d2h_sources \/ b \in deferred_blocks)

\* _free_slots is a min-heap: heappop takes the smallest slot.
heappop(s) == s \in free_slots /\ \A t \in free_slots : s <= t

stage_store_deduplicated(h) ==
    /\ stage_store_is_duplicate(h)
    /\ IF hash_to_slot[h] # None THEN touch(hash_to_slot[h]) ELSE UNCHANGED lru
    /\ UNCHANGED <<hash_to_slot, slot_to_hash, ready_slots, free_slots,
                   step_slots_in_use, step_d2h, deferred_d2h>>

stage_store_committed(h, b) ==
    /\ ~stage_store_is_duplicate(h)
    /\ free_slots # {}
    /\ \E slot \in Slot :
         /\ heappop(slot)
         /\ commit_store(h, b, slot)
         /\ free_slots' = free_slots \ {slot}
    /\ UNCHANGED deferred_d2h

\* No resident content is replaced before every lookup of the step is known.
stage_store_deferred(h, b) ==
    /\ ~stage_store_is_duplicate(h)
    /\ free_slots = {}
    /\ deferred_d2h' = Append(deferred_d2h, <<b, h>>)
    /\ UNCHANGED <<hash_to_slot, slot_to_hash, ready_slots, lru, free_slots,
                   step_slots_in_use, step_d2h>>

stage_store(h, b) ==
    /\ ~stage_store_raises(h, b)
    /\ \/ stage_store_deduplicated(h)
       \/ stage_store_committed(h, b)
       \/ stage_store_deferred(h, b)
    /\ UNCHANGED <<step_load_slots, pending_ready_slots>>

----------------------------------------------------------------------------
\* _resolve_deferred_stores, one iteration of its loop per action.  A step that
\* loads anything drops every deferred store; otherwise each takes the least
\* recently used slot that no transfer of this step pins, or is dropped.
\* (_select_store_slot tries _free_slots first; a store is deferred only when
\* that heap is empty, and nothing refills it.)
replaceable == resident \ step_slots_in_use

is_lru_slot(s) ==
    /\ s \in replaceable
    /\ \A t \in replaceable \ {s} : <<s, t>> \in lru

skip_all_deferred ==
    /\ deferred_d2h # <<>>
    /\ step_load_slots # {}
    /\ deferred_d2h' = <<>>
    /\ UNCHANGED <<hash_to_slot, slot_to_hash, ready_slots, lru, free_slots,
                   step_slots_in_use, step_load_slots, step_h2d, step_d2h,
                   pending_ready_slots>>

commit_deferred ==
    /\ deferred_d2h # <<>>
    /\ step_load_slots = {}
    /\ \E slot \in Slot :
         /\ is_lru_slot(slot)
         /\ commit_store(Head(deferred_d2h)[2], Head(deferred_d2h)[1], slot)
    /\ deferred_d2h' = Tail(deferred_d2h)
    /\ UNCHANGED <<free_slots, step_load_slots, step_h2d, pending_ready_slots>>

skip_deferred ==
    /\ deferred_d2h # <<>>
    /\ step_load_slots = {}
    /\ replaceable = {}
    /\ deferred_d2h' = Tail(deferred_d2h)
    /\ UNCHANGED <<hash_to_slot, slot_to_hash, ready_slots, lru, free_slots,
                   step_slots_in_use, step_load_slots, step_h2d, step_d2h,
                   pending_ready_slots>>

\* drain_step, once every deferred store is resolved: the two maps leave for
\* the worker (KvTier reads step_h2d and step_d2h) and the step's pins end.
drain_step_raises ==
    \/ h2d_sources \cup d2h_targets # step_slots_in_use
    \/ h2d_sources \cap d2h_targets # {}
    \/ h2d_sources # step_load_slots

\* Mutant of drain_step: the stores of this step are published at once.
drain_step_publishes ==
    /\ deferred_d2h = <<>>
    /\ ~drain_step_raises
    /\ ready_slots' = ready_slots \cup d2h_targets
    /\ step_h2d' = [s \in Slot |-> None]
    /\ step_d2h' = [b \in GpuBlock |-> None]
    /\ step_slots_in_use' = {}
    /\ step_load_slots' = {}
    /\ UNCHANGED <<hash_to_slot, slot_to_hash, lru, free_slots, deferred_d2h,
                   pending_ready_slots>>

drain_step ==
    /\ deferred_d2h = <<>>
    /\ ~drain_step_raises
    /\ pending_ready_slots' = pending_ready_slots \cup d2h_targets
    /\ step_h2d' = [s \in Slot |-> None]
    /\ step_d2h' = [b \in GpuBlock |-> None]
    /\ step_slots_in_use' = {}
    /\ step_load_slots' = {}
    /\ UNCHANGED <<hash_to_slot, slot_to_hash, ready_slots, lru, free_slots,
                   deferred_d2h>>
=============================================================================
