------------------------- MODULE FrequencyEvictor --------------------------
(***************************************************************************)
(* FrequencyAwareEvictor of vllm_overrides/core/evictor_v2.py: a heap of   *)
(* entries that are invalidated lazily, by generation, and compacted when  *)
(* the stale ones outnumber the free blocks.  An entry carries the         *)
(* frequency its content had when it was pushed; evict() re-pushes an      *)
(* entry it finds outdated.                                                *)
(*                                                                         *)
(* The state and the operations' effect on the free table are those of     *)
(* PriorityEvictor; this module adds the heap, and evict() becomes a loop, *)
(* one iteration per action.  The heap is a set: a generation is pushed    *)
(* for one block only and is in the heap at most once.  _generations has   *)
(* no entry where the model has 0.                                         *)
(***************************************************************************)
EXTENDS PriorityEvictor, FiniteSets

CONSTANT MaxGeneration      \* bound on add() and update() calls

ASSUME MaxGenerationAssumption == MaxGeneration \in Nat

CompactionFactor == 2       \* _COMPACTION_FACTOR
CompactionSlack == 1        \* _COMPACTION_SLACK

VARIABLES
    heap,               \* entries [frequency, last_accessed, tokens, block, generation]
    generations,        \* Block -> generation of its valid entry
    next_generation,
    evicting            \* evict() is in its loop

vars == <<free_table, frequency_by_hash, evicted, heap, generations, next_generation, evicting>>

Entry == [frequency : Nat, last_accessed : Time, tokens : Tokens, block : Block,
          generation : Nat]

\* Every variable has its type.
TypeOK ==
    /\ free_table \in [Block -> BlockMetaData \cup {None}]
    /\ frequency_by_hash \in [Hash -> Nat]
    /\ evicted \in Block \cup {None}
    /\ heap \subseteq Entry
    /\ generations \in [Block -> Nat]
    /\ next_generation \in Nat
    /\ evicting \in BOOLEAN

Init ==
    /\ AbstractInit
    /\ heap = {}
    /\ generations = [b \in Block |-> 0]
    /\ next_generation = 0
    /\ evicting = FALSE

\* Mutant of the heap order: the frequency is not part of the key.
less_by_age(d, e) ==
    \/ d.last_accessed < e.last_accessed
    \/ /\ d.last_accessed = e.last_accessed
       /\ \/ d.tokens > e.tokens
          \/ /\ d.tokens = e.tokens
             /\ \/ d.block < e.block
                \/ d.block = e.block /\ d.generation < e.generation

\* The order of the heap's tuples (tokens are negated there).
less(d, e) ==
    \/ d.frequency < e.frequency
    \/ /\ d.frequency = e.frequency
       /\ \/ d.last_accessed < e.last_accessed
          \/ /\ d.last_accessed = e.last_accessed
             /\ \/ d.tokens > e.tokens
                \/ /\ d.tokens = e.tokens
                   /\ \/ d.block < e.block
                      \/ d.block = e.block /\ d.generation < e.generation

\* Mutant of _heap_key: the frequency before the add() that is under way.
heap_key_frequency_before(b, table, freq, gens) ==
    [frequency |-> frequency_by_hash[table[b].hash] - 1,
     last_accessed |-> table[b].last_accessed,
     tokens |-> table[b].tokens, block |-> b, generation |-> gens[b]]

\* _heap_key, for a table, frequencies and generations that may be the next ones.
heap_key(b, table, freq, gens) ==
    [frequency |-> freq[table[b].hash], last_accessed |-> table[b].last_accessed,
     tokens |-> table[b].tokens, block |-> b, generation |-> gens[b]]

\* _compact_if_needed: h, or one fresh entry for each free block.
compact_if_needed(h, table, freq, gens) ==
    LET freeBlocks == {b \in Block : table[b] # None} IN
    IF Cardinality(h) <= CompactionFactor * Cardinality(freeBlocks) + CompactionSlack
    THEN h
    ELSE {heap_key(b, table, freq, gens) : b \in freeBlocks}

\* _push(b), then _compact_if_needed, with the table and frequencies already new.
push(b, table, freq) ==
    LET gens == [generations EXCEPT ![b] = next_generation + 1] IN
    /\ next_generation < MaxGeneration
    /\ next_generation' = next_generation + 1
    /\ generations' = gens
    /\ heap' = compact_if_needed(heap \cup {heap_key(b, table, freq, gens)},
                                 table, freq, gens)

\* add: a freed block enters the free table, its content's frequency grows.
add(b, meta) ==
    /\ ~evicting
    /\ AbstractAdd(b, meta)
    /\ push(b, [free_table EXCEPT ![b] = meta],
               [frequency_by_hash EXCEPT ![meta.hash] = @ + 1])
    /\ UNCHANGED evicting

\* Mutant of update: the time changes in place and no entry is pushed.
update_in_place(b, time) ==
    /\ ~evicting
    /\ AbstractUpdate(b, time)
    /\ UNCHANGED <<heap, generations, next_generation, evicting>>

\* update: a free block's access time, from mark_blocks_as_accessed.
update(b, time) ==
    /\ ~evicting
    /\ AbstractUpdate(b, time)
    /\ push(b, [free_table EXCEPT ![b].last_accessed = time], frequency_by_hash)
    /\ UNCHANGED evicting

\* Mutant of remove: the heap is not compacted.
remove_uncompacted(b) ==
    /\ ~evicting
    /\ AbstractRemove(b)
    /\ generations' = [generations EXCEPT ![b] = 0]
    /\ UNCHANGED <<heap, next_generation, evicting>>

\* remove: a free block is taken back by a cache hit.
remove(b) ==
    /\ ~evicting
    /\ AbstractRemove(b)
    /\ generations' = [generations EXCEPT ![b] = 0]
    /\ heap' = compact_if_needed(heap, [free_table EXCEPT ![b] = None],
                                 frequency_by_hash, generations')
    /\ UNCHANGED <<next_generation, evicting>>

\* evict() is called only when the evictor has a block.
begin_evict ==
    /\ ~evicting
    /\ free # {}
    /\ evicting' = TRUE
    /\ UNCHANGED <<free_table, frequency_by_hash, evicted, heap, generations, next_generation>>

heappop(e) == e \in heap /\ \A d \in heap \ {e} : less(e, d)

is_valid(e) == e.block \in free /\ generations[e.block] = e.generation

\* An iteration that meets an invalidated entry.
pop_stale(e) ==
    /\ evicting
    /\ heappop(e)
    /\ ~is_valid(e)
    /\ heap' = heap \ {e}
    /\ UNCHANGED <<free_table, frequency_by_hash, evicted, generations, next_generation, evicting>>

\* Mutant of the iteration below: the entry is not pushed again.
pop_outdated_dropped(e) ==
    /\ evicting
    /\ heappop(e)
    /\ is_valid(e)
    /\ frequency(e.block) # e.frequency
    /\ heap' = heap \ {e}
    /\ UNCHANGED <<free_table, frequency_by_hash, evicted, generations, next_generation, evicting>>

\* Mutant of the iteration below: the entry is pushed again as it was.
pop_outdated_unchanged(e) ==
    /\ evicting
    /\ heappop(e)
    /\ is_valid(e)
    /\ frequency(e.block) # e.frequency
    /\ UNCHANGED vars

\* An iteration that meets a valid entry whose content has been freed again since.
pop_outdated(e) ==
    /\ evicting
    /\ heappop(e)
    /\ is_valid(e)
    /\ frequency(e.block) # e.frequency
    /\ heap' = (heap \ {e})
                  \cup {heap_key(e.block, free_table, frequency_by_hash, generations)}
    /\ UNCHANGED <<free_table, frequency_by_hash, evicted, generations, next_generation, evicting>>

\* The last iteration: the block is given up.
pop_valid(e) ==
    /\ evicting
    /\ heappop(e)
    /\ is_valid(e)
    /\ frequency(e.block) = e.frequency
    /\ free_table' = [free_table EXCEPT ![e.block] = None]
    /\ generations' = [generations EXCEPT ![e.block] = 0]
    /\ heap' = compact_if_needed(heap \ {e}, [free_table EXCEPT ![e.block] = None],
                                 frequency_by_hash, generations')
    /\ evicted' = e.block
    /\ evicting' = FALSE
    /\ UNCHANGED <<frequency_by_hash, next_generation>>

evict_iteration == \E e \in heap : pop_stale(e) \/ pop_outdated(e) \/ pop_valid(e)

Next ==
    \/ \E b \in Block, meta \in BlockMetaData : add(b, meta)
    \/ \E b \in Block, time \in Time : update(b, time)
    \/ \E b \in Block : remove(b)
    \/ begin_evict
    \/ \E e \in heap : pop_stale(e)
    \/ \E e \in heap : pop_outdated(e)
    \/ \E e \in heap : pop_valid(e)

\* evict() is straight-line code: its loop runs until it returns.
Spec == Init /\ [][Next]_vars /\ WF_vars(evict_iteration)

----------------------------------------------------------------------------
(* Properties *)

\* While a block is free, evict() never runs out of entries ("Evictor heap has no
\* usable entry"), whatever adds, updates, removals, re-pushes and compactions
\* came before: lazy invalidation never loses the valid entry of a block.
EvictFindsEntry == evicting => \E e \in heap : is_valid(e)

\* "without allowing stale entries to grow without bound".
HeapIsBounded ==
    Cardinality(heap) <= CompactionFactor * Cardinality(free) + CompactionSlack

\* A valid entry never overstates the frequency of its content and is otherwise
\* what _heap_key would push now: the minimum of the heap can be trusted once its
\* frequency is current.
ValidEntryIsCurrent ==
    \A e \in heap : is_valid(e) =>
        /\ e.frequency <= frequency(e.block)
        /\ e.last_accessed = free_table[e.block].last_accessed
        /\ e.tokens = free_table[e.block].tokens

\* Every call of evict() returns.
EvictReturns == evicting ~> ~evicting
=============================================================================
