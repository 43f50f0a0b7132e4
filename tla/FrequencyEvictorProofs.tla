----------------------- MODULE FrequencyEvictorProofs -----------------------
(***************************************************************************)
(* Proofs about FrequencyEvictor, for any set of blocks, hashes, times and *)
(* token counts and any bound on the calls: the type invariant, that       *)
(* evict() always finds an entry, that the heap stays within its bound,    *)
(* and that the lazily invalidated heap implements PriorityEvictor.        *)
(***************************************************************************)
EXTENDS FrequencyEvictor, FiniteSetTheorems, TLAPS

\* Every free block has the entry its generation names.
LiveEntries == \A b \in free : \E e \in heap : e.block = b /\ e.generation = generations[b]

\* A pushed generation is new: no entry has a larger one.
GenerationsAreOld == \A e \in heap : e.generation <= next_generation

\* The generation of a block is one that was pushed.
GenerationBound == \A b \in Block : generations[b] <= next_generation

\* The inductive invariant.
EvictorInv ==
    /\ TypeOK
    /\ LiveEntries
    /\ GenerationsAreOld
    /\ GenerationBound
    /\ ValidEntryIsCurrent

\* A heap is right for a table, frequencies, generations and a last generation:
\* the three parts of EvictorInv that speak of the heap, for a state that may be
\* the next one.
GoodHeap(h, table, freq, gens, last) ==
    /\ h \subseteq Entry
    /\ \A b \in Block : table[b] # None =>
          \E e \in h : e.block = b /\ e.generation = gens[b]
    /\ \A e \in h : e.generation <= last
    /\ \A e \in h : table[e.block] # None /\ gens[e.block] = e.generation =>
          /\ e.frequency <= freq[table[e.block].hash]
          /\ e.last_accessed = table[e.block].last_accessed
          /\ e.tokens = table[e.block].tokens

\* Compaction keeps a right heap right: it forgets only invalidated entries.
LEMMA CompactionKeepsHeap ==
    ASSUME NEW h, NEW table \in [Block -> BlockMetaData \cup {None}],
           NEW freq \in [Hash -> Nat], NEW gens \in [Block -> Nat], NEW last \in Nat,
           \A b \in Block : gens[b] <= last,
           GoodHeap(h, table, freq, gens, last)
    PROVE  GoodHeap(compact_if_needed(h, table, freq, gens), table, freq, gens, last)
<1> DEFINE fresh == {heap_key(b, table, freq, gens) : b \in {c \in Block : table[c] # None}}
<1>1. ASSUME NEW b \in Block, table[b] # None
      PROVE  /\ heap_key(b, table, freq, gens) \in Entry
             /\ heap_key(b, table, freq, gens).block = b
             /\ heap_key(b, table, freq, gens).generation = gens[b]
             /\ heap_key(b, table, freq, gens).frequency = freq[table[b].hash]
             /\ heap_key(b, table, freq, gens).last_accessed = table[b].last_accessed
             /\ heap_key(b, table, freq, gens).tokens = table[b].tokens
  <2>1. table[b] \in BlockMetaData
    BY <1>1
  <2>2. /\ freq[table[b].hash] \in Nat
        /\ table[b].last_accessed \in Time
        /\ table[b].tokens \in Tokens
    BY <2>1 DEF BlockMetaData
  <2>3. QED
    BY <2>2 DEF heap_key, Entry
<1>2. GoodHeap(fresh, table, freq, gens, last)
  <2> SUFFICES /\ fresh \subseteq Entry
               /\ \A b \in Block : table[b] # None =>
                     \E e \in fresh : e.block = b /\ e.generation = gens[b]
               /\ \A e \in fresh : /\ table[e.block] # None
                                   /\ e.block \in Block
                                   /\ e.generation = gens[e.block]
                                   /\ e.frequency = freq[table[e.block].hash]
                                   /\ e.last_accessed = table[e.block].last_accessed
                                   /\ e.tokens = table[e.block].tokens
    <3>1. \A e \in Entry : e.frequency \in Nat
      BY DEF Entry
    <3> QED
      BY <3>1 DEF GoodHeap
  <2> QED
    BY <1>1
<1>3. QED
  BY <1>2 DEF compact_if_needed
\* EvictorInv is the type invariant and a right heap.
LEMMA HeapForm ==
    ASSUME TypeOK
    PROVE  LiveEntries /\ GenerationsAreOld /\ ValidEntryIsCurrent
             <=> GoodHeap(heap, free_table, frequency_by_hash, generations, next_generation)
  BY DEF TypeOK, LiveEntries, GenerationsAreOld, ValidEntryIsCurrent, GoodHeap, free,
         is_valid, frequency, Entry

\* Pushing a block gives a right heap for a table that differs at that block
\* alone and frequencies that have only grown.
LEMMA PushKeepsHeap ==
    ASSUME EvictorInv,
           NEW b \in Block,
           NEW table \in [Block -> BlockMetaData \cup {None}],
           NEW freq \in [Hash -> Nat],
           table[b] # None,
           \A c \in Block \ {b} : table[c] = free_table[c],
           \A g \in Hash : frequency_by_hash[g] <= freq[g],
           push(b, table, freq)
    PROVE  /\ heap' \subseteq Entry /\ generations' \in [Block -> Nat] /\ next_generation' \in Nat
           /\ \A c \in Block : generations'[c] <= next_generation'
           /\ GoodHeap(heap', table, freq, generations', next_generation')
<1> DEFINE gens == [generations EXCEPT ![b] = next_generation + 1]
           key == heap_key(b, table, freq, gens)
           h == heap \cup {key}
<1>1. /\ next_generation \in Nat
      /\ generations \in [Block -> Nat]
      /\ heap \subseteq Entry
      /\ free_table \in [Block -> BlockMetaData \cup {None}]
      /\ frequency_by_hash \in [Hash -> Nat]
  BY DEF EvictorInv, TypeOK
<1>2. /\ gens \in [Block -> Nat]
      /\ gens[b] = next_generation + 1
      /\ \A c \in Block \ {b} : gens[c] = generations[c]
      /\ \A c \in Block : gens[c] <= next_generation + 1
  BY <1>1 DEF EvictorInv, GenerationBound
<1>3. table[b] \in BlockMetaData
  OBVIOUS
<1>4. /\ key \in Entry
      /\ key.block = b
      /\ key.generation = next_generation + 1
      /\ key.frequency = freq[table[b].hash]
      /\ key.last_accessed = table[b].last_accessed
      /\ key.tokens = table[b].tokens
  <2>1. /\ freq[table[b].hash] \in Nat
        /\ table[b].last_accessed \in Time
        /\ table[b].tokens \in Tokens
    BY <1>3 DEF BlockMetaData
  <2>2. QED
    BY <2>1, <1>2, <1>1 DEF heap_key, Entry
<1>5. GoodHeap(h, table, freq, gens, next_generation + 1)
  <2>1. h \subseteq Entry
    BY <1>1, <1>4
  <2>2. ASSUME NEW c \in Block, table[c] # None
        PROVE  \E e \in h : e.block = c /\ e.generation = gens[c]
    <3>1. CASE c = b
      BY <3>1, <1>2, <1>4
    <3>2. CASE c # b
      BY <2>2, <3>2, <1>2 DEF EvictorInv, LiveEntries, free
    <3>3. QED
      BY <3>1, <3>2
  <2>3. \A e \in h : e.generation <= next_generation + 1
    <3>1. \A e \in heap : e.generation <= next_generation /\ e.generation \in Nat
      BY <1>1 DEF EvictorInv, GenerationsAreOld, Entry
    <3>2. QED
      BY <3>1, <1>1, <1>4
  <2>4. ASSUME NEW e \in h, table[e.block] # None, gens[e.block] = e.generation
        PROVE  /\ e.frequency <= freq[table[e.block].hash]
               /\ e.last_accessed = table[e.block].last_accessed
               /\ e.tokens = table[e.block].tokens
    <3>1. CASE e = key
      <4>1. freq[table[b].hash] \in Nat
        BY <1>3 DEF BlockMetaData
      <4>2. QED
        BY <3>1, <4>1, <1>4
    <3>2. CASE e \in heap
      <4>1. e \in Entry /\ e.generation <= next_generation
        BY <3>2, <1>1 DEF EvictorInv, GenerationsAreOld
      <4>2. e.block # b /\ e.block \in Block /\ e.generation \in Nat /\ e.frequency \in Nat
        BY <4>1, <2>4, <1>1, <1>2 DEF Entry
      <4>3. is_valid(e) /\ table[e.block] = free_table[e.block]
        BY <4>2, <2>4, <1>2 DEF is_valid, free
      <4>4. /\ e.frequency <= frequency_by_hash[table[e.block].hash]
            /\ e.last_accessed = table[e.block].last_accessed
            /\ e.tokens = table[e.block].tokens
        BY <3>2, <4>3 DEF EvictorInv, ValidEntryIsCurrent, frequency
      <4>5. table[e.block].hash \in Hash
        BY <4>2, <2>4 DEF BlockMetaData
      <4>6. QED
        BY <4>2, <4>4, <4>5, <1>1
    <3>3. QED
      BY <3>1, <3>2
  <2>5. QED
    BY <2>1, <2>2, <2>3, <2>4 DEF GoodHeap
<1>6. /\ heap' = compact_if_needed(h, table, freq, gens)
      /\ generations' = gens
      /\ next_generation' = next_generation + 1
  BY DEF push
<1>7. GoodHeap(heap', table, freq, gens, next_generation + 1)
  BY <1>1, <1>2, <1>5, <1>6, CompactionKeepsHeap
<1>8. QED
  BY <1>1, <1>2, <1>6, <1>7 DEF GoodHeap

\* A smaller heap, a smaller table: what remove() and evict() leave.
LEMMA RemovalKeepsHeap ==
    ASSUME EvictorInv, NEW b \in Block,
           NEW h \in SUBSET heap,
           \A e \in heap \ h : e.block = b
    PROVE  GoodHeap(h, [free_table EXCEPT ![b] = None], frequency_by_hash,
                    [generations EXCEPT ![b] = 0], next_generation)
<1> DEFINE table == [free_table EXCEPT ![b] = None]
           gens == [generations EXCEPT ![b] = 0]
<1>1. GoodHeap(heap, free_table, frequency_by_hash, generations, next_generation)
  BY HeapForm DEF EvictorInv
<1>2. /\ table[b] = None /\ \A c \in Block \ {b} : table[c] = free_table[c]
      /\ \A c \in Block \ {b} : gens[c] = generations[c]
      /\ \A e \in heap : e.block \in Block
  BY DEF EvictorInv, TypeOK, Entry
<1>3. \A c \in Block : table[c] # None => \E e \in h : e.block = c /\ e.generation = gens[c]
  BY <1>1, <1>2 DEF GoodHeap
<1>4. QED
  BY <1>1, <1>2, <1>3 DEF GoodHeap

\* Every operation of the evictor, and every iteration of evict(), keeps the
\* inductive invariant.
LEMMA EvictorStep == EvictorInv /\ [Next]_vars => EvictorInv'
<1> SUFFICES ASSUME EvictorInv, [Next]_vars PROVE EvictorInv'
  OBVIOUS
<1> USE EvictorAssumption
<1>0. SUFFICES TypeOK' /\ GenerationBound'
               /\ GoodHeap(heap, free_table, frequency_by_hash, generations, next_generation)'
  BY DEF EvictorInv, TypeOK, LiveEntries, GenerationsAreOld, ValidEntryIsCurrent, GoodHeap,
         free, is_valid, frequency, Entry
<1>t. TypeOK
  BY DEF EvictorInv
<1>g. GoodHeap(heap, free_table, frequency_by_hash, generations, next_generation)
  BY HeapForm DEF EvictorInv
<1>1. ASSUME NEW b \in Block, NEW meta \in BlockMetaData, add(b, meta)
      PROVE  TypeOK' /\ GenerationBound'
             /\ GoodHeap(heap, free_table, frequency_by_hash, generations, next_generation)'
  <2>1. /\ free_table' = [free_table EXCEPT ![b] = meta]
        /\ frequency_by_hash' = [frequency_by_hash EXCEPT ![meta.hash] = @ + 1]
        /\ evicted' = None /\ evicting' = evicting
        /\ push(b, free_table', frequency_by_hash')
    BY <1>1 DEF add, AbstractAdd
  <2>2. meta.hash \in Hash /\ meta # None
    BY DEF BlockMetaData
  <2>3. /\ free_table' \in [Block -> BlockMetaData \cup {None}]
        /\ free_table'[b] # None
        /\ \A c \in Block \ {b} : free_table'[c] = free_table[c]
        /\ frequency_by_hash' \in [Hash -> Nat]
        /\ \A g \in Hash : frequency_by_hash[g] <= frequency_by_hash'[g]
    BY <1>t, <2>1, <2>2 DEF TypeOK
  <2>4. /\ heap' \subseteq Entry /\ generations' \in [Block -> Nat] /\ next_generation' \in Nat
        /\ \A c \in Block : generations'[c] <= next_generation'
        /\ GoodHeap(heap', free_table', frequency_by_hash', generations', next_generation')
    BY <2>1, <2>3, PushKeepsHeap
  <2>5. QED
    BY <1>t, <2>1, <2>3, <2>4 DEF TypeOK, GenerationBound
<1>2. ASSUME NEW b \in Block, NEW time \in Time, update(b, time)
      PROVE  TypeOK' /\ GenerationBound'
             /\ GoodHeap(heap, free_table, frequency_by_hash, generations, next_generation)'
  <2>1. /\ free_table' = [free_table EXCEPT ![b].last_accessed = time]
        /\ frequency_by_hash' = frequency_by_hash
        /\ evicted' = None /\ evicting' = evicting
        /\ b \in free
        /\ push(b, free_table', frequency_by_hash')
    BY <1>2 DEF update, AbstractUpdate
  <2>2. free_table[b] \in BlockMetaData
    BY <1>t, <2>1 DEF TypeOK, free
  <2>3. [free_table[b] EXCEPT !.last_accessed = time] \in BlockMetaData
    BY <2>2 DEF BlockMetaData
  <2>4. /\ free_table' \in [Block -> BlockMetaData \cup {None}]
        /\ free_table'[b] # None
        /\ \A c \in Block \ {b} : free_table'[c] = free_table[c]
        /\ frequency_by_hash' \in [Hash -> Nat]
        /\ \A g \in Hash : frequency_by_hash[g] <= frequency_by_hash'[g]
    BY <1>t, <2>1, <2>3 DEF TypeOK, BlockMetaData
  <2>5. /\ heap' \subseteq Entry /\ generations' \in [Block -> Nat] /\ next_generation' \in Nat
        /\ \A c \in Block : generations'[c] <= next_generation'
        /\ GoodHeap(heap', free_table', frequency_by_hash', generations', next_generation')
    BY <2>1, <2>4, PushKeepsHeap
  <2>6. QED
    BY <1>t, <2>1, <2>4, <2>5 DEF TypeOK, GenerationBound
<1>r. ASSUME NEW b \in Block, NEW h \in SUBSET heap, \A e \in heap \ h : e.block = b,
             free_table' = [free_table EXCEPT ![b] = None],
             generations' = [generations EXCEPT ![b] = 0],
             heap' = compact_if_needed(h, free_table', frequency_by_hash, generations'),
             UNCHANGED <<frequency_by_hash, next_generation>>,
             evicted' \in Block \cup {None}, evicting' \in BOOLEAN
      PROVE  TypeOK' /\ GenerationBound'
             /\ GoodHeap(heap, free_table, frequency_by_hash, generations, next_generation)'
  <2>1. GoodHeap(h, free_table', frequency_by_hash, generations', next_generation)
    BY <1>r, RemovalKeepsHeap
  <2>2. /\ free_table' \in [Block -> BlockMetaData \cup {None}]
        /\ generations' \in [Block -> Nat]
        /\ frequency_by_hash \in [Hash -> Nat] /\ next_generation \in Nat
        /\ \A c \in Block : generations'[c] <= next_generation
    BY <1>r, <1>t DEF TypeOK, EvictorInv, GenerationBound
  <2>3. GoodHeap(heap', free_table', frequency_by_hash, generations', next_generation)
    BY <1>r, <2>1, <2>2, CompactionKeepsHeap
  <2>4. heap' \subseteq Entry
    BY <2>3 DEF GoodHeap
  <2>5. QED
    BY <1>r, <2>2, <2>3, <2>4 DEF TypeOK, GenerationBound
<1>3. ASSUME NEW b \in Block, remove(b)
      PROVE  TypeOK' /\ GenerationBound'
             /\ GoodHeap(heap, free_table, frequency_by_hash, generations, next_generation)'
  <2>1. /\ free_table' = [free_table EXCEPT ![b] = None]
        /\ generations' = [generations EXCEPT ![b] = 0]
        /\ heap' = compact_if_needed(heap, free_table', frequency_by_hash, generations')
        /\ UNCHANGED <<frequency_by_hash, next_generation>>
        /\ evicted' = None /\ evicting' = evicting
    BY <1>3 DEF remove, AbstractRemove
  <2>2. QED
    BY <1>r, <1>t, <2>1 DEF TypeOK
<1>4. CASE begin_evict
  BY <1>4, <1>t, <1>g DEF begin_evict, TypeOK, EvictorInv, GenerationBound
<1>5. ASSUME NEW e \in heap, pop_stale(e)
      PROVE  TypeOK' /\ GenerationBound'
             /\ GoodHeap(heap, free_table, frequency_by_hash, generations, next_generation)'
  <2>1. /\ heap' = heap \ {e} /\ ~is_valid(e)
        /\ UNCHANGED <<free_table, frequency_by_hash, evicted, generations, next_generation,
                       evicting>>
    BY <1>5 DEF pop_stale
  <2>2. TypeOK' /\ GenerationBound'
    BY <1>t, <2>1 DEF TypeOK, EvictorInv, GenerationBound
  <2>3. \A b \in Block : free_table[b] # None =>
            \E d \in heap' : d.block = b /\ d.generation = generations[b]
    BY <1>g, <2>1 DEF GoodHeap, is_valid, free
  <2>4. QED
    BY <1>g, <2>1, <2>2, <2>3 DEF GoodHeap
<1>6. ASSUME NEW e \in heap, pop_outdated(e)
      PROVE  TypeOK' /\ GenerationBound'
             /\ GoodHeap(heap, free_table, frequency_by_hash, generations, next_generation)'
  <2> DEFINE key == heap_key(e.block, free_table, frequency_by_hash, generations)
  <2>1. /\ heap' = (heap \ {e}) \cup {key} /\ is_valid(e)
        /\ UNCHANGED <<free_table, frequency_by_hash, evicted, generations, next_generation,
                       evicting>>
    BY <1>6 DEF pop_outdated
  <2>2. /\ e.block \in Block /\ free_table[e.block] \in BlockMetaData
        /\ generations[e.block] = e.generation /\ free_table[e.block] # None
    BY <1>t, <2>1 DEF TypeOK, is_valid, free
  <2>3. /\ frequency_by_hash[free_table[e.block].hash] \in Nat
        /\ free_table[e.block].last_accessed \in Time
        /\ free_table[e.block].tokens \in Tokens
    BY <1>t, <2>2 DEF TypeOK, BlockMetaData
  <2>4. /\ key \in Entry
        /\ key.block = e.block /\ key.generation = e.generation
        /\ key.frequency = frequency_by_hash[free_table[e.block].hash]
        /\ key.last_accessed = free_table[e.block].last_accessed
        /\ key.tokens = free_table[e.block].tokens
    BY <1>t, <2>2, <2>3 DEF heap_key, Entry, TypeOK
  <2>5. TypeOK' /\ GenerationBound'
    BY <1>t, <2>1, <2>4 DEF TypeOK, EvictorInv, GenerationBound
  <2>6. \A b \in Block : free_table[b] # None =>
            \E d \in heap' : d.block = b /\ d.generation = generations[b]
    <3> SUFFICES ASSUME NEW b \in Block, free_table[b] # None
                 PROVE  \E d \in heap' : d.block = b /\ d.generation = generations[b]
      OBVIOUS
    <3>1. PICK d \in heap : d.block = b /\ d.generation = generations[b]
      BY <1>g DEF GoodHeap
    <3>2. CASE d = e
      BY <2>1, <2>4, <3>1, <3>2
    <3>3. CASE d # e
      BY <2>1, <3>1, <3>3
    <3>4. QED
      BY <3>2, <3>3
  <2>7. \A d \in heap' : free_table[d.block] # None /\ generations[d.block] = d.generation =>
          /\ d.frequency <= frequency_by_hash[free_table[d.block].hash]
          /\ d.last_accessed = free_table[d.block].last_accessed
          /\ d.tokens = free_table[d.block].tokens
    BY <1>g, <2>1, <2>3, <2>4 DEF GoodHeap
  <2>8. QED
    BY <1>g, <2>1, <2>4, <2>5, <2>6, <2>7 DEF GoodHeap
<1>7. ASSUME NEW e \in heap, pop_valid(e)
      PROVE  TypeOK' /\ GenerationBound'
             /\ GoodHeap(heap, free_table, frequency_by_hash, generations, next_generation)'
  <2>1. e.block \in Block
    BY <1>t DEF TypeOK, Entry
  <2>2. /\ free_table' = [free_table EXCEPT ![e.block] = None]
        /\ generations' = [generations EXCEPT ![e.block] = 0]
        /\ heap' = compact_if_needed(heap \ {e}, free_table', frequency_by_hash, generations')
        /\ UNCHANGED <<frequency_by_hash, next_generation>>
        /\ evicted' = e.block /\ evicting' = FALSE
    BY <1>7 DEF pop_valid
  <2>3. QED
    BY <1>r, <2>1, <2>2
<1>8. CASE UNCHANGED vars
  BY <1>8, <1>t, <1>g DEF vars, TypeOK, EvictorInv, GenerationBound
<1>9. QED
  BY <1>1, <1>2, <1>3, <1>4, <1>5, <1>6, <1>7, <1>8 DEF Next

\* The invariant holds of the empty evictor.
LEMMA EvictorInit == Init => EvictorInv
<1> SUFFICES ASSUME Init PROVE EvictorInv
  OBVIOUS
<1>1. /\ free_table = [b \in Block |-> None] /\ frequency_by_hash = [h \in Hash |-> 0]
      /\ evicted = None /\ heap = {} /\ generations = [b \in Block |-> 0]
      /\ next_generation = 0
  BY DEF Init, AbstractInit
<1>2. evicting \in BOOLEAN
  BY DEF Init
<1>3. TypeOK
  BY <1>1, <1>2 DEF TypeOK
<1>4. free = {}
  BY <1>1 DEF free
<1>5. QED
  BY <1>1, <1>3, <1>4 DEF EvictorInv, LiveEntries, GenerationsAreOld, GenerationBound,
     ValidEntryIsCurrent

\* The inductive invariant: every free block keeps the entry its generation names.
THEOREM EvictorInvariant == Spec => []EvictorInv
<1>1. QED
  BY EvictorInit, EvictorStep, PTL DEF Spec

\* Every variable of the evictor keeps its type.
THEOREM EvictorTypeCorrect == Spec => []TypeOK
<1>1. EvictorInv => TypeOK
  BY DEF EvictorInv
<1>2. QED
  BY <1>1, EvictorInvariant, PTL

\* A valid entry never overstates its content's frequency and is otherwise what
\* _heap_key would push now.
THEOREM ValidEntriesAreCurrent == Spec => []ValidEntryIsCurrent
<1>1. EvictorInv => ValidEntryIsCurrent
  BY DEF EvictorInv
<1>2. QED
  BY <1>1, EvictorInvariant, PTL

----------------------------------------------------------------------------
(* evict() finds an entry *)

\* While evict() runs some block is free: nothing else runs, and the iteration
\* that empties the table returns.
EvictingHasBlock == evicting => free # {}

\* evict() never ends with "Evictor heap has no usable entry".
THEOREM EvictAlwaysFinds == Spec => []EvictFindsEntry
<1>1. Init => EvictingHasBlock
  BY DEF Init, EvictingHasBlock
<1>2. EvictorInv /\ EvictingHasBlock /\ [Next]_vars => EvictingHasBlock'
  <2> SUFFICES ASSUME EvictorInv, EvictingHasBlock, [Next]_vars PROVE EvictingHasBlock'
    OBVIOUS
  <2>1. ASSUME NEW b \in Block, NEW meta \in BlockMetaData, add(b, meta)
        PROVE  EvictingHasBlock'
    BY <2>1 DEF add, EvictingHasBlock
  <2>2. ASSUME NEW b \in Block, NEW time \in Time, update(b, time)
        PROVE  EvictingHasBlock'
    BY <2>2 DEF update, EvictingHasBlock
  <2>3. ASSUME NEW b \in Block, remove(b)
        PROVE  EvictingHasBlock'
    BY <2>3 DEF remove, EvictingHasBlock
  <2>4. CASE begin_evict
    BY <2>4 DEF begin_evict, EvictingHasBlock, free
  <2>5. ASSUME NEW e \in heap, pop_stale(e) \/ pop_outdated(e)
        PROVE  EvictingHasBlock'
    BY <2>5 DEF pop_stale, pop_outdated, EvictingHasBlock, free
  <2>6. ASSUME NEW e \in heap, pop_valid(e)
        PROVE  EvictingHasBlock'
    BY <2>6 DEF pop_valid, EvictingHasBlock
  <2>7. CASE UNCHANGED vars
    BY <2>7 DEF vars, EvictingHasBlock, free
  <2>8. QED
    BY <2>1, <2>2, <2>3, <2>4, <2>5, <2>6, <2>7 DEF Next
<1>3. EvictorInv /\ EvictingHasBlock => EvictFindsEntry
  BY DEF EvictorInv, LiveEntries, EvictingHasBlock, EvictFindsEntry, is_valid
<1>4. QED
  BY <1>1, <1>2, <1>3, EvictorInvariant, PTL DEF Spec

----------------------------------------------------------------------------
(* Refinement *)

\* The entry evict() pops last is the one of the block PriorityEvictor gives up.
LEMMA PoppedBlockIsFirst ==
    ASSUME EvictorInv, NEW e \in heap, pop_valid(e)
    PROVE  e.block \in free /\ \A c \in free \ {e.block} : precedes(e.block, c)
<1>1. /\ e.block \in free /\ is_valid(e) /\ frequency(e.block) = e.frequency
      /\ \A d \in heap \ {e} : less(e, d)
  BY DEF pop_valid, is_valid, heappop
<1>2. SUFFICES ASSUME NEW c \in free \ {e.block} PROVE precedes(e.block, c)
  BY <1>1
<1>3. PICK d \in heap : d.block = c /\ d.generation = generations[c]
  BY DEF EvictorInv, LiveEntries
<1>4. is_valid(d) /\ d # e
  BY <1>3 DEF is_valid
<1>5. /\ d.frequency <= frequency(c)
      /\ d.last_accessed = free_table[c].last_accessed /\ d.tokens = free_table[c].tokens
      /\ e.last_accessed = free_table[e.block].last_accessed
      /\ e.tokens = free_table[e.block].tokens
  BY <1>1, <1>3, <1>4 DEF EvictorInv, ValidEntryIsCurrent
<1>6. /\ d.frequency \in Nat /\ e.frequency \in Nat
      /\ d.last_accessed \in Int /\ e.last_accessed \in Int
      /\ d.tokens \in Nat /\ e.tokens \in Nat
      /\ d.block \in Nat /\ e.block \in Nat
  BY EvictorAssumption DEF EvictorInv, TypeOK, Entry
<1>7. frequency(c) \in Nat
  <2>1. c \in Block /\ free_table[c] \in BlockMetaData
    BY DEF EvictorInv, TypeOK, free
  <2>2. QED
    BY <2>1 DEF EvictorInv, TypeOK, frequency, BlockMetaData
<1>8. less(e, d) /\ d.block # e.block
  BY <1>1, <1>3, <1>4
<1>9. QED
  BY <1>1, <1>3, <1>5, <1>6, <1>7, <1>8 DEF less, precedes

\* Every step of the heap evictor is a step of PriorityEvictor or leaves its
\* variables alone.
LEMMA StepRefines == EvictorInv /\ [Next]_vars => [AbstractNext]_abstractVars
<1> SUFFICES ASSUME EvictorInv, [Next]_vars PROVE [AbstractNext]_abstractVars
  OBVIOUS
<1>1. ASSUME NEW b \in Block, NEW meta \in BlockMetaData, add(b, meta)
      PROVE  AbstractNext
  BY <1>1 DEF add, AbstractNext
<1>2. ASSUME NEW b \in Block, NEW time \in Time, update(b, time)
      PROVE  AbstractNext
  BY <1>2 DEF update, AbstractNext
<1>3. ASSUME NEW b \in Block, remove(b)
      PROVE  AbstractNext
  BY <1>3 DEF remove, AbstractNext
<1>4. CASE begin_evict
  BY <1>4 DEF begin_evict, abstractVars
<1>5. ASSUME NEW e \in heap, pop_stale(e) \/ pop_outdated(e)
      PROVE  UNCHANGED abstractVars
  BY <1>5 DEF pop_stale, pop_outdated, abstractVars
<1>6. ASSUME NEW e \in heap, pop_valid(e)
      PROVE  AbstractNext
  <2>1. e.block \in free /\ \A c \in free \ {e.block} : precedes(e.block, c)
    BY <1>6, PoppedBlockIsFirst
  <2>2. AbstractEvict(e.block)
    BY <1>6, <2>1 DEF pop_valid, AbstractEvict
  <2>3. QED
    BY <2>1, <2>2 DEF AbstractNext, free
<1>7. CASE UNCHANGED vars
  BY <1>7 DEF vars, abstractVars
<1>8. QED
  BY <1>1, <1>2, <1>3, <1>4, <1>5, <1>6, <1>7 DEF Next

\* The lazily invalidated, compacted heap implements the order the evictor
\* promises: the block evict() gives up is the least frequently freed content's,
\* then the least recently used, then the longest prefix.
THEOREM HeapImplementsPriority == Spec => AbstractSpec
<1>1. Init => AbstractInit
  BY DEF Init
<1>2. QED
  BY <1>1, StepRefines, EvictorInvariant, PTL DEF Spec, AbstractSpec

----------------------------------------------------------------------------
(* The heap's bound *)

\* The bound, with what its arithmetic needs.
Sized == IsFiniteSet(heap) /\ IsFiniteSet(free) /\ HeapIsBounded

\* The free blocks of a table that may be the next one.
FreeOf(table) == {b \in Block : table[b] # None}

\* After _compact_if_needed the heap is within its bound, whatever it was before.
LEMMA CompactionBounds ==
    ASSUME NEW h, NEW table, NEW freq, NEW gens,
           IsFiniteSet(h), IsFiniteSet(FreeOf(table))
    PROVE  LET g == compact_if_needed(h, table, freq, gens) IN
           /\ IsFiniteSet(g)
           /\ Cardinality(g) <= CompactionFactor * Cardinality(FreeOf(table)) + CompactionSlack
<1> DEFINE S == FreeOf(table)
           T == {heap_key(b, table, freq, gens) : b \in S}
           f == [b \in S |-> heap_key(b, table, freq, gens)]
<1>1. f \in Surjection(S, T)
  BY DEF Surjection
<1>2. IsFiniteSet(T) /\ Cardinality(T) <= Cardinality(S)
  <2> HIDE DEF f, T, S
  <2>1. IsFiniteSet(S)
    BY DEF S
  <2>2. QED
    BY <1>1, <2>1, FS_Surjection
<1>3. Cardinality(S) \in Nat /\ Cardinality(T) \in Nat /\ Cardinality(h) \in Nat
  <2>1. IsFiniteSet(S) /\ IsFiniteSet(T) /\ IsFiniteSet(h)
    BY <1>2
  <2>2. QED
    BY <2>1, FS_CardinalityType
<1>4. CASE Cardinality(h) <= CompactionFactor * Cardinality(S) + CompactionSlack
  BY <1>4 DEF compact_if_needed, FreeOf
<1>5. CASE ~(Cardinality(h) <= CompactionFactor * Cardinality(S) + CompactionSlack)
  <2>1. compact_if_needed(h, table, freq, gens) = T
    BY <1>5 DEF compact_if_needed, FreeOf
  <2>2. Cardinality(T) <= CompactionFactor * Cardinality(S) + CompactionSlack
    <3> HIDE DEF S, T
    <3> QED
      BY <1>2, <1>3 DEF CompactionFactor, CompactionSlack
  <2>3. QED
    BY <1>2, <2>1, <2>2
<1>6. QED
  BY <1>4, <1>5

\* Every operation keeps the heap within its bound.
LEMMA SizedStep == EvictorInv /\ Sized /\ [Next]_vars => Sized'
<1> SUFFICES ASSUME EvictorInv, Sized, [Next]_vars PROVE Sized'
  OBVIOUS
<1>t. TypeOK /\ IsFiniteSet(heap) /\ IsFiniteSet(free)
  BY DEF EvictorInv, Sized
<1>f. free' = FreeOf(free_table') /\ free = FreeOf(free_table)
  BY DEF free, FreeOf
<1>c. ASSUME NEW h, NEW gens, NEW b \in Block, NEW value,
             IsFiniteSet(h), free_table' = [free_table EXCEPT ![b] = value],
             heap' = compact_if_needed(h, free_table', frequency_by_hash', gens)
      PROVE  Sized'
  <2>1. free' \subseteq free \cup {b}
    BY <1>t, <1>c DEF free, TypeOK
  <2>2. IsFiniteSet(free \cup {b})
    BY <1>t, FS_AddElement
  <2>3. IsFiniteSet(free')
    BY <2>1, <2>2, FS_Subset
  <2>4. /\ IsFiniteSet(heap')
        /\ Cardinality(heap')
              <= CompactionFactor * Cardinality(FreeOf(free_table')) + CompactionSlack
    BY <1>c, <1>f, <2>3, CompactionBounds
  <2>5. QED
    BY <1>f, <2>3, <2>4 DEF Sized, HeapIsBounded, CompactionFactor, CompactionSlack
<1>1. ASSUME NEW b \in Block, NEW meta \in BlockMetaData, add(b, meta)
      PROVE  Sized'
  <2>1. free_table' = [free_table EXCEPT ![b] = meta]
    BY <1>1 DEF add, AbstractAdd
  <2>2. PICK k, gens : heap' = compact_if_needed(heap \cup {k}, free_table',
                                                 frequency_by_hash', gens)
    BY <1>1 DEF add, AbstractAdd, push
  <2>3. IsFiniteSet(heap \cup {k})
    BY <1>t, FS_AddElement
  <2>4. QED
    BY <2>1, <2>2, <2>3, <1>c
<1>2. ASSUME NEW b \in Block, NEW time \in Time, update(b, time)
      PROVE  Sized'
  <2>1. free_table' = [free_table EXCEPT ![b].last_accessed = time]
    BY <1>2 DEF update, AbstractUpdate
  <2>2. PICK value : free_table' = [free_table EXCEPT ![b] = value]
    BY <2>1
  <2>3. PICK k, gens : heap' = compact_if_needed(heap \cup {k}, free_table',
                                                 frequency_by_hash', gens)
    BY <1>2 DEF update, AbstractUpdate, push
  <2>4. IsFiniteSet(heap \cup {k})
    BY <1>t, FS_AddElement
  <2>5. QED
    BY <2>2, <2>3, <2>4, <1>c
<1>3. ASSUME NEW b \in Block, remove(b)
      PROVE  Sized'
  <2>1. /\ free_table' = [free_table EXCEPT ![b] = None]
        /\ heap' = compact_if_needed(heap, free_table', frequency_by_hash', generations')
    BY <1>3 DEF remove, AbstractRemove
  <2>2. QED
    BY <2>1, <1>t, <1>c
<1>4. CASE begin_evict
  BY <1>4 DEF begin_evict, Sized, HeapIsBounded, free
<1>s. ASSUME NEW e \in heap, NEW S, IsFiniteSet(S), Cardinality(S) <= Cardinality(heap),
             heap' = S, UNCHANGED free_table
      PROVE  Sized'
  <2>1. free' = free
    BY <1>s DEF free
  <2>2. Cardinality(S) \in Nat /\ Cardinality(heap) \in Nat /\ Cardinality(free) \in Nat
    BY <1>s, <1>t, FS_CardinalityType
  <2>3. Cardinality(heap) <= CompactionFactor * Cardinality(free) + CompactionSlack
    BY DEF Sized, HeapIsBounded
  <2>4. Cardinality(heap') <= CompactionFactor * Cardinality(free') + CompactionSlack
    BY <1>s, <2>1, <2>2, <2>3 DEF CompactionFactor, CompactionSlack
  <2>5. QED
    BY <1>s, <1>t, <2>1, <2>4 DEF Sized, HeapIsBounded, CompactionFactor, CompactionSlack
<1>e. ASSUME NEW e \in heap
      PROVE  /\ IsFiniteSet(heap \ {e})
             /\ Cardinality(heap \ {e}) = Cardinality(heap) - 1
             /\ Cardinality(heap) \in Nat /\ Cardinality(heap \ {e}) \in Nat
  BY <1>t, FS_RemoveElement, FS_CardinalityType
<1>5. ASSUME NEW e \in heap, pop_stale(e)
      PROVE  Sized'
  <2>1. heap' = heap \ {e} /\ UNCHANGED free_table
    BY <1>5 DEF pop_stale
  <2>2. Cardinality(heap \ {e}) <= Cardinality(heap)
    BY <1>e
  <2>3. QED
    BY <2>1, <2>2, <1>e, <1>s
<1>6. ASSUME NEW e \in heap, pop_outdated(e)
      PROVE  Sized'
  <2>1. PICK k : heap' = (heap \ {e}) \cup {k} /\ UNCHANGED free_table
    BY <1>6 DEF pop_outdated
  <2>2. /\ IsFiniteSet((heap \ {e}) \cup {k})
        /\ \/ Cardinality((heap \ {e}) \cup {k}) = Cardinality(heap \ {e})
           \/ Cardinality((heap \ {e}) \cup {k}) = Cardinality(heap \ {e}) + 1
    BY <1>e, FS_AddElement
  <2>3. Cardinality((heap \ {e}) \cup {k}) <= Cardinality(heap)
    BY <1>e, <2>2
  <2>4. QED
    BY <2>1, <2>2, <2>3, <1>s
<1>7. ASSUME NEW e \in heap, pop_valid(e)
      PROVE  Sized'
  <2>1. /\ free_table' = [free_table EXCEPT ![e.block] = None]
        /\ heap' = compact_if_needed(heap \ {e}, free_table', frequency_by_hash', generations')
    BY <1>7 DEF pop_valid
  <2>2. e.block \in Block
    BY <1>t DEF TypeOK, Entry
  <2>3. QED
    BY <2>1, <2>2, <1>e, <1>c
<1>8. CASE UNCHANGED vars
  BY <1>8 DEF vars, Sized, HeapIsBounded, free
<1>9. QED
  BY <1>1, <1>2, <1>3, <1>4, <1>5, <1>6, <1>7, <1>8 DEF Next

\* The stale entries of the heap never grow without bound, as the class comment
\* of FrequencyAwareEvictor promises, however many calls are made.
THEOREM HeapStaysBounded == Spec => []HeapIsBounded
<1>1. Init => Sized
  <2> SUFFICES ASSUME Init PROVE Sized
    OBVIOUS
  <2>1. heap = {} /\ free = {}
    BY DEF Init, AbstractInit, free
  <2>2. IsFiniteSet({}) /\ Cardinality({}) = 0
    BY FS_EmptySet
  <2>3. QED
    BY <2>1, <2>2 DEF Sized, HeapIsBounded, CompactionFactor, CompactionSlack
<1>2. Sized => HeapIsBounded
  BY DEF Sized
<1>3. QED
  BY <1>1, <1>2, SizedStep, EvictorInvariant, PTL DEF Spec
=============================================================================
