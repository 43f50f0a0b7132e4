-------------------------- MODULE PriorityEvictor --------------------------
(***************************************************************************)
(* What the frequency-aware evictor promises (the Evictor interface and    *)
(* the FrequencyAwareEvictor docstring of evictor_v2.py): it keeps the     *)
(* unreferenced cached blocks and, on demand, gives up the block whose     *)
(* content was freed least often; among those the least recently used;     *)
(* among those the one with the most hashed tokens.  Ties go to the        *)
(* smaller block id.  There is no heap here.                               *)
(***************************************************************************)
EXTENDS Integers

CONSTANTS
    Block,      \* block ids
    Hash,       \* content hashes
    Time,       \* access times
    Tokens,     \* numbers of hashed tokens
    None

ASSUME EvictorAssumption ==
    /\ Block \subseteq Nat /\ Time \subseteq Int /\ Tokens \subseteq Nat
    /\ None \notin Block
    /\ None \notin [hash : Hash, tokens : Tokens, last_accessed : Time]

BlockMetaData == [hash : Hash, tokens : Tokens, last_accessed : Time]

VARIABLES
    free_table,         \* Block -> BlockMetaData or None
    frequency_by_hash,  \* Hash -> how often a block of this content was added
    evicted             \* the block the last operation gave up, or None

abstractVars == <<free_table, frequency_by_hash, evicted>>

free == {b \in Block : free_table[b] # None}

AbstractInit ==
    /\ free_table = [b \in Block |-> None]
    /\ frequency_by_hash = [h \in Hash |-> 0]
    /\ evicted = None

\* The block to give up first: frequency, then age, then tokens, then id.
frequency(b) == frequency_by_hash[free_table[b].hash]

precedes(b, c) ==
    \/ frequency(b) < frequency(c)
    \/ /\ frequency(b) = frequency(c)
       /\ \/ free_table[b].last_accessed < free_table[c].last_accessed
          \/ /\ free_table[b].last_accessed = free_table[c].last_accessed
             /\ \/ free_table[b].tokens > free_table[c].tokens
                \/ free_table[b].tokens = free_table[c].tokens /\ b < c

AbstractAdd(b, meta) ==
    /\ b \notin free
    /\ free_table' = [free_table EXCEPT ![b] = meta]
    /\ frequency_by_hash' = [frequency_by_hash EXCEPT ![meta.hash] = @ + 1]
    /\ evicted' = None

AbstractUpdate(b, time) ==
    /\ b \in free
    /\ free_table' = [free_table EXCEPT ![b].last_accessed = time]
    /\ evicted' = None
    /\ UNCHANGED frequency_by_hash

AbstractRemove(b) ==
    /\ b \in free
    /\ free_table' = [free_table EXCEPT ![b] = None]
    /\ evicted' = None
    /\ UNCHANGED frequency_by_hash

AbstractEvict(b) ==
    /\ b \in free
    /\ \A c \in free \ {b} : precedes(b, c)
    /\ free_table' = [free_table EXCEPT ![b] = None]
    /\ evicted' = b
    /\ UNCHANGED frequency_by_hash

AbstractNext ==
    \E b \in Block :
        \/ \E meta \in BlockMetaData : AbstractAdd(b, meta)
        \/ \E time \in Time : AbstractUpdate(b, time)
        \/ AbstractRemove(b)
        \/ AbstractEvict(b)

\* The specification FrequencyEvictor implements.
AbstractSpec == AbstractInit /\ [][AbstractNext]_abstractVars
=============================================================================
