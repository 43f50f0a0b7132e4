------------------------ MODULE PrefixCachingAllocator ------------------------
(***************************************************************************)
(* The blocks of the GPU KV cache: the prefix-caching allocator            *)
(* (prefix_caching_block.py, naive_block.py, common.py), the block table of *)
(* every sequence (block_table.py), the block manager that checks for room *)
(* and then allocates, appends, forks and frees (block_manager_v2.py), and *)
(* the scheduling step that calls it (scheduler.py).                       *)
(*                                                                         *)
(* A block is free, in use by the tables that count in refs, or unused but *)
(* cached under the hash of its content, in which case the evictor may     *)
(* give it away.  A full block is shared by content; a partial one by the  *)
(* samples of a request, until one of them appends and copies it.          *)
(*                                                                         *)
(* Tokens are members of a small set and the hash of a block is the tuple  *)
(* of the tokens up to its end.  The evictor gives any of its blocks: the  *)
(* choice of a policy is FrequencyEvictor's subject.  A step runs the      *)
(* decodes and then the prefills; a prompt fits one step.  The CPU content *)
(* tier is on as far as preemption goes (several sequences cannot be       *)
(* swapped out); its transfers are KvTier's subject.  There is one cache   *)
(* namespace, no sliding window and no lookahead slot.                     *)
(***************************************************************************)
EXTENDS Integers, Sequences, FiniteSets, SequencesExt, FiniteSetsExt, TLC

CONSTANTS
    Block,             \* physical block ids
    Group,             \* sequence groups
    N,                 \* sampling_params.n of a group
    Token,
    Prompts,           \* the prompts a request may have
    block_size,
    watermark_blocks,
    MaxLen,            \* bound: a sequence stops before it has more tokens
    None

ASSUME SizesAssumption ==
    /\ IsFiniteSet(Block)
    /\ N \in [Group -> Nat \ {0}]
    /\ block_size \in Nat \ {0} /\ watermark_blocks \in Nat
    /\ \A p \in Prompts : p \in Seq(Token) /\ p # <<>>

VARIABLES
    pool,       \* the allocator
    table,      \* block_tables: the block ids of a sequence
    num_full,   \* _num_full_slots: tokens of a sequence that are in its table
    tokens,     \* get_token_ids of a sequence
    num_seqs,   \* sequences 1 .. num_seqs[g] were created for a group
    live,       \* those that have not finished
    status,     \* of a group
    step,       \* what the current step did with a group
    phase,
    cows,       \* blocks_to_copy
    skip,       \* tokens of a prompt that its prefill does not compute
    kv,         \* what each slot of a block was computed from
    failed      \* a checked allocation found no block

tableVars == <<table, num_full>>
requestVars == <<tokens, num_seqs, live, status>>
vars == <<pool, tableVars, requestVars, step, phase, cows, skip, kv, failed>>

SeqId == {<<g, i>> : g \in Group, i \in 1 .. Max({N[g] : g \in Group})}
Live(g) == {<<g, i>> : i \in live[g]}
Blank == [j \in 1 .. block_size |-> <<>>]
cdiv(x, y) == (x + y - 1) \div y

\* Where the token at a position of a sequence is kept.
BlockIndex(p) == (p - 1) \div block_size + 1
SlotIndex(p) == ((p - 1) % block_size) + 1

Position == 1 .. Max({MaxLen} \cup {Len(p) : p \in Prompts})

\* hash_block_tokens: content and the content of all blocks before it.
content_hash(toks, i) == SubSeq(toks, 1, i * block_size)

Init ==
    /\ pool = [free |-> Block, refs |-> [b \in Block |-> 0], cached |-> <<>>,
               evictor |-> {}, active |-> {}, computed |-> {}, touched |-> {}]
    /\ table = [s \in SeqId |-> <<>>]
    /\ num_full = [s \in SeqId |-> 0]
    /\ tokens = [s \in SeqId |-> <<>>]
    /\ num_seqs = [g \in Group |-> 0]
    /\ live = [g \in Group |-> {}]
    /\ status = [g \in Group |-> "none"]
    /\ step = [g \in Group |-> "no"]
    /\ phase = "schedule"
    /\ cows = <<>>
    /\ skip = [g \in Group |-> 0]
    /\ kv = [b \in Block |-> Blank]
    /\ failed = FALSE

-----------------------------------------------------------------------------
\* The allocator.  An operator takes the pool and gives the pools it may become;
\* `id` is the block it hands out, `copies` the copies it asks for, and `error` is
\* NoFreeBlocksError, after which nothing more happens.

Working(p) == p @@ [id |-> None, copies |-> <<>>, error |-> FALSE]
Settled(x) == [f \in DOMAIN pool |-> x[f]]

track_block_id(x, b, is_computed) ==
    [x EXCEPT !.active = @ \cup {b},
              !.computed = IF is_computed THEN @ \cup {b} ELSE @ \ {b},
              !.id = b]

untrack_block_id(x, b) == [x EXCEPT !.active = @ \ {b}, !.computed = @ \ {b}]

forget(cached, b) == [h \in {k \in DOMAIN cached : cached[k] # b} |-> cached[h]]

\* Mutant: an evicted block stays in _cached_blocks.
allocate_block_id_still_cached(x) ==
    IF x.free # {}
    THEN {[track_block_id(x, b, FALSE) EXCEPT !.free = @ \ {b}, !.refs[b] = @ + 1] : b \in x.free}
    ELSE IF x.evictor # {}
    THEN {[track_block_id(x, b, FALSE) EXCEPT !.evictor = @ \ {b}, !.refs[b] = @ + 1]
              : b \in x.evictor}
    ELSE {[x EXCEPT !.error = TRUE]}

\* _allocate_block_id: a free block, or one of the evictor's, which is then no
\* longer cached.
allocate_block_id(x) ==
    IF x.free # {}
    THEN {[track_block_id(x, b, FALSE) EXCEPT !.free = @ \ {b}, !.refs[b] = @ + 1] : b \in x.free}
    ELSE IF x.evictor # {}
    THEN {[track_block_id(x, b, FALSE) EXCEPT !.evictor = @ \ {b},
                                              !.cached = forget(@, b),
                                              !.refs[b] = @ + 1] : b \in x.evictor}
    ELSE {[x EXCEPT !.error = TRUE]}

\* _incr_refcount_cached_block: an unused block returns from the evictor.
incr_refcount_cached_block(x, b) ==
    IF x.refs[b] = 0
    THEN [track_block_id(x, b, TRUE) EXCEPT !.refs[b] = 1, !.evictor = @ \ {b}]
    ELSE [x EXCEPT !.refs[b] = @ + 1, !.id = b]

\* _decr_refcount_cached_block: an unused block goes to the evictor.
decr_refcount_cached_block(x, b) ==
    IF x.refs[b] = 1
    THEN [untrack_block_id(x, b) EXCEPT !.refs[b] = 0, !.evictor = @ \cup {b}]
    ELSE [x EXCEPT !.refs[b] = @ - 1]

\* _decr_refcount_hashless_block: an unused block is free.
decr_refcount_hashless_block(x, b) ==
    IF x.refs[b] = 1
    THEN [untrack_block_id(x, b) EXCEPT !.refs[b] = 0, !.free = @ \cup {b}]
    ELSE [x EXCEPT !.refs[b] = @ - 1]

\* promote_to_immutable_block: a block that became full is cached, or gives way to
\* the block that is cached for its content.
promote_to_immutable_block(x, h) ==
    IF h \notin DOMAIN x.cached
    THEN [x EXCEPT !.cached = @ @@ (h :> x.id), !.touched = @ \cup {x.id}]
    ELSE incr_refcount_cached_block(decr_refcount_hashless_block(x, x.id), x.cached[h])

\* allocate_immutable_block: the cached block, or a new one that is filled at once.
allocate_immutable_block(x, h) ==
    IF h \in DOMAIN x.cached
    THEN {incr_refcount_cached_block(x, x.cached[h])}
    ELSE {IF y.error THEN y ELSE promote_to_immutable_block(y, h) : y \in allocate_block_id(x)}

\* Mutant: a block shared by two tables is appended to in place.
is_appendable_when_shared(x) == x.refs[x.id] <= 2

\* CopyOnWriteTracker.is_appendable
is_appendable(x) == x.refs[x.id] <= 1

\* cow_block_if_not_appendable
cow_block_if_not_appendable(x) ==
    IF is_appendable(x) THEN {x}
    ELSE {IF y.error THEN y ELSE [y EXCEPT !.copies = Append(@, <<x.id, y.id>>)]
              : y \in allocate_block_id(decr_refcount_hashless_block(x, x.id))}

get_num_free_blocks(p) == Cardinality(p.free) + Cardinality(p.evictor)

-----------------------------------------------------------------------------
\* Block tables.

\* _allocate_blocks_for_token_ids: the full blocks and the tail, one after another,
\* as pairs of a pool and the table so far.
allocate_table(toks) ==
    LET total == cdiv(Len(toks), block_size)
        Extend(w) ==
            LET i == Len(w.ids) + 1
                xs == IF i * block_size <= Len(toks)
                      THEN allocate_immutable_block(w.x, content_hash(toks, i))
                      ELSE allocate_block_id(w.x)
            IN  {[x |-> y, ids |-> Append(w.ids, y.id)] : y \in xs}
        More(ws, i) == UNION {IF w.x.error THEN {w} ELSE Extend(w) : w \in ws}
    IN  FoldLeftDomain(More, {[x |-> Working(pool), ids |-> <<>>]}, [i \in 1 .. total |-> i])

\* get_num_blocks_touched_by_append_slots, for the tokens not in the table yet.
get_num_blocks_touched_by_append_slots(s) ==
    LET unseen == Len(tokens[s]) - num_full[s]
        first_chunk_size == block_size - (num_full[s] % block_size)
    IN  1 + cdiv(unseen - first_chunk_size, block_size)

\* BlockTable.append_token_ids for the one token a decode adds: ensure_num_empty_slots,
\* then NaiveBlock's copy on write, then the promotion of a full block.
append_token_ids(w, s) ==
    LET i == num_full[s] \div block_size + 1
        start == IF num_full[s] % block_size = 0
                 THEN allocate_block_id(w.x)
                 ELSE {[w.x EXCEPT !.id = w.tables[s][i]]}
        written == UNION {IF x.error THEN {x} ELSE cow_block_if_not_appendable(x) : x \in start}
        done(x) == IF ~x.error /\ (num_full[s] + 1) % block_size = 0
                   THEN promote_to_immutable_block(x, content_hash(tokens[s], i))
                   ELSE x
        put(ids, b) == IF i > Len(ids) THEN Append(ids, b) ELSE [ids EXCEPT ![i] = b]
    IN  {LET y == done(x) IN [x |-> y, tables |-> [w.tables EXCEPT ![s] = put(@, y.id)]]
            : x \in written}

\* BlockTable.free: block by block, by whether the block has a hash.
free_table(x, ids, full) ==
    LET Release(y, i) ==
            IF i * block_size <= full
            THEN decr_refcount_cached_block(y, ids[i])
            ELSE decr_refcount_hashless_block(y, ids[i])
    IN  FoldLeftDomain(Release, x, ids)

\* block_manager.free of some sequences.
free_tables(x, ss, tables, full) ==
    FoldLeft(LAMBDA y, s : free_table(y, tables[s], full[s]), x, SetToSeq(ss))

\* Mutant: the copies of a table do not count.
fork_uncounted(x, s) == x

\* PrefixCachingBlockAllocator.fork
fork(x, s) == FoldLeft(LAMBDA y, b : [y EXCEPT !.refs[b] = @ + 1], x, table[s])

\* get_computed_block_ids of a new sequence: up to a gap, without the last block.
num_computed_blocks(x, ids) ==
    Max({k \in 0 .. Len(ids) - 1 : \A i \in 1 .. k : ids[i] \in x.computed})

-----------------------------------------------------------------------------
\* The scheduler and the block manager.

StepNotBegun == phase = "schedule" /\ \A g \in Group : step[g] = "no"

\* add_seq_group: a new request, in the place of one that is over.
AddSeqGroup(g) ==
    /\ StepNotBegun
    /\ status[g] = "none"
    /\ \E p \in Prompts : tokens' = [tokens EXCEPT ![<<g, 1>>] = p]
    /\ num_seqs' = [num_seqs EXCEPT ![g] = 1]
    /\ live' = [live EXCEPT ![g] = {1}]
    /\ status' = [status EXCEPT ![g] = "waiting"]
    /\ UNCHANGED <<pool, tableVars, step, phase, cows, skip, kv, failed>>

\* The sequences ss leave: their tables are dropped.
Leave(ss) ==
    /\ table' = [s \in SeqId |-> IF s \in ss THEN <<>> ELSE table[s]]
    /\ num_full' = [s \in SeqId |-> IF s \in ss THEN 0 ELSE num_full[s]]

\* The request of g is over.
Over(g) ==
    /\ tokens' = [s \in SeqId |-> IF s[1] = g THEN <<>> ELSE tokens[s]]
    /\ num_seqs' = [num_seqs EXCEPT ![g] = 0]
    /\ live' = [live EXCEPT ![g] = {}]
    /\ status' = [status EXCEPT ![g] = "none"]

\* abort_seq_group
AbortSeqGroup(g) ==
    /\ StepNotBegun
    /\ status[g] \in {"waiting", "running"}
    /\ pool' = Settled(free_tables(Working(pool), Live(g), table, num_full))
    /\ Leave(Live(g))
    /\ Over(g)
    /\ UNCHANGED <<step, phase, cows, skip, kv, failed>>

\* Mutant: one sequence of the group is counted.
can_append_slots_first(g) ==
    get_num_blocks_touched_by_append_slots(<<g, Min(live[g])>>) <= get_num_free_blocks(pool)

\* can_append_slots
can_append_slots(g) ==
    MapThenSumSet(get_num_blocks_touched_by_append_slots, Live(g)) <= get_num_free_blocks(pool)

\* _append_slots: each sequence of the group in turn.
append_slots(g) ==
    FoldLeft(LAMBDA ws, s : UNION {IF w.x.error THEN {w} ELSE append_token_ids(w, s) : w \in ws},
             {[x |-> Working(pool), tables |-> table]},
             [i \in 1 .. Cardinality(live[g]) |-> <<g, SetToSortSeq(live[g], <)[i]>>])

\* _schedule_running, one group that has room.
ScheduleRunning(g) ==
    /\ phase = "schedule"
    /\ status[g] = "running" /\ step[g] = "no"
    /\ \A h \in Group : step[h] # "prefill"
    /\ can_append_slots(g)
    /\ \E w \in append_slots(g) :
           IF w.x.error
           THEN failed' = TRUE /\ UNCHANGED <<pool, tableVars, cows>>
           ELSE /\ pool' = Settled(w.x)
                /\ table' = w.tables
                /\ num_full' = [s \in SeqId |-> IF s \in Live(g) THEN Len(tokens[s]) ELSE num_full[s]]
                /\ cows' = cows \o w.x.copies
                /\ UNCHANGED failed
    /\ step' = [step EXCEPT ![g] = "decode"]
    /\ phase' = IF failed' THEN "stopped" ELSE phase
    /\ UNCHANGED <<requestVars, skip, kv>>

\* A group finds no room: the last group that is not scheduled yet is preempted, or
\* the group itself.  One sequence is recomputed; several would have to be swapped
\* out, which the content tier does not allow, and the engine stops.
Preempt(g) ==
    /\ phase = "schedule"
    /\ status[g] = "running" /\ step[g] = "no"
    /\ \A h \in Group : step[h] # "prefill"
    /\ \E h \in Group :
           /\ status[h] = "running" /\ step[h] = "no"
           /\ ~can_append_slots(h)
           /\ g = h => \A k \in Group \ {h} : ~(status[k] = "running" /\ step[k] = "no")
    /\ IF Cardinality(live[g]) = 1
       THEN /\ pool' = Settled(free_tables(Working(pool), Live(g), table, num_full))
            /\ Leave(Live(g))
            /\ status' = [status EXCEPT ![g] = "waiting"]
            /\ step' = [step EXCEPT ![g] = "preempted"]
            /\ UNCHANGED phase
       ELSE phase' = "stopped" /\ UNCHANGED <<pool, tableVars, status, step>>
    /\ UNCHANGED <<tokens, num_seqs, live, cows, skip, kv, failed>>

num_required_blocks(g) == cdiv(Len(tokens[CHOOSE s \in Live(g) : TRUE]), block_size)

\* can_allocate = NEVER: the request is ignored.
IgnoreSeqGroup(g) ==
    /\ phase = "schedule"
    /\ status[g] = "waiting" /\ step[g] = "no"
    /\ Cardinality(Block) - num_required_blocks(g) < watermark_blocks
    /\ Over(g)
    /\ UNCHANGED <<pool, tableVars, step, phase, cows, skip, kv, failed>>

\* can_allocate = OK
can_allocate(g) ==
    /\ Cardinality(Block) - num_required_blocks(g) >= watermark_blocks
    /\ get_num_free_blocks(pool) - num_required_blocks(g) >= watermark_blocks

\* _schedule_prefills, one group: allocate, and read which blocks are computed.  The
\* model state that is restored decides how many of those the prefill skips.  A
\* preempted request that once had several sequences fails the assertion that a
\* prefill has one.
SchedulePrefill(g) ==
    /\ phase = "schedule"
    /\ status[g] = "waiting" /\ step[g] = "no"
    /\ can_allocate(g)
    /\ \E s \in Live(g) : \E w \in allocate_table(tokens[s]) :
           IF w.x.error
           THEN failed' = TRUE /\ UNCHANGED <<pool, tableVars, skip>>
           ELSE /\ pool' = Settled(w.x)
                /\ table' = [table EXCEPT ![s] = w.ids]
                /\ num_full' = [num_full EXCEPT ![s] = Len(tokens[s])]
                /\ \E k \in 0 .. num_computed_blocks(w.x, w.ids) :
                       skip' = [skip EXCEPT ![g] = k * block_size]
                /\ UNCHANGED failed
    /\ status' = [status EXCEPT ![g] = "running"]
    /\ step' = [step EXCEPT ![g] = "prefill"]
    /\ phase' = IF failed' \/ num_seqs[g] > 1 THEN "stopped" ELSE phase
    /\ UNCHANGED <<tokens, num_seqs, live, cows, kv>>

-----------------------------------------------------------------------------
\* The worker and the output processor.

\* copy_blocks: all copies at once, so a source that is also a target is read before
\* or after it is written.
Copied(b) ==
    LET from(c) == {cows[i][1] : i \in {j \in DOMAIN cows : cows[j][2] = c}}
    IN  IF from(b) = {} THEN {kv[b]}
        ELSE {kv[c] : c \in from(b) \cup UNION {from(d) : d \in from(b)}}

\* The tokens whose keys and values the step computes.
ComputedNow(s) ==
    LET g == s[1] IN
    CASE step[g] = "decode" /\ s[2] \in live[g] -> {Len(tokens[s])}
      [] step[g] = "prefill" /\ s[2] \in live[g] -> skip[g] + 1 .. Len(tokens[s])
      [] OTHER -> {}

\* What sequences write into slot j of block b, or what was there.
WrittenTo(b, j, before) ==
    LET writes == {SubSeq(tokens[s], 1, p) : <<s, p>> \in
                     {q \in SeqId \X Position :
                        /\ q[2] \in ComputedNow(q[1])
                        /\ table[q[1]][BlockIndex(q[2])] = b
                        /\ SlotIndex(q[2]) = j}}
    IN  IF writes = {} THEN before ELSE CHOOSE v \in writes : TRUE

\* The end of schedule and the step of the worker: touched blocks are marked as
\* computed, blocks are copied, and the forward pass writes.  The content of a free
\* block is forgotten: nothing reads it before it is written.
ExecuteModel ==
    /\ phase = "schedule"
    /\ \E g \in Group : step[g] \in {"decode", "prefill"}
    /\ pool' = [pool EXCEPT !.computed = @ \cup pool.touched, !.touched = {}]
    /\ \E copied \in {f \in [Block -> UNION {Copied(b) : b \in Block}] :
                         \A b \in Block : f[b] \in Copied(b)} :
           kv' = [b \in Block |->
                     IF b \in pool.free THEN Blank
                     ELSE [j \in 1 .. block_size |-> WrittenTo(b, j, copied[b][j])]]
    /\ cows' = <<>>
    /\ skip' = [g \in Group |-> 0]
    /\ step' = [g \in Group |-> IF step[g] \in {"decode", "prefill"} THEN "output" ELSE "no"]
    /\ phase' = "output"
    /\ UNCHANGED <<tableVars, requestVars, failed>>

\* The outputs of one group: after the prefill of a request for several samples the
\* sequence is forked; each sequence gets a token or stops, and is then freed.
ProcessOutput(g) ==
    /\ phase = "output"
    /\ step[g] = "output"
    /\ LET parent == <<g, 1>>
           forks == {<<g, i>> : i \in num_seqs[g] + 1 .. N[g]}
           from(s) == IF s \in forks THEN parent ELSE s
           tables == [s \in SeqId |-> table[from(s)]]
           full == [s \in SeqId |-> num_full[from(s)]]
           forked == FoldLeft(LAMBDA x, s : fork(x, parent), Working(pool), SetToSeq(forks))
       IN  \E out \in [Live(g) \cup forks -> Token \cup {None}] :
               LET stopped == {s \in DOMAIN out : out[s] = None}
                   on == DOMAIN out \ stopped
               IN  /\ \A s \in on : full[s] < MaxLen
                   /\ pool' = Settled(free_tables(forked, stopped, tables, full))
                   /\ table' = [s \in SeqId |-> IF s \in stopped THEN <<>> ELSE tables[s]]
                   /\ num_full' = [s \in SeqId |-> IF s \in stopped THEN 0 ELSE full[s]]
                   /\ IF on = {} THEN Over(g)
                      ELSE /\ tokens' = [s \in SeqId |->
                                  IF s \in on THEN Append(tokens[from(s)], out[s])
                                  ELSE IF s \in stopped THEN <<>> ELSE tokens[s]]
                           /\ num_seqs' = [num_seqs EXCEPT ![g] = N[g]]
                           /\ live' = [live EXCEPT ![g] = {s[2] : s \in on}]
                           /\ UNCHANGED status
    /\ step' = [step EXCEPT ![g] = "no"]
    /\ phase' = IF \A h \in Group \ {g} : step[h] = "no" THEN "schedule" ELSE phase
    /\ UNCHANGED <<cows, skip, kv, failed>>

Next ==
    \/ \E g \in Group :
           \/ AddSeqGroup(g) \/ AbortSeqGroup(g)
           \/ ScheduleRunning(g) \/ Preempt(g)
           \/ IgnoreSeqGroup(g) \/ SchedulePrefill(g)
           \/ ProcessOutput(g)
    \/ ExecuteModel

Spec == Init /\ [][Next]_vars

-----------------------------------------------------------------------------
\* Properties.

\* The allocator's counters count, and its sets and tables hold block ids.
TypeOK ==
    /\ pool.free \subseteq Block /\ pool.evictor \subseteq Block
    /\ pool.active \subseteq Block /\ pool.touched \subseteq Block
    /\ pool.computed \subseteq pool.active
    /\ pool.refs \in [Block -> Nat]
    /\ DOMAIN pool.cached \subseteq Seq(Token) /\ Range(pool.cached) \subseteq Block
    /\ table \in [SeqId -> Seq(Block)]
    /\ \A s \in SeqId : Len(table[s]) = cdiv(num_full[s], block_size)
    /\ status \in [Group -> {"none", "waiting", "running"}]
    /\ step \in [Group -> {"no", "decode", "prefill", "preempted", "output"}]
    /\ phase \in {"schedule", "output", "stopped"}

\* After any sequence of allocations, appends, forks, promotions, evictions and frees
\* a block is free, in use, or unused and cached, and only one of them; its reference
\* count is the number of table entries that name it; and the full blocks of every
\* table, with the evictor's, are the cached ones, each under its content.
BlocksArePartitioned ==
    /\ \A b \in Block :
           /\ pool.refs[b] = Cardinality({q \in SeqId \X Position :
                                             q[2] \in DOMAIN table[q[1]] /\ table[q[1]][q[2]] = b})
           /\ (b \in pool.active) = (pool.refs[b] > 0)
           /\ Cardinality({set \in {"free", "evictor", "active"} : b \in pool[set]}) = 1
    /\ \A h, k \in DOMAIN pool.cached : pool.cached[h] = pool.cached[k] => h = k
    /\ pool.evictor \subseteq Range(pool.cached)
    /\ \A s \in SeqId : \A i \in 1 .. num_full[s] \div block_size :
           LET h == content_hash(tokens[s], i)
           IN  h \in DOMAIN pool.cached /\ pool.cached[h] = table[s][i]

\* can_allocate and can_append_slots promise room: the allocation that follows, its
\* copies on write included, never raises NoFreeBlocksError half-way.
CheckedAllocationSucceeds == ~failed

\* What a slot of a table holds.
SlotOf(s, p) == kv[table[s][BlockIndex(p)]][SlotIndex(p)]

\* Between steps the table of every sequence leads to the keys and values of its own
\* tokens, whichever blocks were shared, copied, exchanged for a cached one, skipped
\* in a prefill or reused since; and so does every block the cache can hand out.
TablesHoldTheirTokens ==
    phase = "output" \/ StepNotBegun =>
        /\ \A s \in SeqId : \A p \in 1 .. num_full[s] : SlotOf(s, p) = SubSeq(tokens[s], 1, p)
        /\ \A h \in DOMAIN pool.cached : \A j \in 1 .. block_size :
               kv[pool.cached[h]][j] = SubSeq(h, 1, Len(h) - block_size + j)

=============================================================================
