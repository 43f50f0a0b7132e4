----------------------------- MODULE MoeDispatch -----------------------------
(***************************************************************************)
(* The kernels that group tokens by expert: moe_align_block_size, its      *)
(* small-batch, LoRA and batched forms (ex_engine/csrc/moe), and           *)
(* moe_compute_index (xllm_kernels/cuda/moe).                              *)
(*                                                                         *)
(* A path is the program its threads run: a sequence of stages, some of    *)
(* them behind a barrier (__syncthreads, the collective scan, or the end   *)
(* of a kernel on the stream).  One step is what one thread does without   *)
(* touching memory another thread may write: a loop iteration, an atomic   *)
(* add, the store that follows it, or a whole loop over slots of its own.  *)
(* One enabled LoRA slot is modelled: the slots use disjoint rows of every *)
(* buffer, and the kernels return at once for a disabled one.              *)
(***************************************************************************)
EXTENDS Integers, Sequences, FiniteSets, FiniteSetsExt, Functions

CONSTANTS
    Modes,             \* pairs <<path, adapter>> the host may launch
    numel,             \* topk_ids.numel()
    topk_num,
    num_experts,
    block_size,
    max_tokens_per_batch,
    WARP_SIZE,
    FillThreads,       \* number of fill threads
    Garbage            \* what uninitialised memory holds

ASSUME MoeAssumption ==
    /\ Modes \subseteq {"general", "small"} \X {"none", "enabled"}
                         \cup {<<"batched", "none">>, <<"index", "none">>}
    /\ numel \in Nat \ {0} /\ topk_num \in Nat \ {0} /\ numel % topk_num = 0
    /\ num_experts \in Nat \ {0} /\ block_size \in Nat \ {0}
    /\ max_tokens_per_batch \in Nat \ {0}
    /\ WARP_SIZE \in Nat \ {0} /\ FillThreads \in Nat \ {0}
    /\ Garbage \in Nat /\ Garbage > numel

Expert == 0 .. num_experts - 1
NoExpert == -1
NoMap == [e \in {} |-> 0]

CEILDIV(x, y) == (x + y - 1) \div y

VARIABLES
    path, adapter,     \* the kernels launched; "enabled" in the LoRA kernels
    topk_ids,          \* element -> expert the router chose
    expert_map,        \* global -> local expert, or NoMap
    ignore_invalid,    \* ignore_invalid_experts of the Python wrapper
    lora_tokens,       \* the tokens whose token_lora_mapping is this slot
    stage,             \* thread -> position in its program
    next,              \* thread -> index of its strided loop
    rank,              \* thread -> what its atomicAdd returned, not yet stored
    fill,              \* fill thread -> it has filled its slots
    fill_reset,        \* the fill block has still to reset the total
    counts,            \* row -> expert -> tokens counted (row 0 without rows)
    cumsum,
    sorted_token_ids,  \* dst_src of moe_compute_index
    expert_ids,
    total_tokens_post_pad,
    src_dst

inputVars == <<path, adapter, topk_ids, expert_map, ignore_invalid, lora_tokens>>
threadVars == <<stage, next, rank>>
fillVars == <<fill, fill_reset>>
outputVars == <<sorted_token_ids, expert_ids, total_tokens_post_pad, src_dst>>
vars == <<inputVars, threadVars, fillVars, counts, cumsum, outputVars>>

----------------------------------------------------------------------------
(* Launch geometry *)

n == IF path = "batched" THEN num_experts * max_tokens_per_batch ELSE numel
Element == 0 .. n - 1

round_up(x, y) == CEILDIV(x, y) * y

\* The buffers the callers allocate.
max_num_tokens_padded ==
    CASE path = "batched" -> num_experts * round_up(max_tokens_per_batch, block_size)
      [] path = "index"   -> n
      [] OTHER ->
           LET padded == n + num_experts * (block_size - 1)
           IN  IF n < num_experts THEN Min({n * block_size, padded}) ELSE padded

max_num_m_blocks == CEILDIV(max_num_tokens_padded, block_size)

stride ==
    CASE path = "small" -> Max({num_experts, WARP_SIZE})
      [] path = "index" -> Max({num_experts, n})
      [] OTHER -> num_experts + 1

Thread == 0 .. stride - 1
Fill == 0 .. FillThreads - 1

\* The stages of a path; TRUE where the threads meet before the stage.
Program ==
    CASE path = "general" -> <<<<"reset", TRUE>>, <<"zero", TRUE>>, <<"count", TRUE>>, <<"scan", TRUE>>,
                               <<"ids", TRUE>>, <<"place", TRUE>>, <<"return", TRUE>>, <<"done", TRUE>>>>
      [] path = "small" -> <<<<"reset", TRUE>>, <<"zero", TRUE>>, <<"count", FALSE>>, <<"prefix", TRUE>>,
                             <<"scan", TRUE>>, <<"ids", TRUE>>, <<"place", FALSE>>, <<"return", TRUE>>,
                             <<"done", TRUE>>>>
      [] path = "batched" -> <<<<"clear", TRUE>>, <<"scan", TRUE>>, <<"place", FALSE>>, <<"ids", FALSE>>,
                               <<"return", TRUE>>, <<"done", TRUE>>>>
      [] path = "index" -> <<<<"count", TRUE>>, <<"scan", TRUE>>, <<"place", TRUE>>, <<"return", TRUE>>,
                             <<"done", TRUE>>>>

label(t) == Program[stage[t]][1]

\* Mutant: the fill threads do not take part in the barriers.
FillMet_alone(s) == TRUE

\* The fill threads meet the others at the first barrier after the counting
\* (small batch, one block) or at the end of the kernel (a block of their own).
FillMet(s) ==
    \/ path \in {"batched", "index"}
    \/ s < (IF path = "small" THEN 4 ELSE 6)
    \/ \A f \in Fill : fill[f]

\* Thread t may run its stage: every thread has reached the last barrier.
At(t, l) ==
    /\ label(t) = l
    /\ LET gate == Max({s \in 1 .. stage[t] : Program[s][2]})
       IN  /\ \A u \in Thread : stage[u] >= gate
           /\ FillMet(gate)

Advance(t) ==
    /\ stage' = [stage EXCEPT ![t] = @ + 1]
    /\ next' = [next EXCEPT ![t] = t]
    /\ UNCHANGED rank

----------------------------------------------------------------------------
(* Routing *)

kernel_map == IF ignore_invalid THEN expert_map ELSE NoMap

token_mask(i) == adapter = "none" \/ i \div topk_num \in lora_tokens

\* The host picks the small path by sizes alone, and its kernel has no check for
\* ids the general one skips: they name a cell of the row after the thread's own.
past_experts(i) == path = "small" /\ topk_ids[i] \notin Expert

IdsInRange == \A i \in Element : ~past_experts(i)

\* The expert the kernel counts an element for.
expert_id(i) ==
    IF topk_ids[i] \notin Expert THEN NoExpert
    ELSE IF kernel_map = NoMap THEN topk_ids[i] ELSE kernel_map[topk_ids[i]]

Put(f, k, v) == [j \in DOMAIN f \cup {k} |-> IF j = k THEN v ELSE f[j]]

Overwrite(f, ks, v) == [j \in DOMAIN f \cup ks |-> IF j \in ks THEN v ELSE f[j]]

Strided(first, step, bound) == {k \in first .. bound - 1 : (k - first) % step = 0}

Inputs ==
    /\ \E m \in Modes : path = m[1] /\ adapter = m[2]
    /\ IF path = "batched"
       THEN \E batch_num_tokens \in [Expert -> 0 .. max_tokens_per_batch] :
              topk_ids = [i \in Element |->
                            LET b == i \div max_tokens_per_batch
                            IN  IF i % max_tokens_per_batch < batch_num_tokens[b] THEN b ELSE NoExpert]
       ELSE topk_ids \in [Element -> (IF path = "index" THEN -1 ELSE 0) .. num_experts]
    /\ IF path \in {"general", "small"}
       THEN expert_map \in {NoMap} \cup {[e \in Expert |-> IF e \in S THEN Cardinality({x \in S : x < e})
                                                           ELSE NoExpert] : S \in SUBSET Expert \ {Expert}}
       ELSE expert_map = NoMap
    /\ ignore_invalid \in (IF expert_map = NoMap THEN {FALSE}
                            ELSE IF adapter = "none" THEN BOOLEAN ELSE {TRUE})
    /\ lora_tokens \in (IF adapter = "none" THEN {{}} ELSE SUBSET (0 .. n \div topk_num - 1))

Init ==
    /\ Inputs
    /\ stage = [t \in Thread |-> 1]
    /\ next = [t \in Thread |-> t]
    /\ rank = [t \in Thread |-> NoExpert]
    /\ fill = [f \in Fill |-> FALSE]
    /\ fill_reset = (path = "general" /\ adapter = "enabled")
    /\ counts = [r \in 0 .. stride |-> [e \in Expert |-> IF path = "index" THEN 0 ELSE Garbage]]
    /\ cumsum = [e \in 0 .. num_experts |-> Garbage]
    /\ sorted_token_ids = [k \in 0 .. max_num_tokens_padded - 1 |-> Garbage]
    /\ expert_ids = [b \in 0 .. max_num_m_blocks - 1 |-> Garbage]
    /\ total_tokens_post_pad = Garbage
    /\ src_dst = [i \in Element |-> Garbage]

----------------------------------------------------------------------------
(* The fill threads *)

\* The LoRA kernel: thread 0 of every block resets the total, the fill block's too.
FillReset ==
    /\ fill_reset
    /\ fill_reset' = FALSE
    /\ total_tokens_post_pad' = 0
    /\ UNCHANGED <<inputVars, threadVars, fill, counts, cumsum, sorted_token_ids, expert_ids, src_dst>>

FillSlots(f) ==
    /\ path \in {"general", "small"}
    /\ ~fill[f] /\ ~fill_reset
    /\ fill' = [fill EXCEPT ![f] = TRUE]
    /\ sorted_token_ids' = Overwrite(sorted_token_ids, Strided(f, FillThreads, max_num_tokens_padded), n)
    /\ UNCHANGED <<inputVars, threadVars, fill_reset, counts, cumsum, expert_ids,
                   total_tokens_post_pad, src_dst>>

----------------------------------------------------------------------------
(* The counting threads *)

\* The LoRA kernels reset the total before anything else.
Reset(t) ==
    /\ At(t, "reset")
    /\ total_tokens_post_pad' = IF t = 0 /\ adapter = "enabled" THEN 0 ELSE total_tokens_post_pad
    /\ Advance(t)
    /\ UNCHANGED <<inputVars, fillVars, counts, cumsum, sorted_token_ids, expert_ids, src_dst>>

\* batched: the threads fill both outputs themselves.
Clear(t) ==
    /\ At(t, "clear")
    /\ sorted_token_ids' = Overwrite(sorted_token_ids, Strided(t, stride, max_num_tokens_padded), n)
    /\ expert_ids' = Overwrite(expert_ids, Strided(t, stride, max_num_m_blocks), NoExpert)
    /\ Advance(t)
    /\ UNCHANGED <<inputVars, fillVars, counts, cumsum, total_tokens_post_pad, src_dst>>

\* general: a warp zeroes its experts; small: a thread zeroes its row.
Zero(t) ==
    /\ At(t, "zero")
    /\ counts' = IF path = "small"
                 THEN [counts EXCEPT ![t + 1] = [e \in Expert |-> 0]]
                 ELSE [counts EXCEPT ![0] = [e \in Expert |-> IF e \div WARP_SIZE = t \div WARP_SIZE
                                                               THEN 0 ELSE @[e]]]
    /\ Advance(t)
    /\ UNCHANGED <<inputVars, fillVars, cumsum, outputVars>>

weight(i) == IF token_mask(i) THEN 1 ELSE 0

\* One iteration of the counting loop; small counts into the thread's own row.
Count(t) ==
    /\ At(t, "count") /\ next[t] < n /\ ~past_experts(next[t])
    /\ LET e == expert_id(next[t])
           r == IF path = "small" THEN t + 1 ELSE 0
       IN  counts' = IF e = NoExpert THEN counts ELSE [counts EXCEPT ![r][e] = @ + weight(next[t])]
    /\ next' = [next EXCEPT ![t] = @ + stride]
    /\ UNCHANGED <<inputVars, stage, rank, fillVars, cumsum, outputVars>>

\* The small kernel and an id past the experts.  With an expert map it takes the
\* word after the map for a local expert: garbage, a cell far off.  Without one
\* it counts into the row that the next thread zeroes and counts into at the same
\* time, so that either addition may be lost; the row after the last is no one's.
\* (Left out: that it read the row before the zero, that the word is an expert, and
\* ids beyond num_experts, which name cells further on.)
CountPast(t) ==
    /\ At(t, "count") /\ next[t] < n /\ past_experts(next[t])
    /\ IF kernel_map = NoMap /\ t + 2 <= stride
       THEN counts' \in {counts, [counts EXCEPT ![t + 2][0] = @ + weight(next[t])]}
       ELSE UNCHANGED counts
    /\ next' = [next EXCEPT ![t] = @ + stride]
    /\ UNCHANGED <<inputVars, stage, rank, fillVars, cumsum, outputVars>>

EndLoop(t) ==
    /\ At(t, "count") \/ (At(t, "place") /\ path # "batched" /\ rank[t] = NoExpert)
    /\ next[t] >= n
    /\ Advance(t)
    /\ UNCHANGED <<inputVars, fillVars, counts, cumsum, outputVars>>

\* small: thread t turns the rows of expert t into running sums.
Prefix(t) ==
    /\ At(t, "prefix")
    /\ counts' = IF t \in Expert
                 THEN [r \in DOMAIN counts |->
                         [counts[r] EXCEPT ![t] = SumFunctionOnSet([q \in 1 .. r |-> counts[q][t]], 1 .. r)]]
                 ELSE counts
    /\ Advance(t)
    /\ UNCHANGED <<inputVars, fillVars, cumsum, outputVars>>

\* The slots of expert e: its count in whole blocks, or the count itself.
padded(e) ==
    CASE path = "small"   -> round_up(counts[stride][e], block_size)
      [] path = "general" -> round_up(counts[0][e], block_size)
      [] path = "index"   -> counts[0][e]
      [] path = "batched" -> round_up(Cardinality({i \in Element : topk_ids[i] = e}), block_size)

first_slot(e) == SumFunctionOnSet([x \in Expert |-> padded(x)], 0 .. e - 1)

\* The scan: thread 0 alone (small), or one thread an expert and, in general,
\* one more for the total; batched keeps its offset in a register.
Scan(t) ==
    /\ At(t, "scan")
    /\ cumsum' = CASE path = "small" -> IF t = 0 THEN [e \in 0 .. num_experts |-> first_slot(e)] ELSE cumsum
                   [] path = "general" -> IF t <= num_experts THEN [cumsum EXCEPT ![t] = first_slot(t)]
                                          ELSE cumsum
                   [] path = "index" -> IF t \in Expert THEN [cumsum EXCEPT ![t] = first_slot(t)] ELSE cumsum
                   [] path = "batched" -> cumsum
    /\ total_tokens_post_pad' =
         IF \/ path = "small" /\ t = 0
            \/ path = "general" /\ t = num_experts
            \/ path = "batched" /\ t = num_experts - 1
         THEN first_slot(num_experts) ELSE total_tokens_post_pad
    /\ Advance(t)
    /\ UNCHANGED <<inputVars, fillVars, counts, sorted_token_ids, expert_ids, src_dst>>

\* Thread t marks the blocks of expert t; the others mark what remains.
ExpertIds(t) ==
    /\ At(t, "ids")
    /\ LET lo == IF path = "batched" THEN first_slot(t) ELSE cumsum[t]
           hi == IF path = "batched" THEN first_slot(t) + padded(t) ELSE cumsum[t + 1]
           mine == IF t \in Expert THEN {k \div block_size : k \in Strided(lo, block_size, hi)} ELSE {}
           rest == IF path = "batched" THEN {}
                   ELSE Strided(cumsum[num_experts] \div block_size + t, stride, max_num_m_blocks)
       IN  expert_ids' = Overwrite(Overwrite(expert_ids, mine, t), rest, NoExpert)
    /\ Advance(t)
    /\ UNCHANGED <<inputVars, fillVars, counts, cumsum, sorted_token_ids, total_tokens_post_pad, src_dst>>

----------------------------------------------------------------------------
(* Placing the elements *)

Skip(t) ==
    /\ At(t, "place") /\ path # "batched" /\ rank[t] = NoExpert
    /\ next[t] < n
    /\ \/ expert_id(next[t]) = NoExpert /\ ~past_experts(next[t])
       \/ ~token_mask(next[t])
    /\ next' = [next EXCEPT ![t] = @ + stride]
    /\ UNCHANGED <<inputVars, stage, rank, fillVars, counts, cumsum, outputVars>>

\* Mutant: the offset is read and not added to.
TakeRank_read(t) ==
    /\ At(t, "place") /\ path \in {"general", "index"} /\ rank[t] = NoExpert
    /\ next[t] < n
    /\ expert_id(next[t]) # NoExpert /\ token_mask(next[t])
    /\ rank' = [rank EXCEPT ![t] = cumsum[expert_id(next[t])]]
    /\ UNCHANGED <<inputVars, stage, next, fillVars, counts, cumsum, outputVars>>

\* general and index: the slot comes from an atomicAdd on the offset.
TakeRank(t) ==
    /\ At(t, "place") /\ path \in {"general", "index"} /\ rank[t] = NoExpert
    /\ next[t] < n
    /\ expert_id(next[t]) # NoExpert /\ token_mask(next[t])
    /\ LET e == expert_id(next[t])
       IN  /\ rank' = [rank EXCEPT ![t] = cumsum[e]]
           /\ cumsum' = [cumsum EXCEPT ![e] = @ + 1]
    /\ UNCHANGED <<inputVars, stage, next, fillVars, counts, outputVars>>

Store(t) ==
    /\ rank[t] # NoExpert
    /\ sorted_token_ids' = Put(sorted_token_ids, rank[t], next[t])
    /\ src_dst' = IF path = "index" THEN [src_dst EXCEPT ![next[t]] = rank[t]] ELSE src_dst
    /\ rank' = [rank EXCEPT ![t] = NoExpert]
    /\ next' = [next EXCEPT ![t] = @ + stride]
    /\ UNCHANGED <<inputVars, stage, fillVars, counts, cumsum, expert_ids, total_tokens_post_pad>>

\* Mutant: the rank is taken from the row that already includes the thread.
row_inclusive(t) == t + 1

row(t) == t

\* small: the slot comes from the thread's own row.
PlaceFromRow(t) ==
    /\ At(t, "place") /\ path = "small" /\ next[t] < n
    /\ expert_id(next[t]) # NoExpert /\ token_mask(next[t])
    /\ LET e == expert_id(next[t])
       IN  /\ sorted_token_ids' = Put(sorted_token_ids, counts[row(t)][e] + cumsum[e], next[t])
           /\ counts' = [counts EXCEPT ![row(t)][e] = @ + 1]
    /\ next' = [next EXCEPT ![t] = @ + stride]
    /\ UNCHANGED <<inputVars, stage, rank, fillVars, cumsum, expert_ids, total_tokens_post_pad, src_dst>>

\* An id past the experts takes its slot from the next thread's row, and beyond
\* the slots in use: perhaps beyond the buffer.
PlacePast(t) ==
    /\ At(t, "place") /\ next[t] < n /\ past_experts(next[t]) /\ token_mask(next[t])
    /\ IF kernel_map = NoMap
       THEN /\ sorted_token_ids' = Put(sorted_token_ids, counts[t + 1][0] + cumsum[num_experts], next[t])
            /\ counts' \in {counts, [counts EXCEPT ![t + 1][0] = @ + 1]}
       ELSE /\ sorted_token_ids' = Put(sorted_token_ids, Garbage, next[t])
            /\ UNCHANGED counts
    /\ next' = [next EXCEPT ![t] = @ + stride]
    /\ UNCHANGED <<inputVars, stage, rank, fillVars, cumsum, expert_ids, total_tokens_post_pad, src_dst>>

\* batched: a thread copies the valid prefix of its batch.
PlaceBatch(t) ==
    /\ At(t, "place") /\ path = "batched"
    /\ LET from == first_slot(t)
           first == t * max_tokens_per_batch
           valid == IF t \in Expert THEN Cardinality({i \in Element : topk_ids[i] = t}) ELSE 0
       IN  sorted_token_ids' = [k \in DOMAIN sorted_token_ids \cup from .. from + valid - 1 |->
                                  IF k \in from .. from + valid - 1 THEN first + k - from
                                  ELSE sorted_token_ids[k]]
    /\ Advance(t)
    /\ UNCHANGED <<inputVars, fillVars, counts, cumsum, expert_ids, total_tokens_post_pad, src_dst>>

\* The Python wrapper, once the stream is done: the expert ids of the blocks
\* are mapped to local ones, -1 as Python reads it, the last entry of the map.
Return ==
    /\ \A t \in Thread : At(t, "return")
    /\ ~fill_reset
    /\ stage' = [t \in Thread |-> stage[t] + 1]
    /\ expert_ids' = IF expert_map # NoMap /\ ~ignore_invalid
                     THEN [b \in DOMAIN expert_ids |->
                             expert_map[IF expert_ids[b] = NoExpert THEN num_experts - 1 ELSE expert_ids[b]]]
                     ELSE expert_ids
    /\ UNCHANGED <<inputVars, next, rank, fillVars, counts, cumsum, sorted_token_ids,
                   total_tokens_post_pad, src_dst>>

Returned == \A t \in Thread : label(t) = "done"

Next ==
    \/ FillReset \/ \E f \in Fill : FillSlots(f)
    \/ \E t \in Thread :
         \/ Reset(t) \/ Clear(t) \/ Zero(t) \/ Count(t) \/ CountPast(t) \/ EndLoop(t) \/ Prefix(t)
         \/ Scan(t) \/ ExpertIds(t)
         \/ Skip(t) \/ TakeRank(t) \/ Store(t) \/ PlaceFromRow(t) \/ PlacePast(t) \/ PlaceBatch(t)
    \/ Return
    \/ Returned /\ UNCHANGED vars

Spec == Init /\ [][Next]_vars

----------------------------------------------------------------------------
(* Properties *)

Routed == {i \in Element : expert_id(i) # NoExpert /\ token_mask(i)}

\* The slots expert e must get.
due(e) == LET own == Cardinality({i \in Routed : expert_id(i) = e})
          IN  IF path = "index" THEN own ELSE round_up(own, block_size)

\* The slots of the experts before e.
due_before(e) == SumFunctionOnSet([x \in Expert |-> due(x)], 0 .. e - 1)

due_total == due_before(num_experts)

local_expert(i) == IF expert_map = NoMap THEN topk_ids[i] ELSE expert_map[topk_ids[i]]

\* The variables have the types their declarations say; no store is outside the
\* buffers the callers allocate, unless the small kernel is given ids past the
\* experts, which it takes for slots.
TypeOK ==
    /\ <<path, adapter>> \in Modes
    /\ stage \in [Thread -> 1 .. Len(Program)]
    /\ next \in [Thread -> Nat] /\ rank \in [Thread -> Nat \cup {NoExpert}]
    /\ fill \in [Fill -> BOOLEAN] /\ fill_reset \in BOOLEAN
    /\ counts \in [0 .. stride -> [Expert -> Nat]]
    /\ cumsum \in [0 .. num_experts -> Nat]
    /\ IdsInRange =>
         /\ sorted_token_ids \in [0 .. max_num_tokens_padded - 1 -> Nat]
         /\ expert_ids \in [0 .. max_num_m_blocks - 1 -> Expert \cup {NoExpert, Garbage}]
    /\ total_tokens_post_pad \in Nat
    /\ src_dst \in [Element -> Nat]

\* What moe_align_block_size returns, whatever the interleaving: every routed
\* element has exactly one slot, a block holds elements of the one expert its
\* id names (-1 for one of another rank) and padding, all that is left is padding,
\* and num_tokens_post_pad is the number of slots in use.  Two things the code
\* does are not what its documentation says: the small kernel needs ids below
\* num_experts, which nothing checks (the example of moe_align_block_size.py has
\* others), and the fill block of the LoRA kernel may reset the number last.
BlocksGroupByExpert ==
    Returned /\ path # "index" /\ IdsInRange =>
        /\ \A i \in Routed : Cardinality({k \in DOMAIN sorted_token_ids : sorted_token_ids[k] = i}) = 1
        /\ \A k \in DOMAIN sorted_token_ids :
             \/ sorted_token_ids[k] = n
             \/ /\ sorted_token_ids[k] \in Routed /\ k < due_total
                /\ expert_ids[k \div block_size] = local_expert(sorted_token_ids[k])
        /\ \/ total_tokens_post_pad = due_total
           \/ path = "general" /\ adapter = "enabled" /\ total_tokens_post_pad = 0

\* What moe_compute_index returns: dst_src lists the routed elements expert by
\* expert in expert_sizes runs, and src_dst is its inverse.
IndexIsInverse ==
    Returned /\ path = "index" =>
        /\ \A e \in Expert : counts[0][e] = due(e)
        /\ \A k \in 0 .. due_total - 1 :
             /\ sorted_token_ids[k] \in Routed
             /\ src_dst[sorted_token_ids[k]] = k
             /\ LET e == expert_id(sorted_token_ids[k])
                IN  k \in due_before(e) .. due_before(e + 1) - 1
=============================================================================
