----------------------------- MODULE GdnPrefix -----------------------------
(***************************************************************************)
(* Chunked prefill with the recurrent-state ("GDN") prefix cache: the      *)
(* scheduler's policy and planning (gdn_prefix.py and its uses in          *)
(* scheduler.py), the metadata it sends, and the worker that restores,     *)
(* captures and evicts the states (qwen3_5.py, mamba_cache.py).            *)
(*                                                                         *)
(* One engine step is                                                      *)
(*   idle -> schedule (running queue) -> prefill (waiting queue)           *)
(*        -> metadata (one group at a time) -> execute -> idle             *)
(*                                                                         *)
(* A prompt is a sequence of full-block contents and the number of tokens  *)
(* in a last, partial block.  The chained digest of the first n blocks     *)
(* identifies exactly those n contents, so a prefix key is that sequence   *)
(* of contents and key[0] is its length.  A recurrent state is the prefix  *)
(* it has absorbed, or Garbage when tokens were fed to the wrong state or  *)
(* the window of the convolution lost tokens.                              *)
(* Request ids are never reused by the engine; the model reuses one after  *)
(* forgetting everything filed under it (retire).                          *)
(***************************************************************************)
EXTENDS Integers, Sequences, FiniteSets, FiniteSetsExt, SequencesExt, Queues

CONSTANTS
    Request,        \* request ids
    Content,        \* what a full block may hold
    Prompt,         \* the prompts that arrive: [blocks |-> <<...>>, tail |-> 0..BlockSize-1]
    BlockSize,      \* tokens of a KV block
    KernelChunk,    \* GDN_KERNEL_CHUNK_TOKENS
    MinReplay,      \* GDN_DIRECT_MIN_REPLAY_TOKENS
    TokenBudget,    \* max_num_batched_tokens
    ConvWindow,     \* state_len, conv_kernel_size - 1: positions conv_state holds
    MaxNumSeqs,     \* max_num_seqs
    GdnCapacity,    \* states a policy other than "off" keeps
    Modes,          \* the pairs <<cache policy, restore mode>> the environment may set
    Preemption,     \* the KV cache may be too small for the running requests
    None

ASSUME GdnAssumption ==
    /\ BlockSize \in Nat \ {0} /\ MinReplay \in Nat \ {0}
    /\ KernelChunk \in Nat \ {0} /\ KernelChunk % BlockSize = 0
    /\ TokenBudget \in Nat \ {0} /\ TokenBudget % BlockSize = 0
    /\ ConvWindow \in 1 .. BlockSize
    /\ MaxNumSeqs \in Nat \ {0}
    /\ GdnCapacity \in Nat \ {0}
    /\ Modes \subseteq {"fine32", "admission64", "off"} \X {"direct", "hybrid64", "chunk64", "aligned"}
    /\ Preemption \in BOOLEAN
    /\ Prompt \subseteq [blocks : Seq(Content), tail : 0 .. BlockSize - 1]
    /\ \A p \in Prompt : p.blocks # <<>> \/ p.tail > 0
    /\ None \notin Prompt /\ None \notin Seq(Content)
    /\ None \notin [tokens : Int, blocks : Seq(Content)]

VARIABLES
    prompt,           \* Request -> Prompt, or None for an id not in the engine
    waiting, running, \* the two queues
    num_computed,     \* Request -> tokens the scheduler has accounted for
    restore_keys,     \* _gdn_request_restore_keys
    capture_targets,  \* _gdn_request_capture_targets
    mode,             \* BI100_GDN_CACHE_POLICY and BI100_GDN_RESTORE_MODE
    kv,               \* prefixes whose last block is in the KV cache, marked computed
    resident,         \* _resident, the policy's keys ...
    lru,              \* ... and their order: pairs <<older, newer>>
    batch,            \* groups scheduled in this step: [req, kind, chunk]
    num_batched,      \* budget.num_batched_tokens
    metadata,         \* what the worker will get for the groups of batch
    saved,            \* worker: _gdn_prefix_cache, Key -> state or None
    mamba,            \* worker: request-local state, Request -> state or None
    phase

schedVars == <<prompt, waiting, running, num_computed, restore_keys, capture_targets>>
policyVars == <<mode, resident, lru>>
stepVars == <<batch, num_batched, metadata, phase>>
workerVars == <<saved, mamba>>
vars == <<schedVars, kv, policyVars, stepVars, workerVars>>

----------------------------------------------------------------------------
(* Prompts, keys and states *)

Policy == mode[1]
RestoreMode == mode[2]

prompt_len(p) == Len(p.blocks) * BlockSize + p.tail
PrefixOf(p, n) == SubSeq(p.blocks, 1, n)
prefixes(p) == {PrefixOf(p, n) : n \in 1 .. Len(p.blocks)}
Key == UNION {prefixes(p) : p \in Prompt}

State(p, tokens) == [tokens |-> tokens, blocks |-> PrefixOf(p, tokens \div BlockSize)]
KeyState(k) == [tokens |-> Len(k) * BlockSize, blocks |-> k]
Zero == [tokens |-> 0, blocks |-> <<>>]
Garbage == [tokens |-> -1, blocks |-> <<>>]

\* Feeding tokens from+1 .. to of prompt p to a recurrent state: the convolution
\* is padded with conv_state, the temporal state is chained.
absorb(state, p, from, to) == IF state = State(p, from) THEN State(p, to) ELSE Garbage

\* Mutant: a chunk exactly as long as the window counts as short.
loses_tail_of_window(from, to) == from > 0 /\ to - from <= ConvWindow

\* A chunk shorter than the window fills the rest of conv_state with zeros, not
\* with the tail of the chunk before it.
loses_tail(from, to) == from > 0 /\ to - from < ConvWindow

IsPrefill(r) == num_computed[r] < prompt_len(prompt[r])

----------------------------------------------------------------------------
(* gdn_prefix.py: the arithmetic of boundaries *)

gdn_restore_alignment ==
    CASE RestoreMode = "direct" -> BlockSize
      [] RestoreMode \in {"hybrid64", "chunk64"} -> KernelChunk
      [] RestoreMode = "aligned" -> TokenBudget

strict_prefix_block_count(tokens) == IF tokens <= 1 THEN 0 ELSE (tokens - 1) \div BlockSize

\* final_capture_key, as a set of at most one key.
direct_final_key(p, tokens) ==
    LET strict == Min({Len(p.blocks), strict_prefix_block_count(tokens)})
        n == IF strict > 0 /\ tokens - strict * BlockSize < MinReplay
             THEN strict - 1 ELSE strict
    IN  IF n > 0 THEN {PrefixOf(p, n)} ELSE {}

aligned_final_key(p, tokens) ==
    LET boundary == ((tokens - 1) \div gdn_restore_alignment) * gdn_restore_alignment
        n == Min({Len(p.blocks), boundary \div BlockSize})
    IN  IF tokens > 1 /\ n > 0 THEN {PrefixOf(p, n)} ELSE {}

final_capture_key(p, tokens) ==
    IF RestoreMode \in {"direct", "hybrid64"} THEN direct_final_key(p, tokens)
                                              ELSE aligned_final_key(p, tokens)

restore_key_is_eligible(k, p) ==
    LET boundary == Len(k) * BlockSize
        remaining == prompt_len(p) - boundary
    IN  /\ remaining > 0
        /\ RestoreMode \in {"direct", "hybrid64"} => remaining >= MinReplay
        /\ \/ RestoreMode = "direct"
           \/ boundary % gdn_restore_alignment = 0
           \/ RestoreMode = "hybrid64" /\ k \in direct_final_key(p, prompt_len(p))

\* capture_points_for_step: the targets whose boundary this forward reaches.
capture_points_for_step(targets, context, end) ==
    {k \in targets : context < Len(k) * BlockSize /\ Len(k) * BlockSize <= end}

\* Mutant: the boundary a step starts at counts as pending.
cap_prefill_end_inclusive(start, end, targets) ==
    Min({end} \cup {Len(k) * BlockSize : k \in {t \in targets : start <= Len(t) * BlockSize}})

cap_prefill_end_at_capture_boundary(start, end, targets) ==
    Min({end} \cup {Len(k) * BlockSize : k \in {t \in targets : start < Len(t) * BlockSize}})

canonical_direct_segment_offsets(p, context, end) ==
    LET step_ends == {e \in 1 .. end - 1 : e % TokenBudget = 0}
        captures == UNION {direct_final_key(p, e) : e \in step_ends \cup {end}}
        boundaries == step_ends \cup {Len(k) * BlockSize : k \in captures}
    IN  {b - context : b \in {c \in boundaries : context < c /\ c < end}}

\* Mutant: the whole prompt after the checkpoint, whatever the budget.
plan_fast_forward_unbounded(restore, p, nominal, remaining_budget) ==
    IF restore = None THEN <<nominal, nominal>>
    ELSE <<prompt_len(p), prompt_len(p) - Len(restore) * BlockSize>>

\* _plan_gdn_prefix_fast_forward: <<logical progress, physical query tokens>>.
plan_fast_forward(restore, p, nominal, remaining_budget) ==
    IF restore = None THEN <<nominal, nominal>> ELSE
    LET checkpoint == Len(restore) * BlockSize
        next_boundary == (checkpoint \div TokenBudget + 1) * TokenBudget
        limit == IF RestoreMode = "hybrid64"
                 THEN Min({checkpoint + remaining_budget, next_boundary})
                 ELSE checkpoint + remaining_budget
        logical == Min({prompt_len(p), limit})
        physical == logical - checkpoint
    IN  IF \/ physical <= 0
           \/ physical > remaining_budget
           \/ logical <= nominal /\ (RestoreMode # "hybrid64" \/ physical >= nominal)
        THEN <<nominal, nominal>>
        ELSE <<logical, physical>>

\* Mutant: the step is not cut at the capture boundary.
cap_gdn_capture_boundary_ignored(targets, computed, chunk, physical) == <<chunk, physical>>

\* _cap_gdn_capture_boundary: end an admission64 step at its first capture.
cap_gdn_capture_boundary(targets, computed, chunk, physical) ==
    IF Policy # "admission64" \/ targets = {} THEN <<chunk, physical>> ELSE
    LET end == computed + chunk
        start == end - physical
        capped == cap_prefill_end_at_capture_boundary(start, end, targets)
    IN  <<capped - computed, capped - start>>

cap_gdn_capture_boundary_raises(targets, computed, chunk, physical) ==
    LET capped == cap_gdn_capture_boundary(targets, computed, chunk, physical) IN
    /\ Policy = "admission64" /\ targets # {}
    /\ \/ chunk <= 0 \/ physical <= 0
       \/ chunk < physical
       \/ capped[1] <= 0 \/ capped[2] <= 0

----------------------------------------------------------------------------
(* GdnPrefixStatePolicy.  A policy state is [resident, lru]. *)

policy == [resident |-> resident, lru |-> lru]

move_to_end(s, k) ==
    [resident |-> s.resident \cup {k},
     lru |-> {e \in s.lru : e[1] # k /\ e[2] # k} \cup {<<j, k>> : j \in s.resident \ {k}}]

oldest(s) == CHOOSE k \in s.resident : \A j \in s.resident \ {k} : <<k, j>> \in s.lru

popitem(s) ==
    [resident |-> s.resident \ {oldest(s)},
     lru |-> {e \in s.lru : e[1] # oldest(s) /\ e[2] # oldest(s)}]

\* One key of admit: at most one older key leaves for it.
admit_key(s, k) ==
    LET added == move_to_end(s, k)
    IN  IF Cardinality(added.resident) > GdnCapacity THEN popitem(added) ELSE added

longest(keys) == CHOOSE k \in keys : \A j \in keys : Len(j) <= Len(k)

\* admit: the keys of this step's capture points, by offset.
admit(s, keys) ==
    LET admitted[ks \in SUBSET keys] ==
            IF ks = {} THEN s ELSE admit_key(admitted[ks \ {longest(ks)}], longest(ks))
    IN  admitted[keys]

\* select_restore: the longest live prefix with a state.
select_restore(live) ==
    IF live \cap resident # {} THEN longest(live \cap resident) ELSE None

\* repeated_branch_candidate: the longest live prefix, if it lacks a state.
repeated_branch_candidate(live) ==
    IF Policy = "admission64" /\ live # {} THEN {longest(live)} \ resident ELSE {}

should_capture_final(k) ==
    \/ Policy = "fine32"
    \/ Policy = "admission64" /\ k \notin resident

----------------------------------------------------------------------------
(* Requests *)

Group == [req : Request, kind : {"new", "prefill", "decode", "preempted"}, chunk : Nat \ {0}]

Metadata == [req : Request, is_prompt : BOOLEAN, restore : Key \cup {None}, capture : SUBSET Key,
             evict : SUBSET Key, segments : SUBSET Nat, context : Nat, end : Nat]

StateValue == [tokens : Int, blocks : Key \cup {<<>>}]

\* Every variable has its type; the tokens accounted for stay within the budget.
TypeOK ==
    /\ prompt \in [Request -> Prompt \cup {None}]
    /\ waiting \in Seq(Request) /\ running \in Seq(Request)
    /\ num_computed \in [Request -> Nat]
    /\ restore_keys \in [Request -> Key \cup {None}]
    /\ capture_targets \in [Request -> SUBSET Key]
    /\ kv \subseteq Key
    /\ mode \in Modes /\ resident \subseteq Key
    /\ lru \subseteq Key \X Key
    /\ batch \in Seq(Group) /\ num_batched \in 0 .. TokenBudget
    /\ metadata \in Seq(Metadata)
    /\ saved \in [Key -> StateValue \cup {None}]
    /\ mamba \in [Request -> StateValue \cup {None}]
    /\ phase \in {"idle", "schedule", "prefill", "metadata", "execute"}

Init ==
    /\ prompt = [r \in Request |-> None]
    /\ waiting = <<>> /\ running = <<>>
    /\ num_computed = [r \in Request |-> 0]
    /\ restore_keys = [r \in Request |-> None]
    /\ capture_targets = [r \in Request |-> {}]
    /\ kv = {}
    /\ mode \in Modes /\ resident = {} /\ lru = {}
    /\ batch = <<>> /\ num_batched = 0 /\ metadata = <<>>
    /\ saved = [k \in Key |-> None]
    /\ mamba = [r \in Request |-> None]
    /\ phase = "idle"

\* add_seq_group, under an id that is new to scheduler and worker.
AddSeqGroup(r, p) ==
    /\ phase = "idle"
    /\ prompt[r] = None
    /\ prompt' = [prompt EXCEPT ![r] = p]
    /\ waiting' = Append(waiting, r)
    /\ UNCHANGED <<running, num_computed, restore_keys, capture_targets, kv, policyVars,
                   stepVars, workerVars>>

\* A request id is retired.  The worker releases its state at the next forward
\* (_release_finished_requests), and no later request has this id, so the model
\* forgets what is filed under it, the entries an abort leaves behind included.
retire(r) ==
    /\ prompt' = [prompt EXCEPT ![r] = None]
    /\ num_computed' = [num_computed EXCEPT ![r] = 0]
    /\ restore_keys' = [restore_keys EXCEPT ![r] = None]
    /\ capture_targets' = [capture_targets EXCEPT ![r] = {}]
    /\ mamba' = [mamba EXCEPT ![r] = None]

Without(queue, r) == Keep(queue, Request \ {r})

\* abort_seq_group: the request leaves the queue it is in.
Abort(r) ==
    /\ phase = "idle"
    /\ prompt[r] # None
    /\ retire(r)
    /\ waiting' = Without(waiting, r)
    /\ running' = Without(running, r)
    /\ UNCHANGED <<kv, policyVars, stepVars, saved>>

\* A decoding request stops: free_finished_seq_groups.
Finish(r) ==
    /\ phase = "idle"
    /\ \E i \in DOMAIN running : running[i] = r
    /\ ~IsPrefill(r)
    /\ retire(r)
    /\ running' = Without(running, r)
    /\ UNCHANGED <<waiting, kv, policyVars, stepVars, saved>>

\* The allocator reuses a block that no running request holds.
EvictKv(k) ==
    /\ phase = "idle"
    /\ k \in kv
    /\ \A i \in DOMAIN running : k \notin prefixes(prompt[running[i]])
    /\ kv' = kv \ {k}
    /\ UNCHANGED <<schedVars, policyVars, stepVars, workerVars>>

----------------------------------------------------------------------------
(* Scheduler.schedule() *)

OfKind(kind) == Keep(batch, {g \in ToSet(batch) : g.kind = kind})
Requests(groups) == [i \in DOMAIN groups |-> groups[i].req]
num_curr_seqs == Len(batch) - Len(OfKind("preempted"))

remaining_token_budget == TokenBudget - num_batched

\* _get_num_new_tokens: whole blocks when the budget cuts the request short.
get_num_new_tokens(needed) ==
    IF remaining_token_budget < needed
    THEN (remaining_token_budget \div BlockSize) * BlockSize
    ELSE needed

running_need(r) == IF IsPrefill(r) THEN prompt_len(prompt[r]) - num_computed[r] ELSE 1

\* What the head of the running queue gets in this step.
running_tokens(r) ==
    LET nominal == get_num_new_tokens(running_need(r)) IN
    IF nominal > 0 /\ IsPrefill(r)
    THEN cap_gdn_capture_boundary(capture_targets[r], num_computed[r], nominal, nominal)[1]
    ELSE nominal

StartStep ==
    /\ phase = "idle"
    /\ waiting # <<>> \/ running # <<>>
    /\ batch' = <<>> /\ num_batched' = 0 /\ metadata' = <<>>
    /\ phase' = "schedule"
    /\ UNCHANGED <<schedVars, kv, policyVars, workerVars>>

\* _schedule_running, one group.
ScheduleRunning ==
    /\ phase = "schedule"
    /\ running # <<>>
    /\ LET r == Head(running)
           tokens == running_tokens(r)
       IN  /\ tokens > 0
           /\ batch' = Append(batch, [req |-> r, chunk |-> tokens,
                                      kind |-> IF IsPrefill(r) THEN "prefill" ELSE "decode"])
           /\ num_batched' = num_batched + tokens
    /\ running' = Tail(running)
    /\ UNCHANGED <<prompt, waiting, num_computed, restore_keys, capture_targets, kv,
                   policyVars, metadata, phase, workerVars>>

\* No slot for the next token of the head of the queue: _preempt_by_recompute the
\* last group.  A prefill has all its blocks, and the cache holds the longest
\* request, so it takes a decoding head and a second request.  A victim that was
\* decoding comes back with its output tokens in its prompt.
PreemptRunning ==
    /\ Preemption
    /\ phase = "schedule"
    /\ running # <<>>
    /\ Len(running) + num_curr_seqs > 1
    /\ ~IsPrefill(Head(running))
    /\ running_tokens(Head(running)) > 0
    /\ LET r == Last(running) IN
         /\ \E q \in Prompt :
              /\ IF IsPrefill(r) THEN q = prompt[r]
                 ELSE /\ prompt_len(q) > prompt_len(prompt[r])
                      /\ PrefixOf(q, Len(prompt[r].blocks)) = prompt[r].blocks
              /\ prompt' = [prompt EXCEPT ![r] = q]
         /\ num_computed' = [num_computed EXCEPT ![r] = 0]
         /\ batch' = Append(batch, [req |-> r, chunk |-> 1, kind |-> "preempted"])
    /\ running' = Front(running)
    /\ UNCHANGED <<waiting, restore_keys, capture_targets, kv, policyVars, num_batched,
                   metadata, phase, workerVars>>

EndRunning ==
    /\ phase = "schedule"
    /\ running # <<>> => running_tokens(Head(running)) = 0
    /\ phase' = "prefill"
    /\ UNCHANGED <<schedVars, kv, policyVars, batch, num_batched, metadata, workerVars>>

can_schedule_waiting ==
    /\ waiting # <<>>
    /\ LET tokens == get_num_new_tokens(prompt_len(prompt[Head(waiting)])) IN
         /\ tokens > 0
         /\ num_batched + tokens <= TokenBudget
         /\ num_curr_seqs + 1 <= MaxNumSeqs

\* The eligible prefixes of p whose KV blocks are all cached and computed.
num_live_blocks(p) ==
    Max({n \in 0 .. Len(p.blocks) : \A m \in 1 .. n : PrefixOf(p, m) \in kv})

live_keys(p) ==
    LET blocks == Min({num_live_blocks(p), strict_prefix_block_count(prompt_len(p))})
    IN  {k \in {PrefixOf(p, n) : n \in 1 .. blocks} : restore_key_is_eligible(k, p)}

targets_of(p) ==
    repeated_branch_candidate(live_keys(p))
        \cup {k \in final_capture_key(p, prompt_len(p)) : should_capture_final(k)}

\* Logical and physical tokens of the first step of a waiting request.
prefill_plan(p) ==
    plan_fast_forward(select_restore(live_keys(p)), p,
                      get_num_new_tokens(prompt_len(p)), remaining_token_budget)

\* Mutant: the restored key is not moved to the end of the LRU order.
SchedulePrefill_no_touch ==
    /\ phase = "prefill"
    /\ can_schedule_waiting
    /\ LET r == Head(waiting)
           p == prompt[r]
           ahead == prefill_plan(p)
           plan == cap_gdn_capture_boundary(targets_of(p), 0, ahead[1], ahead[2])
       IN  /\ restore_keys' = [restore_keys EXCEPT ![r] = select_restore(live_keys(p))]
           /\ capture_targets' = [capture_targets EXCEPT ![r] = targets_of(p)]
           /\ batch' = Append(batch, [req |-> r, chunk |-> plan[1], kind |-> "new"])
           /\ num_batched' = num_batched + plan[2]
    /\ waiting' = Tail(waiting)
    /\ UNCHANGED <<prompt, running, num_computed, kv, policyVars, metadata, phase, workerVars>>

\* _schedule_prefills, one group: pick the state to restore and the states to
\* capture, then plan its first step.
SchedulePrefill ==
    /\ phase = "prefill"
    /\ can_schedule_waiting
    /\ LET r == Head(waiting)
           p == prompt[r]
       IN  \E restore \in {select_restore(live_keys(p))}, targets \in {targets_of(p)},
              ahead \in {prefill_plan(p)} :
           \E plan \in {cap_gdn_capture_boundary(targets, 0, ahead[1], ahead[2])} :
              /\ ~cap_gdn_capture_boundary_raises(targets, 0, ahead[1], ahead[2])
              /\ restore_keys' = [restore_keys EXCEPT ![r] = restore]
              /\ capture_targets' = [capture_targets EXCEPT ![r] = targets]
              /\ lru' = IF restore = None THEN lru ELSE move_to_end(policy, restore).lru
              /\ batch' = Append(batch, [req |-> r, chunk |-> plan[1], kind |-> "new"])
              /\ num_batched' = num_batched + plan[2]
    /\ waiting' = Tail(waiting)
    /\ UNCHANGED <<prompt, running, num_computed, kv, mode, resident, metadata, phase, workerVars>>

\* The batch is complete.  When memory is short, can_allocate may answer LATER.
EndPrefill ==
    /\ phase = "prefill"
    /\ Preemption \/ ~can_schedule_waiting
    /\ waiting' = Reverse(Requests(OfKind("preempted"))) \o waiting
    /\ running' = running \o Requests(OfKind("decode")) \o Requests(OfKind("prefill"))
                          \o Requests(OfKind("new"))
    /\ batch' = OfKind("new") \o OfKind("prefill") \o OfKind("decode")
    /\ phase' = IF num_curr_seqs = 0 THEN "idle" ELSE "metadata"
    /\ UNCHANGED <<prompt, num_computed, restore_keys, capture_targets, kv, policyVars,
                   num_batched, metadata, workerVars>>

----------------------------------------------------------------------------
(* The metadata of each group, in batch order *)

DecodeMetadata(g) ==
    [req |-> g.req, is_prompt |-> FALSE, restore |-> None, capture |-> {}, evict |-> {},
     segments |-> {}, context |-> 0, end |-> 0]

\* Where the forward pass starts: after the restored prefix, or where the
\* request's own state stands.
physical_context(r) ==
    IF num_computed[r] # 0 THEN num_computed[r]
    ELSE IF restore_keys[r] = None THEN 0 ELSE Len(restore_keys[r]) * BlockSize

step_targets(r, end) ==
    IF Policy = "fine32" THEN final_capture_key(prompt[r], end) ELSE capture_targets[r]

capture_of(r, end) ==
    IF Policy = "off" THEN {}
    ELSE capture_points_for_step(step_targets(r, end), physical_context(r), end)

segments_of(r, end) ==
    IF RestoreMode = "hybrid64" /\ Policy = "admission64"
    THEN canonical_direct_segment_offsets(prompt[r], physical_context(r), end)
    ELSE {}

\* Mutant: the worker is not told of the evictions.
PrefillMetadata_no_evict(g, admitted) ==
    LET r == g.req
        end == Min({prompt_len(prompt[r]), num_computed[r] + g.chunk})
    IN  [req |-> r, is_prompt |-> TRUE,
         restore |-> IF num_computed[r] = 0 THEN restore_keys[r] ELSE None,
         capture |-> capture_of(r, end),
         evict |-> {},
         segments |-> segments_of(r, end),
         context |-> physical_context(r), end |-> end]

PrefillMetadata(g, admitted) ==
    LET r == g.req
        end == Min({prompt_len(prompt[r]), num_computed[r] + g.chunk})
    IN  [req |-> r, is_prompt |-> TRUE,
         restore |-> IF num_computed[r] = 0 THEN restore_keys[r] ELSE None,
         capture |-> capture_of(r, end),
         evict |-> resident \ admitted.resident,
         segments |-> segments_of(r, end),
         context |-> physical_context(r), end |-> end]

next_group == batch[Len(metadata) + 1]

metadata_raises ==
    LET r == next_group.req
        end == Min({prompt_len(prompt[r]), num_computed[r] + next_group.chunk})
    IN  IsPrefill(r) /\
        \/ /\ num_computed[r] = 0
           /\ restore_keys[r] # None
           /\ Len(restore_keys[r]) > num_live_blocks(prompt[r])
        \/ Cardinality(capture_of(r, end)) > 2

\* mark_blocks_as_computed after the last group: every full block of a prompt
\* in the batch now counts as computed.
marked == kv \cup UNION {prefixes(prompt[batch[i].req]) : i \in DOMAIN batch}

BuildMetadata ==
    /\ phase = "metadata"
    /\ ~metadata_raises
    /\ LET g == next_group
           last == Len(metadata) + 1 = Len(batch)
       IN  \E end \in {Min({prompt_len(prompt[g.req]), num_computed[g.req] + g.chunk})} :
           \E admitted \in {admit(policy, capture_of(g.req, end))} :
           /\ IF IsPrefill(g.req)
              THEN LET done == end >= prompt_len(prompt[g.req])
                   IN  /\ metadata' = Append(metadata, PrefillMetadata(g, admitted))
                       /\ resident' = admitted.resident
                       /\ lru' = admitted.lru /\ UNCHANGED mode
                       /\ restore_keys' = IF done THEN [restore_keys EXCEPT ![g.req] = None]
                                          ELSE restore_keys
                       /\ capture_targets' = IF done THEN [capture_targets EXCEPT ![g.req] = {}]
                                             ELSE capture_targets
              ELSE /\ metadata' = Append(metadata, DecodeMetadata(g))
                   /\ UNCHANGED <<policyVars, restore_keys, capture_targets>>
           /\ kv' = IF last THEN marked ELSE kv
           /\ phase' = IF last THEN "execute" ELSE "metadata"
    /\ UNCHANGED <<prompt, waiting, running, num_computed, batch, num_batched, workerVars>>

----------------------------------------------------------------------------
(* The worker: model runner and model forward *)

prompts_in_batch == {i \in DOMAIN metadata : metadata[i].is_prompt}

\* _compute_for_prefix_cache_hit of the model runner: the computed blocks of a
\* first prefill are the restored ones.
worker_context(m) ==
    IF m.restore = None THEN m.context
    ELSE IF m.end <= Len(m.restore) * BlockSize THEN m.end - 1
    ELSE Len(m.restore) * BlockSize

query_len(m) == m.end - worker_context(m)
offset(m, k) == Len(k) * BlockSize - m.context
has_gdn_actions(m) == m.restore # None \/ m.capture # {} \/ m.evict # {} \/ m.segments # {}

forward_raises(m) ==
    \/ m.restore # None /\ (m.restore \in m.evict \/ saved[m.restore] = None)
    \/ \E k \in m.capture : offset(m, k) \notin 1 .. query_len(m)
    \/ m.segments \ (1 .. query_len(m) - 1) # {}

step_raises ==
    \/ Cardinality(prompts_in_batch) > 1
    \/ \E i \in prompts_in_batch : has_gdn_actions(metadata[i]) /\ Len(metadata) > 1
    \/ \E i \in prompts_in_batch : forward_raises(metadata[i])

\* Mutant: the saved state is not copied into the request's own.
initial_state_not_restored(m) == IF mamba[m.req] = None THEN Zero ELSE mamba[m.req]

\* The state a group's forward starts from: MambaCacheManager zeroes a state only
\* when the request id is new to it; a restored state overwrites it.
initial_state(m) ==
    IF m.restore # None THEN saved[m.restore]
    ELSE IF mamba[m.req] = None THEN Zero
    ELSE mamba[m.req]

\* The state after some tokens of the forward.  At its end the state is what the
\* row holds; before that, a slice of the padded input.
state_at(m, tokens) ==
    IF tokens = m.end /\ loses_tail(worker_context(m), tokens) THEN Garbage
    ELSE absorb(initial_state(m), prompt[m.req], worker_context(m), tokens)

\* One forward pass: evict, restore, run, capture.  Then the scheduler accounts
\* for the tokens.
Execute ==
    /\ phase = "execute"
    /\ ~step_raises
    /\ saved' = [k \in Key |->
          IF \E i \in DOMAIN metadata : k \in metadata[i].capture
          THEN LET m == metadata[CHOOSE i \in DOMAIN metadata : k \in metadata[i].capture]
               IN  state_at(m, worker_context(m) + offset(m, k))
          ELSE IF \E i \in DOMAIN metadata : k \in metadata[i].evict THEN None
          ELSE saved[k]]
    /\ mamba' = [r \in Request |->
          IF \E i \in prompts_in_batch : metadata[i].req = r
          THEN LET m == metadata[CHOOSE i \in prompts_in_batch : metadata[i].req = r]
               IN  state_at(m, m.end)
          ELSE mamba[r]]
    /\ num_computed' = [r \in Request |->
          IF \E i \in prompts_in_batch : metadata[i].req = r
          THEN metadata[CHOOSE i \in prompts_in_batch : metadata[i].req = r].end
          ELSE num_computed[r]]
    /\ batch' = <<>> /\ num_batched' = 0 /\ metadata' = <<>>
    /\ phase' = "idle"
    /\ UNCHANGED <<prompt, waiting, running, restore_keys, capture_targets, kv, policyVars>>

Next ==
    \/ \E r \in Request, p \in Prompt : AddSeqGroup(r, p)
    \/ \E r \in Request : Abort(r)
    \/ \E r \in Request : Finish(r)
    \/ \E k \in Key : EvictKv(k)
    \/ StartStep
    \/ ScheduleRunning
    \/ PreemptRunning
    \/ EndRunning
    \/ SchedulePrefill
    \/ EndPrefill
    \/ BuildMetadata
    \/ Execute

\* The engine loop never stops while there is work, and generation ends.
Fairness ==
    /\ WF_vars(StartStep \/ ScheduleRunning \/ EndRunning \/ SchedulePrefill
                  \/ EndPrefill \/ BuildMetadata \/ Execute)
    /\ \A r \in Request : SF_vars(Finish(r))

Spec == Init /\ [][Next]_vars /\ Fairness

----------------------------------------------------------------------------
(* Properties *)

\* Between steps the worker holds a state for exactly the keys the scheduler
\* believes resident, though it only ever sees deltas (captures, evictions).
WorkerMatchesIndex ==
    phase = "idle" => {k \in Key : saved[k] # None} = resident

\* A saved state is the state after exactly the prefix its key names, whichever
\* request, chunking and restore produced it: it may serve any other request.
SavedStateIsPrefixState == \A k \in Key : saved[k] # None => saved[k] = KeyState(k)

\* The prompts whose last chunk may be shorter than the window and not the first:
\* a few tokens after whole blocks.
may_lose_tail(p) == p.blocks # <<>> /\ p.tail \in 1 .. ConvWindow - 1

\* Between steps the recurrent state of a started prefill has absorbed exactly
\* the tokens the scheduler counts as computed, fast-forwarded ones included.
\* The zeros GatedDeltaNet.forward leaves after a short chunk (loses_tail) spoil
\* only the last state of a prompt that ends one to ConvWindow - 1 tokens past a
\* block: however steps are cut, no unfinished prefill goes on from such a state.
RequestStateMatchesProgress ==
    phase = "idle" =>
        \A i \in DOMAIN running :
            LET r == running[i] IN
            \/ mamba[r] = State(prompt[r], num_computed[r])
            \/ ~IsPrefill(r) /\ may_lose_tail(prompt[r]) /\ mamba[r] = Garbage

\* No step meets a RuntimeError of the planning or of the metadata loop: a chunk
\* cut at a capture boundary is not empty, a prefix to restore is cached and a
\* step captures no more than two states.
NoPlanRaises ==
    /\ phase = "schedule" /\ running # <<>> =>
         LET r == Head(running)
             nominal == get_num_new_tokens(running_need(r))
         IN  IsPrefill(r) /\ nominal > 0 =>
             ~cap_gdn_capture_boundary_raises(capture_targets[r], num_computed[r],
                                              nominal, nominal)
    /\ phase = "prefill" /\ can_schedule_waiting =>
         LET p == prompt[Head(waiting)] IN
         ~cap_gdn_capture_boundary_raises(targets_of(p), 0, prefill_plan(p)[1],
                                          prefill_plan(p)[2])
    /\ phase = "metadata" => ~metadata_raises

\* ... nor one of the model runner or the forward: the restored state exists and
\* survives the step's own evictions, offsets lie inside the query, one action
\* group per batch.
NoStepRaises ==
    /\ NoPlanRaises
    /\ phase = "execute" => ~step_raises

\* admission64 captures only at the end of a forward pass
\* (_cap_gdn_capture_boundary: "Align admission64 capture state with a physical
\* model forward"), so no state is cut out of the middle of a kernel chunk.
CaptureEndsForward ==
    phase = "execute" /\ Policy = "admission64" =>
        \A i \in prompts_in_batch : \A k \in metadata[i].capture :
            offset(metadata[i], k) = query_len(metadata[i])

\* The tokens the worker really computes in a step stay within the budget, and a
\* scheduled prefill computes at least one, though its logical progress may be
\* larger than the budget.
QueryWithinBudget ==
    phase = "execute" =>
        /\ \A i \in prompts_in_batch : query_len(metadata[i]) > 0
        /\ SumFunctionOnSet([i \in DOMAIN metadata |-> IF metadata[i].is_prompt
                                                       THEN query_len(metadata[i]) ELSE 1],
                            DOMAIN metadata) <= TokenBudget

\* Every request that arrives is eventually prefilled completely, or aborted.
PrefillCompletes ==
    \A r \in Request : prompt[r] # None ~> (prompt[r] = None \/ ~IsPrefill(r))
=============================================================================
