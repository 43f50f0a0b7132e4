------------------------------ MODULE MambaCache ------------------------------
(***************************************************************************)
(* The rows in which the model keeps the recurrent state of every sequence *)
(* (mamba_cache.py), driven by the scheduler that decides which sequences  *)
(* are in a batch (scheduler.py, chunked prefill) and by the output        *)
(* processor that forks, finishes and frees them.                          *)
(*                                                                         *)
(* The sequences of a batch must sit in the first rows, in batch order, so *)
(* every step moves, swaps and copies rows.  A request keeps its rows while *)
(* it waits, is preempted or swapped out; they are released by the list of *)
(* finished ids that travels with a later step.                            *)
(*                                                                         *)
(* Queues are in order.  Tokens are counted, not represented.  What memory *)
(* allows (can_allocate, can_append_slots, can_swap_in) is nondeterministic. *)
(* The engine runs in eager mode, so output processing is synchronous.     *)
(***************************************************************************)
EXTENDS Integers, Sequences, FiniteSets, SequencesExt, FiniteSetsExt, Queues

CONSTANTS
    Request,      \* request ids, each used once
    MaxN,         \* sampling_params.n is at most this
    MaxPrompt,    \* bound: prompt length in tokens
    MaxSteps,     \* bound: engine steps
    BlockSize,    \* tokens of a KV block
    TokenBudget,  \* max_num_batched_tokens
    MaxNumSeqs    \* max_num_seqs

ASSUME SizesAssumption ==
    /\ MaxN \in Nat \ {0}
    /\ MaxPrompt \in Nat \ {0} /\ MaxSteps \in Nat
    /\ BlockSize \in Nat \ {0} /\ TokenBudget \in Nat \ {0}
    /\ TokenBudget % BlockSize = 0
    /\ MaxNumSeqs \in Nat \ {0}

VARIABLES
    n,             \* sampling_params.n of a request, 0 before it arrives
    waiting, running, swapped,    \* the scheduler's queues
    need,          \* prompt tokens of a request that are not computed yet
    num_seqs,      \* sequences 1 .. num_seqs[r] were created for r
    unfinished,    \* those that have not finished
    finished_ids,  \* _finished_requests_ids
    groups,        \* kind -> the groups of the step's output lists, in order
    num_batched_tokens, num_curr_seqs,    \* SchedulingBudget
    phase, steps,
    delivered,     \* the finished ids sent with the current step
    batch,         \* request_ids_to_seq_ids, flattened
    assigned,      \* how many entries of batch have been assigned
    indices,       \* mamba_cache_indices_mapping
    row,           \* mamba_cache: what was fed into the state of each row
    fed,           \* ghost: what was fed to each sequence so far
    lost,          \* ghost: requests gone without their id reaching the worker
    raised         \* the exception that stopped the engine

requestVars == <<n, need, num_seqs, unfinished>>
queueVars == <<waiting, running, swapped>>
stepVars == <<groups, num_batched_tokens, num_curr_seqs>>
workerVars == <<delivered, batch, assigned, indices, row, fed>>
vars == <<requestVars, queueVars, finished_ids, stepVars, phase, steps, workerVars, lost, raised>>

Seqs == 1 .. MaxN
Pair == Request \X Seqs

\* _get_graph_batch_size(max_num_seqs): the rows of the cache.
max_batch_size ==
    IF MaxNumSeqs <= 2 THEN MaxNumSeqs
    ELSE IF MaxNumSeqs <= 4 THEN 4
    ELSE ((MaxNumSeqs + 7) \div 8) * 8

Row == 0 .. max_batch_size - 1
NoRow == -1

\* The lists in which a step collects groups: those it runs, and those it preempts.
RunKind == {"new", "prefill", "decode", "in_prefill", "in_decode"}
Kind == RunKind \cup {"preempted", "swapped_out"}
NoGroups == [k \in Kind |-> <<>>]
Phase == {"idle", "running", "swapped", "waiting", "release", "assign", "forward", "outputs", "stopped"}

Init ==
    /\ n = [r \in Request |-> 0]
    /\ waiting = <<>> /\ running = <<>> /\ swapped = <<>>
    /\ need = [r \in Request |-> 0]
    /\ num_seqs = [r \in Request |-> 0]
    /\ unfinished = [r \in Request |-> {}]
    /\ finished_ids = {}
    /\ groups = NoGroups /\ num_batched_tokens = 0 /\ num_curr_seqs = 0
    /\ phase = "idle" /\ steps = 0
    /\ delivered = {} /\ batch = <<>> /\ assigned = 0
    /\ indices = [p \in Pair |-> NoRow]
    /\ row = [i \in Row |-> <<>>]
    /\ fed = [p \in Pair |-> <<>>]
    /\ lost = {} /\ raised = "no"

-----------------------------------------------------------------------------
\* Requests.

IsPrefill(r) == need[r] > 0

get_max_num_running_seqs(r) ==
    IF n[r] > num_seqs[r] THEN n[r] ELSE Cardinality(unfinished[r])

\* add_seq_group: a prompt of some length, asking for some number of samples.
AddSeqGroup(r) ==
    /\ phase = "idle"
    /\ n[r] = 0
    /\ \E k \in 1 .. MaxN : n' = [n EXCEPT ![r] = k]
    /\ \E len \in 1 .. MaxPrompt : need' = [need EXCEPT ![r] = len]
    /\ num_seqs' = [num_seqs EXCEPT ![r] = 1]
    /\ unfinished' = [unfinished EXCEPT ![r] = {1}]
    /\ waiting' = Append(waiting, r)
    /\ UNCHANGED <<running, swapped, finished_ids, stepVars, phase, steps, workerVars, lost, raised>>

Without(queue, gone) == Keep(queue, Request \ gone)

\* Mutant: the id of an aborted request is not sent to the worker.
AbortSeqGroup_keeps_rows(r) ==
    /\ phase = "idle"
    /\ r \in ToSet(waiting \o running \o swapped)
    /\ waiting' = Without(waiting, {r})
    /\ running' = Without(running, {r})
    /\ swapped' = Without(swapped, {r})
    /\ unfinished' = [unfinished EXCEPT ![r] = {}]
    /\ UNCHANGED <<n, need, num_seqs, finished_ids, stepVars, phase, steps, workerVars, lost, raised>>

\* abort_seq_group: from whichever queue holds the request.
AbortSeqGroup(r) ==
    /\ phase = "idle"
    /\ r \in ToSet(waiting \o running \o swapped)
    /\ waiting' = Without(waiting, {r})
    /\ running' = Without(running, {r})
    /\ swapped' = Without(swapped, {r})
    /\ finished_ids' = finished_ids \cup {r}
    /\ unfinished' = [unfinished EXCEPT ![r] = {}]
    /\ UNCHANGED <<n, need, num_seqs, stepVars, phase, steps, workerVars, lost, raised>>

-----------------------------------------------------------------------------
\* One scheduling step, group by group.

Requests(k) == [i \in DOMAIN groups[k] |-> groups[k][i].req]

\* scheduled_seq_groups, in the order of the batch.
Scheduled ==
    Requests("new") \o Requests("prefill") \o Requests("in_prefill")
        \o Requests("decode") \o Requests("in_decode")

remaining_token_budget == TokenBudget - num_batched_tokens

num_uncomputed(r) == IF IsPrefill(r) THEN need[r] ELSE Cardinality(unfinished[r])

\* A group of one sequence is cut to the budget, in whole blocks.
get_num_new_tokens(r) ==
    IF Cardinality(unfinished[r]) = 1 /\ remaining_token_budget < num_uncomputed(r)
    THEN (remaining_token_budget \div BlockSize) * BlockSize
    ELSE num_uncomputed(r)

\* Mutant: the seats are not checked.
can_schedule_tokens(r, tokens) == tokens <= remaining_token_budget

\* SchedulingBudget.can_schedule
can_schedule(r, tokens) ==
    /\ tokens <= remaining_token_budget
    /\ num_curr_seqs + get_max_num_running_seqs(r) <= MaxNumSeqs

Record(r, tokens, kind) ==
    groups' = [groups EXCEPT ![kind] = Append(@, [req |-> r, chunk |-> tokens])]

\* The group joins a list of the step and takes its part of the budget.
Schedule(r, tokens, kind) ==
    /\ Record(r, tokens, kind)
    /\ num_batched_tokens' = num_batched_tokens + tokens
    /\ num_curr_seqs' = num_curr_seqs + get_max_num_running_seqs(r)

StartStep ==
    /\ phase = "idle"
    /\ steps < MaxSteps
    /\ waiting # <<>> \/ running # <<>> \/ swapped # <<>>
    /\ steps' = steps + 1
    /\ groups' = NoGroups /\ num_batched_tokens' = 0 /\ num_curr_seqs' = 0
    /\ phase' = "running"
    /\ UNCHANGED <<requestVars, queueVars, finished_ids, workerVars, lost, raised>>

\* _schedule_running, one group.  A group of several sequences is not cut, no group is
\* held against the budget, and the groups that an earlier step left in the queue had
\* no part of the budget under which that step let others in: when the tokens or the
\* sequences exceed the budget, the assertions after _schedule_prefills stop the engine.
ScheduleRunning ==
    /\ phase = "running"
    /\ running # <<>>
    /\ LET r == Head(running)
           tokens == get_num_new_tokens(r)
       IN  /\ tokens # 0
           /\ Schedule(r, tokens, IF IsPrefill(r) THEN "prefill" ELSE "decode")
           /\ IF can_schedule(r, tokens)
              THEN UNCHANGED <<phase, raised>>
              ELSE /\ phase' = "stopped"
                   /\ raised' = IF tokens <= remaining_token_budget
                                 THEN "over_seats" ELSE "over_budget"
    /\ running' = Tail(running)
    /\ UNCHANGED <<requestVars, waiting, swapped, finished_ids, steps, workerVars, lost>>

\* No slot for the next tokens of the head of the queue.  The cache holds the longest
\* sequence, so that takes a second one.  Only a decoding head is refused here; the
\* code may also refuse a prefill, which needs no new block but counts its partly
\* filled last one as touched.  (A prefill at the end of the queue may give way.)
slots_may_run_out ==
    /\ running # <<>>
    /\ ~IsPrefill(Head(running))
    /\ get_num_new_tokens(Head(running)) # 0
    /\ \/ Len(running) + Len(Scheduled) > 1
       \/ Cardinality(unfinished[Head(running)]) > 1

\* _preempt_by_recompute: the last group, of one sequence, goes back to the waiting
\* queue when the step ends; its output tokens join its prompt.  A group down to one
\* sequence that had more is left out: schedule() asserts that a prompt has one.
PreemptByRecompute ==
    /\ phase = "running"
    /\ slots_may_run_out
    /\ LET r == Last(running) IN
         /\ get_max_num_running_seqs(r) = 1
         /\ num_seqs[r] = 1
         /\ \E len \in Max({1, need[r]}) .. MaxPrompt : need' = [need EXCEPT ![r] = len]
         /\ Record(r, 0, "preempted")
    /\ running' = Front(running)
    /\ UNCHANGED <<n, num_seqs, unfinished, waiting, swapped, finished_ids, num_batched_tokens,
                   num_curr_seqs, phase, steps, workerVars, lost, raised>>

\* _preempt_by_swap
PreemptBySwap ==
    /\ phase = "running"
    /\ slots_may_run_out
    /\ get_max_num_running_seqs(Last(running)) # 1
    /\ Record(Last(running), 0, "swapped_out")
    /\ running' = Front(running)
    /\ UNCHANGED <<requestVars, waiting, swapped, finished_ids, num_batched_tokens, num_curr_seqs,
                   phase, steps, workerVars, lost, raised>>

EndRunning ==
    /\ phase = "running"
    /\ running # <<>> => get_num_new_tokens(Head(running)) = 0
    /\ phase' = IF groups["preempted"] \o groups["swapped_out"] = <<>> THEN "swapped" ELSE "waiting"
    /\ UNCHANGED <<requestVars, queueVars, finished_ids, stepVars, steps, workerVars, lost, raised>>

\* _schedule_swapped, one group; it is not chunked.
SwapIn ==
    /\ phase = "swapped"
    /\ swapped # <<>>
    /\ LET r == Head(swapped) IN
         /\ can_schedule(r, num_uncomputed(r))
         /\ Schedule(r, num_uncomputed(r), IF IsPrefill(r) THEN "in_prefill" ELSE "in_decode")
    /\ swapped' = Tail(swapped)
    /\ UNCHANGED <<requestVars, waiting, running, finished_ids, phase, steps, workerVars,
                   lost, raised>>

\* A group that can never fit is dropped; nobody sends its id.
Ignore(r) ==
    /\ unfinished' = [unfinished EXCEPT ![r] = {}]
    /\ lost' = lost \cup {r}
    /\ UNCHANGED <<n, need, num_seqs, running, finished_ids, stepVars, phase, steps, workerVars,
                   raised>>

\* AllocStatus.NEVER for the head of the swapped queue, or of the waiting queue.
IgnoreSwapped ==
    /\ phase = "swapped"
    /\ swapped # <<>>
    /\ Ignore(Head(swapped))
    /\ swapped' = Tail(swapped)
    /\ UNCHANGED waiting

EndSwapped ==
    /\ phase = "swapped"
    /\ phase' = "waiting"
    /\ UNCHANGED <<requestVars, queueVars, finished_ids, stepVars, steps, workerVars, lost, raised>>

\* _schedule_prefills, one group.
SchedulePrefill ==
    /\ phase = "waiting"
    /\ waiting # <<>>
    /\ LET r == Head(waiting)
           tokens == get_num_new_tokens(r)
       IN  /\ tokens # 0
           /\ can_schedule(r, tokens)
           /\ Schedule(r, tokens, "new")
    /\ waiting' = Tail(waiting)
    /\ UNCHANGED <<requestVars, running, swapped, finished_ids, phase, steps, workerVars,
                   lost, raised>>

IgnoreWaiting ==
    /\ phase = "waiting"
    /\ waiting # <<>>
    /\ Ignore(Head(waiting))
    /\ waiting' = Tail(waiting)
    /\ UNCHANGED swapped

-----------------------------------------------------------------------------
\* The end of the step: the queues, the batch and the finished ids.

\* The running sequences of a group, in the order of the group.
pairs_of(r) == Keep([s \in Seqs |-> <<r, s>>], {r} \X unfinished[r])

request_ids_to_seq_ids == FlattenSeq([i \in DOMAIN Scheduled |-> pairs_of(Scheduled[i])])

holds_row(r) == \E s \in Seqs : indices[<<r, s>>] # NoRow

\* A step that only swaps out reaches the worker, which returns before the model
\* runs: the finished ids sent with it are lost.
EndSchedule ==
    /\ phase = "waiting"
    /\ running' = running \o Requests("in_decode") \o Requests("in_prefill") \o Requests("decode")
                    \o Requests("prefill") \o Requests("new")
    /\ waiting' = Reverse(Requests("preempted")) \o waiting
    /\ swapped' = swapped \o Requests("swapped_out")
    /\ IF Scheduled = <<>>
       THEN /\ phase' = "idle"
            /\ IF groups["swapped_out"] = <<>>
               THEN UNCHANGED <<finished_ids, lost>>
               ELSE /\ finished_ids' = {}
                    /\ lost' = lost \cup finished_ids
            /\ UNCHANGED <<delivered, batch>>
       ELSE /\ phase' = "release"
            /\ finished_ids' = {}
            /\ delivered' = finished_ids
            /\ batch' = request_ids_to_seq_ids
            /\ UNCHANGED lost
    /\ UNCHANGED <<requestVars, stepVars, steps, assigned, indices, row, fed, raised>>

-----------------------------------------------------------------------------
\* The worker: MambaCacheManager.

\* _release_finished_requests
ReleaseFinishedRequests ==
    /\ phase = "release"
    /\ LET released == {p \in Pair : p[1] \in delivered} IN
         /\ row' = [i \in Row |-> IF \E p \in released : indices[p] = i THEN <<>> ELSE row[i]]
         /\ indices' = [p \in Pair |-> IF p \in released THEN NoRow ELSE indices[p]]
         /\ fed' = [p \in Pair |-> IF p \in released THEN <<>> ELSE fed[p]]
    /\ assigned' = 0
    /\ phase' = "assign"
    /\ UNCHANGED <<requestVars, queueVars, finished_ids, stepVars, steps, delivered, batch, lost,
                   raised>>

occupied == {indices[p] : p \in Pair} \ {NoRow}

\* _first_free_index_in_mamba_cache raises when there is none.
free_rows == Row \ occupied
first_free_index == Min(free_rows)

\* _move_out_if_already_occupied: the cache and the mapping after it.
moved_row(dest) ==
    IF dest \in occupied THEN [row EXCEPT ![first_free_index] = row[dest]] ELSE row

moved_indices(dest) ==
    IF dest \in occupied
    THEN [p \in Pair |-> IF indices[p] = dest THEN first_free_index ELSE indices[p]]
    ELSE indices

\* The row of the first sequence of a request, which every sibling starts from.
first_index(mapping, r) == mapping[<<r, 1>>]

\* _copy_mamba_cache of the first sibling into the destination.
row_with_sibling(r, dest) ==
    [moved_row(dest) EXCEPT ![dest] = moved_row(dest)[first_index(moved_indices(dest), r)]]

\* Mutant: only the mapping of the sequence itself is updated.
swapped_indices_one_way(from, to) ==
    [p \in Pair |-> IF indices[p] = from THEN to ELSE indices[p]]

\* _swap_pair_indices_and_mappings
swapped_row(from, to) == [row EXCEPT ![from] = row[to], ![to] = row[from]]
swapped_indices(from, to) ==
    [p \in Pair |-> CASE indices[p] = from -> to
                      [] indices[p] = to -> from
                      [] OTHER -> indices[p]]

\* The next entry of the batch and the row it must sit in.
current == batch[assigned + 1]
destination == assigned

\* Assigning a row raises when the batch is longer than the cache, or when the
\* occupant of the destination has nowhere to go.
assign_raises ==
    IF destination \notin Row THEN "index_error"
    ELSE IF indices[current] = NoRow /\ destination \in occupied /\ free_rows = {}
    THEN "out_of_rows"
    ELSE "no"

\* One iteration of _prepare_current_run_mamba_cache.
Assigning ==
    /\ phase = "assign"
    /\ assigned < Len(batch)
    /\ assigned' = assigned + 1
    /\ UNCHANGED <<requestVars, queueVars, finished_ids, stepVars, steps, delivered, batch, fed, lost>>

AssignRaises ==
    /\ Assigning
    /\ current[1] \notin delivered
    /\ assign_raises # "no"
    /\ phase' = "stopped" /\ raised' = assign_raises
    /\ UNCHANGED <<indices, row>>

Assigns ==
    /\ Assigning
    /\ current[1] \notin delivered
    /\ assign_raises = "no"
    /\ UNCHANGED <<phase, raised>>

\* A new request: zero the row and map it.
AssignNewRequest ==
    /\ Assigns
    /\ ~holds_row(current[1])
    /\ row' = [moved_row(destination) EXCEPT ![destination] = <<>>]
    /\ indices' = [moved_indices(destination) EXCEPT ![current] = destination]

\* A new sequence of a request: copy the state of its first sequence.
AssignSibling ==
    /\ Assigns
    /\ holds_row(current[1])
    /\ indices[current] = NoRow
    /\ row' = row_with_sibling(current[1], destination)
    /\ indices' = [moved_indices(destination) EXCEPT ![current] = destination]

\* A known sequence: swap it with the occupant of its destination.  A request that is
\* finished already is skipped.
AssignKnown ==
    /\ Assigning
    /\ IF current[1] \in delivered
       THEN UNCHANGED <<row, indices>>
       ELSE /\ assign_raises = "no"
            /\ indices[current] # NoRow
            /\ row' = swapped_row(indices[current], destination)
            /\ indices' = swapped_indices(indices[current], destination)
    /\ UNCHANGED <<phase, raised>>

\* Rows of the batch that hold a sequence which is not in it.
strangers ==
    {i \in occupied : i < Len(batch) /\ batch[i + 1][1] \in delivered}

\* _clean_up_first_bs_blocks: _swap_indices, the method it calls to move a row out,
\* does not exist.
CleanUp ==
    /\ phase = "assign"
    /\ assigned = Len(batch)
    /\ IF strangers = {}
       THEN phase' = "forward" /\ UNCHANGED raised
       ELSE /\ phase' = "stopped"
            /\ raised' = IF free_rows \ (0 .. Len(batch) - 1) = {}
                         THEN "out_of_rows" ELSE "swap_indices"
    /\ UNCHANGED <<requestVars, queueVars, finished_ids, stepVars, steps, workerVars, lost>>

\* The model updates the first rows of the cache, one for each sequence of the batch.
Forward ==
    /\ phase = "forward"
    /\ row' = [i \in Row |-> IF i < Len(batch) THEN Append(row[i], batch[i + 1]) ELSE row[i]]
    /\ fed' = [p \in Pair |-> IF p \in ToSet(batch) THEN Append(fed[p], p) ELSE fed[p]]
    /\ phase' = "outputs"
    /\ UNCHANGED <<requestVars, queueVars, finished_ids, stepVars, steps, delivered, batch,
                   assigned, indices, lost, raised>>

-----------------------------------------------------------------------------
\* Output processing.

\* The prompt tokens of r that the step has computed.
chunk_of(r) ==
    IF IsPrefill(r) /\ r \in ToSet(Scheduled)
    THEN (CHOOSE g \in UNION {ToSet(groups[k]) : k \in RunKind} : g.req = r).chunk
    ELSE 0

\* Requests that got tokens: decodes, and prefills that are complete.
sampled == {r \in ToSet(Scheduled) : need[r] = chunk_of(r)}
prefilled == {r \in sampled : IsPrefill(r)}

\* Mutant: one child too many.
children_off_by_one(r) == IF r \in prefilled THEN 2 .. n[r] + 1 ELSE {}

\* The sequences forked from the only one of a request whose prefill is complete.
children(r) == IF r \in prefilled THEN 2 .. n[r] ELSE {}

\* _process_model_outputs: fork, stop, and free the requests that are finished.
ProcessOutputs ==
    /\ phase = "outputs"
    /\ \E stop \in [sampled -> SUBSET Seqs] :
         /\ \A r \in sampled : stop[r] \subseteq unfinished[r] \cup children(r)
         /\ unfinished' = [r \in Request |->
                IF r \in sampled THEN (unfinished[r] \cup children(r)) \ stop[r]
                ELSE unfinished[r]]
    /\ num_seqs' = [r \in Request |-> num_seqs[r] + Cardinality(children(r))]
    /\ need' = [r \in Request |-> need[r] - chunk_of(r)]
    /\ fed' = [p \in Pair |-> IF p[2] \in children(p[1])
                              THEN fed[<<p[1], 1>>] ELSE fed[p]]
    /\ LET done == {r \in sampled : unfinished'[r] = {}} IN
         /\ running' = Without(running, done)
         /\ finished_ids' = finished_ids \cup done
    /\ phase' = "idle"
    /\ UNCHANGED <<n, waiting, swapped, stepVars, steps, delivered, batch, assigned, indices, row,
                   lost, raised>>

Next ==
    \/ \E r \in Request : AddSeqGroup(r) \/ AbortSeqGroup(r)
    \/ StartStep
    \/ ScheduleRunning \/ PreemptByRecompute \/ PreemptBySwap \/ EndRunning
    \/ SwapIn \/ IgnoreSwapped \/ EndSwapped
    \/ SchedulePrefill \/ IgnoreWaiting \/ EndSchedule
    \/ ReleaseFinishedRequests
    \/ AssignRaises \/ AssignNewRequest \/ AssignSibling \/ AssignKnown
    \/ CleanUp \/ Forward
    \/ ProcessOutputs

Spec == Init /\ [][Next]_vars

-----------------------------------------------------------------------------
\* Properties.

\* The variables have the values the code gives them.
TypeOK ==
    /\ n \in [Request -> 0 .. MaxN]
    /\ need \in [Request -> 0 .. MaxPrompt]
    /\ num_seqs \in [Request -> 0 .. MaxN]
    /\ unfinished \in [Request -> SUBSET Seqs]
    /\ \A r \in Request : unfinished[r] \subseteq 1 .. num_seqs[r]
    /\ {waiting, running, swapped} \subseteq Seq(Request)
    /\ finished_ids \subseteq Request /\ delivered \subseteq Request /\ lost \subseteq Request
    /\ groups \in [Kind -> Seq([req : Request, chunk : Nat])]
    /\ num_batched_tokens \in Nat /\ num_curr_seqs \in Nat
    /\ phase \in Phase /\ steps \in 0 .. MaxSteps
    /\ batch \in Seq(Pair) /\ assigned \in Nat
    /\ indices \in [Pair -> Row \cup {NoRow}]
    /\ row \in [Row -> Seq(Pair)] /\ fed \in [Pair -> Seq(Pair)]
    /\ raised \in {"no", "over_budget", "over_seats", "index_error", "out_of_rows", "swap_indices"}

\* However the rows are moved, swapped and copied between steps, the row of a
\* sequence holds exactly what the model was fed for that sequence and, before the
\* fork, for the sequence it was forked from.
StateFollowsSequence ==
    \A p \in Pair : indices[p] # NoRow => row[indices[p]] = fed[p]

\* A row is mapped only for a request that some queue or the current step still
\* holds, or whose id is on its way to the worker: rows do not leak, except when the
\* scheduler drops a request or sends its id with a step that runs no model.
MappedIsLive ==
    \A p \in Pair : indices[p] # NoRow =>
        p[1] \in ToSet(waiting \o running \o swapped) \cup (UNION {ToSet(Requests(k)) : k \in Kind})
                   \cup finished_ids \cup lost
                   \cup (IF phase = "release" THEN delivered ELSE {})

\* The rows suffice for every batch that passes the assertions of the scheduler: the
\* batch never exceeds the cache, a free row is missing only when a sequence outside
\* the batch holds one, and the clean-up after the assignment has nothing to move, so
\* that the method it calls, which does not exist, is not called.
RowsSufficeForBatch ==
    /\ raised \notin {"index_error", "swap_indices"}
    /\ raised = "out_of_rows" => \E p \in Pair : indices[p] # NoRow /\ p \notin ToSet(batch)

====
