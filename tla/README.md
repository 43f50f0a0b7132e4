# A verification of the BI-V100 serving stack's caches and scheduler

The repository is a patched vLLM 0.6.3 that serves Qwen3.5/3.6 (GatedDeltaNet and
attention layers, mixture of experts) on BI-V100 cards. Most of its two million
lines are vendored. Its own logic is the code that decides *which* cached values a
request may use and *when* they move: a scheduler with chunked prefill, a prefix
cache in GPU memory backed by a content-addressed tier in CPU memory, a cache of
recurrent states beside it, and the rows that hold the recurrent state of every
running sequence. A mistake there does not crash: it answers a request with
another prompt's values. That code is what these modules model first. The
repository's own concurrent native code is modelled beside it: the caching device
allocator that is preloaded under every `cudaMalloc`, the C++ layer-wise split of the
KV cache, and the kernels that group tokens by expert.

The deployment considered is `computility-run.yaml`: `--max-num-seqs 2`,
`--max-num-batched-tokens 4096`, chunked prefill, prefix caching, eager mode,
`BI100_GDN_CACHE_POLICY=admission64`, `BI100_GDN_RESTORE_MODE=hybrid64`.

## Inventory

| Component | Source | State | Operations | What makes it correct |
|---|---|---|---|---|
| CPU KV tier | `vllm_overrides/core/block/cpu_kv_content_cache.py` | index hash/slot, LRU order, ready and pending slots, pins, transfers of the step, deferred stores | `begin_step`, `claim_load`, `stage_load`, `cancel_load`, `stage_store`, `drain_step` | the index is a bijection; a slot is served only when it holds its content; a pinned slot is not replaced; no method raises |
| GPU prefix cache | `block/prefix_caching_block.py`, `block/cpu_gpu_block_allocator.py`, `vllm/core/block/naive_block.py`, `common.py` | cached blocks, reference counts, free ids, touched and computed marks, pending copies | allocate, promote, fork, copy on write, free, evict, restore | every block is free, in use or cached; one block per content; a block holds the content it is hit for |
| Worker transfers | `patch_worker_cache_transfer_order.py` | GPU and CPU memory | D2H, H2D, forward | a victim is saved before its block is reused |
| Evictor | `core/evictor_v2.py` | free table, frequency per content, lazy heap | `add`, `update`, `remove`, `evict` | gives up a block of least priority; terminates; the heap stays bounded |
| GDN prefix policy | `qwen3_6_scripts/gdn_prefix.py` | LRU of state keys | select, admit, capture points, caps | worker and scheduler agree on which states exist |
| Scheduler | `qwen3_6_scripts/scheduler.py` | waiting, running, swapped, budgets, finished ids, restore keys and capture targets | `schedule`, `abort_seq_group`, `free_finished_seq_groups` | budgets hold, every prefill completes |
| Model state handling | `qwen3_5.py`, `patch_model_runner.py`, `vllm/worker/model_runner.py` | saved states | restore, segment, capture | a state is that of exactly the tokens it stands for |
| Mamba cache rows | `qwen3_6_scripts/mamba_cache.py` | rows, mapping of sequences to rows | release, assign, move, swap, copy, clean up | a sequence keeps its own state; rows do not leak; a free row is found |
| Output processing | `vllm/engine/output_processor/single_step.py` | sequences of a group | fork, stop, free | samples share and release the blocks and rows of their parent |
| Block manager, block table | `core/block_manager_v2.py`, `block/block_table.py` | tables, full slots, watermark | `can_allocate`, `allocate`, `can_append_slots`, `append_slots`, `fork`, `free` | a promised allocation succeeds; a table leads to its own tokens |
| Preloaded device allocator | `cccl_preload/cccl_allocator_preload.cu`, `cub/util_allocator.cuh` | cached and live blocks, balances, ready events | `cudaMalloc`, `cudaFree`, reclaim, `FreeAllCached`, `SetMaxCachedBytes` | it is a heap: memory has one holder and is large enough; nothing is lost; the cache keeps its limit; what is reused is idle |
| Layer-wise split KV | `core/` (C++) | heads per layer and rank, estimate, allocated shards | layout, estimate, allocate, verify | every head has one place, load is even, the estimate covers the allocation |
| MoE dispatch kernels | `ex_engine/csrc/moe/moe_align_sum_kernels.cu`, `ex_engine/xllm_kernels/cuda/moe/moe_compute_index.cu`, `ex_engine/moe/moe_align_block_size.py` | counts, offsets, slots, block ids | fill, count, scan, mark, place | every element has one slot in a block of its expert, whatever the order of the threads |
| Chat serving, tool parser, reasoning parser | `serving_chat.py`, `protocol.py`, `qwen3coder_tool_parser.py`, `reasoning/` | stream position | parse, format | not modelled |
| Numerical kernels, build and patch scripts, vendored code | `*.cu`, `build_*`, `probe_*`, `patch_*`, `cccl_upstream/`, ... | | | not modelled |

How they interact. `Scheduler.schedule()` runs a whole step synchronously: it begins
a step of the CPU tier, walks its queues calling the block manager (and through it
the allocator, the evictor and the CPU tier), drains the transfers, and builds one
metadata record per group with the GDN actions. The engine sends these and the list
of finished ids to the worker, which copies out, copies in, releases and assigns
rows, restores states, runs the model and captures states. Only then are outputs
processed and may requests be aborted. Nothing runs concurrently *inside* a step of
the scheduler; there the difficulty is in the order of its parts, in state the scheduler believes the
worker has, and in long sequences of steps with aborts, preemptions and evictions.
The native parts are concurrent: threads of the process meet in the device allocator,
whose sections are short and whose blocks may still be in use on a stream; the workers
of a split cache allocate side by side; and the threads of a dispatch kernel meet only
at its barriers. The hazards, each with its line, are in `PROJECT.json`.

## Modules

    CpuKvContentCache  <- KvTier <- KvTierProofs
                                 <- MCKvTier
    PriorityEvictor    <- FrequencyEvictor <- FrequencyEvictorProofs
                                           <- MCFrequencyEvictor
    Queues             <- GdnPrefix  <- GdnPrefixProofs
                                     <- MCGdnPrefix
                       <- MambaCache <- MambaCacheProofs
                                     <- MCMambaCache
    PrefixCachingAllocator <- MCPrefixAllocator
    DeviceHeap         <- CachingDeviceAllocator <- CachingDeviceAllocatorProofs
                                                 <- MCCachingAllocator
    LayerwiseSplit     <- LayerwiseSplitProofs
                       <- MCLayerwiseSplit
    MoeDispatch        <- MoeDispatchProofs
                       <- MCMoeDispatch
    LibraryLemmas      <- GdnPrefixProofs, MambaCacheProofs, LayerwiseSplitProofs,
                          CachingDeviceAllocatorProofs, MoeDispatchProofs

**CpuKvContentCache** gives the methods of the CPU index as operators on its state,
each with a `..._raises` companion that says when the method raises.

**KvTier** composes it with the allocator and the worker. A step is
`idle -> schedule -> drain -> execute`. Reference counts are abstracted to "held";
which unreferenced block the evictor picks is left open. `gpu_data` and `cpu_data`
say what the memory *really* holds, beside what the index believes. With
`Chunked`, a scheduled block may be left for a later step, as chunked prefill does.

**GdnPrefix** is chunked prefill with the recurrent-state cache. A prompt is a
sequence of block contents and the length of a partial block; a key is a prefix of
block contents (the digest chain identifies exactly that); a state is the prefix it
has absorbed, or `Garbage`: what a forward pass over the wrong state leaves, or what
`GatedDeltaNet.forward` leaves after a chunk shorter than its convolution's window
(`loses_tail`; the window is `ConvWindow`, at most a block). A request's own row keeps
that state, a capture inside the chunk does not (it is cut out of the tail and the chunk
together). The policy's functions are translated one by one; a step
schedules the running queue, then the waiting queue, then builds the metadata group
by group (each group admits and evicts keys), then the worker executes it.
`GdnCapacity` is the number of states the policies other than `off` keep (32 or 64 in
the code). **Queues** has the one thing both schedulers do to their queues that the
sequence modules lack: keeping the members of a list that meet a condition.

**FrequencyEvictor** is `FrequencyAwareEvictor`: entries of the heap are invalidated
by generation, re-pushed when their frequency is outdated, and compacted. Each
iteration of the loop in `evict` is an action. **PriorityEvictor** says what it
promises: `evict` removes a free block of least (frequency, last access, - tokens, id).
The mapping is the identity on the table and the frequencies; the heap is hidden.

**MambaCache** is `MambaCacheManager` under the chunked scheduler: queues in order,
tokens counted, preemption by recomputation and by swapping, parallel samples, aborts,
and the list of finished ids. A step collects groups in one list for each output of the
scheduler (new prompts, prefills, decodes, those swapped in, those preempted) and the two
counters of `SchedulingBudget`; at its end the lists become the batch and go back to the
queues in the order of the code. Where the code asserts that the step is within
`max_num_batched_tokens` and `max_num_seqs`, the model stops the engine with
`over_budget` or `over_seats`. Each iteration of the assignment loop is an action.
`row` records what was fed into each row and the ghost `fed` what was fed to each
sequence.

**PrefixCachingAllocator** is the allocator with its counts, under the block tables, the
block manager and the scheduling step that calls them. The allocator's methods are
operators from a pool to the pools it may become (the evictor may give any of its
blocks), so that a method that allocates several blocks can fail half-way. The hash
of a block is the tuple of tokens up to its end. Copies on write are collected while
the step is scheduled and run together before the forward pass, in no order among
themselves. `kv` says what every slot was really computed from.

**CachingDeviceAllocator** is cub's allocator as the preload uses it. What runs under
the mutex is one step and a call has a step for each stretch between two sections. A
stream is the queue of what has been submitted and has not run. **DeviceHeap** says
what `cudaMalloc` and `cudaFree` promise a program: a pointer has one holder until it
is given back and the memory behind it is as large as was asked for and stays.
`HeapSpec` maps its `extent` to the memory the runtime has reserved; cached blocks are
what the abstract heap does not see.

**LayerwiseSplit** follows the master's layout loop, layer by layer, its estimate, and
the workers that allocate their shards at the same time and may run out of memory. The
two sides count bytes on their own, as the code does: the estimator with its table of
dtype sizes (`dtype_bytes`), its padding and two key heads (`estimated_head_bytes`), the
allocator with the tensor's element size, its own padding and the shape of the value
cache (`allocated_head_bytes`). The callers of `master_compute_layerwise_layout` and of the
allocator are not in the repository; the model gives both sides the same dtype, number
of tokens and key head.

**MoeDispatch** gives each kernel path as a program of stages, some behind a barrier.
A step is what one thread does without touching memory another may write: one loop
iteration, one atomic add, the store after it. Uninitialised memory holds `Garbage`.
The router's ids range over the experts and one past them on every path (and -1 for the
index). The kernels that check such an id skip it; the small one does not
(`CountPast`, `PlacePast`): it uses the cell of the next thread's row, where an addition
may be lost, or with an expert map the word after the map.

Definitions keep the names of the source; definitions named `..._<fault>` with a
comment "Mutant" are faulty variants used to show that a property can fail, and are
not part of any specification.

## Runs

| Run | Instance | Shows |
|---|---|---|
| `kv_tier` | 2 slots, 3 blocks, 4 contents | the index is consistent, no method raises, pinned slots keep their entry, computed blocks and ready slots hold their content, victims survive |
| `kv_tier_chunked` (violation) | the same with `Chunked` | a block is marked computed when it is scheduled, and an abort between two chunks leaves it so |
| `gdn` | 2 requests, 2 prompts, one sequence, capacity 2, the 12 pairs of a policy and a restore mode | one sequence at a time: states are those of their prefixes, except a finished prefill's after a short last chunk, nothing raises, every prefill completes |
| `gdn_shared` | two sequences at a time, preemption, capacity 1, all modes | worker and scheduler agree, captures end a forward pass and budgets hold, up to the step that raises |
| `gdn_preempt` (violation) | preemption by recomputation | the second prefill starts from the old recurrent state |
| `frequency_evictor` | 2 blocks, 2 contents, 4 calls | refinement of PriorityEvictor, bound of the heap, termination |
| `mamba_cache` | 3 requests of 1 or 2 samples, 3 seats (4 rows), 4 steps | sequences keep their states, rows are mapped only for live requests, a batch never exceeds the rows, only sequences outside it can exhaust them, and the clean-up never reaches the method it misses |
| `prefix_allocator` | 4 blocks of 2 tokens, a request of 2 samples and one of 1, 4 prompts | blocks are partitioned and counted, promised allocations succeed, tables and cache lead to the values of their own tokens |
| `caching_allocator` | 2 threads, 3 pointers, 2 streams, a size that fits a bin and one that does not | no memory is lost, balances are exact, the cache keeps its limit, refinement of DeviceHeap |
| `caching_streams` (violation) | the same, the caller's stream is always the default one | a block still in use on another stream is handed out |
| `layerwise_split` | 4 layers, 3 ranks, head counts below and above the ranks, all builds, four dtypes, no, equal and larger value heads | heads are placed once, small layers are spread evenly, the estimate covers every worker's allocation where the sizes agree and falls short where they do not |
| `moe_dispatch` | 3 elements, 2 experts, blocks of 2, six paths | under every interleaving each element has one slot in a block of its expert and no store leaves its buffer (small path: with ids below `num_experts`), and the index has an inverse |

Why the bounds are enough. In `kv_tier` there are more contents than blocks and more
blocks than slots, so eviction, deduplication, deferral and replacement all occur,
also in one step. In the GDN runs a kernel chunk is two blocks and a step four tokens:
prompts end on and inside a block, need one to three steps, and branch after one or
two blocks; capacity 1 or 2 forces evictions. Two blocks with a shared content and
four generations give every order of re-push, stale entry and compaction (the slack is
reached because the heap can outgrow the two free blocks). In `mamba_cache` four steps
let a request be prefilled, preempted or swapped out, overtaken and brought back; the
token budget of three blocks makes a prefill continue and a running request go without
tokens. In `prefix_allocator` prompts end inside and at the end of a block and share
their first block, samples part in a shared block, and four blocks are too few for
both requests, so promotion onto a cached block, copies, evictions and preemptions
occur; the longest prompt can never be allocated. In `caching_allocator` two blocks of
a bin fill the device and one of them the cache, so a call misses, fails, reclaims and
retries while the other thread frees. In `moe_dispatch` up to three elements of an expert over blocks of two
give full, partial and empty blocks, and two or three threads to three elements
make loops that run once or twice. In `layerwise_split` the four dtypes are one the
estimator's table has right (15), one it has wrong (2), one it takes for larger (1) and
one it takes for smaller (7) than it is; the head dimension is not a multiple of the warp,
and the memory of a card is enough for some shapes and not for others. Symmetry is used only where no liveness is checked and the
permuted values are interchangeable.

`CHECK_DEADLOCK FALSE` is set where the system may stop: when the engine has stopped
with an exception (`gdn_shared`, `gdn_preempt`, `mamba_cache`, `prefix_allocator`) and
when the bound on calls or steps is used up (`frequency_evictor`, `mamba_cache`).

Fairness. `gdn` assumes weak fairness of the engine's own steps (the engine loop
runs while there is work) and strong fairness of each request's finish (a generation
ends at its token limit); arrivals, aborts and evictions are not fair.
`EvictReturns` assumes weak fairness of the iterations of a `while` loop that is running.

### What the violations say

* Chunked prefill and `mark_blocks_as_computed` do not fit together: the comment at
  `scheduler.py:1679` holds for whole prompts only.
* A preempted request keeps its row and its recurrent state. It is prefilled again
  from that state (`qwen3_5.py:1332` assumes zeros).
* The preload gives the allocator no stream. A block is tied to the default stream and
  can be reused as soon as the host frees it, which the comment above the search
  (`util_allocator.cuh:445`) means to prevent and the real `cudaFree`, which waits for
  the device, does prevent. Beside that, a block is in the cache before its ready event
  is recorded.

### Known deviations the passing runs state around

Some behaviours are visible in the models and are not asked about by a run of their own:

* Two prefills with GDN actions in one batch, or one beside a decode, raise in the worker
  (`patch_model_runner.py:247`) although the deployment has `--max-num-seqs 2`. `gdn_shared`
  checks up to the step that raises.
* A preempted request keeps its row but not its seat, so an admission in the same step
  can find no row (`mamba_cache.py:226`). `RowsSufficeForBatch` says who must then
  hold them.
* The assertions at the end of `_schedule_chunked_prefill` can fail. `over_budget`
  (`scheduler.py:1351`): a decoding group of several sequences is neither cut to the
  tokens nor compared with them. `over_seats` (`scheduler.py:1352`): a running group that
  gets no tokens in a step takes no seats in its budget, so new prompts are admitted into
  seats it needs as soon as it gets tokens again. With blocks of 3 tokens, 6 tokens and 5
  seats: two decodes of one sequence and one of two leave 2 tokens, a fourth request in the
  middle of its prefill gets none of them, a fifth is admitted, and two steps later six
  sequences are scheduled. `mamba_cache` and the proofs cover every step up to these stops.
* With two requests of two samples the source of a pending copy on write can be released
  by a promotion and become the target of another copy of the same step;
  `prefix_allocator` has one such request.
* The fill block of the LoRA alignment kernel may reset `total_tokens_post_pad` after the
  total was stored: the caller then reads 0, not the "total number of tokens after
  padding" of the documentation. `BlocksGroupByExpert` admits 0 on this path and no other
  wrong number; without that alternative TLC finds it violated, so no passing property
  decides this hazard.
* `can_append_slots` can refuse a continuing prefill too: an append of no tokens touches
  one block when the last one is partly filled (`block_manager_v2.py:297-310`).
  `MambaCache` refuses a group only when the head of the queue decodes (`slots_may_run_out`).
  A prefill preempted between two chunks is reached there too, since the group that gives
  way is the last of the queue and not the head.
* A prefill chunk shorter than the window of the convolution (`conv_kernel_size - 1`
  positions) leaves zeros where the tail of the previous chunk should be
  (`qwen3_5.py:1337-1342`), against the comment at 1331-1333. With steps cut to whole
  blocks only the last chunk of a prompt can be that short. The request then decodes from a
  state that is not its prompt's. `RequestStateMatchesProgress` admits this for such a prompt
  (`may_lose_tail`) once its prefill is done, and for nothing else: no prefill goes on from
  such a state, and none is saved (`SavedStateIsPrefixState`).
* Estimator and allocator disagree on bytes. The estimator takes ScalarType 2 for int8,
  which is Short, and every dtype it does not list for 2 bytes, so it under-reports Short,
  Int, Long and Double and over-reports the one-byte types; it counts two key heads, also
  when the value head is larger or absent; and it pads on ILU builds where the allocator
  pads on ILU and MLU builds. `EstimateCoversAllocation` says which shapes the estimate
  covers (`EstimateCoversShape`), when it is exact and when it falls short.
* The small alignment kernel trusts its ids. The host picks it by sizes alone (fewer than
  1024 ids, at most 64 experts), and the example in `moe_align_block_size.py:60-70` has ids
  1 to 4 with 4 experts. Such an element is counted in the next thread's row and stored
  behind the slots in use, perhaps behind the buffer; other elements' slots move with it.
  `TypeOK` (for the two buffers) and `BlocksGroupByExpert` therefore have the condition
  `IdsInRange`; without it TLC finds both violated, e.g. with an id 2 of 2 experts. Left
  out: ids larger than `num_experts`, that the stray addition reads before the next
  thread's zeroing, and that the word after the expert map may be an expert's number.
* Invalid ids leave entries of `src_dst` uninitialised in `moe_compute_index`;
  `IndexIsInverse` is about the routed elements.

## Proofs

Checked by TLAPS for every value of the constants; no assumption beyond those named
`ASSUME` in the modules (sizes are positive, `None` is not a value, ...).

**KvTierProofs.** `TypeCorrect` is inductive as it stands. The index properties are
not: that a load's slot is still resident depends on which slots are pinned and why,
on the phase of the step, and on the deferred stores being new to the maps. `Index`
adds `PhaseInv`, `PinInv`, `MapInv`, `DeferInv` and `FlightInv`; from it
(`IndexInvariant`) follow `IndexIsSound`, `HashesAreUnique`, `TransfersDoNotCollide`,
`NeverRaises` and the action property `PinningHolds`. `DataInv` says where the values of
each content are (in the block, in a slot, on their way, or not computed yet); with it
`ContentInvariant` holds for `Chunked = FALSE`, and from it `ReadySlotsAreSound`,
`VictimsAreSaved` and `ContentIsSound`. The hypothesis is needed: the run
`kv_tier_chunked` is the counterexample to the last.

**FrequencyEvictorProofs.** `EvictorInv`: each free block has an entry of its present
generation (`LiveEntries`), generations only grow, and such an entry describes its
block except that its frequency may be too low (`ValidEntryIsCurrent`). The last part
is why the least entry, once its frequency is found to be current, belongs to a block of
least priority: every other free block has an entry that is not above its present key.
`HeapImplementsPriority` concludes `Spec => AbstractSpec`. `HeapStaysBounded` adds finiteness and
counts the entries after a compaction.

**LibraryLemmas.** Both balances of the allocator, the heads of a layer and the tokens of
a step are sums over a set, and the queues of the schedulers are sequences that are
filtered, concatenated, flattened and reversed. The library states nothing about the
community modules' folds, so this module does: what a sum does when an element is added,
taken out or changed, and what the sequence operators return, with which members and
whether a member can occur twice, and the laws of quotients and products that rounding
to whole blocks needs. Where a proof needs induction over data it takes the
least counterexample (a set of natural numbers has a least element), which needs no
operator as a parameter.

**GdnPrefixProofs.** The pure functions come first: each boundary the policy computes is a
positive number of whole blocks inside the prompt (`FinalFacts`, `RestoreFacts`), the
fast-forward and the cut at a capture boundary leave a step that is not empty and within
its budget (`PlanFacts`, `CapFacts`), and `admit` gives up only keys older than those it
adds (`AdmitFacts`). `GdnInv` is the inductive invariant. `QueueInv` says that a request
is in one queue, that a waiting one has computed nothing and a running one something;
`BatchInv` what each group that is still to be sent, and each metadata record, promises
about its prompt, its restored prefix and its captures; `BudgetInv` that the real queries
of the records and what the remaining groups will ask for are together within
`num_batched_tokens`, which `QueriesWithinBudget` needs because a fast-forwarded group
counts for more tokens in its progress than in the budget; `IndexInv` that the policy's
order is total on the resident keys and that the index is the worker's states less the
evictions and plus the captures of the record under way. From it follow, for every mode,
capacity and number of sequences, `WorkerFollowsIndex`, `CapturesEndForwards`,
`QueriesWithinBudget` and `PlansNeverRaise` (the part of `NoStepRaises` that concerns the
scheduler).

That no saved state lacks the tail of its window is a matter of where steps end: a step
that ends at a whole block is at least a window long, and only the last step of a prompt
ends elsewhere (`EndLoss`); `StateInv` says what a request's row holds in between. What the states hold needs a hypothesis. `SavedStatesAreSound` and `StatesFollowProgress`
are for `MaxNumSeqs = 1` or without preemption: a preempted request keeps its recurrent
state, and `gdn_preempt` is the counterexample. With one sequence the exclusion of
preemption is itself proved (`OneAtATime`: a running request takes the first place and
the whole budget). `StepsNeverRaise` is for `MaxNumSeqs = 1` and `GdnCapacity >= 2`: with
two sequences two groups with GDN actions meet in a step and the worker raises (a known
deviation, above), and with room for one state a step's own capture would evict the state
it restores. Its strengthening `RestoreInv` says that the chosen state is the newest of
the index until it is copied, so the eviction that a step's capture causes takes another.

**CachingDeviceAllocatorProofs.** `MemoryIsAccounted` says who has each reserved pointer
(live, cached, or carried by one call between two sections) and what the balances are.
To be inductive it needs that a block's descriptor and the search key a call carries are
true of the memory behind them: the bytes subtracted when a block leaves are those added
when it came (`DescriptorsAreTrue`, `CallsAreTrue`). With `HeldIsLive`, that a pointer is
held exactly while its block is live and large enough, every section is a step of
`DeviceHeap` or a stutter (`AllocatorImplementsHeap`); a request is served with enough
memory because the key is the bin's size or, outside the bins, the request itself. The
provers know nothing of powers, so `PowerAssumption` states what the bins need of them
(they grow up to the width of `size_t`); TLC evaluates it.

**LayerwiseSplitProofs.** The layout deals the heads of small layers around a ring of
ranks and starts the next one where the last ended. `RingInv` says that the ranks before
the offset own one small layer more than those behind it, which gives `SmallLayersBalanced`. That the shares of a layer add up to its heads
(`HeadsPlacedOnce`) is a sum over the ranks whose shares differ by at most one.
`EstimateCovers` compares the two computations of a head's bytes, monotone in the element
size and the padded dimensions, and sums them over the layers; it holds on every build and
for every dtype and shape, each of its parts under the condition the property names.

**MambaCacheProofs.** `StateFollowsSequence` is not inductive: a swap keeps it only if no
two sequences share a row, a copy only if a sibling without a row has been fed what the
first sequence was, and that depends on the fork happening when the first sequence is
mapped. `MambaInv` therefore says of the queues and lists that every request is in one
place (`AllOnce`), of a step that the tokens and seats it has counted bound the running
sequences it has scheduled (`BudgetInv`, `SeatsInv`), of the batch that it is these
sequences, each once, with the ones assigned so far in the first rows (`BatchInv`), and
`RowsApart` and `ForkInv` of the mapping. The bound on the seats is what bounds the batch
by the rows of the cache (`RowsSuffice`): when the rows are used up, a counting argument
finds a row held by a sequence outside the batch. The lists of the step count as
places only while it is scheduled, since afterwards their requests are back in the
queues. `RowsDoNotLeak` follows from `LiveInv`, which is stated over places. A stopped
engine keeps the safety properties and nothing else.

**MoeDispatchProofs.** First the path of `moe_compute_index`, whose threads draw slots
from shared offsets. `IndexIsInverse` speaks only of the end; `IndexInv` says what holds
between the atomic addition of a thread and its two stores: the threads are within one
stage of each other because every stage waits for all (`InStep`), an offset is the first
slot of its expert plus the slots drawn (`OffsetsRight`), and the slots drawn, whether
still in a register or stored, are exactly those below the offset, one each
(`SlotsRight`). At the end all are stored, so the list has no gap and no duplicate, and a
store never hit another's slot because experts have disjoint ranges. That the slots fit
the buffers (`IndexTypes`) adds up the counts over the experts.

The three paths of `moe_align_block_size` share `AlignThreads` (a thread has begun a stage
only if every thread has met its gate, the last barrier before it, and from some gate on
the fill threads too), `AlignMemory`, `Marks` (the blocks between the first blocks of two
experts carry the first one's id once its thread has gone past the marking stage; the rest carry
some expert or none) and `Layout`: a slot that has been filled holds padding or a stored
element, every stored element is in one slot, and that is one of its `Slots`. Which
elements are stored and which slots are theirs is what the paths differ in. In the general
one the slots of an expert are those drawn so far, as many as elements drew one
(`GeneralOffsets`, `GeneralRanks`: a slot in a register is below the offset, drawn by no
other thread, and not yet written). In the small one an element has a home, computed from
its row: its expert's first slot plus the elements of the expert that earlier threads have,
and its own thread has before it (`Before`). `SmallCounts` says what the rows are before and
after the running sums, and `RowPlaced` how the placing threads move them on; of two
elements of an expert one is before the other, so their homes differ (`SmallHomesDiffer`).
All this is for ids below `num_experts`; for other ids `SmallTypes` keeps everything but
the two buffers within its type, which is what `TypeOK` then says. In the batched one the
home is the element's place in its batch. `MoeBlocks` (`BlocksGroupByExpert`) and
`MoeTypes` (`TypeOK`) then hold on every path; they assume of the constants what
`MoeAssumption` says: positive sizes, and Garbage unlike any element.

Only model-checked: the properties of PrefixCachingAllocator, whose invariant counts
references over the tables and has not been proved; `ReusableIsIdle`,
`ComputedBlockHoldsContent` with chunked prefill and the states of preempted requests,
which fail; and liveness (`PrefillCompletes`, `EvictReturns`), which is out of the
prover's reach.

## Not modelled

The non-chunked scheduling path, LoRA, priority scheduling, multi-step scheduling and
asynchronous output processing (eager mode disables it); the swap of request blocks
between devices; sliding windows, lookahead slots and cache namespaces of multimodal
requests; `LRUEvictor`; failures of CUDA event and device calls inside the allocator;
more than one card or enabled LoRA slot; the numerical layers and kernels (floating-point
results); text processing; build scripts. Nearly all of the repository's C and
C++ is vendored or numerical (`cccl_upstream/`, `upstream_ref/`, `ixformer_sdk/`,
`cat_files/`, attention and matrix kernels): headers of generated instruction wrappers,
templates and arithmetic without state of their own, which a state machine has nothing
to say about. In MambaCache, requests
with several samples that are preempted by recomputation once one sample is left are
left out (the scheduler asserts on them), as is a step that a group of several sequences
drives over its budget beyond the point where the assertion is bound to fail.

## Plan

1. CPU tier and allocator, with proofs: done.
2. GDN prefix states, with proofs of every safety property: done.
3. Frequency evictor with refinement and proofs: done.
4. Mamba cache rows, with proofs: done.
5. PrefixCachingAllocator with block tables and block manager: done. To prove:
   `BlocksArePartitioned`, which counts references over tables.
6. Caching device allocator with refinement and proofs: done.
7. Layer-wise split, with proofs: done.
8. MoE dispatch, with proofs of every safety property: done.

Runs stay few: a module of the plan replaces an older run where it asks the same
question (the scheduler module, `gdn_shared`).
