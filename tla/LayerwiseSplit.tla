--------------------------- MODULE LayerwiseSplit ---------------------------
(***************************************************************************)
(* Layer-wise split of the KV cache over the tensor-parallel ranks         *)
(* (src/core): the master computes how the KV heads of each layer are      *)
(* spread, estimates the memory of every rank, and the workers allocate    *)
(* their shards.                                                           *)
(*                                                                         *)
(* One step is one iteration of the layout loop, the estimate, or one      *)
(* layer of one worker's allocation.  The workers run at the same time.    *)
(* A layer has at least one KV head: with none the code divides by zero    *)
(* (mapping_ilu.cpp:84).                                                   *)
(***************************************************************************)
EXTENDS Integers, Sequences, FiniteSets, FiniteSetsExt, Functions

CONSTANTS
    NumLayers,
    world_size,
    HeadCounts,        \* KV heads a layer may have
    Builds,            \* "ilu", "mlu", "npu" or "cuda": the USE_... macro of the build
    Dtypes,            \* torch::ScalarType values the cache may be created with
    head_dim,          \* of the estimate and of the key cache's shape
    ValueDims,         \* head dimensions of the value cache's shape, 0 for no such shape
    WarpSize,          \* ilu_hw::kWarpSize
    BlockTokens,       \* n_blocks * block_size
    HbmPerCard         \* bytes a card has for the KV cache

ASSUME LayerwiseAssumption ==
    /\ NumLayers \in Nat \ {0} /\ world_size \in Nat \ {0}
    /\ HeadCounts \subseteq Nat \ {0}
    /\ Builds \subseteq {"ilu", "mlu", "npu", "cuda"}
    /\ Dtypes \subseteq 0 .. 7 \cup {11, 15}
    /\ head_dim \in Nat \ {0} /\ ValueDims \subseteq Nat /\ WarpSize \in Nat \ {0}
    /\ BlockTokens \in Nat \ {0} /\ HbmPerCard \in Nat

Rank == 0 .. world_size - 1
Layer == 1 .. NumLayers

VARIABLES
    enabled,           \* FLAGS_enable_layerwise_split
    build,
    dtype,             \* dtype_enum of the estimate, create_options.dtype() of the workers
    value_dim,         \* value_cache_shape()[3], 0 without has_value_cache_shape()
    per_layer_heads,   \* Layer -> KV heads
    specs,             \* sequence of LayerShardSpec of the layers done
    rr_offset,
    estimate,          \* Rank -> bytes, per_rank_bytes of the estimate
    phase,             \* "layout", "workers" or "uniform"
    kv_caches,         \* Rank -> sequence of heads allocated, 0 for an empty placeholder
    worker             \* Rank -> "allocating", "verified" or "failed"

inputVars == <<enabled, build, dtype, value_dim, per_layer_heads>>
layoutVars == <<specs, rr_offset>>
vars == <<inputVars, layoutVars, estimate, phase, kv_caches, worker>>

----------------------------------------------------------------------------
(* LayerShardSpec and LayerwiseSplitLayout *)

LayerShardSpec == [assigned_ranks : Seq(Rank), heads_per_rank : Seq(Nat)]

total_heads(spec) == SumFunction(spec.heads_per_rank)

is_valid(spec) ==
    /\ spec.assigned_ranks # <<>>
    /\ Len(spec.assigned_ranks) = Len(spec.heads_per_rank)
    /\ \A i \in DOMAIN spec.heads_per_rank : spec.heads_per_rank[i] > 0

slots(spec, rank) == {i \in DOMAIN spec.assigned_ranks : spec.assigned_ranks[i] = rank}

rank_owns_layer(rank, l) == slots(specs[l], rank) # {}

\* The heads of the first entry of the rank.
heads_for_rank(rank, l) ==
    IF rank_owns_layer(rank, l) THEN specs[l].heads_per_rank[Min(slots(specs[l], rank))] ELSE 0

----------------------------------------------------------------------------
(* compute_ilu_layerwise_layout *)

\* heads split over n ranks, one more on the first heads % n of them.
even_split(heads, n) == [i \in 1 .. n |-> heads \div n + (IF i - 1 < heads % n THEN 1 ELSE 0)]

dense_spec(heads) ==
    [assigned_ranks |-> [i \in 1 .. world_size |-> i - 1],
     heads_per_rank |-> even_split(heads, world_size)]

\* Mutant: the ranks start after the offset and are not wrapped.
moe_spec_unwrapped(heads, offset) ==
    [assigned_ranks |-> [i \in 1 .. heads |-> Min({offset + i - 1, world_size - 1})],
     heads_per_rank |-> even_split(heads, heads)]

moe_spec(heads, offset) ==
    [assigned_ranks |-> [i \in 1 .. heads |-> (offset + i - 1) % world_size],
     heads_per_rank |-> even_split(heads, heads)]

\* Mutants: the offset moves on by one rank, however many the layer took; it is
\* not wrapped.
next_offset_by_one(heads, offset) == (offset + 1) % world_size
next_offset_unwrapped(heads, offset) == offset + heads

next_offset(heads, offset) == (offset + heads) % world_size

Init ==
    /\ enabled \in BOOLEAN /\ build \in Builds /\ dtype \in Dtypes /\ value_dim \in ValueDims
    /\ \E dense, moe \in HeadCounts, first_moe_layer \in 0 .. NumLayers :
         per_layer_heads = [l \in Layer |-> IF l <= first_moe_layer THEN dense ELSE moe]
    /\ specs = <<>> /\ rr_offset = 0
    /\ estimate = [r \in Rank |-> 0]
    /\ phase = "layout"
    /\ kv_caches = [r \in Rank |-> <<>>]
    /\ worker = [r \in Rank |-> "allocating"]

\* The flag is off, or the build has no layout: uniform sharding.
FallBack ==
    /\ phase = "layout"
    /\ ~enabled \/ build = "npu"
    /\ phase' = "uniform"
    /\ UNCHANGED <<inputVars, layoutVars, estimate, kv_caches, worker>>

AssignLayer ==
    /\ phase = "layout" /\ enabled /\ build # "npu"
    /\ Len(specs) < NumLayers
    /\ LET heads == per_layer_heads[Len(specs) + 1]
       IN  IF heads >= world_size
           THEN /\ specs' = Append(specs, dense_spec(heads))
                /\ UNCHANGED rr_offset
           ELSE /\ specs' = Append(specs, moe_spec(heads, rr_offset))
                /\ rr_offset' = next_offset(heads, rr_offset)
    /\ UNCHANGED <<inputVars, estimate, phase, kv_caches, worker>>

----------------------------------------------------------------------------
(* estimate_layerwise_kv_memory *)

align_up(val, align) == ((val + align - 1) \div align) * align

\* The estimator's own table of ScalarType sizes.
dtype_bytes(d) == CASE d \in {5, 15} -> 2 [] d = 6 -> 4 [] d = 2 -> 1 [] OTHER -> 2

\* Mutant: the estimate leaves the padding out.
estimated_head_bytes_unpadded == 2 * BlockTokens * head_dim * dtype_bytes(dtype)

\* The estimator pads head_dim under USE_ILU, and counts a key and a value of it.
padded_head_dim == IF build = "ilu" THEN align_up(head_dim, WarpSize) ELSE head_dim

estimated_head_bytes == 2 * BlockTokens * padded_head_dim * dtype_bytes(dtype)

\* Every entry of the rank in every layer.
per_rank_bytes(r) ==
    LET entry_bytes(l) == [i \in DOMAIN specs[l].heads_per_rank |->
                             specs[l].heads_per_rank[i] * estimated_head_bytes]
    IN  SumFunction([l \in Layer |-> SumFunctionOnSet(entry_bytes(l), slots(specs[l], r))])

\* validate() passes and the master estimates.
Estimate ==
    /\ phase = "layout" /\ Len(specs) = NumLayers
    /\ \A l \in Layer : is_valid(specs[l])
    /\ estimate' = [r \in Rank |-> per_rank_bytes(r)]
    /\ phase' = "workers"
    /\ UNCHANGED <<inputVars, layoutVars, kv_caches, worker>>

----------------------------------------------------------------------------
(* allocate_kv_caches_layerwise, on every worker *)

\* Bytes of an element of a tensor: Byte, Char and Bool; Short, Half and BFloat16;
\* Int and Float; Long and Double.
element_size(d) ==
    CASE d \in {0, 1, 11} -> 1 [] d \in {2, 5, 15} -> 2 [] d \in {3, 6} -> 4 [] d \in {4, 7} -> 8

\* The allocator pads each head dimension under USE_ILU or USE_MLU.
padded_dim(dim) == IF build \in {"ilu", "mlu"} THEN align_up(dim, WarpSize) ELSE dim

\* A key tensor, and a value tensor if the shape has one.
allocated_head_bytes ==
    BlockTokens * (padded_dim(head_dim) + (IF value_dim = 0 THEN 0 ELSE padded_dim(value_dim)))
      * element_size(dtype)

used(r) == SumFunction([l \in DOMAIN kv_caches[r] |-> kv_caches[r][l] * allocated_head_bytes])

\* The next layer of worker r; torch::zeros throws when the card is full, and
\* the worker reports the failure with the layers so far still allocated.
AllocateLayer(r) ==
    /\ phase = "workers" /\ worker[r] = "allocating"
    /\ Len(kv_caches[r]) < NumLayers
    /\ LET heads == heads_for_rank(r, Len(kv_caches[r]) + 1)
       IN  IF used(r) + heads * allocated_head_bytes <= HbmPerCard
           THEN /\ kv_caches' = [kv_caches EXCEPT ![r] = Append(@, heads)]
                /\ UNCHANGED worker
           ELSE /\ worker' = [worker EXCEPT ![r] = "failed"]
                /\ UNCHANGED kv_caches
    /\ UNCHANGED <<inputVars, layoutVars, estimate, phase>>

\* worker_allocate_layerwise_kv_cache checks what was allocated.
Verify(r) ==
    /\ phase = "workers" /\ worker[r] = "allocating"
    /\ Len(kv_caches[r]) = NumLayers
    /\ worker' = [worker EXCEPT ![r] =
                    IF \A l \in Layer : rank_owns_layer(r, l) <=> (kv_caches[r][l] # 0)
                    THEN "verified" ELSE "failed"]
    /\ UNCHANGED <<inputVars, layoutVars, estimate, phase, kv_caches>>

Started ==
    \/ phase = "uniform"
    \/ phase = "workers" /\ \A r \in Rank : worker[r] # "allocating"

Next ==
    \/ FallBack \/ AssignLayer \/ Estimate
    \/ \E r \in Rank : AllocateLayer(r) \/ Verify(r)
    \/ Started /\ UNCHANGED vars

Spec == Init /\ [][Next]_vars

----------------------------------------------------------------------------
(* Properties *)

\* The variables have the types their declarations say.
TypeOK ==
    /\ enabled \in BOOLEAN /\ build \in Builds /\ dtype \in Dtypes /\ value_dim \in ValueDims
    /\ per_layer_heads \in [Layer -> HeadCounts]
    /\ specs \in Seq(LayerShardSpec) /\ Len(specs) <= NumLayers
    /\ rr_offset \in Rank
    /\ estimate \in [Rank -> Nat]
    /\ phase \in {"layout", "workers", "uniform"}
    /\ kv_caches \in [Rank -> Seq(Nat)]
    /\ worker \in [Rank -> {"allocating", "verified", "failed"}]

\* Every KV head of a layer has exactly one place: the shards of the layer add
\* up to its heads, no rank is listed twice, and the specification is one that
\* validate() accepts.
HeadsArePlacedOnce ==
    \A l \in DOMAIN specs :
        /\ is_valid(specs[l])
        /\ total_heads(specs[l]) = per_layer_heads[l]
        /\ \A r \in Rank : Cardinality(slots(specs[l], r)) <= 1

\* The layers with fewer heads than ranks are spread evenly: after any number
\* of layers no rank has two more of them than another, whatever the number of
\* heads each took.
SmallLayersAreBalanced ==
    LET small == {l \in DOMAIN specs : per_layer_heads[l] < world_size}
        load(r) == Cardinality({l \in small : rank_owns_layer(r, l)})
    IN  \A r, s \in Rank : load(r) <= load(s) + 1

\* When the estimate is enough: no element is larger than the estimator's table
\* says, a value head no larger than a key head, and padding it does not know
\* of (MLU) adds nothing ...
EstimateCoversShape ==
    /\ element_size(dtype) <= dtype_bytes(dtype)
    /\ value_dim <= head_dim
    /\ build = "mlu" => head_dim % WarpSize = 0

\* ... when it is exact ...
EstimateFitsShape ==
    /\ element_size(dtype) = dtype_bytes(dtype)
    /\ value_dim = head_dim
    /\ build = "mlu" => head_dim % WarpSize = 0

\* ... and when it is too low: the table has a smaller size for the dtype (Short)
\* or does not list it (Int, Long, Double), or a value head, padded, is larger
\* than the estimator's head.
EstimateFallsShort ==
    /\ element_size(dtype) >= dtype_bytes(dtype) /\ value_dim >= head_dim
    /\ element_size(dtype) > dtype_bytes(dtype) \/ padded_dim(value_dim) > padded_head_dim

\* The estimate follows the allocation, though master and workers compute them
\* apart: where it covers the shape no worker ever has more than its rank's
\* estimate, a worker that is done has exactly its estimate where the sizes are
\* the same, and more than it, against "otherwise it under-reports", where the
\* sizes fall short.
EstimateCoversAllocation ==
    phase = "workers" => \A r \in Rank :
        /\ EstimateCoversShape => used(r) <= estimate[r]
        /\ worker[r] = "verified" /\ EstimateFitsShape => used(r) = estimate[r]
        /\ worker[r] = "verified" /\ EstimateFallsShort /\ used(r) > 0 => used(r) > estimate[r]
=============================================================================
