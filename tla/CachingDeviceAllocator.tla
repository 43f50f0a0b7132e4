----------------------- MODULE CachingDeviceAllocator -----------------------
(***************************************************************************)
(* The preloaded allocator: every cudaMalloc and cudaFree of the process   *)
(* goes to cub's CachingDeviceAllocator (util_allocator.cuh), which keeps  *)
(* freed blocks in bins and hands them out again                           *)
(* (cccl_allocator_preload.cu).                                            *)
(*                                                                         *)
(* Threads share one allocator and its mutex.  What runs under the mutex   *)
(* is one step; a call has a step for each stretch between two sections.   *)
(* The process uses one card, so the device ordinal is left out.  A stream *)
(* is the sequence of what has been submitted to it and has not run: work  *)
(* on a block, or the record of a block's ready_event.  Streams do not     *)
(* wait for each other (PyTorch creates its streams as non-blocking).      *)
(***************************************************************************)
EXTENDS Integers, Sequences, FiniteSets, FiniteSetsExt, Functions

CONSTANTS
    Thread,
    Ptr,               \* device pointers
    Bytes,             \* sizes a program asks for
    Stream,            \* streams work is launched on
    CallerStream,      \* streams passed as active_stream
    bin_growth, min_bin, max_bin,
    Limit,             \* values max_cached_bytes takes
    Capacity,          \* bytes of device memory
    SizeWidth,         \* bits of size_t
    MaxQueue,          \* bound: entries in a stream
    MaxForeign,        \* bound: pointers the preload does not see
    None

ASSUME AllocatorAssumption ==
    /\ IsFiniteSet(Ptr)
    /\ Bytes \subseteq Nat \ {0} /\ Limit \subseteq Nat /\ Limit # {}
    /\ bin_growth \in Nat \ {0, 1}
    /\ min_bin \in Nat /\ max_bin \in Nat /\ min_bin <= max_bin
    /\ Capacity \in Nat /\ SizeWidth \in Nat \ {0} /\ MaxQueue \in Nat /\ MaxForeign \in Nat
    /\ CallerStream \subseteq Stream
    /\ None \notin Ptr \cup Stream

\* The sizes of the bins are values of size_t, and so is every request: powers up
\* to its width grow and reach it.
ASSUME PowerAssumption ==
    /\ max_bin <= SizeWidth
    /\ \A i \in 0 .. SizeWidth : bin_growth ^ i \in Nat \ {0}
    /\ \A i, j \in 0 .. SizeWidth : i <= j => bin_growth ^ i <= bin_growth ^ j
    /\ \A bytes \in Bytes : bytes <= bin_growth ^ SizeWidth

VARIABLES
    heap,              \* Ptr -> bytes the runtime has reserved there, 0 if none
    cached_blocks,     \* the set of cached blocks, by pointer
    live_blocks,       \* the set of live blocks, by pointer
    block,             \* Ptr -> its BlockDescriptor (bytes, bin, associated_stream), or Erased
    cached_bytes,      \* [free, live]
    max_cached_bytes,
    ready_event,       \* Ptr -> stream of the last record of its event, or None
    stream,            \* Stream -> sequence of [kind, ptr] not yet run
    call,              \* Thread -> where its call is and its search_key
    foreign,           \* pointers the runtime gave out past the preload
    held               \* Ptr -> bytes its holder asked cudaMalloc for, or 0

cacheVars == <<cached_blocks, live_blocks, block, cached_bytes>>
deviceVars == <<ready_event, stream>>
vars == <<heap, cacheVars, max_cached_bytes, deviceVars, call, foreign, held>>

INVALID_BIN == -1
NotHeld == 0

Descriptor == [bytes : Nat, bin : Nat \cup {INVALID_BIN}, stream : Stream]
Erased == [bytes |-> 0, bin |-> INVALID_BIN, stream |-> None]
Entry == [kind : {"work", "event"}, ptr : Ptr]
Idle == [pc |-> "idle"]
Call ==
    {Idle}
      \cup [pc : {"malloc", "reclaim", "retry"}, key : Descriptor, want : Bytes]
      \cup [pc : {"insert"}, key : Descriptor, want : Bytes, ptr : Ptr]
      \cup [pc : {"record"}, ptr : Ptr, stream : Stream]
      \cup [pc : {"release"}, ptr : Ptr]

----------------------------------------------------------------------------
(* NearestPowerOf and the choice of a bin *)

SizeOverflows(value) == (value * bin_growth) % 2 ^ SizeWidth < value

nearest_power(value) ==
    IF SizeOverflows(value) THEN SizeWidth
    ELSE Min({p \in 0 .. SizeWidth : bin_growth ^ p >= value})

\* Mutant: a request is filed under the bin below it.
search_key_rounded_down(bytes, s) ==
    [bytes |-> bin_growth ^ min_bin, bin |-> min_bin, stream |-> s]

search_key(bytes, s) ==
    LET power == nearest_power(bytes)
    IN  IF power > max_bin THEN [bytes |-> bytes, bin |-> INVALID_BIN, stream |-> s]
        ELSE LET bin == IF power < min_bin THEN min_bin ELSE power
             IN  [bytes |-> bin_growth ^ bin, bin |-> bin, stream |-> s]

----------------------------------------------------------------------------
(* The CUDA runtime *)

used == SumFunctionOnSet(heap, Ptr)

\* cudaEventQuery(ready_event) # cudaErrorNotReady: the last record has run,
\* or there was none.
event_done(p) ==
    \/ ready_event[p] = None
    \/ ~ \E i \in DOMAIN stream[ready_event[p]] :
            stream[ready_event[p]][i] = [kind |-> "event", ptr |-> p]

\* The real cudaFree: blocks until the device is idle, then gives memory back.
cuda_free(ps) ==
    /\ heap' = [p \in Ptr |-> IF p \in ps THEN 0 ELSE heap[p]]
    /\ stream' = IF ps = {} THEN stream ELSE [s \in Stream |-> <<>>]
    /\ ready_event' = [p \in Ptr |-> IF p \in ps THEN None ELSE ready_event[p]]

RunEntry(s) ==
    /\ stream[s] # <<>>
    /\ stream' = [stream EXCEPT ![s] = Tail(@)]
    /\ UNCHANGED <<heap, cacheVars, max_cached_bytes, ready_event, call, foreign, held>>

\* A program launches a kernel that uses memory it holds.
Launch(p, s) ==
    /\ held[p] # NotHeld
    /\ Len(stream[s]) < MaxQueue
    /\ stream' = [stream EXCEPT ![s] = Append(@, [kind |-> "work", ptr |-> p])]
    /\ UNCHANGED <<heap, cacheVars, max_cached_bytes, ready_event, call, foreign, held>>

----------------------------------------------------------------------------
(* DeviceAllocate *)

Init ==
    /\ heap = [p \in Ptr |-> 0]
    /\ cached_blocks = {} /\ live_blocks = {}
    /\ block = [p \in Ptr |-> Erased]
    /\ cached_bytes = [free |-> 0, live |-> 0]
    /\ max_cached_bytes \in Limit
    /\ ready_event = [p \in Ptr |-> None]
    /\ stream = [s \in Stream |-> <<>>]
    /\ call = [t \in Thread |-> Idle]
    /\ foreign = {}
    /\ held = [p \in Ptr |-> NotHeld]

\* Only blocks of the active stream or of an idle stream.
is_reusable(p, key) == block[p].stream = key.stream \/ event_done(p)

suitable(key) ==
    {p \in cached_blocks : block[p].bin = key.bin /\ is_reusable(p, key)}

\* Mutant: the reused block stays in the cache.
Reuse_kept(t, bytes, s) ==
    LET key == search_key(bytes, s)
    IN  /\ call[t] = Idle
        /\ key.bin # INVALID_BIN
        /\ \E p \in suitable(key) :
             /\ block' = [block EXCEPT ![p].stream = s]
             /\ live_blocks' = live_blocks \cup {p}
             /\ cached_bytes' = [free |-> cached_bytes.free - block[p].bytes,
                                 live |-> cached_bytes.live + block[p].bytes]
             /\ held' = [held EXCEPT ![p] = bytes]
        /\ UNCHANGED <<heap, cached_blocks, max_cached_bytes, deviceVars, foreign, call>>

\* DeviceAllocate finds a cached block, under the mutex.
Reuse(t, bytes, s) ==
    LET key == search_key(bytes, s)
    IN  /\ call[t] = Idle
        /\ key.bin # INVALID_BIN
        /\ \E p \in suitable(key) :
             /\ block' = [block EXCEPT ![p].stream = s]
             /\ live_blocks' = live_blocks \cup {p}
             /\ cached_blocks' = cached_blocks \ {p}
             /\ cached_bytes' = [free |-> cached_bytes.free - block[p].bytes,
                                 live |-> cached_bytes.live + block[p].bytes]
             /\ held' = [held EXCEPT ![p] = bytes]
        /\ UNCHANGED <<heap, max_cached_bytes, deviceVars, foreign, call>>

\* It finds none, or the request is too large for a bin and it does not look.
Miss(t, bytes, s) ==
    LET key == search_key(bytes, s)
    IN  /\ call[t] = Idle
        /\ key.bin = INVALID_BIN \/ suitable(key) = {}
        /\ call' = [call EXCEPT ![t] = [pc |-> "malloc", key |-> key, want |-> bytes]]
        /\ UNCHANGED <<heap, cacheVars, max_cached_bytes, deviceVars, foreign, held>>

\* The real cudaMalloc, first try and retry; a cached block is not in the way
\* of another pointer, only of its bytes.
CudaMalloc(t) ==
    /\ call[t].pc \in {"malloc", "retry"}
    /\ used + call[t].key.bytes <= Capacity
    /\ \E p \in Ptr :
         /\ heap[p] = 0
         /\ heap' = [heap EXCEPT ![p] = call[t].key.bytes]
         /\ call' = [call EXCEPT ![t] = [pc |-> "insert", key |-> @.key, want |-> @.want, ptr |-> p]]
    /\ UNCHANGED <<cacheVars, max_cached_bytes, deviceVars, foreign, held>>

CudaMallocFails(t) ==
    /\ call[t].pc \in {"malloc", "retry"}
    /\ used + call[t].key.bytes > Capacity \/ \A p \in Ptr : heap[p] # 0
    /\ call' = [call EXCEPT ![t] = IF @.pc = "malloc" THEN [@ EXCEPT !.pc = "reclaim"] ELSE Idle]
    /\ UNCHANGED <<heap, cacheVars, max_cached_bytes, deviceVars, foreign, held>>

\* Mutant: the balance is not reduced.
free_all_unbalanced ==
    /\ cuda_free(cached_blocks)
    /\ cached_blocks' = {}
    /\ block' = [p \in Ptr |-> IF p \in cached_blocks THEN Erased ELSE block[p]]
    /\ UNCHANGED <<live_blocks, cached_bytes>>

\* Every cached block goes back to the runtime.
free_all ==
    /\ cuda_free(cached_blocks)
    /\ cached_blocks' = {}
    /\ block' = [p \in Ptr |-> IF p \in cached_blocks THEN Erased ELSE block[p]]
    /\ cached_bytes' = [cached_bytes EXCEPT
                          !.free = @ - SumFunctionOnSet([p \in Ptr |-> block[p].bytes], cached_blocks)]
    /\ UNCHANGED live_blocks

\* After cudaErrorMemoryAllocation, under the mutex.
Reclaim(t) ==
    /\ call[t].pc = "reclaim"
    /\ free_all
    /\ call' = [call EXCEPT ![t].pc = "retry"]
    /\ UNCHANGED <<max_cached_bytes, foreign, held>>

\* The new block becomes live and the call returns it.
InsertLive(t) ==
    /\ call[t].pc = "insert"
    /\ LET p == call[t].ptr
           key == call[t].key
       IN  /\ live_blocks' = live_blocks \cup {p}
           /\ block' = [block EXCEPT ![p] = key]
           /\ cached_bytes' = [cached_bytes EXCEPT !.live = @ + key.bytes]
           /\ held' = [held EXCEPT ![p] = call[t].want]
    /\ call' = [call EXCEPT ![t] = Idle]
    /\ UNCHANGED <<heap, cached_blocks, max_cached_bytes, deviceVars, foreign>>

----------------------------------------------------------------------------
(* DeviceFree, FreeAllCached and SetMaxCachedBytes *)

\* Mutant: the limit is compared with what is cached, not with what would be.
fits_cache_before(p) == block[p].bin # INVALID_BIN /\ cached_bytes.free <= max_cached_bytes

fits_cache(p) ==
    /\ block[p].bin # INVALID_BIN
    /\ cached_bytes.free + block[p].bytes <= max_cached_bytes

\* The section that moves a live block to the cache, or out of the allocator.
FreeLive(t, p) ==
    /\ call[t] = Idle /\ held[p] # NotHeld /\ p \in live_blocks
    /\ held' = [held EXCEPT ![p] = NotHeld]
    /\ live_blocks' = live_blocks \ {p}
    /\ LET size == block[p].bytes
       IN  IF fits_cache(p)
           THEN /\ cached_blocks' = cached_blocks \cup {p}
                /\ cached_bytes' = [free |-> cached_bytes.free + size, live |-> cached_bytes.live - size]
                /\ call' = [call EXCEPT ![t] = [pc |-> "record", ptr |-> p, stream |-> block[p].stream]]
                /\ UNCHANGED block
           ELSE /\ cached_bytes' = [cached_bytes EXCEPT !.live = @ - size]
                /\ block' = [block EXCEPT ![p] = Erased]
                /\ call' = [call EXCEPT ![t] = [pc |-> "release", ptr |-> p]]
                /\ UNCHANGED cached_blocks
    /\ UNCHANGED <<heap, max_cached_bytes, deviceVars, foreign>>

\* The pointer came from another function of the runtime.
FreeForeign(t, p) ==
    /\ call[t] = Idle /\ p \in foreign
    /\ foreign' = foreign \ {p}
    /\ call' = [call EXCEPT ![t] = [pc |-> "release", ptr |-> p]]
    /\ UNCHANGED <<heap, cacheVars, max_cached_bytes, deviceVars, held>>

\* The ready event goes into the stream of the freed block, after the unlock.
RecordEvent(t) ==
    /\ call[t].pc = "record"
    /\ Len(stream[call[t].stream]) < MaxQueue
    /\ stream' = [stream EXCEPT ![call[t].stream] = Append(@, [kind |-> "event", ptr |-> call[t].ptr])]
    /\ ready_event' = [ready_event EXCEPT ![call[t].ptr] = call[t].stream]
    /\ call' = [call EXCEPT ![t] = Idle]
    /\ UNCHANGED <<heap, cacheVars, max_cached_bytes, foreign, held>>

Release(t) ==
    /\ call[t].pc = "release"
    /\ cuda_free({call[t].ptr})
    /\ call' = [call EXCEPT ![t] = Idle]
    /\ UNCHANGED <<cacheVars, max_cached_bytes, foreign, held>>

FreeAllCached(t) ==
    /\ call[t] = Idle /\ cached_blocks # {}
    /\ free_all
    /\ UNCHANGED <<max_cached_bytes, call, foreign, held>>

SetMaxCachedBytes(n) ==
    /\ max_cached_bytes' = n
    /\ UNCHANGED <<heap, cacheVars, deviceVars, foreign, call, held>>

\* Memory from cudaMallocManaged and the like, which the preload does not see.
ForeignMalloc(p, bytes) ==
    /\ heap[p] = 0 /\ used + bytes <= Capacity
    /\ Cardinality(foreign) < MaxForeign
    /\ heap' = [heap EXCEPT ![p] = bytes]
    /\ foreign' = foreign \cup {p}
    /\ UNCHANGED <<cacheVars, max_cached_bytes, deviceVars, call, held>>

Next ==
    \/ \E t \in Thread, bytes \in Bytes, s \in CallerStream : Reuse(t, bytes, s) \/ Miss(t, bytes, s)
    \/ \E t \in Thread : CudaMalloc(t) \/ CudaMallocFails(t) \/ Reclaim(t) \/ InsertLive(t)
    \/ \E t \in Thread, p \in Ptr : FreeLive(t, p) \/ FreeForeign(t, p)
    \/ \E t \in Thread : RecordEvent(t) \/ Release(t) \/ FreeAllCached(t)
    \/ \E n \in Limit : SetMaxCachedBytes(n)
    \/ \E p \in Ptr, bytes \in Bytes : ForeignMalloc(p, bytes)
    \/ \E p \in Ptr, s \in Stream : Launch(p, s)
    \/ \E s \in Stream : RunEntry(s)

Spec == Init /\ [][Next]_vars

----------------------------------------------------------------------------
(* Properties *)

\* The variables have the types their declarations say.
TypeOK ==
    /\ heap \in [Ptr -> Nat] /\ held \in [Ptr -> Bytes \cup {NotHeld}]
    /\ cached_blocks \subseteq Ptr /\ live_blocks \subseteq Ptr /\ foreign \subseteq Ptr
    /\ block \in [Ptr -> Descriptor \cup {Erased}]
    /\ cached_bytes \in [free : Nat, live : Nat]
    /\ max_cached_bytes \in Limit
    /\ ready_event \in [Ptr -> Stream \cup {None}]
    /\ stream \in [Stream -> Seq(Entry)]
    /\ call \in [Thread -> Call]

InTransit == {call[t].ptr : t \in {u \in Thread : call[u].pc \in {"insert", "release"}}}

\* Memory is never lost and never dangles: what the runtime has reserved is
\* exactly the live blocks, the cached blocks, the foreign memory and what a
\* thread carries between two sections of a call, and no pointer is in two of
\* these; and the balances that decide whether a block is cached are the bytes
\* of the cached and of the live blocks, whichever thread moves a block while
\* others allocate, reuse, reclaim and free.
MemoryIsAccounted ==
    /\ {p \in Ptr : heap[p] # 0} = live_blocks \cup cached_blocks \cup foreign \cup InTransit
    /\ live_blocks \cap cached_blocks = {}
    /\ foreign \cap (live_blocks \cup cached_blocks) = {}
    /\ InTransit \cap (live_blocks \cup cached_blocks \cup foreign) = {}
    /\ \A t, u \in Thread :
         /\ call[t].pc \in {"insert", "release"} /\ call[u].pc \in {"insert", "release"}
         /\ call[t].ptr = call[u].ptr
         => t = u
    /\ cached_bytes.free = SumFunctionOnSet(heap, cached_blocks)
    /\ cached_bytes.live = SumFunctionOnSet(heap, live_blocks)

\* Returning a block never takes the cache over max_cached_bytes, also when
\* the limit was lowered below what is cached.
CacheGrowsWithinLimit ==
    [][cached_bytes'.free > cached_bytes.free => cached_bytes'.free <= max_cached_bytes']_vars

Heap == INSTANCE DeviceHeap WITH extent <- heap

\* What the allocator hands out and takes back is a heap: a pointer has one
\* holder, its memory is as large as was asked for, and stays while it is held.
HeapSpec == Heap!HeapSpec

\* The comment above the search: a block returned by the host and still in use
\* by the device is not handed out to another stream.
ReusableIsIdle ==
    \A p \in cached_blocks, s \in CallerStream :
        is_reusable(p, [stream |-> s]) =>
            \A z \in Stream \ {s} : \A i \in DOMAIN stream[z] :
                stream[z][i] # [kind |-> "work", ptr |-> p]
=============================================================================
