-------------------- MODULE CachingDeviceAllocatorProofs --------------------
(***************************************************************************)
(* Proofs about CachingDeviceAllocator: memory is accounted for, the cache *)
(* grows within its limit, and the allocator is a heap.                    *)
(***************************************************************************)
EXTENDS CachingDeviceAllocator, LibraryLemmas

\* A descriptor of a bin has the size of the bin.
Binned(d) == d.bin # INVALID_BIN => d.bin \in 0 .. SizeWidth /\ d.bytes = bin_growth ^ d.bin

\* The descriptors of the blocks say how large the memory behind them is.
DescriptorsAreTrue ==
    /\ \A p \in live_blocks \cup cached_blocks : block[p] \in Descriptor /\ block[p].bytes = heap[p]
    /\ \A p \in cached_blocks : Binned(block[p]) /\ block[p].bin # INVALID_BIN
    /\ \A p \in live_blocks : Binned(block[p])

\* What a call that allocates carries with it.
CallsAreTrue ==
    \A t \in Thread :
        /\ call[t].pc \in {"malloc", "reclaim", "retry", "insert"} =>
               Binned(call[t].key) /\ call[t].want <= call[t].key.bytes
        /\ call[t].pc = "insert" => heap[call[t].ptr] = call[t].key.bytes

\* A pointer is held while its block is live, and the block is large enough.
HeldIsLive ==
    \A p \in Ptr :
        /\ held[p] # NotHeld <=> p \in live_blocks
        /\ held[p] <= heap[p]

AllocatorInv ==
    TypeOK /\ MemoryIsAccounted /\ DescriptorsAreTrue /\ CallsAreTrue /\ HeldIsLive

----------------------------------------------------------------------------
(* The bin of a request *)

LEMMA NearestPowerCovers ==
    ASSUME NEW bytes \in Bytes
    PROVE  nearest_power(bytes) \in 0 .. SizeWidth /\ bytes <= bin_growth ^ nearest_power(bytes)
<1> DEFINE fit == {p \in 0 .. SizeWidth : bin_growth ^ p >= bytes}
<1>1. SizeWidth \in Nat /\ bytes \in Nat /\ bytes <= bin_growth ^ SizeWidth
  BY AllocatorAssumption, PowerAssumption
<1>2. SizeWidth \in 0 .. SizeWidth
  BY <1>1
<1>3. bin_growth ^ SizeWidth \in Nat
  BY <1>2, PowerAssumption
<1>4. SizeWidth \in fit
  BY <1>1, <1>2, <1>3
<1>5. Min(fit) \in fit
  <2>1. fit \subseteq Nat /\ fit # {}
    BY <1>1, <1>4
  <2> HIDE DEF fit
  <2>2. \E m \in fit : \A k \in fit : m <= k
    BY <2>1, NatMinimum
  <2>3. QED
    BY <2>2 DEF Min
<1>6. CASE SizeOverflows(bytes)
  BY <1>1, <1>2, <1>6 DEF nearest_power
<1>7. CASE ~ SizeOverflows(bytes)
  <2>1. nearest_power(bytes) = Min(fit)
    BY <1>7 DEF nearest_power
  <2>2. Min(fit) \in 0 .. SizeWidth /\ bin_growth ^ Min(fit) >= bytes
    BY <1>5
  <2>3. bin_growth ^ Min(fit) \in Nat
    BY <2>2, PowerAssumption
  <2> HIDE DEF fit
  <2>4. QED
    BY <1>1, <2>1, <2>2, <2>3
<1>8. QED
  BY <1>6, <1>7

\* The search key of a request is a descriptor of its bin, or of the request
\* itself, and has room for it.
LEMMA SearchKeyCovers ==
    ASSUME NEW bytes \in Bytes, NEW s \in Stream
    PROVE  /\ search_key(bytes, s) \in Descriptor
           /\ Binned(search_key(bytes, s))
           /\ bytes \in Nat \ {0} /\ bytes <= search_key(bytes, s).bytes
           /\ search_key(bytes, s).stream = s
<1> DEFINE power == nearest_power(bytes)
<1>1. power \in 0 .. SizeWidth /\ bytes <= bin_growth ^ power /\ bytes \in Nat \ {0}
  BY NearestPowerCovers, AllocatorAssumption
<1>2. /\ SizeWidth \in Nat /\ min_bin \in Nat /\ max_bin \in Nat
      /\ min_bin <= max_bin /\ max_bin <= SizeWidth
  BY AllocatorAssumption, PowerAssumption
<1> HIDE DEF power
<1>3. CASE power > max_bin
  <2>1. search_key(bytes, s) = [bytes |-> bytes, bin |-> INVALID_BIN, stream |-> s]
    BY <1>3 DEF search_key, power
  <2>2. QED
    BY <1>1, <2>1 DEF Descriptor, Binned, INVALID_BIN
<1>4. CASE ~ (power > max_bin)
  <2> DEFINE bin == IF power < min_bin THEN min_bin ELSE power
  <2>1. search_key(bytes, s) = [bytes |-> bin_growth ^ bin, bin |-> bin, stream |-> s]
    BY <1>4 DEF search_key, power
  <2>2. bin \in 0 .. SizeWidth /\ power <= bin
    BY <1>1, <1>2, <1>4
  <2> HIDE DEF bin
  <2>3. /\ bin_growth ^ bin \in Nat /\ bin_growth ^ power \in Nat
        /\ bin_growth ^ power <= bin_growth ^ bin
    BY <1>1, <2>2, PowerAssumption
  <2>4. bytes <= bin_growth ^ bin
    BY <1>1, <2>3
  <2>5. bin \in Nat
    BY <1>2, <2>2
  <2>6. QED
    BY <1>1, <2>1, <2>2, <2>3, <2>4, <2>5 DEF Descriptor, Binned
<1>5. QED
  BY <1>3, <1>4

----------------------------------------------------------------------------
(* Sums over pointers *)

LEMMA PtrSets ==
    ASSUME NEW S, S \subseteq Ptr
    PROVE  IsFiniteSet(S)
  BY FS_Subset, AllocatorAssumption

LEMMA PtrSum ==
    ASSUME NEW f \in [Ptr -> Nat], NEW S, S \subseteq Ptr
    PROVE  SumFunctionOnSet(f, S) \in Nat
<1>1. IsFiniteSet(S) /\ \A p \in S : f[p] \in Nat
  BY PtrSets
<1>2. QED
  BY <1>1, SumNat

LEMMA PtrSumRemove ==
    ASSUME NEW f \in [Ptr -> Nat], NEW S, S \subseteq Ptr, NEW p \in S
    PROVE  /\ SumFunctionOnSet(f, S \ {p}) = SumFunctionOnSet(f, S) - f[p]
           /\ SumFunctionOnSet(f, S \ {p}) \in Nat
<1>1. IsFiniteSet(S) /\ \A q \in S : f[q] \in Int
  BY PtrSets
<1>2. SumFunctionOnSet(f, S) = f[p] + SumFunctionOnSet(f, S \ {p})
  BY <1>1, SumRemove
<1>3. SumFunctionOnSet(f, S \ {p}) \in Nat
  BY PtrSum
<1>4. f[p] \in Nat
  OBVIOUS
<1>5. QED
  BY <1>2, <1>3, <1>4

LEMMA PtrSumAdd ==
    ASSUME NEW f \in [Ptr -> Nat], NEW S, S \subseteq Ptr, NEW p \in Ptr, p \notin S
    PROVE  SumFunctionOnSet(f, S \cup {p}) = SumFunctionOnSet(f, S) + f[p]
<1>1. IsFiniteSet(S) /\ \A q \in S \cup {p} : f[q] \in Int
  BY PtrSets
<1>2. SumFunctionOnSet(f, S \cup {p}) = f[p] + SumFunctionOnSet(f, S)
  BY <1>1, SumAdd
<1>3. SumFunctionOnSet(f, S) \in Nat /\ f[p] \in Nat
  BY PtrSum
<1>4. QED
  BY <1>2, <1>3

LEMMA PtrSumSame ==
    ASSUME NEW f \in [Ptr -> Nat], NEW g \in [Ptr -> Nat], NEW S, S \subseteq Ptr,
           \A p \in S : f[p] = g[p]
    PROVE  SumFunctionOnSet(f, S) = SumFunctionOnSet(g, S)
<1>1. IsFiniteSet(S) /\ \A q \in S : f[q] \in Int /\ f[q] = g[q]
  BY PtrSets
<1>2. QED
  BY <1>1, SumSame

----------------------------------------------------------------------------
(* The calls of the threads *)

Carrying == {"insert", "release"}

\* What the threads whose calls are c carry between two sections.
CarriedBy(c) == {c[t].ptr : t \in {u \in Thread : c[u].pc \in Carrying}}

\* No two of them carry the same pointer.
Apart(c) ==
    \A t, u \in Thread :
        c[t].pc \in Carrying /\ c[u].pc \in Carrying /\ c[t].ptr = c[u].ptr => t = u

\* A call that carries nothing before and after leaves it all alone.
LEMMA CarriedSame ==
    ASSUME NEW c \in [Thread -> Call], NEW t \in Thread, NEW x, NEW d,
           d = [c EXCEPT ![t] = x], c[t].pc \notin Carrying, x.pc \notin Carrying
    PROVE  CarriedBy(d) = CarriedBy(c) /\ (Apart(c) => Apart(d))
<1>1. \A u \in Thread : d[u] = IF u = t THEN x ELSE c[u]
  OBVIOUS
<1>2. \A u \in Thread : d[u].pc \in Carrying <=> c[u].pc \in Carrying
  BY <1>1
<1>3. \A u \in Thread : d[u].pc \in Carrying => d[u].ptr = c[u].ptr
  BY <1>1
<1>4. QED
  BY <1>2, <1>3 DEF CarriedBy, Apart

\* A call that takes up a pointer nobody carries adds it.
LEMMA CarriedEnter ==
    ASSUME NEW c \in [Thread -> Call], NEW t \in Thread, NEW x, NEW d,
           d = [c EXCEPT ![t] = x], c[t].pc \notin Carrying, x.pc \in Carrying,
           x.ptr \notin CarriedBy(c)
    PROVE  CarriedBy(d) = CarriedBy(c) \cup {x.ptr} /\ (Apart(c) => Apart(d))
<1>1. \A u \in Thread : d[u] = IF u = t THEN x ELSE c[u]
  OBVIOUS
<1>2. \A u \in Thread : d[u].pc \in Carrying <=> u = t \/ c[u].pc \in Carrying
  BY <1>1
<1>3. \A u \in Thread \ {t} : d[u].ptr = c[u].ptr
  BY <1>1
<1>4. d[t].ptr = x.ptr
  BY <1>1
<1>5. \A u \in Thread : c[u].pc \in Carrying => c[u].ptr # x.ptr /\ u # t
  BY DEF CarriedBy
<1>6. CarriedBy(d) = CarriedBy(c) \cup {x.ptr}
  BY <1>2, <1>3, <1>4, <1>5 DEF CarriedBy
<1>7. ASSUME Apart(c) PROVE Apart(d)
  BY <1>2, <1>3, <1>4, <1>5, <1>7 DEF Apart
<1>8. QED
  BY <1>6, <1>7

\* A call that puts its pointer down takes away that one.
LEMMA CarriedLeave ==
    ASSUME NEW c \in [Thread -> Call], NEW t \in Thread, NEW x, NEW d, Apart(c),
           d = [c EXCEPT ![t] = x], c[t].pc \in Carrying, x.pc \notin Carrying
    PROVE  /\ c[t].ptr \in CarriedBy(c)
           /\ CarriedBy(d) = CarriedBy(c) \ {c[t].ptr}
           /\ Apart(d)
<1>1. \A u \in Thread : d[u] = IF u = t THEN x ELSE c[u]
  OBVIOUS
<1>2. \A u \in Thread : d[u].pc \in Carrying <=> u # t /\ c[u].pc \in Carrying
  BY <1>1
<1>3. \A u \in Thread \ {t} : d[u].ptr = c[u].ptr
  BY <1>1
<1>4. \A u \in Thread : u # t /\ c[u].pc \in Carrying => c[u].ptr # c[t].ptr
  BY DEF Apart
<1>5. c[t].ptr \in CarriedBy(c)
  BY DEF CarriedBy
<1>6. CarriedBy(d) = CarriedBy(c) \ {c[t].ptr}
  BY <1>2, <1>3, <1>4 DEF CarriedBy
<1>7. Apart(d)
  BY <1>2, <1>3 DEF Apart
<1>8. QED
  BY <1>5, <1>6, <1>7

\* The fields a call has where it is.
LEMMA CallFields ==
    ASSUME NEW c \in Call
    PROVE  /\ c.pc \in {"idle", "malloc", "reclaim", "retry", "insert", "record", "release"}
           /\ c.pc = "idle" => c = Idle
           /\ c.pc \in {"malloc", "reclaim", "retry", "insert"} => c.key \in Descriptor /\ c.want \in Bytes
           /\ c.pc \in {"insert", "record", "release"} => c.ptr \in Ptr
           /\ c.pc = "record" => c.stream \in Stream
           /\ c.pc \in {"malloc", "reclaim", "retry"} => c = [pc |-> c.pc, key |-> c.key, want |-> c.want]
  BY DEF Call, Idle

----------------------------------------------------------------------------
(* The invariant *)

LEMMA InitInv == Init => AllocatorInv
<1> SUFFICES ASSUME Init PROVE AllocatorInv
  OBVIOUS
<1>1. TypeOK
  BY AllocatorAssumption DEF Init, TypeOK, Call, NotHeld
<1>2. \A t \in Thread : call[t].pc = "idle"
  BY DEF Init, Idle
<1>3. InTransit = {}
  BY <1>2 DEF InTransit
<1>4. SumFunctionOnSet(heap, {}) = 0
  BY SumEmpty
<1>5. MemoryIsAccounted
  BY <1>2, <1>3, <1>4 DEF Init, MemoryIsAccounted
<1>6. DescriptorsAreTrue /\ CallsAreTrue /\ HeldIsLive
  BY <1>2 DEF Init, DescriptorsAreTrue, CallsAreTrue, HeldIsLive, NotHeld
<1>7. QED
  BY <1>1, <1>5, <1>6 DEF AllocatorInv

\* A step of a thread that leaves the memory, the blocks and the balances
\* alone, and carries nothing before and after.
LEMMA CallStep ==
    ASSUME AllocatorInv, UNCHANGED <<heap, cacheVars, foreign, held>>,
           NEW t \in Thread, NEW x, call' = [call EXCEPT ![t] = x],
           call[t].pc \notin Carrying, x.pc \notin Carrying,
           x.pc \in {"malloc", "reclaim", "retry"} => Binned(x.key) /\ x.want <= x.key.bytes
    PROVE  MemoryIsAccounted' /\ DescriptorsAreTrue' /\ CallsAreTrue' /\ HeldIsLive'
<1> USE DEF AllocatorInv, cacheVars
<1>1. call \in [Thread -> Call]
  BY DEF TypeOK
<1>2. CarriedBy(call') = CarriedBy(call) /\ (Apart(call) => Apart(call'))
  BY <1>1, CarriedSame
<1>3. InTransit = CarriedBy(call) /\ InTransit' = CarriedBy(call')
  BY DEF InTransit, CarriedBy, Carrying
<1>4. Apart(call)
  BY DEF MemoryIsAccounted, Apart, Carrying
<1>5. MemoryIsAccounted'
  BY <1>2, <1>3, <1>4 DEF MemoryIsAccounted, Apart, Carrying
<1>6. \A u \in Thread : call'[u] = IF u = t THEN x ELSE call[u]
  BY <1>1
<1>7. CallsAreTrue'
  BY <1>6 DEF CallsAreTrue, Carrying
<1>8. QED
  BY <1>5, <1>7 DEF DescriptorsAreTrue, HeldIsLive

LEMMA DeviceStep ==
    ASSUME AllocatorInv, UNCHANGED <<heap, cacheVars, call, foreign, held>>,
           (max_cached_bytes \in Limit)', (ready_event \in [Ptr -> Stream \cup {None}])',
           (stream \in [Stream -> Seq(Entry)])'
    PROVE  AllocatorInv'
  BY DEF AllocatorInv, cacheVars, TypeOK, MemoryIsAccounted, InTransit, DescriptorsAreTrue,
         CallsAreTrue, HeldIsLive

LEMMA AppendEntry ==
    ASSUME NEW q \in Seq(Entry), NEW e \in Entry
    PROVE  Append(q, e) \in Seq(Entry)
  OBVIOUS

LEMMA RunEntryInv ==
    ASSUME AllocatorInv, NEW s \in Stream, RunEntry(s)
    PROVE  AllocatorInv'
<1>1. Tail(stream[s]) \in Seq(Entry)
  BY DEF RunEntry, AllocatorInv, TypeOK
<1>2. (stream \in [Stream -> Seq(Entry)])'
  BY <1>1 DEF RunEntry, AllocatorInv, TypeOK
<1>3. QED
  BY <1>2, DeviceStep DEF RunEntry, AllocatorInv, TypeOK

LEMMA LaunchInv ==
    ASSUME AllocatorInv, NEW p \in Ptr, NEW s \in Stream, Launch(p, s)
    PROVE  AllocatorInv'
<1>1. Append(stream[s], [kind |-> "work", ptr |-> p]) \in Seq(Entry)
  <2>1. [kind |-> "work", ptr |-> p] \in Entry
    BY DEF Entry
  <2>2. QED
    BY <2>1, AppendEntry DEF AllocatorInv, TypeOK
<1>2. (stream \in [Stream -> Seq(Entry)])'
  BY <1>1 DEF Launch, AllocatorInv, TypeOK
<1>3. QED
  BY <1>2, DeviceStep DEF Launch, AllocatorInv, TypeOK

LEMMA SetMaxCachedBytesInv ==
    ASSUME AllocatorInv, NEW n \in Limit, SetMaxCachedBytes(n)
    PROVE  AllocatorInv'
  BY DeviceStep DEF SetMaxCachedBytes, AllocatorInv, TypeOK, deviceVars

LEMMA MissInv ==
    ASSUME AllocatorInv, NEW t \in Thread, NEW bytes \in Bytes, NEW s \in CallerStream,
           Miss(t, bytes, s)
    PROVE  AllocatorInv'
<1> DEFINE x == [pc |-> "malloc", key |-> search_key(bytes, s), want |-> bytes]
<1>1. /\ search_key(bytes, s) \in Descriptor /\ Binned(search_key(bytes, s))
      /\ bytes <= search_key(bytes, s).bytes
  BY SearchKeyCovers, AllocatorAssumption
<1>2. /\ call[t] = Idle /\ call' = [call EXCEPT ![t] = x]
      /\ UNCHANGED <<heap, cacheVars, max_cached_bytes, deviceVars, foreign, held>>
  BY DEF Miss
<1>3. /\ x \in Call /\ x.pc = "malloc" /\ x.key = search_key(bytes, s) /\ x.want = bytes
  BY <1>1 DEF Call
<1> HIDE DEF x
<1>4. call[t].pc \notin Carrying /\ x.pc \notin Carrying
  BY <1>2, <1>3 DEF Idle, Carrying
<1>5. MemoryIsAccounted' /\ DescriptorsAreTrue' /\ CallsAreTrue' /\ HeldIsLive'
  BY <1>1, <1>2, <1>3, <1>4, CallStep
<1>6. TypeOK'
  BY <1>2, <1>3 DEF AllocatorInv, TypeOK, cacheVars, deviceVars
<1>7. QED
  BY <1>5, <1>6 DEF AllocatorInv

LEMMA CudaMallocFailsInv ==
    ASSUME AllocatorInv, NEW t \in Thread, CudaMallocFails(t)
    PROVE  AllocatorInv'
<1> DEFINE x == IF call[t].pc = "malloc" THEN [call[t] EXCEPT !.pc = "reclaim"] ELSE Idle
<1>1. /\ call[t].pc \in {"malloc", "retry"} /\ call' = [call EXCEPT ![t] = x]
      /\ UNCHANGED <<heap, cacheVars, max_cached_bytes, deviceVars, foreign, held>>
  BY DEF CudaMallocFails, AllocatorInv, TypeOK
<1>2. /\ call[t] \in Call /\ call[t].key \in Descriptor /\ call[t].want \in Bytes
      /\ call[t] = [pc |-> call[t].pc, key |-> call[t].key, want |-> call[t].want]
  BY <1>1, CallFields DEF AllocatorInv, TypeOK
<1>3. /\ x \in Call /\ x.pc \in {"reclaim", "idle"}
      /\ x.pc = "reclaim" => x.key = call[t].key /\ x.want = call[t].want
  BY <1>1, <1>2 DEF Call, Idle
<1> HIDE DEF x
<1>4. call[t].pc \notin Carrying /\ x.pc \notin Carrying
  BY <1>1, <1>3 DEF Carrying
<1>5. x.pc \in {"malloc", "reclaim", "retry"} => Binned(x.key) /\ x.want <= x.key.bytes
  BY <1>1, <1>3 DEF AllocatorInv, CallsAreTrue
<1>6. MemoryIsAccounted' /\ DescriptorsAreTrue' /\ CallsAreTrue' /\ HeldIsLive'
  BY <1>1, <1>4, <1>5, CallStep
<1>7. TypeOK'
  BY <1>1, <1>3 DEF AllocatorInv, TypeOK, cacheVars, deviceVars
<1>8. QED
  BY <1>6, <1>7 DEF AllocatorInv

LEMMA RecordEventInv ==
    ASSUME AllocatorInv, NEW t \in Thread, RecordEvent(t)
    PROVE  AllocatorInv'
<1>1. /\ call[t].pc = "record" /\ call' = [call EXCEPT ![t] = Idle]
      /\ UNCHANGED <<heap, cacheVars, max_cached_bytes, foreign, held>>
  BY DEF RecordEvent
<1>2. call[t].ptr \in Ptr /\ call[t].stream \in Stream
  BY <1>1, CallFields DEF AllocatorInv, TypeOK
<1>3. MemoryIsAccounted' /\ DescriptorsAreTrue' /\ CallsAreTrue' /\ HeldIsLive'
  BY <1>1, CallStep DEF Idle, Carrying
<1>4. Append(stream[call[t].stream], [kind |-> "event", ptr |-> call[t].ptr]) \in Seq(Entry)
  <2>1. [kind |-> "event", ptr |-> call[t].ptr] \in Entry
    BY <1>2 DEF Entry
  <2>2. QED
    BY <1>2, <2>1, AppendEntry DEF AllocatorInv, TypeOK
<1>5. (stream \in [Stream -> Seq(Entry)])'
  BY <1>2, <1>4 DEF RecordEvent, AllocatorInv, TypeOK
<1>6. TypeOK'
  BY <1>1, <1>2, <1>5 DEF RecordEvent, AllocatorInv, TypeOK, cacheVars, Call
<1>7. QED
  BY <1>3, <1>6 DEF AllocatorInv

LEMMA FreeForeignInv ==
    ASSUME AllocatorInv, NEW t \in Thread, NEW p \in Ptr, FreeForeign(t, p)
    PROVE  AllocatorInv'
<1> DEFINE x == [pc |-> "release", ptr |-> p]
<1>1. /\ call[t] = Idle /\ p \in foreign /\ foreign' = foreign \ {p}
      /\ call' = [call EXCEPT ![t] = x]
      /\ UNCHANGED <<heap, cacheVars, max_cached_bytes, deviceVars, held>>
  BY DEF FreeForeign
<1>2. x \in Call /\ x.pc = "release" /\ x.ptr = p
  BY DEF Call
<1> HIDE DEF x
<1>3. TypeOK'
  BY <1>1, <1>2 DEF AllocatorInv, TypeOK, cacheVars, deviceVars
<1>4. InTransit = CarriedBy(call) /\ InTransit' = CarriedBy(call') /\ Apart(call)
  BY DEF InTransit, CarriedBy, Carrying, AllocatorInv, MemoryIsAccounted, Apart
<1>5. p \notin CarriedBy(call)
  BY <1>1, <1>4 DEF AllocatorInv, MemoryIsAccounted
<1>6. CarriedBy(call') = CarriedBy(call) \cup {p} /\ Apart(call')
  <2>1. /\ call \in [Thread -> Call] /\ call[t].pc \notin Carrying
        /\ x.pc \in Carrying /\ x.ptr \notin CarriedBy(call)
    BY <1>1, <1>2, <1>5 DEF AllocatorInv, TypeOK, Idle, Carrying
  <2>2. CarriedBy(call') = CarriedBy(call) \cup {x.ptr} /\ (Apart(call) => Apart(call'))
    BY <1>1, <2>1, CarriedEnter
  <2>3. QED
    BY <1>2, <1>4, <2>2
<1>7. MemoryIsAccounted'
  <2>1. {q \in Ptr : heap'[q] # 0} = {q \in Ptr : heap[q] # 0}
    BY <1>1
  <2>2. InTransit' = InTransit \cup {p} /\ p \notin InTransit
    BY <1>4, <1>5, <1>6
  <2>3. /\ {q \in Ptr : heap[q] # 0} = live_blocks \cup cached_blocks \cup foreign \cup InTransit
        /\ live_blocks \cap cached_blocks = {} /\ foreign \cap (live_blocks \cup cached_blocks) = {}
        /\ InTransit \cap (live_blocks \cup cached_blocks \cup foreign) = {}
        /\ cached_bytes.free = SumFunctionOnSet(heap, cached_blocks)
        /\ cached_bytes.live = SumFunctionOnSet(heap, live_blocks)
    BY DEF AllocatorInv, MemoryIsAccounted
  <2>4. /\ {q \in Ptr : heap'[q] # 0} = live_blocks' \cup cached_blocks' \cup foreign' \cup InTransit'
        /\ InTransit' \cap (live_blocks' \cup cached_blocks' \cup foreign') = {}
    BY <1>1, <2>1, <2>2, <2>3 DEF cacheVars
  <2>5. /\ live_blocks' \cap cached_blocks' = {} /\ foreign' \cap (live_blocks' \cup cached_blocks') = {}
        /\ cached_bytes'.free = SumFunctionOnSet(heap', cached_blocks')
        /\ cached_bytes'.live = SumFunctionOnSet(heap', live_blocks')
    BY <1>1, <2>3 DEF cacheVars
  <2>6. QED
    BY <1>6, <2>4, <2>5 DEF MemoryIsAccounted, Apart, Carrying
<1>8. CallsAreTrue'
  <2>1. \A u \in Thread : call'[u] = IF u = t THEN x ELSE call[u]
    BY <1>1 DEF AllocatorInv, TypeOK
  <2>2. QED
    BY <1>1, <1>2, <2>1 DEF AllocatorInv, CallsAreTrue
<1>9. DescriptorsAreTrue' /\ HeldIsLive'
  BY <1>1 DEF AllocatorInv, DescriptorsAreTrue, HeldIsLive, cacheVars
<1>10. QED
  BY <1>3, <1>7, <1>8, <1>9 DEF AllocatorInv

\* Memory reserved at a free pointer belongs to nobody else.
LEMMA FreshPointer ==
    ASSUME AllocatorInv, NEW p \in Ptr, heap[p] = 0
    PROVE  p \notin live_blocks \cup cached_blocks \cup foreign \cup CarriedBy(call)
<1>1. InTransit = CarriedBy(call)
  BY DEF InTransit, CarriedBy, Carrying
<1>2. QED
  BY <1>1 DEF AllocatorInv, MemoryIsAccounted

\* The balances do not see memory that is neither live nor cached.
LEMMA BalanceFrame ==
    ASSUME AllocatorInv, UNCHANGED cacheVars, heap' \in [Ptr -> Nat],
           \A p \in live_blocks \cup cached_blocks : heap'[p] = heap[p]
    PROVE  /\ cached_bytes'.free = SumFunctionOnSet(heap', cached_blocks')
           /\ cached_bytes'.live = SumFunctionOnSet(heap', live_blocks')
<1>1. heap \in [Ptr -> Nat] /\ cached_blocks \subseteq Ptr /\ live_blocks \subseteq Ptr
  BY DEF AllocatorInv, TypeOK
<1>2. SumFunctionOnSet(heap', cached_blocks) = SumFunctionOnSet(heap, cached_blocks)
  BY <1>1, PtrSumSame
<1>3. SumFunctionOnSet(heap', live_blocks) = SumFunctionOnSet(heap, live_blocks)
  BY <1>1, PtrSumSame
<1>4. QED
  BY <1>2, <1>3 DEF AllocatorInv, MemoryIsAccounted, cacheVars

LEMMA ForeignMallocInv ==
    ASSUME AllocatorInv, NEW p \in Ptr, NEW bytes \in Bytes, ForeignMalloc(p, bytes)
    PROVE  AllocatorInv'
<1>1. /\ heap[p] = 0 /\ heap' = [heap EXCEPT ![p] = bytes] /\ foreign' = foreign \cup {p}
      /\ UNCHANGED <<cacheVars, max_cached_bytes, deviceVars, call, held>>
  BY DEF ForeignMalloc
<1>2. bytes \in Nat \ {0}
  BY AllocatorAssumption
<1>3. TypeOK'
  BY <1>1, <1>2 DEF AllocatorInv, TypeOK, cacheVars, deviceVars
<1>4. p \notin live_blocks \cup cached_blocks \cup foreign \cup CarriedBy(call)
  BY <1>1, FreshPointer
<1>5. InTransit = CarriedBy(call) /\ InTransit' = CarriedBy(call)
  BY <1>1 DEF InTransit, CarriedBy, Carrying
<1>6. \A q \in Ptr : heap'[q] = IF q = p THEN bytes ELSE heap[q]
  BY <1>1 DEF AllocatorInv, TypeOK
<1>7. live_blocks \subseteq Ptr /\ cached_blocks \subseteq Ptr
  BY DEF AllocatorInv, TypeOK
<1>8. \A q \in live_blocks \cup cached_blocks : heap'[q] = heap[q]
  BY <1>4, <1>6, <1>7
<1>9. MemoryIsAccounted'
  <2>1. /\ cached_bytes'.free = SumFunctionOnSet(heap', cached_blocks')
        /\ cached_bytes'.live = SumFunctionOnSet(heap', live_blocks')
    BY <1>1, <1>3, <1>8, BalanceFrame DEF TypeOK
  <2>2. {q \in Ptr : heap'[q] # 0} = {q \in Ptr : heap[q] # 0} \cup {p}
    BY <1>2, <1>6
  <2>3. QED
    BY <1>1, <1>4, <1>5, <2>1, <2>2 DEF AllocatorInv, MemoryIsAccounted, cacheVars
<1>10. CallsAreTrue'
  <2>1. \A u \in Thread : call[u].pc = "insert" => call[u].ptr \in Ptr /\ call[u].ptr # p
    BY <1>4, CallFields DEF CarriedBy, Carrying, AllocatorInv, TypeOK
  <2>2. QED
    BY <1>1, <1>6, <2>1 DEF AllocatorInv, CallsAreTrue
<1>11. DescriptorsAreTrue'
  BY <1>1, <1>8 DEF AllocatorInv, DescriptorsAreTrue, cacheVars
<1>12. HeldIsLive'
  BY <1>1, <1>2, <1>4, <1>6 DEF AllocatorInv, HeldIsLive, cacheVars, NotHeld
<1>13. QED
  BY <1>3, <1>9, <1>10, <1>11, <1>12 DEF AllocatorInv

LEMMA CudaMallocInv ==
    ASSUME AllocatorInv, NEW t \in Thread, CudaMalloc(t)
    PROVE  AllocatorInv'
<1> DEFINE size == call[t].key.bytes
<1>1. PICK p \in Ptr :
        /\ heap[p] = 0
        /\ heap' = [heap EXCEPT ![p] = size]
        /\ call' = [call EXCEPT ![t] = [pc |-> "insert", key |-> @.key, want |-> @.want, ptr |-> p]]
  BY DEF CudaMalloc
<1> DEFINE x == [pc |-> "insert", key |-> call[t].key, want |-> call[t].want, ptr |-> p]
<1>2. /\ call[t].pc \in {"malloc", "retry"} /\ call' = [call EXCEPT ![t] = x]
      /\ UNCHANGED <<cacheVars, max_cached_bytes, deviceVars, foreign, held>>
  BY <1>1 DEF CudaMalloc, AllocatorInv, TypeOK
<1>3. call[t].key \in Descriptor /\ call[t].want \in Bytes
  BY <1>2, CallFields DEF AllocatorInv, TypeOK
<1>4. Binned(call[t].key) /\ call[t].want <= size
  BY <1>2 DEF AllocatorInv, CallsAreTrue
<1>5. size \in Nat \ {0}
  <2>1. call[t].want \in Nat \ {0} /\ size \in Nat
    BY <1>3, AllocatorAssumption DEF Descriptor
  <2>2. QED
    BY <1>4, <2>1
<1>6. x \in Call /\ x.pc = "insert" /\ x.ptr = p /\ x.key = call[t].key /\ x.want = call[t].want
  BY <1>3 DEF Call
<1> HIDE DEF x
<1>7. \A q \in Ptr : heap'[q] = IF q = p THEN size ELSE heap[q]
  BY <1>1 DEF AllocatorInv, TypeOK
<1>8. \A u \in Thread : call'[u] = IF u = t THEN x ELSE call[u]
  BY <1>2 DEF AllocatorInv, TypeOK
<1> HIDE DEF size
<1>9. TypeOK'
  BY <1>1, <1>2, <1>5, <1>6 DEF AllocatorInv, TypeOK, cacheVars, deviceVars
<1>10. p \notin live_blocks \cup cached_blocks \cup foreign \cup CarriedBy(call)
  BY <1>1, FreshPointer
<1>11. InTransit = CarriedBy(call) /\ InTransit' = CarriedBy(call') /\ Apart(call)
  BY DEF InTransit, CarriedBy, Carrying, AllocatorInv, MemoryIsAccounted, Apart
<1>12. CarriedBy(call') = CarriedBy(call) \cup {p} /\ Apart(call')
  <2>1. /\ call \in [Thread -> Call] /\ call[t].pc \notin Carrying
        /\ x.pc \in Carrying /\ x.ptr \notin CarriedBy(call)
    BY <1>2, <1>6, <1>10 DEF AllocatorInv, TypeOK, Carrying
  <2>2. CarriedBy(call') = CarriedBy(call) \cup {x.ptr} /\ (Apart(call) => Apart(call'))
    BY <1>2, <2>1, CarriedEnter
  <2>3. QED
    BY <1>6, <1>11, <2>2
<1>13. live_blocks \subseteq Ptr /\ cached_blocks \subseteq Ptr
  BY DEF AllocatorInv, TypeOK
<1>14. \A q \in live_blocks \cup cached_blocks : heap'[q] = heap[q]
  BY <1>7, <1>10, <1>13
<1>15. MemoryIsAccounted'
  <2>1. /\ cached_bytes'.free = SumFunctionOnSet(heap', cached_blocks')
        /\ cached_bytes'.live = SumFunctionOnSet(heap', live_blocks')
    BY <1>2, <1>9, <1>14, BalanceFrame DEF TypeOK
  <2>2. {q \in Ptr : heap'[q] # 0} = {q \in Ptr : heap[q] # 0} \cup {p}
    BY <1>5, <1>7
  <2>3. QED
    BY <1>2, <1>10, <1>11, <1>12, <2>1, <2>2
       DEF AllocatorInv, MemoryIsAccounted, cacheVars, Apart, Carrying
<1>16. CallsAreTrue'
  <2>1. \A u \in Thread : call[u].pc = "insert" => call[u].ptr \in Ptr /\ call[u].ptr # p
    BY <1>10, CallFields DEF CarriedBy, Carrying, AllocatorInv, TypeOK
  <2>2. QED
    BY <1>4, <1>6, <1>7, <1>8, <2>1 DEF AllocatorInv, CallsAreTrue, size
<1>17. DescriptorsAreTrue'
  BY <1>2, <1>14 DEF AllocatorInv, DescriptorsAreTrue, cacheVars
<1>18. HeldIsLive'
  BY <1>2, <1>5, <1>7, <1>10 DEF AllocatorInv, HeldIsLive, cacheVars, NotHeld
<1>19. QED
  BY <1>9, <1>15, <1>16, <1>17, <1>18 DEF AllocatorInv

LEMMA InsertLiveInv ==
    ASSUME AllocatorInv, NEW t \in Thread, InsertLive(t)
    PROVE  AllocatorInv'
<1> DEFINE p == call[t].ptr
<1> DEFINE key == call[t].key
<1>1. /\ call[t].pc = "insert" /\ live_blocks' = live_blocks \cup {p}
      /\ block' = [block EXCEPT ![p] = key]
      /\ cached_bytes' = [cached_bytes EXCEPT !.live = @ + key.bytes]
      /\ held' = [held EXCEPT ![p] = call[t].want]
      /\ call' = [call EXCEPT ![t] = Idle]
      /\ UNCHANGED <<heap, cached_blocks, max_cached_bytes, deviceVars, foreign>>
  BY DEF InsertLive
<1>2. call \in [Thread -> Call] /\ Idle \in Call
  BY DEF AllocatorInv, TypeOK, Call
<1>3. p \in Ptr /\ key \in Descriptor /\ call[t].want \in Bytes
  BY <1>1, <1>2, CallFields
<1>4. Binned(key) /\ call[t].want <= key.bytes /\ heap[p] = key.bytes
  BY <1>1 DEF AllocatorInv, CallsAreTrue
<1>5. key.bytes \in Nat /\ call[t].want \in Nat \ {0}
  BY <1>3, AllocatorAssumption DEF Descriptor
<1>6. InTransit = CarriedBy(call) /\ InTransit' = CarriedBy(call') /\ Apart(call)
  BY DEF InTransit, CarriedBy, Carrying, AllocatorInv, MemoryIsAccounted, Apart
<1>7. /\ p \in CarriedBy(call) /\ CarriedBy(call') = CarriedBy(call) \ {p} /\ Apart(call')
  <2>1. call[t].pc \in Carrying /\ Idle.pc \notin Carrying
    BY <1>1 DEF Carrying, Idle
  <2>2. QED
    BY <1>1, <1>2, <1>6, <2>1, CarriedLeave
<1>8. p \notin live_blocks \cup cached_blocks \cup foreign
  BY <1>6, <1>7 DEF AllocatorInv, MemoryIsAccounted
<1>9. \A u \in Thread : call'[u] = IF u = t THEN Idle ELSE call[u]
  BY <1>1, <1>2
<1> HIDE DEF p, key
<1>10. cached_bytes \in [free : Nat, live : Nat] /\ heap \in [Ptr -> Nat] /\ live_blocks \subseteq Ptr
  BY DEF AllocatorInv, TypeOK
<1>11. /\ cached_bytes' \in [free : Nat, live : Nat]
       /\ cached_bytes'.free = cached_bytes.free /\ cached_bytes'.live = cached_bytes.live + key.bytes
  BY <1>1, <1>5, <1>10
<1>12. TypeOK'
  BY <1>1, <1>2, <1>3, <1>11 DEF AllocatorInv, TypeOK, deviceVars
<1>13. MemoryIsAccounted'
  <2>1. SumFunctionOnSet(heap, live_blocks \cup {p}) = SumFunctionOnSet(heap, live_blocks) + heap[p]
    BY <1>3, <1>8, <1>10, PtrSumAdd
  <2>2. cached_bytes'.live = SumFunctionOnSet(heap', live_blocks')
    BY <1>1, <1>4, <1>11, <2>1 DEF AllocatorInv, MemoryIsAccounted
  <2>3. cached_bytes'.free = SumFunctionOnSet(heap', cached_blocks')
    BY <1>1, <1>11 DEF AllocatorInv, MemoryIsAccounted
  <2>4. /\ {q \in Ptr : heap'[q] # 0} = live_blocks' \cup cached_blocks' \cup foreign' \cup InTransit'
        /\ InTransit' \cap (live_blocks' \cup cached_blocks' \cup foreign') = {}
    <3>1. InTransit' = InTransit \ {p} /\ p \in InTransit
      BY <1>6, <1>7
    <3>2. {q \in Ptr : heap'[q] # 0} = {q \in Ptr : heap[q] # 0}
      BY <1>1
    <3>3. /\ {q \in Ptr : heap[q] # 0} = live_blocks \cup cached_blocks \cup foreign \cup InTransit
          /\ InTransit \cap (live_blocks \cup cached_blocks \cup foreign) = {}
      BY DEF AllocatorInv, MemoryIsAccounted
    <3>4. QED
      BY <1>1, <1>8, <3>1, <3>2, <3>3
  <2>5. live_blocks' \cap cached_blocks' = {} /\ foreign' \cap (live_blocks' \cup cached_blocks') = {}
    BY <1>1, <1>8 DEF AllocatorInv, MemoryIsAccounted
  <2>6. QED
    BY <1>7, <2>2, <2>3, <2>4, <2>5 DEF MemoryIsAccounted, Apart, Carrying
<1>14. CallsAreTrue'
  BY <1>1, <1>9 DEF AllocatorInv, CallsAreTrue, Idle
<1>15. DescriptorsAreTrue'
  <2>1. \A q \in Ptr : block'[q] = IF q = p THEN key ELSE block[q]
    BY <1>1 DEF AllocatorInv, TypeOK
  <2>2. cached_blocks \subseteq Ptr
    BY DEF AllocatorInv, TypeOK
  <2>3. QED
    BY <1>1, <1>3, <1>4, <1>8, <1>10, <2>1, <2>2 DEF AllocatorInv, DescriptorsAreTrue
<1>16. HeldIsLive'
  <2>1. \A q \in Ptr : held'[q] = IF q = p THEN call[t].want ELSE held[q]
    BY <1>1 DEF AllocatorInv, TypeOK
  <2>2. QED
    BY <1>1, <1>4, <1>5, <1>8, <2>1 DEF AllocatorInv, HeldIsLive, NotHeld
<1>17. QED
  BY <1>12, <1>13, <1>14, <1>15, <1>16 DEF AllocatorInv

LEMMA ReuseInv ==
    ASSUME AllocatorInv, NEW t \in Thread, NEW bytes \in Bytes, NEW s \in CallerStream,
           Reuse(t, bytes, s)
    PROVE  AllocatorInv'
<1> DEFINE key == search_key(bytes, s)
<1>1. PICK p \in suitable(key) :
        /\ block' = [block EXCEPT ![p].stream = s]
        /\ live_blocks' = live_blocks \cup {p}
        /\ cached_blocks' = cached_blocks \ {p}
        /\ cached_bytes' = [free |-> cached_bytes.free - block[p].bytes,
                            live |-> cached_bytes.live + block[p].bytes]
        /\ held' = [held EXCEPT ![p] = bytes]
  BY DEF Reuse
<1>2. /\ key.bin # INVALID_BIN
      /\ UNCHANGED <<heap, max_cached_bytes, deviceVars, foreign, call>>
  BY DEF Reuse
<1>3. p \in cached_blocks /\ block[p].bin = key.bin
  BY DEF suitable
<1>4. s \in Stream /\ key \in Descriptor /\ Binned(key) /\ bytes \in Nat \ {0} /\ bytes <= key.bytes
  BY SearchKeyCovers, AllocatorAssumption
<1> HIDE DEF key
<1>5. /\ p \in Ptr /\ cached_blocks \subseteq Ptr /\ live_blocks \subseteq Ptr
      /\ heap \in [Ptr -> Nat] /\ cached_bytes \in [free : Nat, live : Nat]
  BY <1>3 DEF AllocatorInv, TypeOK
<1>6. block[p] \in Descriptor /\ block[p].bytes = heap[p] /\ Binned(block[p])
  BY <1>3 DEF AllocatorInv, DescriptorsAreTrue
<1>7. key.bytes = heap[p]
  BY <1>2, <1>3, <1>4, <1>6 DEF Binned
<1>8. p \notin live_blocks /\ p \notin foreign
  BY <1>3 DEF AllocatorInv, MemoryIsAccounted
<1> DEFINE d == [block[p] EXCEPT !.stream = s]
<1>9. /\ d \in Descriptor /\ d.bytes = heap[p] /\ d.bin = block[p].bin /\ Binned(d)
  BY <1>4, <1>6 DEF Descriptor, Binned
<1>10. \A q \in Ptr : block'[q] = IF q = p THEN d ELSE block[q]
  BY <1>1 DEF AllocatorInv, TypeOK
<1>11. block' \in [Ptr -> Descriptor \cup {Erased}]
  BY <1>1, <1>5, <1>9 DEF AllocatorInv, TypeOK
<1> HIDE DEF d
<1>12. /\ SumFunctionOnSet(heap, live_blocks \cup {p}) = SumFunctionOnSet(heap, live_blocks) + heap[p]
       /\ SumFunctionOnSet(heap, cached_blocks \ {p}) = SumFunctionOnSet(heap, cached_blocks) - heap[p]
       /\ SumFunctionOnSet(heap, cached_blocks \ {p}) \in Nat
  BY <1>3, <1>5, <1>8, PtrSumAdd, PtrSumRemove
<1>13. /\ cached_bytes.free = SumFunctionOnSet(heap, cached_blocks)
       /\ cached_bytes.live = SumFunctionOnSet(heap, live_blocks)
  BY DEF AllocatorInv, MemoryIsAccounted
<1>14. /\ cached_bytes'.free = SumFunctionOnSet(heap', cached_blocks')
       /\ cached_bytes'.live = SumFunctionOnSet(heap', live_blocks')
       /\ cached_bytes' \in [free : Nat, live : Nat]
  <2>1. heap[p] \in Nat /\ cached_bytes.live \in Nat
    BY <1>5
  <2>2. QED
    BY <1>1, <1>2, <1>6, <1>12, <1>13, <2>1
<1>15. TypeOK'
  BY <1>1, <1>2, <1>5, <1>11, <1>14 DEF AllocatorInv, TypeOK, deviceVars
<1>16. MemoryIsAccounted'
  <2>1. InTransit' = InTransit
    BY <1>2 DEF InTransit
  <2>2. QED
    BY <1>1, <1>2, <1>3, <1>8, <1>14, <2>1 DEF AllocatorInv, MemoryIsAccounted
<1>17. CallsAreTrue'
  BY <1>2 DEF AllocatorInv, CallsAreTrue
<1>18. DescriptorsAreTrue'
  BY <1>1, <1>2, <1>3, <1>5, <1>9, <1>10 DEF AllocatorInv, DescriptorsAreTrue
<1>19. HeldIsLive'
  <2>1. \A q \in Ptr : held'[q] = IF q = p THEN bytes ELSE held[q]
    BY <1>1 DEF AllocatorInv, TypeOK
  <2>2. QED
    BY <1>1, <1>2, <1>4, <1>7, <1>8, <2>1 DEF AllocatorInv, HeldIsLive, NotHeld
<1>20. QED
  BY <1>15, <1>16, <1>17, <1>18, <1>19 DEF AllocatorInv

LEMMA FreeLiveInv ==
    ASSUME AllocatorInv, NEW t \in Thread, NEW p \in Ptr, FreeLive(t, p)
    PROVE  AllocatorInv'
<1> DEFINE size == block[p].bytes
<1>1. /\ call[t] = Idle /\ p \in live_blocks
      /\ held' = [held EXCEPT ![p] = NotHeld] /\ live_blocks' = live_blocks \ {p}
      /\ UNCHANGED <<heap, max_cached_bytes, deviceVars, foreign>>
  BY DEF FreeLive
<1>2. /\ block[p] \in Descriptor /\ size = heap[p] /\ Binned(block[p])
  BY <1>1 DEF AllocatorInv, DescriptorsAreTrue
<1>3. /\ cached_blocks \subseteq Ptr /\ live_blocks \subseteq Ptr /\ call \in [Thread -> Call]
      /\ heap \in [Ptr -> Nat] /\ cached_bytes \in [free : Nat, live : Nat]
  BY DEF AllocatorInv, TypeOK
<1>4. size \in Nat /\ block[p].stream \in Stream
  BY <1>2, <1>3 DEF Descriptor
<1> HIDE DEF size
<1>5. p \notin cached_blocks /\ p \notin foreign /\ p \notin InTransit
  BY <1>1 DEF AllocatorInv, MemoryIsAccounted
<1>6. InTransit = CarriedBy(call) /\ InTransit' = CarriedBy(call') /\ Apart(call)
  BY DEF InTransit, CarriedBy, Carrying, AllocatorInv, MemoryIsAccounted, Apart
<1>7. /\ SumFunctionOnSet(heap, live_blocks \ {p}) = SumFunctionOnSet(heap, live_blocks) - size
      /\ SumFunctionOnSet(heap, live_blocks \ {p}) \in Nat
      /\ SumFunctionOnSet(heap, cached_blocks \cup {p}) = SumFunctionOnSet(heap, cached_blocks) + size
  BY <1>1, <1>2, <1>3, <1>5, PtrSumAdd, PtrSumRemove
<1>8. /\ cached_bytes.free = SumFunctionOnSet(heap, cached_blocks)
      /\ cached_bytes.live = SumFunctionOnSet(heap, live_blocks)
  BY DEF AllocatorInv, MemoryIsAccounted
<1>9. HeldIsLive'
  <2>1. \A q \in Ptr : held'[q] = IF q = p THEN NotHeld ELSE held[q]
    BY <1>1 DEF AllocatorInv, TypeOK
  <2>2. QED
    BY <1>1, <1>3, <2>1 DEF AllocatorInv, HeldIsLive, NotHeld
<1>10. call[t].pc \notin Carrying
  BY <1>1 DEF Idle, Carrying
<1>11. held' \in [Ptr -> Bytes \cup {NotHeld}]
  BY <1>1 DEF AllocatorInv, TypeOK
<1>12. /\ {q \in Ptr : heap[q] # 0} = live_blocks \cup cached_blocks \cup foreign \cup InTransit
       /\ live_blocks \cap cached_blocks = {} /\ foreign \cap (live_blocks \cup cached_blocks) = {}
       /\ InTransit \cap (live_blocks \cup cached_blocks \cup foreign) = {}
  BY DEF AllocatorInv, MemoryIsAccounted
<1>13. CASE fits_cache(p)
  <2> DEFINE x == [pc |-> "record", ptr |-> p, stream |-> block[p].stream]
  <2>1. /\ cached_blocks' = cached_blocks \cup {p}
        /\ cached_bytes' = [free |-> cached_bytes.free + size, live |-> cached_bytes.live - size]
        /\ call' = [call EXCEPT ![t] = x]
        /\ UNCHANGED block
    BY <1>13 DEF FreeLive, size
  <2>2. x \in Call /\ x.pc = "record"
    BY <1>4 DEF Call
  <2> HIDE DEF x
  <2>3. CarriedBy(call') = CarriedBy(call) /\ Apart(call')
    <3>1. x.pc \notin Carrying
      BY <2>2 DEF Carrying
    <3>2. QED
      BY <1>3, <1>6, <1>10, <2>1, <3>1, CarriedSame
  <2>4. /\ cached_bytes'.free = SumFunctionOnSet(heap', cached_blocks')
        /\ cached_bytes'.live = SumFunctionOnSet(heap', live_blocks')
        /\ cached_bytes' \in [free : Nat, live : Nat]
    BY <1>1, <1>3, <1>4, <1>7, <1>8, <2>1
  <2>5. TypeOK'
    BY <1>1, <1>3, <1>11, <2>1, <2>2, <2>4 DEF AllocatorInv, TypeOK, deviceVars
  <2>6. MemoryIsAccounted'
    <3>1. /\ {q \in Ptr : heap'[q] # 0} = live_blocks' \cup cached_blocks' \cup foreign' \cup InTransit'
          /\ InTransit' \cap (live_blocks' \cup cached_blocks' \cup foreign') = {}
      <4>1. InTransit' = InTransit
        BY <1>6, <2>3
      <4>2. {q \in Ptr : heap'[q] # 0} = {q \in Ptr : heap[q] # 0}
        BY <1>1
      <4>3. QED
        BY <1>1, <1>5, <1>12, <2>1, <4>1, <4>2
    <3>2. live_blocks' \cap cached_blocks' = {} /\ foreign' \cap (live_blocks' \cup cached_blocks') = {}
      BY <1>1, <1>5, <1>12, <2>1
    <3>3. QED
      BY <2>3, <2>4, <3>1, <3>2 DEF MemoryIsAccounted, Apart, Carrying
  <2>7. CallsAreTrue'
    <3>1. \A u \in Thread : call'[u] = IF u = t THEN x ELSE call[u]
      BY <1>3, <2>1
    <3>2. QED
      BY <1>1, <2>2, <3>1 DEF AllocatorInv, CallsAreTrue
  <2>8. DescriptorsAreTrue'
    <3>1. block[p].bin # INVALID_BIN
      BY <1>13 DEF fits_cache
    <3>2. QED
      BY <1>1, <1>2, <2>1, <3>1 DEF AllocatorInv, DescriptorsAreTrue
  <2>9. QED
    BY <1>9, <2>5, <2>6, <2>7, <2>8 DEF AllocatorInv
<1>14. CASE ~ fits_cache(p)
  <2> DEFINE x == [pc |-> "release", ptr |-> p]
  <2>1. /\ cached_bytes' = [cached_bytes EXCEPT !.live = @ - size]
        /\ block' = [block EXCEPT ![p] = Erased]
        /\ call' = [call EXCEPT ![t] = x]
        /\ UNCHANGED cached_blocks
    BY <1>14 DEF FreeLive, size
  <2>2. x \in Call /\ x.pc = "release" /\ x.ptr = p
    BY DEF Call
  <2> HIDE DEF x
  <2>3. CarriedBy(call') = CarriedBy(call) \cup {p} /\ Apart(call')
    <3>1. x.pc \in Carrying /\ x.ptr \notin CarriedBy(call)
      BY <1>5, <1>6, <2>2 DEF Carrying
    <3>2. CarriedBy(call') = CarriedBy(call) \cup {x.ptr} /\ (Apart(call) => Apart(call'))
      BY <1>3, <1>10, <2>1, <3>1, CarriedEnter
    <3>3. QED
      BY <1>6, <2>2, <3>2
  <2>4. /\ cached_bytes'.free = SumFunctionOnSet(heap', cached_blocks')
        /\ cached_bytes'.live = SumFunctionOnSet(heap', live_blocks')
        /\ cached_bytes' \in [free : Nat, live : Nat]
    BY <1>1, <1>3, <1>4, <1>7, <1>8, <2>1
  <2>5. TypeOK'
    BY <1>1, <1>3, <1>11, <2>1, <2>2, <2>4 DEF AllocatorInv, TypeOK, deviceVars
  <2>6. MemoryIsAccounted'
    <3>1. /\ {q \in Ptr : heap'[q] # 0} = live_blocks' \cup cached_blocks' \cup foreign' \cup InTransit'
          /\ InTransit' \cap (live_blocks' \cup cached_blocks' \cup foreign') = {}
      <4>1. InTransit' = InTransit \cup {p}
        BY <1>6, <2>3
      <4>2. {q \in Ptr : heap'[q] # 0} = {q \in Ptr : heap[q] # 0}
        BY <1>1
      <4>3. QED
        BY <1>1, <1>5, <1>12, <2>1, <4>1, <4>2
    <3>2. live_blocks' \cap cached_blocks' = {} /\ foreign' \cap (live_blocks' \cup cached_blocks') = {}
      BY <1>1, <1>5, <1>12, <2>1
    <3>3. QED
      BY <2>3, <2>4, <3>1, <3>2 DEF MemoryIsAccounted, Apart, Carrying
  <2>7. CallsAreTrue'
    <3>1. \A u \in Thread : call'[u] = IF u = t THEN x ELSE call[u]
      BY <1>3, <2>1
    <3>2. QED
      BY <1>1, <2>2, <3>1 DEF AllocatorInv, CallsAreTrue
  <2>8. DescriptorsAreTrue'
    <3>1. \A q \in Ptr : q # p => block'[q] = block[q]
      BY <2>1 DEF AllocatorInv, TypeOK
    <3>2. QED
      BY <1>1, <1>3, <1>5, <2>1, <3>1 DEF AllocatorInv, DescriptorsAreTrue
  <2>9. QED
    BY <1>9, <2>5, <2>6, <2>7, <2>8 DEF AllocatorInv
<1>15. QED
  BY <1>13, <1>14

LEMMA ReleaseInv ==
    ASSUME AllocatorInv, NEW t \in Thread, Release(t)
    PROVE  AllocatorInv'
<1> DEFINE p == call[t].ptr
<1>1. /\ call[t].pc = "release" /\ call' = [call EXCEPT ![t] = Idle]
      /\ heap' = [q \in Ptr |-> IF q \in {p} THEN 0 ELSE heap[q]]
      /\ stream' = [s \in Stream |-> <<>>]
      /\ ready_event' = [q \in Ptr |-> IF q \in {p} THEN None ELSE ready_event[q]]
      /\ UNCHANGED <<cacheVars, max_cached_bytes, foreign, held>>
  BY DEF Release, cuda_free
<1>2. call \in [Thread -> Call] /\ Idle \in Call
  BY DEF AllocatorInv, TypeOK, Call
<1>3. p \in Ptr
  BY <1>1, <1>2, CallFields
<1>4. InTransit = CarriedBy(call) /\ InTransit' = CarriedBy(call') /\ Apart(call)
  BY DEF InTransit, CarriedBy, Carrying, AllocatorInv, MemoryIsAccounted, Apart
<1>5. /\ p \in CarriedBy(call) /\ CarriedBy(call') = CarriedBy(call) \ {p} /\ Apart(call')
  <2>1. call[t].pc \in Carrying /\ Idle.pc \notin Carrying
    BY <1>1 DEF Carrying, Idle
  <2>2. QED
    BY <1>1, <1>2, <1>4, <2>1, CarriedLeave
<1>6. p \notin live_blocks \cup cached_blocks \cup foreign
  BY <1>4, <1>5 DEF AllocatorInv, MemoryIsAccounted
<1>7. \A u \in Thread : call'[u] = IF u = t THEN Idle ELSE call[u]
  BY <1>1, <1>2
<1>8. \A u \in Thread : u # t /\ call[u].pc = "insert" => call[u].ptr \in Ptr /\ call[u].ptr # p
  BY <1>1, <1>2, <1>4, CallFields DEF Apart, Carrying
<1> HIDE DEF p
<1>9. heap \in [Ptr -> Nat] /\ cached_blocks \subseteq Ptr /\ live_blocks \subseteq Ptr
  BY DEF AllocatorInv, TypeOK
<1>10. heap' \in [Ptr -> Nat] /\ \A q \in Ptr : heap'[q] = IF q = p THEN 0 ELSE heap[q]
  BY <1>1, <1>9
<1>11. \A q \in live_blocks \cup cached_blocks : heap'[q] = heap[q]
  BY <1>6, <1>9, <1>10
<1>12. TypeOK'
  <2>1. stream' \in [Stream -> Seq(Entry)]
    BY <1>1
  <2>2. ready_event' \in [Ptr -> Stream \cup {None}]
    BY <1>1 DEF AllocatorInv, TypeOK
  <2>3. QED
    BY <1>1, <1>2, <1>10, <2>1, <2>2 DEF AllocatorInv, TypeOK, cacheVars
<1>13. MemoryIsAccounted'
  <2>1. /\ cached_bytes'.free = SumFunctionOnSet(heap', cached_blocks')
        /\ cached_bytes'.live = SumFunctionOnSet(heap', live_blocks')
    BY <1>1, <1>10, <1>11, BalanceFrame
  <2>2. {q \in Ptr : heap'[q] # 0} = {q \in Ptr : heap[q] # 0} \ {p}
    BY <1>10
  <2>3. /\ {q \in Ptr : heap'[q] # 0} = live_blocks' \cup cached_blocks' \cup foreign' \cup InTransit'
        /\ InTransit' \cap (live_blocks' \cup cached_blocks' \cup foreign') = {}
        /\ live_blocks' \cap cached_blocks' = {} /\ foreign' \cap (live_blocks' \cup cached_blocks') = {}
    BY <1>1, <1>4, <1>5, <1>6, <2>2 DEF AllocatorInv, MemoryIsAccounted, cacheVars
  <2>4. QED
    BY <1>5, <2>1, <2>3 DEF MemoryIsAccounted, Apart, Carrying
<1>14. CallsAreTrue'
  BY <1>7, <1>8, <1>10 DEF AllocatorInv, CallsAreTrue, Idle
<1>15. DescriptorsAreTrue'
  BY <1>1, <1>11 DEF AllocatorInv, DescriptorsAreTrue, cacheVars
<1>16. HeldIsLive'
  BY <1>1, <1>6, <1>10 DEF AllocatorInv, HeldIsLive, cacheVars, NotHeld
<1>17. QED
  BY <1>12, <1>13, <1>14, <1>15, <1>16 DEF AllocatorInv

\* The cache goes back to the runtime; a thread may go on from reclaim to retry.
LEMMA FreeAllInv ==
    ASSUME AllocatorInv, free_all, UNCHANGED <<max_cached_bytes, foreign, held>>,
           call' \in [Thread -> Call],
           \A u \in Thread :
               \/ call'[u] = call[u]
               \/ /\ call[u].pc = "reclaim" /\ call'[u].pc = "retry"
                  /\ call'[u].key = call[u].key /\ call'[u].want = call[u].want
    PROVE  AllocatorInv'
<1> DEFINE size == [p \in Ptr |-> block[p].bytes]
<1>1. /\ heap' = [p \in Ptr |-> IF p \in cached_blocks THEN 0 ELSE heap[p]]
      /\ stream' = IF cached_blocks = {} THEN stream ELSE [s \in Stream |-> <<>>]
      /\ ready_event' = [p \in Ptr |-> IF p \in cached_blocks THEN None ELSE ready_event[p]]
      /\ cached_blocks' = {}
      /\ block' = [p \in Ptr |-> IF p \in cached_blocks THEN Erased ELSE block[p]]
      /\ cached_bytes' = [cached_bytes EXCEPT !.free = @ - SumFunctionOnSet(size, cached_blocks)]
      /\ live_blocks' = live_blocks
  BY DEF free_all, cuda_free
<1>2. /\ cached_blocks \subseteq Ptr /\ live_blocks \subseteq Ptr
      /\ heap \in [Ptr -> Nat] /\ cached_bytes \in [free : Nat, live : Nat]
  BY DEF AllocatorInv, TypeOK
<1>3. size \in [Ptr -> Nat]
  BY DEF AllocatorInv, TypeOK, Descriptor, Erased
<1>4. \A p \in cached_blocks : size[p] = heap[p]
  BY <1>2 DEF AllocatorInv, DescriptorsAreTrue
<1> HIDE DEF size
<1>5. SumFunctionOnSet(size, cached_blocks) = SumFunctionOnSet(heap, cached_blocks)
  BY <1>2, <1>3, <1>4, PtrSumSame
<1>6. /\ cached_bytes.free = SumFunctionOnSet(heap, cached_blocks)
      /\ cached_bytes.live = SumFunctionOnSet(heap, live_blocks)
  BY DEF AllocatorInv, MemoryIsAccounted
<1>7. /\ cached_bytes'.free = 0 /\ cached_bytes'.live = cached_bytes.live
      /\ cached_bytes' \in [free : Nat, live : Nat]
  <2>1. cached_bytes' = [cached_bytes EXCEPT !.free = cached_bytes.free - cached_bytes.free]
    BY <1>1, <1>5, <1>6
  <2>2. cached_bytes.free \in Nat /\ cached_bytes.free - cached_bytes.free = 0
    BY <1>2
  <2>3. QED
    BY <1>2, <2>1, <2>2
<1>8. heap' \in [Ptr -> Nat] /\ \A p \in Ptr : heap'[p] = IF p \in cached_blocks THEN 0 ELSE heap[p]
  BY <1>1, <1>2
<1>9. /\ live_blocks \cap cached_blocks = {} /\ foreign \cap cached_blocks = {}
      /\ InTransit \cap cached_blocks = {}
  BY DEF AllocatorInv, MemoryIsAccounted
<1>10. InTransit = CarriedBy(call) /\ InTransit' = CarriedBy(call') /\ Apart(call)
  BY DEF InTransit, CarriedBy, Carrying, AllocatorInv, MemoryIsAccounted, Apart
<1>11. CarriedBy(call') = CarriedBy(call) /\ Apart(call')
  <2>1. \A u \in Thread : call'[u].pc \in Carrying <=> call[u].pc \in Carrying
    BY DEF Carrying
  <2>2. \A u \in Thread : call[u].pc \in Carrying => call'[u].ptr = call[u].ptr
    BY DEF Carrying
  <2>3. QED
    BY <1>10, <2>1, <2>2 DEF CarriedBy, Apart
<1>12. TypeOK'
  <2>1. stream' \in [Stream -> Seq(Entry)]
    BY <1>1 DEF AllocatorInv, TypeOK
  <2>2. ready_event' \in [Ptr -> Stream \cup {None}] /\ block' \in [Ptr -> Descriptor \cup {Erased}]
    BY <1>1 DEF AllocatorInv, TypeOK
  <2>3. QED
    BY <1>1, <1>7, <1>8, <2>1, <2>2 DEF AllocatorInv, TypeOK
<1>13. MemoryIsAccounted'
  <2>1. SumFunctionOnSet(heap', live_blocks) = SumFunctionOnSet(heap, live_blocks)
    BY <1>2, <1>8, <1>9, PtrSumSame
  <2>2. SumFunctionOnSet(heap', {}) = 0
    BY SumEmpty
  <2>3. {q \in Ptr : heap'[q] # 0} = {q \in Ptr : heap[q] # 0} \ cached_blocks
    BY <1>8
  <2>4. {q \in Ptr : heap[q] # 0} = live_blocks \cup cached_blocks \cup foreign \cup InTransit
    BY DEF AllocatorInv, MemoryIsAccounted
  <2>5. {q \in Ptr : heap'[q] # 0} = live_blocks' \cup cached_blocks' \cup foreign' \cup InTransit'
    BY <1>1, <1>9, <1>10, <1>11, <2>3, <2>4
  <2>6. /\ InTransit' \cap (live_blocks' \cup cached_blocks' \cup foreign') = {}
        /\ live_blocks' \cap cached_blocks' = {} /\ foreign' \cap (live_blocks' \cup cached_blocks') = {}
    BY <1>1, <1>10, <1>11 DEF AllocatorInv, MemoryIsAccounted
  <2>7. QED
    BY <1>1, <1>6, <1>7, <1>11, <2>1, <2>2, <2>5, <2>6 DEF MemoryIsAccounted, Apart, Carrying
<1>14. CallsAreTrue'
  <2>1. \A u \in Thread : call[u].pc = "insert" => call[u].ptr \in Ptr \ cached_blocks
    <3>1. \A u \in Thread : call[u].pc = "insert" => call[u].ptr \in InTransit
      BY DEF InTransit
    <3>2. \A u \in Thread : call[u].pc = "insert" => call[u].ptr \in Ptr
      BY CallFields DEF AllocatorInv, TypeOK
    <3>3. QED
      BY <1>9, <3>1, <3>2
  <2>2. QED
    BY <1>8, <2>1 DEF AllocatorInv, CallsAreTrue
<1>15. DescriptorsAreTrue'
  <2>1. \A p \in live_blocks : heap'[p] = heap[p] /\ block'[p] = block[p]
    BY <1>1, <1>2, <1>8, <1>9
  <2>2. \A p \in live_blocks : block[p] \in Descriptor /\ block[p].bytes = heap[p] /\ Binned(block[p])
    BY DEF AllocatorInv, DescriptorsAreTrue
  <2>3. \A p \in live_blocks : block'[p] \in Descriptor /\ block'[p].bytes = heap'[p] /\ Binned(block'[p])
    BY <2>1, <2>2
  <2>4. QED
    BY <1>1, <2>3 DEF DescriptorsAreTrue, Binned
<1>16. HeldIsLive'
  <2>1. \A p \in Ptr : p \in cached_blocks => held[p] = 0
    BY <1>9 DEF AllocatorInv, HeldIsLive, NotHeld
  <2>2. QED
    BY <1>1, <1>8, <2>1 DEF AllocatorInv, HeldIsLive
<1>17. QED
  BY <1>12, <1>13, <1>14, <1>15, <1>16 DEF AllocatorInv

LEMMA ReclaimInv ==
    ASSUME AllocatorInv, NEW t \in Thread, Reclaim(t)
    PROVE  AllocatorInv'
<1>1. /\ call[t].pc = "reclaim" /\ free_all /\ call' = [call EXCEPT ![t].pc = "retry"]
      /\ UNCHANGED <<max_cached_bytes, foreign, held>>
  BY DEF Reclaim
<1> DEFINE x == [call[t] EXCEPT !.pc = "retry"]
<1>2. /\ call \in [Thread -> Call] /\ call[t].key \in Descriptor /\ call[t].want \in Bytes
      /\ call[t] = [pc |-> call[t].pc, key |-> call[t].key, want |-> call[t].want]
  BY <1>1, CallFields DEF AllocatorInv, TypeOK
<1>3. x = [pc |-> "retry", key |-> call[t].key, want |-> call[t].want]
  BY <1>2
<1>4. x \in Call /\ x.pc = "retry" /\ x.key = call[t].key /\ x.want = call[t].want
  BY <1>2, <1>3 DEF Call
<1>5. call' = [call EXCEPT ![t] = x]
  BY <1>1, <1>2
<1> HIDE DEF x
<1>6. call' \in [Thread -> Call] /\ \A u \in Thread : call'[u] = IF u = t THEN x ELSE call[u]
  BY <1>2, <1>4, <1>5
<1>7. QED
  BY <1>1, <1>4, <1>6, FreeAllInv

LEMMA FreeAllCachedInv ==
    ASSUME AllocatorInv, NEW t \in Thread, FreeAllCached(t)
    PROVE  AllocatorInv'
  BY FreeAllInv DEF FreeAllCached, AllocatorInv, TypeOK

LEMMA StutterInv ==
    ASSUME AllocatorInv, UNCHANGED vars
    PROVE  AllocatorInv'
  BY DeviceStep DEF vars, deviceVars, AllocatorInv, TypeOK

LEMMA NextInv == AllocatorInv /\ [Next]_vars => AllocatorInv'
<1> SUFFICES ASSUME AllocatorInv, [Next]_vars PROVE AllocatorInv'
  OBVIOUS
<1>1. ASSUME NEW t \in Thread, NEW bytes \in Bytes, NEW s \in CallerStream, Reuse(t, bytes, s)
      PROVE  AllocatorInv'
  BY <1>1, ReuseInv
<1>2. ASSUME NEW t \in Thread, NEW bytes \in Bytes, NEW s \in CallerStream, Miss(t, bytes, s)
      PROVE  AllocatorInv'
  BY <1>2, MissInv
<1>3. ASSUME NEW t \in Thread,
             CudaMalloc(t) \/ CudaMallocFails(t) \/ Reclaim(t) \/ InsertLive(t)
      PROVE  AllocatorInv'
  BY <1>3, CudaMallocInv, CudaMallocFailsInv, ReclaimInv, InsertLiveInv
<1>4. ASSUME NEW t \in Thread, NEW p \in Ptr, FreeLive(t, p) \/ FreeForeign(t, p)
      PROVE  AllocatorInv'
  BY <1>4, FreeLiveInv, FreeForeignInv
<1>5. ASSUME NEW t \in Thread, RecordEvent(t) \/ Release(t) \/ FreeAllCached(t)
      PROVE  AllocatorInv'
  BY <1>5, RecordEventInv, ReleaseInv, FreeAllCachedInv
<1>6. ASSUME NEW n \in Limit, SetMaxCachedBytes(n) PROVE AllocatorInv'
  BY <1>6, SetMaxCachedBytesInv
<1>7. ASSUME NEW p \in Ptr, NEW bytes \in Bytes, ForeignMalloc(p, bytes) PROVE AllocatorInv'
  BY <1>7, ForeignMallocInv
<1>8. ASSUME NEW p \in Ptr, NEW s \in Stream, Launch(p, s) PROVE AllocatorInv'
  BY <1>8, LaunchInv
<1>9. ASSUME NEW s \in Stream, RunEntry(s) PROVE AllocatorInv'
  BY <1>9, RunEntryInv
<1>10. ASSUME UNCHANGED vars PROVE AllocatorInv'
  BY <1>10, StutterInv
<1>11. QED
  BY <1>1, <1>2, <1>3, <1>4, <1>5, <1>6, <1>7, <1>8, <1>9, <1>10 DEF Next

\* The invariant of the allocator: memory is accounted for, and the block
\* descriptors, the calls in progress and what programs hold agree with it.
THEOREM AllocatorInvariant == Spec => []AllocatorInv
  BY InitInv, NextInv, PTL DEF Spec

\* The variables keep their types; in particular the two balances of
\* cached_bytes never become negative, which as size_t they would wrap around.
THEOREM AllocatorTypes == Spec => []TypeOK
<1>1. AllocatorInv => TypeOK
  BY DEF AllocatorInv
<1>2. QED
  BY <1>1, AllocatorInvariant, PTL

\* Between the threads, the cache and the runtime no memory is lost or held
\* twice, and the balances are the bytes of the blocks.
THEOREM MemoryAccounted == Spec => []MemoryIsAccounted
<1>1. AllocatorInv => MemoryIsAccounted
  BY DEF AllocatorInv
<1>2. QED
  BY <1>1, AllocatorInvariant, PTL

----------------------------------------------------------------------------
(* The limit of the cache *)

\* A step that caches more ends within max_cached_bytes.
LEMMA LimitStep ==
    ASSUME AllocatorInv, [Next]_vars, cached_bytes'.free > cached_bytes.free
    PROVE  cached_bytes'.free <= max_cached_bytes'
<1>1. cached_bytes \in [free : Nat, live : Nat]
  BY DEF AllocatorInv, TypeOK
<1>2. cached_bytes' # cached_bytes
  BY <1>1
<1>3. ASSUME NEW t \in Thread, NEW bytes \in Bytes, NEW s \in CallerStream, Reuse(t, bytes, s)
      PROVE  FALSE
  <2>1. PICK p \in cached_blocks : cached_bytes'.free = cached_bytes.free - block[p].bytes
    BY <1>3 DEF Reuse, suitable
  <2>2. block[p].bytes \in Nat
    BY DEF AllocatorInv, DescriptorsAreTrue, Descriptor
  <2>3. QED
    BY <1>1, <2>1, <2>2
<1>4. ASSUME free_all PROVE FALSE
  <2>1. cached_bytes'.free = cached_bytes.free - SumFunctionOnSet([p \in Ptr |-> block[p].bytes], cached_blocks)
    BY <1>1, <1>4 DEF free_all
  <2>2. [p \in Ptr |-> block[p].bytes] \in [Ptr -> Nat] /\ cached_blocks \subseteq Ptr
    BY DEF AllocatorInv, TypeOK, Descriptor, Erased
  <2>3. SumFunctionOnSet([p \in Ptr |-> block[p].bytes], cached_blocks) \in Nat
    BY <2>2, PtrSum
  <2>4. QED
    BY <1>1, <2>1, <2>3
<1>5. ASSUME NEW t \in Thread, NEW p \in Ptr, FreeLive(t, p)
      PROVE  cached_bytes'.free <= max_cached_bytes'
  <2>1. CASE fits_cache(p)
    <3>1. cached_bytes'.free = cached_bytes.free + block[p].bytes /\ max_cached_bytes' = max_cached_bytes
      BY <1>5, <2>1 DEF FreeLive
    <3>2. QED
      BY <2>1, <3>1 DEF fits_cache
  <2>2. CASE ~ fits_cache(p)
    <3>1. cached_bytes' = [cached_bytes EXCEPT !.live = @ - block[p].bytes]
      BY <1>5, <2>2 DEF FreeLive
    <3>2. cached_bytes'.free = cached_bytes.free
      BY <1>1, <3>1
    <3>3. QED
      BY <1>1, <3>2
  <2>3. QED
    BY <2>1, <2>2
<1>6. ASSUME NEW t \in Thread, InsertLive(t) PROVE FALSE
  <2>1. cached_bytes' = [cached_bytes EXCEPT !.live = @ + call[t].key.bytes]
    BY <1>6 DEF InsertLive
  <2>2. cached_bytes'.free = cached_bytes.free
    BY <1>1, <2>1
  <2>3. QED
    BY <1>1, <2>2
<1>7. CASE Next
  BY <1>2, <1>3, <1>4, <1>5, <1>6, <1>7
     DEF Next, Miss, CudaMalloc, CudaMallocFails, Reclaim, FreeForeign, RecordEvent, Release,
         FreeAllCached, SetMaxCachedBytes, ForeignMalloc, Launch, RunEntry, cacheVars
<1>8. CASE UNCHANGED vars
  BY <1>2, <1>8 DEF vars, cacheVars
<1>9. QED
  BY <1>7, <1>8

\* Returning a block never takes the cache over max_cached_bytes, also when
\* SetMaxCachedBytes lowered the limit below what is cached.
THEOREM CacheWithinLimit == Spec => CacheGrowsWithinLimit
<1>1. AllocatorInv /\ [Next]_vars
        => [cached_bytes'.free > cached_bytes.free => cached_bytes'.free <= max_cached_bytes']_vars
  BY LimitStep
<1>2. QED
  BY <1>1, AllocatorInvariant, PTL DEF Spec, CacheGrowsWithinLimit

----------------------------------------------------------------------------
(* The allocator is a heap *)

\* A step that leaves what programs hold alone, and the memory behind it.
LEMMA ReserveStep ==
    ASSUME AllocatorInv, UNCHANGED held, \A p \in live_blocks : heap'[p] = heap[p]
    PROVE  Heap!HeapNext
  BY DEF AllocatorInv, HeldIsLive, Heap!HeapNext, Heap!Reserve, Heap!HeldIsStable, Heap!NotHeld, NotHeld

\* Every step of the allocator is a step of the heap.
LEMMA HeapStep ==
    ASSUME AllocatorInv, Next
    PROVE  Heap!HeapNext
<1>1. live_blocks \subseteq Ptr /\ cached_blocks \subseteq Ptr /\ heap \in [Ptr -> Nat]
  BY DEF AllocatorInv, TypeOK
<1>2. ASSUME NEW t \in Thread, NEW bytes \in Bytes, NEW s \in CallerStream, Reuse(t, bytes, s)
      PROVE  Heap!HeapNext
  <2> DEFINE key == search_key(bytes, s)
  <2>1. PICK p \in cached_blocks : block[p].bin = key.bin /\ held' = [held EXCEPT ![p] = bytes]
    BY <1>2 DEF Reuse, suitable
  <2>2. key.bin # INVALID_BIN /\ heap' = heap
    BY <1>2 DEF Reuse
  <2>3. Binned(key) /\ bytes <= key.bytes
    BY SearchKeyCovers, AllocatorAssumption
  <2> HIDE DEF key
  <2>4. block[p].bytes = heap[p] /\ Binned(block[p])
    BY DEF AllocatorInv, DescriptorsAreTrue
  <2>5. bytes <= heap[p]
    BY <2>1, <2>2, <2>3, <2>4 DEF Binned
  <2>6. p \in Ptr /\ held[p] = NotHeld
    BY <1>1 DEF AllocatorInv, MemoryIsAccounted, HeldIsLive
  <2>7. bytes \in Nat /\ heap[p] \in Nat
    BY <1>1, <2>6, AllocatorAssumption
  <2>8. Heap!Malloc(p, bytes)
    BY <2>1, <2>2, <2>5, <2>6, <2>7 DEF Heap!Malloc, Heap!NotHeld, NotHeld
  <2>9. QED
    BY <2>2, <2>6, <2>8 DEF Heap!HeapNext, Heap!HeldIsStable
<1>3. ASSUME NEW t \in Thread, InsertLive(t) PROVE Heap!HeapNext
  <2> DEFINE p == call[t].ptr
  <2> DEFINE bytes == call[t].want
  <2>1. call[t].pc = "insert" /\ held' = [held EXCEPT ![p] = bytes] /\ heap' = heap
    BY <1>3 DEF InsertLive
  <2>2. p \in Ptr /\ bytes \in Bytes /\ call[t].key.bytes \in Nat
    BY <2>1, CallFields DEF AllocatorInv, TypeOK, Descriptor
  <2>3. bytes <= heap[p] /\ heap[p] \in Nat /\ bytes \in Nat
    BY <1>1, <2>1, <2>2, AllocatorAssumption DEF AllocatorInv, CallsAreTrue
  <2>4. p \in InTransit
    BY <2>1 DEF InTransit
  <2>5. held[p] = NotHeld
    BY <2>2, <2>4 DEF AllocatorInv, MemoryIsAccounted, HeldIsLive
  <2> HIDE DEF p, bytes
  <2>6. Heap!Malloc(p, bytes)
    BY <2>1, <2>3, <2>5 DEF Heap!Malloc, Heap!NotHeld, NotHeld
  <2>7. QED
    BY <2>1, <2>2, <2>6 DEF Heap!HeapNext, Heap!HeldIsStable
<1>4. ASSUME NEW t \in Thread, NEW p \in Ptr, FreeLive(t, p) PROVE Heap!HeapNext
  <2>1. held[p] # NotHeld /\ held' = [held EXCEPT ![p] = NotHeld] /\ heap' = heap
    BY <1>4 DEF FreeLive
  <2>2. Heap!Free(p)
    BY <2>1 DEF Heap!Free, Heap!NotHeld, NotHeld
  <2>3. QED
    BY <2>1, <2>2 DEF Heap!HeapNext, Heap!HeldIsStable
<1>5. ASSUME NEW p \in Ptr, NEW size, heap[p] = 0, heap' = [heap EXCEPT ![p] = size], UNCHANGED held
      PROVE  Heap!HeapNext
  <2>1. p \notin live_blocks
    BY <1>5, FreshPointer
  <2>2. \A q \in live_blocks : heap'[q] = heap[q]
    BY <1>1, <1>5, <2>1
  <2>3. QED
    BY <1>5, <2>2, ReserveStep
<1>6. ASSUME NEW ps, ps \cap live_blocks = {}, cuda_free(ps), UNCHANGED held
      PROVE  Heap!HeapNext
  <2>1. \A q \in live_blocks : heap'[q] = heap[q]
    BY <1>1, <1>6 DEF cuda_free
  <2>2. QED
    BY <1>6, <2>1, ReserveStep
<1>7. ASSUME NEW t \in Thread, CudaMalloc(t) PROVE Heap!HeapNext
  <2>1. PICK p \in Ptr : heap[p] = 0 /\ heap' = [heap EXCEPT ![p] = call[t].key.bytes]
    BY <1>7 DEF CudaMalloc
  <2>2. UNCHANGED held
    BY <1>7 DEF CudaMalloc
  <2>3. QED
    BY <1>5, <2>1, <2>2
<1>8. ASSUME NEW p \in Ptr, NEW bytes \in Bytes, ForeignMalloc(p, bytes) PROVE Heap!HeapNext
  BY <1>5, <1>8 DEF ForeignMalloc
<1>9. ASSUME free_all, UNCHANGED held PROVE Heap!HeapNext
  <2>1. cached_blocks \cap live_blocks = {}
    BY DEF AllocatorInv, MemoryIsAccounted
  <2>2. QED
    BY <1>6, <1>9, <2>1 DEF free_all
<1>10. ASSUME NEW t \in Thread, Release(t) PROVE Heap!HeapNext
  <2>1. call[t].ptr \in InTransit
    BY <1>10 DEF Release, InTransit
  <2>2. {call[t].ptr} \cap live_blocks = {}
    BY <2>1 DEF AllocatorInv, MemoryIsAccounted
  <2>3. QED
    BY <1>6, <1>10, <2>2 DEF Release
<1>11. ASSUME UNCHANGED <<heap, held>> PROVE Heap!HeapNext
  BY <1>11, ReserveStep
<1>12. QED
  BY <1>2, <1>3, <1>4, <1>7, <1>8, <1>9, <1>10, <1>11
     DEF Next, Miss, CudaMallocFails, Reclaim, FreeForeign, RecordEvent, FreeAllCached,
         SetMaxCachedBytes, Launch, RunEntry

\* The caching allocator implements the heap a program sees behind cudaMalloc
\* and cudaFree: whatever the cache, the reclaiming and the other threads do, a
\* pointer has one holder, and its memory is as large as was asked for and stays
\* while it is held.
THEOREM AllocatorImplementsHeap == Spec => HeapSpec
<1>1. Init => Heap!HeapInit
  BY DEF Init, Heap!HeapInit, Heap!NotHeld, NotHeld
<1>2. AllocatorInv /\ [Next]_vars => [Heap!HeapNext]_(Heap!heapVars)
  <2>1. UNCHANGED vars => UNCHANGED Heap!heapVars
    BY DEF vars, Heap!heapVars
  <2>2. QED
    BY <2>1, HeapStep
<1>3. QED
  BY <1>1, <1>2, AllocatorInvariant, PTL DEF Spec, HeapSpec, Heap!HeapSpec
=============================================================================
