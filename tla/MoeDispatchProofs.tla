-------------------------- MODULE MoeDispatchProofs --------------------------
(***************************************************************************)
(* Proofs about MoeDispatch, for every number of experts, elements and     *)
(* threads.  The threads of moe_compute_index (the index path), which meet *)
(* only at their barriers and draw slots from shared counters by atomic    *)
(* additions, return a list of the routed elements, expert by expert, and  *)
(* its inverse.  The kernels of moe_align_block_size (general, small and   *)
(* batched paths, with and without the LoRA adapter) give every routed     *)
(* element one slot in a block of its expert; the small one if no id is    *)
(* past the experts (IdsInRange), which it does not check.                 *)
(***************************************************************************)
EXTENDS MoeDispatch, LibraryLemmas

----------------------------------------------------------------------------
(* The inductive invariant of the index path *)

\* The geometry of the index path.
Items == 0 .. numel - 1
Width == IF num_experts >= numel THEN num_experts ELSE numel
Runners == 0 .. Width - 1

\* The first slot of expert e, from the counts c.
Base(c, e) == SumFunctionOnSet(c, 0 .. e - 1)

\* The elements of expert e: all, those counted, and those that drew a slot.
Own(e) == {i \in Items : topk_ids[i] = e}
Counted(e) == {i \in Own(e) : stage[i] > 1 \/ next[i] # i}
Taken(e) == {i \in Own(e) : \/ stage[i] > 3
                            \/ stage[i] = 3 /\ next[i] # i
                            \/ rank[i] # NoExpert}

\* The slot element i drew: in the register of its thread, or stored.
slot(i) == IF rank[i] # NoExpert THEN rank[i] ELSE src_dst[i]

IndexInput ==
    /\ <<path, adapter>> \in Modes /\ adapter = "none"
    /\ topk_ids \in [Items -> -1 .. num_experts]
    /\ expert_map = NoMap /\ ignore_invalid = FALSE
    /\ fill \in [Fill -> BOOLEAN] /\ fill_reset = FALSE

\* Every thread handles at most one element, since there are enough threads.
IndexShape ==
    /\ stage \in [Runners -> 1 .. 5]
    /\ next \in [Runners -> Nat] /\ \A t \in Runners : next[t] = t \/ next[t] = t + Width
    /\ rank \in [Runners -> Nat \cup {NoExpert}]
    /\ counts \in [0 .. Width -> [Expert -> Nat]]
    /\ cumsum \in [0 .. num_experts -> Nat]
    /\ sorted_token_ids \in [Items -> Nat]
    /\ expert_ids = [b \in 0 .. CEILDIV(numel, block_size) - 1 |-> Garbage]
    /\ total_tokens_post_pad \in Nat
    /\ src_dst \in [Items -> Nat]

\* The barriers keep the threads within one stage of each other, and slots are
\* drawn only when all offsets are there.
InStep ==
    /\ \A t, u \in Runners : stage[t] <= stage[u] + 1
    /\ \A e \in Expert : \A i \in Taken(e) : \A u \in Runners : stage[u] >= 3

\* A thread holds a slot only between its atomicAdd and its store.
HoldsSlot ==
    \A t \in Runners : rank[t] # NoExpert =>
        stage[t] = 3 /\ next[t] = t /\ t \in Items /\ topk_ids[t] \in Expert

CountsRight == \A e \in Expert : counts[0][e] = Cardinality(Counted(e))

OffsetsRight ==
    \A e \in Expert : stage[e] > 2 => cumsum[e] = Base(counts[0], e) + Cardinality(Taken(e))

\* The slots drawn from an offset are the first ones of its expert, one each.
SlotsRight ==
    \A e \in Expert :
        /\ {slot(i) : i \in Taken(e)}
              = Base(counts[0], e) .. Base(counts[0], e) + Cardinality(Taken(e)) - 1
        /\ \A i, j \in Taken(e) : slot(i) = slot(j) => i = j
        /\ \A i \in Taken(e) : rank[i] = NoExpert => sorted_token_ids[src_dst[i]] = i

IndexKept ==
    /\ IndexInput /\ IndexShape /\ InStep /\ HoldsSlot
    /\ CountsRight /\ OffsetsRight /\ SlotsRight

IndexInv == path = "index" => IndexKept

----------------------------------------------------------------------------
(* Offsets *)

\* An offset is a number, the offsets start at 0, the next one is larger by the
\* count, and they never go down.
LEMMA BaseFacts ==
    ASSUME NEW c \in [Expert -> Nat]
    PROVE  /\ \A e \in 0 .. num_experts : Base(c, e) \in Nat
           /\ Base(c, 0) = 0
           /\ \A e \in Expert : Base(c, e + 1) = Base(c, e) + c[e]
           /\ \A d, e \in 0 .. num_experts : d <= e => Base(c, d) <= Base(c, e)
<1>0. num_experts \in Nat
  BY MoeAssumption
<1>1. ASSUME NEW e \in 0 .. num_experts
      PROVE  IsFiniteSet(0 .. e - 1) /\ \A x \in 0 .. e - 1 : c[x] \in Nat
  <2>1. e \in Int /\ e - 1 \in Int /\ \A x \in 0 .. e - 1 : x \in Expert
    BY <1>0 DEF Expert
  <2>2. IsFiniteSet(0 .. e - 1)
    BY <2>1, FS_Interval
  <2>3. QED
    BY <2>1, <2>2
<1>2. \A e \in 0 .. num_experts : Base(c, e) \in Nat
  BY <1>1, SumNat DEF Base
<1>3. Base(c, 0) = 0
  <2>1. 0 .. 0 - 1 = {}
    OBVIOUS
  <2>2. QED
    BY <2>1, SumEmpty DEF Base
<1>4. ASSUME NEW e \in Expert
      PROVE  Base(c, e + 1) = Base(c, e) + c[e]
  <2>1. e \in 0 .. num_experts /\ e \notin 0 .. e - 1 /\ 0 .. (e + 1) - 1 = (0 .. e - 1) \cup {e}
    BY <1>0 DEF Expert
  <2>2. \A x \in (0 .. e - 1) \cup {e} : c[x] \in Int
    BY <1>1, <2>1
  <2>3. IsFiniteSet(0 .. e - 1)
    BY <1>1, <2>1
  <2>4. SumFunctionOnSet(c, (0 .. e - 1) \cup {e}) = c[e] + SumFunctionOnSet(c, 0 .. e - 1)
    BY <2>1, <2>2, <2>3, SumAdd
  <2>5. Base(c, e) \in Nat /\ c[e] \in Nat
    BY <1>2, <2>1
  <2>6. Base(c, e + 1) = SumFunctionOnSet(c, (0 .. e - 1) \cup {e})
    BY <2>1 DEF Base
  <2>7. QED
    BY <2>4, <2>5, <2>6 DEF Base
<1>5. ASSUME NEW d \in 0 .. num_experts, NEW e \in 0 .. num_experts, d <= e
      PROVE  Base(c, d) <= Base(c, e)
  <2>1. 0 .. d - 1 \subseteq 0 .. e - 1
    BY <1>0, <1>5
  <2>2. QED
    BY <1>1, <2>1, SumPart DEF Base
<1>6. QED
  BY <1>2, <1>3, <1>4, <1>5

\* Every slot in use belongs to an expert.
LEMMA SlotHasExpert ==
    ASSUME NEW c \in [Expert -> Nat], NEW k \in 0 .. Base(c, num_experts) - 1
    PROVE  \E e \in Expert : k \in Base(c, e) .. Base(c, e + 1) - 1
<1>0. num_experts \in Nat /\ Expert = 0 .. num_experts - 1
  BY MoeAssumption DEF Expert
<1>1. /\ \A e \in 0 .. num_experts : Base(c, e) \in Nat
      /\ Base(c, 0) = 0
  BY BaseFacts
<1> DEFINE Beyond == {e \in 0 .. num_experts : k < Base(c, e)}
<1>2. Beyond \subseteq Nat /\ num_experts \in Beyond
  BY <1>0, <1>1
<1>3. PICK m \in Beyond : \A e \in Beyond : m <= e
  <2> HIDE DEF Beyond
  <2>1. QED
    BY <1>2, NatMinimum
<1>4. m \in 0 .. num_experts /\ k < Base(c, m) /\ m # 0
  BY <1>0, <1>1
<1>5. m - 1 \in Expert /\ m - 1 \in 0 .. num_experts /\ (m - 1) + 1 = m
  BY <1>0, <1>4
<1>6. Base(c, m - 1) <= k
  BY <1>0, <1>1, <1>3, <1>5
<1>7. QED
  BY <1>0, <1>1, <1>4, <1>5, <1>6

\* The elements that name an expert are no fewer than the slots.
LEMMA SlotsFit ==
    ASSUME NEW c \in [Expert -> Nat], NEW f, NEW S, IsFiniteSet(S),
           \A e \in Expert : c[e] = Cardinality({i \in S : f[i] = e})
    PROVE  Base(c, num_experts) <= Cardinality(S)
<1>0. num_experts \in Nat /\ Expert = 0 .. num_experts - 1
  BY MoeAssumption DEF Expert
<1>1. /\ \A e \in 0 .. num_experts : Base(c, e) \in Nat
      /\ Base(c, 0) = 0
      /\ \A e \in Expert : Base(c, e + 1) = Base(c, e) + c[e]
  BY BaseFacts
<1> DEFINE Below(e) == {i \in S : f[i] \in 0 .. e - 1}
           Bad == {e \in 0 .. num_experts : Base(c, e) # Cardinality(Below(e))}
<1>2. Bad = {}
  <2> SUFFICES ASSUME Bad # {} PROVE FALSE
    OBVIOUS
  <2>1. PICK m \in Bad : \A e \in Bad : m <= e
    <3>1. Bad \subseteq Nat
      BY <1>0
    <3> HIDE DEF Bad
    <3>2. QED
      BY <3>1, NatMinimum
  <2>2. m \in 0 .. num_experts /\ Base(c, m) # Cardinality(Below(m))
    OBVIOUS
  <2>3. m # 0
    <3>1. Below(0) = {}
      OBVIOUS
    <3>2. Cardinality(Below(0)) = 0
      BY <3>1, FS_EmptySet
    <3>3. QED
      BY <1>1, <2>2, <3>2
  <2> DEFINE d == m - 1
  <2>4. d \in Expert /\ d \in 0 .. num_experts /\ d + 1 = m /\ d < m
    BY <1>0, <2>2, <2>3
  <2>5. Base(c, d) = Cardinality(Below(d))
    BY <1>0, <2>1, <2>4
  <2> DEFINE D == {i \in S : f[i] = d}
  <2>6. Below(m) = Below(d) \cup D /\ Below(d) \cap D = {}
    <3>1. \A x : x \in 0 .. m - 1 <=> x \in 0 .. d - 1 \/ x = d
      BY <1>0, <2>4
    <3>2. d \notin 0 .. d - 1
      BY <1>0, <2>4
    <3> HIDE DEF d
    <3>3. QED
      BY <3>1, <3>2
  <2>7. IsFiniteSet(Below(d)) /\ IsFiniteSet(D)
    <3>1. Below(d) \in SUBSET S /\ D \in SUBSET S
      OBVIOUS
    <3>2. QED
      BY <3>1, FS_Subset
  <2>8. Cardinality(Below(m)) = Cardinality(Below(d)) + Cardinality(D)
    <3>1. Cardinality(Below(d) \cup D)
             = Cardinality(Below(d)) + Cardinality(D) - Cardinality(Below(d) \cap D)
      BY <2>7, FS_Union
    <3>2. Cardinality(Below(d) \cap D) = 0
      BY <2>6, FS_EmptySet
    <3>3. Cardinality(Below(d)) \in Nat /\ Cardinality(D) \in Nat
      BY <2>7, FS_CardinalityType
    <3> HIDE DEF Below, D, d
    <3>4. QED
      BY <2>6, <3>1, <3>2, <3>3
  <2>9. c[d] = Cardinality(D)
    BY <2>4
  <2>10. Base(c, d + 1) = Base(c, d) + c[d]
    BY <1>1, <2>4
  <2> HIDE DEF Below, D
  <2>11. QED
    BY <2>2, <2>4, <2>5, <2>8, <2>9, <2>10
<1>3. Base(c, num_experts) = Cardinality(Below(num_experts))
  BY <1>0, <1>2
<1>4. Below(num_experts) \in SUBSET S
  OBVIOUS
<1>5. QED
  BY <1>3, <1>4, FS_Subset

----------------------------------------------------------------------------
(* The index path *)

LEMMA LargerOfTwo ==
    ASSUME NEW a \in Nat, NEW b \in Nat
    PROVE  Max({a, b}) = IF a >= b THEN a ELSE b
<1> DEFINE m == IF a >= b THEN a ELSE b
<1>1. m \in {a, b} /\ \A y \in {a, b} : m >= y
  OBVIOUS
<1>2. \A x \in {a, b} : (\A y \in {a, b} : x >= y) => x = m
  OBVIOUS
<1>3. Max({a, b}) \in {a, b} /\ \A y \in {a, b} : Max({a, b}) >= y
  <2> HIDE DEF m
  <2>1. QED
    BY <1>1 DEF Max
<1>4. QED
  BY <1>2, <1>3

LEMMA Sizes ==
    /\ numel \in Nat \ {0} /\ num_experts \in Nat \ {0} /\ block_size \in Nat \ {0}
    /\ Garbage \in Nat
    /\ Width \in Nat \ {0} /\ num_experts <= Width /\ numel <= Width
    /\ Items \subseteq Runners /\ Expert \subseteq Runners /\ Runners \subseteq Nat
    /\ Expert \subseteq Nat /\ NoExpert \notin Nat /\ NoExpert \notin Expert
    /\ IsFiniteSet(Items) /\ Cardinality(Items) = numel
<1>1. numel \in Nat \ {0} /\ num_experts \in Nat \ {0} /\ block_size \in Nat \ {0} /\ Garbage \in Nat
  BY MoeAssumption
<1>2. IsFiniteSet(Items) /\ Cardinality(Items) = numel
  BY <1>1, FS_Interval DEF Items
<1>3. QED
  BY <1>1, <1>2 DEF Width, Items, Runners, Expert, NoExpert

LEMMA IndexGeometry ==
    ASSUME path = "index"
    PROVE  /\ n = numel /\ Element = Items /\ stride = Width /\ Thread = Runners
           /\ max_num_tokens_padded = numel
           /\ max_num_m_blocks = CEILDIV(numel, block_size)
<1>1. n = numel
  BY DEF n
<1>2. stride = Width
  <2>1. stride = Max({num_experts, n})
    BY DEF stride
  <2>2. QED
    BY <1>1, <2>1, LargerOfTwo, Sizes DEF Width
<1>3. max_num_tokens_padded = numel
  BY <1>1 DEF max_num_tokens_padded
<1>4. QED
  BY <1>1, <1>2, <1>3 DEF Element, Items, Thread, Runners, max_num_m_blocks

\* Every stage of the index path waits for all threads.
LEMMA IndexAt ==
    ASSUME path = "index", stage \in [Runners -> 1 .. 5], NEW t \in Runners
    PROVE  /\ Len(Program) = 5
           /\ label(t) = CASE stage[t] = 1 -> "count" [] stage[t] = 2 -> "scan"
                           [] stage[t] = 3 -> "place" [] stage[t] = 4 -> "return"
                           [] stage[t] = 5 -> "done"
           /\ \A l : At(t, l) <=> label(t) = l /\ \A u \in Runners : stage[u] >= stage[t]
<1>1. Program = <<<<"count", TRUE>>, <<"scan", TRUE>>, <<"place", TRUE>>, <<"return", TRUE>>,
                  <<"done", TRUE>>>>
  BY DEF Program
<1>2. stage[t] \in 1 .. 5
  OBVIOUS
<1>3. label(t) = CASE stage[t] = 1 -> "count" [] stage[t] = 2 -> "scan"
                   [] stage[t] = 3 -> "place" [] stage[t] = 4 -> "return"
                   [] stage[t] = 5 -> "done"
  BY <1>1, <1>2 DEF label
<1>4. \A s \in 1 .. 5 : Program[s][2]
  <2>1. Program[1][2] /\ Program[2][2] /\ Program[3][2] /\ Program[4][2] /\ Program[5][2]
    BY <1>1
  <2>2. \A s \in 1 .. 5 : s = 1 \/ s = 2 \/ s = 3 \/ s = 4 \/ s = 5
    OBVIOUS
  <2>3. QED
    BY <2>1, <2>2
<1> DEFINE G == {s \in 1 .. stage[t] : Program[s][2]}
<1>5. G = 1 .. stage[t]
  BY <1>2, <1>4
<1>6. Max(G) = stage[t]
  <2> DEFINE m == stage[t]
  <2>1. m \in 1 .. m /\ (\A y \in 1 .. m : m >= y) /\ \A x \in 1 .. m : (\A y \in 1 .. m : x >= y) => x = m
    BY <1>2
  <2>2. Max(1 .. m) \in 1 .. m /\ \A y \in 1 .. m : Max(1 .. m) >= y
    <3> HIDE DEF m
    <3>1. QED
      BY <2>1 DEF Max
  <2>3. QED
    BY <1>5, <2>1, <2>2
<1>7. \A s : FillMet(s)
  BY DEF FillMet
<1>8. Thread = Runners
  BY IndexGeometry
<1>9. Len(Program) = 5
  BY <1>1
<1>10. ASSUME NEW l
       PROVE  At(t, l) <=> label(t) = l /\ \A u \in Runners : stage[u] >= stage[t]
  BY <1>6, <1>7, <1>8 DEF At
<1>11. QED
  BY <1>3, <1>9, <1>10

\* The expert of an element is the one the router chose, if it is one.
LEMMA IndexRouting ==
    ASSUME path = "index", IndexInput
    PROVE  /\ \A i \in Items : expert_id(i) = IF topk_ids[i] \in Expert THEN topk_ids[i] ELSE NoExpert
           /\ \A i : token_mask(i) /\ weight(i) = 1
<1>1. kernel_map = NoMap
  BY DEF kernel_map, IndexInput
<1>2. \A i : token_mask(i)
  BY DEF token_mask, IndexInput
<1>3. QED
  BY <1>1, <1>2 DEF expert_id, weight

\* The first slot of an expert is the sum of the counts before it.
LEMMA IndexOffset ==
    ASSUME path = "index", counts \in [0 .. Width -> [Expert -> Nat]], NEW e
    PROVE  first_slot(e) = Base(counts[0], e)
<1>1. counts[0] \in [Expert -> Nat]
  BY Sizes
<1>2. \A x : padded(x) = counts[0][x]
  BY DEF padded
<1>3. [x \in Expert |-> padded(x)] = counts[0]
  BY <1>1, <1>2
<1>4. QED
  BY <1>3 DEF first_slot, Base

----------------------------------------------------------------------------
(* The slots in use *)

LEMMA SetsFinite ==
    ASSUME NEW e
    PROVE  /\ IsFiniteSet(Own(e)) /\ IsFiniteSet(Counted(e)) /\ IsFiniteSet(Taken(e))
           /\ Cardinality(Counted(e)) \in Nat /\ Cardinality(Taken(e)) \in Nat
<1>1. Own(e) \in SUBSET Items /\ Counted(e) \in SUBSET Items /\ Taken(e) \in SUBSET Items
  BY DEF Own, Counted, Taken
<1>2. QED
  BY <1>1, Sizes, FS_Subset, FS_CardinalityType

LEMMA SetsFiniteNext ==
    ASSUME NEW e
    PROVE  /\ IsFiniteSet(Counted(e)') /\ IsFiniteSet(Taken(e)')
           /\ Cardinality(Counted(e)') \in Nat /\ Cardinality(Taken(e)') \in Nat
<1>1. Counted(e)' \in SUBSET Items /\ Taken(e)' \in SUBSET Items
  BY DEF Own, Counted, Taken
<1>2. QED
  BY <1>1, Sizes, FS_Subset, FS_CardinalityType

\* An expert has given away no more slots than it has.
LEMMA TakenFits ==
    ASSUME IndexKept, NEW e \in Expert
    PROVE  /\ counts[0] \in [Expert -> Nat]
           /\ Taken(e) # {} => Cardinality(Taken(e)) <= counts[0][e]
<1>1. counts[0] \in [Expert -> Nat]
  BY Sizes DEF IndexKept, IndexShape
<1>2. ASSUME Taken(e) # {} PROVE Cardinality(Taken(e)) <= counts[0][e]
  <2>1. \A u \in Runners : stage[u] >= 3 /\ stage[u] \in 1 .. 5
    BY <1>2 DEF IndexKept, InStep, IndexShape
  <2>2. \A i \in Items : stage[i] > 1
    BY <2>1, Sizes
  <2>3. Taken(e) \in SUBSET Counted(e)
    BY <2>2 DEF Taken, Counted, Own
  <2>4. counts[0][e] = Cardinality(Counted(e))
    BY DEF IndexKept, CountsRight
  <2>5. QED
    BY <2>3, <2>4, SetsFinite, FS_Subset
<1>3. QED
  BY <1>1, <1>2

\* A slot that was drawn lies in the buffer, among those of its expert.
LEMMA SlotInRange ==
    ASSUME IndexKept, NEW e \in Expert, NEW i \in Taken(e)
    PROVE  /\ slot(i) \in Base(counts[0], e) .. Base(counts[0], e + 1) - 1
           /\ slot(i) \in Items
<1>1. counts[0] \in [Expert -> Nat] /\ Cardinality(Taken(e)) <= counts[0][e]
  BY TakenFits
<1>2. /\ \A d \in 0 .. num_experts : Base(counts[0], d) \in Nat
      /\ Base(counts[0], e + 1) = Base(counts[0], e) + counts[0][e]
      /\ \A c, d \in 0 .. num_experts : c <= d => Base(counts[0], c) <= Base(counts[0], d)
  BY <1>1, BaseFacts
<1>3. num_experts \in Nat /\ e \in 0 .. num_experts /\ e + 1 \in 0 .. num_experts
  BY Sizes DEF Expert
<1>4. slot(i) \in Base(counts[0], e) .. Base(counts[0], e) + Cardinality(Taken(e)) - 1
  BY DEF IndexKept, SlotsRight
<1>5. slot(i) \in Base(counts[0], e) .. Base(counts[0], e + 1) - 1
  BY <1>1, <1>2, <1>3, <1>4, SetsFinite
<1>6. Base(counts[0], num_experts) <= numel
  <2> DEFINE S == {j \in Items : stage[j] > 1 \/ next[j] # j}
  <2>1. \A d \in Expert : counts[0][d] = Cardinality({j \in S : topk_ids[j] = d})
    <3>1. \A d : Counted(d) = {j \in S : topk_ids[j] = d}
      BY DEF Counted, Own
    <3>2. QED
      BY <3>1 DEF IndexKept, CountsRight
  <2>2. S \in SUBSET Items
    OBVIOUS
  <2>3. IsFiniteSet(S) /\ Cardinality(S) <= numel /\ Cardinality(S) \in Nat
    BY <2>2, Sizes, FS_Subset, FS_CardinalityType
  <2> HIDE DEF S
  <2>4. Base(counts[0], num_experts) <= Cardinality(S)
    BY <1>1, <2>1, <2>3, SlotsFit
  <2>5. Base(counts[0], num_experts) \in Nat
    BY <1>2, <1>3
  <2>6. QED
    BY <2>3, <2>4, <2>5, Sizes
<1>7. Base(counts[0], e + 1) <= Base(counts[0], num_experts) /\ num_experts \in 0 .. num_experts
  BY <1>2, <1>3
<1>8. slot(i) < numel /\ slot(i) \in Nat
  BY <1>2, <1>3, <1>5, <1>6, <1>7, Sizes
<1>9. QED
  BY <1>5, <1>8, Sizes DEF Items

\* No two elements drew the same slot.
LEMMA SlotsApart ==
    ASSUME IndexKept, NEW d \in Expert, NEW e \in Expert, NEW i \in Taken(d), NEW j \in Taken(e),
           slot(i) = slot(j)
    PROVE  i = j
<1>1. CASE d = e
  BY <1>1 DEF IndexKept, SlotsRight
<1>2. CASE d # e
  <2>1. counts[0] \in [Expert -> Nat]
    BY TakenFits
  <2>2. /\ \A c \in 0 .. num_experts : Base(counts[0], c) \in Nat
        /\ \A a, c \in 0 .. num_experts : a <= c => Base(counts[0], a) <= Base(counts[0], c)
    BY <2>1, BaseFacts
  <2>3. /\ slot(i) \in Base(counts[0], d) .. Base(counts[0], d + 1) - 1
        /\ slot(i) \in Base(counts[0], e) .. Base(counts[0], e + 1) - 1
    BY SlotInRange
  <2>4. /\ d \in 0 .. num_experts /\ d + 1 \in 0 .. num_experts
        /\ e \in 0 .. num_experts /\ e + 1 \in 0 .. num_experts
        /\ d + 1 <= e \/ e + 1 <= d
    BY <1>2, Sizes DEF Expert
  <2>5. Base(counts[0], d + 1) <= Base(counts[0], e) \/ Base(counts[0], e + 1) <= Base(counts[0], d)
    BY <2>2, <2>4
  <2>6. QED
    BY <2>2, <2>3, <2>4, <2>5
<1>3. QED
  BY <1>1, <1>2

----------------------------------------------------------------------------
(* The initial states *)

LEMMA IndexInit == Init => IndexInv
<1> SUFFICES ASSUME Init, path = "index" PROVE IndexKept
  BY DEF IndexInv
<1>1. /\ n = numel /\ Element = Items /\ stride = Width /\ Thread = Runners
      /\ max_num_tokens_padded = numel /\ max_num_m_blocks = CEILDIV(numel, block_size)
  BY IndexGeometry
<1>2. IndexInput
  <2>1. <<path, adapter>> \in Modes /\ adapter = "none"
    <3>1. PICK m \in Modes : path = m[1] /\ adapter = m[2]
      BY DEF Init, Inputs
    <3>2. \/ m \in {"general", "small"} \X {"none", "enabled"}
          \/ m = <<"batched", "none">> \/ m = <<"index", "none">>
      BY MoeAssumption
    <3>3. m = <<"index", "none">>
      BY <3>1, <3>2
    <3>4. QED
      BY <3>1, <3>3
  <2>2. topk_ids \in [Items -> -1 .. num_experts] /\ expert_map = NoMap
    BY <1>1 DEF Init, Inputs
  <2>3. ignore_invalid = FALSE
    BY <2>2 DEF Init, Inputs
  <2>4. fill \in [Fill -> BOOLEAN] /\ fill_reset = FALSE
    BY DEF Init
  <2>5. QED
    BY <2>1, <2>2, <2>3, <2>4 DEF IndexInput
<1>3. IndexShape
  <2>1. stage = [t \in Runners |-> 1] /\ next = [t \in Runners |-> t] /\ rank = [t \in Runners |-> NoExpert]
    BY <1>1 DEF Init
  <2>2. /\ counts = [r \in 0 .. Width |-> [e \in Expert |-> 0]]
        /\ cumsum = [e \in 0 .. num_experts |-> Garbage]
    BY <1>1 DEF Init
  <2>3. 0 .. max_num_tokens_padded - 1 = Items
    BY <1>1 DEF Items
  <2>4. /\ sorted_token_ids = [k \in Items |-> Garbage]
        /\ expert_ids = [b \in 0 .. CEILDIV(numel, block_size) - 1 |-> Garbage]
        /\ total_tokens_post_pad = Garbage /\ src_dst = [i \in Items |-> Garbage]
    BY <1>1, <2>3 DEF Init
  <2>5. QED
    BY <2>1, <2>2, <2>4, Sizes DEF IndexShape
<1>4. /\ \A t \in Runners : stage[t] = 1 /\ next[t] = t /\ rank[t] = NoExpert
      /\ \A e \in Expert : counts[0][e] = 0
  BY <1>1, Sizes DEF Init
<1>5. ASSUME NEW e
      PROVE  Counted(e) = {} /\ Taken(e) = {}
  <2>1. \A i \in Own(e) : stage[i] = 1 /\ next[i] = i /\ rank[i] = NoExpert
    BY <1>4, Sizes DEF Own
  <2>2. \A i \in Own(e) : ~ (stage[i] > 1) /\ ~ (stage[i] > 3) /\ stage[i] # 3
    BY <2>1
  <2>3. QED
    BY <2>1, <2>2 DEF Counted, Taken
<1>6. CountsRight
  BY <1>4, <1>5, FS_EmptySet DEF CountsRight
<1>7. InStep /\ HoldsSlot /\ OffsetsRight
  BY <1>4, <1>5, Sizes DEF InStep, HoldsSlot, OffsetsRight
<1>8. SlotsRight
  <2>1. \A e \in Expert : Base(counts[0], e) \in Nat
    <3>1. counts[0] \in [Expert -> Nat]
      BY <1>3, Sizes DEF IndexShape
    <3>2. \A e \in Expert : e \in 0 .. num_experts
      BY Sizes DEF Expert
    <3>3. QED
      BY <3>1, <3>2, BaseFacts
  <2>2. Cardinality({}) = 0
    BY FS_EmptySet
  <2>3. \A e \in Expert : Base(counts[0], e) .. Base(counts[0], e) + Cardinality(Taken(e)) - 1 = {}
    BY <1>5, <2>1, <2>2
  <2>4. \A e : {slot(i) : i \in Taken(e)} = {}
    BY <1>5
  <2>5. QED
    BY <1>5, <2>3, <2>4 DEF SlotsRight
<1>9. QED
  BY <1>2, <1>3, <1>6, <1>7, <1>8 DEF IndexKept

----------------------------------------------------------------------------
(* The steps *)

\* A step that moves no slot, and changes neither what is counted nor what is
\* taken, keeps what they say of each other.
LEMMA SetsCarry ==
    ASSUME IndexKept, counts' = counts, rank' = rank, src_dst' = src_dst,
           sorted_token_ids' = sorted_token_ids,
           \A e \in Expert : Counted(e)' = Counted(e) /\ Taken(e)' = Taken(e)
    PROVE  CountsRight' /\ SlotsRight'
<1>1. CountsRight'
  BY DEF IndexKept, CountsRight
<1>2. \A i : slot(i)' = slot(i)
  BY DEF slot
<1>3. SlotsRight'
  <2>1. ASSUME NEW e \in Expert
        PROVE  /\ {slot(i)' : i \in Taken(e)'} = {slot(i) : i \in Taken(e)}
               /\ Base(counts[0], e)' = Base(counts[0], e)
    BY <1>2 DEF Base
  <2>2. QED
    BY <1>2, <2>1 DEF IndexKept, SlotsRight
<1>4. QED
  BY <1>1, <1>3

\* What a thread sees when it runs a stage.
LEMMA AtStage ==
    ASSUME path = "index", IndexKept, NEW t \in Thread
    PROVE  /\ t \in Runners /\ t \in Nat /\ stage[t] \in 1 .. 5
           /\ At(t, "count") => stage[t] = 1 /\ \A u \in Runners : stage[u] >= 1
           /\ At(t, "scan") => stage[t] = 2 /\ \A u \in Runners : stage[u] >= 2
           /\ At(t, "place") => stage[t] = 3 /\ \A u \in Runners : stage[u] >= 3
           /\ At(t, "return") => stage[t] = 4
           /\ ~ At(t, "reset") /\ ~ At(t, "clear") /\ ~ At(t, "zero")
           /\ ~ At(t, "prefix") /\ ~ At(t, "ids")
           /\ next[t] \in Nat
           /\ next[t] < n => next[t] = t /\ t \in Items
           /\ t \in Items /\ next[t] >= n => next[t] # t
<1>1. t \in Runners /\ t \in Nat /\ n = numel
  BY IndexGeometry, Sizes
<1>2. stage \in [Runners -> 1 .. 5] /\ stage[t] \in 1 .. 5 /\ next[t] \in Nat
  BY <1>1 DEF IndexKept, IndexShape
<1> DEFINE Here(l) == label(t) = l /\ \A u \in Runners : stage[u] >= stage[t]
<1>3. /\ label(t) = CASE stage[t] = 1 -> "count" [] stage[t] = 2 -> "scan"
                      [] stage[t] = 3 -> "place" [] stage[t] = 4 -> "return"
                      [] stage[t] = 5 -> "done"
      /\ \A l : At(t, l) <=> Here(l)
  BY <1>1, <1>2, IndexAt
<1>4. stage[t] = 1 \/ stage[t] = 2 \/ stage[t] = 3 \/ stage[t] = 4 \/ stage[t] = 5
  BY <1>2
<1>5. /\ label(t) \notin {"reset", "clear", "zero", "prefix", "ids"}
      /\ label(t) = "count" => stage[t] = 1
      /\ label(t) = "scan" => stage[t] = 2
      /\ label(t) = "place" => stage[t] = 3
      /\ label(t) = "return" => stage[t] = 4
  BY <1>3, <1>4
<1>6. /\ At(t, "count") => stage[t] = 1 /\ \A u \in Runners : stage[u] >= 1
      /\ At(t, "scan") => stage[t] = 2 /\ \A u \in Runners : stage[u] >= 2
      /\ At(t, "place") => stage[t] = 3 /\ \A u \in Runners : stage[u] >= 3
      /\ At(t, "return") => stage[t] = 4
      /\ ~ At(t, "reset") /\ ~ At(t, "clear") /\ ~ At(t, "zero")
      /\ ~ At(t, "prefix") /\ ~ At(t, "ids")
  BY <1>3, <1>5
<1>7. /\ next[t] < n => next[t] = t /\ t \in Items
      /\ t \in Items /\ next[t] >= n => next[t] # t
  <2>1. next[t] = t \/ next[t] = t + Width
    BY <1>1 DEF IndexKept, IndexShape
  <2>2. QED
    BY <1>1, <2>1, Sizes DEF Items
<1>8. QED
  BY <1>1, <1>2, <1>6, <1>7

LEMMA IndexCount ==
    ASSUME path = "index", IndexKept, NEW t \in Thread, Count(t)
    PROVE  IndexKept'
<1>0. IndexInput /\ IndexShape /\ InStep /\ HoldsSlot /\ CountsRight
  BY DEF IndexKept
<1>1. /\ t \in Runners /\ t \in Items /\ t \in Nat /\ stage[t] = 1 /\ next[t] = t
      /\ next' = [next EXCEPT ![t] = t + Width]
  BY AtStage, IndexGeometry DEF Count
<1> DEFINE e == topk_ids[t]
<1>2. counts' = IF e \in Expert THEN [counts EXCEPT ![0][e] = @ + 1] ELSE counts
  <2>1. expert_id(t) = (IF e \in Expert THEN e ELSE NoExpert) /\ weight(t) = 1
    BY <1>0, <1>1, IndexRouting
  <2>2. counts' = IF expert_id(t) = NoExpert THEN counts
                  ELSE [counts EXCEPT ![0][expert_id(t)] = @ + weight(t)]
    BY <1>1 DEF Count
  <2>3. QED
    BY <2>1, <2>2, Sizes
<1>3. /\ UNCHANGED <<path, adapter, topk_ids, expert_map, ignore_invalid, fill, fill_reset>>
      /\ UNCHANGED <<stage, rank, cumsum, sorted_token_ids, expert_ids, total_tokens_post_pad, src_dst>>
  BY DEF Count, inputVars, fillVars, outputVars
<1>4. IndexInput'
  BY <1>0, <1>3 DEF IndexInput
<1>5. IndexShape'
  <2>1. counts' \in [0 .. Width -> [Expert -> Nat]]
    <3>1. counts \in [0 .. Width -> [Expert -> Nat]] /\ 0 \in 0 .. Width
      <4>1. 0 \in 0 .. Width
        BY Sizes
      <4>2. QED
        BY <1>0, <4>1 DEF IndexShape
    <3> HIDE DEF e
    <3>2. CASE e \in Expert
      <4>1. counts[0] \in [Expert -> Nat] /\ counts[0][e] + 1 \in Nat
        BY <3>1, <3>2
      <4>2. [counts[0] EXCEPT ![e] = @ + 1] \in [Expert -> Nat]
        BY <3>2, <4>1
      <4>3. QED
        BY <1>2, <3>1, <3>2, <4>2
    <3>3. QED
      BY <1>2, <3>1, <3>2
  <2>2. next' \in [Runners -> Nat] /\ \A u \in Runners : next'[u] = u \/ next'[u] = u + Width
    <3>1. next \in [Runners -> Nat] /\ \A u \in Runners : next[u] = u \/ next[u] = u + Width
      BY <1>0 DEF IndexShape
    <3>2. t + Width \in Nat
      BY <1>1, Sizes
    <3>3. QED
      BY <1>1, <3>1, <3>2
  <2>3. QED
    BY <1>0, <1>3, <2>1, <2>2 DEF IndexShape
<1>6. \A d \in Expert : Taken(d) = {}
  BY <1>0, <1>1 DEF InStep
<1>7. rank[t] = NoExpert
  BY <1>0, <1>1 DEF HoldsSlot
<1>8. ASSUME NEW d \in Expert
      PROVE  Taken(d)' = {}
  <2>1. Own(d)' = Own(d)
    BY <1>3 DEF Own
  <2>2. \A i \in Own(d) : ~ (stage[i] > 3 \/ (stage[i] = 3 /\ next[i] # i) \/ rank[i] # NoExpert)
    BY <1>6 DEF Taken
  <2>3. \A i \in Own(d) : i = t \/ next'[i] = next[i]
    BY <1>0, <1>1, Sizes DEF IndexShape, Own
  <2>4. \A i \in Own(d) : ~ (stage'[i] > 3 \/ (stage'[i] = 3 /\ next'[i] # i) \/ rank'[i] # NoExpert)
    BY <1>1, <1>3, <1>7, <2>2, <2>3
  <2>5. Taken(d)' = {i \in Own(d) : stage'[i] > 3 \/ (stage'[i] = 3 /\ next'[i] # i) \/ rank'[i] # NoExpert}
    BY <2>1 DEF Taken
  <2>6. QED
    BY <2>4, <2>5
<1>9. InStep' /\ HoldsSlot'
  <2>1. HoldsSlot'
    <3>1. ASSUME NEW u \in Runners, rank'[u] # NoExpert
          PROVE  stage'[u] = 3 /\ next'[u] = u /\ u \in Items /\ topk_ids'[u] \in Expert
      <4>1. u # t
        BY <1>3, <1>7, <3>1
      <4>2. next'[u] = next[u]
        BY <1>0, <1>1, <4>1 DEF IndexShape
      <4>3. QED
        BY <1>0, <1>3, <3>1, <4>2 DEF HoldsSlot
    <3>2. QED
      BY <3>1 DEF HoldsSlot
  <2>2. InStep'
    BY <1>0, <1>3, <1>8 DEF InStep
  <2>3. QED
    BY <2>1, <2>2
<1>10. ASSUME NEW d \in Expert
       PROVE  counts'[0][d] = Cardinality(Counted(d)')
  <2>1. Own(d)' = Own(d) /\ Own(d) \subseteq Items
    BY <1>3 DEF Own
  <2>2. t \notin Counted(d)
    BY <1>1 DEF Counted
  <2>3. \A i \in Own(d) : next'[i] = IF i = t THEN t + Width ELSE next[i]
    BY <1>0, <1>1, <2>1, Sizes DEF IndexShape
  <2>4. t + Width # t
    BY <1>1, Sizes
  <2>5. Counted(d)' = IF t \in Own(d) THEN Counted(d) \cup {t} ELSE Counted(d)
    BY <1>3, <2>1, <2>2, <2>3, <2>4 DEF Counted
  <2>6. t \in Own(d) <=> d = e
    BY <1>1 DEF Own
  <2>7. Cardinality(Counted(d) \cup {t}) = Cardinality(Counted(d)) + 1
    BY <2>2, SetsFinite, FS_AddElement
  <2>8. counts[0][d] = Cardinality(Counted(d))
    BY <1>0 DEF CountsRight
  <2>9. counts'[0][d] = IF d = e THEN counts[0][d] + 1 ELSE counts[0][d]
    <3>1. 0 \in 0 .. Width
      BY Sizes
    <3>2. counts \in [0 .. Width -> [Expert -> Nat]] /\ counts[0] \in [Expert -> Nat]
      BY <1>0, <3>1 DEF IndexShape
    <3> HIDE DEF e
    <3>3. QED
      BY <1>2, <3>1, <3>2
  <2>10. QED
    BY <2>5, <2>6, <2>7, <2>8, <2>9
<1>11. OffsetsRight'
  <2>1. ASSUME NEW d \in Expert
        PROVE  ~ (stage'[d] > 2)
    <3>1. d \in Runners /\ stage[d] \in 1 .. 5 /\ stage[d] <= stage[t] + 1
      BY <1>0, <1>1, Sizes DEF InStep, IndexShape
    <3>2. QED
      BY <1>1, <1>3, <3>1
  <2>2. QED
    BY <2>1 DEF OffsetsRight
<1>12. SlotsRight'
  <2>1. ASSUME NEW d \in Expert
        PROVE  Base(counts'[0], d) .. Base(counts'[0], d) + Cardinality(Taken(d)') - 1 = {}
    <3>1. counts'[0] \in [Expert -> Nat] /\ d \in 0 .. num_experts
      <4>1. counts' \in [0 .. Width -> [Expert -> Nat]]
        BY <1>5 DEF IndexShape
      <4>2. d \in 0 .. num_experts
        BY Sizes DEF Expert
      <4>3. 0 \in 0 .. Width
        BY Sizes
      <4>4. QED
        BY <4>1, <4>2, <4>3
    <3>2. Base(counts'[0], d) \in Nat
      BY <3>1, BaseFacts
    <3>3. Cardinality(Taken(d)') = 0
      BY <1>8, FS_EmptySet
    <3>4. QED
      BY <3>2, <3>3
  <2>2. \A d \in Expert : {slot(i)' : i \in Taken(d)'} = {}
    BY <1>8
  <2>3. \A d : Base(counts[0], d)' = Base(counts'[0], d)
    BY DEF Base
  <2>4. QED
    BY <1>8, <2>1, <2>2, <2>3 DEF SlotsRight
<1>13. CountsRight'
  BY <1>10 DEF CountsRight
<1>14. QED
  BY <1>4, <1>5, <1>9, <1>11, <1>12, <1>13 DEF IndexKept

\* A thread that goes on to its next stage stays within one stage of the others.
LEMMA AdvanceKeeps ==
    ASSUME IndexKept, NEW t \in Runners, stage[t] \in 1 .. 4,
           \A u \in Runners : stage[u] >= stage[t], Advance(t)
    PROVE  /\ stage' \in [Runners -> 1 .. 5]
           /\ next' \in [Runners -> Nat] /\ \A u \in Runners : next'[u] = u \/ next'[u] = u + Width
           /\ rank' = rank
           /\ \A u \in Runners : stage'[u] = IF u = t THEN stage[t] + 1 ELSE stage[u]
           /\ \A u \in Runners : next'[u] = IF u = t THEN t ELSE next[u]
           /\ \A u, w \in Runners : stage'[u] <= stage'[w] + 1
           /\ \A u \in Runners : stage'[u] >= stage[u]
<1>1. /\ stage \in [Runners -> 1 .. 5] /\ next \in [Runners -> Nat]
      /\ \A u \in Runners : next[u] = u \/ next[u] = u + Width
      /\ \A u, w \in Runners : stage[u] <= stage[w] + 1
  BY DEF IndexKept, IndexShape, InStep
<1>2. stage' = [stage EXCEPT ![t] = stage[t] + 1] /\ next' = [next EXCEPT ![t] = t] /\ rank' = rank
  BY DEF Advance
<1>3. t \in Nat /\ stage[t] + 1 \in 1 .. 5
  BY Sizes
<1>4. stage' \in [Runners -> 1 .. 5]
  BY <1>1, <1>2, <1>3
<1>5. next' \in [Runners -> Nat]
  BY <1>1, <1>2, <1>3
<1>6. \A u \in Runners : stage'[u] = IF u = t THEN stage[t] + 1 ELSE stage[u]
  BY <1>1, <1>2
<1>7. \A u \in Runners : next'[u] = IF u = t THEN t ELSE next[u]
  BY <1>1, <1>2
<1>8. \A u \in Runners : next'[u] = u \/ next'[u] = u + Width
  BY <1>1, <1>7
<1>9. ASSUME NEW u \in Runners, NEW w \in Runners
      PROVE  stage'[u] <= stage'[w] + 1 /\ stage'[u] >= stage[u]
  <2>1. stage[u] \in 1 .. 5 /\ stage[w] \in 1 .. 5 /\ stage[u] <= stage[w] + 1 /\ stage[w] >= stage[t]
    BY <1>1
  <2>2. QED
    BY <1>6, <2>1
<1>10. QED
  BY <1>2, <1>4, <1>5, <1>6, <1>7, <1>8, <1>9

LEMMA IndexEndLoop ==
    ASSUME path = "index", IndexKept, NEW t \in Thread, EndLoop(t)
    PROVE  IndexKept'
<1>0. IndexInput /\ IndexShape /\ InStep /\ HoldsSlot /\ CountsRight /\ OffsetsRight
  BY DEF IndexKept
<1>1. /\ t \in Runners /\ t \in Nat /\ stage[t] \in {1, 3} /\ rank[t] = NoExpert
      /\ \A u \in Runners : stage[u] >= stage[t]
      /\ t \in Items => next[t] # t
      /\ Advance(t)
  <2>1. /\ t \in Runners /\ t \in Nat
        /\ At(t, "count") => stage[t] = 1 /\ \A u \in Runners : stage[u] >= 1
        /\ At(t, "place") => stage[t] = 3 /\ \A u \in Runners : stage[u] >= 3
        /\ t \in Items => next[t] # t
    BY AtStage DEF EndLoop
  <2>2. stage[t] = 1 => rank[t] = NoExpert
    BY <1>0, <2>1 DEF HoldsSlot
  <2>3. At(t, "count") \/ (At(t, "place") /\ rank[t] = NoExpert)
    BY DEF EndLoop
  <2>4. QED
    BY <2>1, <2>2, <2>3 DEF EndLoop
<1>2. /\ UNCHANGED <<path, adapter, topk_ids, expert_map, ignore_invalid, fill, fill_reset>>
      /\ UNCHANGED <<counts, cumsum, sorted_token_ids, expert_ids, total_tokens_post_pad, src_dst>>
  BY DEF EndLoop, inputVars, fillVars, outputVars
<1>3. /\ stage' \in [Runners -> 1 .. 5]
      /\ next' \in [Runners -> Nat] /\ \A u \in Runners : next'[u] = u \/ next'[u] = u + Width
      /\ rank' = rank
      /\ \A u \in Runners : stage'[u] = IF u = t THEN stage[t] + 1 ELSE stage[u]
      /\ \A u \in Runners : next'[u] = IF u = t THEN t ELSE next[u]
      /\ \A u, w \in Runners : stage'[u] <= stage'[w] + 1
      /\ \A u \in Runners : stage'[u] >= stage[u]
  <2>1. stage[t] \in 1 .. 4
    BY <1>1
  <2>2. QED
    BY <1>1, <2>1, AdvanceKeeps
<1>4. IndexInput' /\ IndexShape'
  BY <1>0, <1>2, <1>3 DEF IndexInput, IndexShape
<1>5. ASSUME NEW e \in Expert
      PROVE  Counted(e)' = Counted(e) /\ Taken(e)' = Taken(e)
  <2>1. Own(e)' = Own(e) /\ Own(e) \subseteq Items /\ Own(e) \subseteq Runners
    BY <1>2, Sizes DEF Own
  <2>2. ASSUME NEW i \in Own(e)
        PROVE  /\ (stage'[i] > 1 \/ next'[i] # i) <=> (stage[i] > 1 \/ next[i] # i)
               /\ (stage'[i] > 3 \/ (stage'[i] = 3 /\ next'[i] # i) \/ rank'[i] # NoExpert)
                  <=> (stage[i] > 3 \/ (stage[i] = 3 /\ next[i] # i) \/ rank[i] # NoExpert)
    <3>1. i \in Runners /\ i \in Items
      BY <2>1
    <3>2. CASE i # t
      <4>1. stage'[i] = stage[i] /\ next'[i] = next[i] /\ rank'[i] = rank[i]
        BY <1>3, <3>1, <3>2
      <4>2. QED
        BY <4>1
    <3>3. CASE i = t
      <4>1. next'[t] = t /\ stage'[t] = stage[t] + 1 /\ rank'[t] = NoExpert /\ rank[t] = NoExpert
        BY <1>1, <1>2, <1>3, <3>1, <3>3
      <4>2. next[t] # t /\ (stage[t] = 1 \/ stage[t] = 3)
        BY <1>1, <3>1, <3>3
      <4>3. QED
        BY <3>3, <4>1, <4>2
    <3>4. QED
      BY <3>2, <3>3
  <2>3. QED
    BY <2>1, <2>2 DEF Counted, Taken
<1>6. CountsRight' /\ SlotsRight'
  BY <1>2, <1>3, <1>5, SetsCarry
<1>7. HoldsSlot'
  <2>1. ASSUME NEW u \in Runners, rank'[u] # NoExpert
        PROVE  stage'[u] = 3 /\ next'[u] = u /\ u \in Items /\ topk_ids'[u] \in Expert
    <3>1. u # t /\ rank[u] # NoExpert
      BY <1>1, <1>3, <2>1
    <3>2. QED
      BY <1>0, <1>2, <1>3, <3>1 DEF HoldsSlot
  <2>2. QED
    BY <2>1 DEF HoldsSlot
<1>8. InStep'
  <2>1. ASSUME NEW e \in Expert, NEW i \in Taken(e)', NEW u \in Runners
        PROVE  stage'[u] >= 3
    <3>1. stage[u] >= 3 /\ stage[u] \in 1 .. 5 /\ stage'[u] \in 1 .. 5
      BY <1>0, <1>3, <1>5, <2>1 DEF InStep, IndexShape
    <3>2. QED
      BY <1>3, <3>1
  <2>2. QED
    BY <1>3, <2>1 DEF InStep
<1>9. OffsetsRight'
  <2>1. ASSUME NEW e \in Expert, stage'[e] > 2
        PROVE  cumsum'[e] = Base(counts'[0], e) + Cardinality(Taken(e)')
    <3>1. e \in Runners /\ stage[e] \in 1 .. 5
      BY <1>0, Sizes DEF IndexShape
    <3>2. stage[e] > 2
      BY <1>1, <1>3, <2>1, <3>1
    <3>3. QED
      BY <1>0, <1>2, <1>5, <3>2 DEF OffsetsRight
  <2>2. QED
    BY <2>1 DEF OffsetsRight, Base
<1>10. QED
  BY <1>4, <1>6, <1>7, <1>8, <1>9 DEF IndexKept

LEMMA IndexScan ==
    ASSUME path = "index", IndexKept, NEW t \in Thread, Scan(t)
    PROVE  IndexKept'
<1>0. IndexInput /\ IndexShape /\ InStep /\ HoldsSlot /\ CountsRight /\ OffsetsRight
  BY DEF IndexKept
<1>1. /\ t \in Runners /\ t \in Nat /\ stage[t] = 2 /\ Advance(t)
      /\ \A u \in Runners : stage[u] >= stage[t]
  BY AtStage DEF Scan
<1>2. rank[t] = NoExpert /\ \A e \in Expert : Taken(e) = {}
  BY <1>0, <1>1 DEF HoldsSlot, InStep
<1>3. /\ UNCHANGED <<path, adapter, topk_ids, expert_map, ignore_invalid, fill, fill_reset>>
      /\ UNCHANGED <<counts, sorted_token_ids, expert_ids, total_tokens_post_pad, src_dst>>
      /\ cumsum' = IF t \in Expert THEN [cumsum EXCEPT ![t] = Base(counts[0], t)] ELSE cumsum
  <2>1. first_slot(t) = Base(counts[0], t)
    BY <1>0, IndexOffset DEF IndexShape
  <2>2. QED
    BY <2>1 DEF Scan, inputVars, fillVars
<1>4. /\ stage' \in [Runners -> 1 .. 5]
      /\ next' \in [Runners -> Nat] /\ \A u \in Runners : next'[u] = u \/ next'[u] = u + Width
      /\ rank' = rank
      /\ \A u \in Runners : stage'[u] = IF u = t THEN 3 ELSE stage[u]
      /\ \A u \in Runners : next'[u] = IF u = t THEN t ELSE next[u]
      /\ \A u, w \in Runners : stage'[u] <= stage'[w] + 1
      /\ \A u \in Runners : stage'[u] >= stage[u]
  <2>1. stage[t] \in 1 .. 4 /\ stage[t] + 1 = 3
    BY <1>1
  <2>2. QED
    BY <1>1, <2>1, AdvanceKeeps
<1>5. \A e \in Expert : Base(counts[0], e) \in Nat /\ e \in 0 .. num_experts
  <2>1. \A e \in Expert : e \in 0 .. num_experts
    BY Sizes DEF Expert
  <2>2. counts[0] \in [Expert -> Nat]
    BY <1>0, Sizes DEF IndexShape
  <2>3. QED
    BY <2>1, <2>2, BaseFacts
<1>6. cumsum' \in [0 .. num_experts -> Nat]
  BY <1>0, <1>3, <1>5 DEF IndexShape
<1>7. IndexInput' /\ IndexShape'
  BY <1>0, <1>3, <1>4, <1>6 DEF IndexInput, IndexShape
<1>8. ASSUME NEW e \in Expert
      PROVE  Counted(e)' = Counted(e) /\ Taken(e)' = Taken(e)
  <2>1. Own(e)' = Own(e) /\ Own(e) \subseteq Items /\ Own(e) \subseteq Runners
    BY <1>3, Sizes DEF Own
  <2>2. ASSUME NEW i \in Own(e)
        PROVE  /\ (stage'[i] > 1 \/ next'[i] # i) <=> (stage[i] > 1 \/ next[i] # i)
               /\ (stage'[i] > 3 \/ (stage'[i] = 3 /\ next'[i] # i) \/ rank'[i] # NoExpert)
                  <=> (stage[i] > 3 \/ (stage[i] = 3 /\ next[i] # i) \/ rank[i] # NoExpert)
    <3>1. i \in Runners /\ i \in Items
      BY <2>1
    <3>2. CASE i # t
      <4>1. stage'[i] = stage[i] /\ next'[i] = next[i] /\ rank'[i] = rank[i]
        BY <1>4, <3>1, <3>2
      <4>2. QED
        BY <4>1
    <3>3. CASE i = t
      <4>1. next'[t] = t /\ stage'[t] = stage[t] + 1 /\ rank'[t] = NoExpert /\ rank[t] = NoExpert
        BY <1>1, <1>2, <1>4, <3>1, <3>3
      <4>2. stage[t] = 2
        BY <1>1, <3>1, <3>3
      <4>3. QED
        BY <3>3, <4>1, <4>2
    <3>4. QED
      BY <3>2, <3>3
  <2>3. QED
    BY <2>1, <2>2 DEF Counted, Taken
<1>9. CountsRight' /\ SlotsRight'
  BY <1>3, <1>4, <1>8, SetsCarry
<1>10. HoldsSlot'
  <2>1. ASSUME NEW u \in Runners, rank'[u] # NoExpert
        PROVE  stage'[u] = 3 /\ next'[u] = u /\ u \in Items /\ topk_ids'[u] \in Expert
    <3>1. u # t /\ rank[u] # NoExpert
      BY <1>2, <1>4, <2>1
    <3>2. QED
      BY <1>0, <1>3, <1>4, <3>1 DEF HoldsSlot
  <2>2. QED
    BY <2>1 DEF HoldsSlot
<1>11. InStep'
  BY <1>2, <1>4, <1>8 DEF InStep
<1>12. OffsetsRight'
  <2>1. ASSUME NEW e \in Expert, stage'[e] > 2
        PROVE  cumsum'[e] = Base(counts'[0], e) + Cardinality(Taken(e)')
    <3>1. e \in Runners /\ cumsum \in [0 .. num_experts -> Nat] /\ e \in 0 .. num_experts
      BY <1>0, <1>5, Sizes DEF IndexShape
    <3>2. Cardinality(Taken(e)') = 0 /\ Cardinality(Taken(e)) = 0
      BY <1>2, <1>8, FS_EmptySet
    <3>3. CASE e = t
      BY <1>3, <1>5, <3>1, <3>2, <3>3
    <3>4. CASE e # t
      <4>1. stage[e] > 2 /\ cumsum'[e] = cumsum[e]
        BY <1>3, <1>4, <2>1, <3>1, <3>4
      <4>2. QED
        BY <1>0, <1>3, <1>8, <4>1 DEF OffsetsRight
    <3>5. QED
      BY <3>3, <3>4
  <2>2. QED
    BY <2>1 DEF OffsetsRight, Base
<1>13. QED
  BY <1>7, <1>9, <1>10, <1>11, <1>12 DEF IndexKept

LEMMA IndexSkip ==
    ASSUME path = "index", IndexKept, NEW t \in Thread, Skip(t)
    PROVE  IndexKept'
<1>0. IndexInput /\ IndexShape /\ InStep /\ HoldsSlot /\ CountsRight /\ OffsetsRight
  BY DEF IndexKept
<1>1. /\ t \in Runners /\ t \in Items /\ t \in Nat /\ stage[t] = 3 /\ next[t] = t
      /\ rank[t] = NoExpert /\ next' = [next EXCEPT ![t] = t + Width]
  BY AtStage, IndexGeometry DEF Skip
<1>2. topk_ids[t] \notin Expert
  <2>1. expert_id(t) = NoExpert
    BY <1>0, <1>1, IndexRouting DEF Skip
  <2>2. expert_id(t) = IF topk_ids[t] \in Expert THEN topk_ids[t] ELSE NoExpert
    BY <1>0, <1>1, IndexRouting
  <2>3. QED
    BY <2>1, <2>2, Sizes
<1>3. /\ UNCHANGED <<path, adapter, topk_ids, expert_map, ignore_invalid, fill, fill_reset>>
      /\ UNCHANGED <<stage, rank, counts, cumsum, sorted_token_ids, expert_ids,
                     total_tokens_post_pad, src_dst>>
  BY DEF Skip, inputVars, fillVars, outputVars
<1>4. /\ next' \in [Runners -> Nat] /\ \A u \in Runners : next'[u] = u \/ next'[u] = u + Width
      /\ \A u \in Runners : u # t => next'[u] = next[u]
  <2>1. next \in [Runners -> Nat] /\ \A u \in Runners : next[u] = u \/ next[u] = u + Width
    BY <1>0 DEF IndexShape
  <2>2. t + Width \in Nat
    BY <1>1, Sizes
  <2>3. QED
    BY <1>1, <2>1, <2>2
<1>5. IndexInput' /\ IndexShape'
  BY <1>0, <1>3, <1>4 DEF IndexInput, IndexShape
<1>6. ASSUME NEW e \in Expert
      PROVE  Counted(e)' = Counted(e) /\ Taken(e)' = Taken(e)
  <2>1. Own(e)' = Own(e) /\ \A i \in Own(e) : i \in Runners /\ i # t
    BY <1>2, <1>3, Sizes DEF Own
  <2>2. QED
    BY <1>3, <1>4, <2>1 DEF Counted, Taken
<1>7. CountsRight' /\ SlotsRight'
  BY <1>3, <1>6, SetsCarry
<1>8. HoldsSlot'
  BY <1>0, <1>1, <1>3, <1>4 DEF HoldsSlot
<1>9. InStep'
  BY <1>0, <1>3, <1>6 DEF InStep
<1>10. OffsetsRight'
  BY <1>0, <1>3, <1>6 DEF OffsetsRight, Base
<1>11. QED
  BY <1>5, <1>7, <1>8, <1>9, <1>10 DEF IndexKept

LEMMA IndexTakeRank ==
    ASSUME path = "index", IndexKept, NEW t \in Thread, TakeRank(t)
    PROVE  IndexKept'
<1>0. IndexInput /\ IndexShape /\ InStep /\ HoldsSlot /\ CountsRight /\ OffsetsRight /\ SlotsRight
  BY DEF IndexKept
<1>1. /\ t \in Runners /\ t \in Items /\ t \in Nat /\ stage[t] = 3 /\ next[t] = t
      /\ rank[t] = NoExpert /\ \A u \in Runners : stage[u] >= 3
  BY AtStage DEF TakeRank
<1>e. PICK e, q : e = topk_ids[t] /\ q = cumsum[e]
  OBVIOUS
<1>2. e \in Expert /\ rank' = [rank EXCEPT ![t] = q] /\ cumsum' = [cumsum EXCEPT ![e] = q + 1]
  <2>1. expert_id(t) = IF e \in Expert THEN e ELSE NoExpert
    BY <1>e, <1>0, <1>1, IndexRouting
  <2>2. expert_id(t) # NoExpert
    BY <1>1 DEF TakeRank
  <2>3. rank' = [rank EXCEPT ![t] = cumsum[expert_id(t)]]
        /\ cumsum' = [cumsum EXCEPT ![expert_id(t)] = @ + 1]
    BY <1>1 DEF TakeRank
  <2>4. QED
    BY <1>e, <2>1, <2>2, <2>3
<1>3. /\ UNCHANGED <<path, adapter, topk_ids, expert_map, ignore_invalid, fill, fill_reset>>
      /\ UNCHANGED <<stage, next, counts, sorted_token_ids, expert_ids, total_tokens_post_pad, src_dst>>
  BY DEF TakeRank, inputVars, fillVars, outputVars
<1>4. e \in 0 .. num_experts /\ e \in Runners /\ q \in Nat /\ q # NoExpert
  <2>1. e \in 0 .. num_experts /\ e \in Runners
    BY <1>2, Sizes DEF Expert
  <2>2. q \in Nat
    BY <1>e, <1>0, <2>1 DEF IndexShape
  <2>3. QED
    BY <2>1, <2>2, Sizes
<1>5. IndexInput' /\ IndexShape'
  <2>1. rank' \in [Runners -> Nat \cup {NoExpert}] /\ cumsum' \in [0 .. num_experts -> Nat]
    BY <1>0, <1>1, <1>2, <1>4 DEF IndexShape
  <2>2. QED
    BY <1>0, <1>3, <2>1 DEF IndexInput, IndexShape
<1>6. \A u \in Runners : rank'[u] = IF u = t THEN q ELSE rank[u]
  BY <1>0, <1>2 DEF IndexShape
<1>7. ASSUME NEW d
      PROVE  /\ Counted(d)' = Counted(d)
             /\ t \notin Taken(d)
             /\ Taken(d)' = IF d = e THEN Taken(d) \cup {t} ELSE Taken(d)
  <2>1. Own(d)' = Own(d) /\ Own(d) \subseteq Runners /\ (t \in Own(d) <=> d = e)
    BY <1>e, <1>1, <1>3, Sizes DEF Own
  <2>2. Counted(d)' = Counted(d)
    BY <1>3, <2>1 DEF Counted
  <2>3. t \notin Taken(d)
    BY <1>1 DEF Taken
  <2>4. \A i \in Own(d) : i # t => rank'[i] = rank[i]
    BY <1>6, <2>1
  <2>5. rank'[t] # NoExpert
    BY <1>1, <1>4, <1>6
  <2>6. QED
    BY <1>3, <2>1, <2>2, <2>3, <2>4, <2>5 DEF Taken
<1>8. Cardinality(Taken(e)') = Cardinality(Taken(e)) + 1
  BY <1>7, SetsFinite, FS_AddElement
<1>9. q = Base(counts[0], e) + Cardinality(Taken(e))
  <2>1. stage[e] > 2
    <3>1. stage[e] >= 3 /\ stage[e] \in 1 .. 5
      BY <1>0, <1>1, <1>4 DEF IndexShape
    <3>2. QED
      BY <3>1
  <2>2. QED
    BY <1>e, <1>0, <1>2, <2>1 DEF OffsetsRight
<1>10. CountsRight'
  BY <1>0, <1>3, <1>7 DEF CountsRight
<1>11. HoldsSlot'
  BY <1>e, <1>0, <1>1, <1>2, <1>3, <1>6 DEF HoldsSlot
<1>12. InStep'
  BY <1>0, <1>1, <1>3 DEF InStep
<1>13. Base(counts[0], e) \in Nat /\ Cardinality(Taken(e)) \in Nat
  <2>1. counts[0] \in [Expert -> Nat]
    BY <1>2, TakenFits
  <2>2. QED
    BY <1>4, <2>1, BaseFacts, SetsFinite
<1>14. OffsetsRight'
  <2>1. ASSUME NEW d \in Expert, stage'[d] > 2
        PROVE  cumsum'[d] = Base(counts'[0], d) + Cardinality(Taken(d)')
    <3>1. d \in 0 .. num_experts /\ cumsum \in [0 .. num_experts -> Nat]
      <4>1. d \in 0 .. num_experts
        BY Sizes DEF Expert
      <4>2. QED
        BY <1>0, <4>1 DEF IndexShape
    <3>2. CASE d = e
      <4>1. cumsum'[d] = q + 1
        BY <1>2, <3>1, <3>2
      <4>2. Base(counts'[0], d) = Base(counts[0], e) /\ Cardinality(Taken(d)') = Cardinality(Taken(e)) + 1
        BY <1>3, <1>8, <3>2
      <4>3. QED
        BY <1>9, <1>13, <4>1, <4>2
    <3>3. CASE d # e
      <4>1. cumsum'[d] = cumsum[d] /\ Taken(d)' = Taken(d)
        BY <1>2, <1>7, <3>1, <3>3
      <4>2. QED
        BY <1>0, <1>3, <2>1, <4>1 DEF OffsetsRight
    <3>4. QED
      BY <3>2, <3>3
  <2>2. QED
    BY <2>1 DEF OffsetsRight, Base
<1>15. SlotsRight'
  <2>1. slot(t)' = q
    BY <1>1, <1>4, <1>6 DEF slot
  <2>2. \A i \in Runners : i # t => slot(i)' = slot(i)
    BY <1>3, <1>6 DEF slot
  <2>3. ASSUME NEW d \in Expert
        PROVE  /\ {slot(i)' : i \in Taken(d)'}
                     = Base(counts[0], d)' .. Base(counts[0], d)' + Cardinality(Taken(d)') - 1
               /\ \A i, j \in Taken(d)' : slot(i)' = slot(j)' => i = j
               /\ \A i \in Taken(d)' : rank'[i] = NoExpert => sorted_token_ids'[src_dst'[i]] = i
    <3>1. /\ {slot(i) : i \in Taken(d)}
                = Base(counts[0], d) .. Base(counts[0], d) + Cardinality(Taken(d)) - 1
          /\ \A i, j \in Taken(d) : slot(i) = slot(j) => i = j
          /\ \A i \in Taken(d) : rank[i] = NoExpert => sorted_token_ids[src_dst[i]] = i
      BY <1>0 DEF SlotsRight
    <3>2. \A i \in Taken(d) : i \in Runners /\ i # t
      BY <1>7, Sizes DEF Taken, Own
    <3>3. Base(counts[0], d)' = Base(counts[0], d)
      BY <1>3 DEF Base
    <3>4. \A i \in Taken(d) : slot(i)' = slot(i) /\ rank'[i] = rank[i]
      BY <1>6, <2>2, <3>2
    <3>5. CASE d # e
      <4>1. Taken(d)' = Taken(d)
        BY <1>7, <3>5
      <4>2. {slot(i)' : i \in Taken(d)} = {slot(i) : i \in Taken(d)}
        BY <3>4
      <4>3. QED
        BY <1>3, <3>1, <3>3, <3>4, <4>1, <4>2
    <3>6. CASE d = e
      <4>1. Taken(d)' = Taken(d) \cup {t}
        BY <1>7, <3>6
      <4>2. {slot(i)' : i \in Taken(d)'} = {slot(i) : i \in Taken(d)} \cup {q}
        BY <2>1, <3>4, <4>1
      <4>3. \A x : x \in {slot(i) : i \in Taken(d)} \cup {q}
                   <=> x \in Base(counts[0], d) .. Base(counts[0], d) + (Cardinality(Taken(d)) + 1) - 1
        <5>1. q = Base(counts[0], d) + Cardinality(Taken(d))
          BY <1>9, <3>6
        <5>2. Base(counts[0], d) \in Nat /\ Cardinality(Taken(d)) \in Nat
          BY <1>13, <3>6
        <5>3. \A x : x \in {slot(i) : i \in Taken(d)}
                     <=> x \in Base(counts[0], d) .. Base(counts[0], d) + Cardinality(Taken(d)) - 1
          BY <3>1
        <5>4. \A x : x \in Base(counts[0], d) .. Base(counts[0], d) + (Cardinality(Taken(d)) + 1) - 1
                     <=> \/ x \in Base(counts[0], d) .. Base(counts[0], d) + Cardinality(Taken(d)) - 1
                         \/ x = q
          BY <5>1, <5>2
        <5>5. QED
          BY <5>3, <5>4
      <4>4. q \notin {slot(i) : i \in Taken(d)}
        BY <1>9, <1>13, <3>1, <3>6
      <4>5. \A i, j \in Taken(d)' : slot(i)' = slot(j)' => i = j
        <5>1. ASSUME NEW i \in Taken(d)', NEW j \in Taken(d)', slot(i)' = slot(j)'
              PROVE  i = j
          <6>1. CASE i \in Taken(d) /\ j \in Taken(d)
            BY <3>1, <3>4, <5>1, <6>1
          <6>2. CASE i = t /\ j \in Taken(d)
            BY <2>1, <3>4, <4>4, <5>1, <6>2
          <6>3. CASE j = t /\ i \in Taken(d)
            BY <2>1, <3>4, <4>4, <5>1, <6>3
          <6>4. QED
            BY <4>1, <6>1, <6>2, <6>3
        <5>2. QED
          BY <5>1
      <4>6. \A i \in Taken(d)' : rank'[i] = NoExpert => sorted_token_ids'[src_dst'[i]] = i
        BY <1>1, <1>3, <1>4, <1>6, <3>1, <3>4, <4>1
      <4>7. {slot(i)' : i \in Taken(d)'}
              = Base(counts[0], d)' .. Base(counts[0], d)' + Cardinality(Taken(d)') - 1
        <5>1. Cardinality(Taken(d)') = Cardinality(Taken(d)) + 1
          BY <1>8, <3>6
        <5>2. {slot(i) : i \in Taken(d)} \cup {q}
                = Base(counts[0], d) .. Base(counts[0], d) + (Cardinality(Taken(d)) + 1) - 1
          BY <4>3
        <5>3. QED
          BY <3>3, <4>2, <5>1, <5>2
      <4>8. QED
        BY <4>5, <4>6, <4>7
    <3>7. QED
      BY <3>5, <3>6
  <2>4. QED
    BY <2>3 DEF SlotsRight
<1>16. QED
  BY <1>5, <1>10, <1>11, <1>12, <1>14, <1>15 DEF IndexKept

LEMMA IndexStore ==
    ASSUME path = "index", IndexKept, NEW t \in Thread, Store(t)
    PROVE  IndexKept'
<1>0. IndexInput /\ IndexShape /\ InStep /\ HoldsSlot /\ CountsRight /\ OffsetsRight /\ SlotsRight
  BY DEF IndexKept
<1>e. PICK e, q : e = topk_ids[t] /\ q = rank[t]
  OBVIOUS
<1>1. t \in Runners /\ t \in Nat /\ stride = Width
  BY IndexGeometry, Sizes
<1>2. q # NoExpert /\ stage[t] = 3 /\ next[t] = t /\ t \in Items /\ e \in Expert
  BY <1>e, <1>0, <1>1 DEF HoldsSlot, Store
<1>3. /\ sorted_token_ids' = Put(sorted_token_ids, q, t)
      /\ src_dst' = [src_dst EXCEPT ![t] = q]
      /\ rank' = [rank EXCEPT ![t] = NoExpert]
      /\ next' = [next EXCEPT ![t] = t + Width]
  BY <1>e, <1>1, <1>2 DEF Store
<1>4. /\ UNCHANGED <<path, adapter, topk_ids, expert_map, ignore_invalid, fill, fill_reset>>
      /\ UNCHANGED <<stage, counts, cumsum, expert_ids, total_tokens_post_pad>>
  BY DEF Store, inputVars, fillVars
<1>5. t \in Taken(e) /\ slot(t) = q /\ q \in Items
  <2>1. t \in Taken(e) /\ slot(t) = q
    BY <1>e, <1>2 DEF Taken, Own, slot
  <2>2. QED
    BY <1>2, <2>1, SlotInRange
<1>6. /\ \A u \in Runners : rank'[u] = IF u = t THEN NoExpert ELSE rank[u]
      /\ \A u \in Runners : next'[u] = IF u = t THEN t + Width ELSE next[u]
      /\ \A i \in Items : src_dst'[i] = IF i = t THEN q ELSE src_dst[i]
      /\ sorted_token_ids' = [k \in Items |-> IF k = q THEN t ELSE sorted_token_ids[k]]
  <2>1. /\ \A u \in Runners : rank'[u] = IF u = t THEN NoExpert ELSE rank[u]
        /\ \A u \in Runners : next'[u] = IF u = t THEN t + Width ELSE next[u]
        /\ \A i \in Items : src_dst'[i] = IF i = t THEN q ELSE src_dst[i]
    BY <1>0, <1>3 DEF IndexShape
  <2>2. DOMAIN sorted_token_ids \cup {q} = Items
    BY <1>0, <1>5 DEF IndexShape
  <2>3. QED
    BY <1>3, <2>1, <2>2 DEF Put
<1>7. IndexInput' /\ IndexShape'
  <2>1. rank' \in [Runners -> Nat \cup {NoExpert}]
    BY <1>0, <1>3 DEF IndexShape
  <2>2. next' \in [Runners -> Nat] /\ \A u \in Runners : next'[u] = u \/ next'[u] = u + Width
    <3>1. t + Width \in Nat /\ next \in [Runners -> Nat]
      BY <1>0, <1>1, Sizes DEF IndexShape
    <3>2. next' \in [Runners -> Nat]
      BY <1>3, <3>1
    <3>3. QED
      BY <1>0, <1>6, <3>2 DEF IndexShape
  <2>3. Items \subseteq Nat
    BY DEF Items
  <2>4. src_dst' \in [Items -> Nat] /\ sorted_token_ids' \in [Items -> Nat]
    <3>1. src_dst \in [Items -> Nat] /\ sorted_token_ids \in [Items -> Nat] /\ q \in Nat
      BY <1>0, <1>5, <2>3 DEF IndexShape
    <3>2. src_dst' \in [Items -> Nat]
      BY <1>3, <3>1
    <3>3. sorted_token_ids' \in [Items -> Nat]
      BY <1>1, <1>6, <3>1
    <3>4. QED
      BY <3>2, <3>3
  <2>5. QED
    BY <1>0, <1>4, <2>1, <2>2, <2>4 DEF IndexInput, IndexShape
<1>8. ASSUME NEW d
      PROVE  Counted(d)' = Counted(d) /\ Taken(d)' = Taken(d)
  <2>1. Own(d)' = Own(d) /\ \A i \in Own(d) : i \in Runners
    BY <1>4, Sizes DEF Own
  <2>2. t + Width # t
    BY <1>1, Sizes
  <2>3. \A i \in Own(d) : (stage'[i] > 1 \/ next'[i] # i) <=> (stage[i] > 1 \/ next[i] # i)
    BY <1>2, <1>4, <1>6, <2>1, <2>2
  <2>4. \A i \in Own(d) :
           (stage'[i] > 3 \/ (stage'[i] = 3 /\ next'[i] # i) \/ rank'[i] # NoExpert)
              <=> (stage[i] > 3 \/ (stage[i] = 3 /\ next[i] # i) \/ rank[i] # NoExpert)
    BY <1>e, <1>2, <1>4, <1>6, <2>1, <2>2
  <2>5. QED
    BY <2>1, <2>3, <2>4 DEF Counted, Taken
<1>9. CountsRight'
  BY <1>0, <1>4, <1>8 DEF CountsRight
<1>10. HoldsSlot'
  <2>1. ASSUME NEW u \in Runners, rank'[u] # NoExpert
        PROVE  stage'[u] = 3 /\ next'[u] = u /\ u \in Items /\ topk_ids'[u] \in Expert
    <3>1. u # t /\ rank[u] # NoExpert /\ next'[u] = next[u]
      BY <1>6, <2>1
    <3>2. QED
      BY <1>0, <1>4, <3>1 DEF HoldsSlot
  <2>2. QED
    BY <2>1 DEF HoldsSlot
<1>11. InStep'
  BY <1>0, <1>4, <1>8 DEF InStep
<1>12. OffsetsRight'
  BY <1>0, <1>4, <1>8 DEF OffsetsRight, Base
<1>13. ASSUME NEW i \in Items
       PROVE  slot(i)' = slot(i)
  <2>1. i \in Runners
    BY Sizes
  <2>2. CASE i = t
    BY <1>5, <1>6, <2>1, <2>2 DEF slot
  <2>3. CASE i # t
    BY <1>6, <2>1, <2>3 DEF slot
  <2>4. QED
    BY <2>2, <2>3
<1>14. SlotsRight'
  <2>1. ASSUME NEW d \in Expert
        PROVE  /\ {slot(i)' : i \in Taken(d)'}
                     = Base(counts[0], d)' .. Base(counts[0], d)' + Cardinality(Taken(d)') - 1
               /\ \A i, j \in Taken(d)' : slot(i)' = slot(j)' => i = j
               /\ \A i \in Taken(d)' : rank'[i] = NoExpert => sorted_token_ids'[src_dst'[i]] = i
    <3>1. /\ {slot(i) : i \in Taken(d)}
                = Base(counts[0], d) .. Base(counts[0], d) + Cardinality(Taken(d)) - 1
          /\ \A i, j \in Taken(d) : slot(i) = slot(j) => i = j
          /\ \A i \in Taken(d) : rank[i] = NoExpert => sorted_token_ids[src_dst[i]] = i
      BY <1>0 DEF SlotsRight
    <3>2. \A i \in Taken(d) : i \in Items /\ i \in Runners
      BY Sizes DEF Taken, Own
    <3>3. Base(counts[0], d)' = Base(counts[0], d)
      BY <1>4 DEF Base
    <3>4. \A i \in Taken(d) : slot(i)' = slot(i)
      BY <1>13, <3>2
    <3>5. {slot(i)' : i \in Taken(d)} = {slot(i) : i \in Taken(d)}
      BY <3>4
    <3>6. ASSUME NEW i \in Taken(d), rank'[i] = NoExpert
          PROVE  sorted_token_ids'[src_dst'[i]] = i
      <4>1. CASE i = t
        BY <1>5, <1>6, <3>2, <4>1
      <4>2. CASE i # t
        <5>1. rank[i] = NoExpert /\ src_dst'[i] = src_dst[i] /\ slot(i) = src_dst[i]
          BY <1>6, <3>2, <3>6, <4>2 DEF slot
        <5>2. slot(i) # slot(t)
          BY <1>2, <1>5, <4>2, SlotsApart
        <5>3. src_dst[i] \in Items
          BY <5>1, SlotInRange
        <5>4. QED
          BY <1>5, <1>6, <3>1, <5>1, <5>2, <5>3
      <4>3. QED
        BY <4>1, <4>2
    <3>7. QED
      BY <1>8, <3>1, <3>3, <3>4, <3>5, <3>6
  <2>2. QED
    BY <2>1 DEF SlotsRight
<1>15. QED
  BY <1>7, <1>9, <1>10, <1>11, <1>12, <1>14 DEF IndexKept

LEMMA IndexReturn ==
    ASSUME path = "index", IndexKept, Return
    PROVE  IndexKept'
<1>0. IndexInput /\ IndexShape /\ InStep /\ HoldsSlot /\ CountsRight /\ OffsetsRight
  BY DEF IndexKept
<1>1. /\ \A t \in Runners : stage[t] = 4 /\ rank[t] = NoExpert
      /\ stage' = [t \in Runners |-> stage[t] + 1]
  <2>1. Thread = Runners
    BY IndexGeometry
  <2>2. \A t \in Runners : stage[t] = 4
    BY <2>1, AtStage DEF Return
  <2>3. \A t \in Runners : rank[t] = NoExpert
    BY <1>0, <2>2 DEF HoldsSlot
  <2>4. QED
    BY <2>1, <2>2, <2>3 DEF Return
<1>2. /\ UNCHANGED <<path, adapter, topk_ids, expert_map, ignore_invalid, fill, fill_reset>>
      /\ UNCHANGED <<next, rank, counts, cumsum, sorted_token_ids, expert_ids,
                     total_tokens_post_pad, src_dst>>
  BY <1>0 DEF Return, IndexInput, inputVars, fillVars
<1>3. stage' \in [Runners -> 1 .. 5] /\ \A t \in Runners : stage'[t] = 5
  BY <1>1
<1>4. IndexInput' /\ IndexShape'
  BY <1>0, <1>2, <1>3 DEF IndexInput, IndexShape
<1>5. ASSUME NEW e
      PROVE  Counted(e)' = Counted(e) /\ Taken(e)' = Taken(e)
  <2>1. Own(e)' = Own(e) /\ \A i \in Own(e) : i \in Runners
    BY <1>2, Sizes DEF Own
  <2>2. \A i \in Own(e) : stage[i] > 3 /\ stage'[i] > 3 /\ stage[i] > 1 /\ stage'[i] > 1
    BY <1>1, <1>3, <2>1
  <2>3. QED
    BY <2>1, <2>2 DEF Counted, Taken
<1>6. CountsRight' /\ SlotsRight'
  BY <1>2, <1>5, SetsCarry
<1>7. HoldsSlot'
  BY <1>1, <1>2 DEF HoldsSlot
<1>8. InStep'
  BY <1>3 DEF InStep
<1>9. OffsetsRight'
  <2>1. \A e \in Expert : stage[e] > 2
    BY <1>1, Sizes
  <2>2. QED
    BY <1>0, <1>2, <1>5, <2>1 DEF OffsetsRight, Base
<1>10. QED
  BY <1>4, <1>6, <1>7, <1>8, <1>9 DEF IndexKept

\* The launch and its inputs are chosen once.
LEMMA PathKept == [Next]_vars => UNCHANGED path /\ UNCHANGED inputVars
<1> SUFFICES ASSUME [Next]_vars PROVE UNCHANGED inputVars
  BY DEF inputVars
<1>1. CASE FillReset \/ \E f \in Fill : FillSlots(f)
  BY <1>1 DEF FillReset, FillSlots
<1>2. ASSUME NEW t \in Thread,
             \/ Reset(t) \/ Clear(t) \/ Zero(t) \/ Count(t) \/ CountPast(t) \/ EndLoop(t) \/ Prefix(t)
             \/ Scan(t) \/ ExpertIds(t)
             \/ Skip(t) \/ TakeRank(t) \/ Store(t) \/ PlaceFromRow(t) \/ PlacePast(t) \/ PlaceBatch(t)
      PROVE  UNCHANGED inputVars
  BY <1>2 DEF Reset, Clear, Zero, Count, CountPast, EndLoop, Prefix, Scan, ExpertIds, Skip, TakeRank,
              Store, PlaceFromRow, PlacePast, PlaceBatch
<1>3. CASE Return
  BY <1>3 DEF Return
<1>4. CASE UNCHANGED vars
  BY <1>4 DEF vars
<1>5. QED
  BY <1>1, <1>2, <1>3, <1>4 DEF Next

\* Whether the small kernel has ids past the experts is settled at the launch.
LEMMA RangeKept == [Next]_vars => IdsInRange' = IdsInRange
<1> SUFFICES ASSUME [Next]_vars PROVE IdsInRange' = IdsInRange
  OBVIOUS
<1>1. path' = path /\ topk_ids' = topk_ids
  BY PathKept DEF inputVars
<1>2. Element' = Element
  BY <1>1 DEF Element, n
<1>3. \A i : past_experts(i)' <=> past_experts(i)
  BY <1>1 DEF past_experts
<1>4. QED
  BY <1>2, <1>3 DEF IdsInRange

\* Only the small kernel takes such an id further.
LEMMA PastIsSmall ==
    ASSUME NEW t, CountPast(t) \/ PlacePast(t)
    PROVE  path = "small" /\ next[t] < n /\ past_experts(next[t])
  BY DEF CountPast, PlacePast, past_experts

LEMMA IndexStutter ==
    ASSUME IndexKept, UNCHANGED vars
    PROVE  IndexKept'
<1>1. /\ UNCHANGED <<path, adapter, topk_ids, expert_map, ignore_invalid, fill, fill_reset>>
      /\ UNCHANGED <<stage, next, rank, counts, cumsum>>
      /\ UNCHANGED <<sorted_token_ids, expert_ids, total_tokens_post_pad, src_dst>>
  BY DEF vars, inputVars, threadVars, fillVars, outputVars
<1>2. \A e : Counted(e)' = Counted(e) /\ Taken(e)' = Taken(e)
  BY <1>1 DEF Counted, Taken, Own
<1>3. CountsRight' /\ SlotsRight'
  BY <1>1, <1>2, SetsCarry
<1>4. IndexInput' /\ IndexShape' /\ HoldsSlot'
  BY <1>1 DEF IndexKept, IndexInput, IndexShape, HoldsSlot
<1>5. InStep' /\ OffsetsRight'
  BY <1>1, <1>2 DEF IndexKept, InStep, OffsetsRight, Base
<1>6. QED
  BY <1>3, <1>4, <1>5 DEF IndexKept

LEMMA IndexNext == IndexInv /\ [Next]_vars => IndexInv'
<1> SUFFICES ASSUME IndexInv, [Next]_vars, path' = "index" PROVE IndexKept'
  BY DEF IndexInv
<1>1. path = "index" /\ IndexKept
  BY PathKept DEF IndexInv
<1>2. ~ FillReset /\ \A f \in Fill : ~ FillSlots(f)
  BY <1>1 DEF FillReset, FillSlots, IndexKept, IndexInput
<1>3. ASSUME NEW t \in Thread,
             \/ Reset(t) \/ Clear(t) \/ Zero(t) \/ Prefix(t) \/ ExpertIds(t)
             \/ PlaceFromRow(t) \/ PlaceBatch(t) \/ CountPast(t) \/ PlacePast(t)
      PROVE  FALSE
  <2>1. /\ ~ At(t, "reset") /\ ~ At(t, "clear") /\ ~ At(t, "zero")
        /\ ~ At(t, "prefix") /\ ~ At(t, "ids")
    BY <1>1, AtStage
  <2>2. QED
    BY <1>1, <1>3, <2>1, PastIsSmall DEF Reset, Clear, Zero, Prefix, ExpertIds, PlaceFromRow, PlaceBatch
<1>4. ASSUME NEW t \in Thread,
             Count(t) \/ EndLoop(t) \/ Scan(t) \/ Skip(t) \/ TakeRank(t) \/ Store(t)
      PROVE  IndexKept'
  BY <1>1, <1>4, IndexCount, IndexEndLoop, IndexScan, IndexSkip, IndexTakeRank, IndexStore
<1>5. CASE Return
  BY <1>1, <1>5, IndexReturn
<1>6. CASE UNCHANGED vars
  BY <1>1, <1>6, IndexStutter
<1>7. QED
  BY <1>2, <1>3, <1>4, <1>5, <1>6 DEF Next

\* In the index path the threads stay in step, a thread holds a slot only between its
\* addition and its store, the offsets are what the counts say, and the slots drawn are
\* the first ones of each expert.
THEOREM IndexInvariant == Spec => []IndexInv
<1>1. QED
  BY IndexInit, IndexNext, PTL DEF Spec

----------------------------------------------------------------------------
(* What follows for the index path *)

\* moe_compute_index stores nothing outside its buffers, and its counters stay counters.
THEOREM IndexTypes == Spec => [](path = "index" => TypeOK)
<1>1. IndexInv => (path = "index" => TypeOK)
  <2> SUFFICES ASSUME IndexInv, path = "index" PROVE TypeOK
    OBVIOUS
  <2>1. IndexInput /\ IndexShape
    BY DEF IndexInv, IndexKept
  <2>2. /\ Element = Items /\ stride = Width /\ Thread = Runners
        /\ max_num_tokens_padded = numel /\ max_num_m_blocks = CEILDIV(numel, block_size)
    BY IndexGeometry
  <2>3. 0 .. max_num_tokens_padded - 1 = Items
    BY <2>2 DEF Items
  <2>4. Len(Program) = 5
    <3>1. 0 \in Runners
      BY Sizes DEF Runners
    <3>2. QED
      BY <2>1, <3>1, IndexAt DEF IndexShape
  <2>5. expert_ids \in [0 .. max_num_m_blocks - 1 -> Expert \cup {NoExpert, Garbage}]
    BY <2>1, <2>2 DEF IndexShape
  <2>6. fill_reset \in BOOLEAN
    BY <2>1 DEF IndexInput
  <2>7. QED
    BY <2>1, <2>2, <2>3, <2>4, <2>5, <2>6 DEF IndexInput, IndexShape, TypeOK
<1>2. QED
  BY <1>1, IndexInvariant, PTL

\* Whatever the order of the additions and stores, the list moe_compute_index returns
\* names every routed element once, expert by expert in runs of their counts, and
\* src_dst is its inverse.
THEOREM IndexIsAnInverse == Spec => []IndexIsInverse
<1>1. IndexInv => IndexIsInverse
  <2> SUFFICES ASSUME IndexInv, Returned, path = "index"
               PROVE  /\ \A e \in Expert : counts[0][e] = due(e)
                      /\ \A k \in 0 .. due_total - 1 :
                           /\ sorted_token_ids[k] \in Routed
                           /\ src_dst[sorted_token_ids[k]] = k
                           /\ LET e == expert_id(sorted_token_ids[k])
                              IN  k \in due_before(e) .. due_before(e + 1) - 1
    BY DEF IndexIsInverse
  <2>1. IndexKept /\ IndexInput /\ IndexShape /\ HoldsSlot /\ CountsRight /\ SlotsRight
    BY DEF IndexInv, IndexKept
  <2>2. \A t \in Runners : stage[t] = 5 /\ rank[t] = NoExpert
    <3>1. ASSUME NEW t \in Runners PROVE stage[t] = 5
      <4>1. label(t) = "done" /\ stage[t] \in 1 .. 5
        BY <2>1, IndexGeometry DEF Returned, IndexShape
      <4>2. label(t) = CASE stage[t] = 1 -> "count" [] stage[t] = 2 -> "scan"
                         [] stage[t] = 3 -> "place" [] stage[t] = 4 -> "return"
                         [] stage[t] = 5 -> "done"
        BY <2>1, IndexAt DEF IndexShape
      <4>3. stage[t] = 1 \/ stage[t] = 2 \/ stage[t] = 3 \/ stage[t] = 4 \/ stage[t] = 5
        BY <4>1
      <4>4. QED
        BY <4>1, <4>2, <4>3
    <3>2. QED
      BY <2>1, <3>1 DEF HoldsSlot
  <2>3. \A e : Counted(e) = Own(e) /\ Taken(e) = Own(e)
    <3>1. \A i \in Items : stage[i] > 1 /\ stage[i] > 3
      BY <2>2, Sizes
    <3>2. QED
      BY <3>1 DEF Counted, Taken, Own
  <2>4. ASSUME NEW e \in Expert
        PROVE  counts[0][e] = Cardinality(Own(e)) /\ due(e) = Cardinality(Own(e))
    <3>1. \A i \in Items : i \in Routed <=> topk_ids[i] \in Expert
      BY <2>1, IndexRouting, IndexGeometry, Sizes DEF Routed
    <3>2. Routed \subseteq Items
      BY IndexGeometry DEF Routed
    <3>3. \A i \in Items : i \in Routed => expert_id(i) = topk_ids[i]
      BY <2>1, <3>1, IndexRouting
    <3>4. {i \in Routed : expert_id(i) = e} = Own(e)
      BY <3>1, <3>2, <3>3 DEF Own
    <3>5. due(e) = Cardinality(Own(e))
      BY <3>4 DEF due
    <3>6. QED
      BY <2>1, <2>3, <3>5 DEF CountsRight
  <2>5. counts[0] \in [Expert -> Nat]
    BY <2>1, Sizes DEF IndexShape
  <2>6. \A e : due_before(e) = Base(counts[0], e)
    <3>1. [x \in Expert |-> due(x)] = counts[0]
      BY <2>4, <2>5
    <3>2. QED
      BY <3>1 DEF due_before, Base
  <2>7. ASSUME NEW k \in 0 .. due_total - 1
        PROVE  /\ sorted_token_ids[k] \in Routed
               /\ src_dst[sorted_token_ids[k]] = k
               /\ LET e == expert_id(sorted_token_ids[k])
                  IN  k \in due_before(e) .. due_before(e + 1) - 1
    <3>1. k \in 0 .. Base(counts[0], num_experts) - 1
      BY <2>6 DEF due_total
    <3>2. PICK e \in Expert : k \in Base(counts[0], e) .. Base(counts[0], e + 1) - 1
      BY <2>5, <3>1, SlotHasExpert
    <3>3. Base(counts[0], e + 1) = Base(counts[0], e) + Cardinality(Taken(e))
      BY <2>3, <2>4, <2>5, BaseFacts
    <3>4. k \in {slot(i) : i \in Taken(e)}
      <4>1. {slot(i) : i \in Taken(e)}
              = Base(counts[0], e) .. Base(counts[0], e) + Cardinality(Taken(e)) - 1
        BY <2>1 DEF SlotsRight
      <4>2. k \in Base(counts[0], e) .. Base(counts[0], e) + Cardinality(Taken(e)) - 1
        <5>1. e \in 0 .. num_experts /\ e + 1 \in 0 .. num_experts
          BY Sizes DEF Expert
        <5>2. Base(counts[0], e) \in Nat /\ Base(counts[0], e + 1) \in Nat
          BY <2>5, <5>1, BaseFacts
        <5>3. PICK m : m = Base(counts[0], e + 1)
          OBVIOUS
        <5>4. m \in Nat /\ m = Base(counts[0], e) + Cardinality(Taken(e))
              /\ k \in Base(counts[0], e) .. m - 1
          BY <3>2, <3>3, <5>2, <5>3
        <5>5. Cardinality(Taken(e)) \in Nat
          BY SetsFinite
        <5>6. QED
          BY <5>2, <5>4, <5>5
      <4>3. QED
        BY <4>1, <4>2
    <3>5. PICK i \in Taken(e) : slot(i) = k
      BY <3>4
    <3>6. i \in Items /\ topk_ids[i] = e /\ rank[i] = NoExpert
      BY <2>2, Sizes DEF Taken, Own
    <3>7. src_dst[i] = k /\ sorted_token_ids[k] = i
      BY <2>1, <3>5, <3>6 DEF slot, SlotsRight
    <3>8. expert_id(i) = e /\ i \in Routed
      BY <2>1, <3>6, IndexRouting, IndexGeometry, Sizes DEF Routed
    <3>9. QED
      BY <2>6, <3>2, <3>7, <3>8
  <2>8. QED
    BY <2>4, <2>7
<1>2. QED
  BY <1>1, IndexInvariant, PTL

----------------------------------------------------------------------------
(* Whole blocks *)

\* The smaller of two numbers.
LEMMA SmallerOfTwo ==
    ASSUME NEW a \in Nat, NEW b \in Nat
    PROVE  Min({a, b}) = IF a <= b THEN a ELSE b
<1> DEFINE m == IF a <= b THEN a ELSE b
<1>1. m \in {a, b} /\ \A y \in {a, b} : m <= y
  OBVIOUS
<1>2. \A x \in {a, b} : (\A y \in {a, b} : x <= y) => x = m
  OBVIOUS
<1>3. Min({a, b}) \in {a, b} /\ \A y \in {a, b} : Min({a, b}) <= y
  <2> HIDE DEF m
  <2>1. QED
    BY <1>1 DEF Min
<1>4. QED
  BY <1>2, <1>3

\* Rounding up to a multiple of b adds less than b, at most multiplies by b,
\* and keeps the order.
LEMMA RoundUp ==
    ASSUME NEW a \in Nat, NEW b \in Nat \ {0}
    PROVE  /\ CEILDIV(a, b) \in Nat
           /\ CEILDIV(a, b) * b \in Nat
           /\ a <= CEILDIV(a, b) * b
           /\ CEILDIV(a, b) * b <= a + (b - 1)
           /\ CEILDIV(a, b) * b <= b * a
<1> DEFINE q == CEILDIV(a, b)
           r == (a + b - 1) % b
<1>1. a + b - 1 \in Nat
  OBVIOUS
<1>2. q \in Nat /\ r \in 0 .. b - 1 /\ a + b - 1 = b * q + r
  BY <1>1, DivMod DEF CEILDIV
<1>3. q * b \in Nat /\ b * q = q * b
  BY <1>2
<1> HIDE DEF q, r
<1>4. a <= q * b /\ q * b <= a + (b - 1)
  <2> DEFINE z == q * b
  <2>1. z \in Nat /\ a + b - 1 = z + r
    BY <1>2, <1>3
  <2> HIDE DEF z
  <2>2. a <= z /\ z <= a + (b - 1)
    BY <1>2, <2>1
  <2>3. QED
    BY <2>2 DEF z
<1>5. q <= a
  <2> SUFFICES ASSUME a < q PROVE FALSE
    BY <1>2
  <2>1. a * b + b <= q * b
    BY <1>2, Scale
  <2>2. CASE a = 0
    BY <1>3, <1>4, <2>1, <2>2
  <2>3. CASE a # 0
    <3>1. PICK c \in Nat : a = c + 1
      <4>1. a - 1 \in Nat /\ a = (a - 1) + 1
        BY <2>3
      <4>2. QED
        BY <4>1
    <3>2. a * b = c * b + b /\ c * b \in Nat /\ c * b >= c
      <4>1. a * b = c * b + b /\ c * b \in Nat
        BY <3>1
      <4>2. c * b >= c
        <5>1. PICK d \in Nat : b = d + 1
          <6>1. b - 1 \in Nat /\ b = (b - 1) + 1
            OBVIOUS
          <6>2. QED
            BY <6>1
        <5>2. c * b = c * d + c /\ c * d \in Nat
          BY <5>1
        <5>3. QED
          BY <5>2
      <4>3. QED
        BY <4>1, <4>2
    <3>3. c * b + b + b <= q * b /\ q * b <= c + b
      BY <1>3, <1>4, <2>1, <3>1, <3>2
    <3>4. QED
      BY <1>3, <3>2, <3>3
  <2>4. QED
    BY <2>2, <2>3
<1>6. q * b <= b * a
  <2>1. q * b <= a * b
    BY <1>2, <1>5, Scale
  <2>2. a * b = b * a
    OBVIOUS
  <2>3. QED
    BY <2>1, <2>2
<1>7. QED
  BY <1>2, <1>3, <1>4, <1>6 DEF q

\* Rounding up keeps the order.
LEMMA RoundUpMonotone ==
    ASSUME NEW a \in Nat, NEW c \in Nat, NEW b \in Nat \ {0}, a <= c
    PROVE  CEILDIV(a, b) * b <= CEILDIV(c, b) * b
<1>1. PICK p \in Nat : p = CEILDIV(a, b) /\ p * b \in Nat /\ a <= p * b /\ p * b <= a + (b - 1)
  BY RoundUp
<1>2. PICK q \in Nat : q = CEILDIV(c, b) /\ q * b \in Nat /\ c <= q * b
  BY RoundUp
<1>3. p <= q
  <2> SUFFICES ASSUME q < p PROVE FALSE
    BY <1>1, <1>2
  <2>1. q * b + b <= p * b
    BY <1>1, <1>2, Scale
  <2>2. QED
    BY <1>1, <1>2, <2>1
<1>4. p * b <= q * b
  BY <1>1, <1>2, <1>3, Scale
<1>5. QED
  BY <1>1, <1>2, <1>4

\* A number is in block b exactly when it is one of its block_size numbers.
LEMMA InBlock ==
    ASSUME NEW k \in Nat, NEW b \in Nat \ {0}, NEW m \in Nat
    PROVE  /\ k \div b \in Nat
           /\ k < m * b <=> k \div b < m
           /\ (m * b) \div b = m
           /\ (m * b) % b = 0
<1>1. PICK q \in Nat, r \in 0 .. b - 1 : q = k \div b /\ k = b * q + r
  BY DivMod
<1>2. q * b \in Nat /\ b * q = q * b
  OBVIOUS
<1>3. m * b \in Nat
  OBVIOUS
<1>4. ASSUME q < m PROVE k < m * b
  <2>1. q * b + b <= m * b
    BY <1>4, Scale
  <2>2. QED
    BY <1>1, <1>2, <1>3, <2>1
<1>5. ASSUME k < m * b PROVE q < m
  <2> SUFFICES ASSUME m <= q PROVE FALSE
    OBVIOUS
  <2>1. m * b <= q * b
    BY Scale
  <2>2. QED
    BY <1>1, <1>2, <1>3, <1>5, <2>1
<1>6. (m * b) \div b = m /\ (m * b) % b = 0
  <2>0. PICK x \in Nat : x = m * b
    BY <1>3
  <2>1. PICK p \in Nat, s \in 0 .. b - 1 : p = x \div b /\ s = x % b /\ x = b * p + s
    BY Divide
  <2>2. p * b \in Nat /\ b * p = p * b
    OBVIOUS
  <2>3. p = m
    <3>1. p < m => p * b + b <= m * b
      BY Scale
    <3>2. m < p => m * b + b <= p * b
      BY Scale
    <3>3. PICK y \in Nat : y = p * b /\ x = y + s /\ (p < m => y + b <= x) /\ (m < p => x + b <= y)
      BY <2>0, <2>1, <2>2, <3>1, <3>2
    <3>4. QED
      BY <3>3
  <2>4. s = 0
    <3>1. p * b = x
      BY <2>0, <2>3
    <3>2. PICK y \in Nat : y = p * b /\ x = y + s
      BY <2>1, <2>2
    <3>3. QED
      BY <3>1, <3>2
  <2>5. QED
    BY <2>0, <2>1, <2>3, <2>4
<1>7. QED
  BY <1>1, <1>4, <1>5, <1>6

\* Bounds on the terms bound the offset after the last one.
LEMMA BaseBound ==
    ASSUME NEW c \in [Expert -> Nat], NEW g \in [Expert -> Nat], NEW k \in Nat, NEW m \in Nat,
           \A x \in Expert : c[x] <= k * g[x] + m
    PROVE  Base(c, num_experts) <= k * Base(g, num_experts) + num_experts * m
<1>0. num_experts \in Nat /\ Expert = 0 .. num_experts - 1
  BY MoeAssumption DEF Expert
<1>1. /\ \A e \in 0 .. num_experts : Base(c, e) \in Nat /\ Base(g, e) \in Nat
      /\ Base(c, 0) = 0 /\ Base(g, 0) = 0
      /\ \A e \in Expert : Base(c, e + 1) = Base(c, e) + c[e] /\ Base(g, e + 1) = Base(g, e) + g[e]
  BY BaseFacts
<1> DEFINE Bad == {e \in 0 .. num_experts : ~ (Base(c, e) <= k * Base(g, e) + e * m)}
<1>2. Bad = {}
  <2> SUFFICES ASSUME Bad # {} PROVE FALSE
    OBVIOUS
  <2>1. PICK e \in Bad : \A d \in Bad : e <= d
    <3>1. Bad \subseteq Nat
      BY <1>0
    <3> HIDE DEF Bad
    <3>2. QED
      BY <3>1, NatMinimum
  <2>2. e \in 0 .. num_experts /\ ~ (Base(c, e) <= k * Base(g, e) + e * m)
    OBVIOUS
  <2>3. e # 0
    BY <1>1, <2>2
  <2>4. PICK d \in Expert : d \in Nat /\ d \in 0 .. num_experts /\ e = d + 1 /\ d < e
    <3>1. e - 1 \in Expert /\ e - 1 \in Nat /\ e - 1 \in 0 .. num_experts /\ e = (e - 1) + 1 /\ e - 1 < e
      BY <1>0, <2>2, <2>3
    <3>2. QED
      BY <3>1
  <2>5. Base(c, d) <= k * Base(g, d) + d * m
    BY <1>0, <2>1, <2>4
  <2>6. Base(c, e) = Base(c, d) + c[d] /\ Base(g, e) = Base(g, d) + g[d] /\ c[d] <= k * g[d] + m
    BY <1>1, <2>4
  <2>7. PICK x \in Nat, y \in Nat : x = Base(g, d) /\ y = Base(c, d)
    BY <1>1, <2>4
  <2>8. PICK u \in Nat, v \in Nat : u = g[d] /\ v = c[d]
    BY <2>4
  <2>9. k * (x + u) = k * x + k * u /\ e * m = d * m + m
    BY <2>4
  <2>10. k * x \in Nat /\ k * u \in Nat /\ d * m \in Nat
    BY <2>4
  <2>11. y + v <= k * (x + u) + e * m
    <3>1. y <= k * x + d * m /\ v <= k * u + m
      BY <2>5, <2>6, <2>7, <2>8
    <3>2. QED
      BY <2>9, <2>10, <3>1
  <2>12. QED
    BY <2>2, <2>6, <2>7, <2>8, <2>11
<1>3. num_experts \in 0 .. num_experts
  BY <1>0
<1>4. QED
  BY <1>2, <1>3

\* Offsets of multiples are the multiples of the offsets.
LEMMA BaseScale ==
    ASSUME NEW c \in [Expert -> Nat], NEW g \in [Expert -> Nat], NEW k \in Nat,
           \A x \in Expert : c[x] = g[x] * k
    PROVE  \A e \in 0 .. num_experts : Base(c, e) = Base(g, e) * k
<1>0. num_experts \in Nat /\ Expert = 0 .. num_experts - 1
  BY MoeAssumption DEF Expert
<1>1. /\ \A e \in 0 .. num_experts : Base(c, e) \in Nat /\ Base(g, e) \in Nat
      /\ Base(c, 0) = 0 /\ Base(g, 0) = 0
      /\ \A e \in Expert : Base(c, e + 1) = Base(c, e) + c[e] /\ Base(g, e + 1) = Base(g, e) + g[e]
  BY BaseFacts
<1> DEFINE Bad == {e \in 0 .. num_experts : Base(c, e) # Base(g, e) * k}
<1> SUFFICES ASSUME Bad # {} PROVE FALSE
  OBVIOUS
<1>2. PICK e \in Bad : \A d \in Bad : e <= d
  <2>1. Bad \subseteq Nat
    BY <1>0
  <2> HIDE DEF Bad
  <2>2. QED
    BY <2>1, NatMinimum
<1>3. e \in 0 .. num_experts /\ Base(c, e) # Base(g, e) * k
  OBVIOUS
<1>4. e # 0
  BY <1>1, <1>3
<1>5. PICK d \in Expert : d \in Nat /\ d \in 0 .. num_experts /\ e = d + 1 /\ d < e
  <2>1. e - 1 \in Expert /\ e - 1 \in Nat /\ e - 1 \in 0 .. num_experts /\ e = (e - 1) + 1 /\ e - 1 < e
    BY <1>0, <1>3, <1>4
  <2>2. QED
    BY <2>1
<1>6. Base(c, d) = Base(g, d) * k
  BY <1>0, <1>2, <1>5
<1>7. Base(c, e) = Base(c, d) + c[d] /\ Base(g, e) = Base(g, d) + g[d] /\ c[d] = g[d] * k
  BY <1>1, <1>5
<1>8. PICK x \in Nat, u \in Nat : x = Base(g, d) /\ u = g[d]
  BY <1>1, <1>5
<1>9. (x + u) * k = x * k + u * k
  OBVIOUS
<1>10. QED
  BY <1>3, <1>6, <1>7, <1>8, <1>9

----------------------------------------------------------------------------
(* The layout moe_align_block_size has to produce *)

\* What a launch of the three paths fixes.
AlignInput ==
    /\ <<path, adapter>> \in Modes
    /\ path \in {"general", "small", "batched"} /\ adapter \in {"none", "enabled"}
    /\ topk_ids \in [Element -> Int]
    /\ path = "batched" =>
         /\ expert_map = NoMap
         /\ \E size \in [Expert -> 0 .. max_tokens_per_batch] :
              topk_ids = [i \in Element |->
                            LET b == i \div max_tokens_per_batch
                            IN  IF i % max_tokens_per_batch < size[b] THEN b ELSE NoExpert]
    /\ expert_map = NoMap \/ expert_map \in [Expert -> Expert \cup {NoExpert}]
    /\ ignore_invalid \in BOOLEAN

\* The elements expert e gets, the blocks they fill, and the first of these.
Live(e) == {i \in Routed : expert_id(i) = e}
parts == [e \in Expert |-> CEILDIV(Cardinality(Live(e)), block_size)]
first_block(e) == Base(parts, e)

\* The slots expert e is due.
Region(e) == due_before(e) .. due_before(e) + due(e) - 1

Buffer == 0 .. max_num_tokens_padded - 1
Block == 0 .. max_num_m_blocks - 1

\* What a launch of moe_align_block_size fixes: as many threads as experts at least, and buffers of
\* the sizes the Python wrapper allocates.
LEMMA AlignSizes ==
    ASSUME AlignInput
    PROVE  /\ num_experts \in Nat \ {0} /\ block_size \in Nat \ {0} /\ FillThreads \in Nat \ {0}
           /\ WARP_SIZE \in Nat \ {0} /\ max_tokens_per_batch \in Nat \ {0}
           /\ Garbage \in Nat /\ NoExpert \notin Nat /\ NoExpert \notin Expert /\ Expert \subseteq Nat
           /\ n \in Nat /\ Element \subseteq Nat /\ n \notin Element
           /\ IsFiniteSet(Element) /\ Cardinality(Element) = n
           /\ stride \in Nat \ {0} /\ Expert \subseteq Thread /\ Thread \subseteq Nat
           /\ path # "small" => stride = num_experts + 1
           /\ max_num_tokens_padded \in Nat /\ max_num_m_blocks \in Nat
<1>1. /\ num_experts \in Nat \ {0} /\ block_size \in Nat \ {0} /\ FillThreads \in Nat \ {0}
      /\ WARP_SIZE \in Nat \ {0} /\ max_tokens_per_batch \in Nat \ {0} /\ numel \in Nat \ {0}
      /\ Garbage \in Nat
  BY MoeAssumption
<1>2. n \in Nat
  <2>1. num_experts * max_tokens_per_batch \in Nat
    BY <1>1
  <2>2. QED
    BY <1>1, <2>1 DEF n
<1>3. Element \subseteq Nat /\ n \notin Element
  BY <1>2 DEF Element
<1>4. IsFiniteSet(Element) /\ Cardinality(Element) = n
  <2>1. 0 \in Int /\ n - 1 \in Int /\ n = (n - 1) - 0 + 1 /\ (0 > n - 1 => n = 0)
    BY <1>2
  <2>2. QED
    BY <2>1, FS_Interval DEF Element
<1>5. stride \in Nat \ {0} /\ num_experts <= stride /\ (path # "small" => stride = num_experts + 1)
  <2>1. CASE path = "small"
    <3>1. stride = IF num_experts >= WARP_SIZE THEN num_experts ELSE WARP_SIZE
      BY <1>1, <2>1, LargerOfTwo DEF stride
    <3>2. QED
      BY <1>1, <2>1, <3>1
  <2>2. CASE path # "small"
    <3>1. path = "general" \/ path = "batched"
      BY <2>2 DEF AlignInput
    <3>2. stride = num_experts + 1
      BY <3>1 DEF stride
    <3>3. QED
      BY <1>1, <3>2
  <2>3. QED
    BY <2>1, <2>2
<1>6. Expert \subseteq Thread /\ Thread \subseteq Nat /\ Expert \subseteq Nat /\ NoExpert \notin Nat
  BY <1>1, <1>5 DEF Expert, Thread, NoExpert
<1>7. max_num_tokens_padded \in Nat
  <2>1. CASE path = "batched"
    <3>1. max_num_tokens_padded = num_experts * round_up(max_tokens_per_batch, block_size)
      BY <2>1 DEF max_num_tokens_padded
    <3>2. round_up(max_tokens_per_batch, block_size) \in Nat
      BY <1>1, RoundUp DEF round_up
    <3>3. QED
      BY <1>1, <3>1, <3>2
  <2>2. CASE path # "batched"
    <3>1. path = "general" \/ path = "small"
      BY <2>2 DEF AlignInput
    <3> DEFINE a == n * block_size
               c == n + num_experts * (block_size - 1)
    <3>2. max_num_tokens_padded = IF n < num_experts THEN Min({a, c}) ELSE c
      BY <3>1 DEF max_num_tokens_padded
    <3>3. a \in Nat
      BY <1>1, <1>2
    <3>4. c \in Nat
      <4>1. block_size - 1 \in Nat
        BY <1>1
      <4>2. num_experts * (block_size - 1) \in Nat
        BY <1>1, <4>1
      <4>3. QED
        BY <1>2, <4>2
    <3> HIDE DEF a, c
    <3>5. QED
      BY <3>2, <3>3, <3>4, SmallerOfTwo
  <2>3. QED
    BY <2>1, <2>2
<1>8. max_num_m_blocks \in Nat
  BY <1>1, <1>7, RoundUp DEF max_num_m_blocks
<1>9. NoExpert \notin Expert
  BY <1>6
<1>10. QED
  BY <1>1, <1>2, <1>3, <1>4, <1>5, <1>6, <1>7, <1>8, <1>9

\* Every routed element is one of an expert, and an expert has finitely many.
LEMMA AlignRouting ==
    ASSUME AlignInput
    PROVE  /\ \A i \in Element : expert_id(i) \in Expert \cup {NoExpert}
           /\ Routed \subseteq Element /\ IsFiniteSet(Routed) /\ Cardinality(Routed) <= n
           /\ \A i \in Routed : expert_id(i) \in Expert /\ i \in Live(expert_id(i))
           /\ \A e : Live(e) \subseteq Element /\ Live(e) \subseteq Routed /\ IsFiniteSet(Live(e))
           /\ \A e : Cardinality(Live(e)) \in Nat
           /\ parts \in [Expert -> Nat]
<1>1. \A i \in Element : expert_id(i) \in Expert \cup {NoExpert}
  <2> SUFFICES ASSUME NEW i \in Element, topk_ids[i] \in Expert, kernel_map # NoMap
               PROVE  kernel_map[topk_ids[i]] \in Expert \cup {NoExpert}
    BY DEF expert_id
  <2>1. kernel_map \in [Expert -> Expert \cup {NoExpert}]
    BY DEF kernel_map, AlignInput
  <2>2. QED
    BY <2>1
<1>2. Routed \in SUBSET Element
  BY DEF Routed
<1>3. IsFiniteSet(Routed) /\ Cardinality(Routed) <= n
  BY <1>2, AlignSizes, FS_Subset
<1>4. \A i \in Routed : expert_id(i) \in Expert /\ i \in Live(expert_id(i))
  BY <1>1, <1>2 DEF Routed, Live
<1>5. \A e : Live(e) \in SUBSET Routed
  BY DEF Live
<1>6. \A e : IsFiniteSet(Live(e)) /\ Cardinality(Live(e)) \in Nat
  BY <1>3, <1>5, FS_Subset, FS_CardinalityType
<1>7. parts \in [Expert -> Nat]
  BY <1>6, AlignSizes, RoundUp DEF parts
<1>8. QED
  BY <1>1, <1>2, <1>3, <1>4, <1>5, <1>6, <1>7

\* The slots an expert is due are its blocks: at least one slot an element,
\* and the experts' blocks follow each other.
LEMMA Due ==
    ASSUME AlignInput
    PROVE  /\ \A e \in Expert : /\ due(e) \in Nat /\ due(e) = parts[e] * block_size
                                /\ Cardinality(Live(e)) <= due(e)
           /\ \A e \in 0 .. num_experts : /\ first_block(e) \in Nat /\ due_before(e) \in Nat
                                          /\ due_before(e) = first_block(e) * block_size
           /\ first_block(0) = 0
           /\ \A e \in Expert : /\ first_block(e + 1) = first_block(e) + parts[e]
                                /\ due_before(e + 1) = due_before(e) + due(e)
           /\ \A d, e \in 0 .. num_experts : d <= e => /\ first_block(d) <= first_block(e)
                                                       /\ due_before(d) <= due_before(e)
<1>1. parts \in [Expert -> Nat] /\ num_experts \in Nat /\ block_size \in Nat \ {0}
  BY AlignRouting, AlignSizes
<1>2. ASSUME NEW e \in Expert
      PROVE  due(e) \in Nat /\ due(e) = parts[e] * block_size /\ Cardinality(Live(e)) <= due(e)
  <2>1. due(e) = CEILDIV(Cardinality(Live(e)), block_size) * block_size
    BY DEF due, Live, AlignInput, round_up
  <2>2. Cardinality(Live(e)) \in Nat
    BY AlignRouting
  <2>3. QED
    BY <1>1, <2>1, <2>2, RoundUp DEF parts
<1> DEFINE c == [x \in Expert |-> due(x)]
<1>3. c \in [Expert -> Nat] /\ \A x \in Expert : c[x] = due(x) /\ c[x] = parts[x] * block_size
  BY <1>2
<1>4. \A e : due_before(e) = Base(c, e)
  BY DEF due_before, Base
<1> HIDE DEF c
<1>5. /\ \A e \in 0 .. num_experts : Base(c, e) \in Nat
      /\ \A e \in Expert : Base(c, e + 1) = Base(c, e) + c[e]
      /\ \A d, e \in 0 .. num_experts : d <= e => Base(c, d) <= Base(c, e)
  BY <1>3, BaseFacts
<1>6. /\ \A e \in 0 .. num_experts : first_block(e) \in Nat
      /\ first_block(0) = 0
      /\ \A e \in Expert : first_block(e + 1) = first_block(e) + parts[e]
      /\ \A d, e \in 0 .. num_experts : d <= e => first_block(d) <= first_block(e)
  BY <1>1, BaseFacts DEF first_block
<1>7. \A e \in 0 .. num_experts : Base(c, e) = Base(parts, e) * block_size
  BY <1>1, <1>3, BaseScale
<1>8. \A e \in 0 .. num_experts : due_before(e) \in Nat /\ due_before(e) = first_block(e) * block_size
  BY <1>4, <1>5, <1>7 DEF first_block
<1>9. /\ \A e \in Expert : due_before(e + 1) = due_before(e) + due(e)
      /\ \A d, e \in 0 .. num_experts : d <= e => due_before(d) <= due_before(e)
  BY <1>3, <1>4, <1>5
<1>10. QED
  BY <1>2, <1>6, <1>8, <1>9

\* The buffers are large enough.
LEMMA DueFits ==
    ASSUME AlignInput
    PROVE  /\ due_total \in Nat /\ due_total <= max_num_tokens_padded
           /\ due_total = first_block(num_experts) * block_size
           /\ first_block(num_experts) <= max_num_m_blocks
           /\ \A k \in Buffer : k \div block_size \in Block
<1>1. /\ num_experts \in Nat \ {0} /\ block_size \in Nat \ {0} /\ max_tokens_per_batch \in Nat \ {0}
      /\ n \in Nat /\ max_num_tokens_padded \in Nat /\ max_num_m_blocks \in Nat
  BY AlignSizes
<1>2. num_experts \in 0 .. num_experts
  BY <1>1
<1>3. due_total \in Nat /\ due_total = first_block(num_experts) * block_size /\ first_block(num_experts) \in Nat
  BY <1>2, Due DEF due_total
<1> DEFINE c == [x \in Expert |-> due(x)]
           g == [x \in Expert |-> Cardinality(Live(x))]
<1>4. /\ c \in [Expert -> Nat] /\ g \in [Expert -> Nat]
      /\ \A x \in Expert : c[x] = CEILDIV(g[x], block_size) * block_size /\ g[x] = Cardinality(Live(x))
  <2>1. \A x \in Expert : due(x) \in Nat /\ due(x) = parts[x] * block_size
    BY Due
  <2>2. \A x \in Expert : Cardinality(Live(x)) \in Nat
    BY AlignRouting
  <2>3. QED
    BY <2>1, <2>2 DEF parts
<1>5. due_total = Base(c, num_experts)
  BY DEF due_total, due_before, Base
<1> HIDE DEF c, g
<1>6. due_total <= max_num_tokens_padded
  <2>1. CASE path = "batched"
    <3> DEFINE m == round_up(max_tokens_per_batch, block_size)
    <3>1. m \in Nat
      BY <1>1, RoundUp DEF round_up
    <3>2. ASSUME NEW x \in Expert PROVE c[x] <= 0 * g[x] + m
      <4>1. g[x] <= max_tokens_per_batch
        <5> DEFINE first == x * max_tokens_per_batch
                   I == first .. first + max_tokens_per_batch - 1
        <5>1. x \in Nat /\ first \in Nat
          BY <1>1, AlignSizes
        <5>2. Live(x) \subseteq I
          <6> SUFFICES ASSUME NEW i \in Live(x) PROVE i \in I
            OBVIOUS
          <6>1. i \in Element /\ expert_id(i) = x /\ i \in Nat
            BY AlignRouting, AlignSizes DEF Live
          <6>2. expert_id(i) = i \div max_tokens_per_batch
            <7>1. topk_ids[i] \in {i \div max_tokens_per_batch, NoExpert}
              BY <2>1, <6>1 DEF AlignInput
            <7>2. kernel_map = NoMap => expert_id(i) = topk_ids[i] \/ expert_id(i) = NoExpert
              BY DEF expert_id
            <7>3. kernel_map = NoMap
              BY <2>1 DEF AlignInput, kernel_map
            <7>4. expert_id(i) # NoExpert
              BY <6>1, AlignSizes
            <7>5. QED
              BY <7>1, <7>2, <7>3, <7>4
          <6>3. PICK r \in 0 .. max_tokens_per_batch - 1 : i = max_tokens_per_batch * x + r
            <7>1. /\ i % max_tokens_per_batch \in 0 .. max_tokens_per_batch - 1
                  /\ i = max_tokens_per_batch * (i \div max_tokens_per_batch) + (i % max_tokens_per_batch)
              BY <1>1, <6>1, DivMod
            <7>2. i \div max_tokens_per_batch = x
              BY <6>1, <6>2
            <7>3. QED
              BY <7>1, <7>2
          <6>4. max_tokens_per_batch * x = first
            BY <1>1, <5>1
          <6> HIDE DEF first
          <6>5. QED
            BY <1>1, <5>1, <6>3, <6>4
        <5> HIDE DEF first
        <5>3. IsFiniteSet(I) /\ Cardinality(I) = max_tokens_per_batch
          <6>1. first \in Int /\ first + max_tokens_per_batch - 1 \in Int
                /\ ~ (first > first + max_tokens_per_batch - 1)
                /\ (first + max_tokens_per_batch - 1) - first + 1 = max_tokens_per_batch
            BY <1>1, <5>1
          <6>2. QED
            BY <6>1, FS_Interval
        <5>4. QED
          BY <1>4, <5>2, <5>3, FS_Subset
      <4>2. g[x] \in Nat /\ c[x] = CEILDIV(g[x], block_size) * block_size /\ c[x] \in Nat
        BY <1>4
      <4>3. c[x] <= m
        BY <1>1, <4>1, <4>2, RoundUpMonotone DEF round_up
      <4>4. QED
        BY <3>1, <4>2, <4>3
    <3>3. max_num_tokens_padded = num_experts * m
      BY <2>1 DEF max_num_tokens_padded
    <3> HIDE DEF m
    <3>4. Base(c, num_experts) <= 0 * Base(g, num_experts) + num_experts * m
      BY <1>4, <3>1, <3>2, BaseBound
    <3>5. Base(g, num_experts) \in Nat /\ num_experts * m \in Nat
      BY <1>1, <1>2, <1>4, <3>1, BaseFacts
    <3>6. QED
      BY <1>5, <3>3, <3>4, <3>5
  <2>2. CASE path # "batched"
    <3>1. path = "general" \/ path = "small"
      BY <2>2 DEF AlignInput
    <3>2. Base(g, num_experts) \in Nat /\ Base(g, num_experts) <= n
      <4>1. Base(g, num_experts) \in Nat
        BY <1>2, <1>4, BaseFacts
      <4> DEFINE f == [i \in Routed |-> expert_id(i)]
      <4>2. \A x \in Expert : g[x] = Cardinality({i \in Routed : f[i] = x})
        <5>1. \A x : Live(x) = {i \in Routed : f[i] = x}
          BY DEF Live
        <5>2. QED
          BY <1>4, <5>1
      <4> HIDE DEF f
      <4>3. Base(g, num_experts) <= Cardinality(Routed)
        BY <1>4, <4>2, AlignRouting, SlotsFit
      <4>4. Cardinality(Routed) <= n /\ Cardinality(Routed) \in Nat
        BY AlignRouting, FS_CardinalityType
      <4>5. QED
        BY <1>1, <4>1, <4>3, <4>4
    <3> DEFINE a == n * block_size
               d == n + num_experts * (block_size - 1)
    <3>3. due_total <= d /\ d \in Nat
      <4>1. block_size - 1 \in Nat /\ num_experts * (block_size - 1) \in Nat
        <5>1. block_size - 1 \in Nat
          BY <1>1
        <5>2. QED
          BY <1>1, <5>1
      <4>2. \A x \in Expert : c[x] <= 1 * g[x] + (block_size - 1)
        <5> SUFFICES ASSUME NEW x \in Expert PROVE c[x] <= 1 * g[x] + (block_size - 1)
          OBVIOUS
        <5>1. g[x] \in Nat /\ c[x] \in Nat /\ c[x] = CEILDIV(g[x], block_size) * block_size
          BY <1>4
        <5>2. c[x] <= g[x] + (block_size - 1)
          BY <1>1, <5>1, RoundUp
        <5>3. QED
          BY <1>1, <5>1, <5>2
      <4>3. Base(c, num_experts) <= 1 * Base(g, num_experts) + num_experts * (block_size - 1)
        BY <1>4, <4>1, <4>2, BaseBound
      <4> DEFINE w == num_experts * (block_size - 1)
      <4>4. w \in Nat /\ Base(c, num_experts) <= 1 * Base(g, num_experts) + w /\ d = n + w
        BY <4>1, <4>3
      <4> HIDE DEF w, d
      <4>5. QED
        BY <1>1, <1>3, <1>5, <3>2, <4>4
    <3>4. due_total <= a /\ a \in Nat
      <4>1. \A x \in Expert : c[x] <= block_size * g[x] + 0
        <5> SUFFICES ASSUME NEW x \in Expert PROVE c[x] <= block_size * g[x] + 0
          OBVIOUS
        <5>1. g[x] \in Nat /\ c[x] \in Nat /\ c[x] = CEILDIV(g[x], block_size) * block_size
          BY <1>4
        <5>2. CEILDIV(g[x], block_size) * block_size <= block_size * g[x]
          BY <1>1, <5>1, RoundUp
        <5>3. block_size * g[x] \in Nat
          BY <1>1, <5>1
        <5>4. QED
          BY <5>1, <5>2, <5>3
      <4>2. Base(c, num_experts) <= block_size * Base(g, num_experts) + num_experts * 0
        BY <1>1, <1>4, <4>1, BaseBound
      <4>3. Base(g, num_experts) * block_size <= n * block_size
        BY <1>1, <3>2, Scale
      <4>4. PICK z \in Nat : z = Base(g, num_experts)
        BY <3>2
      <4>5. block_size * z = z * block_size /\ z * block_size \in Nat /\ num_experts * 0 = 0
        BY <1>1
      <4>6. a \in Nat
        BY <1>1
      <4>7. due_total <= z * block_size /\ z * block_size <= a
        BY <1>5, <4>2, <4>3, <4>4, <4>5
      <4> HIDE DEF a
      <4>8. QED
        BY <1>3, <4>5, <4>6, <4>7
    <3>5. max_num_tokens_padded = IF n < num_experts THEN Min({a, d}) ELSE d
      BY <3>1 DEF max_num_tokens_padded
    <3> HIDE DEF a, d
    <3>6. Min({a, d}) = IF a <= d THEN a ELSE d
      BY <3>3, <3>4, SmallerOfTwo
    <3>7. QED
      BY <3>3, <3>4, <3>5, <3>6
  <2>3. QED
    BY <2>1, <2>2
<1>7. PICK p \in Nat, q \in Nat, m \in Nat :
          /\ p = max_num_tokens_padded /\ q = max_num_m_blocks /\ m = first_block(num_experts)
          /\ q * block_size \in Nat /\ p <= q * block_size /\ m * block_size <= p
  BY <1>1, <1>3, <1>6, RoundUp DEF max_num_m_blocks
<1>8. m <= q
  <2>1. m * block_size <= q * block_size
    BY <1>1, <1>3, <1>7
  <2>2. QED
    BY <1>1, <2>1, Scale
<1>9. \A k \in Buffer : k \div block_size \in Block
  <2> SUFFICES ASSUME NEW k \in Buffer PROVE k \div block_size \in Block
    OBVIOUS
  <2>1. k \in Nat /\ k < q * block_size
    BY <1>7 DEF Buffer
  <2>2. k \div block_size \in Nat /\ k \div block_size < q
    BY <1>1, <2>1, InBlock
  <2>3. QED
    BY <1>7, <2>2 DEF Block
<1>10. QED
  BY <1>3, <1>6, <1>7, <1>8, <1>9

\* The slots of an expert are in the buffer, and no other expert's.
LEMMA Regions ==
    ASSUME AlignInput, NEW e \in Expert, NEW k \in Region(e)
    PROVE  /\ k \in Nat /\ k \in Buffer
           /\ \A d \in Expert : k \in Region(d) => d = e
<1>1. num_experts \in Nat \ {0} /\ max_num_tokens_padded \in Nat /\ num_experts \in 0 .. num_experts
  BY AlignSizes
<1>2. ASSUME NEW d \in Expert
      PROVE  /\ d \in Nat /\ d \in 0 .. num_experts /\ d + 1 \in 0 .. num_experts
             /\ due_before(d) \in Nat /\ due(d) \in Nat /\ due_before(d + 1) = due_before(d) + due(d)
             /\ due_before(d + 1) \in Nat /\ due_before(d + 1) <= due_total
  <2>1. /\ d \in Nat /\ d \in 0 .. num_experts /\ d + 1 \in 0 .. num_experts
        /\ d + 1 <= num_experts
    BY <1>1 DEF Expert
  <2>2. /\ due_before(d) \in Nat /\ due(d) \in Nat /\ due_before(d + 1) = due_before(d) + due(d)
        /\ due_before(d + 1) \in Nat
    BY <2>1, Due
  <2>3. due_before(d + 1) <= due_total
    BY <1>1, <2>1, Due DEF due_total
  <2>4. QED
    BY <2>1, <2>2, <2>3
<1>3. k \in Nat /\ k < due_total
  <2>1. due_total \in Nat
    BY DueFits
  <2>2. QED
    BY <1>2, <2>1 DEF Region
<1>4. k \in Buffer
  <2>1. due_total \in Nat /\ due_total <= max_num_tokens_padded
    BY DueFits
  <2>2. QED
    BY <1>1, <1>3, <2>1 DEF Buffer
<1>5. ASSUME NEW d \in Expert, k \in Region(d), d # e PROVE FALSE
  <2>1. d + 1 <= e \/ e + 1 <= d
    <3>1. d \in Nat /\ e \in Nat
      BY <1>2
    <3>2. QED
      BY <1>5, <3>1
  <2>2. due_before(d + 1) <= due_before(e) \/ due_before(e + 1) <= due_before(d)
    BY <1>2, <2>1, Due
  <2>3. k < due_before(d + 1) /\ due_before(d) <= k /\ k < due_before(e + 1) /\ due_before(e) <= k
    BY <1>2, <1>3, <1>5 DEF Region
  <2>4. QED
    BY <1>2, <1>3, <2>2, <2>3
<1>6. QED
  BY <1>3, <1>4, <1>5

\* What depends on the launch alone.
LEMMA LaunchFrame ==
    ASSUME UNCHANGED inputVars
    PROVE  /\ path' = path /\ adapter' = adapter /\ topk_ids' = topk_ids
           /\ expert_map' = expert_map /\ ignore_invalid' = ignore_invalid /\ lora_tokens' = lora_tokens
           /\ n' = n /\ Element' = Element /\ stride' = stride /\ Thread' = Thread /\ Program' = Program
           /\ max_num_tokens_padded' = max_num_tokens_padded /\ max_num_m_blocks' = max_num_m_blocks
           /\ Buffer' = Buffer /\ Block' = Block
<1>1. /\ path' = path /\ adapter' = adapter /\ topk_ids' = topk_ids
      /\ expert_map' = expert_map /\ ignore_invalid' = ignore_invalid /\ lora_tokens' = lora_tokens
  BY DEF inputVars
<1>2. n' = n
  BY <1>1 DEF n
<1>3. Element' = Element /\ stride' = stride /\ Program' = Program
  BY <1>1, <1>2 DEF Element, stride, Program
<1>4. Thread' = Thread
  BY <1>3 DEF Thread
<1>5. max_num_tokens_padded' = max_num_tokens_padded
  BY <1>1, <1>2 DEF max_num_tokens_padded
<1>6. max_num_m_blocks' = max_num_m_blocks
  BY <1>5 DEF max_num_m_blocks
<1>7. Buffer' = Buffer /\ Block' = Block
  BY <1>5, <1>6 DEF Buffer, Block
<1>8. QED
  BY <1>1, <1>2, <1>3, <1>4, <1>5, <1>6, <1>7

\* The routing depends only on the inputs of the launch.
LEMMA RoutingFrame ==
    ASSUME UNCHANGED inputVars
    PROVE  /\ \A i : /\ expert_id(i)' = expert_id(i) /\ token_mask(i)' = token_mask(i)
                     /\ local_expert(i)' = local_expert(i)
           /\ Routed' = Routed /\ \A e : Live(e)' = Live(e)
           /\ parts' = parts /\ \A e : first_block(e)' = first_block(e)
<1>1. /\ adapter' = adapter /\ topk_ids' = topk_ids /\ Element' = Element
      /\ expert_map' = expert_map /\ ignore_invalid' = ignore_invalid /\ lora_tokens' = lora_tokens
  BY LaunchFrame
<1>2. kernel_map' = kernel_map
  BY <1>1 DEF kernel_map
<1>3. \A i : expert_id(i)' = expert_id(i)
  BY <1>1, <1>2 DEF expert_id
<1>4. \A i : token_mask(i)' = token_mask(i)
  BY <1>1 DEF token_mask
<1>5. Routed' = Routed
  BY <1>1, <1>3, <1>4 DEF Routed
<1>6. \A e : Live(e)' = Live(e)
  BY <1>3, <1>5 DEF Live
<1>7. parts' = parts
  BY <1>6 DEF parts
<1>8. \A e : first_block(e)' = first_block(e)
  BY <1>7 DEF first_block
<1>9. \A i : local_expert(i)' = local_expert(i)
  BY <1>1 DEF local_expert
<1>10. QED
  BY <1>3, <1>4, <1>5, <1>6, <1>7, <1>8, <1>9

\* So do the slots an expert must get.
LEMMA DueFrame ==
    ASSUME UNCHANGED inputVars
    PROVE  /\ \A e : due(e)' = due(e)
           /\ \A e : due_before(e)' = due_before(e)
           /\ due_total' = due_total
<1>1. path' = path /\ Routed' = Routed /\ \A i : expert_id(i)' = expert_id(i)
  BY LaunchFrame, RoutingFrame
<1>2. \A e : due(e)' = due(e)
  BY <1>1 DEF due
<1>3. \A e : due_before(e)' = due_before(e)
  BY <1>2 DEF due_before
<1>4. QED
  BY <1>2, <1>3 DEF due_total

\* The inputs stay what the wrapper passed.
LEMMA InputFrame ==
    ASSUME AlignInput, UNCHANGED inputVars
    PROVE  AlignInput'
  BY LaunchFrame DEF AlignInput

----------------------------------------------------------------------------
(* The threads of the three paths *)

\* A stage that runs without a barrier of its own shares the one before.
Gate(s) == CASE path = "small" /\ s \in {3, 7} -> s - 1
             [] path = "batched" /\ s \in {3, 4} -> 2
             [] OTHER -> s

\* Every thread has reached stage s, and so have the fill threads if they must.
Met(s) == (\A u \in Thread : stage[u] >= s) /\ FillMet(s)

\* Thread t has done something in stage s.
Begun(t, s) == \/ stage[t] > s
               \/ stage[t] = s /\ (next[t] # t \/ rank[t] # NoExpert)

\* The loop of stage s has gone over element i.
Handled(s, i) == \/ stage[i % stride] > s
                 \/ stage[i % stride] = s /\ i < next[i % stride]

Strides == \A t \in Thread : next[t] % stride = t

Barriers == \A t \in Thread : \A s \in 1 .. Len(Program) : Begun(t, s) => Met(Gate(s))

RanksHeld == \A t \in Thread : rank[t] # NoExpert =>
                path = "general" /\ stage[t] = 6 /\ next[t] \in Routed

AlignThreads ==
    /\ AlignInput /\ Strides /\ Barriers /\ RanksHeld
    /\ stage \in [Thread -> 1 .. Len(Program)]
    /\ next \in [Thread -> Nat] /\ rank \in [Thread -> Nat \cup {NoExpert}]
    /\ fill \in [Fill -> BOOLEAN] /\ fill_reset \in BOOLEAN
    /\ fill_reset => path = "general" /\ adapter = "enabled"

AlignMemory ==
    /\ counts \in [0 .. stride -> [Expert -> Nat]]
    /\ cumsum \in [0 .. num_experts -> Nat]
    /\ sorted_token_ids \in [Buffer -> Nat]
    /\ expert_ids \in [Block -> Expert \cup {NoExpert, Garbage}]
    /\ total_tokens_post_pad \in Nat
    /\ src_dst \in [Element -> Nat]

\* A remainder is below the divisor.
LEMMA Modulo ==
    ASSUME NEW a \in Nat, NEW b \in Nat, NEW d \in Nat \ {0}
    PROVE  /\ a % d \in 0 .. d - 1
           /\ (b + d) % d = b % d
           /\ a % d = b % d => (a < b + d <=> a < b \/ a = b)
           /\ a < d => a % d = a
           /\ a % d = b => b <= a
<1>1. \A x \in Nat : \E q \in Nat, r \in 0 .. d - 1 : q = x \div d /\ r = x % d /\ x = d * q + r
  BY Divide
<1>2. PICK x \in Nat : x = b + d
  OBVIOUS
<1>3. PICK p \in Nat, r \in 0 .. d - 1 : p = a \div d /\ r = a % d /\ a = d * p + r
  BY <1>1
<1>4. PICK q \in Nat, s \in 0 .. d - 1 : q = b \div d /\ s = b % d /\ b = d * q + s
  BY <1>1
<1>5. PICK m \in Nat, w \in 0 .. d - 1 : w = (b + d) % d /\ b + d = d * m + w
  <2>1. PICK m \in Nat, w \in 0 .. d - 1 : w = x % d /\ x = d * m + w
    BY <1>1
  <2>2. QED
    BY <1>2, <2>1
<1>6. d * p = p * d /\ d * q = q * d /\ d * m = m * d /\ p * d \in Nat /\ q * d \in Nat /\ m * d \in Nat
  OBVIOUS
<1>7. w = s
  <2>1. m < q + 1 => m * d + d <= (q + 1) * d
    BY Scale
  <2>2. q + 1 < m => (q + 1) * d + d <= m * d
    BY Scale
  <2>3. (q + 1) * d = q * d + d
    OBVIOUS
  <2>4. m = q + 1
    BY <1>4, <1>5, <1>6, <2>1, <2>2, <2>3
  <2>5. m * d = q * d + d
    BY <2>3, <2>4
  <2>6. QED
    BY <1>4, <1>5, <1>6, <2>5
<1>8. ASSUME r = s PROVE a < b + d <=> a < b \/ a = b
  <2>1. p < q => p * d + d <= q * d
    BY Scale
  <2>2. q < p => q * d + d <= p * d
    BY Scale
  <2>3. p = q => p * d = q * d
    OBVIOUS
  <2>4. p < q \/ p = q \/ q < p
    OBVIOUS
  <2>5. QED
    BY <1>3, <1>4, <1>6, <1>8, <2>1, <2>2, <2>3, <2>4
<1>9. ASSUME a < d PROVE r = a
  <2>1. 0 < p => 0 * d + d <= p * d
    BY Scale
  <2>2. p = 0 => p * d = 0
    OBVIOUS
  <2>3. QED
    BY <1>3, <1>6, <1>9, <2>1, <2>2
<1>10. r <= a
  BY <1>3, <1>6
<1>11. QED
  BY <1>3, <1>4, <1>5, <1>7, <1>8, <1>9, <1>10

\* The largest element of a set.
LEMMA MaximumIs ==
    ASSUME NEW S, S \subseteq Int, NEW m \in S, \A y \in S : y <= m
    PROVE  Max(S) = m
<1>1. \A x \in S : (\A y \in S : x >= y) => x = m
  OBVIOUS
<1>2. Max(S) \in S /\ \A y \in S : Max(S) >= y
  BY DEF Max
<1>3. QED
  BY <1>1, <1>2

\* The stages of each path, and where its barriers are.
LEMMA Programs ==
    ASSUME AlignInput
    PROVE  /\ path = "general" =>
                /\ Len(Program) = 8
                /\ \A s \in 1 .. 8 : Program[s][2]
                /\ Program[1][1] = "reset" /\ Program[2][1] = "zero" /\ Program[3][1] = "count"
                /\ Program[4][1] = "scan" /\ Program[5][1] = "ids" /\ Program[6][1] = "place"
                /\ Program[7][1] = "return" /\ Program[8][1] = "done"
           /\ path = "small" =>
                /\ Len(Program) = 9
                /\ \A s \in 1 .. 9 : Program[s][2] <=> s \notin {3, 7}
                /\ Program[1][1] = "reset" /\ Program[2][1] = "zero" /\ Program[3][1] = "count"
                /\ Program[4][1] = "prefix" /\ Program[5][1] = "scan" /\ Program[6][1] = "ids"
                /\ Program[7][1] = "place" /\ Program[8][1] = "return" /\ Program[9][1] = "done"
           /\ path = "batched" =>
                /\ Len(Program) = 6
                /\ \A s \in 1 .. 6 : Program[s][2] <=> s \notin {3, 4}
                /\ Program[1][1] = "clear" /\ Program[2][1] = "scan" /\ Program[3][1] = "place"
                /\ Program[4][1] = "ids" /\ Program[5][1] = "return" /\ Program[6][1] = "done"
<1>1. CASE path = "general"
  <2>1. Program = <<<<"reset", TRUE>>, <<"zero", TRUE>>, <<"count", TRUE>>, <<"scan", TRUE>>,
                    <<"ids", TRUE>>, <<"place", TRUE>>, <<"return", TRUE>>, <<"done", TRUE>>>>
    BY <1>1 DEF Program
  <2>2. \A s \in 1 .. 8 : s = 1 \/ s = 2 \/ s = 3 \/ s = 4 \/ s = 5 \/ s = 6 \/ s = 7 \/ s = 8
    OBVIOUS
  <2>3. /\ Program[1][2] /\ Program[2][2] /\ Program[3][2] /\ Program[4][2] /\ Program[5][2]
        /\ Program[6][2] /\ Program[7][2] /\ Program[8][2]
    BY <2>1
  <2>4. \A s \in 1 .. 8 : Program[s][2]
    BY <2>2, <2>3
  <2>5. QED
    BY <1>1, <2>1, <2>4
<1>2. CASE path = "small"
  <2>1. Program = <<<<"reset", TRUE>>, <<"zero", TRUE>>, <<"count", FALSE>>, <<"prefix", TRUE>>,
                    <<"scan", TRUE>>, <<"ids", TRUE>>, <<"place", FALSE>>, <<"return", TRUE>>,
                    <<"done", TRUE>>>>
    BY <1>2 DEF Program
  <2>2. \A s \in 1 .. 9 : s = 1 \/ s = 2 \/ s = 3 \/ s = 4 \/ s = 5 \/ s = 6 \/ s = 7 \/ s = 8 \/ s = 9
    OBVIOUS
  <2>3. /\ Program[1][2] /\ Program[2][2] /\ ~ Program[3][2] /\ Program[4][2] /\ Program[5][2]
        /\ Program[6][2] /\ ~ Program[7][2] /\ Program[8][2] /\ Program[9][2]
    BY <2>1
  <2>4. \A s \in 1 .. 9 : Program[s][2] <=> s \notin {3, 7}
    BY <2>2, <2>3
  <2>5. QED
    BY <1>2, <2>1, <2>4
<1>3. CASE path = "batched"
  <2>1. Program = <<<<"clear", TRUE>>, <<"scan", TRUE>>, <<"place", FALSE>>, <<"ids", FALSE>>,
                    <<"return", TRUE>>, <<"done", TRUE>>>>
    BY <1>3 DEF Program
  <2>2. \A s \in 1 .. 6 : s = 1 \/ s = 2 \/ s = 3 \/ s = 4 \/ s = 5 \/ s = 6
    OBVIOUS
  <2>3. /\ Program[1][2] /\ Program[2][2] /\ ~ Program[3][2] /\ ~ Program[4][2] /\ Program[5][2]
        /\ Program[6][2]
    BY <2>1
  <2>4. \A s \in 1 .. 6 : Program[s][2] <=> s \notin {3, 4}
    BY <2>2, <2>3
  <2>5. QED
    BY <1>3, <2>1, <2>4
<1>4. QED
  BY <1>1, <1>2, <1>3 DEF AlignInput

\* A thread runs its stage once the others have met at its gate.
LEMMA AtGate ==
    ASSUME AlignInput, NEW t \in Thread, stage[t] \in 1 .. Len(Program)
    PROVE  \A l : At(t, l) <=> label(t) = l /\ Met(Gate(stage[t]))
<1> DEFINE G == {s \in 1 .. stage[t] : Program[s][2]}
           m == Gate(stage[t])
<1>1. m \in G /\ \A y \in G : y <= m
  <2>1. CASE path = "general"
    <3>1. stage[t] \in 1 .. 8 /\ \A s \in 1 .. 8 : Program[s][2]
      BY <2>1, Programs
    <3>2. m = stage[t]
      BY <2>1 DEF Gate
    <3>3. \A s \in 1 .. stage[t] : s \in 1 .. 8
      BY <3>1
    <3>4. \A s \in 1 .. stage[t] : s \in G
      BY <3>1, <3>3
    <3>5. stage[t] \in 1 .. stage[t] /\ \A y \in 1 .. stage[t] : y <= stage[t]
      BY <3>1
    <3>6. m \in G
      BY <3>2, <3>4, <3>5
    <3>7. \A y \in G : y \in 1 .. stage[t]
      OBVIOUS
    <3>8. QED
      BY <3>2, <3>5, <3>6, <3>7
  <2>2. CASE path = "small"
    <3>1. stage[t] \in 1 .. 9 /\ \A s \in 1 .. 9 : Program[s][2] <=> s \notin {3, 7}
      BY <2>2, Programs
    <3>2. m = IF stage[t] \in {3, 7} THEN stage[t] - 1 ELSE stage[t]
      BY <2>2 DEF Gate
    <3>3. \A s \in 1 .. stage[t] : s \in 1 .. 9 /\ (s \in G <=> s \notin {3, 7})
      <4>1. PICK g \in 1 .. 9 : g = stage[t]
        BY <3>1
      <4>2. \A s \in 1 .. g : s \in 1 .. 9
        OBVIOUS
      <4>3. QED
        BY <3>1, <4>1, <4>2
    <3>4. m \in 1 .. stage[t] /\ m \notin {3, 7}
      BY <3>1, <3>2
    <3>5. m \in G
      BY <3>3, <3>4
    <3>6. ASSUME NEW y \in G PROVE y <= m
      <4>1. y \in 1 .. stage[t] /\ y \notin {3, 7}
        BY <3>3
      <4> HIDE DEF m, G
      <4>2. QED
        BY <3>1, <3>2, <4>1
    <3>7. QED
      BY <3>5, <3>6
  <2>3. CASE path = "batched"
    <3>1. stage[t] \in 1 .. 6 /\ \A s \in 1 .. 6 : Program[s][2] <=> s \notin {3, 4}
      BY <2>3, Programs
    <3>2. m = IF stage[t] \in {3, 4} THEN 2 ELSE stage[t]
      BY <2>3 DEF Gate
    <3>3. \A s \in 1 .. stage[t] : s \in 1 .. 6 /\ (s \in G <=> s \notin {3, 4})
      BY <3>1
    <3>4. m \in 1 .. stage[t] /\ m \notin {3, 4}
      BY <3>1, <3>2
    <3>5. m \in G
      BY <3>3, <3>4
    <3>6. ASSUME NEW y \in G PROVE y <= m
      <4>1. y \in 1 .. stage[t] /\ y \notin {3, 4}
        BY <3>3
      <4> HIDE DEF m, G
      <4>2. QED
        BY <3>1, <3>2, <4>1
    <3>7. QED
      BY <3>5, <3>6
  <2>4. QED
    BY <2>1, <2>2, <2>3 DEF AlignInput
<1>2. G \subseteq Int
  OBVIOUS
<1> HIDE DEF G
<1>3. Max(G) = m
  BY <1>1, <1>2, MaximumIs
<1>4. QED
  BY <1>3 DEF At, Met, G, m

\* What is known when thread t runs the stage of label l.
LEMMA RunsStage ==
    ASSUME AlignThreads, NEW t \in Thread, NEW l, At(t, l), l # "done"
    PROVE  /\ label(t) = l /\ Met(Gate(stage[t]))
           /\ stage[t] \in 1 .. Len(Program) /\ stage[t] < Len(Program)
<1>1. AlignInput /\ stage[t] \in 1 .. Len(Program)
  BY DEF AlignThreads
<1>2. label(t) = l /\ Met(Gate(stage[t]))
  BY <1>1, AtGate
<1>3. Len(Program) \in Nat /\ Program[Len(Program)][1] = "done"
  <2>1. path = "general" \/ path = "small" \/ path = "batched"
    BY <1>1 DEF AlignInput
  <2>2. CASE path = "general"
    <3>1. Len(Program) = 8 /\ Program[8][1] = "done"
      BY <1>1, <2>2, Programs
    <3>2. QED
      BY <3>1
  <2>3. CASE path = "small"
    <3>1. Len(Program) = 9 /\ Program[9][1] = "done"
      BY <1>1, <2>3, Programs
    <3>2. QED
      BY <3>1
  <2>4. CASE path = "batched"
    <3>1. Len(Program) = 6 /\ Program[6][1] = "done"
      BY <1>1, <2>4, Programs
    <3>2. QED
      BY <3>1
  <2>5. QED
    BY <2>1, <2>2, <2>3, <2>4
<1>4. stage[t] # Len(Program)
  BY <1>2, <1>3 DEF label
<1>5. QED
  BY <1>1, <1>2, <1>3, <1>4

\* The barriers hold whatever a thread does in a stage it may run.
LEMMA BarriersStep ==
    ASSUME AlignThreads, NEW t \in Thread, Met(Gate(stage[t])), UNCHANGED inputVars, fill' = fill,
           \A u \in Thread \ {t} : stage'[u] = stage[u] /\ next'[u] = next[u] /\ rank'[u] = rank[u],
           \/ stage'[t] = stage[t]
           \/ stage'[t] = stage[t] + 1 /\ next'[t] = t /\ rank'[t] = NoExpert
    PROVE  Barriers'
<1>1. path' = path /\ Thread' = Thread /\ Program' = Program
  BY LaunchFrame
<1>2. \A u \in Thread : stage[u] \in Nat
  BY DEF AlignThreads
<1>3. \A u \in Thread : stage'[u] \in Nat /\ stage[u] <= stage'[u]
  BY <1>2
<1>4. ASSUME NEW s \in Int, Met(s) PROVE Met(s)'
  <2>1. \A u \in Thread : stage'[u] >= s
    BY <1>2, <1>3, <1>4 DEF Met
  <2>2. FillMet(s)'
    BY <1>1, <1>4 DEF Met, FillMet
  <2>3. QED
    BY <1>1, <2>1, <2>2 DEF Met
<1>5. ASSUME NEW u \in Thread, NEW s \in 1 .. Len(Program), Begun(u, s)'
      PROVE  Met(Gate(s))
  <2>1. Begun(u, s) => Met(Gate(s))
    BY DEF AlignThreads, Barriers
  <2>2. CASE u # t
    BY <1>5, <2>1, <2>2 DEF Begun
  <2>3. CASE u = t
    <3>1. CASE stage[t] = s
      BY <3>1
    <3>2. CASE stage[t] > s
      BY <2>1, <2>3, <3>2 DEF Begun
    <3>3. CASE stage[t] < s
      <4>1. stage'[t] = s /\ (next'[t] # t \/ rank'[t] # NoExpert)
        BY <1>2, <1>3, <1>5, <2>3, <3>3 DEF Begun
      <4>2. QED
        BY <3>3, <4>1
    <3>4. QED
      BY <1>2, <3>1, <3>2, <3>3
  <2>4. QED
    BY <2>2, <2>3
<1>6. \A s \in 1 .. Len(Program) : Gate(s) \in Int /\ Gate(s)' = Gate(s)
  <2>1. Len(Program) \in Nat
    BY Programs DEF AlignThreads, AlignInput
  <2>2. \A s \in 1 .. Len(Program) : s \in Int /\ s - 1 \in Int
    BY <2>1
  <2>3. \A s \in 1 .. Len(Program) : Gate(s) \in {s - 1, 2, s}
    BY DEF Gate
  <2>4. \A s \in 1 .. Len(Program) : Gate(s)' = Gate(s)
    BY <1>1 DEF Gate
  <2>5. QED
    BY <2>2, <2>3, <2>4
<1>7. \A u \in Thread : \A s \in 1 .. Len(Program) : Begun(u, s)' => Met(Gate(s))'
  <2> SUFFICES ASSUME NEW u \in Thread, NEW s \in 1 .. Len(Program), Begun(u, s)'
               PROVE  Met(Gate(s))'
    OBVIOUS
  <2>1. PICK g \in Int : g = Gate(s) /\ Gate(s)' = g
    BY <1>6
  <2>2. Met(g)
    BY <1>5, <2>1
  <2>3. Met(g)'
    BY <1>4, <2>2
  <2>4. QED
    BY <2>1, <2>3 DEF Met, FillMet
<1>8. QED
  BY <1>1, <1>7 DEF Barriers

\* A thread that goes to its next stage has left nothing of its loop.
LEMMA AdvanceStep ==
    ASSUME AlignThreads, NEW t \in Thread, Met(Gate(stage[t])), stage[t] < Len(Program),
           rank[t] = NoExpert, Advance(t), UNCHANGED <<inputVars, fillVars>>
    PROVE  /\ AlignThreads'
           /\ stage'[t] = stage[t] + 1 /\ next'[t] = t /\ rank' = rank
           /\ \A u \in Thread \ {t} : stage'[u] = stage[u] /\ next'[u] = next[u]
           /\ \A s \in Nat : stage[t] # s \/ next[t] >= n =>
                 \A i \in Element : Handled(s, i)' <=> Handled(s, i)
<1>0. /\ stage \in [Thread -> 1 .. Len(Program)] /\ next \in [Thread -> Nat]
      /\ rank \in [Thread -> Nat \cup {NoExpert}] /\ AlignInput
  BY DEF AlignThreads
<1>1. /\ stage' = [stage EXCEPT ![t] = @ + 1] /\ next' = [next EXCEPT ![t] = t] /\ rank' = rank
      /\ UNCHANGED inputVars /\ fill' = fill /\ fill_reset' = fill_reset
  BY DEF Advance, fillVars
<1>2. /\ Thread' = Thread /\ Program' = Program /\ stride' = stride
      /\ path' = path /\ adapter' = adapter /\ Routed' = Routed
  BY <1>1, LaunchFrame, RoutingFrame
<1>3. /\ stage'[t] = stage[t] + 1 /\ next'[t] = t
      /\ \A u \in Thread \ {t} : stage'[u] = stage[u] /\ next'[u] = next[u]
  BY <1>0, <1>1
<1>4. /\ stride \in Nat \ {0} /\ n \in Nat /\ Element \subseteq Nat /\ Thread \subseteq Nat
      /\ Len(Program) \in Nat /\ \A i \in Element : i < n
  <2>1. Len(Program) \in Nat
    BY <1>0, Programs DEF AlignInput
  <2>2. n \in Nat
    BY <1>0, AlignSizes
  <2>3. \A i \in Element : i < n
    BY <2>2 DEF Element
  <2>4. QED
    BY <1>0, <2>1, <2>3, AlignSizes
<1>5. t \in Nat /\ t % stride = t
  <2>1. t \in Nat /\ t < stride
    BY <1>4 DEF Thread
  <2>2. QED
    BY <1>4, <2>1, Modulo
<1>6. \A i \in Element : i \in Nat /\ i % stride \in Thread /\ (i % stride = t => t <= i)
  BY <1>4, <1>5, Modulo DEF Thread
<1>7. ASSUME NEW s \in Nat, stage[t] # s \/ next[t] >= n, NEW i \in Element
      PROVE  Handled(s, i)' <=> Handled(s, i)
  <2>1. PICK u \in Thread : u = i % stride
    BY <1>6
  <2>2. i \in Nat /\ (u = t => t <= i) /\ i < n
    BY <1>4, <1>6, <2>1
  <2>3. Handled(s, i) <=> stage[u] > s \/ (stage[u] = s /\ i < next[u])
    BY <2>1 DEF Handled
  <2>4. Handled(s, i)' <=> stage'[u] > s \/ (stage'[u] = s /\ i < next'[u])
    BY <1>2, <2>1 DEF Handled
  <2>5. CASE u # t
    BY <1>3, <2>3, <2>4, <2>5
  <2>6. CASE u = t
    <3>1. stage[t] \in Nat /\ next[t] \in Nat
      BY <1>0
    <3>2. stage'[t] = stage[t] + 1 /\ next'[t] = t /\ t <= i /\ i < n
      BY <1>3, <2>2, <2>6
    <3>3. CASE stage[t] # s
      BY <1>5, <2>2, <2>3, <2>4, <2>6, <3>1, <3>2, <3>3
    <3>4. CASE stage[t] = s
      <4>1. i < next[t]
        BY <1>4, <1>7, <2>2, <3>1, <3>4
      <4>2. QED
        BY <1>5, <2>2, <2>3, <2>4, <2>6, <3>1, <3>2, <3>4, <4>1
    <3>5. QED
      BY <3>3, <3>4
  <2>7. QED
    BY <2>5, <2>6
<1>8. Strides'
  <2>1. \A u \in Thread : next'[u] % stride = u
    BY <1>3, <1>5 DEF AlignThreads, Strides
  <2>2. QED
    BY <1>2, <2>1 DEF Strides
<1>9. Barriers'
  BY <1>1, <1>3, BarriersStep
<1>10. RanksHeld'
  <2>1. \A u \in Thread : rank[u] # NoExpert => u # t /\ path = "general" /\ stage[u] = 6 /\ next[u] \in Routed
    BY DEF AlignThreads, RanksHeld
  <2>2. QED
    BY <1>1, <1>2, <1>3, <2>1 DEF RanksHeld
<1>11. stage' \in [Thread -> 1 .. Len(Program)] /\ next' \in [Thread -> Nat]
  <2>1. stage[t] + 1 \in 1 .. Len(Program)
    BY <1>0, <1>4
  <2>2. QED
    BY <1>0, <1>1, <1>5, <2>1
<1>12. AlignInput'
  BY <1>0, <1>1, InputFrame
<1>13. AlignThreads'
  BY <1>0, <1>1, <1>2, <1>8, <1>9, <1>10, <1>11, <1>12 DEF AlignThreads
<1>14. QED
  BY <1>1, <1>3, <1>7, <1>13

\* A thread that moves to the next element of its loop has handled this one.
LEMMA MoveStep ==
    ASSUME AlignThreads, NEW t \in Thread, Met(Gate(stage[t])),
           stage' = stage, next' = [next EXCEPT ![t] = @ + stride],
           (rank' = rank /\ rank[t] = NoExpert) \/ rank' = [rank EXCEPT ![t] = NoExpert],
           UNCHANGED <<inputVars, fillVars>>
    PROVE  /\ AlignThreads'
           /\ next'[t] = next[t] + stride
           /\ \A u \in Thread \ {t} : next'[u] = next[u] /\ rank'[u] = rank[u]
           /\ rank'[t] = NoExpert
           /\ \A s \in Nat : \A i \in Element :
                 /\ Handled(s, i)' <=> Handled(s, i) \/ (stage[t] = s /\ i = next[t])
                 /\ stage[t] = s /\ i = next[t] => ~ Handled(s, i) /\ i % stride = t
<1>0. /\ stage \in [Thread -> 1 .. Len(Program)] /\ next \in [Thread -> Nat]
      /\ rank \in [Thread -> Nat \cup {NoExpert}] /\ AlignInput
      /\ \A u \in Thread : next[u] % stride = u
  BY DEF AlignThreads, Strides
<1>1. UNCHANGED inputVars /\ fill' = fill /\ fill_reset' = fill_reset
  BY DEF fillVars
<1>2. /\ Thread' = Thread /\ Program' = Program /\ stride' = stride
      /\ path' = path /\ adapter' = adapter /\ Routed' = Routed
  BY <1>1, LaunchFrame, RoutingFrame
<1>3. /\ next'[t] = next[t] + stride /\ rank'[t] = NoExpert
      /\ \A u \in Thread \ {t} : next'[u] = next[u] /\ rank'[u] = rank[u]
  BY <1>0
<1>4. stride \in Nat \ {0} /\ Element \subseteq Nat /\ Thread \subseteq Nat
  BY <1>0, AlignSizes
<1>5. \A i \in Element : i \in Nat /\ i % stride \in Thread
  BY <1>4, Modulo DEF Thread
<1>6. ASSUME NEW s \in Nat, NEW i \in Element
      PROVE  /\ Handled(s, i)' <=> Handled(s, i) \/ (stage[t] = s /\ i = next[t])
             /\ stage[t] = s /\ i = next[t] => ~ Handled(s, i) /\ i % stride = t
  <2>1. PICK u \in Thread : u = i % stride
    BY <1>5
  <2>2. Handled(s, i) <=> stage[u] > s \/ (stage[u] = s /\ i < next[u])
    BY <2>1 DEF Handled
  <2>3. Handled(s, i)' <=> stage[u] > s \/ (stage[u] = s /\ i < next'[u])
    BY <1>2, <2>1 DEF Handled
  <2>4. i \in Nat /\ next[u] \in Nat /\ stage[u] \in Nat
    BY <1>0, <1>5
  <2>5. CASE u # t
    <3>1. i # next[t]
      BY <1>0, <2>1, <2>5
    <3>2. QED
      BY <1>3, <2>2, <2>3, <2>5, <3>1
  <2>6. CASE u = t
    <3>1. next[t] % stride = i % stride
      BY <1>0, <2>1, <2>6
    <3>2. i < next[t] + stride <=> i < next[t] \/ i = next[t]
      BY <1>4, <2>4, <2>6, <3>1, Modulo
    <3>3. i < next'[u] <=> i < next[u] \/ i = next[u]
      BY <1>3, <2>6, <3>2
    <3>4. QED
      BY <2>1, <2>2, <2>3, <2>4, <2>6, <3>3
  <2>7. QED
    BY <2>5, <2>6
<1>7. next[t] \in Nat /\ next[t] + stride \in Nat /\ (next[t] + stride) % stride = t
  <2>1. next[t] \in Nat
    BY <1>0
  <2>2. (next[t] + stride) % stride = next[t] % stride
    BY <1>4, <2>1, Modulo
  <2>3. next[t] % stride = t
    BY <1>0
  <2>4. next[t] + stride \in Nat
    BY <1>4, <2>1
  <2>5. QED
    BY <2>1, <2>2, <2>3, <2>4
<1>8. Strides'
  <2>1. \A u \in Thread : next'[u] % stride = u
    BY <1>0, <1>3, <1>7
  <2>2. QED
    BY <1>2, <2>1 DEF Strides
<1>9. Barriers'
  BY <1>1, <1>3, BarriersStep
<1>10. RanksHeld'
  <2>1. \A u \in Thread : rank[u] # NoExpert => path = "general" /\ stage[u] = 6 /\ next[u] \in Routed
    BY DEF AlignThreads, RanksHeld
  <2>2. QED
    BY <1>1, <1>2, <1>3, <2>1 DEF RanksHeld
<1>11. next' \in [Thread -> Nat] /\ rank' \in [Thread -> Nat \cup {NoExpert}]
  BY <1>0, <1>7
<1>12. AlignInput'
  BY <1>0, <1>1, InputFrame
<1>13. AlignThreads'
  BY <1>0, <1>1, <1>2, <1>8, <1>9, <1>10, <1>11, <1>12 DEF AlignThreads
<1>14. QED
  BY <1>3, <1>6, <1>13

\* A step of a fill thread keeps the threads in step.
LEMMA FillStep ==
    ASSUME AlignThreads, UNCHANGED <<inputVars, threadVars>>,
           fill' \in [Fill -> BOOLEAN], \A f \in Fill : fill[f] => fill'[f],
           fill_reset' = fill_reset \/ fill_reset' = FALSE
    PROVE  /\ AlignThreads'
           /\ \A s, i : Handled(s, i)' <=> Handled(s, i)
<1>0. AlignInput /\ UNCHANGED inputVars /\ stage' = stage /\ next' = next /\ rank' = rank
  BY DEF AlignThreads, threadVars
<1>1. /\ Thread' = Thread /\ Program' = Program /\ stride' = stride
      /\ path' = path /\ adapter' = adapter /\ Routed' = Routed
  BY <1>0, LaunchFrame, RoutingFrame
<1>2. \A s : Met(s) => Met(s)'
  BY <1>0, <1>1 DEF Met, FillMet
<1>3. Barriers'
  <2>1. ASSUME NEW t \in Thread, NEW s \in 1 .. Len(Program), Begun(t, s)'
        PROVE  Met(Gate(s))'
    <3>1. Begun(t, s)
      BY <1>0, <2>1 DEF Begun
    <3>2. Met(Gate(s))
      BY <3>1 DEF AlignThreads, Barriers
    <3>3. Gate(s)' = Gate(s)
      BY <1>1 DEF Gate
    <3>4. PICK g : g = Gate(s)
      OBVIOUS
    <3>5. Met(g)'
      BY <1>2, <3>2, <3>4
    <3>6. QED
      BY <3>3, <3>4, <3>5 DEF Met, FillMet
  <2>2. QED
    BY <1>1, <2>1 DEF Barriers
<1>4. Strides' /\ RanksHeld'
  BY <1>0, <1>1 DEF AlignThreads, Strides, RanksHeld
<1>5. AlignInput'
  BY <1>0, InputFrame
<1>6. \A s, i : Handled(s, i)' <=> Handled(s, i)
  BY <1>0, <1>1 DEF Handled
<1>7. AlignThreads'
  <2>1. /\ stage' \in [Thread -> 1 .. Len(Program)]
        /\ next' \in [Thread -> Nat] /\ rank' \in [Thread -> Nat \cup {NoExpert}]
    BY <1>0 DEF AlignThreads
  <2>2. fill_reset' \in BOOLEAN /\ (fill_reset' => fill_reset)
    <3>1. fill_reset \in BOOLEAN
      BY DEF AlignThreads
    <3>2. CASE fill_reset' = fill_reset
      BY <3>1, <3>2
    <3>3. CASE fill_reset' = FALSE
      BY <3>3
    <3>4. QED
      BY <3>2, <3>3
  <2>3. fill_reset' => path = "general" /\ adapter = "enabled"
    BY <2>2 DEF AlignThreads
  <2>4. QED
    BY <1>1, <1>3, <1>4, <1>5, <2>1, <2>2, <2>3 DEF AlignThreads
<1>8. QED
  BY <1>6, <1>7

\* All threads are at the last stage but one when the wrapper takes over.
LEMMA ReturnStep ==
    ASSUME AlignThreads, Return
    PROVE  /\ AlignThreads'
           /\ \A t \in Thread : stage[t] = Len(Program) - 1 /\ stage'[t] = Len(Program) /\ rank[t] = NoExpert
           /\ \A s \in 1 .. Len(Program) - 2 : \A i \in Element : Handled(s, i) /\ Handled(s, i)'
<1>0. /\ stage \in [Thread -> 1 .. Len(Program)] /\ AlignInput
      /\ \A t \in Thread : At(t, "return") /\ stage'[t] = stage[t] + 1
      /\ stage' = [t \in Thread |-> stage[t] + 1]
      /\ UNCHANGED <<inputVars, next, rank, fillVars>>
  BY DEF AlignThreads, Return
<1>1. /\ Thread' = Thread /\ Program' = Program /\ stride' = stride
      /\ path' = path /\ adapter' = adapter /\ Routed' = Routed /\ next' = next /\ rank' = rank
      /\ fill' = fill /\ fill_reset' = fill_reset
  BY <1>0, LaunchFrame, RoutingFrame DEF fillVars
<1>2. path = "general" \/ path = "small" \/ path = "batched"
  BY <1>0 DEF AlignInput
<1>3. /\ Len(Program) \in Nat /\ Len(Program) > 2 /\ (path = "general" => Len(Program) = 8)
      /\ \A s \in 1 .. Len(Program) : Program[s][1] = "return" => s = Len(Program) - 1
  <2>1. CASE path = "general"
    <3>1. /\ Len(Program) = 8
          /\ Program[1][1] = "reset" /\ Program[2][1] = "zero" /\ Program[3][1] = "count"
          /\ Program[4][1] = "scan" /\ Program[5][1] = "ids" /\ Program[6][1] = "place"
          /\ Program[8][1] = "done"
      BY <1>0, <2>1, Programs
    <3>2. \A s \in 1 .. 8 : s = 1 \/ s = 2 \/ s = 3 \/ s = 4 \/ s = 5 \/ s = 6 \/ s = 7 \/ s = 8
      OBVIOUS
    <3>3. \A s \in 1 .. 8 : Program[s][1] = "return" => s = 7
      BY <3>1, <3>2
    <3>4. QED
      BY <3>1, <3>3
  <2>2. CASE path = "small"
    <3>1. /\ Len(Program) = 9
          /\ Program[1][1] = "reset" /\ Program[2][1] = "zero" /\ Program[3][1] = "count"
          /\ Program[4][1] = "prefix" /\ Program[5][1] = "scan" /\ Program[6][1] = "ids"
          /\ Program[7][1] = "place" /\ Program[9][1] = "done"
      BY <1>0, <2>2, Programs
    <3>2. \A s \in 1 .. 9 : s = 1 \/ s = 2 \/ s = 3 \/ s = 4 \/ s = 5 \/ s = 6 \/ s = 7 \/ s = 8 \/ s = 9
      OBVIOUS
    <3>3. \A s \in 1 .. 9 : Program[s][1] = "return" => s = 8
      BY <3>1, <3>2
    <3>4. QED
      BY <2>2, <3>1, <3>3
  <2>3. CASE path = "batched"
    <3>1. /\ Len(Program) = 6
          /\ Program[1][1] = "clear" /\ Program[2][1] = "scan" /\ Program[3][1] = "place"
          /\ Program[4][1] = "ids" /\ Program[6][1] = "done"
      BY <1>0, <2>3, Programs
    <3>2. \A s \in 1 .. 6 : s = 1 \/ s = 2 \/ s = 3 \/ s = 4 \/ s = 5 \/ s = 6
      OBVIOUS
    <3>3. \A s \in 1 .. 6 : Program[s][1] = "return" => s = 5
      BY <3>1, <3>2
    <3>4. QED
      BY <2>3, <3>1, <3>3
  <2>4. QED
    BY <1>2, <2>1, <2>2, <2>3
<1>4. ASSUME NEW t \in Thread
      PROVE  /\ stage[t] = Len(Program) - 1 /\ stage'[t] = Len(Program) /\ rank[t] = NoExpert
             /\ Met(Gate(stage[t]))
  <2>1. At(t, "return") /\ stage[t] \in 1 .. Len(Program)
    BY <1>0
  <2>2. label(t) = "return" /\ Met(Gate(stage[t]))
    BY <2>1, RunsStage
  <2>3. stage[t] = Len(Program) - 1
    BY <1>3, <2>1, <2>2 DEF label
  <2>4. rank[t] # NoExpert => path = "general" /\ stage[t] = 6
    BY DEF AlignThreads, RanksHeld
  <2>5. rank[t] = NoExpert
    <3> SUFFICES ASSUME rank[t] # NoExpert PROVE FALSE
      OBVIOUS
    <3>1. path = "general" /\ stage[t] = 6
      BY <2>4
    <3>2. stage[t] = 7
      BY <1>3, <2>3, <3>1
    <3>3. QED
      BY <3>1, <3>2
  <2>6. QED
    BY <1>0, <1>3, <2>2, <2>3, <2>5
<1>5. \A s \in Int : s <= Len(Program) => Met(s)'
  <2>1. 0 \in Thread
    BY <1>0, AlignSizes DEF Thread
  <2>2. stage[0] = Len(Program) - 1 /\ Met(Gate(stage[0]))
    BY <1>4, <2>1
  <2>3. Met(Gate(Len(Program) - 1))
    BY <2>2
  <2>4. \A s : FillMet(s)
    <3>1. CASE path = "general"
      <4>1. Gate(Len(Program) - 1) = 7
        BY <1>3, <3>1 DEF Gate
      <4>2. \A f \in Fill : fill[f]
        BY <2>3, <3>1, <4>1 DEF Met, FillMet
      <4>3. QED
        BY <4>2 DEF FillMet
    <3>2. CASE path = "small"
      <4>1. Gate(Len(Program) - 1) = 8
        <5>1. Len(Program) = 9
          BY <1>0, <3>2, Programs
        <5>2. QED
          BY <3>2, <5>1 DEF Gate
      <4>2. \A f \in Fill : fill[f]
        BY <2>3, <3>2, <4>1 DEF Met, FillMet
      <4>3. QED
        BY <4>2 DEF FillMet
    <3>3. CASE path = "batched"
      BY <3>3 DEF FillMet
    <3>4. QED
      BY <1>2, <3>1, <3>2, <3>3
  <2>5. \A s : FillMet(s)'
    BY <1>1, <2>4 DEF FillMet
  <2>6. \A s \in Int : s <= Len(Program) => \A u \in Thread : stage'[u] >= s
    BY <1>3, <1>4
  <2>7. QED
    BY <1>1, <2>5, <2>6 DEF Met
<1>6. Barriers'
  <2>1. \A s \in 1 .. Len(Program) : Gate(s)' \in Int /\ Gate(s)' <= Len(Program)
    <3>1. \A s \in 1 .. Len(Program) : Gate(s)' = s - 1 \/ Gate(s)' = 2 \/ Gate(s)' = s
      BY DEF Gate
    <3>2. QED
      BY <1>3, <3>1
  <2>2. ASSUME NEW s \in 1 .. Len(Program) PROVE Met(Gate(s))'
    <3>1. PICK g \in Int : g = Gate(s)' /\ g <= Len(Program)
      BY <2>1
    <3>2. Met(g)'
      BY <1>5, <3>1
    <3>3. QED
      BY <3>1, <3>2 DEF Met, FillMet
  <2>3. QED
    BY <1>1, <2>2 DEF Barriers
<1>7. Strides' /\ RanksHeld'
  <2>1. Strides'
    BY <1>1 DEF AlignThreads, Strides
  <2>2. RanksHeld'
    BY <1>1, <1>4 DEF RanksHeld
  <2>3. QED
    BY <2>1, <2>2
<1>8. AlignThreads'
  <2>1. stage' \in [Thread -> 1 .. Len(Program)]
    BY <1>0, <1>3, <1>4
  <2>2. AlignInput'
    BY <1>0, InputFrame
  <2>3. QED
    BY <1>1, <1>6, <1>7, <2>1, <2>2 DEF AlignThreads
<1>9. \A s \in 1 .. Len(Program) - 2 : \A i \in Element : Handled(s, i) /\ Handled(s, i)'
  <2> SUFFICES ASSUME NEW s \in 1 .. Len(Program) - 2, NEW i \in Element
               PROVE  Handled(s, i) /\ Handled(s, i)'
    OBVIOUS
  <2>1. stride \in Nat \ {0} /\ i \in Nat
    BY <1>0, AlignSizes
  <2>2. i % stride \in Thread
    BY <2>1, Modulo DEF Thread
  <2>3. stage[i % stride] > s /\ stage'[i % stride] > s
    BY <1>3, <1>4, <2>2
  <2>4. QED
    BY <1>1, <2>3 DEF Handled
<1>10. QED
  BY <1>4, <1>8, <1>9

----------------------------------------------------------------------------
(* The ids of the blocks *)

IdStage == CASE path = "general" -> 5 [] path = "small" -> 6 [] path = "batched" -> 4

\* The id of a block of expert e: its local one, once the wrapper has mapped it.
mark(e) == IF stage[0] = Len(Program) /\ expert_map # NoMap /\ ~ ignore_invalid
           THEN expert_map[e] ELSE e

\* The blocks of an expert carry its id, the ones behind them are some expert's or none's.
Marks ==
    /\ \A e \in Expert : stage[e] > IdStage =>
          \A b \in first_block(e) .. first_block(e + 1) - 1 : expert_ids[b] = mark(e)
    /\ path # "batched" => \A t \in Thread : stage[t] > IdStage =>
          \A b \in Strided(first_block(num_experts) + t, stride, max_num_m_blocks) :
             expert_ids[b] \in Expert \cup {NoExpert}

\* The ids of the blocks stay right when no thread goes past the stage that writes them.
LEMMA MarksFrame ==
    ASSUME AlignInput, Marks, UNCHANGED inputVars, expert_ids' = expert_ids,
           \A u \in Thread : stage'[u] > IdStage => stage[u] > IdStage,
           stage'[0] = Len(Program) <=> stage[0] = Len(Program)
    PROVE  Marks'
<1>1. /\ path' = path /\ expert_map' = expert_map /\ ignore_invalid' = ignore_invalid
      /\ Program' = Program /\ Thread' = Thread /\ stride' = stride
      /\ max_num_m_blocks' = max_num_m_blocks /\ \A e : first_block(e)' = first_block(e)
  BY LaunchFrame, RoutingFrame
<1>2. \A e : mark(e)' = mark(e)
  BY <1>1 DEF mark
<1>3. IdStage' = IdStage
  BY <1>1 DEF IdStage
<1>4. Expert \subseteq Thread
  BY AlignSizes
<1>5. \A e \in Expert : stage'[e] > IdStage =>
         \A b \in first_block(e) .. first_block(e + 1) - 1 : expert_ids'[b] = mark(e)
  BY <1>4 DEF Marks
<1>6. path # "batched" => \A t \in Thread : stage'[t] > IdStage =>
          \A b \in Strided(first_block(num_experts) + t, stride, max_num_m_blocks) :
             expert_ids'[b] \in Expert \cup {NoExpert}
  BY DEF Marks
<1>7. QED
  BY <1>1, <1>2, <1>3, <1>5, <1>6 DEF Marks, Strided

\* The blocks a thread marks, from the slots at which they start.
LEMMA BlockStarts ==
    ASSUME NEW p \in Nat, NEW q \in Nat, NEW b \in Nat \ {0}
    PROVE  {k \div b : k \in Strided(p * b, b, q * b)} = p .. q - 1
<1>1. p * b \in Nat /\ q * b \in Nat
  OBVIOUS
<1>2. ASSUME NEW k \in Strided(p * b, b, q * b) PROVE k \div b \in p .. q - 1
  <2>1. k \in Nat /\ k < q * b /\ ~ (k < p * b)
    BY <1>1 DEF Strided
  <2>2. k \div b \in Nat /\ k \div b < q /\ ~ (k \div b < p)
    BY <2>1, InBlock
  <2>3. QED
    BY <2>2
<1>3. ASSUME NEW m \in p .. q - 1
      PROVE  \E k \in Strided(p * b, b, q * b) : m = k \div b
  <2>1. m \in Nat /\ m < q /\ m - p \in Nat
    OBVIOUS
  <2>2. m * b \in Nat /\ (m * b) \div b = m
    BY <2>1, InBlock
  <2>3. ~ (m * b < p * b) /\ m * b < q * b
    <3>1. p * b <= m * b
      BY <2>1, Scale
    <3>2. m * b + b <= q * b
      BY <2>1, Scale
    <3>3. QED
      BY <1>1, <2>2, <3>1, <3>2
  <2>4. (m * b - p * b) % b = 0
    <3>1. m * b - p * b = (m - p) * b
      BY <2>1
    <3>2. ((m - p) * b) % b = 0
      BY <2>1, InBlock
    <3>3. QED
      BY <3>1, <3>2
  <2>5. m * b \in Strided(p * b, b, q * b)
    <3>1. PICK x \in Nat, y \in Nat, z \in Nat : x = m * b /\ y = p * b /\ z = q * b
      BY <1>1, <2>2
    <3>2. x \in y .. z - 1
      BY <2>3, <3>1
    <3>3. QED
      BY <2>4, <3>1, <3>2 DEF Strided
  <2>6. QED
    BY <2>2, <2>5
<1>4. QED
  BY <1>2, <1>3

\* A thread marks the blocks of its expert and clears some behind all of them.
LEMMA MarksStep ==
    ASSUME AlignInput, AlignMemory, Marks, UNCHANGED inputVars, NEW t \in Thread, NEW mine, NEW rest,
           mine = IF t \in Expert THEN first_block(t) .. first_block(t + 1) - 1 ELSE {},
           rest = IF path = "batched" THEN {}
                  ELSE Strided(first_block(num_experts) + t, stride, max_num_m_blocks),
           expert_ids' = Overwrite(Overwrite(expert_ids, mine, t), rest, NoExpert),
           \A u \in Thread \ {t} : stage'[u] = stage[u],
           stage[0] # Len(Program), stage'[0] # Len(Program)
    PROVE  Marks' /\ expert_ids' \in [Block -> Expert \cup {NoExpert, Garbage}]
<1>1. /\ path' = path /\ Program' = Program /\ Thread' = Thread /\ stride' = stride
      /\ max_num_m_blocks' = max_num_m_blocks /\ \A e : first_block(e)' = first_block(e)
  BY LaunchFrame, RoutingFrame
<1>2. \A e : mark(e)' = e /\ mark(e) = e
  BY <1>1 DEF mark
<1>3. IdStage' = IdStage
  BY <1>1 DEF IdStage
<1>4. /\ num_experts \in Nat \ {0} /\ Expert \subseteq Thread /\ Thread \subseteq Nat /\ Expert \subseteq Nat
      /\ max_num_m_blocks \in Nat /\ stride \in Nat \ {0} /\ NoExpert \notin Expert
  BY AlignSizes
<1>5. /\ \A e \in 0 .. num_experts : first_block(e) \in Nat
      /\ \A d, e \in 0 .. num_experts : d <= e => first_block(d) <= first_block(e)
      /\ first_block(num_experts) <= max_num_m_blocks
  BY Due, DueFits
<1>6. \A e \in Expert : e \in 0 .. num_experts /\ e + 1 \in 0 .. num_experts
  BY <1>4 DEF Expert
<1>7. num_experts \in 0 .. num_experts
  BY <1>4
<1>8. \A e \in Expert : \A b \in first_block(e) .. first_block(e + 1) - 1 :
         b \in Nat /\ b < first_block(num_experts) /\ b \in Block
  <2> SUFFICES ASSUME NEW e \in Expert, NEW b \in first_block(e) .. first_block(e + 1) - 1
               PROVE  b \in Nat /\ b < first_block(num_experts) /\ b \in Block
    OBVIOUS
  <2>1. e \in 0 .. num_experts /\ e + 1 \in 0 .. num_experts /\ e + 1 <= num_experts
    BY <1>6
  <2>2. /\ first_block(e) \in Nat /\ first_block(e + 1) \in Nat /\ first_block(num_experts) \in Nat
        /\ first_block(e + 1) <= first_block(num_experts)
    BY <1>5, <1>7, <2>1
  <2>3. b \in Nat /\ b < first_block(num_experts)
    BY <2>2
  <2>4. QED
    BY <1>4, <1>5, <2>2, <2>3 DEF Block
<1>9. \A u \in Thread : \A b \in Strided(first_block(num_experts) + u, stride, max_num_m_blocks) :
         b \in Block /\ b \in Nat /\ ~ (b < first_block(num_experts))
  <2> SUFFICES ASSUME NEW u \in Thread,
                      NEW b \in Strided(first_block(num_experts) + u, stride, max_num_m_blocks)
               PROVE  b \in Block /\ b \in Nat /\ ~ (b < first_block(num_experts))
    OBVIOUS
  <2>1. u \in Nat /\ first_block(num_experts) \in Nat
    BY <1>4, <1>5, <1>7
  <2>2. b \in first_block(num_experts) + u .. max_num_m_blocks - 1
    BY DEF Strided
  <2>3. QED
    BY <1>4, <2>1, <2>2 DEF Block
<1>10. mine \subseteq Block /\ rest \subseteq Block
  BY <1>8, <1>9
<1>11. /\ expert_ids' \in [Block -> Expert \cup {NoExpert, Garbage}]
       /\ \A b \in Block : expert_ids'[b] = IF b \in rest THEN NoExpert ELSE IF b \in mine THEN t
                                            ELSE expert_ids[b]
  <2>1. DOMAIN expert_ids = Block /\ expert_ids \in [Block -> Expert \cup {NoExpert, Garbage}]
    BY DEF AlignMemory
  <2>2. Overwrite(expert_ids, mine, t) = [b \in Block |-> IF b \in mine THEN t ELSE expert_ids[b]]
    <3>1. DOMAIN expert_ids \cup mine = Block
      BY <1>10, <2>1
    <3>2. QED
      BY <3>1 DEF Overwrite
  <2>3. expert_ids' = [b \in Block |-> IF b \in rest THEN NoExpert ELSE IF b \in mine THEN t
                                       ELSE expert_ids[b]]
    <3> DEFINE f == [b \in Block |-> IF b \in mine THEN t ELSE expert_ids[b]]
    <3>1. DOMAIN f \cup rest = Block
      BY <1>10
    <3>2. expert_ids' = [j \in Block |-> IF j \in rest THEN NoExpert ELSE f[j]]
      BY <2>2, <3>1 DEF Overwrite
    <3>3. QED
      BY <3>2
  <2>4. \A b \in mine : t \in Expert
    OBVIOUS
  <2>5. QED
    BY <2>1, <2>3, <2>4
<1>12. ASSUME NEW e \in Expert, stage'[e] > IdStage, NEW b \in first_block(e) .. first_block(e + 1) - 1
       PROVE  expert_ids'[b] = e
  <2>1. b \in Block /\ b \in Nat /\ b < first_block(num_experts)
    BY <1>8
  <2>2. b \notin rest
    BY <1>9, <2>1
  <2>3. CASE e = t
    <3>1. b \in mine
      BY <2>3
    <3>2. QED
      BY <1>11, <2>1, <2>2, <2>3, <3>1
  <2>4. CASE e # t
    <3>1. b \notin mine
      <4> SUFFICES ASSUME t \in Expert, b \in first_block(t) .. first_block(t + 1) - 1 PROVE FALSE
        OBVIOUS
      <4>1. /\ e \in 0 .. num_experts /\ e + 1 \in 0 .. num_experts
            /\ t \in 0 .. num_experts /\ t + 1 \in 0 .. num_experts
            /\ e + 1 <= t \/ t + 1 <= e
        BY <1>4, <1>6, <2>4
      <4>2. /\ first_block(e) \in Nat /\ first_block(e + 1) \in Nat
            /\ first_block(t) \in Nat /\ first_block(t + 1) \in Nat
            /\ first_block(e + 1) <= first_block(t) \/ first_block(t + 1) <= first_block(e)
        BY <1>5, <4>1
      <4>3. QED
        BY <2>1, <4>2
    <3>2. expert_ids[b] = e
      <4>1. stage[e] > IdStage
        BY <1>4, <1>12, <2>4
      <4>2. QED
        BY <1>2, <4>1 DEF Marks
    <3>3. QED
      BY <1>11, <2>1, <2>2, <3>1, <3>2
  <2>5. QED
    BY <2>3, <2>4
<1>13. ASSUME path # "batched", NEW u \in Thread, stage'[u] > IdStage,
              NEW b \in Strided(first_block(num_experts) + u, stride, max_num_m_blocks)
       PROVE  expert_ids'[b] \in Expert \cup {NoExpert}
  <2>1. b \in Block /\ b \in Nat /\ ~ (b < first_block(num_experts))
    BY <1>9
  <2>2. CASE b \in rest
    BY <1>11, <2>1, <2>2
  <2>3. CASE b \notin rest
    <3>1. u # t
      BY <1>13, <2>3
    <3>2. expert_ids[b] \in Expert \cup {NoExpert}
      BY <1>13, <3>1 DEF Marks
    <3>3. b \notin mine
      BY <1>8, <2>1
    <3>4. QED
      BY <1>11, <2>1, <2>3, <3>2, <3>3
  <2>4. QED
    BY <2>2, <2>3
<1>14. Marks'
  <2>1. \A e \in Expert : stage'[e] > IdStage =>
           \A b \in first_block(e) .. first_block(e + 1) - 1 : expert_ids'[b] = mark(e)'
    BY <1>2, <1>12
  <2>2. path # "batched" => \A u \in Thread : stage'[u] > IdStage =>
           \A b \in Strided(first_block(num_experts) + u, stride, max_num_m_blocks) :
              expert_ids'[b] \in Expert \cup {NoExpert}
    BY <1>13
  <2>3. \A u : Strided(first_block(num_experts) + u, stride, max_num_m_blocks)'
                = Strided(first_block(num_experts) + u, stride, max_num_m_blocks)
    BY <1>1 DEF Strided
  <2>4. QED
    BY <1>1, <1>3, <2>1, <2>2, <2>3 DEF Marks
<1>15. QED
  BY <1>11, <1>14

\* When all threads have marked their blocks, no block is left.
LEMMA MarksCover ==
    ASSUME AlignInput, Marks, path # "batched", \A u \in Thread : stage[u] > IdStage,
           stage[0] # Len(Program)
    PROVE  \A b \in Block : expert_ids[b] \in Expert \cup {NoExpert}
<1> SUFFICES ASSUME NEW b \in Block PROVE expert_ids[b] \in Expert \cup {NoExpert}
  OBVIOUS
<1>1. /\ num_experts \in Nat \ {0} /\ Expert \subseteq Thread /\ max_num_m_blocks \in Nat
      /\ stride \in Nat \ {0} /\ parts \in [Expert -> Nat]
  BY AlignSizes, AlignRouting
<1>2. first_block(num_experts) \in Nat
  <2>1. num_experts \in 0 .. num_experts
    BY <1>1
  <2>2. QED
    BY <2>1, Due
<1>3. b \in Nat /\ b < max_num_m_blocks
  BY <1>1 DEF Block
<1>4. CASE b < first_block(num_experts)
  <2>1. b \in 0 .. Base(parts, num_experts) - 1
    BY <1>2, <1>3, <1>4 DEF first_block
  <2>2. PICK e \in Expert : b \in Base(parts, e) .. Base(parts, e + 1) - 1
    BY <1>1, <2>1, SlotHasExpert
  <2>3. expert_ids[b] = mark(e)
    BY <1>1, <2>2 DEF Marks, first_block
  <2>4. mark(e) = e
    BY DEF mark
  <2>5. QED
    BY <2>3, <2>4
<1>5. CASE ~ (b < first_block(num_experts))
  <2>1. PICK f \in Nat, d \in Nat : f = first_block(num_experts) /\ b = f + d
    <3>1. b - first_block(num_experts) \in Nat
          /\ b = first_block(num_experts) + (b - first_block(num_experts))
      BY <1>2, <1>3, <1>5
    <3>2. QED
      BY <1>2, <3>1
  <2>2. PICK q \in Nat, u \in 0 .. stride - 1 : u = d % stride /\ d = stride * q + u
    <3>1. d \div stride \in Nat /\ d % stride \in 0 .. stride - 1 /\ d = stride * (d \div stride) + (d % stride)
      BY <1>1, DivMod
    <3>2. QED
      BY <3>1
  <2>3. u \in Thread
    BY DEF Thread
  <2>4. (b - (f + u)) % stride = 0
    <3>1. b - (f + u) = q * stride
      <4>1. stride * q = q * stride /\ q * stride \in Nat
        BY <1>1
      <4>2. PICK z \in Nat : z = q * stride
        BY <4>1
      <4>3. b = f + d /\ d = z + u /\ u \in Nat
        BY <2>1, <2>2, <4>1, <4>2
      <4>4. b - (f + u) = z
        BY <4>3
      <4>5. QED
        BY <4>2, <4>4
    <3>2. (q * stride) % stride = 0
      BY <1>1, InBlock
    <3>3. QED
      BY <3>1, <3>2
  <2>5. b \in f + u .. max_num_m_blocks - 1
    <3>1. PICK z \in Nat : z = stride * q
      <4>1. stride * q \in Nat
        BY <1>1
      <4>2. QED
        BY <4>1
    <3>2. d = z + u /\ u \in Nat
      BY <1>1, <2>2, <3>1
    <3>3. b \in Nat /\ b < max_num_m_blocks /\ b = f + d
      BY <1>3, <2>1
    <3>4. max_num_m_blocks \in Int
      BY <1>1
    <3>5. f + u <= b
      BY <3>2, <3>3
    <3>6. QED
      BY <3>2, <3>3, <3>4, <3>5
  <2>6. b \in Strided(first_block(num_experts) + u, stride, max_num_m_blocks)
    BY <2>1, <2>4, <2>5 DEF Strided
  <2>7. QED
    BY <2>3, <2>6 DEF Marks
<1>6. QED
  BY <1>4, <1>5

\* The wrapper maps the ids of all blocks.
LEMMA MarksReturn ==
    ASSUME AlignThreads, AlignMemory, Marks, Return
    PROVE  Marks' /\ expert_ids' \in [Block -> Expert \cup {NoExpert, Garbage}]
<1>0. AlignInput /\ UNCHANGED inputVars
  BY DEF AlignThreads, Return
<1>1. /\ path' = path /\ expert_map' = expert_map /\ ignore_invalid' = ignore_invalid
      /\ Program' = Program /\ Thread' = Thread /\ stride' = stride
      /\ max_num_m_blocks' = max_num_m_blocks /\ \A e : first_block(e)' = first_block(e)
  BY <1>0, LaunchFrame, RoutingFrame
<1>2. \A t \in Thread : stage[t] = Len(Program) - 1 /\ stage'[t] = Len(Program)
  BY ReturnStep
<1>3. /\ Len(Program) \in Nat /\ IdStage \in Nat /\ IdStage < Len(Program) - 1 /\ IdStage' = IdStage
  <2>1. CASE path = "general"
    <3>1. Len(Program) = 8
      BY <1>0, <2>1, Programs
    <3>2. QED
      BY <1>1, <2>1, <3>1 DEF IdStage
  <2>2. CASE path = "small"
    <3>1. Len(Program) = 9
      BY <1>0, <2>2, Programs
    <3>2. QED
      BY <1>1, <2>2, <3>1 DEF IdStage
  <2>3. CASE path = "batched"
    <3>1. Len(Program) = 6
      BY <1>0, <2>3, Programs
    <3>2. QED
      BY <1>1, <2>3, <3>1 DEF IdStage
  <2>4. QED
    BY <1>0, <2>1, <2>2, <2>3 DEF AlignInput
<1>4. /\ 0 \in Thread /\ Expert \subseteq Thread /\ NoExpert \notin Expert /\ num_experts - 1 \in Expert
      /\ num_experts \in Nat \ {0}
  BY <1>0, AlignSizes DEF Thread, Expert
<1>5. /\ stage[0] # Len(Program) /\ stage'[0] = Len(Program)
      /\ \A u \in Thread : stage[u] > IdStage /\ stage'[u] > IdStage
  BY <1>2, <1>3, <1>4
<1>6. \A e : /\ mark(e) = e
             /\ mark(e)' = IF expert_map # NoMap /\ ~ ignore_invalid THEN expert_map[e] ELSE e
  BY <1>1, <1>5 DEF mark
<1>7. expert_ids \in [Block -> Expert \cup {NoExpert, Garbage}]
  BY DEF AlignMemory
<1>8. \A e \in Expert : \A b \in first_block(e) .. first_block(e + 1) - 1 : expert_ids[b] = e
  BY <1>4, <1>5, <1>6 DEF Marks
<1>9. CASE ~ (expert_map # NoMap /\ ~ ignore_invalid)
  <2>1. expert_ids' = expert_ids
    BY <1>9 DEF Return
  <2>2. \A e \in Expert : \A b \in first_block(e) .. first_block(e + 1) - 1 : expert_ids'[b] = mark(e)'
    BY <1>6, <1>8, <1>9, <2>1
  <2>3. path # "batched" => \A t \in Thread :
           \A b \in Strided(first_block(num_experts) + t, stride, max_num_m_blocks) :
              expert_ids'[b] \in Expert \cup {NoExpert}
    BY <1>5, <2>1 DEF Marks
  <2>4. Marks'
    BY <1>1, <2>2, <2>3 DEF Marks, Strided
  <2>5. QED
    BY <1>7, <2>1, <2>4
<1>10. CASE expert_map # NoMap /\ ~ ignore_invalid
  <2>1. path # "batched" /\ expert_map \in [Expert -> Expert \cup {NoExpert}]
    BY <1>0, <1>10 DEF AlignInput
  <2>2. \A b \in Block : expert_ids[b] \in Expert \cup {NoExpert}
    BY <1>0, <1>5, <2>1, MarksCover
  <2>3. expert_ids' = [b \in Block |->
                         expert_map[IF expert_ids[b] = NoExpert THEN num_experts - 1 ELSE expert_ids[b]]]
    <3>1. DOMAIN expert_ids = Block
      BY <1>7
    <3>2. QED
      BY <1>10, <3>1 DEF Return
  <2>4. \A b \in Block :
          /\ (IF expert_ids[b] = NoExpert THEN num_experts - 1 ELSE expert_ids[b]) \in Expert
          /\ expert_ids'[b] \in Expert \cup {NoExpert}
          /\ expert_ids[b] # NoExpert => expert_ids'[b] = expert_map[expert_ids[b]]
    BY <1>4, <2>1, <2>2, <2>3
  <2>5. expert_ids' \in [Block -> Expert \cup {NoExpert, Garbage}]
    BY <2>3, <2>4
  <2>6. ASSUME NEW e \in Expert, NEW b \in first_block(e) .. first_block(e + 1) - 1
        PROVE  b \in Block
    <3>1. /\ e \in 0 .. num_experts /\ e + 1 \in 0 .. num_experts /\ num_experts \in 0 .. num_experts
          /\ e + 1 <= num_experts
      BY <1>4 DEF Expert
    <3>2. /\ first_block(e) \in Nat /\ first_block(e + 1) \in Nat /\ first_block(num_experts) \in Nat
          /\ first_block(e + 1) <= first_block(num_experts)
      BY <1>0, <3>1, Due
    <3>3. first_block(num_experts) <= max_num_m_blocks /\ max_num_m_blocks \in Nat
      BY <1>0, DueFits, AlignSizes
    <3>4. QED
      BY <3>2, <3>3 DEF Block
  <2>7. \A e \in Expert : \A b \in first_block(e) .. first_block(e + 1) - 1 : expert_ids'[b] = mark(e)'
    <3> SUFFICES ASSUME NEW e \in Expert, NEW b \in first_block(e) .. first_block(e + 1) - 1
                 PROVE  expert_ids'[b] = mark(e)'
      OBVIOUS
    <3>1. b \in Block /\ expert_ids[b] = e /\ e # NoExpert
      BY <1>4, <1>8, <2>6
    <3>2. expert_ids'[b] = expert_map[e]
      BY <2>4, <3>1
    <3>3. QED
      BY <1>6, <1>10, <3>2
  <2>8. \A t \in Thread : \A b \in Strided(first_block(num_experts) + t, stride, max_num_m_blocks) :
              expert_ids'[b] \in Expert \cup {NoExpert}
    <3> SUFFICES ASSUME NEW t \in Thread,
                        NEW b \in Strided(first_block(num_experts) + t, stride, max_num_m_blocks)
                 PROVE  b \in Block
      BY <2>4
    <3>1. b \in first_block(num_experts) + t .. max_num_m_blocks - 1
      BY DEF Strided
    <3>2. first_block(num_experts) \in Nat /\ t \in Nat /\ max_num_m_blocks \in Nat
      <4>1. num_experts \in 0 .. num_experts
        BY <1>4
      <4>2. first_block(num_experts) \in Nat
        BY <1>0, <4>1, Due
      <4>3. t \in Nat /\ max_num_m_blocks \in Nat
        BY <1>0, AlignSizes
      <4>4. QED
        BY <4>2, <4>3
    <3>3. QED
      BY <3>1, <3>2 DEF Block
  <2>9. Marks'
    BY <1>1, <2>7, <2>8 DEF Marks, Strided
  <2>10. QED
    BY <2>5, <2>9
<1>11. QED
  BY <1>9, <1>10

----------------------------------------------------------------------------
(* The slots of the elements *)

\* The slot is filled with padding, which an element may replace.
Filled(k) == IF path = "batched" THEN stage[k % stride] > 1 ELSE fill[k % FillThreads]

\* The elements that have been stored.
Stored ==
    CASE path = "general" -> {i \in Routed : Handled(6, i)}
      [] path = "small"   -> {i \in Routed : Handled(7, i)}
      [] path = "batched" -> {i \in Routed : stage[i \div max_tokens_per_batch] > 3}

\* general: the elements of expert e that drew a slot, and these slots.
Drew(e) == {i \in Live(e) : \/ Handled(6, i)
                            \/ rank[i % stride] # NoExpert /\ next[i % stride] = i}
Drawn(e) == due_before(e) .. due_before(e) + Cardinality(Drew(e)) - 1

\* small and batched: the elements before i in the order of the slots, and the slot of i.
Before(i) == {j \in Live(expert_id(i)) : j % stride < i % stride \/ (j % stride = i % stride /\ j < i)}
home(i) == IF path = "small" THEN due_before(expert_id(i)) + Cardinality(Before(i))
           ELSE due_before(expert_id(i)) + (i % max_tokens_per_batch)

Slots(i) == IF path = "general" THEN Drawn(expert_id(i)) ELSE {home(i)}

\* A slot holds padding or an element it is a slot of; every stored element has one slot.
Layout ==
    /\ \A k \in Buffer : Filled(k) => sorted_token_ids[k] = n \/ sorted_token_ids[k] \in Stored
    /\ \A i \in Stored : /\ \E k \in Buffer : Filled(k) /\ sorted_token_ids[k] = i
                         /\ \A k \in Buffer : Filled(k) /\ sorted_token_ids[k] = i => k \in Slots(i)
    /\ \A j, k \in Buffer : Filled(j) /\ Filled(k) /\ sorted_token_ids[j] = sorted_token_ids[k] =>
          j = k \/ sorted_token_ids[k] = n

\* Only routed elements are stored, and the padding value is none of them.
LEMMA StoredRouted ==
    ASSUME AlignInput
    PROVE  Stored \subseteq Routed /\ Stored \subseteq Element /\ n \notin Stored
<1>1. Stored \subseteq Routed
  BY DEF Stored, AlignInput
<1>2. QED
  BY <1>1, AlignRouting, AlignSizes

\* A step that stores nothing keeps the layout.
LEMMA LayoutFrame ==
    ASSUME AlignInput, Layout, UNCHANGED inputVars, sorted_token_ids' = sorted_token_ids,
           \A k \in Buffer : Filled(k)' <=> Filled(k), Stored' = Stored,
           \A i \in Routed : Slots(i) \subseteq Slots(i)'
    PROVE  Layout'
<1>1. n' = n /\ Buffer' = Buffer
  BY LaunchFrame
<1>2. Stored \subseteq Routed
  BY StoredRouted
<1>3. \A k \in Buffer : Filled(k)' => sorted_token_ids[k] = n \/ sorted_token_ids[k] \in Stored
  BY DEF Layout
<1>4. \A i \in Stored : \E k \in Buffer : Filled(k)' /\ sorted_token_ids[k] = i
  BY DEF Layout
<1>5. \A i \in Stored : \A k \in Buffer : Filled(k)' /\ sorted_token_ids[k] = i => k \in Slots(i)'
  BY <1>2 DEF Layout
<1>6. \A j, k \in Buffer : Filled(j)' /\ Filled(k)' /\ sorted_token_ids[j] = sorted_token_ids[k] =>
          j = k \/ sorted_token_ids[k] = n
  BY DEF Layout
<1>7. QED
  BY <1>1, <1>3, <1>4, <1>5, <1>6 DEF Layout

\* Clearing slots that are not filled yet fills them.
LEMMA LayoutClear ==
    ASSUME AlignInput, AlignMemory, Layout, UNCHANGED inputVars, NEW C, C \subseteq Buffer,
           sorted_token_ids' = Overwrite(sorted_token_ids, C, n),
           \A k \in C : ~ Filled(k),
           \A k \in Buffer : Filled(k)' <=> Filled(k) \/ k \in C,
           Stored' = Stored, \A i \in Routed : Slots(i) \subseteq Slots(i)'
    PROVE  Layout' /\ sorted_token_ids' \in [Buffer -> Nat]
<1>1. n' = n /\ Buffer' = Buffer
  BY LaunchFrame
<1>2. Stored \subseteq Routed /\ n \in Nat
  BY StoredRouted, AlignSizes
<1>3. DOMAIN sorted_token_ids = Buffer /\ sorted_token_ids \in [Buffer -> Nat]
  BY DEF AlignMemory
<1>4. sorted_token_ids' = [k \in Buffer |-> IF k \in C THEN n ELSE sorted_token_ids[k]]
  <2>1. DOMAIN sorted_token_ids \cup C = Buffer
    BY <1>3
  <2>2. QED
    BY <2>1 DEF Overwrite
<1>5. sorted_token_ids' \in [Buffer -> Nat]
  BY <1>2, <1>3, <1>4
<1>6. \A k \in Buffer : sorted_token_ids'[k] = IF k \in C THEN n ELSE sorted_token_ids[k]
  BY <1>4
<1>7. ASSUME NEW k \in Buffer, Filled(k)', sorted_token_ids'[k] # n
      PROVE  Filled(k) /\ sorted_token_ids'[k] = sorted_token_ids[k]
  BY <1>6, <1>7
<1>8. ASSUME NEW k \in Buffer, Filled(k)', sorted_token_ids'[k] # n
      PROVE  /\ sorted_token_ids'[k] \in Stored
             /\ \A i \in Stored : sorted_token_ids'[k] = i => k \in Slots(i)'
  <2>1. sorted_token_ids[k] \in Stored
    BY <1>7, <1>8 DEF Layout
  <2>2. \A i \in Stored : sorted_token_ids[k] = i => k \in Slots(i)
    BY <1>7, <1>8 DEF Layout
  <2>3. QED
    BY <1>2, <1>7, <1>8, <2>1, <2>2
<1>9. ASSUME NEW i \in Stored PROVE \E k \in Buffer : Filled(k)' /\ sorted_token_ids'[k] = i
  <2>1. PICK k \in Buffer : Filled(k) /\ sorted_token_ids[k] = i
    BY DEF Layout
  <2>2. k \notin C
    BY <2>1
  <2>3. QED
    BY <1>6, <2>1, <2>2
<1>10. ASSUME NEW j \in Buffer, NEW k \in Buffer, Filled(j)', Filled(k)',
              sorted_token_ids'[j] = sorted_token_ids'[k], sorted_token_ids'[k] # n
       PROVE  j = k
  BY <1>7, <1>10 DEF Layout
<1>11. Layout'
  <2>1. \A k \in Buffer : Filled(k)' => sorted_token_ids'[k] = n \/ sorted_token_ids'[k] \in Stored
    BY <1>8
  <2>2. \A i \in Stored : \A k \in Buffer : Filled(k)' /\ sorted_token_ids'[k] = i => k \in Slots(i)'
    BY <1>8, StoredRouted
  <2>3. QED
    BY <1>1, <1>9, <1>10, <2>1, <2>2 DEF Layout
<1>12. QED
  BY <1>5, <1>11

\* Storing an element in a slot that holds padding.
LEMMA LayoutPut ==
    ASSUME AlignInput, AlignMemory, Layout, UNCHANGED inputVars, NEW q \in Buffer, NEW x \in Routed,
           sorted_token_ids' = Put(sorted_token_ids, q, x),
           \A k \in Buffer : Filled(k) /\ Filled(k)',
           x \notin Stored, sorted_token_ids[q] = n, Stored' = Stored \cup {x},
           \A i \in Routed : Slots(i) \subseteq Slots(i)', q \in Slots(x)'
    PROVE  Layout' /\ sorted_token_ids' \in [Buffer -> Nat]
<1>1. n' = n /\ Buffer' = Buffer
  BY LaunchFrame
<1>2. Stored \subseteq Routed /\ Routed \subseteq Nat /\ n \notin Routed
  BY StoredRouted, AlignRouting, AlignSizes
<1>3. DOMAIN sorted_token_ids = Buffer /\ sorted_token_ids \in [Buffer -> Nat]
  BY DEF AlignMemory
<1>4. sorted_token_ids' = [k \in Buffer |-> IF k = q THEN x ELSE sorted_token_ids[k]]
  <2>1. DOMAIN sorted_token_ids \cup {q} = Buffer
    BY <1>3
  <2>2. QED
    BY <2>1 DEF Put
<1>5. sorted_token_ids' \in [Buffer -> Nat]
  BY <1>2, <1>3, <1>4
<1>6. \A k \in Buffer : sorted_token_ids'[k] = IF k = q THEN x ELSE sorted_token_ids[k]
  BY <1>4
<1>7. ASSUME NEW k \in Buffer, sorted_token_ids'[k] # n
      PROVE  /\ sorted_token_ids'[k] \in Stored'
             /\ \A i \in Stored' : sorted_token_ids'[k] = i => k \in Slots(i)'
  <2>1. CASE k = q
    BY <1>6, <2>1
  <2>2. CASE k # q
    <3>1. sorted_token_ids'[k] = sorted_token_ids[k]
      BY <1>6, <2>2
    <3>2. sorted_token_ids[k] \in Stored
      BY <1>7, <3>1 DEF Layout
    <3>3. \A i \in Stored : sorted_token_ids[k] = i => k \in Slots(i)
      BY DEF Layout
    <3>4. QED
      BY <1>2, <3>1, <3>2, <3>3
  <2>3. QED
    BY <2>1, <2>2
<1>8. ASSUME NEW i \in Stored' PROVE \E k \in Buffer : Filled(k)' /\ sorted_token_ids'[k] = i
  <2>1. CASE i = x
    BY <1>6, <2>1
  <2>2. CASE i # x
    <3>1. i \in Stored /\ i # n
      BY <1>2, <2>2
    <3>2. PICK k \in Buffer : sorted_token_ids[k] = i
      BY <3>1 DEF Layout
    <3>3. k # q
      BY <3>1, <3>2
    <3>4. QED
      BY <1>6, <3>2, <3>3
  <2>3. QED
    BY <2>1, <2>2
<1>9. ASSUME NEW j \in Buffer, NEW k \in Buffer,
             sorted_token_ids'[j] = sorted_token_ids'[k], sorted_token_ids'[k] # n
      PROVE  j = k
  <2>1. \A m \in Buffer : m # q /\ sorted_token_ids[m] # n => sorted_token_ids[m] # x
    BY DEF Layout
  <2>2. CASE j = q \/ k = q
    BY <1>2, <1>6, <1>9, <2>1, <2>2
  <2>3. CASE j # q /\ k # q
    BY <1>6, <1>9, <2>3 DEF Layout
  <2>4. QED
    BY <2>2, <2>3
<1>10. Layout'
  <2>1. \A k \in Buffer : sorted_token_ids'[k] = n \/ sorted_token_ids'[k] \in Stored'
    BY <1>7
  <2>2. \A i \in Stored' : \A k \in Buffer : sorted_token_ids'[k] = i => k \in Slots(i)'
    BY <1>2, <1>7
  <2>3. QED
    BY <1>1, <1>8, <1>9, <2>1, <2>2 DEF Layout
<1>11. QED
  BY <1>5, <1>10

----------------------------------------------------------------------------
(* What is returned *)

\* A full layout of the routed elements, each among the slots of its expert,
\* with the ids of the blocks is what moe_align_block_size promises.
LEMMA AlignReturned ==
    ASSUME AlignInput, Layout, Marks, Returned, Stored = Routed,
           \A k \in Buffer : Filled(k),
           \A i \in Routed : Slots(i) \subseteq Region(expert_id(i)),
           stage \in [Thread -> 1 .. Len(Program)],
           sorted_token_ids \in [Buffer -> Nat],
           \/ total_tokens_post_pad = due_total
           \/ path = "general" /\ adapter = "enabled" /\ total_tokens_post_pad = 0
    PROVE  BlocksGroupByExpert
<1>1. DOMAIN sorted_token_ids = Buffer
  OBVIOUS
<1>2. ASSUME NEW i \in Routed
      PROVE  Cardinality({k \in Buffer : sorted_token_ids[k] = i}) = 1
  <2>1. PICK q \in Buffer : sorted_token_ids[q] = i
    BY DEF Layout
  <2>2. i # n
    BY AlignRouting, AlignSizes
  <2>3. \A k \in Buffer : sorted_token_ids[k] = i => k = q
    BY <2>1, <2>2 DEF Layout
  <2>4. {k \in Buffer : sorted_token_ids[k] = i} = {q}
    BY <2>1, <2>3
  <2>5. QED
    BY <2>4, FS_Singleton
<1>3. \A t \in Thread : stage[t] = Len(Program)
  <2> SUFFICES ASSUME NEW t \in Thread PROVE stage[t] = Len(Program)
    OBVIOUS
  <2>1. label(t) = "done" /\ stage[t] \in 1 .. Len(Program)
    BY DEF Returned
  <2>2. Program[stage[t]][1] = "done"
    BY <2>1 DEF label
  <2>3. CASE path = "general"
    <3>1. /\ Len(Program) = 8
          /\ Program[1][1] = "reset" /\ Program[2][1] = "zero" /\ Program[3][1] = "count"
          /\ Program[4][1] = "scan" /\ Program[5][1] = "ids" /\ Program[6][1] = "place"
          /\ Program[7][1] = "return"
      BY <2>3, Programs
    <3>2. stage[t] \in 1 .. 8
      BY <2>1, <3>1
    <3>3. \/ stage[t] = 1 \/ stage[t] = 2 \/ stage[t] = 3 \/ stage[t] = 4 \/ stage[t] = 5
          \/ stage[t] = 6 \/ stage[t] = 7 \/ stage[t] = 8
      BY <3>2
    <3>4. QED
      BY <2>2, <3>1, <3>3
  <2>4. CASE path = "small"
    <3>1. /\ Len(Program) = 9
          /\ Program[1][1] = "reset" /\ Program[2][1] = "zero" /\ Program[3][1] = "count"
          /\ Program[4][1] = "prefix" /\ Program[5][1] = "scan" /\ Program[6][1] = "ids"
          /\ Program[7][1] = "place" /\ Program[8][1] = "return"
      BY <2>4, Programs
    <3>2. stage[t] \in 1 .. 9
      BY <2>1, <3>1
    <3>3. \/ stage[t] = 1 \/ stage[t] = 2 \/ stage[t] = 3 \/ stage[t] = 4 \/ stage[t] = 5
          \/ stage[t] = 6 \/ stage[t] = 7 \/ stage[t] = 8 \/ stage[t] = 9
      BY <3>2
    <3>4. QED
      BY <2>2, <3>1, <3>3
  <2>5. CASE path = "batched"
    <3>1. /\ Len(Program) = 6
          /\ Program[1][1] = "clear" /\ Program[2][1] = "scan" /\ Program[3][1] = "place"
          /\ Program[4][1] = "ids" /\ Program[5][1] = "return"
      BY <2>5, Programs
    <3>2. stage[t] \in 1 .. 6
      BY <2>1, <3>1
    <3>3. \/ stage[t] = 1 \/ stage[t] = 2 \/ stage[t] = 3 \/ stage[t] = 4 \/ stage[t] = 5
          \/ stage[t] = 6
      BY <3>2
    <3>4. QED
      BY <2>2, <3>1, <3>3
  <2>6. QED
    BY <2>3, <2>4, <2>5 DEF AlignInput
<1>4. 0 \in Thread /\ Expert \subseteq Thread /\ block_size \in Nat \ {0} /\ num_experts \in Nat
  BY AlignSizes DEF Thread
<1>5. \A u \in Thread : stage[u] > IdStage
  <2>1. Len(Program) > IdStage
    <3>1. CASE path = "general"
      <4>1. Len(Program) = 8
        BY <3>1, Programs
      <4>2. QED
        BY <3>1, <4>1 DEF IdStage
    <3>2. CASE path = "small"
      <4>1. Len(Program) = 9
        BY <3>2, Programs
      <4>2. QED
        BY <3>2, <4>1 DEF IdStage
    <3>3. CASE path = "batched"
      <4>1. Len(Program) = 6
        BY <3>3, Programs
      <4>2. QED
        BY <3>3, <4>1 DEF IdStage
    <3>4. QED
      BY <3>1, <3>2, <3>3 DEF AlignInput
  <2>2. QED
    BY <1>3, <2>1
<1>6. ASSUME NEW k \in Buffer, sorted_token_ids[k] # n
      PROVE  /\ sorted_token_ids[k] \in Routed /\ k < due_total
             /\ expert_ids[k \div block_size] = local_expert(sorted_token_ids[k])
  <2>1. PICK i \in Routed : i = sorted_token_ids[k] /\ k \in Slots(i)
    BY <1>6 DEF Layout
  <2>2. PICK e \in Expert : e = expert_id(i)
    BY AlignRouting
  <2>3. k \in due_before(e) .. due_before(e) + due(e) - 1
    BY <2>1, <2>2 DEF Region
  <2>4. /\ e \in 0 .. num_experts /\ e + 1 \in 0 .. num_experts /\ num_experts \in 0 .. num_experts
        /\ e + 1 <= num_experts
    BY <1>4 DEF Expert
  <2>5. /\ due_before(e) \in Nat /\ due(e) \in Nat /\ due_before(e + 1) = due_before(e) + due(e)
        /\ due_before(num_experts) \in Nat
        /\ due_before(e + 1) <= due_before(num_experts)
        /\ due_before(e) = first_block(e) * block_size /\ first_block(e) \in Nat
        /\ due_before(e + 1) = first_block(e + 1) * block_size /\ first_block(e + 1) \in Nat
    BY <2>4, Due
  <2>6. k \in Nat /\ k < due_before(e + 1) /\ ~ (k < due_before(e)) /\ k < due_total
    BY <2>3, <2>5 DEF due_total
  <2>7. k \div block_size \in first_block(e) .. first_block(e + 1) - 1
    <3>1. /\ k \div block_size \in Nat /\ k \div block_size < first_block(e + 1)
          /\ ~ (k \div block_size < first_block(e))
      <4>1. PICK p \in Nat, m \in Nat : p = first_block(e) /\ m = first_block(e + 1)
        BY <2>5
      <4>2. k < m * block_size /\ ~ (k < p * block_size)
        BY <2>5, <2>6, <4>1
      <4>3. k \div block_size \in Nat /\ k \div block_size < m /\ ~ (k \div block_size < p)
        BY <1>4, <2>6, <4>2, InBlock
      <4>4. QED
        BY <4>1, <4>3
    <3>2. QED
      BY <2>5, <3>1
  <2>8. expert_ids[k \div block_size] = mark(e)
    BY <1>4, <1>5, <2>7 DEF Marks
  <2>9. mark(e) = IF expert_map # NoMap /\ ~ ignore_invalid THEN expert_map[e] ELSE e
    BY <1>3, <1>4 DEF mark
  <2>10. topk_ids[i] \in Expert /\ e = (IF kernel_map = NoMap THEN topk_ids[i] ELSE kernel_map[topk_ids[i]])
    <3>1. e # NoExpert
      BY AlignSizes
    <3>2. QED
      BY <2>2, <3>1 DEF expert_id
  <2>11. mark(e) = local_expert(i)
    <3>1. CASE ignore_invalid
      BY <2>9, <2>10, <3>1 DEF kernel_map, local_expert
    <3>2. CASE ~ ignore_invalid
      BY <2>9, <2>10, <3>2 DEF kernel_map, local_expert
    <3>3. QED
      BY <3>1, <3>2
  <2>12. QED
    BY <2>1, <2>6, <2>8, <2>11
<1>7. QED
  BY <1>1, <1>2, <1>6 DEF BlocksGroupByExpert

----------------------------------------------------------------------------
(* The initial states of the three paths *)

\* The launch: all threads are at their first stage, and nothing is in memory yet.
LEMMA AlignStart ==
    ASSUME Init, path # "index"
    PROVE  /\ AlignThreads /\ AlignMemory /\ Marks /\ Layout
           /\ \A t \in Thread : stage[t] = 1
<1>1. AlignInput
  <2>1. PICK m \in Modes : path = m[1] /\ adapter = m[2]
    BY DEF Init, Inputs
  <2>2. \/ m \in {"general", "small"} \X {"none", "enabled"}
        \/ m = <<"batched", "none">> \/ m = <<"index", "none">>
    BY MoeAssumption
  <2>3. m # <<"index", "none">>
    BY <2>1
  <2>4. /\ m = <<path, adapter>> /\ path \in {"general", "small", "batched"} /\ adapter \in {"none", "enabled"}
    BY <2>1, <2>2, <2>3
  <2>5. num_experts \in Nat \ {0} /\ Expert \subseteq Int /\ NoExpert \in Int /\ max_tokens_per_batch \in Nat \ {0}
    BY MoeAssumption DEF Expert, NoExpert
  <2>6. /\ topk_ids \in [Element -> Int]
        /\ path = "batched" =>
             \E size \in [Expert -> 0 .. max_tokens_per_batch] :
                topk_ids = [i \in Element |->
                              LET b == i \div max_tokens_per_batch
                              IN  IF i % max_tokens_per_batch < size[b] THEN b ELSE NoExpert]
    <3>1. CASE path = "batched"
      <4>1. PICK size \in [Expert -> 0 .. max_tokens_per_batch] :
               topk_ids = [i \in Element |->
                             LET b == i \div max_tokens_per_batch
                             IN  IF i % max_tokens_per_batch < size[b] THEN b ELSE NoExpert]
        BY <3>1 DEF Init, Inputs
      <4>2. \A i \in Element : i \in Int /\ i \div max_tokens_per_batch \in Int
        BY <2>5 DEF Element
      <4>3. topk_ids \in [Element -> Int]
        BY <2>5, <4>1, <4>2
      <4>4. QED
        BY <4>1, <4>3
    <3>2. CASE path = "general"
      <4>1. topk_ids \in [Element -> 0 .. num_experts]
        BY <3>2 DEF Init, Inputs
      <4>2. QED
        BY <2>5, <3>2, <4>1
    <3>3. CASE path = "small"
      <4>1. topk_ids \in [Element -> 0 .. num_experts]
        BY <3>3 DEF Init, Inputs
      <4>2. QED
        BY <2>5, <3>3, <4>1
    <3>4. QED
      BY <2>4, <3>1, <3>2, <3>3
  <2>7. expert_map = NoMap \/ expert_map \in [Expert -> Expert \cup {NoExpert}]
    <3>1. CASE expert_map = NoMap
      BY <3>1
    <3>2. CASE expert_map # NoMap
      <4>1. PICK S \in SUBSET Expert :
               expert_map = [e \in Expert |-> IF e \in S THEN Cardinality({x \in S : x < e}) ELSE NoExpert]
        BY <3>2 DEF Init, Inputs
      <4>2. ASSUME NEW e \in S PROVE Cardinality({x \in S : x < e}) \in Expert
        <5>1. e \in Nat /\ e < num_experts
          BY <2>5 DEF Expert
        <5>2. {x \in S : x < e} \in SUBSET (0 .. e - 1)
          <6> SUFFICES ASSUME NEW x \in S, x < e PROVE x \in 0 .. e - 1
            OBVIOUS
          <6>1. x \in Expert /\ Expert = 0 .. num_experts - 1
            BY DEF Expert
          <6>2. x \in Nat
            BY <2>5, <6>1
          <6>3. QED
            BY <5>1, <6>2
        <5>3. IsFiniteSet(0 .. e - 1) /\ Cardinality(0 .. e - 1) = e
          <6>1. 0 \in Int /\ e - 1 \in Int /\ (0 > e - 1 => e = 0) /\ (e - 1) - 0 + 1 = e
            BY <5>1
          <6>2. QED
            BY <6>1, FS_Interval
        <5>4. /\ IsFiniteSet({x \in S : x < e})
              /\ Cardinality({x \in S : x < e}) <= e
          BY <5>2, <5>3, FS_Subset
        <5>5. Cardinality({x \in S : x < e}) \in Nat
          BY <5>4, FS_CardinalityType
        <5>6. QED
          BY <2>5, <5>1, <5>4, <5>5 DEF Expert
      <4>3. QED
        BY <4>1, <4>2
    <3>3. QED
      BY <3>1, <3>2
  <2>8. ignore_invalid \in BOOLEAN /\ (path = "batched" => expert_map = NoMap)
    BY DEF Init, Inputs
  <2>9. QED
    BY <2>4, <2>6, <2>7, <2>8 DEF AlignInput
<1>2. /\ stage = [t \in Thread |-> 1] /\ next = [t \in Thread |-> t] /\ rank = [t \in Thread |-> NoExpert]
      /\ fill = [f \in Fill |-> FALSE]
  BY DEF Init
<1>3. \A t \in Thread : stage[t] = 1 /\ next[t] = t /\ rank[t] = NoExpert
  BY <1>2
<1>4. /\ Thread \subseteq Nat /\ stride \in Nat \ {0} /\ Garbage \in Nat /\ Expert \subseteq Thread
  BY <1>1, AlignSizes
<1>5. Len(Program) \in Nat /\ 1 \in 1 .. Len(Program)
  <2>1. path = "general" => Len(Program) = 8
    BY <1>1, Programs
  <2>2. path = "small" => Len(Program) = 9
    BY <1>1, Programs
  <2>3. path = "batched" => Len(Program) = 6
    BY <1>1, Programs
  <2>4. path = "general" \/ path = "small" \/ path = "batched"
    BY <1>1 DEF AlignInput
  <2>5. Len(Program) = 8 \/ Len(Program) = 9 \/ Len(Program) = 6
    BY <2>1, <2>2, <2>3, <2>4
  <2>6. QED
    BY <2>5
<1>6. AlignThreads
  <2>1. Strides
    <3>1. \A t \in Thread : t \in Nat /\ t < stride
      BY <1>4 DEF Thread
    <3>2. \A t \in Thread : t % stride = t
      BY <1>4, <3>1, Modulo
    <3>3. QED
      BY <1>3, <3>2 DEF Strides
  <2>2. Barriers
    <3>1. \A t \in Thread : \A s \in 1 .. Len(Program) : ~ Begun(t, s)
      BY <1>3, <1>5 DEF Begun
    <3>2. QED
      BY <3>1 DEF Barriers
  <2>3. RanksHeld
    BY <1>3 DEF RanksHeld
  <2>4. /\ stage \in [Thread -> 1 .. Len(Program)]
        /\ next \in [Thread -> Nat] /\ rank \in [Thread -> Nat \cup {NoExpert}]
        /\ fill \in [Fill -> BOOLEAN]
    BY <1>2, <1>4, <1>5
  <2>5. fill_reset \in BOOLEAN /\ (fill_reset => path = "general" /\ adapter = "enabled")
    BY DEF Init
  <2>6. QED
    BY <1>1, <2>1, <2>2, <2>3, <2>4, <2>5 DEF AlignThreads
<1>7. AlignMemory
  <2>1. /\ counts = [r \in 0 .. stride |-> [e \in Expert |-> Garbage]]
        /\ cumsum = [e \in 0 .. num_experts |-> Garbage]
        /\ sorted_token_ids = [k \in Buffer |-> Garbage]
        /\ expert_ids = [b \in Block |-> Garbage]
        /\ total_tokens_post_pad = Garbage
        /\ src_dst = [i \in Element |-> Garbage]
    BY DEF Init, Buffer, Block
  <2>2. QED
    BY <1>4, <2>1 DEF AlignMemory
<1>8. Marks
  <2>1. \A t \in Thread : ~ (stage[t] > IdStage)
    BY <1>1, <1>3 DEF IdStage, AlignInput
  <2>2. QED
    BY <1>4, <2>1 DEF Marks
<1>9. \A k \in Buffer : ~ Filled(k)
  <2> SUFFICES ASSUME NEW k \in Buffer PROVE ~ Filled(k)
    OBVIOUS
  <2>1. k \in Nat /\ FillThreads \in Nat \ {0}
    BY <1>1, AlignSizes DEF Buffer
  <2>2. k % stride \in Thread /\ k % FillThreads \in Fill
    BY <1>4, <2>1, Modulo DEF Thread, Fill
  <2>3. QED
    BY <1>2, <1>3, <2>2 DEF Filled
<1>10. Stored = {}
  <2>1. ASSUME NEW i \in Routed PROVE i % stride \in Thread /\ i \in Nat
    <3>1. i \in Nat
      BY <1>1, AlignRouting, AlignSizes
    <3>2. QED
      BY <1>4, <3>1, Modulo DEF Thread
  <2>2. \A i \in Routed : ~ Handled(6, i) /\ ~ Handled(7, i)
    BY <1>3, <2>1 DEF Handled
  <2>3. ASSUME path = "batched", NEW i \in Routed PROVE stage[i \div max_tokens_per_batch] = 1
    <3>1. PICK m \in Nat \ {0} : m = max_tokens_per_batch
      BY <1>1, AlignSizes
    <3>2. n = num_experts * m /\ num_experts \in Nat
      BY <1>1, <2>3, <3>1, AlignSizes DEF n
    <3>3. i \in Nat /\ i < num_experts * m
      BY <1>1, <2>1, <3>2, AlignRouting DEF Element
    <3>4. i \div m \in Nat /\ i \div m < num_experts
      BY <3>2, <3>3, InBlock
    <3>5. i \div m \in Expert
      BY <3>2, <3>4 DEF Expert
    <3>6. QED
      BY <1>3, <1>4, <3>1, <3>5
  <2>4. QED
    BY <1>1, <2>2, <2>3 DEF Stored, AlignInput
<1>11. Layout
  BY <1>9, <1>10 DEF Layout
<1>12. QED
  BY <1>3, <1>6, <1>7, <1>8, <1>11

----------------------------------------------------------------------------
(* The general path *)

\* The elements of expert e that were counted.
Tallied(e) == {i \in Live(e) : Handled(3, i)}

GeneralCounts == \A e \in Expert : stage[e] > 2 => counts[0][e] = Cardinality(Tallied(e))

GeneralOffsets ==
    \A e \in 0 .. num_experts : stage[e] > 4 => cumsum[e] = due_before(e) + Cardinality(Drew(e))

GeneralTotal ==
    stage[num_experts] > 4 =>
        total_tokens_post_pad = due_total \/ (adapter = "enabled" /\ total_tokens_post_pad = 0)

\* A drawn slot a thread still holds is one of its expert's, its own, and unused.
GeneralRanks ==
    \A t \in Thread : rank[t] # NoExpert =>
        /\ \A e \in Expert : next[t] \in Live(e) => rank[t] \in Drawn(e)
        /\ \A u \in Thread : rank[u] = rank[t] => u = t
        /\ \A k \in Buffer : Filled(k) /\ sorted_token_ids[k] # n => k # rank[t]

GeneralInv ==
    /\ AlignThreads /\ AlignMemory /\ Marks /\ Layout
    /\ GeneralCounts /\ GeneralOffsets /\ GeneralTotal /\ GeneralRanks

\* The loop of a stage handles nothing before its thread has begun it.
LEMMA HandledBegun ==
    ASSUME AlignThreads, NEW s \in Nat, NEW i \in Element, Handled(s, i)
    PROVE  i % stride \in Thread /\ Begun(i % stride, s)
<1>1. AlignInput /\ stage \in [Thread -> 1 .. Len(Program)]
  BY DEF AlignThreads
<1>2. stride \in Nat \ {0} /\ i \in Nat
  BY <1>1, AlignSizes
<1>3. i % stride \in Thread /\ i % stride <= i
  <2>1. i % stride \in Thread
    BY <1>2, Modulo DEF Thread
  <2>2. i % stride \in Nat
    BY <1>1, <2>1, AlignSizes
  <2>3. PICK r \in Nat : r = i % stride
    BY <2>2
  <2>4. r <= i
    BY <1>2, <2>3, Modulo
  <2>5. QED
    BY <2>1, <2>3, <2>4
<1>4. PICK u \in Thread : u = i % stride /\ u <= i /\ u \in Nat
  BY <1>1, <1>3, AlignSizes
<1>5. stage[u] > s \/ (stage[u] = s /\ i < next[u])
  BY <1>4 DEF Handled
<1>6. Begun(u, s)
  BY <1>2, <1>4, <1>5 DEF Begun
<1>7. QED
  BY <1>4, <1>6

\* What a general thread knows when it runs a stage.
LEMMA GeneralAt ==
    ASSUME AlignThreads, path = "general", NEW t \in Thread
    PROVE  /\ stage[t] \in 1 .. 8 /\ t \in Nat /\ t \in 0 .. num_experts
           /\ \A l : At(t, l) => label(t) = l /\ Met(stage[t])
           /\ label(t) = CASE stage[t] = 1 -> "reset" [] stage[t] = 2 -> "zero" [] stage[t] = 3 -> "count"
                           [] stage[t] = 4 -> "scan" [] stage[t] = 5 -> "ids" [] stage[t] = 6 -> "place"
                           [] stage[t] = 7 -> "return" [] stage[t] = 8 -> "done"
<1>1. AlignInput /\ stage[t] \in 1 .. Len(Program)
  BY DEF AlignThreads
<1>2. /\ Len(Program) = 8
      /\ Program[1][1] = "reset" /\ Program[2][1] = "zero" /\ Program[3][1] = "count"
      /\ Program[4][1] = "scan" /\ Program[5][1] = "ids" /\ Program[6][1] = "place"
      /\ Program[7][1] = "return" /\ Program[8][1] = "done"
  BY <1>1, Programs
<1>3. stage[t] \in 1 .. 8
  BY <1>1, <1>2
<1>4. \/ stage[t] = 1 \/ stage[t] = 2 \/ stage[t] = 3 \/ stage[t] = 4 \/ stage[t] = 5
      \/ stage[t] = 6 \/ stage[t] = 7 \/ stage[t] = 8
  BY <1>3
<1>5. label(t) = CASE stage[t] = 1 -> "reset" [] stage[t] = 2 -> "zero" [] stage[t] = 3 -> "count"
                   [] stage[t] = 4 -> "scan" [] stage[t] = 5 -> "ids" [] stage[t] = 6 -> "place"
                   [] stage[t] = 7 -> "return" [] stage[t] = 8 -> "done"
  BY <1>2, <1>4 DEF label
<1>6. Gate(stage[t]) = stage[t]
  BY DEF Gate
<1>7. \A l : At(t, l) => label(t) = l /\ Met(stage[t])
  BY <1>1, <1>6, AtGate
<1>8. t \in Nat /\ t \in 0 .. num_experts
  <2>1. stride = num_experts + 1 /\ num_experts \in Nat \ {0}
    BY <1>1, AlignSizes
  <2>2. QED
    BY <2>1 DEF Thread
<1>9. QED
  BY <1>3, <1>5, <1>7, <1>8

\* Before a thread has come to a stage, no other has begun it.
LEMMA GeneralNotYet ==
    ASSUME AlignThreads, path = "general", NEW t \in Thread, NEW s \in 1 .. 8, stage[t] < s
    PROVE  /\ \A u \in Thread : ~ Begun(u, s) /\ ~ (stage[u] > s)
           /\ \A i \in Element : ~ Handled(s, i)
<1>1. AlignInput /\ Len(Program) = 8
  <2>1. AlignInput
    BY DEF AlignThreads
  <2>2. QED
    BY <2>1, Programs
<1>2. ASSUME NEW u \in Thread, Begun(u, s) PROVE FALSE
  <2>1. Met(Gate(s)) /\ Gate(s) = s
    BY <1>1, <1>2 DEF AlignThreads, Barriers, Gate
  <2>2. stage[t] >= s
    BY <2>1 DEF Met
  <2>3. stage[t] \in 1 .. 8
    BY GeneralAt
  <2>4. QED
    BY <2>2, <2>3
<1>3. \A u \in Thread : ~ (stage[u] > s)
  BY <1>2 DEF Begun
<1>4. \A i \in Element : ~ Handled(s, i)
  BY <1>2, HandledBegun
<1>5. QED
  BY <1>2, <1>3, <1>4

\* general: the elements that drew a slot are some of those of the expert, and their slots are its own.
LEMMA GeneralSets ==
    ASSUME AlignInput, NEW e
    PROVE  /\ IsFiniteSet(Tallied(e)) /\ Cardinality(Tallied(e)) \in Nat
           /\ IsFiniteSet(Drew(e)) /\ Cardinality(Drew(e)) \in Nat
           /\ Cardinality(Drew(e)) <= Cardinality(Live(e))
           /\ e \in Expert => Drawn(e) \subseteq Region(e)
           /\ e \notin Expert => Drew(e) = {}
<1>1. Tallied(e) \in SUBSET Live(e) /\ Drew(e) \in SUBSET Live(e) /\ IsFiniteSet(Live(e))
  BY AlignRouting DEF Tallied, Drew
<1>2. /\ IsFiniteSet(Tallied(e)) /\ Cardinality(Tallied(e)) \in Nat
      /\ IsFiniteSet(Drew(e)) /\ Cardinality(Drew(e)) \in Nat
      /\ Cardinality(Drew(e)) <= Cardinality(Live(e))
  BY <1>1, FS_Subset, FS_CardinalityType
<1>3. ASSUME e \in Expert PROVE Drawn(e) \subseteq Region(e)
  <2>1. Cardinality(Live(e)) <= due(e) /\ due(e) \in Nat /\ Cardinality(Live(e)) \in Nat
    BY <1>3, Due, AlignRouting
  <2>2. due_before(e) \in Nat
    <3>1. e \in 0 .. num_experts
      BY <1>3, AlignSizes DEF Expert
    <3>2. QED
      BY <3>1, Due
  <2>3. QED
    BY <1>2, <2>1, <2>2 DEF Drawn, Region
<1>4. e \notin Expert => Drew(e) = {}
  BY AlignRouting DEF Drew, Live
<1>5. QED
  BY <1>2, <1>3, <1>4

\* Which sets a step leaves alone that places no routed element and draws no slot.
LEMMA GeneralSame ==
    ASSUME AlignInput, path = "general", UNCHANGED <<inputVars, fill>>,
           \A i \in Routed : Handled(6, i)' <=> Handled(6, i),
           \A t \in Thread : rank'[t] = rank[t] /\ (rank[t] # NoExpert => next'[t] = next[t])
    PROVE  /\ \A e : Drew(e)' = Drew(e) /\ Drawn(e)' = Drawn(e)
           /\ (\A i \in Routed : Handled(3, i)' <=> Handled(3, i)) => \A e : Tallied(e)' = Tallied(e)
           /\ Stored' = Stored /\ \A i : Slots(i)' = Slots(i)
           /\ \A k : Filled(k)' <=> Filled(k)
<1>0. UNCHANGED inputVars /\ fill' = fill
  OBVIOUS
<1>1. /\ path' = path /\ stride' = stride /\ Routed' = Routed /\ \A e : Live(e)' = Live(e)
      /\ \A i : expert_id(i)' = expert_id(i) /\ \A e : due_before(e)' = due_before(e)
  BY <1>0, LaunchFrame, RoutingFrame, DueFrame
<1>2. \A i \in Element : i % stride \in Thread
  <2>1. stride \in Nat \ {0} /\ Element \subseteq Nat
    BY AlignSizes
  <2>2. QED
    BY <2>1, Modulo DEF Thread
<1>3. \A e : Live(e) \subseteq Element /\ Live(e) \subseteq Routed
  BY AlignRouting
<1>4. (\A i \in Routed : Handled(3, i)' <=> Handled(3, i)) => \A e : Tallied(e)' = Tallied(e)
  BY <1>1, <1>3 DEF Tallied
<1>5. ASSUME NEW e PROVE Drew(e)' = Drew(e)
  <2>1. Drew(e)' = {i \in Live(e) : Handled(6, i)' \/ (rank'[i % stride] # NoExpert /\ next'[i % stride] = i)}
    BY <1>1 DEF Drew
  <2>2. \A i \in Live(e) : (rank'[i % stride] # NoExpert /\ next'[i % stride] = i)
                            <=> (rank[i % stride] # NoExpert /\ next[i % stride] = i)
    BY <1>2, <1>3
  <2>3. \A i \in Live(e) : Handled(6, i)' <=> Handled(6, i)
    BY <1>3
  <2>4. QED
    BY <2>1, <2>2, <2>3 DEF Drew
<1>6. \A e : Drawn(e)' = Drawn(e)
  BY <1>1, <1>5 DEF Drawn
<1>7. Stored' = Stored
  BY <1>1 DEF Stored
<1>8. \A i : Slots(i)' = Slots(i)
  BY <1>1, <1>6 DEF Slots
<1>9. \A k : Filled(k)' <=> Filled(k)
  BY <1>0, <1>1 DEF Filled
<1>10. QED
  BY <1>4, <1>5, <1>6, <1>7, <1>8, <1>9


\* What a step to the next stage keeps on the general path.
LEMMA GeneralAdvance ==
    ASSUME GeneralInv, path = "general", NEW t \in Thread, NEW l, At(t, l), l \notin {"return", "done"},
           l = "place" => rank[t] = NoExpert, l \in {"count", "place"} => next[t] >= n,
           Advance(t), UNCHANGED <<inputVars, fillVars>>, sorted_token_ids' = sorted_token_ids
    PROVE  /\ AlignThreads' /\ Layout' /\ GeneralRanks' /\ rank' = rank
           /\ stage'[t] = stage[t] + 1
           /\ \A u \in Thread : \A s \in Nat : s # stage[t] => (stage'[u] > s <=> stage[u] > s)
           /\ \A u \in Thread \ {t} : stage'[u] = stage[u]
           /\ \A e : Tallied(e)' = Tallied(e) /\ Drew(e)' = Drew(e)
           /\ stage[0] # 8 /\ stage'[0] # 8
           /\ l # "ids" /\ expert_ids' = expert_ids => Marks'
<1>0. AlignThreads /\ AlignInput /\ Layout /\ GeneralRanks /\ Marks /\ UNCHANGED inputVars
  BY DEF GeneralInv, AlignThreads
<1>1. stage[t] \in 1 .. 8 /\ label(t) = l /\ Met(stage[t])
  BY <1>0, GeneralAt
<1>2. /\ l = "place" <=> stage[t] = 6
      /\ l = "count" <=> stage[t] = 3
      /\ l = "ids" <=> stage[t] = 5
      /\ stage[t] < 7
  <2>1. label(t) = CASE stage[t] = 1 -> "reset" [] stage[t] = 2 -> "zero" [] stage[t] = 3 -> "count"
                     [] stage[t] = 4 -> "scan" [] stage[t] = 5 -> "ids" [] stage[t] = 6 -> "place"
                     [] stage[t] = 7 -> "return" [] stage[t] = 8 -> "done"
    BY <1>0, GeneralAt
  <2>2. \/ stage[t] = 1 \/ stage[t] = 2 \/ stage[t] = 3 \/ stage[t] = 4 \/ stage[t] = 5
        \/ stage[t] = 6 \/ stage[t] = 7 \/ stage[t] = 8
    BY <1>1
  <2>3. QED
    BY <1>1, <2>1, <2>2
<1>3. rank[t] = NoExpert
  BY <1>0, <1>2 DEF AlignThreads, RanksHeld
<1>4. Met(Gate(stage[t])) /\ stage[t] < Len(Program)
  <2>1. Gate(stage[t]) = stage[t]
    BY DEF Gate
  <2>2. Len(Program) = 8
    BY <1>0, Programs
  <2>3. QED
    BY <1>1, <1>2, <2>1, <2>2
<1>5. /\ AlignThreads'
      /\ stage'[t] = stage[t] + 1 /\ next'[t] = t /\ rank' = rank
      /\ \A u \in Thread \ {t} : stage'[u] = stage[u] /\ next'[u] = next[u]
      /\ \A s \in Nat : stage[t] # s \/ next[t] >= n =>
            \A i \in Element : Handled(s, i)' <=> Handled(s, i)
  BY <1>0, <1>3, <1>4, AdvanceStep
<1>6. \A i \in Element : (Handled(3, i)' <=> Handled(3, i)) /\ (Handled(6, i)' <=> Handled(6, i))
  <2>1. \A s \in {3, 6} : s \in Nat /\ (stage[t] # s \/ next[t] >= n)
    BY <1>2
  <2>2. \A i \in Element : \A s \in {3, 6} : Handled(s, i)' <=> Handled(s, i)
    BY <1>5, <2>1
  <2>3. QED
    BY <2>2
<1>7. /\ \A e : Tallied(e)' = Tallied(e) /\ Drew(e)' = Drew(e)
      /\ \A e : Drawn(e)' = Drawn(e)
      /\ Stored' = Stored /\ \A i : Slots(i)' = Slots(i)
      /\ \A k : Filled(k)' <=> Filled(k)
  <2>1. \A u \in Thread : rank'[u] = rank[u] /\ (rank[u] # NoExpert => next'[u] = next[u])
    BY <1>3, <1>5
  <2>2. UNCHANGED <<inputVars, fill>>
    BY DEF fillVars
  <2>3. \A i \in Routed : (Handled(3, i)' <=> Handled(3, i)) /\ (Handled(6, i)' <=> Handled(6, i))
    BY <1>0, <1>6, AlignRouting
  <2>4. QED
    BY <1>0, <2>1, <2>2, <2>3, GeneralSame
<1>8. Layout'
  BY <1>0, <1>7, LayoutFrame
<1>9. GeneralRanks'
  <2>1. n' = n /\ Thread' = Thread /\ Buffer' = Buffer /\ \A e : Live(e)' = Live(e)
    BY <1>0, LaunchFrame, RoutingFrame
  <2>2. \A u \in Thread : rank[u] # NoExpert => next'[u] = next[u]
    BY <1>3, <1>5
  <2>3. QED
    BY <1>0, <1>5, <1>7, <2>1, <2>2 DEF GeneralRanks
<1>10. \A u \in Thread : stage[u] \in Nat
  BY <1>0 DEF AlignThreads
<1>11. \A u \in Thread : \A s \in Nat : s # stage[t] => (stage'[u] > s <=> stage[u] > s)
  BY <1>5, <1>10
<1>12. 0 \in Thread /\ stage[0] # 8 /\ stage'[0] # 8
  <2>1. 0 \in Thread
    BY <1>0, AlignSizes DEF Thread
  <2>2. stage[0] # 8
    <3>1. 8 \in 1 .. 8 /\ stage[t] < 8
      BY <1>1, <1>2
    <3>2. ~ Begun(0, 8)
      <4>1. \A u \in Thread : ~ (stage[u] > 7)
        <5>1. 7 \in 1 .. 8
          OBVIOUS
        <5>2. QED
          BY <1>0, <1>2, <5>1, GeneralNotYet
      <4>2. QED
        BY <1>10, <2>1, <4>1 DEF Begun
    <3>3. ~ (stage[0] > 7)
      <4>1. 7 \in 1 .. 8
        OBVIOUS
      <4>2. QED
        BY <1>0, <1>2, <2>1, <4>1, GeneralNotYet
    <3>4. QED
      BY <3>3
  <2>3. stage'[0] # 8
    <3>1. CASE t = 0
      <4>1. stage'[0] = stage[t] + 1 /\ stage[t] \in Nat /\ stage[t] < 7
        BY <1>2, <1>5, <1>10, <3>1
      <4>2. QED
        BY <4>1
    <3>2. CASE t # 0
      BY <1>5, <2>1, <2>2, <3>2
    <3>3. QED
      BY <3>1, <3>2
  <2>4. QED
    BY <2>1, <2>2, <2>3
<1>13. ASSUME l # "ids", expert_ids' = expert_ids PROVE Marks'
  <2>1. IdStage = 5 /\ Len(Program) = 8 /\ stage[t] # 5
    BY <1>0, <1>2, <1>13, Programs DEF IdStage
  <2>2. \A u \in Thread : stage'[u] > IdStage => stage[u] > IdStage
    BY <1>11, <2>1
  <2>3. stage'[0] = Len(Program) <=> stage[0] = Len(Program)
    BY <1>12, <2>1
  <2>4. QED
    BY <1>0, <1>13, <2>2, <2>3, MarksFrame
<1>14. QED
  BY <1>5, <1>7, <1>8, <1>9, <1>11, <1>12, <1>13

\* Buffers keep their sizes.
LEMMA MemoryFrame ==
    ASSUME AlignInput, AlignMemory, UNCHANGED inputVars,
           counts' \in [0 .. stride -> [Expert -> Nat]], cumsum' \in [0 .. num_experts -> Nat],
           sorted_token_ids' \in [Buffer -> Nat],
           expert_ids' \in [Block -> Expert \cup {NoExpert, Garbage}],
           total_tokens_post_pad' \in Nat, src_dst' = src_dst
    PROVE  AlignMemory'
<1>1. Buffer' = Buffer /\ Block' = Block /\ Element' = Element /\ stride' = stride
  BY LaunchFrame
<1>2. QED
  BY <1>1 DEF AlignMemory

\* general: the LoRA kernel resets the total.
LEMMA GeneralReset ==
    ASSUME GeneralInv, path = "general", NEW t \in Thread, Reset(t)
    PROVE  GeneralInv'
<1>0. /\ AlignThreads /\ AlignInput /\ AlignMemory /\ GeneralCounts /\ GeneralOffsets
      /\ At(t, "reset") /\ Advance(t) /\ UNCHANGED <<inputVars, fillVars>> /\ UNCHANGED inputVars
      /\ counts' = counts /\ cumsum' = cumsum /\ sorted_token_ids' = sorted_token_ids
      /\ expert_ids' = expert_ids /\ src_dst' = src_dst
      /\ total_tokens_post_pad' = IF t = 0 /\ adapter = "enabled" THEN 0 ELSE total_tokens_post_pad
  BY DEF GeneralInv, AlignThreads, Reset
<1>1. /\ AlignThreads' /\ Layout' /\ GeneralRanks' /\ Marks'
      /\ \A u \in Thread : \A s \in Nat : s # stage[t] => (stage'[u] > s <=> stage[u] > s)
      /\ \A e : Tallied(e)' = Tallied(e) /\ Drew(e)' = Drew(e)
  BY <1>0, GeneralAdvance
<1>2. stage[t] = 1
  BY <1>0, GeneralAt
<1>3. Expert \subseteq Thread /\ \A e : due_before(e)' = due_before(e)
  BY <1>0, AlignSizes, DueFrame
<1>4. 0 .. num_experts \subseteq Thread /\ num_experts \in Thread
  <2>1. stride = num_experts + 1 /\ num_experts \in Nat \ {0}
    BY <1>0, AlignSizes
  <2>2. QED
    BY <2>1 DEF Thread
<1>5. \A u \in Thread : ~ (stage[u] > 4)
  <2>1. 4 \in 1 .. 8 /\ stage[t] < 4
    BY <1>2
  <2>2. QED
    BY <1>0, <2>1, GeneralNotYet
<1>6. GeneralCounts'
  BY <1>0, <1>1, <1>2, <1>3 DEF GeneralCounts
<1>7. GeneralOffsets' /\ GeneralTotal'
  <2>1. \A u \in Thread : ~ (stage'[u] > 4)
    BY <1>1, <1>2, <1>5
  <2>2. QED
    BY <1>4, <2>1 DEF GeneralOffsets, GeneralTotal
<1>8. AlignMemory'
  <2>1. total_tokens_post_pad' \in Nat
    BY <1>0 DEF AlignMemory
  <2>2. QED
    BY <1>0, <2>1, MemoryFrame DEF AlignMemory
<1>9. QED
  BY <1>1, <1>6, <1>7, <1>8 DEF GeneralInv

\* general: a warp zeroes the counts of its experts before any thread counts.
LEMMA GeneralZero ==
    ASSUME GeneralInv, path = "general", NEW t \in Thread, Zero(t)
    PROVE  GeneralInv'
<1>0. /\ AlignThreads /\ AlignInput /\ AlignMemory /\ GeneralCounts /\ GeneralOffsets
      /\ At(t, "zero") /\ Advance(t) /\ UNCHANGED <<inputVars, fillVars>> /\ UNCHANGED inputVars
      /\ cumsum' = cumsum /\ sorted_token_ids' = sorted_token_ids
      /\ expert_ids' = expert_ids /\ src_dst' = src_dst
      /\ total_tokens_post_pad' = total_tokens_post_pad
      /\ counts' = [counts EXCEPT ![0] = [e \in Expert |-> IF e \div WARP_SIZE = t \div WARP_SIZE
                                                            THEN 0 ELSE @[e]]]
  BY DEF GeneralInv, AlignThreads, Zero, outputVars
<1>1. /\ AlignThreads' /\ Layout' /\ GeneralRanks' /\ Marks'
      /\ \A u \in Thread : \A s \in Nat : s # stage[t] => (stage'[u] > s <=> stage[u] > s)
      /\ \A u \in Thread \ {t} : stage'[u] = stage[u]
      /\ \A e : Tallied(e)' = Tallied(e) /\ Drew(e)' = Drew(e)
  BY <1>0, GeneralAdvance
<1>2. stage[t] = 2
  BY <1>0, GeneralAt
<1>3. Expert \subseteq Thread
  BY <1>0, AlignSizes
<1>4. 0 .. num_experts \subseteq Thread /\ num_experts \in Thread
  <2>1. stride = num_experts + 1 /\ num_experts \in Nat \ {0}
    BY <1>0, AlignSizes
  <2>2. QED
    BY <2>1 DEF Thread
<1>5. \A u \in Thread : ~ (stage[u] > 4)
  <2>1. 4 \in 1 .. 8 /\ stage[t] < 4
    BY <1>2
  <2>2. QED
    BY <1>0, <2>1, GeneralNotYet
<1>6. counts \in [0 .. stride -> [Expert -> Nat]] /\ 0 \in 0 .. stride
  <2>1. stride \in Nat
    BY <1>0, AlignSizes
  <2>2. QED
    BY <1>0, <2>1 DEF AlignMemory
<1>7. /\ counts' \in [0 .. stride -> [Expert -> Nat]]
      /\ \A e \in Expert : counts'[0][e] = IF e \div WARP_SIZE = t \div WARP_SIZE THEN 0 ELSE counts[0][e]
  <2> DEFINE z == [e \in Expert |-> IF e \div WARP_SIZE = t \div WARP_SIZE THEN 0 ELSE counts[0][e]]
  <2>1. z \in [Expert -> Nat] /\ counts' = [counts EXCEPT ![0] = z]
    BY <1>0, <1>6
  <2>2. counts'[0] = z
    BY <1>6, <2>1
  <2>3. counts' \in [0 .. stride -> [Expert -> Nat]]
    <3> HIDE DEF z
    <3>1. QED
      BY <1>6, <2>1
  <2>4. QED
    BY <2>2, <2>3
<1>8. \A e : Tallied(e) = {}
  <2>1. 3 \in 1 .. 8 /\ stage[t] < 3
    BY <1>2
  <2>2. \A i \in Element : ~ Handled(3, i)
    BY <1>0, <2>1, GeneralNotYet
  <2>3. \A e : Live(e) \subseteq Element
    BY <1>0, AlignRouting
  <2>4. QED
    BY <2>2, <2>3 DEF Tallied
<1>9. GeneralCounts'
  <2>1. ASSUME NEW e \in Expert, stage'[e] > 2 PROVE counts'[0][e] = 0
    <3>1. CASE e = t
      BY <1>7, <3>1
    <3>2. CASE e # t
      <4>1. stage[e] > 2
        BY <1>1, <1>3, <2>1, <3>2
      <4>2. counts[0][e] = 0
        BY <1>0, <1>8, <4>1, FS_EmptySet DEF GeneralCounts
      <4>3. QED
        BY <1>7, <4>2
    <3>3. QED
      BY <3>1, <3>2
  <2>2. \A e : Tallied(e)' = {}
    BY <1>1, <1>8
  <2>3. QED
    BY <2>1, <2>2, FS_EmptySet DEF GeneralCounts
<1>10. GeneralOffsets' /\ GeneralTotal'
  <2>1. \A u \in Thread : ~ (stage'[u] > 4)
    BY <1>1, <1>2, <1>5
  <2>2. QED
    BY <1>4, <2>1 DEF GeneralOffsets, GeneralTotal
<1>11. AlignMemory'
  BY <1>0, <1>7, MemoryFrame DEF AlignMemory
<1>12. QED
  BY <1>1, <1>9, <1>10, <1>11 DEF GeneralInv

\* general: a thread leaves a loop when it has gone over all its elements.
LEMMA GeneralEndLoop ==
    ASSUME GeneralInv, path = "general", NEW t \in Thread, EndLoop(t)
    PROVE  GeneralInv'
<1>0. /\ AlignThreads /\ AlignInput /\ AlignMemory /\ GeneralCounts /\ GeneralOffsets /\ GeneralTotal
      /\ next[t] >= n /\ Advance(t) /\ UNCHANGED <<inputVars, fillVars>> /\ UNCHANGED inputVars
      /\ At(t, "count") \/ (At(t, "place") /\ rank[t] = NoExpert)
      /\ counts' = counts /\ cumsum' = cumsum /\ sorted_token_ids' = sorted_token_ids
      /\ expert_ids' = expert_ids /\ src_dst' = src_dst
      /\ total_tokens_post_pad' = total_tokens_post_pad
  BY DEF GeneralInv, AlignThreads, EndLoop, outputVars
<1>1. PICK l : l \in {"count", "place"} /\ At(t, l) /\ (l = "place" => rank[t] = NoExpert)
  BY <1>0
<1>2. /\ AlignThreads' /\ Layout' /\ GeneralRanks' /\ Marks'
      /\ \A u \in Thread : \A s \in Nat : s # stage[t] => (stage'[u] > s <=> stage[u] > s)
      /\ \A e : Tallied(e)' = Tallied(e) /\ Drew(e)' = Drew(e)
  BY <1>0, <1>1, GeneralAdvance
<1>3. stage[t] = 3 \/ stage[t] = 6
  <2>1. label(t) = "count" \/ label(t) = "place"
    BY <1>0, <1>1, GeneralAt
  <2>2. QED
    BY <1>0, <2>1, GeneralAt
<1>4. Expert \subseteq Thread /\ \A e : due_before(e)' = due_before(e)
  BY <1>0, AlignSizes, DueFrame
<1>5. 0 .. num_experts \subseteq Thread /\ num_experts \in Thread
  <2>1. stride = num_experts + 1 /\ num_experts \in Nat \ {0}
    BY <1>0, AlignSizes
  <2>2. QED
    BY <2>1 DEF Thread
<1>6. \A u \in Thread : (stage'[u] > 2 <=> stage[u] > 2) /\ (stage'[u] > 4 <=> stage[u] > 4)
  BY <1>2, <1>3
<1>7. GeneralCounts'
  BY <1>0, <1>2, <1>4, <1>6 DEF GeneralCounts
<1>8. GeneralOffsets'
  BY <1>0, <1>2, <1>4, <1>5, <1>6 DEF GeneralOffsets
<1>9. GeneralTotal'
  <2>1. due_total' = due_total /\ adapter' = adapter
    BY <1>0, DueFrame, LaunchFrame
  <2>2. QED
    BY <1>0, <1>5, <1>6, <2>1 DEF GeneralTotal
<1>10. AlignMemory'
  BY <1>0, MemoryFrame DEF AlignMemory
<1>11. QED
  BY <1>2, <1>7, <1>8, <1>9, <1>10 DEF GeneralInv

\* general: an atomic addition to the count of an expert.
LEMMA GeneralCount ==
    ASSUME GeneralInv, path = "general", NEW t \in Thread, Count(t)
    PROVE  GeneralInv'
<1>0. /\ AlignThreads /\ AlignInput /\ AlignMemory /\ Marks /\ Layout
      /\ GeneralCounts /\ GeneralOffsets /\ GeneralTotal /\ GeneralRanks
      /\ At(t, "count") /\ next[t] < n /\ next' = [next EXCEPT ![t] = @ + stride]
      /\ UNCHANGED <<inputVars, fillVars>> /\ UNCHANGED inputVars /\ stage' = stage /\ rank' = rank
      /\ cumsum' = cumsum /\ sorted_token_ids' = sorted_token_ids /\ expert_ids' = expert_ids
      /\ src_dst' = src_dst /\ total_tokens_post_pad' = total_tokens_post_pad
      /\ counts' = IF expert_id(next[t]) = NoExpert THEN counts
                   ELSE [counts EXCEPT ![0][expert_id(next[t])] = @ + weight(next[t])]
  BY DEF GeneralInv, AlignThreads, Count, outputVars
<1>1. stage[t] = 3 /\ Met(Gate(stage[t]))
  <2>1. label(t) = "count" /\ Met(stage[t])
    BY <1>0, GeneralAt
  <2>2. stage[t] = 3
    BY <1>0, <2>1, GeneralAt
  <2>3. Gate(stage[t]) = stage[t]
    BY DEF Gate
  <2>4. QED
    BY <2>1, <2>2, <2>3
<1>2. rank[t] = NoExpert
  BY <1>0, <1>1 DEF AlignThreads, RanksHeld
<1>3. /\ AlignThreads'
      /\ \A u \in Thread \ {t} : next'[u] = next[u]
      /\ \A s \in Nat : \A i \in Element :
            /\ Handled(s, i)' <=> Handled(s, i) \/ (stage[t] = s /\ i = next[t])
            /\ stage[t] = s /\ i = next[t] => ~ Handled(s, i)
  BY <1>0, <1>1, <1>2, MoveStep
<1>4. PICK i \in Element : i = next[t]
  <2>1. next[t] \in Nat /\ n \in Nat
    BY <1>0, AlignSizes DEF AlignThreads
  <2>2. QED
    BY <1>0, <2>1 DEF Element
<1>5. /\ \A j \in Element : Handled(6, j)' <=> Handled(6, j)
      /\ \A j \in Element : Handled(3, j)' <=> Handled(3, j) \/ j = i
      /\ ~ Handled(3, i)
  <2>1. 3 \in Nat /\ 6 \in Nat /\ stage[t] # 6
    BY <1>1
  <2>2. QED
    BY <1>1, <1>3, <1>4, <2>1
<1>6. /\ \A e : Drew(e)' = Drew(e) /\ Drawn(e)' = Drawn(e)
      /\ Stored' = Stored /\ \A j : Slots(j)' = Slots(j)
      /\ \A k : Filled(k)' <=> Filled(k)
  <2>1. \A u \in Thread : rank'[u] = rank[u] /\ (rank[u] # NoExpert => next'[u] = next[u])
    BY <1>0, <1>2, <1>3
  <2>2. UNCHANGED <<inputVars, fill>>
    BY <1>0 DEF fillVars
  <2>3. \A j \in Routed : Handled(6, j)' <=> Handled(6, j)
    BY <1>0, <1>5, AlignRouting
  <2>4. QED
    BY <1>0, <2>1, <2>2, <2>3, GeneralSame
<1>7. /\ \A e : Live(e)' = Live(e) /\ due_before(e)' = due_before(e)
      /\ n' = n /\ Thread' = Thread /\ Buffer' = Buffer /\ due_total' = due_total /\ adapter' = adapter
  BY <1>0, LaunchFrame, RoutingFrame, DueFrame
<1>8. Layout' /\ Marks'
  <2>1. Layout'
    BY <1>0, <1>6, LayoutFrame
  <2>2. Marks'
    BY <1>0, MarksFrame
  <2>3. QED
    BY <2>1, <2>2
<1>9. GeneralRanks'
  <2>1. \A u \in Thread : rank[u] # NoExpert => next'[u] = next[u]
    BY <1>2, <1>3
  <2>2. QED
    BY <1>0, <1>6, <1>7, <2>1 DEF GeneralRanks
<1>10. /\ counts \in [0 .. stride -> [Expert -> Nat]] /\ 0 \in 0 .. stride
       /\ expert_id(i) \in Expert \cup {NoExpert}
  <2>1. stride \in Nat
    BY <1>0, AlignSizes
  <2>2. QED
    BY <1>0, <2>1, AlignRouting DEF AlignMemory
<1>11. /\ \A e : Tallied(e)' = IF i \in Live(e) THEN Tallied(e) \cup {i} ELSE Tallied(e)
       /\ \A e : i \notin Tallied(e)
  <2>1. \A e : Live(e) \subseteq Element
    BY <1>0, AlignRouting
  <2>2. QED
    BY <1>5, <1>7, <2>1 DEF Tallied
<1>12. /\ counts' \in [0 .. stride -> [Expert -> Nat]]
       /\ \A e \in Expert : counts'[0][e] = IF i \in Live(e) THEN counts[0][e] + 1 ELSE counts[0][e]
  <2>1. \A e : i \in Live(e) <=> expert_id(i) # NoExpert /\ token_mask(i) /\ expert_id(i) = e
    BY DEF Live, Routed
  <2>2. CASE expert_id(i) = NoExpert
    <3>1. counts' = counts
      BY <1>0, <1>4, <2>2
    <3>2. QED
      BY <1>10, <2>1, <2>2, <3>1
  <2>3. CASE expert_id(i) # NoExpert
    <3>1. PICK d \in Expert : d = expert_id(i)
      BY <1>10, <2>3
    <3>2. counts' = [counts EXCEPT ![0][d] = @ + weight(i)]
      BY <1>0, <1>4, <2>3, <3>1
    <3>3. weight(i) = IF i \in Live(d) THEN 1 ELSE 0
      BY <2>1, <2>3, <3>1 DEF weight
    <3>4. counts[0] \in [Expert -> Nat]
      BY <1>10
    <3>5. PICK v \in Nat : v = counts[0][d] + weight(i)
      <4>1. counts[0][d] + weight(i) \in Nat
        BY <3>3, <3>4
      <4>2. QED
        BY <4>1
    <3>6. counts' = [counts EXCEPT ![0] = [counts[0] EXCEPT ![d] = v]]
      BY <1>10, <3>2, <3>5
    <3>7. counts'[0] = [counts[0] EXCEPT ![d] = v]
      BY <1>10, <3>6
    <3>8. [counts[0] EXCEPT ![d] = v] \in [Expert -> Nat]
      BY <3>4
    <3>9. counts' \in [0 .. stride -> [Expert -> Nat]]
      BY <1>10, <3>6, <3>8
    <3>10. ASSUME NEW e \in Expert
           PROVE  counts'[0][e] = IF i \in Live(e) THEN counts[0][e] + 1 ELSE counts[0][e]
      <4>1. CASE e # d
        <5>1. i \notin Live(e)
          BY <2>1, <3>1, <4>1
        <5>2. QED
          BY <3>4, <3>7, <4>1, <5>1
      <4>2. CASE e = d
        <5>1. counts'[0][d] = v /\ counts[0][d] \in Nat
          BY <3>4, <3>7
        <5>2. QED
          BY <3>3, <3>5, <4>2, <5>1
      <4>3. QED
        BY <4>1, <4>2
    <3>11. QED
      BY <3>9, <3>10
  <2>4. QED
    BY <2>2, <2>3
<1>13. GeneralCounts'
  <2> SUFFICES ASSUME NEW e \in Expert, stage[e] > 2
               PROVE  counts'[0][e] = Cardinality(Tallied(e)')
    BY <1>0 DEF GeneralCounts
  <2>1. counts[0][e] = Cardinality(Tallied(e)) /\ IsFiniteSet(Tallied(e))
    BY <1>0, GeneralSets DEF GeneralCounts
  <2>2. CASE i \in Live(e)
    <3>1. Cardinality(Tallied(e) \cup {i}) = Cardinality(Tallied(e)) + 1
      BY <1>11, <2>1, FS_AddElement
    <3>2. QED
      BY <1>11, <1>12, <2>1, <2>2, <3>1
  <2>3. CASE i \notin Live(e)
    BY <1>11, <1>12, <2>1, <2>3
  <2>4. QED
    BY <2>2, <2>3
<1>14. GeneralOffsets' /\ GeneralTotal'
  BY <1>0, <1>6, <1>7 DEF GeneralOffsets, GeneralTotal
<1>15. AlignMemory'
  BY <1>0, <1>12, MemoryFrame DEF AlignMemory
<1>16. QED
  BY <1>3, <1>8, <1>9, <1>13, <1>14, <1>15 DEF GeneralInv

\* No slot is drawn before the elements are placed.
LEMMA GeneralUndrawn ==
    ASSUME AlignThreads, path = "general", NEW t \in Thread, stage[t] < 6
    PROVE  \A e : Drew(e) = {}
<1>1. AlignInput /\ 6 \in 1 .. 8
  BY DEF AlignThreads
<1>2. (\A u \in Thread : ~ Begun(u, 6)) /\ \A i \in Element : ~ Handled(6, i)
  BY <1>1, GeneralNotYet
<1>3. \A u \in Thread : rank[u] = NoExpert
  <2> SUFFICES ASSUME NEW u \in Thread, rank[u] # NoExpert PROVE FALSE
    OBVIOUS
  <2>1. stage[u] = 6
    BY DEF AlignThreads, RanksHeld
  <2>2. QED
    BY <1>2, <2>1 DEF Begun
<1>4. \A i \in Element : i % stride \in Thread
  <2>1. stride \in Nat \ {0} /\ Element \subseteq Nat
    BY <1>1, AlignSizes
  <2>2. QED
    BY <2>1, Modulo DEF Thread
<1>5. \A e : Live(e) \subseteq Element
  BY <1>1, AlignRouting
<1>6. QED
  BY <1>2, <1>3, <1>4, <1>5 DEF Drew

\* Once everything is counted, the scan finds the slots that are due.
LEMMA GeneralScanned ==
    ASSUME GeneralInv, path = "general", NEW t \in Thread, Met(4)
    PROVE  /\ \A e \in Expert : padded(e) = due(e)
           /\ \A e \in 0 .. num_experts : first_slot(e) = due_before(e)
<1>0. AlignThreads /\ AlignInput /\ GeneralCounts
  BY DEF GeneralInv, AlignThreads
<1>1. \A u \in Thread : stage[u] \in Nat /\ stage[u] >= 4
  BY <1>0 DEF Met, AlignThreads
<1>2. \A i \in Element : Handled(3, i)
  <2> SUFFICES ASSUME NEW i \in Element PROVE Handled(3, i)
    OBVIOUS
  <2>1. i % stride \in Thread
    <3>1. stride \in Nat \ {0} /\ i \in Nat
      BY <1>0, AlignSizes
    <3>2. QED
      BY <3>1, Modulo DEF Thread
  <2>2. stage[i % stride] > 3
    BY <1>1, <2>1
  <2>3. QED
    BY <2>2 DEF Handled
<1>3. \A e \in Expert : Tallied(e) = Live(e) /\ stage[e] > 2
  <2>1. Expert \subseteq Thread /\ \A e : Live(e) \subseteq Element
    BY <1>0, AlignSizes, AlignRouting
  <2>2. \A e \in Expert : stage[e] > 2
    BY <1>1, <2>1
  <2>3. QED
    BY <1>2, <2>1, <2>2 DEF Tallied
<1>4. \A e \in Expert : padded(e) = due(e)
  <2> SUFFICES ASSUME NEW e \in Expert PROVE padded(e) = due(e)
    OBVIOUS
  <2>1. counts[0][e] = Cardinality(Live(e))
    BY <1>0, <1>3 DEF GeneralCounts
  <2>2. padded(e) = round_up(counts[0][e], block_size)
    BY DEF padded
  <2>3. due(e) = round_up(Cardinality(Live(e)), block_size)
    BY DEF due, Live
  <2>4. QED
    BY <2>1, <2>2, <2>3
<1>5. \A e : first_slot(e) = due_before(e)
  <2>1. [x \in Expert |-> padded(x)] = [x \in Expert |-> due(x)]
    BY <1>4
  <2>2. QED
    BY <2>1 DEF first_slot, due_before
<1>6. QED
  BY <1>4, <1>5

\* general: an offset is the sum of the padded counts before it.
LEMMA GeneralScan ==
    ASSUME GeneralInv, path = "general", NEW t \in Thread, Scan(t)
    PROVE  GeneralInv'
<1>0. /\ AlignThreads /\ AlignInput /\ AlignMemory /\ GeneralCounts /\ GeneralOffsets /\ GeneralTotal
      /\ At(t, "scan") /\ Advance(t) /\ UNCHANGED <<inputVars, fillVars>> /\ UNCHANGED inputVars
      /\ counts' = counts /\ sorted_token_ids' = sorted_token_ids
      /\ expert_ids' = expert_ids /\ src_dst' = src_dst
      /\ cumsum' = IF t <= num_experts THEN [cumsum EXCEPT ![t] = first_slot(t)] ELSE cumsum
      /\ total_tokens_post_pad' = IF t = num_experts THEN first_slot(num_experts) ELSE total_tokens_post_pad
  BY DEF GeneralInv, AlignThreads, Scan
<1>1. /\ AlignThreads' /\ Layout' /\ GeneralRanks' /\ Marks'
      /\ \A u \in Thread : \A s \in Nat : s # stage[t] => (stage'[u] > s <=> stage[u] > s)
      /\ \A u \in Thread \ {t} : stage'[u] = stage[u]
      /\ \A e : Tallied(e)' = Tallied(e) /\ Drew(e)' = Drew(e)
  BY <1>0, GeneralAdvance
<1>2. stage[t] = 4 /\ Met(4) /\ t \in 0 .. num_experts
  <2>1. label(t) = "scan" /\ Met(stage[t])
    BY <1>0, GeneralAt
  <2>2. stage[t] = 4 /\ t \in 0 .. num_experts
    BY <1>0, <2>1, GeneralAt
  <2>3. QED
    BY <2>1, <2>2
<1>3. /\ num_experts \in Nat /\ Expert \subseteq Thread /\ 0 .. num_experts \subseteq Thread
      /\ num_experts \in 0 .. num_experts
      /\ \A e : due_before(e)' = due_before(e) /\ due_total' = due_total /\ adapter' = adapter
  <2>1. stride = num_experts + 1 /\ num_experts \in Nat \ {0}
    BY <1>0, AlignSizes
  <2>2. 0 .. num_experts \subseteq Thread /\ num_experts \in 0 .. num_experts
    BY <2>1 DEF Thread
  <2>3. QED
    BY <1>0, <2>1, <2>2, AlignSizes, DueFrame, LaunchFrame
<1>4. \A e \in 0 .. num_experts : first_slot(e) = due_before(e) /\ due_before(e) \in Nat
  BY <1>0, <1>2, GeneralScanned, Due
<1>5. \A e : Drew(e) = {}
  BY <1>0, <1>2, GeneralUndrawn
<1>6. /\ cumsum' = [cumsum EXCEPT ![t] = due_before(t)]
      /\ total_tokens_post_pad' = IF t = num_experts THEN due_total ELSE total_tokens_post_pad
  <2>1. t <= num_experts /\ first_slot(t) = due_before(t)
    BY <1>2, <1>3, <1>4
  <2>2. first_slot(num_experts) = due_total
    BY <1>3, <1>4 DEF due_total
  <2>3. QED
    BY <1>0, <2>1, <2>2
<1>7. cumsum \in [0 .. num_experts -> Nat]
  BY <1>0 DEF AlignMemory
<1>8. /\ cumsum' \in [0 .. num_experts -> Nat]
      /\ cumsum'[t] = due_before(t) /\ \A e \in 0 .. num_experts : e # t => cumsum'[e] = cumsum[e]
  BY <1>2, <1>4, <1>6, <1>7
<1>9. GeneralCounts'
  BY <1>0, <1>1, <1>2, <1>3 DEF GeneralCounts
<1>10. GeneralOffsets'
  <2> SUFFICES ASSUME NEW e \in 0 .. num_experts, stage'[e] > 4
               PROVE  cumsum'[e] = due_before(e) + Cardinality(Drew(e)')
    BY <1>3 DEF GeneralOffsets
  <2>1. Cardinality(Drew(e)') = 0 /\ Cardinality(Drew(e)) = 0
    BY <1>1, <1>5, FS_EmptySet
  <2>2. CASE e = t
    BY <1>4, <1>8, <2>1, <2>2
  <2>3. CASE e # t
    <3>1. stage[e] > 4
      BY <1>1, <1>3, <2>3
    <3>2. cumsum[e] = due_before(e) + Cardinality(Drew(e))
      BY <1>0, <3>1 DEF GeneralOffsets
    <3>3. QED
      BY <1>8, <2>1, <2>3, <3>2
  <2>4. QED
    BY <2>2, <2>3
<1>11. GeneralTotal'
  <2>1. CASE t = num_experts
    BY <1>3, <1>6, <2>1 DEF GeneralTotal
  <2>2. CASE t # num_experts
    <3>1. stage'[num_experts] = stage[num_experts]
      BY <1>1, <1>3, <2>2
    <3>2. QED
      BY <1>0, <1>3, <1>6, <2>2, <3>1 DEF GeneralTotal
  <2>3. QED
    BY <2>1, <2>2
<1>12. AlignMemory'
  <2>1. due_total \in Nat
    BY <1>3, <1>4 DEF due_total
  <2>2. total_tokens_post_pad' \in Nat
    BY <1>0, <1>6, <2>1 DEF AlignMemory
  <2>3. QED
    BY <1>0, <1>8, <2>2, MemoryFrame DEF AlignMemory
<1>13. QED
  BY <1>1, <1>9, <1>10, <1>11, <1>12 DEF GeneralInv

\* general: a thread marks the blocks of its expert.
LEMMA GeneralIds ==
    ASSUME GeneralInv, path = "general", NEW t \in Thread, ExpertIds(t)
    PROVE  GeneralInv'
<1>0. /\ AlignThreads /\ AlignInput /\ AlignMemory /\ Marks /\ GeneralCounts /\ GeneralOffsets /\ GeneralTotal
      /\ At(t, "ids") /\ Advance(t) /\ UNCHANGED <<inputVars, fillVars>> /\ UNCHANGED inputVars
      /\ counts' = counts /\ cumsum' = cumsum /\ sorted_token_ids' = sorted_token_ids
      /\ src_dst' = src_dst /\ total_tokens_post_pad' = total_tokens_post_pad
  BY DEF GeneralInv, AlignThreads, ExpertIds
<1>1. /\ AlignThreads' /\ Layout' /\ GeneralRanks'
      /\ \A u \in Thread : \A s \in Nat : s # stage[t] => (stage'[u] > s <=> stage[u] > s)
      /\ \A u \in Thread \ {t} : stage'[u] = stage[u]
      /\ \A e : Tallied(e)' = Tallied(e) /\ Drew(e)' = Drew(e)
      /\ stage[0] # 8 /\ stage'[0] # 8
  BY <1>0, GeneralAdvance
<1>2. stage[t] = 5 /\ Met(5)
  <2>1. label(t) = "ids" /\ Met(stage[t])
    BY <1>0, GeneralAt
  <2>2. stage[t] = 5
    BY <1>0, <2>1, GeneralAt
  <2>3. QED
    BY <2>1, <2>2
<1>3. /\ num_experts \in Nat \ {0} /\ block_size \in Nat \ {0} /\ Expert \subseteq Thread
      /\ 0 .. num_experts \subseteq Thread /\ num_experts \in 0 .. num_experts
      /\ \A e \in Expert : e \in 0 .. num_experts /\ e + 1 \in 0 .. num_experts
  <2>1. stride = num_experts + 1 /\ num_experts \in Nat \ {0}
    BY <1>0, AlignSizes
  <2>2. 0 .. num_experts \subseteq Thread /\ num_experts \in 0 .. num_experts
    BY <2>1 DEF Thread
  <2>3. \A e \in Expert : e \in 0 .. num_experts /\ e + 1 \in 0 .. num_experts
    BY <2>1 DEF Expert
  <2>4. QED
    BY <1>0, <2>2, <2>3, AlignSizes
<1>4. \A e \in 0 .. num_experts : cumsum[e] = first_block(e) * block_size /\ first_block(e) \in Nat
  <2> SUFFICES ASSUME NEW e \in 0 .. num_experts
               PROVE  cumsum[e] = first_block(e) * block_size /\ first_block(e) \in Nat
    OBVIOUS
  <2>1. stage[e] > 4
    <3>1. stage[e] >= 5 /\ stage[e] \in Nat
      BY <1>0, <1>2, <1>3 DEF Met, AlignThreads
    <3>2. QED
      BY <3>1
  <2>2. cumsum[e] = due_before(e) + Cardinality(Drew(e))
    BY <1>0, <2>1 DEF GeneralOffsets
  <2>3. Cardinality(Drew(e)) = 0
    BY <1>0, <1>2, GeneralUndrawn, FS_EmptySet
  <2>4. due_before(e) \in Nat /\ due_before(e) = first_block(e) * block_size /\ first_block(e) \in Nat
    BY <1>0, Due
  <2>5. QED
    BY <2>2, <2>3, <2>4
<1>5. PICK mine, rest :
        /\ mine = IF t \in Expert THEN first_block(t) .. first_block(t + 1) - 1 ELSE {}
        /\ rest = IF path = "batched" THEN {}
                  ELSE Strided(first_block(num_experts) + t, stride, max_num_m_blocks)
  OBVIOUS
<1>6. expert_ids' = Overwrite(Overwrite(expert_ids, mine, t), rest, NoExpert)
  <2>1. mine = IF t \in Expert THEN {k \div block_size : k \in Strided(cumsum[t], block_size, cumsum[t + 1])}
               ELSE {}
    <3>1. CASE t \in Expert
      <4>1. /\ cumsum[t] = first_block(t) * block_size /\ first_block(t) \in Nat
            /\ cumsum[t + 1] = first_block(t + 1) * block_size /\ first_block(t + 1) \in Nat
        BY <1>3, <1>4, <3>1
      <4>2. {k \div block_size : k \in Strided(first_block(t) * block_size, block_size,
                                               first_block(t + 1) * block_size)}
            = first_block(t) .. first_block(t + 1) - 1
        BY <1>3, <4>1, BlockStarts
      <4>3. QED
        BY <1>5, <3>1, <4>1, <4>2
    <3>2. CASE t \notin Expert
      BY <1>5, <3>2
    <3>3. QED
      BY <3>1, <3>2
  <2>2. rest = Strided(cumsum[num_experts] \div block_size + t, stride, max_num_m_blocks)
    <3>1. cumsum[num_experts] = first_block(num_experts) * block_size /\ first_block(num_experts) \in Nat
      BY <1>3, <1>4
    <3>2. (first_block(num_experts) * block_size) \div block_size = first_block(num_experts)
      BY <1>3, <3>1, InBlock
    <3>3. QED
      BY <1>5, <3>1, <3>2
  <2>3. expert_ids' = Overwrite(Overwrite(expert_ids,
                         IF t \in Expert THEN {k \div block_size : k \in Strided(cumsum[t], block_size, cumsum[t + 1])}
                         ELSE {}, t),
                       Strided(cumsum[num_experts] \div block_size + t, stride, max_num_m_blocks), NoExpert)
    BY DEF ExpertIds
  <2>4. QED
    BY <2>1, <2>2, <2>3
<1>7. Marks' /\ expert_ids' \in [Block -> Expert \cup {NoExpert, Garbage}]
  <2>1. Len(Program) = 8
    BY <1>0, Programs
  <2>2. stage[0] # Len(Program) /\ stage'[0] # Len(Program)
    BY <1>1, <2>1
  <2>3. \A u \in Thread \ {t} : stage'[u] = stage[u]
    BY <1>1
  <2>4. QED
    BY <1>0, <1>5, <1>6, <2>2, <2>3, MarksStep
<1>8. \A e : due_before(e)' = due_before(e) /\ due_total' = due_total /\ adapter' = adapter
  BY <1>0, DueFrame, LaunchFrame
<1>9. GeneralCounts'
  BY <1>0, <1>1, <1>2, <1>3 DEF GeneralCounts
<1>10. GeneralOffsets'
  BY <1>0, <1>1, <1>2, <1>3, <1>8 DEF GeneralOffsets
<1>11. GeneralTotal'
  BY <1>0, <1>1, <1>2, <1>3, <1>8 DEF GeneralTotal
<1>12. AlignMemory'
  BY <1>0, <1>7, MemoryFrame DEF AlignMemory
<1>13. QED
  BY <1>1, <1>7, <1>9, <1>10, <1>11, <1>12 DEF GeneralInv

\* general: an element without an expert or outside the adapter is passed over.
LEMMA GeneralSkip ==
    ASSUME GeneralInv, path = "general", NEW t \in Thread, Skip(t)
    PROVE  GeneralInv'
<1>0. /\ AlignThreads /\ AlignInput /\ AlignMemory /\ Marks /\ Layout
      /\ GeneralCounts /\ GeneralOffsets /\ GeneralTotal /\ GeneralRanks
      /\ At(t, "place") /\ rank[t] = NoExpert /\ next' = [next EXCEPT ![t] = @ + stride]
      /\ expert_id(next[t]) = NoExpert \/ ~ token_mask(next[t])
      /\ UNCHANGED <<inputVars, fillVars>> /\ UNCHANGED inputVars /\ stage' = stage /\ rank' = rank
      /\ counts' = counts /\ cumsum' = cumsum /\ sorted_token_ids' = sorted_token_ids
      /\ expert_ids' = expert_ids /\ src_dst' = src_dst /\ total_tokens_post_pad' = total_tokens_post_pad
  BY DEF GeneralInv, AlignThreads, Skip, outputVars
<1>1. stage[t] = 6 /\ Met(Gate(stage[t]))
  <2>1. label(t) = "place" /\ Met(stage[t])
    BY <1>0, GeneralAt
  <2>2. stage[t] = 6
    BY <1>0, <2>1, GeneralAt
  <2>3. Gate(stage[t]) = stage[t]
    BY DEF Gate
  <2>4. QED
    BY <2>1, <2>2, <2>3
<1>2. /\ AlignThreads'
      /\ \A u \in Thread \ {t} : next'[u] = next[u]
      /\ \A s \in Nat : \A i \in Element : Handled(s, i)' <=> Handled(s, i) \/ (stage[t] = s /\ i = next[t])
  BY <1>0, <1>1, MoveStep
<1>3. next[t] \notin Routed
  BY <1>0 DEF Routed
<1>4. \A i \in Routed : (Handled(3, i)' <=> Handled(3, i)) /\ (Handled(6, i)' <=> Handled(6, i))
  <2>1. 3 \in Nat /\ 6 \in Nat /\ Routed \subseteq Element
    BY <1>0, AlignRouting
  <2>2. QED
    BY <1>2, <1>3, <2>1
<1>5. /\ \A e : Drew(e)' = Drew(e) /\ Drawn(e)' = Drawn(e) /\ Tallied(e)' = Tallied(e)
      /\ Stored' = Stored /\ \A j : Slots(j)' = Slots(j)
      /\ \A k : Filled(k)' <=> Filled(k)
  <2>1. \A u \in Thread : rank'[u] = rank[u] /\ (rank[u] # NoExpert => next'[u] = next[u])
    BY <1>0, <1>2
  <2>2. UNCHANGED <<inputVars, fill>>
    BY <1>0 DEF fillVars
  <2>3. QED
    BY <1>0, <1>4, <2>1, <2>2, GeneralSame
<1>6. /\ \A e : Live(e)' = Live(e) /\ due_before(e)' = due_before(e)
      /\ n' = n /\ Thread' = Thread /\ Buffer' = Buffer /\ due_total' = due_total /\ adapter' = adapter
  BY <1>0, LaunchFrame, RoutingFrame, DueFrame
<1>7. Layout' /\ Marks'
  <2>1. Layout'
    BY <1>0, <1>5, LayoutFrame
  <2>2. Marks'
    BY <1>0, MarksFrame
  <2>3. QED
    BY <2>1, <2>2
<1>8. GeneralRanks'
  <2>1. \A u \in Thread : rank[u] # NoExpert => next'[u] = next[u]
    BY <1>0, <1>2
  <2>2. QED
    BY <1>0, <1>5, <1>6, <2>1 DEF GeneralRanks
<1>9. GeneralCounts' /\ GeneralOffsets' /\ GeneralTotal'
  BY <1>0, <1>5, <1>6 DEF GeneralCounts, GeneralOffsets, GeneralTotal
<1>10. AlignMemory'
  BY <1>0, MemoryFrame DEF AlignMemory
<1>11. QED
  BY <1>2, <1>7, <1>8, <1>9, <1>10 DEF GeneralInv

\* general: the atomic addition that draws the next slot of an expert.
LEMMA GeneralTakeRank ==
    ASSUME GeneralInv, path = "general", NEW t \in Thread, TakeRank(t)
    PROVE  GeneralInv'
<1>0. /\ AlignThreads /\ AlignInput /\ AlignMemory /\ Marks /\ Layout
      /\ GeneralCounts /\ GeneralOffsets /\ GeneralTotal /\ GeneralRanks
      /\ At(t, "place") /\ rank[t] = NoExpert /\ next[t] < n
      /\ expert_id(next[t]) # NoExpert /\ token_mask(next[t])
      /\ rank' = [rank EXCEPT ![t] = cumsum[expert_id(next[t])]]
      /\ cumsum' = [cumsum EXCEPT ![expert_id(next[t])] = @ + 1]
      /\ UNCHANGED <<inputVars, fillVars>> /\ UNCHANGED inputVars /\ stage' = stage /\ next' = next
      /\ fill' = fill /\ fill_reset' = fill_reset
      /\ counts' = counts /\ sorted_token_ids' = sorted_token_ids
      /\ expert_ids' = expert_ids /\ src_dst' = src_dst /\ total_tokens_post_pad' = total_tokens_post_pad
  BY DEF GeneralInv, AlignThreads, TakeRank, outputVars, fillVars
<1>1. stage[t] = 6 /\ Met(6) /\ Met(Gate(stage[t]))
  <2>1. label(t) = "place" /\ Met(stage[t])
    BY <1>0, GeneralAt
  <2>2. stage[t] = 6
    BY <1>0, <2>1, GeneralAt
  <2>3. Gate(stage[t]) = stage[t]
    BY DEF Gate
  <2>4. QED
    BY <2>1, <2>2, <2>3
<1>2. PICK x \in Routed : x = next[t]
  <2>1. next[t] \in Nat /\ n \in Nat
    BY <1>0, AlignSizes DEF AlignThreads
  <2>2. next[t] \in Element
    BY <1>0, <2>1 DEF Element
  <2>3. QED
    BY <1>0, <2>2 DEF Routed
<1>3. PICK d \in Expert : d = expert_id(x) /\ x \in Live(d)
  BY <1>0, AlignRouting
<1>4. /\ num_experts \in Nat \ {0} /\ Expert \subseteq Thread /\ Expert \subseteq 0 .. num_experts
      /\ stride \in Nat \ {0} /\ Element \subseteq Nat /\ x \in Element /\ Routed \subseteq Element
      /\ \A e : Live(e) \subseteq Routed
      /\ \A i \in Element : i % stride \in Thread
  <2>1. num_experts \in Nat \ {0} /\ stride \in Nat \ {0} /\ Element \subseteq Nat
    BY <1>0, AlignSizes
  <2>2. \A i \in Element : i % stride \in Thread
    BY <2>1, Modulo DEF Thread
  <2>3. Expert \subseteq 0 .. num_experts
    BY <2>1 DEF Expert
  <2>4. QED
    BY <1>0, <2>1, <2>2, <2>3, AlignSizes, AlignRouting
<1>5. x % stride = t /\ ~ Handled(6, x)
  <2>1. x % stride = t
    BY <1>0, <1>2 DEF AlignThreads, Strides
  <2>2. x \in Nat
    BY <1>4
  <2>3. QED
    BY <1>1, <1>2, <2>1, <2>2 DEF Handled
<1>6. x \notin Drew(d)
  BY <1>0, <1>5 DEF Drew
<1>7. PICK q \in Nat, a \in Nat, c \in Nat :
         /\ q = cumsum[d] /\ a = due_before(d) /\ c = Cardinality(Drew(d)) /\ q = a + c
         /\ IsFiniteSet(Drew(d)) /\ c < Cardinality(Live(d))
  <2>1. stage[d] > 4
    <3>1. stage[d] >= 6 /\ stage[d] \in Nat
      BY <1>0, <1>1, <1>4 DEF Met, AlignThreads
    <3>2. QED
      BY <3>1
  <2>2. cumsum[d] = due_before(d) + Cardinality(Drew(d))
    BY <1>0, <1>4, <2>1 DEF GeneralOffsets
  <2>3. due_before(d) \in Nat /\ IsFiniteSet(Drew(d)) /\ Cardinality(Drew(d)) \in Nat
    BY <1>0, <1>4, Due, GeneralSets
  <2>4. Cardinality(Drew(d)) < Cardinality(Live(d))
    <3>1. Drew(d) \cup {x} \in SUBSET Live(d) /\ IsFiniteSet(Live(d))
      BY <1>0, <1>3, AlignRouting DEF Drew
    <3>2. Cardinality(Drew(d) \cup {x}) <= Cardinality(Live(d)) /\ Cardinality(Live(d)) \in Nat
      BY <3>1, FS_Subset, FS_CardinalityType
    <3>3. Cardinality(Drew(d) \cup {x}) = Cardinality(Drew(d)) + 1
      BY <1>6, <2>3, FS_AddElement
    <3>4. QED
      BY <2>3, <3>2, <3>3
  <2>5. QED
    BY <2>2, <2>3, <2>4
<1>8. rank' = [rank EXCEPT ![t] = q] /\ cumsum' = [cumsum EXCEPT ![d] = q + 1]
  BY <1>0, <1>2, <1>3, <1>7
<1>9. /\ rank'[t] = q /\ \A u \in Thread \ {t} : rank'[u] = rank[u]
      /\ rank' \in [Thread -> Nat \cup {NoExpert}] /\ q # NoExpert
      /\ cumsum'[d] = q + 1 /\ \A e \in 0 .. num_experts : e # d => cumsum'[e] = cumsum[e]
      /\ cumsum' \in [0 .. num_experts -> Nat]
  <2>1. rank \in [Thread -> Nat \cup {NoExpert}] /\ cumsum \in [0 .. num_experts -> Nat]
    BY <1>0 DEF AlignThreads, AlignMemory
  <2>2. q # NoExpert
    BY <1>0, <1>7, AlignSizes
  <2>3. rank' \in [Thread -> Nat \cup {NoExpert}] /\ cumsum' \in [0 .. num_experts -> Nat]
    <3>1. q \in Nat \cup {NoExpert} /\ q + 1 \in Nat
      BY <1>7
    <3>2. rank' \in [Thread -> Nat \cup {NoExpert}]
      BY <1>8, <2>1, <3>1
    <3>3. cumsum' \in [0 .. num_experts -> Nat]
      BY <1>8, <2>1, <3>1
    <3>4. QED
      BY <3>2, <3>3
  <2>4. QED
    BY <1>3, <1>4, <1>8, <2>1, <2>2, <2>3
<1>10. /\ \A e : Live(e)' = Live(e) /\ due_before(e)' = due_before(e)
       /\ \A i : expert_id(i)' = expert_id(i)
       /\ n' = n /\ Thread' = Thread /\ Buffer' = Buffer /\ due_total' = due_total /\ adapter' = adapter
       /\ path' = path /\ stride' = stride /\ Routed' = Routed /\ Program' = Program
  BY <1>0, LaunchFrame, RoutingFrame, DueFrame
<1>11. (\A s, i : Handled(s, i)' <=> Handled(s, i)) /\ Stored' = Stored
       /\ (\A k : Filled(k)' <=> Filled(k)) /\ \A e : Tallied(e)' = Tallied(e)
  <2>1. \A s, i : Handled(s, i)' <=> Handled(s, i)
    BY <1>0, <1>10 DEF Handled
  <2>2. QED
    BY <1>0, <1>10, <2>1 DEF Stored, Filled, Tallied
<1>12. /\ Drew(d)' = Drew(d) \cup {x}
       /\ \A e : e # d => Drew(e)' = Drew(e)
  <2>1. \A e : Drew(e)' = {i \in Live(e) : Handled(6, i) \/ (rank'[i % stride] # NoExpert /\ next[i % stride] = i)}
    BY <1>0, <1>10, <1>11 DEF Drew
  <2>2. \A i \in Routed : (rank'[i % stride] # NoExpert /\ next[i % stride] = i)
                            <=> (rank[i % stride] # NoExpert /\ next[i % stride] = i) \/ i = x
    <3> SUFFICES ASSUME NEW i \in Routed
                 PROVE  (rank'[i % stride] # NoExpert /\ next[i % stride] = i)
                          <=> (rank[i % stride] # NoExpert /\ next[i % stride] = i) \/ i = x
      OBVIOUS
    <3>1. PICK u \in Thread : u = i % stride
      BY <1>4
    <3>2. CASE u = t
      BY <1>0, <1>2, <1>5, <1>9, <3>1, <3>2
    <3>3. CASE u # t
      BY <1>5, <1>9, <3>1, <3>3
    <3>4. QED
      BY <3>2, <3>3
  <2>3. \A e : x \in Live(e) <=> e = d
    BY <1>3 DEF Live
  <2>4. Drew(d)' = Drew(d) \cup {x}
    BY <1>4, <2>1, <2>2, <2>3 DEF Drew
  <2>5. ASSUME NEW e, e # d PROVE Drew(e)' = Drew(e)
    BY <1>4, <2>1, <2>2, <2>3, <2>5 DEF Drew
  <2>6. QED
    BY <2>4, <2>5
<1>13. Cardinality(Drew(d)') = c + 1
  <2>1. IsFiniteSet(Drew(d)) /\ Cardinality(Drew(d)) = c /\ x \notin Drew(d)
    BY <1>6, <1>7
  <2>2. Cardinality(Drew(d) \cup {x}) = Cardinality(Drew(d)) + 1
    BY <2>1, FS_AddElement
  <2>3. QED
    BY <1>12, <2>1, <2>2
<1>14. /\ \A e : e # d => Drawn(e)' = Drawn(e)
       /\ Drawn(d)' = a .. a + c /\ Drawn(d) = a .. a + c - 1
  <2>1. \A e : e # d => Drawn(e)' = Drawn(e)
    BY <1>10, <1>12 DEF Drawn
  <2>2. Drawn(d)' = due_before(d) .. due_before(d) + (c + 1) - 1
    BY <1>10, <1>13 DEF Drawn
  <2>3. a + (c + 1) - 1 = a + c
    BY <1>7
  <2>4. QED
    BY <1>7, <2>1, <2>2, <2>3 DEF Drawn
<1>15. \A e : Drawn(e) \subseteq Drawn(e)'
  BY <1>7, <1>14
<1>16. q \in Drawn(d)' /\ \A e \in Expert : q \notin Drawn(e)
  <2>1. q \in Drawn(d)' /\ q \notin Drawn(d)
    BY <1>7, <1>14
  <2>2. q \in Region(d)
    <3>1. Cardinality(Live(d)) <= due(d) /\ due(d) \in Nat /\ Cardinality(Live(d)) \in Nat
      BY <1>0, Due, AlignRouting
    <3>2. QED
      BY <1>7, <3>1 DEF Region
  <2>3. ASSUME NEW e \in Expert, q \in Drawn(e) PROVE FALSE
    <3>1. q \in Region(e)
      BY <1>0, <2>3, GeneralSets
    <3>2. e = d
      BY <1>0, <2>2, <3>1, Regions
    <3>3. QED
      BY <2>1, <2>3, <3>2
  <2>4. QED
    BY <2>1, <2>3
<1>17. \A i \in Routed : Slots(i) \subseteq Slots(i)'
  BY <1>10, <1>15 DEF Slots
<1>18. Layout' /\ Marks'
  <2>1. Layout'
    BY <1>0, <1>11, <1>17, LayoutFrame
  <2>2. Marks'
    BY <1>0, MarksFrame
  <2>3. QED
    BY <2>1, <2>2
<1>19. AlignThreads'
  <2>1. Barriers'
    BY <1>0, <1>1, <1>9, BarriersStep
  <2>2. RanksHeld'
    <3>1. \A u \in Thread : rank[u] # NoExpert => path = "general" /\ stage[u] = 6 /\ next[u] \in Routed
      BY <1>0 DEF AlignThreads, RanksHeld
    <3>2. \A u \in Thread : rank'[u] # NoExpert => path = "general" /\ stage[u] = 6 /\ next[u] \in Routed
      BY <1>1, <1>2, <1>9, <3>1
    <3>3. QED
      BY <1>0, <1>10, <3>2 DEF RanksHeld
  <2>3. Strides'
    BY <1>0, <1>10 DEF AlignThreads, Strides
  <2>4. AlignInput'
    BY <1>0, InputFrame
  <2>5. QED
    BY <1>0, <1>9, <1>10, <2>1, <2>2, <2>3, <2>4 DEF AlignThreads
<1>20. GeneralRanks'
  <2>1. ASSUME NEW u \in Thread, rank[u] # NoExpert PROVE rank[u] # q
    <3>1. next[u] \in Routed
      BY <1>0, <2>1 DEF AlignThreads, RanksHeld
    <3>2. PICK e \in Expert : next[u] \in Live(e)
      BY <1>0, <3>1, AlignRouting
    <3>3. rank[u] \in Drawn(e)
      BY <1>0, <2>1, <3>2 DEF GeneralRanks
    <3>4. QED
      BY <1>16, <3>3
  <2>2. ASSUME NEW k \in Buffer, Filled(k), sorted_token_ids[k] # n PROVE k # q
    <3>1. PICK i \in Routed : i \in Stored /\ i = sorted_token_ids[k]
      BY <1>0, <2>2, StoredRouted DEF Layout
    <3>2. k \in Slots(i)
      BY <1>0, <2>2, <3>1 DEF Layout
    <3>3. PICK e \in Expert : e = expert_id(i)
      BY <1>0, AlignRouting
    <3>4. k \in Drawn(e)
      BY <3>2, <3>3 DEF Slots
    <3>5. QED
      BY <1>16, <3>4
  <2>3. ASSUME NEW u \in Thread, rank'[u] # NoExpert
        PROVE  /\ \A e \in Expert : next[u] \in Live(e) => rank'[u] \in Drawn(e)'
               /\ \A v \in Thread : rank'[v] = rank'[u] => v = u
               /\ \A k \in Buffer : Filled(k) /\ sorted_token_ids[k] # n => k # rank'[u]
    <3>1. CASE u = t
      <4>1. \A e \in Expert : next[u] \in Live(e) => e = d
        BY <1>2, <1>3, <3>1 DEF Live
      <4>2. \A v \in Thread : rank'[v] = q => v = t
        BY <1>9, <2>1
      <4>3. QED
        BY <1>9, <1>16, <2>2, <3>1, <4>1, <4>2
    <3>2. CASE u # t
      <4>1. rank'[u] = rank[u] /\ rank[u] # q /\ rank[u] # NoExpert
        BY <1>9, <2>1, <2>3, <3>2
      <4>2. /\ \A e \in Expert : next[u] \in Live(e) => rank[u] \in Drawn(e)
            /\ \A v \in Thread : rank[v] = rank[u] => v = u
            /\ \A k \in Buffer : Filled(k) /\ sorted_token_ids[k] # n => k # rank[u]
        BY <1>0, <4>1 DEF GeneralRanks
      <4>3. \A v \in Thread : rank'[v] = rank[u] => v = u
        BY <1>9, <4>1, <4>2
      <4>4. QED
        BY <1>15, <4>1, <4>2, <4>3
    <3>3. QED
      BY <3>1, <3>2
  <2>4. QED
    BY <1>0, <1>10, <1>11, <2>3 DEF GeneralRanks
<1>21. GeneralOffsets'
  <2> SUFFICES ASSUME NEW e \in 0 .. num_experts, stage[e] > 4
               PROVE  cumsum'[e] = due_before(e) + Cardinality(Drew(e)')
    BY <1>0, <1>10 DEF GeneralOffsets
  <2>1. CASE e = d
    <3>1. q + 1 = a + (c + 1)
      BY <1>7
    <3>2. QED
      BY <1>7, <1>9, <1>13, <2>1, <3>1
  <2>2. CASE e # d
    BY <1>0, <1>9, <1>12, <2>2 DEF GeneralOffsets
  <2>3. QED
    BY <2>1, <2>2
<1>22. GeneralCounts' /\ GeneralTotal'
  BY <1>0, <1>10, <1>11 DEF GeneralCounts, GeneralTotal
<1>23. AlignMemory'
  BY <1>0, <1>9, MemoryFrame DEF AlignMemory
<1>24. QED
  BY <1>18, <1>19, <1>20, <1>21, <1>22, <1>23 DEF GeneralInv

\* general: the element is stored in the slot its thread drew.
LEMMA GeneralStore ==
    ASSUME GeneralInv, path = "general", NEW t \in Thread, Store(t)
    PROVE  GeneralInv'
<1>0. /\ AlignThreads /\ AlignInput /\ AlignMemory /\ Marks /\ Layout
      /\ GeneralCounts /\ GeneralOffsets /\ GeneralTotal /\ GeneralRanks
      /\ rank[t] # NoExpert /\ next' = [next EXCEPT ![t] = @ + stride] /\ rank' = [rank EXCEPT ![t] = NoExpert]
      /\ sorted_token_ids' = Put(sorted_token_ids, rank[t], next[t])
      /\ UNCHANGED <<inputVars, fillVars>> /\ UNCHANGED inputVars /\ stage' = stage /\ fill' = fill
      /\ counts' = counts /\ cumsum' = cumsum
      /\ expert_ids' = expert_ids /\ src_dst' = src_dst /\ total_tokens_post_pad' = total_tokens_post_pad
  BY DEF GeneralInv, AlignThreads, Store, fillVars
<1>1. stage[t] = 6 /\ Met(6) /\ Met(Gate(stage[t])) /\ next[t] \in Routed
  <2>1. stage[t] = 6 /\ next[t] \in Routed
    BY <1>0 DEF AlignThreads, RanksHeld
  <2>2. Begun(t, 6)
    BY <1>0, <2>1 DEF Begun
  <2>3. 6 \in 1 .. Len(Program)
    <3>1. Len(Program) = 8
      BY <1>0, Programs
    <3>2. QED
      BY <3>1
  <2>4. Met(Gate(6))
    BY <1>0, <2>2, <2>3 DEF AlignThreads, Barriers
  <2>5. Gate(6) = 6
    BY DEF Gate
  <2>6. QED
    BY <2>1, <2>4, <2>5
<1>2. PICK x \in Routed : x = next[t]
  BY <1>1
<1>3. PICK d \in Expert : d = expert_id(x) /\ x \in Live(d)
  BY <1>0, AlignRouting
<1>4. PICK q \in Drawn(d) : q = rank[t]
  BY <1>0, <1>2, <1>3 DEF GeneralRanks
<1>5. q \in Buffer
  <2>1. q \in Region(d)
    BY <1>0, GeneralSets
  <2>2. QED
    BY <1>0, <2>1, Regions
<1>6. /\ AlignThreads'
      /\ \A u \in Thread \ {t} : next'[u] = next[u] /\ rank'[u] = rank[u]
      /\ rank'[t] = NoExpert
      /\ \A s \in Nat : \A i \in Element :
            /\ Handled(s, i)' <=> Handled(s, i) \/ (stage[t] = s /\ i = next[t])
            /\ stage[t] = s /\ i = next[t] => ~ Handled(s, i) /\ i % stride = t
  BY <1>0, <1>1, MoveStep
<1>7. /\ Routed \subseteq Element /\ \A e : Live(e) \subseteq Routed
      /\ \A i \in Element : i % stride \in Thread
  <2>1. stride \in Nat \ {0} /\ Element \subseteq Nat
    BY <1>0, AlignSizes
  <2>2. \A i \in Element : i % stride \in Thread
    BY <2>1, Modulo DEF Thread
  <2>3. QED
    BY <1>0, <2>2, AlignRouting
<1>8. /\ \A i \in Routed : Handled(6, i)' <=> Handled(6, i) \/ i = x
      /\ \A i \in Routed : Handled(3, i)' <=> Handled(3, i)
      /\ ~ Handled(6, x) /\ x % stride = t
  <2>1. 3 \in Nat /\ 6 \in Nat /\ stage[t] # 3 /\ x \in Element
    BY <1>1, <1>7
  <2>2. QED
    BY <1>1, <1>2, <1>6, <1>7, <2>1
<1>9. /\ \A e : Live(e)' = Live(e) /\ due_before(e)' = due_before(e)
      /\ \A i : expert_id(i)' = expert_id(i)
      /\ n' = n /\ Thread' = Thread /\ Buffer' = Buffer /\ due_total' = due_total /\ adapter' = adapter
      /\ path' = path /\ stride' = stride /\ Routed' = Routed
  BY <1>0, LaunchFrame, RoutingFrame, DueFrame
<1>10. /\ \A e : Drew(e)' = Drew(e)
       /\ \A e : Tallied(e)' = Tallied(e)
  <2>1. ASSUME NEW e PROVE Drew(e)' = Drew(e)
    <3>1. Drew(e)' = {i \in Live(e) : Handled(6, i)' \/ (rank'[i % stride] # NoExpert /\ next'[i % stride] = i)}
      BY <1>9 DEF Drew
    <3>2. ASSUME NEW i \in Routed
          PROVE  Handled(6, i)' \/ (rank'[i % stride] # NoExpert /\ next'[i % stride] = i)
                   <=> Handled(6, i) \/ (rank[i % stride] # NoExpert /\ next[i % stride] = i)
      <4>1. PICK u \in Thread : u = i % stride
        BY <1>7
      <4>2. CASE u = t
        BY <1>0, <1>2, <1>6, <1>8, <4>1, <4>2
      <4>3. CASE u # t
        BY <1>6, <1>8, <4>1, <4>3
      <4>4. QED
        BY <4>2, <4>3
    <3>3. QED
      BY <1>7, <3>1, <3>2 DEF Drew
  <2>2. \A e : Tallied(e)' = Tallied(e)
    BY <1>7, <1>8, <1>9 DEF Tallied
  <2>3. QED
    BY <2>1, <2>2
<1>11. \A e : Drawn(e)' = Drawn(e)
  BY <1>9, <1>10 DEF Drawn
<1>12. x \notin Stored /\ Stored' = Stored \cup {x}
  BY <1>8, <1>9 DEF Stored
<1>13. \A i : Slots(i)' = Slots(i)
  BY <1>9, <1>11 DEF Slots
<1>14. \A k \in Buffer : Filled(k) /\ Filled(k)'
  <2>1. \A f \in Fill : fill[f]
    BY <1>1 DEF Met, FillMet
  <2>2. \A k \in Buffer : k % FillThreads \in Fill
    <3> SUFFICES ASSUME NEW k \in Buffer PROVE k % FillThreads \in Fill
      OBVIOUS
    <3>1. FillThreads \in Nat \ {0} /\ k \in Nat
      BY <1>0, AlignSizes DEF Buffer
    <3>2. QED
      BY <3>1, Modulo DEF Fill
  <2>3. QED
    BY <1>0, <1>9, <2>1, <2>2 DEF Filled
<1>15. sorted_token_ids[q] = n
  BY <1>0, <1>4, <1>5, <1>14 DEF GeneralRanks
<1>16. q \in Slots(x)'
  BY <1>3, <1>13 DEF Slots
<1>17. Layout' /\ sorted_token_ids' \in [Buffer -> Nat]
  <2>1. sorted_token_ids' = Put(sorted_token_ids, q, x)
    BY <1>0, <1>2, <1>4
  <2>2. \A i \in Routed : Slots(i) \subseteq Slots(i)'
    BY <1>13
  <2>3. QED
    BY <1>0, <1>5, <1>12, <1>14, <1>15, <1>16, <2>1, <2>2, LayoutPut
<1>18. Marks'
  BY <1>0, MarksFrame
<1>19. \A k \in Buffer : sorted_token_ids'[k] = IF k = q THEN x ELSE sorted_token_ids[k]
  <2>1. DOMAIN sorted_token_ids \cup {q} = Buffer
    BY <1>0, <1>5 DEF AlignMemory
  <2>2. sorted_token_ids' = [k \in Buffer |-> IF k = q THEN x ELSE sorted_token_ids[k]]
    BY <1>0, <1>2, <1>4, <2>1 DEF Put
  <2>3. QED
    BY <2>2
<1>20. GeneralRanks'
  <2>1. ASSUME NEW u \in Thread, rank'[u] # NoExpert
        PROVE  /\ \A e \in Expert : next'[u] \in Live(e) => rank'[u] \in Drawn(e)
               /\ \A v \in Thread : rank'[v] = rank'[u] => v = u
               /\ \A k \in Buffer : sorted_token_ids'[k] # n => k # rank'[u]
    <3>1. u # t /\ rank'[u] = rank[u] /\ next'[u] = next[u] /\ rank[u] # NoExpert
      BY <1>6, <2>1
    <3>2. /\ \A e \in Expert : next[u] \in Live(e) => rank[u] \in Drawn(e)
          /\ \A v \in Thread : rank[v] = rank[u] => v = u
          /\ \A k \in Buffer : sorted_token_ids[k] # n => k # rank[u]
      BY <1>0, <1>14, <3>1 DEF GeneralRanks
    <3>3. rank[u] # q
      BY <1>4, <3>1, <3>2
    <3>4. \A v \in Thread : rank'[v] = rank[u] => v = u
      BY <1>6, <3>1, <3>2
    <3>5. \A k \in Buffer : sorted_token_ids'[k] # n => k # rank[u]
      BY <1>19, <3>2, <3>3
    <3>6. QED
      BY <3>1, <3>2, <3>4, <3>5
  <2>2. QED
    BY <1>9, <1>11, <1>14, <2>1 DEF GeneralRanks
<1>21. GeneralCounts' /\ GeneralOffsets' /\ GeneralTotal'
  BY <1>0, <1>9, <1>10 DEF GeneralCounts, GeneralOffsets, GeneralTotal
<1>22. AlignMemory'
  BY <1>0, <1>17, MemoryFrame DEF AlignMemory
<1>23. QED
  BY <1>6, <1>17, <1>18, <1>20, <1>21, <1>22 DEF GeneralInv

\* general: the wrapper maps the ids.
LEMMA GeneralReturn ==
    ASSUME GeneralInv, path = "general", Return
    PROVE  GeneralInv'
<1>0. /\ AlignThreads /\ AlignInput /\ AlignMemory /\ Marks /\ Layout
      /\ GeneralCounts /\ GeneralOffsets /\ GeneralTotal /\ GeneralRanks
      /\ UNCHANGED <<inputVars, fillVars>> /\ UNCHANGED inputVars /\ UNCHANGED <<inputVars, fill>>
      /\ next' = next /\ rank' = rank
      /\ counts' = counts /\ cumsum' = cumsum /\ sorted_token_ids' = sorted_token_ids
      /\ src_dst' = src_dst /\ total_tokens_post_pad' = total_tokens_post_pad
  BY DEF GeneralInv, AlignThreads, Return, fillVars
<1>1. /\ AlignThreads' /\ Len(Program) = 8
      /\ \A u \in Thread : stage[u] = 7 /\ stage'[u] = 8
      /\ \A i \in Element : (Handled(3, i)' <=> Handled(3, i)) /\ (Handled(6, i)' <=> Handled(6, i))
  <2>1. Len(Program) = 8
    BY <1>0, Programs
  <2>2. 3 \in 1 .. Len(Program) - 2 /\ 6 \in 1 .. Len(Program) - 2
    BY <2>1
  <2>3. /\ AlignThreads'
        /\ \A u \in Thread : stage[u] = Len(Program) - 1 /\ stage'[u] = Len(Program)
        /\ \A s \in 1 .. Len(Program) - 2 : \A i \in Element : Handled(s, i) /\ Handled(s, i)'
    BY <1>0, ReturnStep
  <2>4. QED
    BY <2>1, <2>2, <2>3
<1>2. /\ \A e : Drew(e)' = Drew(e) /\ Drawn(e)' = Drawn(e) /\ Tallied(e)' = Tallied(e)
      /\ Stored' = Stored /\ \A j : Slots(j)' = Slots(j)
      /\ \A k : Filled(k)' <=> Filled(k)
  <2>1. \A i \in Routed : (Handled(3, i)' <=> Handled(3, i)) /\ (Handled(6, i)' <=> Handled(6, i))
    BY <1>0, <1>1, AlignRouting
  <2>2. QED
    BY <1>0, <2>1, GeneralSame
<1>3. /\ \A e : Live(e)' = Live(e) /\ due_before(e)' = due_before(e)
      /\ n' = n /\ Thread' = Thread /\ Buffer' = Buffer /\ due_total' = due_total /\ adapter' = adapter
  BY <1>0, LaunchFrame, RoutingFrame, DueFrame
<1>4. Layout'
  BY <1>0, <1>2, LayoutFrame
<1>5. Marks' /\ expert_ids' \in [Block -> Expert \cup {NoExpert, Garbage}]
  BY <1>0, MarksReturn
<1>6. GeneralRanks'
  BY <1>0, <1>2, <1>3 DEF GeneralRanks
<1>7. /\ num_experts \in Thread /\ Expert \subseteq Thread /\ 0 .. num_experts \subseteq Thread
  <2>1. stride = num_experts + 1 /\ num_experts \in Nat \ {0}
    BY <1>0, AlignSizes
  <2>2. 0 .. num_experts \subseteq Thread /\ num_experts \in Thread
    BY <2>1 DEF Thread
  <2>3. QED
    BY <1>0, <2>2, AlignSizes
<1>8. GeneralCounts' /\ GeneralOffsets' /\ GeneralTotal'
  <2>1. \A u \in Thread : stage[u] > 2 /\ stage[u] > 4
    BY <1>1
  <2>2. GeneralCounts'
    BY <1>0, <1>2, <1>7, <2>1 DEF GeneralCounts
  <2>3. GeneralOffsets'
    BY <1>0, <1>2, <1>3, <1>7, <2>1 DEF GeneralOffsets
  <2>4. GeneralTotal'
    BY <1>0, <1>3, <1>7, <2>1 DEF GeneralTotal
  <2>5. QED
    BY <2>2, <2>3, <2>4
<1>9. AlignMemory'
  BY <1>0, <1>5, MemoryFrame DEF AlignMemory
<1>10. QED
  BY <1>1, <1>4, <1>5, <1>6, <1>8, <1>9 DEF GeneralInv

----------------------------------------------------------------------------
(* The steps all three paths share *)

\* A strided loop goes over the numbers of its remainder.
LEMMA StridedIs ==
    ASSUME NEW step \in Nat \ {0}, NEW f \in 0 .. step - 1, NEW bound \in Nat
    PROVE  \A k : k \in Strided(f, step, bound) <=> k \in 0 .. bound - 1 /\ k % step = f
<1>1. ASSUME NEW k \in Nat PROVE (k >= f /\ (k - f) % step = 0) <=> k % step = f
  <2>1. PICK q \in Nat, r \in 0 .. step - 1 : r = k % step /\ k = step * q + r
    BY DivMod
  <2>2. step * q = q * step /\ q * step \in Nat
    BY <2>1
  <2>3. ASSUME r = f PROVE k >= f /\ (k - f) % step = 0
    <3>1. k >= f /\ k - f = q * step
      BY <2>1, <2>2, <2>3
    <3>2. (q * step) % step = 0
      BY <2>1, InBlock
    <3>3. QED
      BY <3>1, <3>2
  <2>4. ASSUME k >= f, (k - f) % step = 0 PROVE r = f
    <3>1. k - f \in Nat
      BY <2>4
    <3>2. PICK m \in Nat, s \in 0 .. step - 1 : s = (k - f) % step /\ k - f = step * m + s
      <4>1. PICK x \in Nat : x = k - f
        BY <3>1
      <4>2. PICK m \in Nat, s \in 0 .. step - 1 : s = x % step /\ x = step * m + s
        BY Divide
      <4>3. QED
        BY <4>1, <4>2
    <3>3. step * m = m * step /\ m * step \in Nat
      BY <3>2
    <3>4. q * step + r = m * step + f
      BY <2>1, <2>2, <2>4, <3>2, <3>3
    <3>5. q < m => q * step + step <= m * step
      BY <2>1, <3>2, Scale
    <3>6. m < q => m * step + step <= q * step
      BY <2>1, <3>2, Scale
    <3>7. q = m => q * step = m * step
      OBVIOUS
    <3>8. PICK y \in Nat, z \in Nat : y = q * step /\ z = m * step
      BY <2>2, <3>3
    <3>9. y + r = z + f /\ (q < m => y + step <= z) /\ (m < q => z + step <= y) /\ (q = m => y = z)
      BY <3>4, <3>5, <3>6, <3>7, <3>8
    <3>10. q < m \/ q = m \/ m < q
      BY <2>1, <3>2
    <3>11. QED
      BY <2>1, <3>9, <3>10
  <2>5. QED
    BY <2>1, <2>3, <2>4
<1>2. QED
  BY <1>1 DEF Strided

\* A fill thread fills slots of its own that nothing else has used.
LEMMA FillSlotsStep ==
    ASSUME AlignThreads, AlignMemory, Layout, Marks, NEW f \in Fill, FillSlots(f)
    PROVE  /\ AlignThreads' /\ Layout' /\ Marks'
           /\ \A s, i : Handled(s, i)' <=> Handled(s, i)
           /\ \A e : Drew(e)' = Drew(e) /\ Drawn(e)' = Drawn(e)
           /\ sorted_token_ids' \in [Buffer -> Nat]
           /\ \A k \in Buffer : Filled(k)' /\ sorted_token_ids'[k] # n =>
                 Filled(k) /\ sorted_token_ids'[k] = sorted_token_ids[k]
<1> DEFINE C == Strided(f, FillThreads, max_num_tokens_padded)
<1>0. /\ AlignInput /\ path \in {"general", "small"} /\ ~ fill[f] /\ fill \in [Fill -> BOOLEAN]
      /\ fill' = [fill EXCEPT ![f] = TRUE] /\ fill_reset' = fill_reset
      /\ sorted_token_ids' = Overwrite(sorted_token_ids, C, n)
      /\ UNCHANGED inputVars /\ UNCHANGED <<inputVars, threadVars>>
      /\ stage' = stage /\ next' = next /\ rank' = rank /\ expert_ids' = expert_ids
  BY DEF AlignThreads, FillSlots, threadVars
<1>1. fill' \in [Fill -> BOOLEAN] /\ fill'[f] /\ \A g \in Fill : g # f => fill'[g] = fill[g]
  BY <1>0
<1>2. AlignThreads' /\ \A s, i : Handled(s, i)' <=> Handled(s, i)
  <2>1. \A g \in Fill : fill[g] => fill'[g]
    BY <1>0, <1>1
  <2>2. QED
    BY <1>0, <1>1, <2>1, FillStep
<1>3. /\ path' = path /\ stride' = stride /\ Routed' = Routed /\ \A e : Live(e)' = Live(e)
      /\ \A i : expert_id(i)' = expert_id(i) /\ \A e : due_before(e)' = due_before(e)
  BY <1>0, LaunchFrame, RoutingFrame, DueFrame
<1>4. \A e : Drew(e)' = Drew(e)
  BY <1>0, <1>2, <1>3 DEF Drew
<1>5. \A e : Drawn(e)' = Drawn(e)
  BY <1>3, <1>4 DEF Drawn
<1>6. Stored' = Stored
  <2>1. Stored = IF path = "general" THEN {i \in Routed : Handled(6, i)} ELSE {i \in Routed : Handled(7, i)}
    BY <1>0 DEF Stored
  <2>2. Stored' = IF path = "general" THEN {i \in Routed : Handled(6, i)'} ELSE {i \in Routed : Handled(7, i)'}
    BY <1>0, <1>3 DEF Stored
  <2>3. QED
    BY <1>2, <2>1, <2>2
<1>7. \A i : home(i)' = home(i)
  <2>1. \A i : Before(i)' = Before(i)
    BY <1>3 DEF Before
  <2>2. QED
    BY <1>0, <1>3, <2>1 DEF home
<1>8. \A i : Slots(i)' = Slots(i)
  BY <1>3, <1>5, <1>7 DEF Slots
<1>9. /\ C \subseteq Buffer
      /\ \A k \in Buffer : k \in C <=> k % FillThreads = f
      /\ \A k \in Buffer : k % FillThreads \in Fill
  <2>1. FillThreads \in Nat \ {0} /\ max_num_tokens_padded \in Nat
    BY <1>0, AlignSizes
  <2>2. f \in 0 .. FillThreads - 1
    BY DEF Fill
  <2>3. \A k : k \in C <=> k \in Buffer /\ k % FillThreads = f
    BY <2>1, <2>2, StridedIs DEF Buffer
  <2>4. \A k \in Buffer : k % FillThreads \in Fill
    <3> SUFFICES ASSUME NEW k \in Buffer PROVE k % FillThreads \in Fill
      OBVIOUS
    <3>1. k \in Nat
      BY <2>1 DEF Buffer
    <3>2. QED
      BY <2>1, <3>1, Modulo DEF Fill
  <2>5. QED
    BY <2>3, <2>4
<1> HIDE DEF C
<1>10. \A k \in Buffer : Filled(k)' <=> Filled(k) \/ k \in C
  <2>1. \A k : Filled(k) = fill[k % FillThreads] /\ Filled(k)' = fill'[k % FillThreads]
    BY <1>0, <1>3 DEF Filled
  <2>2. QED
    BY <1>1, <1>9, <2>1
<1>11. \A k \in C : ~ Filled(k)
  BY <1>0, <1>9 DEF Filled
<1>12. Layout' /\ sorted_token_ids' \in [Buffer -> Nat]
  <2>1. \A i \in Routed : Slots(i) \subseteq Slots(i)'
    BY <1>8
  <2>2. QED
    BY <1>0, <1>6, <1>9, <1>10, <1>11, <2>1, LayoutClear
<1>13. \A k \in Buffer : Filled(k)' /\ sorted_token_ids'[k] # n =>
          Filled(k) /\ sorted_token_ids'[k] = sorted_token_ids[k]
  <2>1. DOMAIN sorted_token_ids \cup C = Buffer
    BY <1>9 DEF AlignMemory
  <2>2. sorted_token_ids' = [k \in Buffer |-> IF k \in C THEN n ELSE sorted_token_ids[k]]
    BY <1>0, <2>1 DEF Overwrite
  <2>3. QED
    BY <1>10, <2>2
<1>14. Marks'
  BY <1>0, MarksFrame
<1>15. QED
  BY <1>2, <1>4, <1>5, <1>12, <1>13, <1>14

\* general: a fill thread writes padding before anything is placed.
LEMMA GeneralFill ==
    ASSUME GeneralInv, path = "general", NEW f \in Fill, FillSlots(f)
    PROVE  GeneralInv'
<1>0. /\ AlignThreads /\ AlignInput /\ AlignMemory /\ Marks /\ Layout
      /\ GeneralCounts /\ GeneralOffsets /\ GeneralTotal /\ GeneralRanks
      /\ UNCHANGED inputVars /\ stage' = stage /\ next' = next /\ rank' = rank
      /\ counts' = counts /\ cumsum' = cumsum /\ expert_ids' = expert_ids
      /\ src_dst' = src_dst /\ total_tokens_post_pad' = total_tokens_post_pad
  BY DEF GeneralInv, AlignThreads, FillSlots, threadVars
<1>1. /\ AlignThreads' /\ Layout' /\ Marks'
      /\ \A s, i : Handled(s, i)' <=> Handled(s, i)
      /\ \A e : Drew(e)' = Drew(e) /\ Drawn(e)' = Drawn(e)
      /\ sorted_token_ids' \in [Buffer -> Nat]
      /\ \A k \in Buffer : Filled(k)' /\ sorted_token_ids'[k] # n =>
            Filled(k) /\ sorted_token_ids'[k] = sorted_token_ids[k]
  BY <1>0, FillSlotsStep
<1>2. /\ \A e : Live(e)' = Live(e) /\ due_before(e)' = due_before(e)
      /\ n' = n /\ Thread' = Thread /\ Buffer' = Buffer /\ due_total' = due_total /\ adapter' = adapter
  BY <1>0, LaunchFrame, RoutingFrame, DueFrame
<1>3. \A e : Tallied(e)' = Tallied(e)
  BY <1>1, <1>2 DEF Tallied
<1>4. GeneralRanks'
  BY <1>0, <1>1, <1>2 DEF GeneralRanks
<1>5. GeneralCounts' /\ GeneralOffsets' /\ GeneralTotal'
  BY <1>0, <1>1, <1>2, <1>3 DEF GeneralCounts, GeneralOffsets, GeneralTotal
<1>6. AlignMemory'
  BY <1>0, <1>1, MemoryFrame DEF AlignMemory
<1>7. QED
  BY <1>1, <1>4, <1>5, <1>6 DEF GeneralInv

\* The fill block may reset the total, and a step may change nothing.
LEMMA GeneralIdle ==
    ASSUME GeneralInv, path = "general", UNCHANGED <<inputVars, threadVars, fill>>,
           UNCHANGED <<counts, cumsum, sorted_token_ids, expert_ids, src_dst>>,
           fill_reset' = fill_reset \/ fill_reset' = FALSE,
           \/ total_tokens_post_pad' = total_tokens_post_pad
           \/ adapter = "enabled" /\ total_tokens_post_pad' = 0
    PROVE  GeneralInv'
<1>0. /\ AlignThreads /\ AlignInput /\ AlignMemory /\ Marks /\ Layout
      /\ GeneralCounts /\ GeneralOffsets /\ GeneralTotal /\ GeneralRanks
      /\ UNCHANGED inputVars /\ UNCHANGED <<inputVars, threadVars>> /\ UNCHANGED <<inputVars, fill>>
      /\ stage' = stage /\ next' = next /\ rank' = rank /\ fill' = fill
      /\ counts' = counts /\ cumsum' = cumsum /\ sorted_token_ids' = sorted_token_ids
      /\ expert_ids' = expert_ids /\ src_dst' = src_dst
  BY DEF GeneralInv, AlignThreads, threadVars
<1>1. AlignThreads' /\ \A s, i : Handled(s, i)' <=> Handled(s, i)
  <2>1. fill' \in [Fill -> BOOLEAN] /\ \A f \in Fill : fill[f] => fill'[f]
    BY <1>0 DEF AlignThreads
  <2>2. QED
    BY <1>0, <2>1, FillStep
<1>2. /\ \A e : Drew(e)' = Drew(e) /\ Drawn(e)' = Drawn(e) /\ Tallied(e)' = Tallied(e)
      /\ Stored' = Stored /\ \A j : Slots(j)' = Slots(j)
      /\ \A k : Filled(k)' <=> Filled(k)
  BY <1>0, <1>1, GeneralSame
<1>3. /\ \A e : Live(e)' = Live(e) /\ due_before(e)' = due_before(e)
      /\ n' = n /\ Thread' = Thread /\ Buffer' = Buffer /\ due_total' = due_total /\ adapter' = adapter
  BY <1>0, LaunchFrame, RoutingFrame, DueFrame
<1>4. Layout' /\ Marks'
  <2>1. Layout'
    BY <1>0, <1>2, LayoutFrame
  <2>2. Marks'
    BY <1>0, MarksFrame
  <2>3. QED
    BY <2>1, <2>2
<1>5. GeneralRanks'
  BY <1>0, <1>2, <1>3 DEF GeneralRanks
<1>6. GeneralCounts' /\ GeneralOffsets'
  BY <1>0, <1>2, <1>3 DEF GeneralCounts, GeneralOffsets
<1>7. GeneralTotal'
  BY <1>0, <1>3 DEF GeneralTotal
<1>8. AlignMemory'
  <2>1. total_tokens_post_pad' \in Nat
    BY <1>0 DEF AlignMemory
  <2>2. QED
    BY <1>0, <2>1, MemoryFrame DEF AlignMemory
<1>9. QED
  BY <1>1, <1>4, <1>5, <1>6, <1>7, <1>8 DEF GeneralInv

\* general: the launch.
LEMMA GeneralInit == Init => (path = "general" => GeneralInv)
<1> SUFFICES ASSUME Init, path = "general" PROVE GeneralInv
  OBVIOUS
<1>1. AlignThreads /\ AlignMemory /\ Marks /\ Layout /\ \A t \in Thread : stage[t] = 1 /\ rank[t] = NoExpert
  <2>1. /\ AlignThreads /\ AlignMemory /\ Marks /\ Layout
        /\ \A t \in Thread : stage[t] = 1
    BY AlignStart
  <2>2. \A t \in Thread : rank[t] = NoExpert
    BY <2>1 DEF AlignThreads, RanksHeld
  <2>3. QED
    BY <2>1, <2>2
<1>2. /\ num_experts \in Thread /\ Expert \subseteq Thread /\ 0 .. num_experts \subseteq Thread
  <2>1. AlignInput
    BY <1>1 DEF AlignThreads
  <2>2. stride = num_experts + 1 /\ num_experts \in Nat \ {0}
    BY <2>1, AlignSizes
  <2>3. 0 .. num_experts \subseteq Thread /\ num_experts \in Thread
    BY <2>2 DEF Thread
  <2>4. QED
    BY <2>1, <2>3, AlignSizes
<1>3. GeneralCounts /\ GeneralOffsets /\ GeneralTotal /\ GeneralRanks
  BY <1>1, <1>2 DEF GeneralCounts, GeneralOffsets, GeneralTotal, GeneralRanks
<1>4. QED
  BY <1>1, <1>3 DEF GeneralInv

\* general: every step.
LEMMA GeneralNext == (path = "general" => GeneralInv) /\ [Next]_vars => (path = "general" => GeneralInv)'
<1> SUFFICES ASSUME path = "general" => GeneralInv, [Next]_vars, path' = "general" PROVE GeneralInv'
  OBVIOUS
<1>1. path = "general" /\ GeneralInv
  <2>1. UNCHANGED path
    BY PathKept
  <2>2. QED
    BY <2>1
<1>2. CASE UNCHANGED vars
  <2>1. /\ UNCHANGED <<inputVars, threadVars, fill>> /\ fill_reset' = fill_reset
        /\ UNCHANGED <<counts, cumsum, sorted_token_ids, expert_ids, src_dst>>
        /\ total_tokens_post_pad' = total_tokens_post_pad
    BY <1>2 DEF vars, fillVars, outputVars
  <2>2. QED
    BY <1>1, <2>1, GeneralIdle
<1>3. CASE FillReset
  <2>1. /\ UNCHANGED <<inputVars, threadVars, fill>> /\ fill_reset' = FALSE
        /\ UNCHANGED <<counts, cumsum, sorted_token_ids, expert_ids, src_dst>>
        /\ adapter = "enabled" /\ total_tokens_post_pad' = 0
    BY <1>1, <1>3 DEF FillReset, GeneralInv, AlignThreads
  <2>2. QED
    BY <1>1, <2>1, GeneralIdle
<1>4. CASE \E f \in Fill : FillSlots(f)
  BY <1>1, <1>4, GeneralFill
<1>5. CASE Return
  BY <1>1, <1>5, GeneralReturn
<1>6. CASE Returned /\ UNCHANGED vars
  BY <1>2, <1>6
<1>7. ASSUME NEW t \in Thread,
             \/ Reset(t) \/ Clear(t) \/ Zero(t) \/ Count(t) \/ CountPast(t) \/ EndLoop(t) \/ Prefix(t)
             \/ Scan(t) \/ ExpertIds(t)
             \/ Skip(t) \/ TakeRank(t) \/ Store(t) \/ PlaceFromRow(t) \/ PlacePast(t) \/ PlaceBatch(t)
      PROVE  GeneralInv'
  <2>1. ~ Clear(t) /\ ~ Prefix(t)
    <3>1. AlignThreads
      BY <1>1 DEF GeneralInv
    <3>2. label(t) # "clear" /\ label(t) # "prefix"
      <4>1. /\ stage[t] \in 1 .. 8
            /\ label(t) = CASE stage[t] = 1 -> "reset" [] stage[t] = 2 -> "zero" [] stage[t] = 3 -> "count"
                            [] stage[t] = 4 -> "scan" [] stage[t] = 5 -> "ids" [] stage[t] = 6 -> "place"
                            [] stage[t] = 7 -> "return" [] stage[t] = 8 -> "done"
        BY <1>1, <3>1, GeneralAt
      <4>2. \/ stage[t] = 1 \/ stage[t] = 2 \/ stage[t] = 3 \/ stage[t] = 4 \/ stage[t] = 5
            \/ stage[t] = 6 \/ stage[t] = 7 \/ stage[t] = 8
        BY <4>1
      <4>3. QED
        BY <4>1, <4>2
    <3>3. QED
      BY <3>2 DEF Clear, Prefix, At
  <2>2. ~ PlaceFromRow(t) /\ ~ PlaceBatch(t) /\ ~ CountPast(t) /\ ~ PlacePast(t)
    BY <1>1, PastIsSmall DEF PlaceFromRow, PlaceBatch
  <2>3. QED
    BY <1>1, <1>7, <2>1, <2>2, GeneralReset, GeneralZero, GeneralCount, GeneralEndLoop, GeneralScan,
       GeneralIds, GeneralSkip, GeneralTakeRank, GeneralStore
<1>8. QED
  BY <1>2, <1>3, <1>4, <1>5, <1>6, <1>7 DEF Next

\* What an invariant of a path gives: the types.
LEMMA AlignTypes ==
    ASSUME AlignThreads, AlignMemory
    PROVE  TypeOK
  BY DEF AlignThreads, AlignInput, AlignMemory, TypeOK, Buffer, Block

\* general: what the invariant says of the types and of the result.
LEMMA GeneralResult ==
    ASSUME GeneralInv, path = "general"
    PROVE  TypeOK /\ BlocksGroupByExpert
<1>0. AlignThreads /\ AlignInput /\ AlignMemory /\ Layout /\ Marks /\ GeneralTotal
  BY DEF GeneralInv, AlignThreads
<1>1. TypeOK
  BY <1>0, AlignTypes
<1>2. ASSUME Returned PROVE BlocksGroupByExpert
  <2>1. 0 \in Thread /\ num_experts \in Thread /\ stride \in Nat \ {0} /\ Element \subseteq Nat
    <3>1. stride = num_experts + 1 /\ num_experts \in Nat \ {0} /\ stride \in Nat \ {0} /\ Element \subseteq Nat
      BY <1>0, AlignSizes
    <3>2. QED
      BY <3>1 DEF Thread
  <2>2. \A t \in Thread : stage[t] = 8
    <3> SUFFICES ASSUME NEW t \in Thread PROVE stage[t] = 8
      OBVIOUS
    <3>1. /\ stage[t] \in 1 .. 8
          /\ label(t) = CASE stage[t] = 1 -> "reset" [] stage[t] = 2 -> "zero" [] stage[t] = 3 -> "count"
                          [] stage[t] = 4 -> "scan" [] stage[t] = 5 -> "ids" [] stage[t] = 6 -> "place"
                          [] stage[t] = 7 -> "return" [] stage[t] = 8 -> "done"
      BY <1>0, GeneralAt
    <3>2. \/ stage[t] = 1 \/ stage[t] = 2 \/ stage[t] = 3 \/ stage[t] = 4 \/ stage[t] = 5
          \/ stage[t] = 6 \/ stage[t] = 7 \/ stage[t] = 8
      BY <3>1
    <3>3. label(t) = "done"
      BY <1>2 DEF Returned
    <3>4. QED
      BY <3>1, <3>2, <3>3
  <2>3. \A i \in Element : i % stride \in Thread
    BY <2>1, Modulo DEF Thread
  <2>4. Stored = Routed
    <3>1. \A i \in Routed : Handled(6, i)
      <4>1. \A i \in Routed : stage[i % stride] > 6
        BY <1>0, <2>2, <2>3, AlignRouting
      <4>2. QED
        BY <4>1 DEF Handled
    <3>2. QED
      BY <3>1 DEF Stored
  <2>5. \A k \in Buffer : Filled(k)
    <3>1. Met(7)
      <4>1. Begun(0, 7)
        BY <2>1, <2>2 DEF Begun
      <4>2. Len(Program) = 8
        BY <1>0, Programs
      <4>3. 7 \in 1 .. Len(Program)
        BY <4>2
      <4>4. Met(Gate(7))
        BY <1>0, <2>1, <4>1, <4>3 DEF AlignThreads, Barriers
      <4>5. Gate(7) = 7
        BY DEF Gate
      <4>6. QED
        BY <4>4, <4>5
    <3>2. \A f \in Fill : fill[f]
      BY <3>1 DEF Met, FillMet
    <3>3. ASSUME NEW k \in Buffer PROVE k % FillThreads \in Fill
      <4>1. FillThreads \in Nat \ {0} /\ k \in Nat
        BY <1>0, AlignSizes DEF Buffer
      <4>2. QED
        BY <4>1, Modulo DEF Fill
    <3>4. QED
      BY <3>2, <3>3 DEF Filled
  <2>6. \A i \in Routed : Slots(i) \subseteq Region(expert_id(i))
    <3> SUFFICES ASSUME NEW i \in Routed PROVE Slots(i) \subseteq Region(expert_id(i))
      OBVIOUS
    <3>1. PICK e \in Expert : e = expert_id(i)
      BY <1>0, AlignRouting
    <3>2. Drawn(e) \subseteq Region(e)
      BY <1>0, GeneralSets
    <3>3. QED
      BY <3>1, <3>2 DEF Slots
  <2>7. \/ total_tokens_post_pad = due_total
        \/ path = "general" /\ adapter = "enabled" /\ total_tokens_post_pad = 0
    BY <1>0, <2>1, <2>2 DEF GeneralTotal
  <2>8. stage \in [Thread -> 1 .. Len(Program)] /\ sorted_token_ids \in [Buffer -> Nat]
    BY <1>0 DEF AlignThreads, AlignMemory
  <2>9. QED
    BY <1>0, <1>2, <2>4, <2>5, <2>6, <2>7, <2>8, AlignReturned
<1>3. QED
  BY <1>1, <1>2 DEF BlocksGroupByExpert

----------------------------------------------------------------------------
(* The batched path *)

BatchedInv ==
    /\ AlignThreads /\ AlignMemory /\ Marks /\ Layout
    /\ stage[num_experts - 1] > 2 => total_tokens_post_pad = due_total

\* Before a thread has come to the barrier of a stage, no other has begun it.
LEMMA NotYet ==
    ASSUME AlignThreads, NEW t \in Thread, NEW s \in 1 .. Len(Program), stage[t] < Gate(s)
    PROVE  \A u \in Thread : ~ Begun(u, s) /\ ~ (stage[u] > s)
<1>1. ASSUME NEW u \in Thread, Begun(u, s) PROVE FALSE
  <2>1. Met(Gate(s))
    BY <1>1 DEF AlignThreads, Barriers
  <2>2. stage[t] >= Gate(s)
    BY <2>1 DEF Met
  <2>3. stage[t] \in Int
    <3>1. Len(Program) \in Nat
      BY Programs DEF AlignThreads, AlignInput
    <3>2. QED
      BY <3>1 DEF AlignThreads
  <2>4. Gate(s) \in Int
    <3>1. Gate(s) \in {s - 1, 2, s}
      BY DEF Gate
    <3>2. Len(Program) \in Nat
      BY Programs DEF AlignThreads, AlignInput
    <3>3. s \in Int /\ s - 1 \in Int
      BY <3>2
    <3>4. QED
      BY <3>1, <3>3
  <2>5. PICK x \in Int, y \in Int : x = stage[t] /\ y = Gate(s)
    BY <2>3, <2>4
  <2>6. QED
    BY <2>2, <2>5
<1>2. QED
  BY <1>1 DEF Begun

\* What a batched thread knows when it runs a stage.
LEMMA BatchedAt ==
    ASSUME AlignThreads, path = "batched", NEW t \in Thread
    PROVE  /\ stage[t] \in 1 .. 6 /\ t \in 0 .. num_experts /\ Len(Program) = 6
           /\ rank[t] = NoExpert
           /\ \A l : At(t, l) => label(t) = l /\ Met(Gate(stage[t]))
           /\ label(t) = CASE stage[t] = 1 -> "clear" [] stage[t] = 2 -> "scan" [] stage[t] = 3 -> "place"
                           [] stage[t] = 4 -> "ids" [] stage[t] = 5 -> "return" [] stage[t] = 6 -> "done"
<1>1. AlignInput /\ stage[t] \in 1 .. Len(Program)
  BY DEF AlignThreads
<1>2. /\ Len(Program) = 6
      /\ Program[1][1] = "clear" /\ Program[2][1] = "scan" /\ Program[3][1] = "place"
      /\ Program[4][1] = "ids" /\ Program[5][1] = "return" /\ Program[6][1] = "done"
  BY <1>1, Programs
<1>3. stage[t] \in 1 .. 6
  BY <1>1, <1>2
<1>4. \/ stage[t] = 1 \/ stage[t] = 2 \/ stage[t] = 3 \/ stage[t] = 4 \/ stage[t] = 5 \/ stage[t] = 6
  BY <1>3
<1>5. label(t) = CASE stage[t] = 1 -> "clear" [] stage[t] = 2 -> "scan" [] stage[t] = 3 -> "place"
                   [] stage[t] = 4 -> "ids" [] stage[t] = 5 -> "return" [] stage[t] = 6 -> "done"
  BY <1>2, <1>4 DEF label
<1>6. \A l : At(t, l) => label(t) = l /\ Met(Gate(stage[t]))
  BY <1>1, AtGate
<1>7. t \in 0 .. num_experts
  <2>1. stride = num_experts + 1 /\ num_experts \in Nat \ {0}
    BY <1>1, AlignSizes
  <2>2. QED
    BY <2>1 DEF Thread
<1>8. rank[t] = NoExpert
  BY DEF AlignThreads, RanksHeld
<1>9. QED
  BY <1>2, <1>3, <1>5, <1>6, <1>7, <1>8

\* The elements of a batch are its first ones.
LEMMA BatchedRouting ==
    ASSUME AlignInput, path = "batched"
    PROVE  /\ \A e \in Expert : /\ Live(e) = {i \in Element : topk_ids[i] = e}
                                /\ \E s \in Nat, first \in Nat :
                                     /\ first = e * max_tokens_per_batch
                                     /\ Live(e) = first .. first + s - 1 /\ Cardinality(Live(e)) = s
                                     /\ \A i \in Live(e) : /\ i \div max_tokens_per_batch = e
                                                           /\ i % max_tokens_per_batch = i - first
           /\ \A i \in Routed : i \div max_tokens_per_batch \in Expert /\ expert_id(i) = i \div max_tokens_per_batch
           /\ \A e \in Expert : padded(e) = due(e)
           /\ \A e : first_slot(e) = due_before(e)
<1>1. PICK m \in Nat \ {0}, N \in Nat \ {0} :
         m = max_tokens_per_batch /\ N = num_experts /\ n = N * m /\ Expert = 0 .. N - 1 /\ NoExpert \notin Expert
  <2>1. max_tokens_per_batch \in Nat \ {0} /\ num_experts \in Nat \ {0} /\ NoExpert \notin Expert
    BY AlignSizes
  <2>2. n = num_experts * max_tokens_per_batch
    BY DEF n
  <2>3. QED
    BY <2>1, <2>2 DEF Expert
<1>2. PICK size \in [Expert -> 0 .. m] :
         topk_ids = [i \in Element |-> LET b == i \div m IN IF i % m < size[b] THEN b ELSE NoExpert]
  BY <1>1 DEF AlignInput
<1>3. \A i \in Element : i \in Nat /\ i \div m \in Expert /\ i % m \in Nat /\ i = m * (i \div m) + (i % m)
  <2> SUFFICES ASSUME NEW i \in Element
               PROVE  i \in Nat /\ i \div m \in Expert /\ i % m \in Nat /\ i = m * (i \div m) + (i % m)
    OBVIOUS
  <2>1. N * m \in Nat /\ n = N * m
    BY <1>1
  <2>2. i \in Nat /\ i < N * m
    BY <2>1 DEF Element
  <2>3. i \div m \in Nat /\ i \div m < N
    BY <1>1, <2>2, InBlock
  <2>4. i % m \in Nat /\ i = m * (i \div m) + (i % m)
    BY <2>2, DivMod
  <2>5. QED
    BY <1>1, <2>2, <2>3, <2>4
<1>4. \A i \in Element : topk_ids[i] = IF i % m < size[i \div m] THEN i \div m ELSE NoExpert
  BY <1>2
<1>5. kernel_map = NoMap /\ \A i : token_mask(i)
  <2>1. expert_map = NoMap
    BY DEF AlignInput
  <2>2. adapter = "none"
    <3>1. <<path, adapter>> \in {"general", "small"} \X {"none", "enabled"}
                                  \cup {<<"batched", "none">>, <<"index", "none">>}
      BY MoeAssumption DEF AlignInput
    <3>2. QED
      BY <3>1
  <2>3. QED
    BY <2>1, <2>2 DEF kernel_map, token_mask
<1>6. \A i \in Element : expert_id(i) = topk_ids[i]
  BY <1>1, <1>3, <1>4, <1>5 DEF expert_id
<1>7. \A i \in Routed : i \div m \in Expert /\ expert_id(i) = i \div m
  <2>1. \A i \in Routed : i \in Element /\ expert_id(i) # NoExpert
    BY DEF Routed
  <2>2. QED
    BY <1>3, <1>4, <1>6, <2>1
<1>8. \A e \in Expert : \A i : i \in Live(e) <=> i \in Element /\ topk_ids[i] = e
  BY <1>1, <1>5, <1>6 DEF Live, Routed
<1>9. \A e \in Expert : Live(e) = {i \in Element : topk_ids[i] = e}
  BY <1>8
<1>10. ASSUME NEW e \in Expert
       PROVE  \E s \in Nat, first \in Nat :
                 /\ first = e * m
                 /\ Live(e) = first .. first + s - 1 /\ Cardinality(Live(e)) = s
                 /\ \A i \in Live(e) : i \div m = e /\ i % m = i - first
  <2>1. e \in Nat /\ e < N /\ e + 1 \in Nat
    BY <1>1
  <2>2. PICK s \in Nat : s = size[e] /\ s <= m
    BY <1>1, <1>2
  <2>3. PICK first \in Nat : first = e * m /\ first = m * e /\ (e + 1) * m = first + m
    <3>1. e * m \in Nat /\ e * m = m * e /\ (e + 1) * m = e * m + m
      BY <2>1
    <3>2. QED
      BY <3>1
  <2>4. \A i \in Element : i \div m = e => i % m = i - first
    <3> SUFFICES ASSUME NEW i \in Element, i \div m = e PROVE i % m = i - first
      OBVIOUS
    <3>1. i \in Nat /\ i % m \in Nat /\ i = m * e + (i % m)
      BY <1>3
    <3>2. PICK r \in Nat : r = i % m /\ i = first + r
      BY <2>3, <3>1
    <3>3. i - first = r
      BY <3>2
    <3>4. QED
      BY <3>2, <3>3
  <2>5. \A i \in Live(e) : i \in Element /\ i \div m = e /\ i % m < s
    <3> SUFFICES ASSUME NEW i \in Live(e) PROVE i \in Element /\ i \div m = e /\ i % m < s
      OBVIOUS
    <3>1. i \in Element /\ topk_ids[i] = e /\ e # NoExpert
      BY <1>1, <1>8
    <3>2. QED
      BY <1>4, <2>2, <3>1
  <2>6. \A i \in Live(e) : i \in first .. first + s - 1
    <3> SUFFICES ASSUME NEW i \in Live(e) PROVE i \in first .. first + s - 1
      OBVIOUS
    <3>1. i \in Nat /\ i % m \in Nat /\ i % m = i - first /\ i % m < s
      BY <1>3, <2>4, <2>5
    <3>2. PICK r \in Nat : r = i % m
      BY <3>1
    <3>3. QED
      BY <3>1, <3>2
  <2>7. \A i \in first .. first + s - 1 : i \in Live(e)
    <3> SUFFICES ASSUME NEW i \in first .. first + s - 1 PROVE i \in Live(e)
      OBVIOUS
    <3>1. i \in Nat /\ ~ (i < first) /\ i < first + s /\ i < first + m
      BY <2>2
    <3>2. ~ (i < e * m) /\ i < (e + 1) * m
      BY <2>3, <3>1
    <3>3. i \div m \in Nat /\ ~ (i \div m < e) /\ i \div m < e + 1
      BY <2>1, <3>1, <3>2, InBlock
    <3>4. i \div m = e
      BY <2>1, <3>3
    <3>5. i \div m < N
      BY <2>1, <3>4
    <3>6. i < N * m
      BY <3>1, <3>5, InBlock
    <3>7. i \in Element
      <4>1. N * m \in Nat
        BY <1>1
      <4>2. QED
        BY <1>1, <3>1, <3>6, <4>1 DEF Element
    <3>8. i % m < s
      <4>1. i % m = i - first
        BY <2>4, <3>4, <3>7
      <4>2. i - first < s
        BY <3>1
      <4>3. QED
        BY <4>1, <4>2
    <3>9. topk_ids[i] = e
      BY <1>4, <2>2, <3>4, <3>7, <3>8
    <3>10. QED
      BY <1>8, <3>7, <3>9
  <2>8. Live(e) = first .. first + s - 1
    BY <2>6, <2>7
  <2>9. Cardinality(first .. first + s - 1) = s
    <3>1. first \in Int /\ first + s - 1 \in Int /\ (first + s - 1) - first + 1 = s
          /\ (first > first + s - 1 => s = 0)
      OBVIOUS
    <3>2. QED
      BY <3>1, FS_Interval
  <2>10. QED
    BY <2>3, <2>4, <2>5, <2>8, <2>9
<1>11. \A e \in Expert : padded(e) = due(e)
  <2> SUFFICES ASSUME NEW e \in Expert PROVE padded(e) = due(e)
    OBVIOUS
  <2>1. padded(e) = round_up(Cardinality(Live(e)), block_size)
    BY <1>9 DEF padded
  <2>2. due(e) = round_up(Cardinality(Live(e)), block_size)
    BY DEF due, Live
  <2>3. QED
    BY <2>1, <2>2
<1>12. \A e : first_slot(e) = due_before(e)
  <2>1. [x \in Expert |-> padded(x)] = [x \in Expert |-> due(x)]
    BY <1>11
  <2>2. QED
    BY <2>1 DEF first_slot, due_before
<1>13. QED
  BY <1>1, <1>7, <1>9, <1>10, <1>11, <1>12

\* What a step to the next stage keeps on the batched path.
LEMMA BatchedAdvance ==
    ASSUME AlignThreads, path = "batched", NEW t \in Thread, Met(Gate(stage[t])), stage[t] < 5,
           Advance(t), UNCHANGED <<inputVars, fillVars>>
    PROVE  /\ AlignThreads'
           /\ stage'[t] = stage[t] + 1
           /\ \A u \in Thread \ {t} : stage'[u] = stage[u]
           /\ \A u \in Thread : \A s \in Nat : s # stage[t] => (stage'[u] > s <=> stage[u] > s)
           /\ stage[0] # Len(Program) /\ stage'[0] # Len(Program)
           /\ stage[t] # 3 => Stored' = Stored
           /\ stage[t] # 1 => \A k \in Buffer : Filled(k)' <=> Filled(k)
           /\ \A i : Slots(i)' = Slots(i)
           /\ stage[t] # 4 /\ expert_ids' = expert_ids /\ Marks => Marks'
           /\ stage[t] # 2 /\ total_tokens_post_pad' = total_tokens_post_pad =>
                 (stage'[num_experts - 1] > 2 <=> stage[num_experts - 1] > 2)
<1>0. AlignInput /\ UNCHANGED inputVars /\ Len(Program) = 6 /\ rank[t] = NoExpert /\ stage[t] \in 1 .. 6
  <2>1. AlignInput /\ UNCHANGED inputVars
    BY DEF AlignThreads
  <2>2. QED
    BY <2>1, BatchedAt
<1>1. /\ AlignThreads'
      /\ stage'[t] = stage[t] + 1
      /\ \A u \in Thread \ {t} : stage'[u] = stage[u]
  <2>1. stage[t] < Len(Program)
    BY <1>0
  <2>2. QED
    BY <1>0, <2>1, AdvanceStep
<1>2. \A u \in Thread : stage[u] \in Nat
  BY <1>0 DEF AlignThreads
<1>3. \A u \in Thread : \A s \in Nat : s # stage[t] => (stage'[u] > s <=> stage[u] > s)
  BY <1>0, <1>1, <1>2
<1>4. /\ 0 \in Thread /\ stride \in Nat \ {0} /\ Expert \subseteq Thread /\ num_experts - 1 \in Expert
      /\ \A k \in Buffer : k % stride \in Thread
  <2>1. stride \in Nat \ {0} /\ Expert \subseteq Thread /\ num_experts \in Nat \ {0}
    BY <1>0, AlignSizes
  <2>2. ASSUME NEW k \in Buffer PROVE k % stride \in Thread
    <3>1. k \in Nat
      BY <1>0, AlignSizes DEF Buffer
    <3>2. QED
      BY <2>1, <3>1, Modulo DEF Thread
  <2>3. 0 \in Thread /\ num_experts - 1 \in Expert
    BY <2>1 DEF Thread, Expert
  <2>4. QED
    BY <2>1, <2>2, <2>3
<1>5. stage[0] # Len(Program) /\ stage'[0] # Len(Program)
  <2>1. 5 \in 1 .. Len(Program) /\ Gate(5) = 5
    BY <1>0 DEF Gate
  <2>2. ~ (stage[0] > 5)
    BY <1>0, <1>4, <2>1, NotYet
  <2>3. CASE t = 0
    <3>1. stage'[0] = stage[t] + 1 /\ stage[t] < 5 /\ stage[t] \in Nat
      BY <1>0, <1>1, <2>3
    <3>2. QED
      BY <1>0, <2>2, <3>1
  <2>4. CASE t # 0
    BY <1>0, <1>1, <1>4, <2>2, <2>4
  <2>5. QED
    BY <2>3, <2>4
<1>6. /\ path' = path /\ stride' = stride /\ Routed' = Routed /\ n' = n /\ Thread' = Thread
      /\ \A i : expert_id(i)' = expert_id(i) /\ \A e : due_before(e)' = due_before(e)
  BY <1>0, LaunchFrame, RoutingFrame, DueFrame
<1>7. stage[t] # 3 => Stored' = Stored
  <2>1. \A i \in Routed : i \div max_tokens_per_batch \in Thread
    BY <1>0, <1>4, BatchedRouting
  <2>2. QED
    BY <1>3, <1>6, <2>1 DEF Stored
<1>8. stage[t] # 1 => \A k \in Buffer : Filled(k)' <=> Filled(k)
  BY <1>3, <1>4, <1>6 DEF Filled
<1>9. \A i : Slots(i)' = Slots(i)
  <2>1. \A i : home(i)' = home(i)
    BY <1>6 DEF home
  <2>2. QED
    BY <1>6, <2>1 DEF Slots
<1>10. ASSUME stage[t] # 4, expert_ids' = expert_ids, Marks PROVE Marks'
  <2>1. IdStage = 4
    BY DEF IdStage
  <2>2. \A u \in Thread : stage'[u] > IdStage => stage[u] > IdStage
    BY <1>3, <1>10, <2>1
  <2>3. stage'[0] = Len(Program) <=> stage[0] = Len(Program)
    BY <1>5
  <2>4. QED
    BY <1>0, <1>10, <2>2, <2>3, MarksFrame
<1>11. stage[t] # 2 => (stage'[num_experts - 1] > 2 <=> stage[num_experts - 1] > 2)
  BY <1>3, <1>4
<1>12. QED
  BY <1>1, <1>3, <1>5, <1>7, <1>8, <1>9, <1>10, <1>11

\* batched: a thread fills its slots and blocks.
LEMMA BatchedClear ==
    ASSUME BatchedInv, path = "batched", NEW t \in Thread, Clear(t)
    PROVE  BatchedInv'
<1> DEFINE C == Strided(t, stride, max_num_tokens_padded)
           D == Strided(t, stride, max_num_m_blocks)
<1>0. /\ AlignThreads /\ AlignInput /\ AlignMemory /\ Marks /\ Layout
      /\ stage[num_experts - 1] > 2 => total_tokens_post_pad = due_total
      /\ At(t, "clear") /\ Advance(t) /\ UNCHANGED <<inputVars, fillVars>> /\ UNCHANGED inputVars
      /\ counts' = counts /\ cumsum' = cumsum /\ src_dst' = src_dst
      /\ total_tokens_post_pad' = total_tokens_post_pad
      /\ sorted_token_ids' = Overwrite(sorted_token_ids, C, n)
      /\ expert_ids' = Overwrite(expert_ids, D, NoExpert)
  BY DEF BatchedInv, AlignThreads, Clear
<1>1. stage[t] = 1 /\ Met(Gate(stage[t])) /\ Len(Program) = 6
  <2>1. label(t) = "clear" /\ Met(Gate(stage[t])) /\ Len(Program) = 6
    BY <1>0, BatchedAt
  <2>2. QED
    BY <1>0, <2>1, BatchedAt
<1>2. /\ AlignThreads'
      /\ stage'[t] = stage[t] + 1
      /\ \A u \in Thread \ {t} : stage'[u] = stage[u]
      /\ \A u \in Thread : \A s \in Nat : s # stage[t] => (stage'[u] > s <=> stage[u] > s)
      /\ Stored' = Stored /\ \A i : Slots(i)' = Slots(i)
      /\ stage'[num_experts - 1] > 2 <=> stage[num_experts - 1] > 2
  BY <1>0, <1>1, BatchedAdvance
<1>3. /\ t \in 0 .. stride - 1 /\ stride \in Nat \ {0}
      /\ max_num_tokens_padded \in Nat /\ max_num_m_blocks \in Nat
      /\ path' = path /\ stride' = stride /\ n' = n /\ Expert \subseteq Thread /\ due_total' = due_total
  BY <1>0, AlignSizes, LaunchFrame, DueFrame DEF Thread
<1>4. /\ \A k : k \in C <=> k \in Buffer /\ k % stride = t
      /\ \A b : b \in D => b \in Block
  BY <1>3, StridedIs DEF Buffer, Block
<1> HIDE DEF C, D
<1>5. Layout' /\ sorted_token_ids' \in [Buffer -> Nat]
  <2>1. C \subseteq Buffer
    BY <1>4
  <2>2. \A k \in C : ~ Filled(k)
    BY <1>1, <1>4 DEF Filled
  <2>3. \A k \in Buffer : k % stride \in Thread
    <3> SUFFICES ASSUME NEW k \in Buffer PROVE k % stride \in Thread
      OBVIOUS
    <3>1. k \in Nat
      BY <1>3 DEF Buffer
    <3>2. QED
      BY <1>3, <3>1, Modulo DEF Thread
  <2>4. \A k \in Buffer : Filled(k)' <=> Filled(k) \/ k \in C
    <3>1. stage'[t] > 1
      BY <1>1, <1>2
    <3>2. QED
      BY <1>2, <1>3, <1>4, <2>3, <3>1 DEF Filled
  <2>5. \A i \in Routed : Slots(i) \subseteq Slots(i)'
    BY <1>2
  <2>6. QED
    BY <1>0, <1>2, <2>1, <2>2, <2>4, <2>5, LayoutClear
<1>6. Marks'
  <2>1. \A u \in Thread : ~ (stage[u] > 4)
    <3>1. 2 \in 1 .. Len(Program) /\ Gate(2) = 2 /\ stage[t] < 2
      BY <1>1 DEF Gate
    <3>2. \A u \in Thread : ~ (stage[u] > 2)
      BY <1>0, <3>1, NotYet
    <3>3. \A u \in Thread : stage[u] \in Nat
      BY <1>0 DEF AlignThreads
    <3>4. QED
      BY <3>2, <3>3
  <2>2. \A e \in Expert : ~ (stage'[e] > 4)
    BY <1>1, <1>2, <1>3, <2>1
  <2>3. IdStage' = 4
    BY <1>3 DEF IdStage
  <2>4. QED
    BY <1>3, <2>2, <2>3 DEF Marks
<1>7. expert_ids' \in [Block -> Expert \cup {NoExpert, Garbage}]
  <2>1. DOMAIN expert_ids \cup D = Block /\ expert_ids \in [Block -> Expert \cup {NoExpert, Garbage}]
    BY <1>0, <1>4 DEF AlignMemory
  <2>2. expert_ids' = [b \in Block |-> IF b \in D THEN NoExpert ELSE expert_ids[b]]
    BY <1>0, <2>1 DEF Overwrite
  <2>3. QED
    BY <2>1, <2>2
<1>8. AlignMemory'
  BY <1>0, <1>5, <1>7, MemoryFrame DEF AlignMemory
<1>9. QED
  BY <1>0, <1>2, <1>3, <1>5, <1>6, <1>8 DEF BatchedInv

\* batched: the thread of the last expert stores the total.
LEMMA BatchedScan ==
    ASSUME BatchedInv, path = "batched", NEW t \in Thread, Scan(t)
    PROVE  BatchedInv'
<1>0. /\ AlignThreads /\ AlignInput /\ AlignMemory /\ Marks /\ Layout
      /\ stage[num_experts - 1] > 2 => total_tokens_post_pad = due_total
      /\ At(t, "scan") /\ Advance(t) /\ UNCHANGED <<inputVars, fillVars>> /\ UNCHANGED inputVars
      /\ counts' = counts /\ cumsum' = cumsum /\ src_dst' = src_dst
      /\ sorted_token_ids' = sorted_token_ids /\ expert_ids' = expert_ids
      /\ total_tokens_post_pad' = IF t = num_experts - 1 THEN first_slot(num_experts) ELSE total_tokens_post_pad
  BY DEF BatchedInv, AlignThreads, Scan
<1>1. stage[t] = 2 /\ Met(Gate(stage[t])) /\ Len(Program) = 6
  <2>1. label(t) = "scan" /\ Met(Gate(stage[t])) /\ Len(Program) = 6
    BY <1>0, BatchedAt
  <2>2. QED
    BY <1>0, <2>1, BatchedAt
<1>2. /\ AlignThreads' /\ Marks'
      /\ \A u \in Thread \ {t} : stage'[u] = stage[u]
      /\ Stored' = Stored /\ \A i : Slots(i)' = Slots(i)
      /\ \A k \in Buffer : Filled(k)' <=> Filled(k)
  BY <1>0, <1>1, BatchedAdvance
<1>3. Layout'
  BY <1>0, <1>2, LayoutFrame
<1>4. first_slot(num_experts) = due_total /\ due_total \in Nat /\ due_total' = due_total
  BY <1>0, BatchedRouting, DueFits, DueFrame DEF due_total
<1>5. num_experts - 1 \in Thread
  <2>1. num_experts \in Nat \ {0} /\ Expert \subseteq Thread
    BY <1>0, AlignSizes
  <2>2. QED
    BY <2>1 DEF Expert
<1>6. stage'[num_experts - 1] > 2 => total_tokens_post_pad' = due_total'
  <2>1. CASE t = num_experts - 1
    BY <1>0, <1>4, <2>1
  <2>2. CASE t # num_experts - 1
    BY <1>0, <1>2, <1>4, <1>5, <2>2
  <2>3. QED
    BY <2>1, <2>2
<1>7. AlignMemory'
  <2>1. total_tokens_post_pad' \in Nat
    BY <1>0, <1>4 DEF AlignMemory
  <2>2. QED
    BY <1>0, <2>1, MemoryFrame DEF AlignMemory
<1>8. QED
  BY <1>2, <1>3, <1>6, <1>7 DEF BatchedInv

\* batched: a thread marks the blocks of its expert.
LEMMA BatchedIds ==
    ASSUME BatchedInv, path = "batched", NEW t \in Thread, ExpertIds(t)
    PROVE  BatchedInv'
<1>0. /\ AlignThreads /\ AlignInput /\ AlignMemory /\ Marks /\ Layout
      /\ stage[num_experts - 1] > 2 => total_tokens_post_pad = due_total
      /\ At(t, "ids") /\ Advance(t) /\ UNCHANGED <<inputVars, fillVars>> /\ UNCHANGED inputVars
      /\ counts' = counts /\ cumsum' = cumsum /\ src_dst' = src_dst
      /\ sorted_token_ids' = sorted_token_ids /\ total_tokens_post_pad' = total_tokens_post_pad
  BY DEF BatchedInv, AlignThreads, ExpertIds
<1>1. stage[t] = 4 /\ Met(Gate(stage[t])) /\ Len(Program) = 6
  <2>1. label(t) = "ids" /\ Met(Gate(stage[t])) /\ Len(Program) = 6
    BY <1>0, BatchedAt
  <2>2. QED
    BY <1>0, <2>1, BatchedAt
<1>2. /\ AlignThreads'
      /\ \A u \in Thread \ {t} : stage'[u] = stage[u]
      /\ Stored' = Stored /\ \A i : Slots(i)' = Slots(i)
      /\ \A k \in Buffer : Filled(k)' <=> Filled(k)
      /\ stage[0] # Len(Program) /\ stage'[0] # Len(Program)
      /\ stage'[num_experts - 1] > 2 <=> stage[num_experts - 1] > 2
  BY <1>0, <1>1, BatchedAdvance
<1>3. Layout'
  BY <1>0, <1>2, LayoutFrame
<1>4. PICK mine, rest :
        /\ mine = IF t \in Expert THEN first_block(t) .. first_block(t + 1) - 1 ELSE {}
        /\ rest = IF path = "batched" THEN {}
                  ELSE Strided(first_block(num_experts) + t, stride, max_num_m_blocks)
  OBVIOUS
<1>5. expert_ids' = Overwrite(Overwrite(expert_ids, mine, t), rest, NoExpert)
  <2>1. mine = IF t \in Expert
               THEN {k \div block_size : k \in Strided(first_slot(t), block_size, first_slot(t) + padded(t))}
               ELSE {}
    <3>1. CASE t \in Expert
      <4>1. t \in 0 .. num_experts /\ t + 1 \in 0 .. num_experts /\ block_size \in Nat \ {0}
        <5>1. num_experts \in Nat \ {0} /\ block_size \in Nat \ {0}
          BY <1>0, AlignSizes
        <5>2. QED
          BY <3>1, <5>1 DEF Expert
      <4>2. /\ due_before(t) = first_block(t) * block_size /\ first_block(t) \in Nat
            /\ due_before(t + 1) = first_block(t + 1) * block_size /\ first_block(t + 1) \in Nat
            /\ due_before(t + 1) = due_before(t) + due(t)
        BY <1>0, <3>1, <4>1, Due
      <4>3. first_slot(t) = due_before(t) /\ first_slot(t) + padded(t) = due_before(t + 1)
        BY <1>0, <3>1, <4>2, BatchedRouting
      <4>4. {k \div block_size : k \in Strided(first_block(t) * block_size, block_size,
                                               first_block(t + 1) * block_size)}
            = first_block(t) .. first_block(t + 1) - 1
        BY <4>1, <4>2, BlockStarts
      <4>5. QED
        BY <1>4, <3>1, <4>2, <4>3, <4>4
    <3>2. CASE t \notin Expert
      BY <1>4, <3>2
    <3>3. QED
      BY <3>1, <3>2
  <2>2. expert_ids' = Overwrite(Overwrite(expert_ids,
                         IF t \in Expert
                         THEN {k \div block_size : k \in Strided(first_slot(t), block_size, first_slot(t) + padded(t))}
                         ELSE {}, t), {}, NoExpert)
    BY DEF ExpertIds
  <2>3. QED
    BY <1>4, <2>1, <2>2
<1>6. Marks' /\ expert_ids' \in [Block -> Expert \cup {NoExpert, Garbage}]
  BY <1>0, <1>2, <1>4, <1>5, MarksStep
<1>7. due_total' = due_total
  BY <1>0, DueFrame
<1>8. AlignMemory'
  BY <1>0, <1>6, MemoryFrame DEF AlignMemory
<1>9. QED
  BY <1>0, <1>2, <1>3, <1>6, <1>7, <1>8 DEF BatchedInv

\* An element of the batch of expert e has a slot of the expert's.
LEMMA BatchedHome ==
    ASSUME AlignInput, path = "batched", NEW e \in Expert, NEW i \in Live(e)
    PROVE  home(i) \in Region(e) /\ expert_id(i) = e
<1>1. expert_id(i) = e
  BY DEF Live
<1>2. PICK s \in Nat, first \in Nat :
         /\ Live(e) = first .. first + s - 1 /\ Cardinality(Live(e)) = s
         /\ i % max_tokens_per_batch = i - first
  BY BatchedRouting
<1>3. PICK a \in Nat, c \in Nat : a = due_before(e) /\ c = due(e) /\ s <= c
  <2>1. e \in 0 .. num_experts
    BY AlignSizes DEF Expert
  <2>2. QED
    BY <1>2, <2>1, Due
<1>4. home(i) = a + (i - first)
  <2>1. home(i) = due_before(expert_id(i)) + (i % max_tokens_per_batch)
    BY DEF home
  <2>2. home(i) = due_before(e) + (i % max_tokens_per_batch)
    BY <1>1, <2>1
  <2>3. due_before(e) + (i % max_tokens_per_batch) = a + (i - first)
    BY <1>2, <1>3
  <2>4. QED
    BY <2>2, <2>3
<1>5. i \in first .. first + s - 1
  BY <1>2
<1>6. a + (i - first) \in a .. a + c - 1
  BY <1>3, <1>5
<1>7. QED
  BY <1>1, <1>3, <1>4, <1>6 DEF Region

\* A layout in which every element is at home.
LEMMA LayoutHomes ==
    ASSUME path # "general", UNCHANGED inputVars, \A i : home(i)' = home(i),
           \A k \in Buffer : Filled(k)' => sorted_token_ids'[k] = n \/ sorted_token_ids'[k] \in Stored',
           \A i \in Stored' : /\ \E k \in Buffer : Filled(k)' /\ sorted_token_ids'[k] = i
                              /\ \A k \in Buffer : Filled(k)' /\ sorted_token_ids'[k] = i => k = home(i)
    PROVE  Layout'
<1>1. path' = path /\ n' = n /\ Buffer' = Buffer
  BY LaunchFrame
<1>2. \A i : Slots(i)' = {home(i)}
  BY <1>1 DEF Slots
<1>3. \A j, k \in Buffer : Filled(j)' /\ Filled(k)' /\ sorted_token_ids'[j] = sorted_token_ids'[k] =>
          j = k \/ sorted_token_ids'[k] = n
  <2> SUFFICES ASSUME NEW j \in Buffer, NEW k \in Buffer, Filled(j)', Filled(k)',
                      sorted_token_ids'[j] = sorted_token_ids'[k], sorted_token_ids'[k] # n
               PROVE  j = k
    OBVIOUS
  <2>1. PICK i \in Stored' : i = sorted_token_ids'[k]
    OBVIOUS
  <2>2. j = home(i) /\ k = home(i)
    BY <2>1
  <2>3. QED
    BY <2>2
<1>4. QED
  BY <1>1, <1>2, <1>3 DEF Layout

\* The slots a batched thread writes, and with what.
BatchSlots(t) == due_before(t) .. due_before(t) + Cardinality(Live(t)) - 1
BatchAt(t, k) == t * max_tokens_per_batch + k - due_before(t)

\* batched: the slots a thread copies to are those of its expert, and hold its elements in order.
LEMMA BatchedCopy ==
    ASSUME AlignInput, path = "batched", NEW t \in Expert
    PROVE  /\ BatchSlots(t) \subseteq Region(t)
           /\ \A k \in BatchSlots(t) : BatchAt(t, k) \in Live(t) /\ home(BatchAt(t, k)) = k
           /\ \A i \in Live(t) : home(i) \in BatchSlots(t) /\ BatchAt(t, home(i)) = i
<1>1. PICK s \in Nat, first \in Nat :
         /\ first = t * max_tokens_per_batch
         /\ Live(t) = first .. first + s - 1 /\ Cardinality(Live(t)) = s
         /\ \A i \in Live(t) : i % max_tokens_per_batch = i - first
  BY BatchedRouting
<1>2. PICK a \in Nat, c \in Nat : a = due_before(t) /\ c = due(t) /\ s <= c
  <2>1. t \in 0 .. num_experts
    BY AlignSizes DEF Expert
  <2>2. QED
    BY <1>1, <2>1, Due
<1>3. BatchSlots(t) = a .. a + s - 1 /\ \A k : BatchAt(t, k) = first + k - a
  BY <1>1, <1>2 DEF BatchSlots, BatchAt
<1>4. Region(t) = a .. a + c - 1
  BY <1>2 DEF Region
<1>5. \A i \in Live(t) : home(i) = a + (i - first)
  <2> SUFFICES ASSUME NEW i \in Live(t) PROVE home(i) = a + (i - first)
    OBVIOUS
  <2>1. expert_id(i) = t
    BY DEF Live
  <2>2. home(i) = due_before(expert_id(i)) + (i % max_tokens_per_batch)
    BY DEF home
  <2>3. home(i) = due_before(t) + (i % max_tokens_per_batch)
    BY <2>1, <2>2
  <2>4. due_before(t) + (i % max_tokens_per_batch) = a + (i - first)
    BY <1>1, <1>2
  <2>5. QED
    BY <2>3, <2>4
<1>6. BatchSlots(t) \subseteq Region(t)
  BY <1>2, <1>3, <1>4
<1>7. ASSUME NEW k \in BatchSlots(t) PROVE BatchAt(t, k) \in Live(t) /\ home(BatchAt(t, k)) = k
  <2>1. k \in a .. a + s - 1
    BY <1>3
  <2>2. PICK i \in Int : i = BatchAt(t, k) /\ i = first + k - a /\ i \in first .. first + s - 1
    <3>1. first + k - a \in first .. first + s - 1
      BY <2>1
    <3>2. QED
      BY <1>3, <3>1
  <2>3. i \in Live(t)
    BY <1>1, <2>2
  <2>4. home(i) = a + (i - first)
    BY <1>5, <2>3
  <2>5. a + (i - first) = k
    BY <2>1, <2>2
  <2>6. QED
    BY <2>2, <2>3, <2>4, <2>5
<1>8. ASSUME NEW i \in Live(t) PROVE home(i) \in BatchSlots(t) /\ BatchAt(t, home(i)) = i
  <2>1. i \in first .. first + s - 1
    BY <1>1
  <2>2. PICK k \in Int : k = home(i) /\ k = a + (i - first) /\ k \in a .. a + s - 1 /\ first + k - a = i
    <3>1. a + (i - first) \in a .. a + s - 1 /\ first + (a + (i - first)) - a = i
      BY <2>1
    <3>2. QED
      BY <1>5, <3>1
  <2>3. QED
    BY <1>3, <2>2
<1>9. QED
  BY <1>6, <1>7, <1>8

\* batched: a thread copies its batch.
LEMMA BatchedPlace ==
    ASSUME BatchedInv, path = "batched", NEW t \in Thread, PlaceBatch(t)
    PROVE  BatchedInv'
<1>0. /\ AlignThreads /\ AlignInput /\ AlignMemory /\ Marks /\ Layout
      /\ stage[num_experts - 1] > 2 => total_tokens_post_pad = due_total
      /\ At(t, "place") /\ Advance(t) /\ UNCHANGED <<inputVars, fillVars>> /\ UNCHANGED inputVars
      /\ counts' = counts /\ cumsum' = cumsum /\ src_dst' = src_dst
      /\ expert_ids' = expert_ids /\ total_tokens_post_pad' = total_tokens_post_pad
  BY DEF BatchedInv, AlignThreads, PlaceBatch
<1>1. stage[t] = 3 /\ Met(2) /\ Met(Gate(stage[t])) /\ t \in 0 .. num_experts
  <2>1. label(t) = "place" /\ Met(Gate(stage[t])) /\ t \in 0 .. num_experts
    BY <1>0, BatchedAt
  <2>2. stage[t] = 3
    BY <1>0, <2>1, BatchedAt
  <2>3. Gate(3) = 2
    BY DEF Gate
  <2>4. QED
    BY <2>1, <2>2, <2>3
<1>2. /\ AlignThreads' /\ Marks'
      /\ stage'[t] = stage[t] + 1
      /\ \A u \in Thread \ {t} : stage'[u] = stage[u]
      /\ \A i : Slots(i)' = Slots(i)
      /\ \A k \in Buffer : Filled(k)' <=> Filled(k)
      /\ stage'[num_experts - 1] > 2 <=> stage[num_experts - 1] > 2
  BY <1>0, <1>1, BatchedAdvance
<1>3. /\ path' = path /\ n' = n /\ Buffer' = Buffer /\ Routed' = Routed /\ due_total' = due_total
      /\ \A i : home(i)' = home(i)
  <2>1. /\ path' = path /\ n' = n /\ Buffer' = Buffer /\ Routed' = Routed /\ due_total' = due_total
        /\ \A i : expert_id(i)' = expert_id(i) /\ \A e : due_before(e)' = due_before(e)
    BY <1>0, LaunchFrame, RoutingFrame, DueFrame
  <2>2. QED
    BY <2>1 DEF home
<1>4. \A k \in Buffer : Filled(k)
  <2> SUFFICES ASSUME NEW k \in Buffer PROVE Filled(k)
    OBVIOUS
  <2>1. k % stride \in Thread
    <3>1. stride \in Nat \ {0} /\ k \in Nat
      BY <1>0, AlignSizes DEF Buffer
    <3>2. QED
      BY <3>1, Modulo DEF Thread
  <2>2. \A u \in Thread : stage[u] >= 2 /\ stage[u] \in Nat
    BY <1>0, <1>1 DEF Met, AlignThreads
  <2>3. \A u \in Thread : stage[u] > 1
    BY <2>2
  <2>4. QED
    BY <2>1, <2>3 DEF Filled
<1>5. /\ Expert \subseteq Thread
      /\ \A i \in Routed : i \div max_tokens_per_batch \in Expert /\ expert_id(i) = i \div max_tokens_per_batch
  BY <1>0, AlignSizes, BatchedRouting
<1>6. Stored = {i \in Routed : stage[expert_id(i)] > 3} /\ Stored' = {i \in Routed : stage'[expert_id(i)] > 3}
  <2>1. Stored = {i \in Routed : stage[i \div max_tokens_per_batch] > 3}
    BY DEF Stored
  <2>2. Stored' = {i \in Routed : stage'[i \div max_tokens_per_batch] > 3}
    BY <1>3 DEF Stored
  <2>3. QED
    BY <1>5, <2>1, <2>2
<1>7. \A i : i \in Stored' <=> i \in Stored \/ i \in Live(t)
  <2>1. \A i \in Routed : expert_id(i) \in Thread
    BY <1>5
  <2>2. stage'[t] > 3
    BY <1>1, <1>2
  <2>3. QED
    BY <1>2, <1>6, <2>1, <2>2 DEF Live
<1>8. /\ first_slot(t) = due_before(t) /\ due_before(t) \in Nat
      /\ sorted_token_ids \in [Buffer -> Nat] /\ DOMAIN sorted_token_ids = Buffer
  BY <1>0, <1>1, BatchedRouting, Due DEF AlignMemory
<1>9. Layout' /\ sorted_token_ids' \in [Buffer -> Nat]
  <2>1. CASE t \in Expert
    <3>1. /\ BatchSlots(t) \subseteq Region(t)
          /\ \A k \in BatchSlots(t) : BatchAt(t, k) \in Live(t) /\ home(BatchAt(t, k)) = k
          /\ \A i \in Live(t) : home(i) \in BatchSlots(t) /\ BatchAt(t, home(i)) = i
      BY <1>0, <2>1, BatchedCopy
    <3>2. BatchSlots(t) \subseteq Buffer
      BY <1>0, <2>1, <3>1, Regions
    <3>3. sorted_token_ids' = [k \in Buffer |-> IF k \in BatchSlots(t) THEN BatchAt(t, k) ELSE sorted_token_ids[k]]
      <4>1. Cardinality({i \in Element : topk_ids[i] = t}) = Cardinality(Live(t))
        BY <1>0, <2>1, BatchedRouting
      <4>2. due_before(t) .. due_before(t) + Cardinality(Live(t)) - 1 = BatchSlots(t)
        BY DEF BatchSlots
      <4>3. Buffer \cup BatchSlots(t) = Buffer
        BY <3>2
      <4>4. sorted_token_ids' = [k \in Buffer \cup BatchSlots(t) |->
                                   IF k \in BatchSlots(t) THEN t * max_tokens_per_batch + k - due_before(t)
                                   ELSE sorted_token_ids[k]]
        BY <1>8, <2>1, <4>1, <4>2 DEF PlaceBatch
      <4>5. QED
        BY <4>3, <4>4 DEF BatchAt
    <3>4. Live(t) \subseteq Nat /\ n \notin Live(t)
      BY <1>0, AlignRouting, AlignSizes
    <3>5. sorted_token_ids' \in [Buffer -> Nat]
      <4>1. \A k \in BatchSlots(t) : BatchAt(t, k) \in Nat
        BY <3>1, <3>4
      <4>2. QED
        BY <1>8, <3>3, <4>1
    <3>6. \A k \in Buffer : sorted_token_ids'[k] = IF k \in BatchSlots(t) THEN BatchAt(t, k) ELSE sorted_token_ids[k]
      BY <3>3
    <3>7. ASSUME NEW i \in Stored
          PROVE  \E k \in Buffer : k \notin BatchSlots(t) /\ sorted_token_ids[k] = i
      <4>1. PICK k \in Buffer : sorted_token_ids[k] = i /\ k \in Slots(i)
        BY <1>0 DEF Layout
      <4>2. i \in Routed /\ stage[expert_id(i)] > 3
        BY <1>6
      <4>3. PICK e \in Expert : e = expert_id(i) /\ i \in Live(e)
        BY <1>0, <4>2, AlignRouting
      <4>4. k \in Region(e)
        <5>1. k = home(i)
          BY <4>1 DEF Slots
        <5>2. QED
          BY <1>0, <4>3, <5>1, BatchedHome
      <4>5. e # t
        BY <1>1, <4>2, <4>3
      <4>6. k \notin Region(t)
        BY <1>0, <2>1, <4>4, <4>5, Regions
      <4>7. QED
        BY <3>1, <4>1, <4>6
    <3>8. \A k \in Buffer : sorted_token_ids'[k] = n \/ sorted_token_ids'[k] \in Stored'
      <4> SUFFICES ASSUME NEW k \in Buffer PROVE sorted_token_ids'[k] = n \/ sorted_token_ids'[k] \in Stored'
        OBVIOUS
      <4>1. CASE k \in BatchSlots(t)
        BY <1>7, <3>1, <3>6, <4>1
      <4>2. CASE k \notin BatchSlots(t)
        <5>1. sorted_token_ids[k] = n \/ sorted_token_ids[k] \in Stored
          BY <1>0, <1>4 DEF Layout
        <5>2. QED
          BY <1>7, <3>6, <4>2, <5>1
      <4>3. QED
        BY <4>1, <4>2
    <3>9. ASSUME NEW i \in Stored' PROVE \E k \in Buffer : sorted_token_ids'[k] = i
      <4>1. CASE i \in Live(t)
        <5>1. home(i) \in BatchSlots(t) /\ BatchAt(t, home(i)) = i /\ home(i) \in Buffer
          BY <3>1, <3>2, <4>1
        <5>2. sorted_token_ids'[home(i)] = i
          BY <3>6, <5>1
        <5>3. QED
          BY <5>1, <5>2
      <4>2. CASE i \in Stored
        BY <3>6, <3>7, <4>2
      <4>3. QED
        BY <1>7, <4>1, <4>2
    <3>10. ASSUME NEW i \in Stored', NEW k \in Buffer, sorted_token_ids'[k] = i PROVE k = home(i)
      <4>1. CASE k \in BatchSlots(t)
        BY <3>1, <3>6, <3>10, <4>1
      <4>2. CASE k \notin BatchSlots(t)
        <5>1. sorted_token_ids[k] = i
          BY <3>6, <3>10, <4>2
        <5>2. i # n
          <6>1. i \in Routed
            BY <1>6
          <6>2. QED
            BY <1>0, <6>1, AlignRouting, AlignSizes
        <5>3. i \in Stored
          BY <1>0, <1>4, <5>1, <5>2 DEF Layout
        <5>4. k \in Slots(i)
          BY <1>0, <1>4, <5>1, <5>3 DEF Layout
        <5>5. QED
          BY <5>4 DEF Slots
      <4>3. QED
        BY <4>1, <4>2
    <3>11. \A k \in Buffer : Filled(k)'
      BY <1>2, <1>4
    <3>12. Layout'
      BY <1>0, <1>3, <3>8, <3>9, <3>10, <3>11, LayoutHomes
    <3>13. QED
      BY <3>5, <3>12
  <2>2. CASE t \notin Expert
    <3>1. sorted_token_ids' = sorted_token_ids
      <4>1. due_before(t) .. due_before(t) + 0 - 1 = {}
        BY <1>8
      <4>2. sorted_token_ids' = [k \in DOMAIN sorted_token_ids |-> sorted_token_ids[k]]
        BY <1>8, <2>2, <4>1 DEF PlaceBatch
      <4>3. QED
        BY <1>8, <4>2
    <3>2. Stored' = Stored
      <4>1. Live(t) = {}
        BY <1>5, <2>2 DEF Live
      <4>2. QED
        BY <1>7, <4>1
    <3>3. Layout'
      BY <1>0, <1>2, <3>1, <3>2, LayoutFrame
    <3>4. QED
      BY <1>8, <3>1, <3>3
  <2>3. QED
    BY <2>1, <2>2
<1>10. AlignMemory'
  BY <1>0, <1>9, MemoryFrame DEF AlignMemory
<1>11. QED
  BY <1>0, <1>2, <1>3, <1>9, <1>10 DEF BatchedInv

\* batched: the wrapper returns.
LEMMA BatchedReturn ==
    ASSUME BatchedInv, path = "batched", Return
    PROVE  BatchedInv'
<1>0. /\ AlignThreads /\ AlignInput /\ AlignMemory /\ Marks /\ Layout
      /\ stage[num_experts - 1] > 2 => total_tokens_post_pad = due_total
      /\ UNCHANGED inputVars
      /\ counts' = counts /\ cumsum' = cumsum /\ sorted_token_ids' = sorted_token_ids
      /\ src_dst' = src_dst /\ total_tokens_post_pad' = total_tokens_post_pad
  BY DEF BatchedInv, AlignThreads, Return
<1>1. AlignThreads' /\ \A u \in Thread : stage[u] = 5 /\ stage'[u] = 6
  <2>1. Len(Program) = 6
    BY <1>0, Programs
  <2>2. QED
    BY <1>0, <2>1, ReturnStep
<1>2. Marks' /\ expert_ids' \in [Block -> Expert \cup {NoExpert, Garbage}]
  BY <1>0, MarksReturn
<1>3. /\ path' = path /\ stride' = stride /\ Routed' = Routed /\ due_total' = due_total
      /\ \A i : expert_id(i)' = expert_id(i) /\ \A e : due_before(e)' = due_before(e)
  BY <1>0, LaunchFrame, RoutingFrame, DueFrame
<1>4. Expert \subseteq Thread /\ num_experts - 1 \in Thread /\ stride \in Nat \ {0}
  <2>1. num_experts \in Nat \ {0} /\ Expert \subseteq Thread /\ stride \in Nat \ {0}
    BY <1>0, AlignSizes
  <2>2. num_experts - 1 \in Expert
    BY <2>1 DEF Expert
  <2>3. QED
    BY <2>1, <2>2
<1>5. Layout'
  <2>1. Stored' = Stored
    <3>1. \A i \in Routed : i \div max_tokens_per_batch \in Thread
      BY <1>0, <1>4, BatchedRouting
    <3>2. QED
      BY <1>1, <1>3, <3>1 DEF Stored
  <2>2. \A k \in Buffer : Filled(k)' <=> Filled(k)
    <3> SUFFICES ASSUME NEW k \in Buffer PROVE Filled(k)' <=> Filled(k)
      OBVIOUS
    <3>1. k \in Nat
      BY <1>0, AlignSizes DEF Buffer
    <3>2. k % stride \in Thread
      BY <1>4, <3>1, Modulo DEF Thread
    <3>3. QED
      BY <1>1, <1>3, <3>2 DEF Filled
  <2>3. \A i \in Routed : Slots(i) \subseteq Slots(i)'
    <3>1. \A i : home(i)' = home(i)
      BY <1>3 DEF home
    <3>2. QED
      BY <1>3, <3>1 DEF Slots
  <2>4. QED
    BY <1>0, <2>1, <2>2, <2>3, LayoutFrame
<1>6. AlignMemory'
  BY <1>0, <1>2, MemoryFrame DEF AlignMemory
<1>7. stage'[num_experts - 1] > 2 => total_tokens_post_pad' = due_total'
  BY <1>0, <1>1, <1>3, <1>4
<1>8. QED
  BY <1>1, <1>2, <1>5, <1>6, <1>7 DEF BatchedInv

\* batched: nothing changes.
LEMMA BatchedStutter ==
    ASSUME BatchedInv, path = "batched", UNCHANGED vars
    PROVE  BatchedInv'
<1>0. /\ AlignThreads /\ AlignInput /\ AlignMemory /\ Marks /\ Layout
      /\ stage[num_experts - 1] > 2 => total_tokens_post_pad = due_total
      /\ UNCHANGED inputVars /\ UNCHANGED <<inputVars, threadVars>>
      /\ stage' = stage /\ fill' = fill /\ fill_reset' = fill_reset
      /\ counts' = counts /\ cumsum' = cumsum /\ sorted_token_ids' = sorted_token_ids
      /\ expert_ids' = expert_ids /\ src_dst' = src_dst /\ total_tokens_post_pad' = total_tokens_post_pad
  BY DEF BatchedInv, AlignThreads, vars, threadVars, fillVars, outputVars
<1>1. AlignThreads'
  <2>1. fill' \in [Fill -> BOOLEAN] /\ \A f \in Fill : fill[f] => fill'[f]
    BY <1>0 DEF AlignThreads
  <2>2. QED
    BY <1>0, <2>1, FillStep
<1>2. Marks'
  BY <1>0, MarksFrame
<1>3. /\ path' = path /\ stride' = stride /\ Routed' = Routed /\ due_total' = due_total
      /\ \A i : expert_id(i)' = expert_id(i) /\ \A e : due_before(e)' = due_before(e)
  BY <1>0, LaunchFrame, RoutingFrame, DueFrame
<1>4. Layout'
  <2>1. Stored' = Stored /\ \A k \in Buffer : Filled(k)' <=> Filled(k)
    BY <1>0, <1>3 DEF Stored, Filled
  <2>2. \A i \in Routed : Slots(i) \subseteq Slots(i)'
    <3>1. \A i : home(i)' = home(i)
      BY <1>3 DEF home
    <3>2. QED
      BY <1>3, <3>1 DEF Slots
  <2>3. QED
    BY <1>0, <2>1, <2>2, LayoutFrame
<1>5. AlignMemory'
  BY <1>0, MemoryFrame DEF AlignMemory
<1>6. QED
  BY <1>0, <1>1, <1>2, <1>3, <1>4, <1>5 DEF BatchedInv

\* batched: the launch.
LEMMA BatchedInit == Init => (path = "batched" => BatchedInv)
<1> SUFFICES ASSUME Init, path = "batched" PROVE BatchedInv
  OBVIOUS
<1>1. AlignThreads /\ AlignMemory /\ Marks /\ Layout /\ \A t \in Thread : stage[t] = 1
  BY AlignStart
<1>2. num_experts - 1 \in Thread
  <2>1. AlignInput
    BY <1>1 DEF AlignThreads
  <2>2. num_experts \in Nat \ {0} /\ Expert \subseteq Thread
    BY <2>1, AlignSizes
  <2>3. QED
    BY <2>2 DEF Expert
<1>3. QED
  BY <1>1, <1>2 DEF BatchedInv

\* batched: every step.
LEMMA BatchedNext == (path = "batched" => BatchedInv) /\ [Next]_vars => (path = "batched" => BatchedInv)'
<1> SUFFICES ASSUME path = "batched" => BatchedInv, [Next]_vars, path' = "batched" PROVE BatchedInv'
  OBVIOUS
<1>1. path = "batched" /\ BatchedInv
  <2>1. UNCHANGED path
    BY PathKept
  <2>2. QED
    BY <2>1
<1>2. CASE UNCHANGED vars
  BY <1>1, <1>2, BatchedStutter
<1>3. CASE FillReset
  BY <1>1, <1>3 DEF FillReset, BatchedInv, AlignThreads
<1>4. CASE \E f \in Fill : FillSlots(f)
  BY <1>1, <1>4 DEF FillSlots
<1>5. CASE Return
  BY <1>1, <1>5, BatchedReturn
<1>6. CASE Returned /\ UNCHANGED vars
  BY <1>2, <1>6
<1>7. ASSUME NEW t \in Thread,
             \/ Reset(t) \/ Clear(t) \/ Zero(t) \/ Count(t) \/ CountPast(t) \/ EndLoop(t) \/ Prefix(t)
             \/ Scan(t) \/ ExpertIds(t)
             \/ Skip(t) \/ TakeRank(t) \/ Store(t) \/ PlaceFromRow(t) \/ PlacePast(t) \/ PlaceBatch(t)
      PROVE  BatchedInv'
  <2>0. AlignThreads
    BY <1>1 DEF BatchedInv
  <2>1. label(t) \notin {"reset", "zero", "count", "prefix"}
    <3>1. /\ stage[t] \in 1 .. 6
          /\ label(t) = CASE stage[t] = 1 -> "clear" [] stage[t] = 2 -> "scan" [] stage[t] = 3 -> "place"
                          [] stage[t] = 4 -> "ids" [] stage[t] = 5 -> "return" [] stage[t] = 6 -> "done"
      BY <1>1, <2>0, BatchedAt
    <3>2. \/ stage[t] = 1 \/ stage[t] = 2 \/ stage[t] = 3 \/ stage[t] = 4 \/ stage[t] = 5 \/ stage[t] = 6
      BY <3>1
    <3>3. QED
      BY <3>1, <3>2
  <2>2. ~ Reset(t) /\ ~ Zero(t) /\ ~ Count(t) /\ ~ Prefix(t) /\ ~ EndLoop(t)
    BY <1>1, <2>1 DEF Reset, Zero, Count, Prefix, EndLoop, At
  <2>3. ~ Skip(t) /\ ~ TakeRank(t) /\ ~ PlaceFromRow(t) /\ ~ CountPast(t) /\ ~ PlacePast(t)
    BY <1>1, PastIsSmall DEF Skip, TakeRank, PlaceFromRow
  <2>4. ~ Store(t)
    BY <1>1, <2>0, BatchedAt DEF Store
  <2>5. QED
    BY <1>1, <1>7, <2>2, <2>3, <2>4, BatchedClear, BatchedScan, BatchedIds, BatchedPlace
<1>8. QED
  BY <1>2, <1>3, <1>4, <1>5, <1>6, <1>7 DEF Next

\* batched: what the invariant says of the types and of the result.
LEMMA BatchedResult ==
    ASSUME BatchedInv, path = "batched"
    PROVE  TypeOK /\ BlocksGroupByExpert
<1>0. /\ AlignThreads /\ AlignInput /\ AlignMemory /\ Layout /\ Marks
      /\ stage[num_experts - 1] > 2 => total_tokens_post_pad = due_total
  BY DEF BatchedInv, AlignThreads
<1>1. TypeOK
  BY <1>0, AlignTypes
<1>2. ASSUME Returned PROVE BlocksGroupByExpert
  <2>1. \A t \in Thread : stage[t] = 6
    <3> SUFFICES ASSUME NEW t \in Thread PROVE stage[t] = 6
      OBVIOUS
    <3>1. /\ stage[t] \in 1 .. 6
          /\ label(t) = CASE stage[t] = 1 -> "clear" [] stage[t] = 2 -> "scan" [] stage[t] = 3 -> "place"
                          [] stage[t] = 4 -> "ids" [] stage[t] = 5 -> "return" [] stage[t] = 6 -> "done"
      BY <1>0, BatchedAt
    <3>2. \/ stage[t] = 1 \/ stage[t] = 2 \/ stage[t] = 3 \/ stage[t] = 4 \/ stage[t] = 5 \/ stage[t] = 6
      BY <3>1
    <3>3. label(t) = "done"
      BY <1>2 DEF Returned
    <3>4. QED
      BY <3>1, <3>2, <3>3
  <2>2. Expert \subseteq Thread /\ num_experts - 1 \in Thread /\ stride \in Nat \ {0}
    <3>1. num_experts \in Nat \ {0} /\ Expert \subseteq Thread /\ stride \in Nat \ {0}
      BY <1>0, AlignSizes
    <3>2. num_experts - 1 \in Expert
      BY <3>1 DEF Expert
    <3>3. QED
      BY <3>1, <3>2
  <2>3. Stored = Routed
    <3>1. \A i \in Routed : i \div max_tokens_per_batch \in Thread
      BY <1>0, <2>2, BatchedRouting
    <3>2. QED
      BY <2>1, <3>1 DEF Stored
  <2>4. \A k \in Buffer : Filled(k)
    <3> SUFFICES ASSUME NEW k \in Buffer PROVE Filled(k)
      OBVIOUS
    <3>1. k \in Nat
      BY <1>0, AlignSizes DEF Buffer
    <3>2. k % stride \in Thread
      BY <2>2, <3>1, Modulo DEF Thread
    <3>3. stage[k % stride] = 6
      BY <2>1, <3>2
    <3>4. QED
      BY <3>3 DEF Filled
  <2>5. \A i \in Routed : Slots(i) \subseteq Region(expert_id(i))
    <3> SUFFICES ASSUME NEW i \in Routed PROVE Slots(i) \subseteq Region(expert_id(i))
      OBVIOUS
    <3>1. PICK e \in Expert : e = expert_id(i) /\ i \in Live(e)
      BY <1>0, AlignRouting
    <3>2. home(i) \in Region(e)
      BY <1>0, <3>1, BatchedHome
    <3>3. QED
      BY <3>1, <3>2 DEF Slots
  <2>6. total_tokens_post_pad = due_total
    BY <1>0, <2>1, <2>2
  <2>7. stage \in [Thread -> 1 .. Len(Program)] /\ sorted_token_ids \in [Buffer -> Nat]
    BY <1>0 DEF AlignThreads, AlignMemory
  <2>8. QED
    BY <1>0, <1>2, <2>3, <2>4, <2>5, <2>6, <2>7, AlignReturned
<1>3. QED
  BY <1>1, <1>2 DEF BlocksGroupByExpert

----------------------------------------------------------------------------
(* The small path *)

\* The elements of expert e that thread t counted, and those whose slots are
\* before the next one of row r.
RowCounted(t, e) == {i \in Live(e) : (i % stride) = t /\ Handled(3, i)}
RowPlaced(r, e) == {i \in Live(e) : (i % stride) < r \/ ((i % stride) = r /\ Handled(7, i))}

\* The rows hold counts until the thread of the expert has turned them into
\* running sums, which the placing threads then move on.
SmallCounts ==
    \A e \in Expert :
        /\ ~ (stage[e] > 4) => \A t \in Thread : stage[t] > 2 => counts[t + 1][e] = Cardinality(RowCounted(t, e))
        /\ stage[e] > 4 => \A r \in 0 .. stride : counts[r][e] = Cardinality(RowPlaced(r, e))

SmallOffsets ==
    stage[0] > 5 => /\ \A e \in 0 .. num_experts : cumsum[e] = due_before(e)
                    /\ total_tokens_post_pad = due_total

SmallInv ==
    /\ AlignThreads /\ AlignMemory /\ Marks /\ Layout
    /\ SmallCounts /\ SmallOffsets

\* What a small thread knows when it runs a stage.
LEMMA SmallAt ==
    ASSUME AlignThreads, path = "small", NEW t \in Thread
    PROVE  /\ stage[t] \in 1 .. 9 /\ t \in Nat /\ Len(Program) = 9
           /\ rank[t] = NoExpert
           /\ \A l : At(t, l) => label(t) = l /\ Met(Gate(stage[t]))
           /\ label(t) = CASE stage[t] = 1 -> "reset" [] stage[t] = 2 -> "zero" [] stage[t] = 3 -> "count"
                           [] stage[t] = 4 -> "prefix" [] stage[t] = 5 -> "scan" [] stage[t] = 6 -> "ids"
                           [] stage[t] = 7 -> "place" [] stage[t] = 8 -> "return" [] stage[t] = 9 -> "done"
<1>1. AlignInput /\ stage[t] \in 1 .. Len(Program)
  BY DEF AlignThreads
<1>2. /\ Len(Program) = 9
      /\ Program[1][1] = "reset" /\ Program[2][1] = "zero" /\ Program[3][1] = "count"
      /\ Program[4][1] = "prefix" /\ Program[5][1] = "scan" /\ Program[6][1] = "ids"
      /\ Program[7][1] = "place" /\ Program[8][1] = "return" /\ Program[9][1] = "done"
  BY <1>1, Programs
<1>3. stage[t] \in 1 .. 9
  BY <1>1, <1>2
<1>4. \/ stage[t] = 1 \/ stage[t] = 2 \/ stage[t] = 3 \/ stage[t] = 4 \/ stage[t] = 5
      \/ stage[t] = 6 \/ stage[t] = 7 \/ stage[t] = 8 \/ stage[t] = 9
  BY <1>3
<1>5. label(t) = CASE stage[t] = 1 -> "reset" [] stage[t] = 2 -> "zero" [] stage[t] = 3 -> "count"
                   [] stage[t] = 4 -> "prefix" [] stage[t] = 5 -> "scan" [] stage[t] = 6 -> "ids"
                   [] stage[t] = 7 -> "place" [] stage[t] = 8 -> "return" [] stage[t] = 9 -> "done"
  BY <1>2, <1>4 DEF label
<1>6. \A l : At(t, l) => label(t) = l /\ Met(Gate(stage[t]))
  BY <1>1, AtGate
<1>7. t \in Nat
  BY <1>1, AlignSizes
<1>8. rank[t] = NoExpert
  BY DEF AlignThreads, RanksHeld
<1>9. QED
  BY <1>2, <1>3, <1>5, <1>6, <1>7, <1>8

\* Which stage a label is.
LEMMA SmallStage ==
    ASSUME AlignThreads, path = "small", NEW t \in Thread, NEW l, At(t, l)
    PROVE  /\ l = "reset" <=> stage[t] = 1
           /\ l = "zero" <=> stage[t] = 2
           /\ l = "count" <=> stage[t] = 3
           /\ l = "prefix" <=> stage[t] = 4
           /\ l = "scan" <=> stage[t] = 5
           /\ l = "ids" <=> stage[t] = 6
           /\ l = "place" <=> stage[t] = 7
           /\ l = "return" <=> stage[t] = 8
           /\ l = "done" <=> stage[t] = 9
           /\ Met(Gate(stage[t]))
<1>1. label(t) = l /\ Met(Gate(stage[t])) /\ stage[t] \in 1 .. 9
  BY SmallAt
<1>2. \/ stage[t] = 1 \/ stage[t] = 2 \/ stage[t] = 3 \/ stage[t] = 4 \/ stage[t] = 5
      \/ stage[t] = 6 \/ stage[t] = 7 \/ stage[t] = 8 \/ stage[t] = 9
  BY <1>1
<1>3. label(t) = CASE stage[t] = 1 -> "reset" [] stage[t] = 2 -> "zero" [] stage[t] = 3 -> "count"
                   [] stage[t] = 4 -> "prefix" [] stage[t] = 5 -> "scan" [] stage[t] = 6 -> "ids"
                   [] stage[t] = 7 -> "place" [] stage[t] = 8 -> "return" [] stage[t] = 9 -> "done"
  BY SmallAt
<1>4. CASE stage[t] = 1
  <2>1. l = "reset"
    BY <1>1, <1>3, <1>4
  <2>2. QED
    BY <1>1, <1>4, <2>1
<1>5. CASE stage[t] = 2
  <2>1. l = "zero"
    BY <1>1, <1>3, <1>5
  <2>2. QED
    BY <1>1, <1>5, <2>1
<1>6. CASE stage[t] = 3
  <2>1. l = "count"
    BY <1>1, <1>3, <1>6
  <2>2. QED
    BY <1>1, <1>6, <2>1
<1>7. CASE stage[t] = 4
  <2>1. l = "prefix"
    BY <1>1, <1>3, <1>7
  <2>2. QED
    BY <1>1, <1>7, <2>1
<1>8. CASE stage[t] = 5
  <2>1. l = "scan"
    BY <1>1, <1>3, <1>8
  <2>2. QED
    BY <1>1, <1>8, <2>1
<1>9. CASE stage[t] = 6
  <2>1. l = "ids"
    BY <1>1, <1>3, <1>9
  <2>2. QED
    BY <1>1, <1>9, <2>1
<1>10. CASE stage[t] = 7
  <2>1. l = "place"
    BY <1>1, <1>3, <1>10
  <2>2. QED
    BY <1>1, <1>10, <2>1
<1>11. CASE stage[t] = 8
  <2>1. l = "return"
    BY <1>1, <1>3, <1>11
  <2>2. QED
    BY <1>1, <1>11, <2>1
<1>12. CASE stage[t] = 9
  <2>1. l = "done"
    BY <1>1, <1>3, <1>12
  <2>2. QED
    BY <1>1, <1>12, <2>1
<1>13. QED
  BY <1>2, <1>4, <1>5, <1>6, <1>7, <1>8, <1>9, <1>10, <1>11, <1>12

\* Which sets a step leaves alone that counts and places no routed element.
LEMMA SmallSame ==
    ASSUME AlignInput, path = "small", UNCHANGED <<inputVars, fill>>,
           \A i \in Routed : (Handled(3, i)' <=> Handled(3, i)) /\ (Handled(7, i)' <=> Handled(7, i))
    PROVE  /\ \A t, e : RowCounted(t, e)' = RowCounted(t, e) /\ RowPlaced(t, e)' = RowPlaced(t, e)
           /\ Stored' = Stored /\ \A i : Slots(i)' = Slots(i)
           /\ \A k : Filled(k)' <=> Filled(k)
<1>0. UNCHANGED inputVars /\ fill' = fill
  OBVIOUS
<1>1. /\ path' = path /\ stride' = stride /\ Routed' = Routed /\ \A e : Live(e)' = Live(e)
      /\ \A i : expert_id(i)' = expert_id(i) /\ \A e : due_before(e)' = due_before(e)
  BY <1>0, LaunchFrame, RoutingFrame, DueFrame
<1>2. \A e : Live(e) \subseteq Routed
  BY AlignRouting
<1>3. \A t, e : RowCounted(t, e)' = RowCounted(t, e)
  BY <1>1, <1>2 DEF RowCounted
<1>4. \A t, e : RowPlaced(t, e)' = RowPlaced(t, e)
  BY <1>1, <1>2 DEF RowPlaced
<1>5. Stored' = Stored
  BY <1>1 DEF Stored
<1>6. \A i : home(i)' = home(i)
  <2>1. \A i : Before(i)' = Before(i)
    BY <1>1 DEF Before
  <2>2. QED
    BY <1>1, <2>1 DEF home
<1>7. \A i : Slots(i)' = Slots(i)
  BY <1>1, <1>6 DEF Slots
<1>8. \A k : Filled(k)' <=> Filled(k)
  BY <1>0, <1>1 DEF Filled
<1>9. QED
  BY <1>3, <1>4, <1>5, <1>7, <1>8

\* The counts and offsets are as good as the memory that holds them.
LEMMA SmallKept ==
    ASSUME AlignInput, path = "small", SmallCounts, SmallOffsets, UNCHANGED inputVars,
           \A t, e : RowCounted(t, e)' = RowCounted(t, e) /\ RowPlaced(t, e)' = RowPlaced(t, e),
           \A u \in Thread : \A s \in {2, 4} : stage'[u] > s <=> stage[u] > s,
           counts' = counts
    PROVE  SmallCounts'
<1>1. Expert \subseteq Thread /\ Thread' = Thread /\ stride' = stride
  BY AlignSizes, LaunchFrame
<1>2. QED
  BY <1>1 DEF SmallCounts

\* small: offsets that are in memory stay right while nothing writes them.
LEMMA SmallOffsetsKept ==
    ASSUME AlignInput, path = "small", SmallOffsets, UNCHANGED inputVars, stage'[0] > 5 => stage[0] > 5,
           cumsum' = cumsum, total_tokens_post_pad' = total_tokens_post_pad
    PROVE  SmallOffsets'
<1>1. due_total' = due_total /\ \A e : due_before(e)' = due_before(e)
  BY DueFrame
<1>2. QED
  BY <1>1 DEF SmallOffsets

\* What a step to the next stage keeps on the small path.
LEMMA SmallAdvance ==
    ASSUME SmallInv, path = "small", NEW t \in Thread, NEW l, At(t, l), l \notin {"return", "done"},
           l \in {"count", "place"} => next[t] >= n,
           Advance(t), UNCHANGED <<inputVars, fillVars>>, sorted_token_ids' = sorted_token_ids
    PROVE  /\ AlignThreads' /\ Layout'
           /\ stage'[t] = stage[t] + 1
           /\ \A u \in Thread : \A s \in Nat : s # stage[t] => (stage'[u] > s <=> stage[u] > s)
           /\ \A u \in Thread \ {t} : stage'[u] = stage[u]
           /\ \A u, e : RowCounted(u, e)' = RowCounted(u, e) /\ RowPlaced(u, e)' = RowPlaced(u, e)
           /\ stage[0] # 9 /\ stage'[0] # 9
           /\ l # "ids" /\ expert_ids' = expert_ids => Marks'
           /\ l \notin {"zero", "prefix"} /\ counts' = counts => SmallCounts'
           /\ l # "scan" /\ cumsum' = cumsum /\ total_tokens_post_pad' = total_tokens_post_pad => SmallOffsets'
<1>0. /\ AlignThreads /\ AlignInput /\ Layout /\ Marks /\ SmallCounts /\ SmallOffsets
      /\ UNCHANGED inputVars /\ UNCHANGED <<inputVars, fill>>
  BY DEF SmallInv, AlignThreads, fillVars
<1>1. stage[t] \in 1 .. 9 /\ rank[t] = NoExpert /\ Len(Program) = 9
  BY <1>0, SmallAt
<1>2. /\ l = "zero" <=> stage[t] = 2
      /\ l = "count" <=> stage[t] = 3
      /\ l = "prefix" <=> stage[t] = 4
      /\ l = "scan" <=> stage[t] = 5
      /\ l = "ids" <=> stage[t] = 6
      /\ l = "place" <=> stage[t] = 7
      /\ stage[t] # 8 /\ stage[t] # 9
      /\ Met(Gate(stage[t]))
  BY <1>0, SmallStage
<1>3. stage[t] < 8
  BY <1>1, <1>2
<1>4. /\ AlignThreads'
      /\ stage'[t] = stage[t] + 1
      /\ \A u \in Thread \ {t} : stage'[u] = stage[u]
      /\ \A s \in Nat : stage[t] # s \/ next[t] >= n =>
            \A i \in Element : Handled(s, i)' <=> Handled(s, i)
  <2>1. stage[t] < Len(Program)
    BY <1>1, <1>3
  <2>2. QED
    BY <1>0, <1>1, <1>2, <2>1, AdvanceStep
<1>5. \A i \in Routed : (Handled(3, i)' <=> Handled(3, i)) /\ (Handled(7, i)' <=> Handled(7, i))
  <2>1. \A s \in {3, 7} : s \in Nat /\ (stage[t] # s \/ next[t] >= n)
    BY <1>2
  <2>2. \A i \in Element : \A s \in {3, 7} : Handled(s, i)' <=> Handled(s, i)
    BY <1>4, <2>1
  <2>3. QED
    BY <1>0, <2>2, AlignRouting
<1>6. /\ \A u, e : RowCounted(u, e)' = RowCounted(u, e) /\ RowPlaced(u, e)' = RowPlaced(u, e)
      /\ Stored' = Stored /\ \A i : Slots(i)' = Slots(i)
      /\ \A k : Filled(k)' <=> Filled(k)
  BY <1>0, <1>5, SmallSame
<1>7. Layout'
  BY <1>0, <1>6, LayoutFrame
<1>8. \A u \in Thread : stage[u] \in Nat
  BY <1>0, <1>1 DEF AlignThreads
<1>9. \A u \in Thread : \A s \in Nat : s # stage[t] => (stage'[u] > s <=> stage[u] > s)
  BY <1>1, <1>4, <1>8
<1>10. 0 \in Thread /\ stage[0] # 9 /\ stage'[0] # 9
  <2>1. 0 \in Thread
    BY <1>0, AlignSizes DEF Thread
  <2>2. ~ (stage[0] > 8)
    <3>1. 8 \in 1 .. Len(Program) /\ Gate(8) = 8
      BY <1>1 DEF Gate
    <3>2. QED
      BY <1>0, <1>3, <2>1, <3>1, NotYet
  <2>3. CASE t = 0
    <3>1. stage'[0] = stage[t] + 1 /\ stage[t] < 8 /\ stage[t] \in Nat
      BY <1>1, <1>3, <1>4, <2>3
    <3>2. QED
      BY <2>1, <2>2, <3>1
  <2>4. CASE t # 0
    BY <1>4, <2>1, <2>2, <2>4
  <2>5. QED
    BY <2>1, <2>3, <2>4
<1>11. ASSUME l # "ids", expert_ids' = expert_ids PROVE Marks'
  <2>1. IdStage = 6 /\ stage[t] # 6
    BY <1>2, <1>11 DEF IdStage
  <2>2. \A u \in Thread : stage'[u] > IdStage => stage[u] > IdStage
    BY <1>9, <2>1
  <2>3. stage'[0] = Len(Program) <=> stage[0] = Len(Program)
    BY <1>1, <1>10
  <2>4. QED
    BY <1>0, <1>11, <2>2, <2>3, MarksFrame
<1>12. ASSUME l \notin {"zero", "prefix"}, counts' = counts PROVE SmallCounts'
  <2>1. \A s \in {2, 4} : s \in Nat /\ s # stage[t]
    BY <1>2, <1>12
  <2>2. \A u \in Thread : \A s \in {2, 4} : stage'[u] > s <=> stage[u] > s
    BY <1>9, <2>1
  <2>3. QED
    BY <1>0, <1>6, <1>12, <2>2, SmallKept
<1>13. ASSUME l # "scan", cumsum' = cumsum, total_tokens_post_pad' = total_tokens_post_pad
       PROVE  SmallOffsets'
  <2>1. stage'[0] > 5 => stage[0] > 5
    BY <1>2, <1>9, <1>10, <1>13
  <2>2. QED
    BY <1>0, <1>13, <2>1, SmallOffsetsKept
<1>14. QED
  BY <1>4, <1>6, <1>7, <1>9, <1>10, <1>11, <1>12, <1>13

\* small: the LoRA kernel resets the total.
LEMMA SmallReset ==
    ASSUME SmallInv, path = "small", NEW t \in Thread, Reset(t)
    PROVE  SmallInv'
<1>0. /\ AlignThreads /\ AlignInput /\ AlignMemory
      /\ At(t, "reset") /\ Advance(t) /\ UNCHANGED <<inputVars, fillVars>> /\ UNCHANGED inputVars
      /\ counts' = counts /\ cumsum' = cumsum /\ sorted_token_ids' = sorted_token_ids
      /\ expert_ids' = expert_ids /\ src_dst' = src_dst
      /\ total_tokens_post_pad' = IF t = 0 /\ adapter = "enabled" THEN 0 ELSE total_tokens_post_pad
  BY DEF SmallInv, AlignThreads, Reset
<1>1. /\ AlignThreads' /\ Layout' /\ Marks' /\ SmallCounts'
      /\ \A u \in Thread : \A s \in Nat : s # stage[t] => (stage'[u] > s <=> stage[u] > s)
  BY <1>0, SmallAdvance
<1>2. SmallOffsets'
  <2>1. stage[t] = 1 /\ Len(Program) = 9 /\ 0 \in Thread
    BY <1>0, SmallStage, SmallAt, AlignSizes DEF Thread
  <2>2. 5 \in 1 .. Len(Program) /\ Gate(5) = 5
    BY <2>1 DEF Gate
  <2>3. ~ (stage[0] > 5)
    BY <1>0, <2>1, <2>2, NotYet
  <2>4. ~ (stage'[0] > 5)
    BY <1>1, <2>1, <2>3
  <2>5. QED
    BY <2>4 DEF SmallOffsets
<1>3. AlignMemory'
  <2>1. total_tokens_post_pad' \in Nat
    BY <1>0 DEF AlignMemory
  <2>2. QED
    BY <1>0, <2>1, MemoryFrame DEF AlignMemory
<1>4. QED
  BY <1>1, <1>2, <1>3 DEF SmallInv

\* small: a thread zeroes its row.
LEMMA SmallZero ==
    ASSUME SmallInv, path = "small", NEW t \in Thread, Zero(t)
    PROVE  SmallInv'
<1>0. /\ AlignThreads /\ AlignInput /\ AlignMemory /\ SmallCounts
      /\ At(t, "zero") /\ Advance(t) /\ UNCHANGED <<inputVars, fillVars>> /\ UNCHANGED inputVars
      /\ cumsum' = cumsum /\ sorted_token_ids' = sorted_token_ids
      /\ expert_ids' = expert_ids /\ src_dst' = src_dst
      /\ total_tokens_post_pad' = total_tokens_post_pad
      /\ counts' = [counts EXCEPT ![t + 1] = [e \in Expert |-> 0]]
  BY DEF SmallInv, AlignThreads, Zero, outputVars
<1>1. /\ AlignThreads' /\ Layout' /\ Marks' /\ SmallOffsets'
      /\ \A u \in Thread : \A s \in Nat : s # stage[t] => (stage'[u] > s <=> stage[u] > s)
      /\ \A u \in Thread \ {t} : stage'[u] = stage[u]
      /\ \A u, e : RowCounted(u, e)' = RowCounted(u, e)
  BY <1>0, SmallAdvance
<1>2. stage[t] = 2 /\ Len(Program) = 9
  BY <1>0, SmallStage, SmallAt
<1>3. /\ Expert \subseteq Thread /\ Thread \subseteq Nat /\ Thread' = Thread /\ stride' = stride
      /\ \A u \in Thread : u + 1 \in 0 .. stride
  <2>1. stride \in Nat \ {0} /\ Expert \subseteq Thread /\ Thread \subseteq Nat
    BY <1>0, AlignSizes
  <2>2. QED
    BY <1>0, <2>1, LaunchFrame DEF Thread
<1>4. \A e \in Expert : ~ (stage[e] > 4) /\ ~ (stage'[e] > 4)
  <2>1. 4 \in 1 .. Len(Program) /\ Gate(4) = 4
    BY <1>2 DEF Gate
  <2>2. \A u \in Thread : ~ (stage[u] > 4)
    BY <1>0, <1>2, <2>1, NotYet
  <2>3. QED
    BY <1>1, <1>2, <1>3, <2>2
<1>5. /\ counts' \in [0 .. stride -> [Expert -> Nat]]
      /\ \A e \in Expert : counts'[t + 1][e] = 0
      /\ \A u \in Thread \ {t} : counts'[u + 1] = counts[u + 1]
  <2>1. counts \in [0 .. stride -> [Expert -> Nat]] /\ [e \in Expert |-> 0] \in [Expert -> Nat]
    BY <1>0 DEF AlignMemory
  <2>2. counts' \in [0 .. stride -> [Expert -> Nat]]
    BY <1>0, <2>1
  <2>3. counts'[t + 1] = [e \in Expert |-> 0]
    BY <1>0, <1>3, <2>1
  <2>4. ASSUME NEW u \in Thread \ {t} PROVE counts'[u + 1] = counts[u + 1]
    <3>1. u + 1 # t + 1 /\ u + 1 \in 0 .. stride
      BY <1>3
    <3>2. QED
      BY <1>0, <2>1, <3>1
  <2>5. QED
    BY <2>2, <2>3, <2>4
<1>6. \A e : RowCounted(t, e) = {}
  <2>1. ASSUME NEW i, (i % stride) = t PROVE ~ Handled(3, i)
    BY <1>2, <2>1 DEF Handled
  <2>2. QED
    BY <2>1 DEF RowCounted
<1>7. SmallCounts'
  <2> SUFFICES ASSUME NEW e \in Expert, NEW u \in Thread, stage'[u] > 2
               PROVE  counts'[u + 1][e] = Cardinality(RowCounted(u, e)')
    BY <1>3, <1>4 DEF SmallCounts
  <2>1. CASE u = t
    BY <1>1, <1>5, <1>6, <2>1, FS_EmptySet
  <2>2. CASE u # t
    <3>1. stage[u] > 2 /\ counts'[u + 1] = counts[u + 1]
      BY <1>1, <1>5, <2>2
    <3>2. counts[u + 1][e] = Cardinality(RowCounted(u, e))
      BY <1>0, <1>4, <3>1 DEF SmallCounts
    <3>3. QED
      BY <1>1, <3>1, <3>2
  <2>3. QED
    BY <2>1, <2>2
<1>8. AlignMemory'
  BY <1>0, <1>5, MemoryFrame DEF AlignMemory
<1>9. QED
  BY <1>1, <1>7, <1>8 DEF SmallInv

\* small: a thread leaves a loop when it has gone over all its elements.
LEMMA SmallEndLoop ==
    ASSUME SmallInv, path = "small", NEW t \in Thread, EndLoop(t)
    PROVE  SmallInv'
<1>0. /\ AlignInput /\ AlignMemory
      /\ next[t] >= n /\ Advance(t) /\ UNCHANGED <<inputVars, fillVars>> /\ UNCHANGED inputVars
      /\ At(t, "count") \/ At(t, "place")
      /\ counts' = counts /\ cumsum' = cumsum /\ sorted_token_ids' = sorted_token_ids
      /\ expert_ids' = expert_ids /\ src_dst' = src_dst
      /\ total_tokens_post_pad' = total_tokens_post_pad
  BY DEF SmallInv, AlignThreads, EndLoop, outputVars
<1>1. PICK l : l \in {"count", "place"} /\ At(t, l)
  BY <1>0
<1>2. AlignThreads' /\ Layout' /\ Marks' /\ SmallCounts' /\ SmallOffsets'
  <2>1. l \notin {"return", "done", "ids", "zero", "prefix", "scan"}
    BY <1>1
  <2>2. QED
    BY <1>0, <1>1, <2>1, SmallAdvance
<1>3. AlignMemory'
  BY <1>0, MemoryFrame DEF AlignMemory
<1>4. QED
  BY <1>2, <1>3 DEF SmallInv

\* small: a thread counts an element in its row.
LEMMA SmallCount ==
    ASSUME SmallInv, path = "small", NEW t \in Thread, Count(t)
    PROVE  SmallInv'
<1>0. /\ AlignThreads /\ AlignInput /\ AlignMemory /\ Marks /\ Layout /\ SmallCounts /\ SmallOffsets
      /\ At(t, "count") /\ next[t] < n /\ next' = [next EXCEPT ![t] = @ + stride]
      /\ UNCHANGED <<inputVars, fillVars>> /\ UNCHANGED inputVars /\ stage' = stage /\ rank' = rank
      /\ fill' = fill
      /\ cumsum' = cumsum /\ sorted_token_ids' = sorted_token_ids /\ expert_ids' = expert_ids
      /\ src_dst' = src_dst /\ total_tokens_post_pad' = total_tokens_post_pad
      /\ counts' = IF expert_id(next[t]) = NoExpert THEN counts
                   ELSE [counts EXCEPT ![t + 1][expert_id(next[t])] = @ + weight(next[t])]
  BY DEF SmallInv, AlignThreads, Count, outputVars, fillVars
<1>1. stage[t] = 3 /\ Met(Gate(stage[t])) /\ Len(Program) = 9 /\ rank[t] = NoExpert
  BY <1>0, SmallStage, SmallAt
<1>2. /\ AlignThreads'
      /\ \A s \in Nat : \A i \in Element :
            /\ Handled(s, i)' <=> Handled(s, i) \/ (stage[t] = s /\ i = next[t])
            /\ stage[t] = s /\ i = next[t] => ~ Handled(s, i) /\ (i % stride) = t
  BY <1>0, <1>1, MoveStep
<1>3. PICK i \in Element : i = next[t]
  <2>1. next[t] \in Nat /\ n \in Nat
    BY <1>0, AlignSizes DEF AlignThreads
  <2>2. QED
    BY <1>0, <2>1 DEF Element
<1>4. /\ \A j \in Element : Handled(7, j)' <=> Handled(7, j)
      /\ \A j \in Element : Handled(3, j)' <=> Handled(3, j) \/ j = i
      /\ ~ Handled(3, i) /\ (i % stride) = t
  <2>1. 3 \in Nat /\ 7 \in Nat /\ stage[t] # 7
    BY <1>1
  <2>2. QED
    BY <1>1, <1>2, <1>3, <2>1
<1>5. /\ path' = path /\ stride' = stride /\ Routed' = Routed /\ Thread' = Thread /\ n' = n
      /\ \A e : Live(e)' = Live(e) /\ due_before(e)' = due_before(e)
      /\ \A j : expert_id(j)' = expert_id(j)
  BY <1>0, LaunchFrame, RoutingFrame, DueFrame
<1>6. Routed \subseteq Element /\ \A e : Live(e) \subseteq Element
  BY <1>0, AlignRouting
<1>7. Layout' /\ Marks' /\ SmallOffsets'
  <2>1. Stored' = Stored /\ \A k : Filled(k)' <=> Filled(k)
    BY <1>0, <1>4, <1>5, <1>6 DEF Stored, Filled
  <2>2. \A j : Slots(j)' = Slots(j)
    <3>1. \A j : Before(j)' = Before(j)
      BY <1>5 DEF Before
    <3>2. \A j : home(j)' = home(j)
      BY <1>5, <3>1 DEF home
    <3>3. QED
      BY <1>0, <1>5, <3>2 DEF Slots
  <2>3. Layout'
    BY <1>0, <2>1, <2>2, LayoutFrame
  <2>4. Marks'
    BY <1>0, MarksFrame
  <2>5. SmallOffsets'
    BY <1>0, SmallOffsetsKept
  <2>6. QED
    BY <2>3, <2>4, <2>5
<1>8. \A e \in Expert : ~ (stage[e] > 4)
  <2>1. 4 \in 1 .. Len(Program) /\ Gate(4) = 4
    BY <1>1 DEF Gate
  <2>2. Expert \subseteq Thread
    BY <1>0, AlignSizes
  <2>3. QED
    BY <1>0, <1>1, <2>1, <2>2, NotYet
<1>9. /\ counts \in [0 .. stride -> [Expert -> Nat]] /\ t + 1 \in 0 .. stride
      /\ \A u \in Thread : u + 1 \in 0 .. stride /\ (u # t => u + 1 # t + 1)
      /\ expert_id(i) \in Expert \cup {NoExpert}
  <2>1. stride \in Nat \ {0} /\ Thread \subseteq Nat
    BY <1>0, AlignSizes
  <2>2. \A u \in Thread : u + 1 \in 0 .. stride
    BY <2>1 DEF Thread
  <2>3. \A u \in Thread : u # t => u + 1 # t + 1
    BY <2>1
  <2>4. QED
    BY <1>0, <2>2, <2>3, AlignRouting DEF AlignMemory
<1>10. /\ \A e : RowCounted(t, e)' = IF i \in Live(e) THEN RowCounted(t, e) \cup {i} ELSE RowCounted(t, e)
       /\ \A e : i \notin RowCounted(t, e)
       /\ \A u, e : u # t => RowCounted(u, e)' = RowCounted(u, e)
  <2>1. ASSUME NEW e
        PROVE  RowCounted(t, e)' = IF i \in Live(e) THEN RowCounted(t, e) \cup {i} ELSE RowCounted(t, e)
    BY <1>4, <1>5, <1>6 DEF RowCounted
  <2>2. ASSUME NEW u, NEW e, u # t PROVE RowCounted(u, e)' = RowCounted(u, e)
    BY <1>4, <1>5, <1>6, <2>2 DEF RowCounted
  <2>3. \A e : i \notin RowCounted(t, e)
    BY <1>4 DEF RowCounted
  <2>4. QED
    BY <2>1, <2>2, <2>3
<1>11. /\ counts' \in [0 .. stride -> [Expert -> Nat]]
       /\ \A u \in Thread \ {t} : counts'[u + 1] = counts[u + 1]
       /\ \A e \in Expert : counts'[t + 1][e] = IF i \in Live(e) THEN counts[t + 1][e] + 1 ELSE counts[t + 1][e]
  <2>1. \A e : i \in Live(e) <=> expert_id(i) # NoExpert /\ token_mask(i) /\ expert_id(i) = e
    BY DEF Live, Routed
  <2>2. CASE expert_id(i) = NoExpert
    <3>1. counts' = counts
      BY <1>0, <1>3, <2>2
    <3>2. QED
      BY <1>9, <2>1, <2>2, <3>1
  <2>3. CASE expert_id(i) # NoExpert
    <3>1. PICK d \in Expert : d = expert_id(i)
      BY <1>9, <2>3
    <3>2. PICK r \in 0 .. stride : r = t + 1
      BY <1>9
    <3>3. counts' = [counts EXCEPT ![r][d] = @ + weight(i)]
      BY <1>0, <1>3, <2>3, <3>1, <3>2
    <3>4. weight(i) = IF i \in Live(d) THEN 1 ELSE 0
      BY <2>1, <2>3, <3>1 DEF weight
    <3>5. counts[r] \in [Expert -> Nat]
      BY <1>9
    <3>6. PICK v \in Nat : v = counts[r][d] + weight(i)
      <4>1. counts[r][d] + weight(i) \in Nat
        BY <3>4, <3>5
      <4>2. QED
        BY <4>1
    <3>7. counts' = [counts EXCEPT ![r] = [counts[r] EXCEPT ![d] = v]]
      BY <1>9, <3>3, <3>6
    <3>8. counts'[r] = [counts[r] EXCEPT ![d] = v]
      BY <1>9, <3>7
    <3>9. [counts[r] EXCEPT ![d] = v] \in [Expert -> Nat]
      BY <3>5
    <3>10. counts' \in [0 .. stride -> [Expert -> Nat]]
      BY <1>9, <3>7, <3>9
    <3>11. ASSUME NEW e \in Expert
           PROVE  counts'[r][e] = IF i \in Live(e) THEN counts[r][e] + 1 ELSE counts[r][e]
      <4>1. CASE e # d
        <5>1. i \notin Live(e)
          BY <2>1, <3>1, <4>1
        <5>2. QED
          BY <3>5, <3>8, <4>1, <5>1
      <4>2. CASE e = d
        <5>1. counts'[r][d] = v /\ counts[r][d] \in Nat
          BY <3>5, <3>8
        <5>2. QED
          BY <3>4, <3>6, <4>2, <5>1
      <4>3. QED
        BY <4>1, <4>2
    <3>12. \A u \in Thread \ {t} : counts'[u + 1] = counts[u + 1]
      <4>1. \A q \in 0 .. stride : q # r => counts'[q] = counts[q]
        BY <1>9, <3>7
      <4>2. QED
        BY <1>9, <3>2, <4>1
    <3>13. QED
      BY <3>2, <3>10, <3>11, <3>12
  <2>4. QED
    BY <2>2, <2>3
<1>12. SmallCounts'
  <2> SUFFICES ASSUME NEW e \in Expert, NEW u \in Thread, stage[u] > 2
               PROVE  counts'[u + 1][e] = Cardinality(RowCounted(u, e)')
    BY <1>0, <1>5, <1>8 DEF SmallCounts
  <2>1. counts[u + 1][e] = Cardinality(RowCounted(u, e))
    BY <1>0, <1>8 DEF SmallCounts
  <2>2. CASE u # t
    BY <1>10, <1>11, <2>1, <2>2
  <2>3. CASE u = t
    <3>1. IsFiniteSet(RowCounted(t, e))
      <4>1. RowCounted(t, e) \in SUBSET Live(e) /\ IsFiniteSet(Live(e))
        BY <1>0, AlignRouting DEF RowCounted
      <4>2. QED
        BY <4>1, FS_Subset
    <3>2. CASE i \in Live(e)
      <4>1. Cardinality(RowCounted(t, e) \cup {i}) = Cardinality(RowCounted(t, e)) + 1
        BY <1>10, <3>1, FS_AddElement
      <4>2. QED
        BY <1>10, <1>11, <2>1, <2>3, <3>2, <4>1
    <3>3. CASE i \notin Live(e)
      BY <1>10, <1>11, <2>1, <2>3, <3>3
    <3>4. QED
      BY <3>2, <3>3
  <2>4. QED
    BY <2>2, <2>3
<1>13. AlignMemory'
  BY <1>0, <1>11, MemoryFrame DEF AlignMemory
<1>14. QED
  BY <1>2, <1>7, <1>12, <1>13 DEF SmallInv

----------------------------------------------------------------------------
(* The running sums of the rows *)

\* The sum of the first r values is the number of elements in the first r classes.
LEMMA RunningSum ==
    ASSUME NEW N \in Nat, NEW c, NEW S, IsFiniteSet(S), NEW class \in [S -> Nat],
           \A q \in 1 .. N : c[q] = Cardinality({i \in S : class[i] = q - 1})
    PROVE  \A r \in 0 .. N : SumFunctionOnSet(c, 1 .. r) = Cardinality({i \in S : class[i] < r})
<1> DEFINE Below(r) == {i \in S : class[i] < r}
           Bad == {r \in 0 .. N : SumFunctionOnSet(c, 1 .. r) # Cardinality(Below(r))}
<1>1. ASSUME NEW T, T \in SUBSET S PROVE IsFiniteSet(T) /\ Cardinality(T) \in Nat
  BY <1>1, FS_Subset, FS_CardinalityType
<1>2. \A q \in 1 .. N : c[q] \in Nat
  <2> SUFFICES ASSUME NEW q \in 1 .. N PROVE c[q] \in Nat
    OBVIOUS
  <2>1. {i \in S : class[i] = q - 1} \in SUBSET S
    OBVIOUS
  <2>2. QED
    BY <1>1, <2>1
<1> SUFFICES ASSUME Bad # {} PROVE FALSE
  OBVIOUS
<1>3. PICK r \in Bad : \A d \in Bad : r <= d
  <2>1. Bad \subseteq Nat
    OBVIOUS
  <2> HIDE DEF Bad
  <2>2. QED
    BY <2>1, NatMinimum
<1>4. r \in 0 .. N /\ SumFunctionOnSet(c, 1 .. r) # Cardinality(Below(r))
  OBVIOUS
<1>5. r # 0
  <2>1. SumFunctionOnSet(c, 1 .. 0) = 0
    <3>1. 1 .. 0 = {}
      OBVIOUS
    <3>2. QED
      BY <3>1, SumEmpty
  <2>2. Below(0) = {}
    OBVIOUS
  <2>3. Cardinality(Below(0)) = 0
    BY <2>2, FS_EmptySet
  <2>4. QED
    BY <1>4, <2>1, <2>3
<1>6. PICK p \in 0 .. N : p \in Nat /\ r = p + 1 /\ p < r /\ r \in 1 .. N /\ r - 1 = p
  <2>1. /\ r - 1 \in 0 .. N /\ r - 1 \in Nat /\ r = (r - 1) + 1 /\ r - 1 < r /\ r \in 1 .. N
    BY <1>4, <1>5
  <2>2. QED
    BY <2>1
<1>7. SumFunctionOnSet(c, 1 .. p) = Cardinality(Below(p))
  <2>1. ~ (r <= p)
    BY <1>6
  <2>2. QED
    BY <1>3, <1>6, <2>1
<1>8. SumFunctionOnSet(c, 1 .. r) = c[r] + SumFunctionOnSet(c, 1 .. p)
  <2>1. (1 .. p) \cup {r} = 1 .. r /\ r \notin 1 .. p
    BY <1>6
  <2>2. IsFiniteSet(1 .. p)
    <3>1. 1 \in Int /\ p \in Int
      BY <1>6
    <3>2. QED
      BY <3>1, FS_Interval
  <2>3. \A y \in (1 .. p) \cup {r} : c[y] \in Int
    <3>1. \A y \in 1 .. r : y \in 1 .. N
      BY <1>6
    <3>2. QED
      BY <1>2, <2>1, <3>1
  <2>4. SumFunctionOnSet(c, (1 .. p) \cup {r}) = c[r] + SumFunctionOnSet(c, 1 .. p)
    BY <2>1, <2>2, <2>3, SumAdd
  <2>5. QED
    BY <2>1, <2>4
<1> DEFINE E == {i \in S : class[i] = p}
<1>9. c[r] = Cardinality(E)
  BY <1>6
<1>10. Below(r) = Below(p) \cup E /\ Below(p) \cap E = {}
  BY <1>6
<1>11. Below(p) \in SUBSET S /\ E \in SUBSET S
  OBVIOUS
<1>12. Cardinality(Below(r)) = Cardinality(Below(p)) + Cardinality(E)
  <2>1. IsFiniteSet(Below(p)) /\ IsFiniteSet(E) /\ Cardinality(Below(p)) \in Nat /\ Cardinality(E) \in Nat
    BY <1>1, <1>11
  <2> HIDE DEF Below, E
  <2>2. Cardinality(Below(p) \cup E) = Cardinality(Below(p)) + Cardinality(E) - Cardinality(Below(p) \cap E)
    BY <2>1, FS_Union
  <2>3. Cardinality(Below(p) \cap E) = 0
    BY <1>10, FS_EmptySet
  <2>4. Cardinality(Below(p) \cup E) = Cardinality(Below(p)) + Cardinality(E)
    BY <2>1, <2>2, <2>3
  <2>5. QED
    BY <1>10, <2>4
<1>13. Cardinality(Below(p)) \in Nat /\ Cardinality(E) \in Nat
  BY <1>1, <1>11
<1> HIDE DEF Below, E, Bad
<1>14. QED
  BY <1>4, <1>7, <1>8, <1>9, <1>12, <1>13

\* When all threads have come to a stage behind the counting, every element is counted.
LEMMA SmallCounted ==
    ASSUME SmallInv, path = "small", Met(4)
    PROVE  /\ \A u \in Thread : stage[u] > 2
           /\ \A u, e : RowCounted(u, e) = {i \in Live(e) : (i % stride) = u}
<1>0. AlignThreads /\ AlignInput
  BY DEF SmallInv, AlignThreads
<1>1. \A u \in Thread : stage[u] \in Nat /\ stage[u] >= 4
  BY <1>0, SmallAt DEF Met
<1>2. \A i \in Element : Handled(3, i)
  <2> SUFFICES ASSUME NEW i \in Element PROVE Handled(3, i)
    OBVIOUS
  <2>1. (i % stride) \in Thread
    <3>1. stride \in Nat \ {0} /\ i \in Nat
      BY <1>0, AlignSizes
    <3>2. QED
      BY <3>1, Modulo DEF Thread
  <2>2. stage[i % stride] > 3
    BY <1>1, <2>1
  <2>3. QED
    BY <2>2 DEF Handled
<1>3. \A e : Live(e) \subseteq Element
  BY <1>0, AlignRouting
<1>4. \A u \in Thread : stage[u] > 2
  BY <1>1
<1>5. QED
  BY <1>2, <1>3, <1>4 DEF RowCounted

\* small: the thread of an expert turns its counts into running sums over the rows.
LEMMA SmallPrefix ==
    ASSUME SmallInv, path = "small", NEW t \in Thread, Prefix(t)
    PROVE  SmallInv'
<1>0. /\ AlignThreads /\ AlignInput /\ AlignMemory /\ SmallCounts
      /\ At(t, "prefix") /\ Advance(t) /\ UNCHANGED <<inputVars, fillVars>> /\ UNCHANGED inputVars
      /\ cumsum' = cumsum /\ sorted_token_ids' = sorted_token_ids
      /\ expert_ids' = expert_ids /\ src_dst' = src_dst
      /\ total_tokens_post_pad' = total_tokens_post_pad
      /\ counts' = IF t \in Expert
                   THEN [r \in DOMAIN counts |->
                           [counts[r] EXCEPT ![t] = SumFunctionOnSet([q \in 1 .. r |-> counts[q][t]], 1 .. r)]]
                   ELSE counts
  BY DEF SmallInv, AlignThreads, Prefix, outputVars
<1>1. /\ AlignThreads' /\ Layout' /\ Marks' /\ SmallOffsets'
      /\ stage'[t] = stage[t] + 1
      /\ \A u \in Thread : \A s \in Nat : s # stage[t] => (stage'[u] > s <=> stage[u] > s)
      /\ \A u \in Thread \ {t} : stage'[u] = stage[u]
      /\ \A u, e : RowCounted(u, e)' = RowCounted(u, e) /\ RowPlaced(u, e)' = RowPlaced(u, e)
  BY <1>0, SmallAdvance
<1>2. stage[t] = 4 /\ Len(Program) = 9 /\ Met(4)
  <2>1. stage[t] = 4 /\ Len(Program) = 9 /\ Met(Gate(stage[t]))
    BY <1>0, SmallStage, SmallAt
  <2>2. Gate(4) = 4
    BY DEF Gate
  <2>3. QED
    BY <2>1, <2>2
<1>3. /\ Expert \subseteq Thread /\ Thread \subseteq Nat /\ Thread' = Thread /\ stride' = stride
      /\ stride \in Nat
      /\ \A u \in Thread : u + 1 \in 0 .. stride
  <2>1. stride \in Nat \ {0} /\ Expert \subseteq Thread /\ Thread \subseteq Nat
    BY <1>0, AlignSizes
  <2>2. QED
    BY <1>0, <2>1, LaunchFrame DEF Thread
<1>4. counts \in [0 .. stride -> [Expert -> Nat]]
  BY <1>0 DEF AlignMemory
<1>5. ASSUME t \in Expert
      PROVE  \A r \in 0 .. stride : /\ SumFunctionOnSet([q \in 1 .. r |-> counts[q][t]], 1 .. r)
                                         = Cardinality(RowPlaced(r, t))
                                    /\ Cardinality(RowPlaced(r, t)) \in Nat
  <2>1. \A u \in Thread : counts[u + 1][t] = Cardinality({i \in Live(t) : (i % stride) = u})
    <3>1. ~ (stage[t] > 4)
      BY <1>2
    <3>2. \A u \in Thread : stage[u] > 2 /\ RowCounted(u, t) = {i \in Live(t) : (i % stride) = u}
      BY <1>2, SmallCounted
    <3>3. \A u \in Thread : counts[u + 1][t] = Cardinality(RowCounted(u, t))
      BY <1>0, <1>5, <3>1, <3>2 DEF SmallCounts
    <3>4. QED
      BY <3>2, <3>3
  <2>2. PICK class \in [Live(t) -> Nat] : \A i \in Live(t) : class[i] = (i % stride)
    <3>1. \A i \in Live(t) : (i % stride) \in Nat
      <4> SUFFICES ASSUME NEW i \in Live(t) PROVE (i % stride) \in Nat
        OBVIOUS
      <4>1. i \in Nat /\ stride \in Nat \ {0}
        BY <1>0, AlignRouting, AlignSizes
      <4>2. (i % stride) \in 0 .. stride - 1
        BY <4>1, Modulo
      <4>3. QED
        BY <4>2
    <3>2. [i \in Live(t) |-> (i % stride)] \in [Live(t) -> Nat]
      BY <3>1
    <3>3. QED
      BY <3>2
  <2>3. PICK c : c = [q \in 1 .. stride |-> counts[q][t]]
    OBVIOUS
  <2>4. \A q \in 1 .. stride : c[q] = Cardinality({i \in Live(t) : class[i] = q - 1})
    <3> SUFFICES ASSUME NEW q \in 1 .. stride
                 PROVE  c[q] = Cardinality({i \in Live(t) : class[i] = q - 1})
      OBVIOUS
    <3>1. PICK u \in Thread : u = q - 1 /\ u + 1 = q
      <4>1. q - 1 \in Thread /\ (q - 1) + 1 = q
        BY <1>3 DEF Thread
      <4>2. QED
        BY <4>1
    <3>2. {i \in Live(t) : class[i] = q - 1} = {i \in Live(t) : (i % stride) = u}
      BY <2>2, <3>1
    <3>3. c[q] = counts[q][t]
      BY <2>3
    <3>4. QED
      BY <2>1, <3>1, <3>2, <3>3
  <2>5. IsFiniteSet(Live(t))
    BY <1>0, AlignRouting
  <2>6. \A r \in 0 .. stride : SumFunctionOnSet(c, 1 .. r) = Cardinality({i \in Live(t) : class[i] < r})
    <3>1. stride \in Nat
      BY <1>3
    <3>2. class \in [Live(t) -> Nat]
      BY <2>2
    <3>3. QED
      BY <2>4, <2>5, <3>1, <3>2, RunningSum
  <2>7. \A i \in Element : ~ Handled(7, i)
    <3>1. 7 \in 1 .. Len(Program) /\ Gate(7) = 6 /\ 7 \in Nat
      BY <1>2 DEF Gate
    <3>2. \A u \in Thread : ~ Begun(u, 7)
      BY <1>0, <1>2, <3>1, NotYet
    <3>3. QED
      BY <1>0, <3>1, <3>2, HandledBegun
  <2>8. \A r : RowPlaced(r, t) = {i \in Live(t) : class[i] < r}
    <3>1. Live(t) \subseteq Element
      BY <1>0, AlignRouting
    <3>2. QED
      BY <2>2, <2>7, <3>1 DEF RowPlaced
  <2>9. ASSUME NEW r \in 0 .. stride
        PROVE  SumFunctionOnSet([q \in 1 .. r |-> counts[q][t]], 1 .. r) = SumFunctionOnSet(c, 1 .. r)
    <3>1. IsFiniteSet(1 .. r)
      <4>1. 1 \in Int /\ r \in Int
        BY <1>3
      <4>2. QED
        BY <4>1, FS_Interval
    <3>2. \A q \in 1 .. r : q \in 1 .. stride /\ q \in 0 .. stride
      BY <1>3
    <3>3. PICK g : g = [q \in 1 .. r |-> counts[q][t]]
      OBVIOUS
    <3>4. \A q \in 1 .. r : g[q] \in Int /\ g[q] = c[q]
      BY <1>4, <1>5, <2>3, <3>2, <3>3
    <3>5. SumFunctionOnSet(g, 1 .. r) = SumFunctionOnSet(c, 1 .. r)
      BY <3>1, <3>4, SumSame
    <3>6. QED
      BY <3>3, <3>5
  <2>10. \A r : Cardinality(RowPlaced(r, t)) \in Nat
    <3>1. \A r : RowPlaced(r, t) \in SUBSET Live(t)
      BY DEF RowPlaced
    <3>2. QED
      BY <2>5, <3>1, FS_Subset, FS_CardinalityType
  <2>11. QED
    BY <2>6, <2>8, <2>9, <2>10
<1>6. /\ counts' \in [0 .. stride -> [Expert -> Nat]]
      /\ t \in Expert => \A r \in 0 .. stride : counts'[r][t] = Cardinality(RowPlaced(r, t))
      /\ \A e \in Expert \ {t} : \A r \in 0 .. stride : counts'[r][e] = counts[r][e]
  <2>1. CASE t \in Expert
    <3>1. PICK f \in [0 .. stride -> Nat] : \A r \in 0 .. stride : f[r] = Cardinality(RowPlaced(r, t))
      <4>1. [r \in 0 .. stride |-> Cardinality(RowPlaced(r, t))] \in [0 .. stride -> Nat]
        BY <1>5, <2>1
      <4>2. QED
        BY <4>1
    <3>2. counts' = [r \in 0 .. stride |-> [counts[r] EXCEPT ![t] = f[r]]]
      <4>1. DOMAIN counts = 0 .. stride
        BY <1>4
      <4>2. \A r \in 0 .. stride : SumFunctionOnSet([q \in 1 .. r |-> counts[q][t]], 1 .. r) = f[r]
        BY <1>5, <2>1, <3>1
      <4>3. QED
        BY <1>0, <2>1, <4>1, <4>2
    <3>3. \A r \in 0 .. stride : counts[r] \in [Expert -> Nat] /\ f[r] \in Nat
      BY <1>4
    <3>4. \A r \in 0 .. stride : [counts[r] EXCEPT ![t] = f[r]] \in [Expert -> Nat]
      BY <3>3
    <3>5. counts' \in [0 .. stride -> [Expert -> Nat]]
      BY <3>2, <3>4
    <3>6. \A r \in 0 .. stride : counts'[r][t] = f[r]
      BY <2>1, <3>2, <3>3
    <3>7. \A e \in Expert \ {t} : \A r \in 0 .. stride : counts'[r][e] = counts[r][e]
      BY <3>2, <3>3
    <3>8. QED
      BY <3>1, <3>5, <3>6, <3>7
  <2>2. CASE t \notin Expert
    BY <1>0, <1>4, <2>2
  <2>3. QED
    BY <2>1, <2>2
<1>7. SmallCounts'
  <2>1. ASSUME NEW e \in Expert, e # t
        PROVE  /\ ~ (stage'[e] > 4) => \A u \in Thread : stage'[u] > 2 => counts'[u + 1][e] = Cardinality(RowCounted(u, e)')
               /\ stage'[e] > 4 => \A r \in 0 .. stride : counts'[r][e] = Cardinality(RowPlaced(r, e)')
    <3>1. stage'[e] = stage[e] /\ \A u \in Thread : stage'[u] > 2 <=> stage[u] > 2
      BY <1>1, <1>2, <1>3, <2>1
    <3>2. \A r \in 0 .. stride : counts'[r][e] = counts[r][e]
      BY <1>6, <2>1
    <3>3. \A u \in Thread : counts'[u + 1][e] = counts[u + 1][e]
      BY <1>3, <3>2
    <3>4. QED
      BY <1>0, <1>1, <3>1, <3>2, <3>3 DEF SmallCounts
  <2>2. ASSUME t \in Expert
        PROVE  stage'[t] > 4 /\ \A r \in 0 .. stride : counts'[r][t] = Cardinality(RowPlaced(r, t)')
    <3>1. stage'[t] > 4
      BY <1>1, <1>2
    <3>2. QED
      BY <1>1, <1>6, <2>2, <3>1
  <2>3. QED
    BY <1>3, <2>1, <2>2 DEF SmallCounts
<1>8. AlignMemory'
  BY <1>0, <1>6, MemoryFrame DEF AlignMemory
<1>9. QED
  BY <1>1, <1>7, <1>8 DEF SmallInv

\* Once the rows are summed, the scan finds the slots that are due.
LEMMA SmallScanned ==
    ASSUME SmallInv, path = "small", Met(5)
    PROVE  /\ \A e \in Expert : padded(e) = due(e)
           /\ \A e \in 0 .. num_experts : first_slot(e) = due_before(e)
<1>0. AlignThreads /\ AlignInput /\ SmallCounts
  BY DEF SmallInv, AlignThreads
<1>1. \A u \in Thread : stage[u] \in Nat /\ stage[u] >= 5
  BY <1>0, SmallAt DEF Met
<1>2. Expert \subseteq Thread /\ stride \in Nat \ {0} /\ stride \in 0 .. stride
  <2>1. stride \in Nat \ {0} /\ Expert \subseteq Thread
    BY <1>0, AlignSizes
  <2>2. QED
    BY <2>1
<1>3. \A e : RowPlaced(stride, e) = Live(e)
  <2>1. \A e : \A i \in Live(e) : (i % stride) < stride
    <3> SUFFICES ASSUME NEW e, NEW i \in Live(e) PROVE (i % stride) < stride
      OBVIOUS
    <3>1. i \in Nat
      BY <1>0, AlignRouting, AlignSizes
    <3>2. PICK m \in 0 .. stride - 1 : m = (i % stride)
      BY <1>2, <3>1, Modulo
    <3>3. QED
      BY <1>2, <3>2
  <2>2. QED
    BY <2>1 DEF RowPlaced
<1>4. \A e \in Expert : padded(e) = due(e)
  <2> SUFFICES ASSUME NEW e \in Expert PROVE padded(e) = due(e)
    OBVIOUS
  <2>1. stage[e] > 4
    BY <1>1, <1>2
  <2>2. counts[stride][e] = Cardinality(Live(e))
    BY <1>0, <1>2, <1>3, <2>1 DEF SmallCounts
  <2>3. padded(e) = round_up(counts[stride][e], block_size)
    BY DEF padded
  <2>4. due(e) = round_up(Cardinality(Live(e)), block_size)
    BY DEF due, Live
  <2>5. QED
    BY <2>2, <2>3, <2>4
<1>5. \A e : first_slot(e) = due_before(e)
  <2>1. [x \in Expert |-> padded(x)] = [x \in Expert |-> due(x)]
    BY <1>4
  <2>2. QED
    BY <2>1 DEF first_slot, due_before
<1>6. QED
  BY <1>4, <1>5

\* small: thread 0 stores the offsets and the total.
LEMMA SmallScan ==
    ASSUME SmallInv, path = "small", NEW t \in Thread, Scan(t)
    PROVE  SmallInv'
<1>0. /\ AlignThreads /\ AlignInput /\ AlignMemory /\ SmallOffsets
      /\ At(t, "scan") /\ Advance(t) /\ UNCHANGED <<inputVars, fillVars>> /\ UNCHANGED inputVars
      /\ counts' = counts /\ sorted_token_ids' = sorted_token_ids
      /\ expert_ids' = expert_ids /\ src_dst' = src_dst
      /\ cumsum' = IF t = 0 THEN [e \in 0 .. num_experts |-> first_slot(e)] ELSE cumsum
      /\ total_tokens_post_pad' = IF t = 0 THEN first_slot(num_experts) ELSE total_tokens_post_pad
  BY DEF SmallInv, AlignThreads, Scan
<1>1. /\ AlignThreads' /\ Layout' /\ Marks' /\ SmallCounts'
      /\ \A u \in Thread \ {t} : stage'[u] = stage[u]
  BY <1>0, SmallAdvance
<1>2. Met(5)
  <2>1. stage[t] = 5 /\ Met(Gate(stage[t]))
    BY <1>0, SmallStage
  <2>2. Gate(5) = 5
    BY DEF Gate
  <2>3. QED
    BY <2>1, <2>2
<1>3. /\ \A e : due_before(e)' = due_before(e)
      /\ due_total' = due_total /\ 0 \in Thread /\ num_experts \in 0 .. num_experts
  <2>1. stride \in Nat \ {0} /\ num_experts \in Nat
    BY <1>0, AlignSizes
  <2>2. 0 \in Thread /\ num_experts \in 0 .. num_experts
    BY <2>1 DEF Thread
  <2>3. QED
    BY <1>0, <2>2, DueFrame
<1>4. \A e \in 0 .. num_experts : first_slot(e) = due_before(e) /\ due_before(e) \in Nat
  BY <1>0, <1>2, SmallScanned, Due
<1>5. /\ cumsum' = IF t = 0 THEN [e \in 0 .. num_experts |-> due_before(e)] ELSE cumsum
      /\ total_tokens_post_pad' = IF t = 0 THEN due_total ELSE total_tokens_post_pad
      /\ due_total \in Nat
  BY <1>0, <1>3, <1>4 DEF due_total
<1>6. SmallOffsets'
  <2>1. CASE t = 0
    BY <1>3, <1>5, <2>1 DEF SmallOffsets
  <2>2. CASE t # 0
    BY <1>0, <1>1, <1>3, <1>5, <2>2 DEF SmallOffsets
  <2>3. QED
    BY <2>1, <2>2
<1>7. AlignMemory'
  <2>1. total_tokens_post_pad' \in Nat
    BY <1>0, <1>5 DEF AlignMemory
  <2>2. cumsum' \in [0 .. num_experts -> Nat]
    <3>1. [e \in 0 .. num_experts |-> due_before(e)] \in [0 .. num_experts -> Nat]
      BY <1>4
    <3>2. cumsum \in [0 .. num_experts -> Nat]
      BY <1>0 DEF AlignMemory
    <3>3. QED
      BY <1>5, <3>1, <3>2
  <2>3. QED
    BY <1>0, <2>1, <2>2, MemoryFrame DEF AlignMemory
<1>8. QED
  BY <1>1, <1>6, <1>7 DEF SmallInv

\* small: a thread marks the blocks of its expert.
LEMMA SmallIds ==
    ASSUME SmallInv, path = "small", NEW t \in Thread, ExpertIds(t)
    PROVE  SmallInv'
<1>0. /\ AlignThreads /\ AlignInput /\ AlignMemory /\ Marks /\ SmallOffsets
      /\ At(t, "ids") /\ Advance(t) /\ UNCHANGED <<inputVars, fillVars>> /\ UNCHANGED inputVars
      /\ counts' = counts /\ cumsum' = cumsum /\ sorted_token_ids' = sorted_token_ids
      /\ src_dst' = src_dst /\ total_tokens_post_pad' = total_tokens_post_pad
  BY DEF SmallInv, AlignThreads, ExpertIds
<1>1. /\ AlignThreads' /\ Layout' /\ SmallCounts' /\ SmallOffsets'
      /\ \A u \in Thread \ {t} : stage'[u] = stage[u]
      /\ stage[0] # 9 /\ stage'[0] # 9
  BY <1>0, SmallAdvance
<1>2. Met(6) /\ Len(Program) = 9
  <2>1. stage[t] = 6 /\ Met(Gate(stage[t])) /\ Len(Program) = 9
    BY <1>0, SmallStage, SmallAt
  <2>2. Gate(6) = 6
    BY DEF Gate
  <2>3. QED
    BY <2>1, <2>2
<1>3. /\ num_experts \in Nat \ {0} /\ block_size \in Nat \ {0} /\ 0 \in Thread
      /\ num_experts \in 0 .. num_experts
      /\ \A e \in Expert : e \in 0 .. num_experts /\ e + 1 \in 0 .. num_experts
  <2>1. stride \in Nat \ {0} /\ num_experts \in Nat \ {0} /\ block_size \in Nat \ {0}
    BY <1>0, AlignSizes
  <2>2. 0 \in Thread
    BY <2>1 DEF Thread
  <2>3. \A e \in Expert : e \in 0 .. num_experts /\ e + 1 \in 0 .. num_experts
    BY <2>1 DEF Expert
  <2>4. QED
    BY <2>1, <2>2, <2>3
<1>4. \A e \in 0 .. num_experts : cumsum[e] = first_block(e) * block_size /\ first_block(e) \in Nat
  <2>1. stage[0] > 5
    <3>1. stage[0] >= 6 /\ stage[0] \in Nat
      BY <1>0, <1>2, <1>3, SmallAt DEF Met
    <3>2. QED
      BY <3>1
  <2>2. \A e \in 0 .. num_experts : cumsum[e] = due_before(e)
    BY <1>0, <2>1 DEF SmallOffsets
  <2>3. QED
    BY <1>0, <2>2, Due
<1>5. PICK mine, rest :
        /\ mine = IF t \in Expert THEN first_block(t) .. first_block(t + 1) - 1 ELSE {}
        /\ rest = IF path = "batched" THEN {}
                  ELSE Strided(first_block(num_experts) + t, stride, max_num_m_blocks)
  OBVIOUS
<1>6. expert_ids' = Overwrite(Overwrite(expert_ids, mine, t), rest, NoExpert)
  <2>1. mine = IF t \in Expert THEN {k \div block_size : k \in Strided(cumsum[t], block_size, cumsum[t + 1])}
               ELSE {}
    <3>1. CASE t \in Expert
      <4>1. /\ cumsum[t] = first_block(t) * block_size /\ first_block(t) \in Nat
            /\ cumsum[t + 1] = first_block(t + 1) * block_size /\ first_block(t + 1) \in Nat
        BY <1>3, <1>4, <3>1
      <4>2. {k \div block_size : k \in Strided(first_block(t) * block_size, block_size,
                                               first_block(t + 1) * block_size)}
            = first_block(t) .. first_block(t + 1) - 1
        BY <1>3, <4>1, BlockStarts
      <4>3. QED
        BY <1>5, <3>1, <4>1, <4>2
    <3>2. CASE t \notin Expert
      BY <1>5, <3>2
    <3>3. QED
      BY <3>1, <3>2
  <2>2. rest = Strided(cumsum[num_experts] \div block_size + t, stride, max_num_m_blocks)
    <3>1. cumsum[num_experts] = first_block(num_experts) * block_size /\ first_block(num_experts) \in Nat
      BY <1>3, <1>4
    <3>2. (first_block(num_experts) * block_size) \div block_size = first_block(num_experts)
      BY <1>3, <3>1, InBlock
    <3>3. QED
      BY <1>5, <3>1, <3>2
  <2>3. expert_ids' = Overwrite(Overwrite(expert_ids,
                         IF t \in Expert THEN {k \div block_size : k \in Strided(cumsum[t], block_size, cumsum[t + 1])}
                         ELSE {}, t),
                       Strided(cumsum[num_experts] \div block_size + t, stride, max_num_m_blocks), NoExpert)
    BY DEF ExpertIds
  <2>4. QED
    BY <2>1, <2>2, <2>3
<1>7. Marks' /\ expert_ids' \in [Block -> Expert \cup {NoExpert, Garbage}]
  <2>1. stage[0] # Len(Program) /\ stage'[0] # Len(Program)
    BY <1>1, <1>2
  <2>2. \A u \in Thread \ {t} : stage'[u] = stage[u]
    BY <1>1
  <2>3. QED
    BY <1>0, <1>5, <1>6, <2>1, <2>2, MarksStep
<1>8. AlignMemory'
  BY <1>0, <1>7, MemoryFrame DEF AlignMemory
<1>9. QED
  BY <1>1, <1>7, <1>8 DEF SmallInv

\* small: an element without an expert or outside the adapter is passed over.
LEMMA SmallSkip ==
    ASSUME SmallInv, path = "small", NEW t \in Thread, Skip(t)
    PROVE  SmallInv'
<1>0. /\ AlignThreads /\ AlignInput /\ AlignMemory /\ Marks /\ Layout /\ SmallCounts /\ SmallOffsets
      /\ At(t, "place") /\ next' = [next EXCEPT ![t] = @ + stride]
      /\ expert_id(next[t]) = NoExpert \/ ~ token_mask(next[t])
      /\ UNCHANGED <<inputVars, fillVars>> /\ UNCHANGED <<inputVars, fill>> /\ UNCHANGED inputVars
      /\ stage' = stage /\ rank' = rank
      /\ counts' = counts /\ cumsum' = cumsum /\ sorted_token_ids' = sorted_token_ids
      /\ expert_ids' = expert_ids /\ src_dst' = src_dst /\ total_tokens_post_pad' = total_tokens_post_pad
  BY DEF SmallInv, AlignThreads, Skip, outputVars, fillVars
<1>1. Met(Gate(stage[t])) /\ rank[t] = NoExpert
  BY <1>0, SmallStage, SmallAt
<1>2. /\ AlignThreads'
      /\ \A s \in Nat : \A i \in Element : Handled(s, i)' <=> Handled(s, i) \/ (stage[t] = s /\ i = next[t])
  BY <1>0, <1>1, MoveStep
<1>3. \A i \in Routed : (Handled(3, i)' <=> Handled(3, i)) /\ (Handled(7, i)' <=> Handled(7, i))
  <2>1. next[t] \notin Routed
    BY <1>0 DEF Routed
  <2>2. 3 \in Nat /\ 7 \in Nat /\ Routed \subseteq Element
    BY <1>0, AlignRouting
  <2>3. QED
    BY <1>2, <2>1, <2>2
<1>4. /\ \A u, e : RowCounted(u, e)' = RowCounted(u, e) /\ RowPlaced(u, e)' = RowPlaced(u, e)
      /\ Stored' = Stored /\ \A i : Slots(i)' = Slots(i)
      /\ \A k : Filled(k)' <=> Filled(k)
  BY <1>0, <1>3, SmallSame
<1>5. Layout' /\ Marks' /\ SmallCounts' /\ SmallOffsets'
  <2>1. Layout'
    BY <1>0, <1>4, LayoutFrame
  <2>2. Marks'
    BY <1>0, MarksFrame
  <2>3. SmallCounts'
    BY <1>0, <1>4, SmallKept
  <2>4. SmallOffsets'
    BY <1>0, SmallOffsetsKept
  <2>5. QED
    BY <2>1, <2>2, <2>3, <2>4
<1>6. AlignMemory'
  BY <1>0, MemoryFrame DEF AlignMemory
<1>7. QED
  BY <1>2, <1>5, <1>6 DEF SmallInv

\* The home of an element is a slot of its expert's, and no other element's.
LEMMA SmallHome ==
    ASSUME AlignInput, path = "small", NEW e \in Expert, NEW i \in Live(e)
    PROVE  /\ home(i) = due_before(e) + Cardinality(Before(i)) /\ home(i) \in Region(e)
           /\ IsFiniteSet(Before(i)) /\ Cardinality(Before(i)) \in Nat
<1>1. expert_id(i) = e
  BY DEF Live
<1>2. home(i) = due_before(e) + Cardinality(Before(i))
  BY <1>1 DEF home
<1>3. Before(i) \in SUBSET Live(e) /\ Before(i) \cup {i} \in SUBSET Live(e) /\ IsFiniteSet(Live(e))
  BY <1>1, AlignRouting DEF Before
<1>4. IsFiniteSet(Before(i)) /\ Cardinality(Before(i)) \in Nat
  BY <1>3, FS_Subset, FS_CardinalityType
<1>5. i \notin Before(i)
  <2>1. i \in Nat /\ stride \in Nat \ {0}
    BY AlignRouting, AlignSizes
  <2>2. (i % stride) \in 0 .. stride - 1
    BY <2>1, Modulo
  <2>3. PICK m \in Nat : m = (i % stride)
    BY <2>2
  <2>4. ~ (m < m) /\ ~ (i < i)
    BY <2>1
  <2>5. QED
    BY <2>3, <2>4 DEF Before
<1>6. Cardinality(Before(i)) < Cardinality(Live(e)) /\ Cardinality(Live(e)) \in Nat
  <2>1. Cardinality(Before(i) \cup {i}) = Cardinality(Before(i)) + 1
    BY <1>4, <1>5, FS_AddElement
  <2>2. Cardinality(Before(i) \cup {i}) <= Cardinality(Live(e)) /\ Cardinality(Live(e)) \in Nat
    BY <1>3, FS_Subset, FS_CardinalityType
  <2>3. QED
    BY <1>4, <2>1, <2>2
<1>7. home(i) \in Region(e)
  <2>1. due_before(e) \in Nat /\ due(e) \in Nat /\ Cardinality(Live(e)) <= due(e)
    <3>1. e \in 0 .. num_experts
      BY AlignSizes DEF Expert
    <3>2. QED
      BY <3>1, Due
  <2>2. PICK a \in Nat, c \in Nat, b \in Nat, l \in Nat :
           a = due_before(e) /\ c = due(e) /\ b = Cardinality(Before(i)) /\ l = Cardinality(Live(e))
    BY <1>4, <1>6, <2>1
  <2>3. b < l /\ l <= c
    BY <1>6, <2>1, <2>2
  <2>4. a + b \in a .. a + c - 1
    BY <2>2, <2>3
  <2>5. QED
    BY <1>2, <2>2, <2>4 DEF Region
<1>8. QED
  BY <1>2, <1>4, <1>7

\* Of two elements of an expert one is before the other.
LEMMA SmallOrder ==
    ASSUME AlignInput, path = "small", NEW e \in Expert, NEW i \in Live(e), NEW j \in Live(e), i # j,
           Cardinality(Before(i)) = Cardinality(Before(j))
    PROVE  FALSE
<1>1. expert_id(i) = e /\ expert_id(j) = e
  BY DEF Live
<1>2. \A y \in Live(e) : y \in Nat /\ (y % stride) \in Nat
  <2> SUFFICES ASSUME NEW y \in Live(e) PROVE y \in Nat /\ (y % stride) \in Nat
    OBVIOUS
  <2>1. y \in Nat /\ stride \in Nat \ {0}
    BY AlignRouting, AlignSizes
  <2>2. (y % stride) \in 0 .. stride - 1
    BY <2>1, Modulo
  <2>3. QED
    BY <2>1, <2>2
<1>3. PICK class \in [Live(e) -> Nat] : \A y \in Live(e) : class[y] = (y % stride)
  <2>1. [y \in Live(e) |-> (y % stride)] \in [Live(e) -> Nat]
    BY <1>2
  <2>2. QED
    BY <2>1
<1>4. \A y \in Live(e) : Before(y) = {z \in Live(e) : class[z] < class[y] \/ (class[z] = class[y] /\ z < y)}
  <2> SUFFICES ASSUME NEW y \in Live(e)
               PROVE  Before(y) = {z \in Live(e) : class[z] < class[y] \/ (class[z] = class[y] /\ z < y)}
    OBVIOUS
  <2>1. expert_id(y) = e
    BY DEF Live
  <2>2. Before(y) = {z \in Live(e) : (z % stride) < (y % stride) \/ ((z % stride) = (y % stride) /\ z < y)}
    BY <2>1 DEF Before
  <2>3. QED
    BY <1>3, <2>2
<1>5. ASSUME NEW x \in Live(e), NEW y \in Live(e), class[x] < class[y] \/ (class[x] = class[y] /\ x < y)
      PROVE  Cardinality(Before(x)) < Cardinality(Before(y))
  <2>0. \A z \in Live(e) : z \in Nat /\ class[z] \in Nat
    BY <1>2, <1>3
  <2>1. x \notin Before(x)
    BY <1>4, <2>0
  <2>2. Before(x) \cup {x} \subseteq Before(y)
    <3> SUFFICES ASSUME NEW z \in Before(x) \cup {x} PROVE z \in Before(y)
      OBVIOUS
    <3>1. z \in Live(e) /\ (z = x \/ class[z] < class[x] \/ (class[z] = class[x] /\ z < x))
      BY <1>4
    <3>2. class[z] < class[y] \/ (class[z] = class[y] /\ z < y)
      BY <1>5, <2>0, <3>1
    <3>3. QED
      BY <1>4, <3>1, <3>2
  <2>3. /\ IsFiniteSet(Before(x)) /\ Cardinality(Before(x)) \in Nat
        /\ IsFiniteSet(Before(y)) /\ Cardinality(Before(y)) \in Nat
    BY SmallHome
  <2>4. Cardinality(Before(x) \cup {x}) = Cardinality(Before(x)) + 1
    BY <2>1, <2>3, FS_AddElement
  <2>5. Cardinality(Before(x) \cup {x}) <= Cardinality(Before(y))
    BY <2>2, <2>3, FS_Subset
  <2>6. QED
    BY <2>3, <2>4, <2>5
<1>6. \/ class[i] < class[j] \/ (class[i] = class[j] /\ i < j)
      \/ class[j] < class[i] \/ (class[j] = class[i] /\ j < i)
  <2>1. i \in Nat /\ j \in Nat /\ class[i] \in Nat /\ class[j] \in Nat
    BY <1>2, <1>3
  <2>2. QED
    BY <2>1
<1>7. Cardinality(Before(i)) \in Nat /\ Cardinality(Before(j)) \in Nat
  BY SmallHome
<1>8. CASE class[i] < class[j] \/ (class[i] = class[j] /\ i < j)
  <2>1. Cardinality(Before(i)) < Cardinality(Before(j))
    BY <1>5, <1>8
  <2>2. QED
    BY <1>7, <2>1
<1>9. CASE class[j] < class[i] \/ (class[j] = class[i] /\ j < i)
  <2>1. Cardinality(Before(j)) < Cardinality(Before(i))
    BY <1>5, <1>9
  <2>2. QED
    BY <1>7, <2>1
<1>10. QED
  BY <1>6, <1>8, <1>9

\* small: no two elements have the same home.
LEMMA SmallHomesDiffer ==
    ASSUME AlignInput, path = "small", NEW i \in Routed, NEW j \in Routed, home(i) = home(j)
    PROVE  i = j
<1>1. PICK d \in Expert : d = expert_id(i) /\ i \in Live(d)
  BY AlignRouting
<1>2. PICK e \in Expert : e = expert_id(j) /\ j \in Live(e)
  BY AlignRouting
<1>3. home(i) = due_before(d) + Cardinality(Before(i)) /\ home(i) \in Region(d) /\ Cardinality(Before(i)) \in Nat
  BY <1>1, SmallHome
<1>4. home(j) = due_before(e) + Cardinality(Before(j)) /\ home(j) \in Region(e) /\ Cardinality(Before(j)) \in Nat
  BY <1>2, SmallHome
<1>5. d = e
  <2>1. \A x \in Expert : home(i) \in Region(x) => x = d
    BY <1>3, Regions
  <2>2. home(i) \in Region(e)
    BY <1>4
  <2>3. QED
    BY <2>1, <2>2
<1>6. Cardinality(Before(i)) = Cardinality(Before(j))
  <2>1. due_before(d) \in Nat
    <3>1. d \in 0 .. num_experts
      BY AlignSizes DEF Expert
    <3>2. QED
      BY <3>1, Due
  <2>2. PICK a \in Nat, b \in Nat, c \in Nat :
           a = due_before(d) /\ b = Cardinality(Before(i)) /\ c = Cardinality(Before(j))
    BY <1>3, <1>4, <2>1
  <2>3. a + b = a + c
    BY <1>3, <1>4, <1>5, <2>2
  <2>4. QED
    BY <2>2, <2>3
<1>7. i \in Live(d) /\ j \in Live(d)
  BY <1>1, <1>2, <1>5
<1>8. QED
  BY <1>6, <1>7, SmallOrder

\* small: an element is stored at its home, and its thread's row moves on.
LEMMA SmallPlace ==
    ASSUME SmallInv, path = "small", NEW t \in Thread, PlaceFromRow(t)
    PROVE  SmallInv'
<1>0. /\ AlignThreads /\ AlignInput /\ AlignMemory /\ Marks /\ Layout /\ SmallCounts /\ SmallOffsets
      /\ At(t, "place") /\ next[t] < n /\ next' = [next EXCEPT ![t] = @ + stride]
      /\ expert_id(next[t]) # NoExpert /\ token_mask(next[t])
      /\ UNCHANGED <<inputVars, fillVars>> /\ UNCHANGED inputVars /\ stage' = stage /\ rank' = rank
      /\ fill' = fill
      /\ cumsum' = cumsum /\ expert_ids' = expert_ids
      /\ src_dst' = src_dst /\ total_tokens_post_pad' = total_tokens_post_pad
      /\ sorted_token_ids' = Put(sorted_token_ids, counts[t][expert_id(next[t])] + cumsum[expert_id(next[t])],
                                 next[t])
      /\ counts' = [counts EXCEPT ![t][expert_id(next[t])] = @ + 1]
  BY DEF SmallInv, AlignThreads, PlaceFromRow, row, fillVars
<1>1. stage[t] = 7 /\ Met(6) /\ Met(Gate(stage[t])) /\ Len(Program) = 9 /\ rank[t] = NoExpert
  <2>1. stage[t] = 7 /\ Met(Gate(stage[t])) /\ Len(Program) = 9 /\ rank[t] = NoExpert
    BY <1>0, SmallStage, SmallAt
  <2>2. Gate(7) = 6
    BY DEF Gate
  <2>3. QED
    BY <2>1, <2>2
<1>2. /\ AlignThreads'
      /\ \A s \in Nat : \A i \in Element :
            /\ Handled(s, i)' <=> Handled(s, i) \/ (stage[t] = s /\ i = next[t])
            /\ stage[t] = s /\ i = next[t] => ~ Handled(s, i) /\ (i % stride) = t
  BY <1>0, <1>1, MoveStep
<1>3. PICK x \in Routed : x = next[t]
  <2>1. next[t] \in Nat /\ n \in Nat
    BY <1>0, AlignSizes DEF AlignThreads
  <2>2. next[t] \in Element
    BY <1>0, <2>1 DEF Element
  <2>3. QED
    BY <1>0, <2>2 DEF Routed
<1>4. PICK d \in Expert : d = expert_id(x) /\ x \in Live(d)
  BY <1>0, AlignRouting
<1>5. /\ Routed \subseteq Element /\ x \in Element
      /\ \A e : Live(e) \subseteq Element /\ Live(e) \subseteq Routed
      /\ Expert \subseteq Thread /\ Thread \subseteq Nat /\ stride \in Nat \ {0} /\ 0 \in Thread
      /\ t \in 0 .. stride /\ d \in 0 .. num_experts
  <2>1. stride \in Nat \ {0} /\ Expert \subseteq Thread /\ Thread \subseteq Nat /\ num_experts \in Nat
    BY <1>0, AlignSizes
  <2>2. t \in 0 .. stride /\ 0 \in Thread /\ d \in 0 .. num_experts
    BY <2>1 DEF Thread, Expert
  <2>3. QED
    BY <1>0, <2>1, <2>2, AlignRouting
<1>6. /\ \A j \in Element : Handled(3, j)' <=> Handled(3, j)
      /\ \A j \in Element : Handled(7, j)' <=> Handled(7, j) \/ j = x
      /\ ~ Handled(7, x) /\ (x % stride) = t
  <2>1. 3 \in Nat /\ 7 \in Nat /\ stage[t] # 3
    BY <1>1
  <2>2. QED
    BY <1>1, <1>2, <1>3, <1>5, <2>1
<1>7. /\ path' = path /\ stride' = stride /\ Routed' = Routed /\ Thread' = Thread /\ n' = n
      /\ \A e : Live(e)' = Live(e) /\ due_before(e)' = due_before(e)
      /\ \A j : expert_id(j)' = expert_id(j)
  BY <1>0, LaunchFrame, RoutingFrame, DueFrame
<1>8. \A u, e : RowCounted(u, e)' = RowCounted(u, e)
  BY <1>5, <1>6, <1>7 DEF RowCounted
<1>9. \A u \in Thread : stage[u] \in Nat /\ stage[u] >= 6 /\ stage[u] > 4
  <2>1. \A u \in Thread : stage[u] \in Nat /\ stage[u] >= 6
    BY <1>0, <1>1, SmallAt DEF Met
  <2>2. QED
    BY <2>1
<1>10. \A e \in Expert : \A r \in 0 .. stride : counts[r][e] = Cardinality(RowPlaced(r, e))
  BY <1>0, <1>5, <1>9 DEF SmallCounts
<1>11. RowPlaced(t, d) = Before(x)
  <2>1. Before(x) = {j \in Live(d) : (j % stride) < t \/ ((j % stride) = t /\ j < x)}
    BY <1>4, <1>6 DEF Before
  <2>2. \A j : (j % stride) = t => (Handled(7, j) <=> j < x)
    BY <1>1, <1>3 DEF Handled
  <2>3. QED
    BY <2>1, <2>2 DEF RowPlaced
<1>12. PICK q \in Buffer :
         /\ q = home(x) /\ sorted_token_ids' = Put(sorted_token_ids, q, x)
  <2>1. cumsum[d] = due_before(d)
    <3>1. stage[0] > 5
      <4>1. stage[0] \in Nat /\ stage[0] >= 6
        BY <1>5, <1>9
      <4>2. QED
        BY <4>1
    <3>2. QED
      BY <1>0, <1>5, <3>1 DEF SmallOffsets
  <2>2. counts[t][d] = Cardinality(Before(x))
    BY <1>5, <1>10, <1>11
  <2>3. home(x) = due_before(d) + Cardinality(Before(x)) /\ home(x) \in Region(d) /\ Cardinality(Before(x)) \in Nat
    BY <1>0, <1>4, SmallHome
  <2>4. due_before(d) \in Nat
    BY <1>0, <1>5, Due
  <2>5. PICK a \in Nat, b \in Nat : a = due_before(d) /\ b = Cardinality(Before(x))
    BY <2>3, <2>4
  <2>6. counts[t][d] + cumsum[d] = home(x)
    <3>1. b + a = a + b
      OBVIOUS
    <3>2. QED
      BY <2>1, <2>2, <2>3, <2>5, <3>1
  <2>7. home(x) \in Buffer
    BY <1>0, <2>3, Regions
  <2>8. QED
    BY <1>0, <1>3, <1>4, <2>6, <2>7
<1>13. \A i : Slots(i) = {home(i)} /\ Slots(i)' = {home(i)}
  <2>1. \A i : Before(i)' = Before(i)
    BY <1>7 DEF Before
  <2>2. \A i : home(i)' = home(i)
    BY <1>7, <2>1 DEF home
  <2>3. QED
    BY <1>7, <2>2 DEF Slots
<1>14. Stored = {i \in Routed : Handled(7, i)} /\ Stored' = Stored \cup {x} /\ x \notin Stored
  <2>1. Stored = {i \in Routed : Handled(7, i)}
    BY DEF Stored
  <2>2. Stored' = {i \in Routed : Handled(7, i)'}
    BY <1>7 DEF Stored
  <2>3. QED
    BY <1>5, <1>6, <2>1, <2>2
<1>15. \A k \in Buffer : Filled(k) /\ Filled(k)'
  <2>1. \A f \in Fill : fill[f]
    BY <1>1 DEF Met, FillMet
  <2>2. \A k \in Buffer : (k % FillThreads) \in Fill
    <3> SUFFICES ASSUME NEW k \in Buffer PROVE (k % FillThreads) \in Fill
      OBVIOUS
    <3>1. FillThreads \in Nat \ {0} /\ k \in Nat
      BY <1>0, AlignSizes DEF Buffer
    <3>2. QED
      BY <3>1, Modulo DEF Fill
  <2>3. QED
    BY <1>0, <1>7, <2>1, <2>2 DEF Filled
<1>16. sorted_token_ids[q] = n
  <2> SUFFICES ASSUME sorted_token_ids[q] # n PROVE FALSE
    OBVIOUS
  <2>1. PICK j \in Stored : sorted_token_ids[q] = j
    BY <1>0, <1>15 DEF Layout
  <2>2. q \in Slots(j)
    BY <1>0, <1>15, <2>1 DEF Layout
  <2>3. home(j) = home(x) /\ j \in Routed
    BY <1>12, <1>13, <1>14, <2>2
  <2>4. j = x
    BY <1>0, <2>3, SmallHomesDiffer
  <2>5. QED
    BY <1>14, <2>1, <2>4
<1>17. Layout' /\ sorted_token_ids' \in [Buffer -> Nat]
  <2>1. \A i \in Routed : Slots(i) \subseteq Slots(i)'
    BY <1>13
  <2>2. q \in Slots(x)'
    BY <1>12, <1>13
  <2>3. QED
    BY <1>0, <1>12, <1>14, <1>15, <1>16, <2>1, <2>2, LayoutPut
<1>18. Marks' /\ SmallOffsets'
  <2>1. Marks'
    BY <1>0, MarksFrame
  <2>2. SmallOffsets'
    BY <1>0, SmallOffsetsKept
  <2>3. QED
    BY <2>1, <2>2
<1>19. /\ counts' \in [0 .. stride -> [Expert -> Nat]]
       /\ counts'[t][d] = counts[t][d] + 1
       /\ \A e \in Expert : \A r \in 0 .. stride : r # t \/ e # d => counts'[r][e] = counts[r][e]
  <2>1. counts \in [0 .. stride -> [Expert -> Nat]]
    BY <1>0 DEF AlignMemory
  <2>2. counts[t] \in [Expert -> Nat]
    BY <1>5, <2>1
  <2>3. PICK v \in Nat : v = counts[t][d] + 1
    <3>1. counts[t][d] + 1 \in Nat
      BY <2>2
    <3>2. QED
      BY <3>1
  <2>4. counts' = [counts EXCEPT ![t] = [counts[t] EXCEPT ![d] = v]]
    BY <1>0, <1>3, <1>4, <1>5, <2>1, <2>3
  <2>5. [counts[t] EXCEPT ![d] = v] \in [Expert -> Nat]
    BY <2>2
  <2>6. counts' \in [0 .. stride -> [Expert -> Nat]]
    BY <2>1, <2>4, <2>5
  <2>7. counts'[t] = [counts[t] EXCEPT ![d] = v] /\ \A r \in 0 .. stride : r # t => counts'[r] = counts[r]
    BY <1>5, <2>1, <2>4
  <2>8. counts'[t][d] = v /\ \A e \in Expert : e # d => counts'[t][e] = counts[t][e]
    BY <2>2, <2>7
  <2>9. QED
    BY <2>3, <2>6, <2>7, <2>8
<1>20. /\ RowPlaced(t, d)' = RowPlaced(t, d) \cup {x} /\ x \notin RowPlaced(t, d)
       /\ \A e \in Expert : \A r \in 0 .. stride : r # t \/ e # d => RowPlaced(r, e)' = RowPlaced(r, e)
  <2>1. RowPlaced(t, d)' = RowPlaced(t, d) \cup {x}
    BY <1>4, <1>5, <1>6, <1>7 DEF RowPlaced
  <2>2. x \notin RowPlaced(t, d)
    <3>1. ~ (t < t)
      BY <1>5
    <3>2. QED
      BY <1>6, <3>1 DEF RowPlaced
  <2>3. ASSUME NEW e \in Expert, NEW r \in 0 .. stride, r # t PROVE RowPlaced(r, e)' = RowPlaced(r, e)
    BY <1>5, <1>6, <1>7, <2>3 DEF RowPlaced
  <2>4. ASSUME NEW e \in Expert, NEW r \in 0 .. stride, e # d PROVE RowPlaced(r, e)' = RowPlaced(r, e)
    <3>1. x \notin Live(e)
      BY <1>4, <2>4 DEF Live
    <3>2. QED
      BY <1>5, <1>6, <1>7, <3>1 DEF RowPlaced
  <2>5. QED
    BY <2>1, <2>2, <2>3, <2>4
<1>21. SmallCounts'
  <2> SUFFICES ASSUME NEW e \in Expert, NEW r \in 0 .. stride
               PROVE  counts'[r][e] = Cardinality(RowPlaced(r, e)')
    BY <1>0, <1>5, <1>7, <1>9 DEF SmallCounts
  <2>1. counts[r][e] = Cardinality(RowPlaced(r, e))
    BY <1>10
  <2>2. CASE r # t \/ e # d
    BY <1>19, <1>20, <2>1, <2>2
  <2>3. CASE r = t /\ e = d
    <3>1. IsFiniteSet(RowPlaced(t, d))
      <4>1. RowPlaced(t, d) \in SUBSET Live(d) /\ IsFiniteSet(Live(d))
        BY <1>0, AlignRouting DEF RowPlaced
      <4>2. QED
        BY <4>1, FS_Subset
    <3>2. Cardinality(RowPlaced(t, d) \cup {x}) = Cardinality(RowPlaced(t, d)) + 1
      BY <1>20, <3>1, FS_AddElement
    <3>3. QED
      BY <1>19, <1>20, <2>1, <2>3, <3>2
  <2>4. QED
    BY <2>2, <2>3
<1>22. AlignMemory'
  BY <1>0, <1>17, <1>19, MemoryFrame DEF AlignMemory
<1>23. QED
  BY <1>2, <1>17, <1>18, <1>21, <1>22 DEF SmallInv

\* small: a fill thread writes padding before anything is placed.
LEMMA SmallFill ==
    ASSUME SmallInv, path = "small", NEW f \in Fill, FillSlots(f)
    PROVE  SmallInv'
<1>0. /\ AlignThreads /\ AlignInput /\ AlignMemory /\ Marks /\ Layout /\ SmallCounts /\ SmallOffsets
      /\ UNCHANGED inputVars /\ stage' = stage
      /\ counts' = counts /\ cumsum' = cumsum /\ expert_ids' = expert_ids
      /\ src_dst' = src_dst /\ total_tokens_post_pad' = total_tokens_post_pad
  BY DEF SmallInv, AlignThreads, FillSlots, threadVars
<1>1. /\ AlignThreads' /\ Layout' /\ Marks'
      /\ \A s, i : Handled(s, i)' <=> Handled(s, i)
      /\ sorted_token_ids' \in [Buffer -> Nat]
  BY <1>0, FillSlotsStep
<1>2. stride' = stride /\ \A e : Live(e)' = Live(e)
  BY <1>0, LaunchFrame, RoutingFrame
<1>3. \A t, e : RowCounted(t, e)' = RowCounted(t, e) /\ RowPlaced(t, e)' = RowPlaced(t, e)
  <2>1. \A t, e : RowCounted(t, e)' = RowCounted(t, e)
    BY <1>1, <1>2 DEF RowCounted
  <2>2. \A t, e : RowPlaced(t, e)' = RowPlaced(t, e)
    BY <1>1, <1>2 DEF RowPlaced
  <2>3. QED
    BY <2>1, <2>2
<1>4. SmallCounts'
  BY <1>0, <1>3, SmallKept
<1>5. SmallOffsets'
  BY <1>0, SmallOffsetsKept
<1>6. AlignMemory'
  <2>1. /\ cumsum' \in [0 .. num_experts -> Nat] /\ counts' \in [0 .. stride -> [Expert -> Nat]]
        /\ expert_ids' \in [Block -> Expert \cup {NoExpert, Garbage}] /\ total_tokens_post_pad' \in Nat
    BY <1>0 DEF AlignMemory
  <2>2. QED
    BY <1>0, <1>1, <2>1, MemoryFrame
<1>7. QED
  BY <1>1, <1>4, <1>5, <1>6 DEF SmallInv

\* small: the wrapper maps the ids.
LEMMA SmallReturn ==
    ASSUME SmallInv, path = "small", Return
    PROVE  SmallInv'
<1>0. /\ AlignThreads /\ AlignInput /\ AlignMemory /\ Marks /\ Layout /\ SmallCounts /\ SmallOffsets
      /\ UNCHANGED inputVars /\ UNCHANGED <<inputVars, fill>>
      /\ counts' = counts /\ cumsum' = cumsum /\ sorted_token_ids' = sorted_token_ids
      /\ src_dst' = src_dst /\ total_tokens_post_pad' = total_tokens_post_pad
  BY DEF SmallInv, AlignThreads, Return, fillVars
<1>1. /\ AlignThreads'
      /\ \A u \in Thread : stage[u] = 8 /\ stage'[u] = 9
      /\ \A i \in Element : Handled(3, i) /\ Handled(3, i)' /\ Handled(7, i) /\ Handled(7, i)'
  <2>1. Len(Program) = 9
    BY <1>0, Programs
  <2>2. /\ AlignThreads'
        /\ \A t \in Thread : stage[t] = Len(Program) - 1 /\ stage'[t] = Len(Program)
        /\ \A s \in 1 .. Len(Program) - 2 : \A i \in Element : Handled(s, i) /\ Handled(s, i)'
    BY <1>0, ReturnStep
  <2>3. 3 \in 1 .. Len(Program) - 2 /\ 7 \in 1 .. Len(Program) - 2
    BY <2>1
  <2>4. QED
    BY <2>1, <2>2, <2>3
<1>2. Marks' /\ expert_ids' \in [Block -> Expert \cup {NoExpert, Garbage}]
  BY <1>0, MarksReturn
<1>3. /\ \A t, e : RowCounted(t, e)' = RowCounted(t, e) /\ RowPlaced(t, e)' = RowPlaced(t, e)
      /\ Stored' = Stored /\ \A i : Slots(i)' = Slots(i)
      /\ \A k : Filled(k)' <=> Filled(k)
  <2>1. \A i \in Routed : (Handled(3, i)' <=> Handled(3, i)) /\ (Handled(7, i)' <=> Handled(7, i))
    BY <1>0, <1>1, AlignRouting
  <2>2. QED
    BY <1>0, <2>1, SmallSame
<1>4. Layout'
  BY <1>0, <1>3, LayoutFrame
<1>5. SmallCounts'
  <2>1. \A u \in Thread : \A s \in {2, 4} : stage'[u] > s <=> stage[u] > s
    BY <1>1
  <2>2. QED
    BY <1>0, <1>3, <2>1, SmallKept
<1>6. SmallOffsets'
  <2>1. 0 \in Thread
    BY <1>0, AlignSizes DEF Thread
  <2>2. stage'[0] > 5 => stage[0] > 5
    BY <1>1, <2>1
  <2>3. QED
    BY <1>0, <2>2, SmallOffsetsKept
<1>7. AlignMemory'
  BY <1>0, <1>2, MemoryFrame DEF AlignMemory
<1>8. QED
  BY <1>1, <1>2, <1>4, <1>5, <1>6, <1>7 DEF SmallInv

\* small: nothing changes.
LEMMA SmallStutter ==
    ASSUME SmallInv, path = "small", UNCHANGED vars
    PROVE  SmallInv'
<1>0. /\ AlignThreads /\ AlignInput /\ AlignMemory /\ Marks /\ Layout /\ SmallCounts /\ SmallOffsets
      /\ UNCHANGED inputVars /\ UNCHANGED <<inputVars, threadVars>> /\ UNCHANGED <<inputVars, fill>>
      /\ stage' = stage /\ fill' = fill /\ fill_reset' = fill_reset
      /\ counts' = counts /\ cumsum' = cumsum /\ sorted_token_ids' = sorted_token_ids
      /\ expert_ids' = expert_ids /\ src_dst' = src_dst /\ total_tokens_post_pad' = total_tokens_post_pad
  BY DEF SmallInv, AlignThreads, vars, threadVars, fillVars, outputVars
<1>1. AlignThreads' /\ \A s, i : Handled(s, i)' <=> Handled(s, i)
  <2>1. fill' \in [Fill -> BOOLEAN] /\ \A f \in Fill : fill[f] => fill'[f]
    BY <1>0 DEF AlignThreads
  <2>2. QED
    BY <1>0, <2>1, FillStep
<1>2. /\ \A t, e : RowCounted(t, e)' = RowCounted(t, e) /\ RowPlaced(t, e)' = RowPlaced(t, e)
      /\ Stored' = Stored /\ \A i : Slots(i)' = Slots(i)
      /\ \A k : Filled(k)' <=> Filled(k)
  <2>1. \A i \in Routed : (Handled(3, i)' <=> Handled(3, i)) /\ (Handled(7, i)' <=> Handled(7, i))
    BY <1>1
  <2>2. QED
    BY <1>0, <2>1, SmallSame
<1>3. Layout'
  BY <1>0, <1>2, LayoutFrame
<1>4. Marks'
  BY <1>0, MarksFrame
<1>5. SmallCounts'
  BY <1>0, <1>2, SmallKept
<1>6. SmallOffsets'
  BY <1>0, SmallOffsetsKept
<1>7. AlignMemory'
  BY <1>0, MemoryFrame DEF AlignMemory
<1>8. QED
  BY <1>1, <1>3, <1>4, <1>5, <1>6, <1>7 DEF SmallInv

\* small: the launch.
LEMMA SmallInit == Init => (path = "small" /\ IdsInRange => SmallInv)
<1> SUFFICES ASSUME Init, path = "small" PROVE SmallInv
  OBVIOUS
<1>1. AlignThreads /\ AlignMemory /\ Marks /\ Layout /\ \A t \in Thread : stage[t] = 1
  BY AlignStart
<1>2. 0 \in Thread /\ Expert \subseteq Thread
  <2>1. AlignInput
    BY <1>1 DEF AlignThreads
  <2>2. QED
    BY <2>1, AlignSizes DEF Thread
<1>3. SmallCounts /\ SmallOffsets
  BY <1>1, <1>2 DEF SmallCounts, SmallOffsets
<1>4. QED
  BY <1>1, <1>3 DEF SmallInv

\* small: every step.
LEMMA SmallNext == (path = "small" /\ IdsInRange => SmallInv) /\ [Next]_vars
                      => (path = "small" /\ IdsInRange => SmallInv)'
<1> SUFFICES ASSUME path = "small" /\ IdsInRange => SmallInv, [Next]_vars, path' = "small", IdsInRange'
             PROVE  SmallInv'
  OBVIOUS
<1>1. path = "small" /\ SmallInv /\ IdsInRange
  <2>1. UNCHANGED path
    BY PathKept
  <2>2. IdsInRange
    BY RangeKept
  <2>3. QED
    BY <2>1, <2>2
<1>2. CASE UNCHANGED vars
  BY <1>1, <1>2, SmallStutter
<1>3. CASE FillReset
  BY <1>1, <1>3 DEF FillReset, SmallInv, AlignThreads
<1>4. CASE \E f \in Fill : FillSlots(f)
  BY <1>1, <1>4, SmallFill
<1>5. CASE Return
  BY <1>1, <1>5, SmallReturn
<1>6. CASE Returned /\ UNCHANGED vars
  BY <1>2, <1>6
<1>7. ASSUME NEW t \in Thread,
             \/ Reset(t) \/ Clear(t) \/ Zero(t) \/ Count(t) \/ CountPast(t) \/ EndLoop(t) \/ Prefix(t)
             \/ Scan(t) \/ ExpertIds(t)
             \/ Skip(t) \/ TakeRank(t) \/ Store(t) \/ PlaceFromRow(t) \/ PlacePast(t) \/ PlaceBatch(t)
      PROVE  SmallInv'
  <2>0. AlignThreads
    BY <1>1 DEF SmallInv
  <2>1. ~ Clear(t)
    <3> SUFFICES ASSUME Clear(t) PROVE FALSE
      OBVIOUS
    <3>1. At(t, "clear")
      BY DEF Clear
    <3>2. /\ stage[t] # 1 /\ stage[t] # 2 /\ stage[t] # 3 /\ stage[t] # 4 /\ stage[t] # 5
          /\ stage[t] # 6 /\ stage[t] # 7 /\ stage[t] # 8 /\ stage[t] # 9
      BY <1>1, <2>0, <3>1, SmallStage
    <3>3. stage[t] \in 1 .. 9
      BY <1>1, <2>0, SmallAt
    <3>4. QED
      BY <3>2, <3>3
  <2>2. ~ TakeRank(t) /\ ~ PlaceBatch(t)
    BY <1>1 DEF TakeRank, PlaceBatch
  <2>3. ~ Store(t)
    BY <1>1, <2>0, SmallAt DEF Store
  <2>4. ~ CountPast(t) /\ ~ PlacePast(t)
    <3>1. next[t] \in Nat /\ n \in Nat
      BY <2>0, AlignSizes DEF AlignThreads
    <3>2. next[t] < n => next[t] \in Element
      BY <3>1 DEF Element
    <3>3. QED
      BY <1>1, <3>2, PastIsSmall DEF IdsInRange
  <2>5. QED
    BY <1>1, <1>7, <2>1, <2>2, <2>3, <2>4, SmallReset, SmallZero, SmallCount, SmallEndLoop, SmallPrefix,
       SmallScan, SmallIds, SmallSkip, SmallPlace
<1>8. QED
  BY <1>2, <1>3, <1>4, <1>5, <1>6, <1>7 DEF Next

\* small: what the invariant says of the types and of the result.
LEMMA SmallResult ==
    ASSUME SmallInv, path = "small"
    PROVE  TypeOK /\ BlocksGroupByExpert
<1>0. AlignThreads /\ AlignInput /\ AlignMemory /\ Layout /\ Marks /\ SmallOffsets
  BY DEF SmallInv, AlignThreads
<1>1. TypeOK
  BY <1>0, AlignTypes
<1>2. ASSUME Returned PROVE BlocksGroupByExpert
  <2>1. 0 \in Thread /\ stride \in Nat \ {0} /\ Element \subseteq Nat
    <3>1. stride \in Nat \ {0} /\ Element \subseteq Nat
      BY <1>0, AlignSizes
    <3>2. QED
      BY <3>1 DEF Thread
  <2>2. \A t \in Thread : stage[t] = 9
    <3> SUFFICES ASSUME NEW t \in Thread PROVE stage[t] = 9
      OBVIOUS
    <3>1. /\ stage[t] \in 1 .. 9
          /\ label(t) = CASE stage[t] = 1 -> "reset" [] stage[t] = 2 -> "zero" [] stage[t] = 3 -> "count"
                          [] stage[t] = 4 -> "prefix" [] stage[t] = 5 -> "scan" [] stage[t] = 6 -> "ids"
                          [] stage[t] = 7 -> "place" [] stage[t] = 8 -> "return" [] stage[t] = 9 -> "done"
      BY <1>0, SmallAt
    <3>2. \/ stage[t] = 1 \/ stage[t] = 2 \/ stage[t] = 3 \/ stage[t] = 4 \/ stage[t] = 5
          \/ stage[t] = 6 \/ stage[t] = 7 \/ stage[t] = 8 \/ stage[t] = 9
      BY <3>1
    <3>3. label(t) = "done"
      BY <1>2 DEF Returned
    <3>4. QED
      BY <3>1, <3>2, <3>3
  <2>3. \A i \in Element : i % stride \in Thread
    BY <2>1, Modulo DEF Thread
  <2>4. Stored = Routed
    <3>1. \A i \in Routed : Handled(7, i)
      <4>1. \A i \in Routed : stage[i % stride] > 7
        BY <1>0, <2>2, <2>3, AlignRouting
      <4>2. QED
        BY <4>1 DEF Handled
    <3>2. QED
      BY <3>1 DEF Stored
  <2>5. \A k \in Buffer : Filled(k)
    <3>1. Met(8)
      <4>1. Begun(0, 8)
        BY <2>1, <2>2 DEF Begun
      <4>2. Len(Program) = 9
        BY <1>0, Programs
      <4>3. 8 \in 1 .. Len(Program)
        BY <4>2
      <4>4. Met(Gate(8))
        BY <1>0, <2>1, <4>1, <4>3 DEF AlignThreads, Barriers
      <4>5. Gate(8) = 8
        BY DEF Gate
      <4>6. QED
        BY <4>4, <4>5
    <3>2. \A f \in Fill : fill[f]
      BY <3>1 DEF Met, FillMet
    <3>3. ASSUME NEW k \in Buffer PROVE k % FillThreads \in Fill
      <4>1. FillThreads \in Nat \ {0} /\ k \in Nat
        BY <1>0, AlignSizes DEF Buffer
      <4>2. QED
        BY <4>1, Modulo DEF Fill
    <3>4. QED
      BY <3>2, <3>3 DEF Filled
  <2>6. \A i \in Routed : Slots(i) \subseteq Region(expert_id(i))
    <3> SUFFICES ASSUME NEW i \in Routed PROVE Slots(i) \subseteq Region(expert_id(i))
      OBVIOUS
    <3>1. PICK e \in Expert : e = expert_id(i) /\ i \in Live(e)
      BY <1>0, AlignRouting
    <3>2. home(i) \in Region(e)
      BY <1>0, <3>1, SmallHome
    <3>3. QED
      BY <3>1, <3>2 DEF Slots
  <2>7. total_tokens_post_pad = due_total
    BY <1>0, <2>1, <2>2 DEF SmallOffsets
  <2>8. stage \in [Thread -> 1 .. Len(Program)] /\ sorted_token_ids \in [Buffer -> Nat]
    BY <1>0 DEF AlignThreads, AlignMemory
  <2>9. QED
    BY <1>0, <1>2, <2>4, <2>5, <2>6, <2>7, <2>8, AlignReturned
<1>3. QED
  BY <1>1, <1>2 DEF BlocksGroupByExpert

----------------------------------------------------------------------------
(* The small path with any ids *)

\* What holds even when ids are past the experts: the threads keep in step, and what
\* they count with are numbers.
SmallTypes ==
    /\ AlignThreads
    /\ counts \in [0 .. stride -> [Expert -> Nat]]
    /\ cumsum \in [0 .. num_experts -> Nat]
    /\ total_tokens_post_pad \in Nat
    /\ src_dst \in [Element -> Nat]

\* Only what a step writes has to be looked at.
LEMMA TypesFrame ==
    ASSUME SmallTypes, AlignThreads', UNCHANGED inputVars, src_dst' = src_dst,
           counts' = counts \/ counts' \in [0 .. stride -> [Expert -> Nat]],
           cumsum' = cumsum \/ cumsum' \in [0 .. num_experts -> Nat],
           total_tokens_post_pad' = total_tokens_post_pad \/ total_tokens_post_pad' \in Nat
    PROVE  SmallTypes'
<1>1. stride' = stride /\ Element' = Element
  BY LaunchFrame
<1>2. counts' \in [0 .. stride -> [Expert -> Nat]] /\ cumsum' \in [0 .. num_experts -> Nat]
  BY DEF SmallTypes
<1>3. total_tokens_post_pad' \in Nat /\ src_dst' \in [Element -> Nat]
  BY DEF SmallTypes
<1>4. QED
  BY <1>1, <1>2, <1>3 DEF SmallTypes

\* A thread goes to its next stage.
LEMMA TypesAdvance ==
    ASSUME SmallTypes, path = "small", NEW t \in Thread, NEW l, At(t, l), l \notin {"return", "done"},
           Advance(t), UNCHANGED <<inputVars, fillVars>>
    PROVE  AlignThreads' /\ UNCHANGED inputVars
<1>1. AlignThreads /\ stage[t] \in 1 .. 9 /\ rank[t] = NoExpert /\ Len(Program) = 9
  BY SmallAt DEF SmallTypes
<1>2. stage[t] # 8 /\ stage[t] # 9 /\ Met(Gate(stage[t]))
  BY <1>1, SmallStage
<1>3. stage[t] < Len(Program)
  BY <1>1, <1>2
<1>4. QED
  BY <1>1, <1>2, <1>3, AdvanceStep

\* A thread goes to the next element of its loop.
LEMMA TypesMove ==
    ASSUME SmallTypes, path = "small", NEW t \in Thread, NEW l, At(t, l), stage' = stage, rank' = rank,
           next' = [next EXCEPT ![t] = @ + stride], UNCHANGED <<inputVars, fillVars>>
    PROVE  AlignThreads' /\ UNCHANGED inputVars
<1>1. AlignThreads /\ rank[t] = NoExpert
  BY SmallAt DEF SmallTypes
<1>2. Met(Gate(stage[t]))
  BY <1>1, SmallStage
<1>3. QED
  BY <1>1, <1>2, MoveStep

\* A row and an expert name a cell, which is a number and stays one.
LEMMA Cell ==
    ASSUME NEW c \in [0 .. stride -> [Expert -> Nat]], NEW r \in 0 .. stride, NEW e \in Expert, NEW v \in Nat
    PROVE  c[r][e] \in Nat /\ [c EXCEPT ![r][e] = v] \in [0 .. stride -> [Expert -> Nat]]
<1>1. c[r] \in [Expert -> Nat]
  OBVIOUS
<1>2. [c[r] EXCEPT ![e] = v] \in [Expert -> Nat]
  BY <1>1
<1>3. QED
  BY <1>1, <1>2

\* The rows: what a thread reaches, its own and the next, is among them, and the first
\* expert is one.
LEMMA Rows ==
    ASSUME AlignInput
    PROVE  /\ \A t \in Thread : /\ t \in 0 .. stride /\ t + 1 \in 0 .. stride
                                /\ t + 2 <= stride => t + 2 \in 0 .. stride
           /\ 0 \in Expert /\ num_experts \in 0 .. num_experts /\ stride \in 0 .. stride
           /\ \A i \in Nat : weight(i) \in Nat
<1>1. stride \in Nat \ {0} /\ num_experts \in Nat \ {0}
  BY AlignSizes
<1>2. \A t \in Thread : /\ t \in 0 .. stride /\ t + 1 \in 0 .. stride
                        /\ t + 2 <= stride => t + 2 \in 0 .. stride
  BY <1>1 DEF Thread
<1>3. 0 \in Expert /\ num_experts \in 0 .. num_experts /\ stride \in 0 .. stride
  BY <1>1 DEF Expert
<1>4. \A i \in Nat : weight(i) \in Nat
  BY DEF weight
<1>5. QED
  BY <1>2, <1>3, <1>4

\* The counts stay numbers while the threads count.
LEMMA TypesCount ==
    ASSUME SmallTypes, path = "small", NEW t \in Thread, Count(t) \/ CountPast(t)
    PROVE  SmallTypes'
<1>0. /\ AlignThreads /\ AlignInput /\ counts \in [0 .. stride -> [Expert -> Nat]]
      /\ At(t, "count") /\ next[t] < n /\ next' = [next EXCEPT ![t] = @ + stride]
      /\ UNCHANGED <<inputVars, fillVars>> /\ stage' = stage /\ rank' = rank
      /\ cumsum' = cumsum /\ src_dst' = src_dst /\ total_tokens_post_pad' = total_tokens_post_pad
  BY DEF SmallTypes, AlignThreads, Count, CountPast, outputVars, fillVars
<1>1. AlignThreads' /\ UNCHANGED inputVars
  BY <1>0, TypesMove
<1>2. PICK i \in Element : i = next[t] /\ i \in Nat
  <2>1. next[t] \in Nat /\ n \in Nat
    BY <1>0, AlignSizes DEF AlignThreads
  <2>2. QED
    BY <1>0, <2>1 DEF Element
<1>3. PICK w \in Nat : w = weight(i)
  BY <1>0, <1>2, Rows
<1>4. CASE Count(t)
  <2>1. counts' = IF expert_id(i) = NoExpert THEN counts
                  ELSE [counts EXCEPT ![t + 1][expert_id(i)] = @ + w]
    BY <1>2, <1>3, <1>4 DEF Count
  <2>2. CASE expert_id(i) = NoExpert
    BY <1>0, <1>1, <2>1, <2>2, TypesFrame
  <2>3. CASE expert_id(i) # NoExpert
    <3>1. PICK e \in Expert : e = expert_id(i)
      BY <1>0, <1>2, <2>3, AlignRouting
    <3>2. PICK v \in Nat : v = counts[t + 1][e] + w
      BY <1>0, <1>3, Rows, Cell
    <3>3. counts' = [counts EXCEPT ![t + 1][e] = v]
      BY <2>1, <2>3, <3>1, <3>2
    <3>4. counts' \in [0 .. stride -> [Expert -> Nat]]
      BY <1>0, <3>3, Rows, Cell
    <3>5. QED
      BY <1>0, <1>1, <3>4, TypesFrame
  <2>4. QED
    BY <2>2, <2>3
<1>5. CASE CountPast(t)
  <2>1. \/ counts' = counts
        \/ t + 2 <= stride /\ counts' = [counts EXCEPT ![t + 2][0] = @ + w]
    BY <1>2, <1>3, <1>5 DEF CountPast
  <2>2. CASE counts' = counts
    BY <1>0, <1>1, <2>2, TypesFrame
  <2>3. CASE t + 2 <= stride /\ counts' = [counts EXCEPT ![t + 2][0] = @ + w]
    <3>1. t + 2 \in 0 .. stride /\ 0 \in Expert
      BY <1>0, <2>3, Rows
    <3>2. PICK v \in Nat : v = counts[t + 2][0] + w
      BY <1>0, <1>3, <3>1, Cell
    <3>3. counts' = [counts EXCEPT ![t + 2][0] = v]
      BY <2>3, <3>2
    <3>4. counts' \in [0 .. stride -> [Expert -> Nat]]
      BY <1>0, <3>1, <3>3, Cell
    <3>5. QED
      BY <1>0, <1>1, <3>4, TypesFrame
  <2>4. QED
    BY <2>1, <2>2, <2>3
<1>6. QED
  BY <1>4, <1>5

\* So they do while the threads place their elements.
LEMMA TypesPlace ==
    ASSUME SmallTypes, path = "small", NEW t \in Thread, Skip(t) \/ PlaceFromRow(t) \/ PlacePast(t)
    PROVE  SmallTypes'
<1>0. /\ AlignThreads /\ AlignInput /\ counts \in [0 .. stride -> [Expert -> Nat]]
      /\ At(t, "place") /\ next[t] < n /\ next' = [next EXCEPT ![t] = @ + stride]
      /\ UNCHANGED <<inputVars, fillVars>> /\ stage' = stage /\ rank' = rank
      /\ cumsum' = cumsum /\ src_dst' = src_dst /\ total_tokens_post_pad' = total_tokens_post_pad
  BY DEF SmallTypes, AlignThreads, Skip, PlaceFromRow, PlacePast, outputVars, fillVars
<1>1. AlignThreads' /\ UNCHANGED inputVars
  BY <1>0, TypesMove
<1>2. \/ counts' = counts
      \/ \E r \in 0 .. stride, e \in Expert : counts' = [counts EXCEPT ![r][e] = @ + 1]
  <2>1. CASE Skip(t)
    BY <2>1 DEF Skip
  <2>2. CASE PlaceFromRow(t)
    <3>1. PICK i \in Element : i = next[t]
      <4>1. next[t] \in Nat /\ n \in Nat
        BY <1>0, AlignSizes DEF AlignThreads
      <4>2. QED
        BY <1>0, <4>1 DEF Element
    <3>2. /\ expert_id(i) # NoExpert
          /\ counts' = [counts EXCEPT ![t][expert_id(i)] = @ + 1]
      BY <2>2, <3>1 DEF PlaceFromRow, row
    <3>3. expert_id(i) \in Expert /\ t \in 0 .. stride
      BY <1>0, <3>1, <3>2, AlignRouting, Rows
    <3>4. QED
      BY <3>2, <3>3
  <2>3. CASE PlacePast(t)
    <3>1. t + 1 \in 0 .. stride /\ 0 \in Expert
      BY <1>0, Rows
    <3>2. counts' = counts \/ counts' = [counts EXCEPT ![t + 1][0] = @ + 1]
      BY <2>3 DEF PlacePast
    <3>3. QED
      BY <3>1, <3>2
  <2>4. QED
    BY <2>1, <2>2, <2>3
<1>3. CASE counts' = counts
  BY <1>0, <1>1, <1>3, TypesFrame
<1>4. CASE \E r \in 0 .. stride, e \in Expert : counts' = [counts EXCEPT ![r][e] = @ + 1]
  <2>1. PICK r \in 0 .. stride, e \in Expert : counts' = [counts EXCEPT ![r][e] = @ + 1]
    BY <1>4
  <2>2. PICK v \in Nat : v = counts[r][e] + 1
    BY <1>0, Cell
  <2>3. counts' = [counts EXCEPT ![r][e] = v]
    BY <2>1, <2>2
  <2>4. counts' \in [0 .. stride -> [Expert -> Nat]]
    BY <1>0, <2>3, Cell
  <2>5. QED
    BY <1>0, <1>1, <2>4, TypesFrame
<1>5. QED
  BY <1>2, <1>3, <1>4

\* A running sum of numbers is a number.
LEMMA TypesPrefix ==
    ASSUME SmallTypes, path = "small", NEW t \in Thread, Prefix(t)
    PROVE  SmallTypes'
<1>0. /\ AlignThreads /\ AlignInput /\ counts \in [0 .. stride -> [Expert -> Nat]]
      /\ At(t, "prefix") /\ Advance(t) /\ UNCHANGED <<inputVars, fillVars>>
      /\ cumsum' = cumsum /\ src_dst' = src_dst /\ total_tokens_post_pad' = total_tokens_post_pad
      /\ counts' = IF t \in Expert
                   THEN [r \in DOMAIN counts |->
                           [counts[r] EXCEPT ![t] = SumFunctionOnSet([q \in 1 .. r |-> counts[q][t]], 1 .. r)]]
                   ELSE counts
  BY DEF SmallTypes, AlignThreads, Prefix, outputVars
<1>1. AlignThreads' /\ UNCHANGED inputVars
  BY <1>0, TypesAdvance
<1>2. CASE t \notin Expert
  BY <1>0, <1>1, <1>2, TypesFrame
<1>3. CASE t \in Expert
  <2>1. ASSUME NEW r \in 0 .. stride
        PROVE  SumFunctionOnSet([q \in 1 .. r |-> counts[q][t]], 1 .. r) \in Nat
    <3>1. stride \in Nat /\ r \in Nat
      BY <1>0, AlignSizes
    <3>2. IsFiniteSet(1 .. r)
      <4>1. 1 \in Int /\ r \in Int
        BY <3>1
      <4>2. QED
        BY <4>1, FS_Interval
    <3>3. \A q \in 1 .. r : q \in 0 .. stride
      BY <3>1
    <3>4. PICK g : g = [q \in 1 .. r |-> counts[q][t]]
      OBVIOUS
    <3>5. \A q \in 1 .. r : counts[q][t] \in Nat
      BY <1>0, <1>3, <3>3
    <3>6. \A q \in 1 .. r : g[q] \in Nat
      BY <3>4, <3>5
    <3>7. SumFunctionOnSet(g, 1 .. r) \in Nat
      BY <3>2, <3>6, SumNat
    <3>8. QED
      BY <3>4, <3>7
  <2>2. PICK f \in [0 .. stride -> Nat] :
           \A r \in 0 .. stride : f[r] = SumFunctionOnSet([q \in 1 .. r |-> counts[q][t]], 1 .. r)
    <3>1. [r \in 0 .. stride |-> SumFunctionOnSet([q \in 1 .. r |-> counts[q][t]], 1 .. r)]
            \in [0 .. stride -> Nat]
      BY <2>1
    <3>2. QED
      BY <3>1
  <2>3. counts' = [r \in 0 .. stride |-> [counts[r] EXCEPT ![t] = f[r]]]
    <3>1. DOMAIN counts = 0 .. stride
      BY <1>0
    <3>2. QED
      BY <1>0, <1>3, <2>2, <3>1
  <2>4. \A r \in 0 .. stride : [counts[r] EXCEPT ![t] = f[r]] \in [Expert -> Nat]
    BY <1>0
  <2>5. counts' \in [0 .. stride -> [Expert -> Nat]]
    BY <2>3, <2>4
  <2>6. QED
    BY <1>0, <1>1, <2>5, TypesFrame
<1>4. QED
  BY <1>2, <1>3

\* The scan stores numbers.
LEMMA TypesScan ==
    ASSUME SmallTypes, path = "small", NEW t \in Thread, Scan(t)
    PROVE  SmallTypes'
<1>0. /\ AlignThreads /\ AlignInput /\ counts \in [0 .. stride -> [Expert -> Nat]]
      /\ At(t, "scan") /\ Advance(t) /\ UNCHANGED <<inputVars, fillVars>>
      /\ counts' = counts /\ src_dst' = src_dst
      /\ cumsum' = IF t = 0 THEN [e \in 0 .. num_experts |-> first_slot(e)] ELSE cumsum
      /\ total_tokens_post_pad' = IF t = 0 THEN first_slot(num_experts) ELSE total_tokens_post_pad
  BY DEF SmallTypes, AlignThreads, Scan
<1>1. AlignThreads' /\ UNCHANGED inputVars
  BY <1>0, TypesAdvance
<1>2. \A e \in Expert : padded(e) \in Nat
  <2> SUFFICES ASSUME NEW e \in Expert PROVE padded(e) \in Nat
    OBVIOUS
  <2>1. stride \in 0 .. stride /\ block_size \in Nat \ {0}
    BY <1>0, Rows, AlignSizes
  <2>2. PICK k \in Nat : k = counts[stride][e]
    BY <1>0, <2>1
  <2>3. padded(e) = CEILDIV(k, block_size) * block_size
    BY <2>2 DEF padded, round_up
  <2>4. QED
    BY <2>1, <2>3, RoundUp
<1>3. \A e \in 0 .. num_experts : first_slot(e) \in Nat
  <2>1. PICK c \in [Expert -> Nat] : c = [x \in Expert |-> padded(x)]
    BY <1>2
  <2>2. \A e \in 0 .. num_experts : Base(c, e) \in Nat
    BY BaseFacts
  <2>3. \A e \in 0 .. num_experts : first_slot(e) = Base(c, e)
    BY <2>1 DEF first_slot, Base
  <2>4. QED
    BY <2>2, <2>3
<1>4. cumsum' = cumsum \/ cumsum' \in [0 .. num_experts -> Nat]
  <2>1. [e \in 0 .. num_experts |-> first_slot(e)] \in [0 .. num_experts -> Nat]
    BY <1>3
  <2>2. QED
    BY <1>0, <2>1
<1>5. total_tokens_post_pad' = total_tokens_post_pad \/ total_tokens_post_pad' \in Nat
  <2>1. num_experts \in 0 .. num_experts
    BY <1>0, Rows
  <2>2. QED
    BY <1>0, <1>3, <2>1
<1>6. QED
  BY <1>0, <1>1, <1>4, <1>5, TypesFrame

\* The other steps of a thread write no counts, or zeros.
LEMMA TypesOther ==
    ASSUME SmallTypes, path = "small", NEW t \in Thread,
           Reset(t) \/ Clear(t) \/ Zero(t) \/ EndLoop(t) \/ ExpertIds(t)
    PROVE  SmallTypes'
<1>0. /\ AlignThreads /\ AlignInput /\ counts \in [0 .. stride -> [Expert -> Nat]]
      /\ Advance(t) /\ UNCHANGED <<inputVars, fillVars>> /\ cumsum' = cumsum /\ src_dst' = src_dst
  BY DEF SmallTypes, AlignThreads, Reset, Clear, Zero, EndLoop, ExpertIds, outputVars
<1>1. \E l : At(t, l) /\ l \notin {"return", "done"}
  BY DEF Reset, Clear, Zero, EndLoop, ExpertIds
<1>2. AlignThreads' /\ UNCHANGED inputVars
  BY <1>0, <1>1, TypesAdvance
<1>3. total_tokens_post_pad' = total_tokens_post_pad \/ total_tokens_post_pad' \in Nat
  BY DEF Reset, Clear, Zero, EndLoop, ExpertIds, outputVars
<1>4. counts' = counts \/ counts' \in [0 .. stride -> [Expert -> Nat]]
  <2>1. CASE Zero(t)
    <3>1. counts' = [counts EXCEPT ![t + 1] = [e \in Expert |-> 0]]
      BY <2>1 DEF Zero
    <3>2. t + 1 \in 0 .. stride /\ [e \in Expert |-> 0] \in [Expert -> Nat]
      BY <1>0, Rows
    <3>3. QED
      BY <1>0, <3>1, <3>2
  <2>2. CASE ~ Zero(t)
    BY <2>2 DEF Reset, Clear, EndLoop, ExpertIds, outputVars
  <2>3. QED
    BY <2>1, <2>2
<1>5. QED
  BY <1>0, <1>2, <1>3, <1>4, TypesFrame

\* The fill threads and the wrapper write no counts.
LEMMA TypesIdle ==
    ASSUME SmallTypes, path = "small",
           FillReset \/ (\E f \in Fill : FillSlots(f)) \/ Return \/ UNCHANGED vars
    PROVE  SmallTypes'
<1>0. AlignThreads /\ AlignInput /\ ~ fill_reset
  BY DEF SmallTypes, AlignThreads
<1>1. /\ UNCHANGED inputVars /\ counts' = counts /\ cumsum' = cumsum /\ src_dst' = src_dst
      /\ total_tokens_post_pad' = total_tokens_post_pad
  BY <1>0 DEF FillReset, FillSlots, Return, vars, outputVars
<1>2. AlignThreads'
  <2>1. CASE FillReset
    BY <1>0, <2>1 DEF FillReset
  <2>2. CASE \E f \in Fill : FillSlots(f)
    <3>1. PICK f \in Fill : FillSlots(f)
      BY <2>2
    <3>2. /\ UNCHANGED <<inputVars, threadVars>> /\ fill_reset' = fill_reset
          /\ fill' = [fill EXCEPT ![f] = TRUE] /\ fill \in [Fill -> BOOLEAN]
      BY <1>0, <3>1 DEF FillSlots, AlignThreads
    <3>3. fill' \in [Fill -> BOOLEAN] /\ \A g \in Fill : fill[g] => fill'[g]
      BY <3>2
    <3>4. QED
      BY <1>0, <3>2, <3>3, FillStep
  <2>3. CASE Return
    BY <1>0, <2>3, ReturnStep
  <2>4. CASE UNCHANGED vars
    <3>1. /\ UNCHANGED <<inputVars, threadVars>> /\ fill' = fill /\ fill_reset' = fill_reset
          /\ fill \in [Fill -> BOOLEAN]
      BY <1>0, <2>4 DEF vars, fillVars, AlignThreads
    <3>2. fill' \in [Fill -> BOOLEAN] /\ \A g \in Fill : fill[g] => fill'[g]
      BY <3>1
    <3>3. QED
      BY <1>0, <3>1, <3>2, FillStep
  <2>5. QED
    BY <2>1, <2>2, <2>3, <2>4
<1>3. QED
  BY <1>1, <1>2, TypesFrame

\* small: the numbers stay numbers in every step, whatever the ids.
LEMMA SmallTypesNext == (path = "small" => SmallTypes) /\ [Next]_vars => (path = "small" => SmallTypes)'
<1> SUFFICES ASSUME path = "small" => SmallTypes, [Next]_vars, path' = "small" PROVE SmallTypes'
  OBVIOUS
<1>1. path = "small" /\ SmallTypes
  <2>1. UNCHANGED path
    BY PathKept
  <2>2. QED
    BY <2>1
<1>2. CASE FillReset \/ (\E f \in Fill : FillSlots(f)) \/ Return \/ UNCHANGED vars
  BY <1>1, <1>2, TypesIdle
<1>3. ASSUME NEW t \in Thread,
             \/ Reset(t) \/ Clear(t) \/ Zero(t) \/ Count(t) \/ CountPast(t) \/ EndLoop(t) \/ Prefix(t)
             \/ Scan(t) \/ ExpertIds(t)
             \/ Skip(t) \/ TakeRank(t) \/ Store(t) \/ PlaceFromRow(t) \/ PlacePast(t) \/ PlaceBatch(t)
      PROVE  SmallTypes'
  <2>1. ~ TakeRank(t) /\ ~ PlaceBatch(t)
    BY <1>1 DEF TakeRank, PlaceBatch
  <2>2. ~ Store(t)
    BY <1>1, SmallAt DEF Store, SmallTypes
  <2>3. QED
    BY <1>1, <1>3, <2>1, <2>2, TypesOther, TypesCount, TypesPrefix, TypesScan, TypesPlace
<1>4. QED
  BY <1>2, <1>3 DEF Next

\* small: what this says of the types when ids are past the experts.
LEMMA PastTypes ==
    ASSUME SmallTypes, ~ IdsInRange
    PROVE  TypeOK
  BY DEF SmallTypes, AlignThreads, AlignInput, TypeOK

\* small: the launch.
LEMMA SmallTypesInit == Init => (path = "small" => SmallTypes)
<1> SUFFICES ASSUME Init, path = "small" PROVE SmallTypes
  OBVIOUS
<1>1. AlignThreads /\ AlignMemory
  BY AlignStart
<1>2. QED
  BY <1>1 DEF SmallTypes, AlignMemory

----------------------------------------------------------------------------
(* Every path *)

\* The host launches one of the four paths.
LaunchOK == path \in {"general", "small", "batched", "index"}

\* The path is one of the four in every state.
LEMMA Launch == Spec => []LaunchOK
<1>1. Init => LaunchOK
  <2> SUFFICES ASSUME Init PROVE LaunchOK
    OBVIOUS
  <2>1. PICK m \in Modes : path = m[1]
    BY DEF Init, Inputs
  <2>2. \/ m \in {"general", "small"} \X {"none", "enabled"}
        \/ m = <<"batched", "none">> \/ m = <<"index", "none">>
    BY MoeAssumption
  <2>3. m[1] \in {"general", "small", "batched", "index"}
    BY <2>2
  <2>4. QED
    BY <2>1, <2>3 DEF LaunchOK
<1>2. LaunchOK /\ [Next]_vars => LaunchOK'
  BY PathKept DEF LaunchOK
<1>3. QED
  BY <1>1, <1>2, PTL DEF Spec

\* In the kernel of the large batches the threads meet at their barriers, the counts are
\* those of the elements tallied so far, an offset is its expert's first slot plus what was
\* drawn from it, and a slot holds padding or an element of the expert it belongs to.
THEOREM GeneralInvariant == Spec => [](path = "general" => GeneralInv)
<1>1. QED
  BY GeneralInit, GeneralNext, PTL DEF Spec

\* In the kernel of the small batches, which does not check the ids, ids that are all
\* below num_experts give it what the other kernels have without that condition: a row of
\* the counts says how many elements of an expert come before those its thread has still
\* to place, so that no two threads compute the same slot.
THEOREM SmallInvariant == Spec => [](path = "small" /\ IdsInRange => SmallInv)
<1>1. QED
  BY SmallInit, SmallNext, PTL DEF Spec

\* In the batched kernel a thread copies its batch to the slots of its expert, which no
\* other thread's copy touches.
THEOREM BatchedInvariant == Spec => [](path = "batched" => BatchedInv)
<1>1. QED
  BY BatchedInit, BatchedNext, PTL DEF Spec

\* Every count, offset and slot stays a number, whatever the ids and the interleaving of
\* the threads; and no kernel on any path stores outside the buffers its caller allocated
\* or marks a block for what is no expert, except that for the small kernel the ids must
\* be below num_experts.
THEOREM MoeTypes == Spec => []TypeOK
<1>1. (path = "general" => GeneralInv) => (path = "general" => TypeOK)
  BY GeneralResult
<1>2. (path = "small" /\ IdsInRange => SmallInv) => (path = "small" /\ IdsInRange => TypeOK)
  BY SmallResult
<1>3. (path = "batched" => BatchedInv) => (path = "batched" => TypeOK)
  BY BatchedResult
<1>4. (path = "small" => SmallTypes) => (path = "small" /\ ~ IdsInRange => TypeOK)
  BY PastTypes
<1>5. /\ LaunchOK /\ (path = "index" => TypeOK) /\ (path = "general" => TypeOK)
      /\ (path = "small" /\ IdsInRange => TypeOK) /\ (path = "small" /\ ~ IdsInRange => TypeOK)
      /\ (path = "batched" => TypeOK)
      => TypeOK
  BY DEF LaunchOK
<1>6. Spec => [](path = "small" => SmallTypes)
  BY SmallTypesInit, SmallTypesNext, PTL DEF Spec
<1>7. QED
  BY <1>1, <1>2, <1>3, <1>4, <1>5, <1>6, Launch, IndexTypes, GeneralInvariant, SmallInvariant,
     BatchedInvariant, PTL

\* When moe_align_block_size returns, for every interleaving, every routed element has
\* exactly one slot, every block holds elements of the one expert its id names and padding,
\* and the total is the slots in use.  Ids past the experts may be given to the general
\* kernel, which passes them over; on the small path, which the host takes for fewer than
\* 1024 ids and at most 64 experts, the theorem is about launches without them.  The total
\* of the general LoRA kernel is the slots in use or 0, whichever block wrote last.
THEOREM MoeBlocks == Spec => []BlocksGroupByExpert
<1>1. (path = "general" => GeneralInv) => (path = "general" => BlocksGroupByExpert)
  BY GeneralResult
<1>2. (path = "small" /\ IdsInRange => SmallInv) => (path = "small" => BlocksGroupByExpert)
  BY SmallResult DEF BlocksGroupByExpert
<1>3. (path = "batched" => BatchedInv) => (path = "batched" => BlocksGroupByExpert)
  BY BatchedResult
<1>4. path = "index" => BlocksGroupByExpert
  BY DEF BlocksGroupByExpert
<1>5. /\ LaunchOK /\ (path = "general" => BlocksGroupByExpert)
      /\ (path = "small" => BlocksGroupByExpert) /\ (path = "batched" => BlocksGroupByExpert)
      => BlocksGroupByExpert
  BY <1>4 DEF LaunchOK
<1>6. QED
  BY <1>1, <1>2, <1>3, <1>5, Launch, GeneralInvariant, SmallInvariant, BatchedInvariant, PTL
=============================================================================
