------------------------ MODULE LayerwiseSplitProofs ------------------------
(***************************************************************************)
(* Proofs about LayerwiseSplit: every KV head of a layer has one place,    *)
(* the layers with few heads are spread evenly, and the estimate covers    *)
(* what the workers allocate.                                              *)
(***************************************************************************)
EXTENDS LayerwiseSplit, LibraryLemmas

----------------------------------------------------------------------------
(* Division *)

\* Once around the ring.
LEMMA ModOnce ==
    ASSUME NEW n \in Nat \ {0}, NEW x \in 0 .. 2 * n - 1
    PROVE  x % n = IF x < n THEN x ELSE x - n
<1>0. x \in Nat
  OBVIOUS
<1>1. x \in Nat /\ x \div n \in Nat /\ x % n \in 0 .. n - 1 /\ x = n * (x \div n) + (x % n)
  BY <1>0, DivMod
<1> DEFINE q == x \div n
<1>2. CASE q = 0
  BY <1>1, <1>2
<1>3. CASE q = 1
  BY <1>1, <1>3
<1>4. CASE q >= 2
  <2>1. q - 2 \in Nat /\ n * q = 2 * n + n * (q - 2)
    BY <1>1, <1>4
  <2>2. n * (q - 2) >= 0
    BY <2>1
  <2>3. n * q >= 2 * n
    BY <2>1, <2>2, <1>1
  <2>4. QED
    BY <1>1, <2>3
<1>5. QED
  BY <1>1, <1>2, <1>3, <1>4

\* Shares of q, one more for the first r of them, and the first k of them together.
Share(q, r, i) == q + (IF i - 1 < r THEN 1 ELSE 0)
Shares(q, r, k) == k * q + (IF k < r THEN k ELSE r)

LEMMA SplitSum ==
    ASSUME NEW f, NEW n \in Nat, NEW q \in Nat, NEW r \in Nat,
           \A i \in 1 .. n : f[i] = Share(q, r, i)
    PROVE  \A k \in 0 .. n : SumFunctionOnSet(f, 1 .. k) = Shares(q, r, k)
<1> DEFINE Bad == {k \in 0 .. n : SumFunctionOnSet(f, 1 .. k) # Shares(q, r, k)}
<1>1. SUFFICES ASSUME Bad # {} PROVE FALSE
  OBVIOUS
<1>2. PICK k \in Bad : \A j \in Bad : k <= j
  <2>1. Bad \subseteq Nat
    OBVIOUS
  <2> HIDE DEF Bad
  <2>2. QED
    BY <1>1, <2>1, NatMinimum
<1>3. k \in 0 .. n /\ SumFunctionOnSet(f, 1 .. k) # Shares(q, r, k)
  OBVIOUS
<1>4. k # 0
  <2>1. 1 .. 0 = {} /\ 0 * q = 0
    OBVIOUS
  <2>2. SumFunctionOnSet(f, 1 .. 0) = 0
    BY <2>1, SumEmpty
  <2>3. QED
    BY <1>3, <2>1, <2>2 DEF Shares
<1> DEFINE j == k - 1
<1>5. j \in 0 .. n /\ j < k /\ k = j + 1 /\ k \in 1 .. n
  BY <1>3, <1>4
<1>6. j \notin Bad
  BY <1>2, <1>5
<1>7. SumFunctionOnSet(f, 1 .. j) = j * q + (IF j < r THEN j ELSE r)
  BY <1>5, <1>6 DEF Shares
<1> HIDE DEF j, Bad
<1>8. 1 .. k = (1 .. j) \cup {k} /\ k \notin 1 .. j
  BY <1>5
<1>9. IsFiniteSet(1 .. j)
  BY <1>5, FS_Interval
<1>10. \A i \in (1 .. j) \cup {k} : f[i] \in Int
  BY <1>5 DEF Share
<1>11. SumFunctionOnSet(f, (1 .. j) \cup {k}) = f[k] + SumFunctionOnSet(f, 1 .. j)
  BY <1>8, <1>9, <1>10, SumAdd
<1>12. f[k] = q + (IF j < r THEN 1 ELSE 0)
  BY <1>5 DEF Share, j
<1>13. k * q = j * q + q
  BY <1>5
<1>14. j * q \in Nat
  BY <1>5
<1>15. SumFunctionOnSet(f, 1 .. k) = Shares(q, r, k)
  <2>1. SumFunctionOnSet(f, 1 .. k)
          = q + (IF j < r THEN 1 ELSE 0) + (j * q + (IF j < r THEN j ELSE r))
    BY <1>7, <1>8, <1>11, <1>12
  <2>2. j \in Nat /\ k \in Nat
    BY <1>5
  <2>3. q + (IF j < r THEN 1 ELSE 0) + (j * q + (IF j < r THEN j ELSE r))
          = (j * q + q) + (IF k < r THEN k ELSE r)
    BY <1>5, <1>14, <2>2
  <2>4. QED
    BY <1>13, <2>1, <2>3 DEF Shares
<1>16. QED
  BY <1>3, <1>15

\* even_split places every head.
LEMMA EvenSplit ==
    ASSUME NEW heads \in Nat, NEW n \in Nat \ {0}
    PROVE  SumFunction(even_split(heads, n)) = heads
<1> DEFINE f == even_split(heads, n)
<1> DEFINE q == heads \div n
<1> DEFINE r == heads % n
<1>1. q \in Nat /\ r \in 0 .. n - 1 /\ heads = n * q + r
  BY DivMod
<1>2. DOMAIN f = 1 .. n /\ \A i \in 1 .. n : f[i] = Share(q, r, i)
  BY DEF even_split, Share
<1> HIDE DEF f, q, r
<1>3. \A k \in 0 .. n : SumFunctionOnSet(f, 1 .. k) = Shares(q, r, k)
  <2>1. r \in Nat /\ n \in Nat
    BY <1>1
  <2>2. \A i \in 1 .. n : f[i] = Share(q, r, i)
    BY <1>2
  <2>3. QED
    BY <1>1, <2>1, <2>2, SplitSum
<1>4. n \in 0 .. n /\ ~ (n < r)
  BY <1>1
<1>5. SumFunctionOnSet(f, 1 .. n) = n * q + r
  BY <1>3, <1>4 DEF Shares
<1>6. QED
  BY <1>1, <1>2, <1>5 DEF SumFunction, f

----------------------------------------------------------------------------
(* The shards of a layer *)

\* spec is what one iteration of the loop computes for a layer of this many heads.
Computed(spec, heads) ==
    \/ heads >= world_size /\ spec = dense_spec(heads)
    \/ heads < world_size /\ \E o \in Rank : spec = moe_spec(heads, o)

\* What is right about the shards of a layer.
Placed(spec, heads) ==
    /\ spec \in LayerShardSpec
    /\ is_valid(spec)
    /\ total_heads(spec) = heads
    /\ \A i, j \in DOMAIN spec.assigned_ranks :
         spec.assigned_ranks[i] = spec.assigned_ranks[j] => i = j

LEMMA DensePlaced ==
    ASSUME NEW heads \in Nat \ {0}, heads >= world_size
    PROVE  Placed(dense_spec(heads), heads)
<1> DEFINE w == world_size
<1>1. w \in Nat \ {0}
  BY LayerwiseAssumption
<1> DEFINE q == heads \div w
<1> DEFINE r == heads % w
<1>2. q \in Nat /\ r \in 0 .. w - 1 /\ heads = w * q + r
  BY <1>1, DivMod
<1>3. q > 0
  <2>1. q = 0 => w * q = 0
    BY <1>1
  <2>2. QED
    BY <1>1, <1>2, <2>1
<1>4. SumFunction(even_split(heads, w)) = heads
  BY <1>1, EvenSplit
<1>5. /\ even_split(heads, w) \in Seq(Nat) /\ Len(even_split(heads, w)) = w
      /\ \A i \in 1 .. w : even_split(heads, w)[i] > 0
      /\ DOMAIN even_split(heads, w) = 1 .. w
  <2> HIDE DEF q, r
  <2>1. even_split(heads, w) = [i \in 1 .. w |-> Share(q, r, i)]
    BY DEF even_split, Share, q, r
  <2>2. \A i \in 1 .. w : Share(q, r, i) \in Nat /\ Share(q, r, i) > 0
    BY <1>1, <1>2, <1>3 DEF Share
  <2>3. QED
    BY <1>1, <2>1, <2>2
<1>6. /\ dense_spec(heads).assigned_ranks = [i \in 1 .. w |-> i - 1]
      /\ dense_spec(heads).heads_per_rank = even_split(heads, w)
      /\ dense_spec(heads) = [assigned_ranks |-> [i \in 1 .. w |-> i - 1],
                              heads_per_rank |-> even_split(heads, w)]
  BY DEF dense_spec
<1>7. [i \in 1 .. w |-> i - 1] \in Seq(Rank) /\ Len([i \in 1 .. w |-> i - 1]) = w
  BY <1>1 DEF Rank
<1> HIDE DEF w, q, r
<1>8. dense_spec(heads) \in LayerShardSpec
  <2>1. \A a \in Seq(Rank), h \in Seq(Nat) : [assigned_ranks |-> a, heads_per_rank |-> h] \in LayerShardSpec
    BY DEF LayerShardSpec
  <2>2. QED
    BY <1>5, <1>6, <1>7, <2>1
<1>9. is_valid(dense_spec(heads))
  <2>1. dense_spec(heads).assigned_ranks # <<>>
    BY <1>1, <1>6, <1>7
  <2>2. Len(dense_spec(heads).assigned_ranks) = Len(dense_spec(heads).heads_per_rank)
    BY <1>5, <1>6, <1>7
  <2>3. QED
    BY <1>5, <1>6, <2>1, <2>2 DEF is_valid
<1>10. total_heads(dense_spec(heads)) = heads
  BY <1>4, <1>6 DEF total_heads
<1>11. QED
  BY <1>1, <1>6, <1>8, <1>9, <1>10 DEF Placed

\* A rank of the ring is met once in fewer than world_size steps from o.
LEMMA RingInjective ==
    ASSUME NEW o \in Rank, NEW i \in 1 .. world_size, NEW j \in 1 .. world_size,
           (o + i - 1) % world_size = (o + j - 1) % world_size
    PROVE  i = j
<1>1. world_size \in Nat \ {0}
  BY LayerwiseAssumption
<1> DEFINE a == o + i - 1
<1> DEFINE b == o + j - 1
<1>2. a \in 0 .. 2 * world_size - 1 /\ b \in 0 .. 2 * world_size - 1 /\ a % world_size = b % world_size
  BY <1>1 DEF Rank
<1>3. a - b = i - j /\ i - j < world_size /\ j - i < world_size
  BY <1>1 DEF Rank
<1> HIDE DEF a, b
<1>4. /\ a % world_size = IF a < world_size THEN a ELSE a - world_size
      /\ b % world_size = IF b < world_size THEN b ELSE b - world_size
  BY <1>1, <1>2, ModOnce
<1>5. a = b
  BY <1>1, <1>2, <1>3, <1>4
<1>6. QED
  BY <1>2, <1>3, <1>5

LEMMA MoePlaced ==
    ASSUME NEW heads \in Nat \ {0}, heads < world_size, NEW o \in Rank
    PROVE  Placed(moe_spec(heads, o), heads)
<1> DEFINE w == world_size
<1> DEFINE ranks == [i \in 1 .. heads |-> (o + i - 1) % world_size]
<1>1. w \in Nat \ {0}
  BY LayerwiseAssumption
<1>2. SumFunction(even_split(heads, heads)) = heads
  BY EvenSplit
<1>3. heads \div heads = 1 /\ heads % heads = 0
  <2>1. heads \div heads \in Nat /\ heads % heads \in 0 .. heads - 1
          /\ heads = heads * (heads \div heads) + (heads % heads)
    BY DivMod
  <2> DEFINE q == heads \div heads
  <2>2. q # 0
    BY <2>1
  <2>3. ASSUME q >= 2 PROVE FALSE
    <3>1. q - 2 \in Nat /\ heads * q = 2 * heads + heads * (q - 2)
      BY <2>1, <2>3
    <3>2. heads * (q - 2) >= 0
      BY <3>1
    <3>3. QED
      BY <2>1, <3>1, <3>2
  <2>4. q = 1
    BY <2>1, <2>2, <2>3
  <2>5. QED
    BY <2>1, <2>4
<1>4. even_split(heads, heads) = [i \in 1 .. heads |-> 1]
  BY <1>3 DEF even_split
<1>5. \A i \in 1 .. heads : (o + i - 1) % w \in Rank
  <2>1. \A i \in 1 .. heads : o + i - 1 \in Nat
    BY <1>1 DEF Rank
  <2>2. \A a \in Nat : a % w \in 0 .. w - 1
    BY <1>1, DivMod
  <2>3. QED
    BY <2>1, <2>2 DEF Rank
<1>6. ranks \in Seq(Rank) /\ Len(ranks) = heads /\ DOMAIN ranks = 1 .. heads
  <2> DEFINE e(i) == (o + i - 1) % world_size
  <2>1. \A i \in 1 .. heads : e(i) \in Rank
    BY <1>5
  <2>2. ranks = [i \in 1 .. heads |-> e(i)]
    OBVIOUS
  <2> HIDE DEF e, ranks
  <2>3. QED
    BY <2>1, <2>2
<1>7. /\ moe_spec(heads, o).assigned_ranks = ranks
      /\ moe_spec(heads, o).heads_per_rank = even_split(heads, heads)
      /\ moe_spec(heads, o) = [assigned_ranks |-> ranks, heads_per_rank |-> even_split(heads, heads)]
  BY DEF moe_spec
<1>8. \A i, j \in 1 .. heads : ranks[i] = ranks[j] => i = j
  <2>1. \A i \in 1 .. heads : i \in 1 .. w
    BY <1>1
  <2>2. QED
    BY <2>1, RingInjective
<1> HIDE DEF w, ranks
<1>9. /\ even_split(heads, heads) \in Seq(Nat) /\ Len(even_split(heads, heads)) = heads
      /\ \A i \in 1 .. heads : even_split(heads, heads)[i] > 0
      /\ DOMAIN even_split(heads, heads) = 1 .. heads
  BY <1>4
<1>10. moe_spec(heads, o) \in LayerShardSpec
  BY <1>6, <1>7, <1>9 DEF LayerShardSpec
<1>11. is_valid(moe_spec(heads, o))
  BY <1>6, <1>7, <1>9 DEF is_valid
<1>12. total_heads(moe_spec(heads, o)) = heads
  BY <1>2, <1>7 DEF total_heads
<1>13. QED
  BY <1>6, <1>7, <1>8, <1>10, <1>11, <1>12 DEF Placed

LEMMA ComputedIsPlaced ==
    ASSUME NEW heads \in Nat \ {0}, NEW spec, Computed(spec, heads)
    PROVE  Placed(spec, heads)
  BY DensePlaced, MoePlaced DEF Computed

\* In a placed layer a rank has at most one entry.
LEMMA OneSlot ==
    ASSUME NEW heads, NEW spec, Placed(spec, heads), NEW r \in Rank
    PROVE  /\ IsFiniteSet(slots(spec, r)) /\ Cardinality(slots(spec, r)) <= 1
           /\ slots(spec, r) # {} =>
                \E i \in DOMAIN spec.assigned_ranks : slots(spec, r) = {i} /\ Min(slots(spec, r)) = i
<1>1. \A i, j \in slots(spec, r) : i = j
  BY DEF Placed, slots
<1>2. CASE slots(spec, r) = {}
  BY <1>2, FS_EmptySet
<1>3. CASE slots(spec, r) # {}
  <2>1. PICK i : i \in slots(spec, r)
    BY <1>3
  <2>2. slots(spec, r) = {i}
    BY <1>1, <2>1
  <2>3. i \in DOMAIN spec.assigned_ranks /\ i \in Nat
    BY <2>1 DEF slots, Placed, LayerShardSpec
  <2>4. IsFiniteSet({i}) /\ Cardinality({i}) = 1
    BY FS_Singleton
  <2>5. Min({i}) = i
    BY <2>3 DEF Min
  <2>6. QED
    BY <2>2, <2>3, <2>4, <2>5
<1>4. QED
  BY <1>2, <1>3

----------------------------------------------------------------------------
(* The invariant *)

SpecsAreComputed == \A l \in DOMAIN specs : Computed(specs[l], per_layer_heads[l])

\* The layers with fewer heads than ranks a rank owns.
SmallLayers(r) == {l \in DOMAIN specs : per_layer_heads[l] < world_size /\ rank_owns_layer(r, l)}

\* The ranks before rr_offset are one small layer ahead of the others.
RingInv ==
    \E base \in Nat : \A r \in Rank :
        Cardinality(SmallLayers(r)) = base + (IF r < rr_offset THEN 1 ELSE 0)

\* A worker has allocated the shards of the first layers.
WorkersInv ==
    /\ phase = "layout" => \A r \in Rank : kv_caches[r] = <<>> /\ worker[r] = "allocating"
    /\ phase = "workers" =>
         /\ Len(specs) = NumLayers
         /\ estimate = [r \in Rank |-> per_rank_bytes(r)]
         /\ \A r \in Rank :
              /\ Len(kv_caches[r]) <= NumLayers
              /\ \A l \in DOMAIN kv_caches[r] : kv_caches[r][l] = heads_for_rank(r, l)
              /\ worker[r] = "verified" => Len(kv_caches[r]) = NumLayers

LayoutInv == TypeOK /\ SpecsAreComputed /\ RingInv /\ WorkersInv

LEMMA LayerPlaced ==
    ASSUME TypeOK, SpecsAreComputed, NEW l \in DOMAIN specs
    PROVE  Placed(specs[l], per_layer_heads[l]) /\ l \in Layer
<1>1. l \in Layer
  BY LayerwiseAssumption DEF TypeOK, Layer
<1>2. per_layer_heads[l] \in Nat \ {0}
  BY <1>1, LayerwiseAssumption DEF TypeOK
<1>3. QED
  BY <1>1, <1>2, ComputedIsPlaced DEF SpecsAreComputed

LEMMA InitInv == Init => LayoutInv
<1> SUFFICES ASSUME Init PROVE LayoutInv
  OBVIOUS
<1>1. 0 \in Rank
  BY LayerwiseAssumption DEF Rank
<1>2. per_layer_heads \in [Layer -> HeadCounts]
  BY DEF Init
<1>3. specs = <<>> /\ DOMAIN specs = {} /\ Len(specs) = 0 /\ specs \in Seq(LayerShardSpec)
  BY DEF Init
<1>4. TypeOK
  BY <1>1, <1>2, <1>3, LayerwiseAssumption DEF Init, TypeOK
<1>5. SpecsAreComputed
  BY <1>3 DEF SpecsAreComputed
<1>6. RingInv
  <2>1. \A r \in Rank : SmallLayers(r) = {} /\ ~ (r < rr_offset)
    BY <1>3, LayerwiseAssumption DEF SmallLayers, Init, Rank
  <2>2. Cardinality({}) = 0
    BY FS_EmptySet
  <2>3. QED
    BY <2>1, <2>2 DEF RingInv
<1>7. WorkersInv
  BY DEF Init, WorkersInv
<1>8. QED
  BY <1>4, <1>5, <1>6, <1>7 DEF LayoutInv

Wrap(x) == IF x < world_size THEN x ELSE x - world_size

LEMMA RingMod ==
    ASSUME NEW x \in 0 .. 2 * world_size - 1
    PROVE  x % world_size = Wrap(x)
  BY ModOnce, LayerwiseAssumption DEF Wrap

\* Which ranks a layer with few heads is put on.
LEMMA MoeOwners ==
    ASSUME NEW heads \in Nat \ {0}, heads < world_size, NEW o \in Rank, NEW r \in Rank
    PROVE  /\ next_offset(heads, o) = Wrap(o + heads)
           /\ slots(moe_spec(heads, o), r) # {} <=>
                IF o + heads < world_size THEN o <= r /\ r < o + heads
                ELSE o <= r \/ r < o + heads - world_size
<1> DEFINE w == world_size
<1>1. w \in Nat \ {0} /\ o \in 0 .. w - 1 /\ r \in 0 .. w - 1
  BY LayerwiseAssumption DEF Rank
<1>2. next_offset(heads, o) = Wrap(o + heads)
  <2> DEFINE x == o + heads
  <2>1. x \in 0 .. 2 * w - 1 /\ next_offset(heads, o) = x % w
    BY <1>1 DEF next_offset
  <2> HIDE DEF x
  <2>2. x % w = Wrap(x)
    BY <2>1, RingMod
  <2>3. QED
    BY <2>1, <2>2 DEF x
<1>3. slots(moe_spec(heads, o), r) = {i \in 1 .. heads : (o + i - 1) % w = r}
  BY DEF slots, moe_spec
<1>4. ASSUME NEW i \in 1 .. heads PROVE (o + i - 1) % w = Wrap(o + i - 1)
  <2> DEFINE x == o + i - 1
  <2>1. x \in 0 .. 2 * w - 1
    BY <1>1
  <2> HIDE DEF x
  <2>2. x % w = Wrap(x)
    BY <2>1, RingMod
  <2>3. QED
    BY <2>2 DEF x
<1> DEFINE Owns == \E i \in 1 .. heads : r = Wrap(o + i - 1)
<1>5. slots(moe_spec(heads, o), r) # {} <=> Owns
  BY <1>3, <1>4
<1>6. CASE o + heads < w
  <2>1. ASSUME o <= r, r < o + heads PROVE Owns
    <3> DEFINE i == r - o + 1
    <3>1. i \in 1 .. heads /\ o + i - 1 = r /\ Wrap(r) = r
      BY <1>1, <2>1 DEF Wrap
    <3> HIDE DEF i
    <3>2. QED
      BY <3>1
  <2>2. ASSUME Owns PROVE o <= r /\ r < o + heads
    BY <1>1, <1>6, <2>2 DEF Wrap
  <2>3. QED
    BY <1>2, <1>5, <1>6, <2>1, <2>2
<1>7. CASE ~ (o + heads < w)
  <2>1. ASSUME o <= r PROVE Owns
    <3> DEFINE i == r - o + 1
    <3>1. i \in 1 .. heads /\ o + i - 1 = r /\ Wrap(r) = r
      BY <1>1, <1>7, <2>1 DEF Wrap
    <3> HIDE DEF i
    <3>2. QED
      BY <3>1
  <2>2. ASSUME r < o + heads - w PROVE Owns
    <3> DEFINE i == r + w - o + 1
    <3>1. i \in 1 .. heads /\ o + i - 1 = r + w /\ Wrap(r + w) = r
      BY <1>1, <1>7, <2>2 DEF Wrap
    <3> HIDE DEF i
    <3>2. QED
      BY <3>1
  <2>3. ASSUME Owns PROVE o <= r \/ r < o + heads - w
    BY <1>1, <1>7, <2>3 DEF Wrap
  <2>4. QED
    BY <1>2, <1>5, <1>7, <2>1, <2>2, <2>3
<1>8. QED
  BY <1>6, <1>7

----------------------------------------------------------------------------
(* The layout loop *)

LEMMA FallBackInv ==
    ASSUME LayoutInv, FallBack
    PROVE  LayoutInv'
<1>1. /\ phase' = "uniform"
      /\ UNCHANGED <<enabled, build, dtype, value_dim, per_layer_heads, specs, rr_offset, estimate, kv_caches, worker>>
  BY DEF FallBack, inputVars, layoutVars
<1>2. TypeOK' /\ SpecsAreComputed' /\ WorkersInv'
  BY <1>1 DEF LayoutInv, TypeOK, SpecsAreComputed, WorkersInv
<1>3. RingInv'
  BY <1>1 DEF LayoutInv, RingInv, SmallLayers, rank_owns_layer
<1>4. QED
  BY <1>2, <1>3 DEF LayoutInv

\* The small layers after one more layer.
LEMMA SmallLayersStep ==
    ASSUME TypeOK, NEW spec, specs' = Append(specs, spec), UNCHANGED per_layer_heads, NEW r \in Rank
    PROVE  LET n == Len(specs) + 1
               more == per_layer_heads[n] < world_size /\ slots(spec, r) # {}
           IN  Cardinality(SmallLayers(r)') = Cardinality(SmallLayers(r)) + (IF more THEN 1 ELSE 0)
<1>0. PICK n : n = Len(specs) + 1
  OBVIOUS
<1>1. /\ Len(specs) \in Nat /\ DOMAIN specs = 1 .. Len(specs)
      /\ DOMAIN specs' = 1 .. n /\ specs'[n] = spec
      /\ \A l \in DOMAIN specs : specs'[l] = specs[l]
  BY <1>0 DEF TypeOK
<1>2. n \in Nat /\ DOMAIN specs' = DOMAIN specs \cup {n} /\ n \notin DOMAIN specs
  BY <1>0, <1>1
<1>3. \A l \in DOMAIN specs : (rank_owns_layer(r, l))' <=> rank_owns_layer(r, l)
  BY <1>1 DEF rank_owns_layer, slots
<1>4. rank_owns_layer(r, n)' <=> slots(spec, r) # {}
  BY <1>1 DEF rank_owns_layer
<1>5. IsFiniteSet(SmallLayers(r)) /\ n \notin SmallLayers(r)
  <2>1. IsFiniteSet(DOMAIN specs)
    BY <1>1, FS_Interval
  <2>2. SmallLayers(r) \subseteq DOMAIN specs
    BY DEF SmallLayers
  <2>3. QED
    BY <1>2, <2>1, <2>2, FS_Subset
<1>6. Cardinality(SmallLayers(r)) \in Nat
  BY <1>5, FS_CardinalityType
<1>7. CASE per_layer_heads[n] < world_size /\ slots(spec, r) # {}
  <2>1. SmallLayers(r)' = SmallLayers(r) \cup {n}
    BY <1>2, <1>3, <1>4, <1>7 DEF SmallLayers
  <2>2. Cardinality(SmallLayers(r) \cup {n}) = Cardinality(SmallLayers(r)) + 1
    BY <1>5, FS_AddElement
  <2>3. QED
    BY <1>0, <1>7, <2>1, <2>2
<1>8. CASE ~ (per_layer_heads[n] < world_size /\ slots(spec, r) # {})
  <2>1. SmallLayers(r)' = SmallLayers(r)
    BY <1>2, <1>3, <1>4, <1>8 DEF SmallLayers
  <2>2. QED
    BY <1>0, <1>6, <1>8, <2>1
<1>9. QED
  BY <1>7, <1>8

LEMMA AssignLayerInv ==
    ASSUME LayoutInv, AssignLayer
    PROVE  LayoutInv'
<1> DEFINE n == Len(specs) + 1
<1> DEFINE heads == per_layer_heads[n]
<1> DEFINE spec == IF heads >= world_size THEN dense_spec(heads) ELSE moe_spec(heads, rr_offset)
<1>1. /\ phase = "layout" /\ Len(specs) < NumLayers
      /\ specs' = Append(specs, spec)
      /\ rr_offset' = IF heads >= world_size THEN rr_offset ELSE next_offset(heads, rr_offset)
      /\ UNCHANGED <<enabled, build, dtype, value_dim, per_layer_heads, estimate, phase, kv_caches, worker>>
  BY DEF AssignLayer, inputVars
<1>2. /\ Len(specs) \in Nat /\ DOMAIN specs = 1 .. Len(specs) /\ specs \in Seq(LayerShardSpec)
      /\ NumLayers \in Nat /\ rr_offset \in Rank /\ world_size \in Nat \ {0}
  BY LayerwiseAssumption DEF LayoutInv, TypeOK
<1>3. n \in Layer /\ n \in Nat /\ n <= NumLayers
  BY <1>1, <1>2 DEF Layer
<1>4. heads \in Nat \ {0}
  BY <1>3, LayerwiseAssumption DEF LayoutInv, TypeOK
<1> HIDE DEF n, heads
<1>5. Computed(spec, heads)
  BY <1>2, <1>4 DEF Computed
<1>6. Placed(spec, heads)
  BY <1>4, <1>5, ComputedIsPlaced
<1>7. spec \in LayerShardSpec
  BY <1>6 DEF Placed
<1>8. /\ specs' \in Seq(LayerShardSpec) /\ Len(specs') = n
      /\ DOMAIN specs' = DOMAIN specs \cup {n} /\ specs'[n] = spec
      /\ \A l \in DOMAIN specs : specs'[l] = specs[l]
  <2> HIDE DEF spec
  <2>1. QED
    BY <1>1, <1>2, <1>7 DEF n
<1>9. rr_offset' \in Rank
  <2>1. CASE heads >= world_size
    BY <1>1, <1>2, <2>1
  <2>2. CASE ~ (heads >= world_size)
    <3>1. rr_offset + heads \in Nat
      BY <1>2, <1>4 DEF Rank
    <3>2. \A a \in Nat : a % world_size \in 0 .. world_size - 1
      BY <1>2, DivMod
    <3>3. QED
      BY <1>1, <2>2, <3>1, <3>2 DEF next_offset, Rank
  <2>3. QED
    BY <2>1, <2>2
<1>10. TypeOK'
  BY <1>1, <1>3, <1>8, <1>9 DEF LayoutInv, TypeOK
<1>11. SpecsAreComputed'
  <2> HIDE DEF spec
  <2>1. QED
    BY <1>1, <1>5, <1>8 DEF LayoutInv, SpecsAreComputed, heads
<1>12. RingInv'
  <2>1. PICK base \in Nat : \A r \in Rank :
          Cardinality(SmallLayers(r)) = base + (IF r < rr_offset THEN 1 ELSE 0)
    BY DEF LayoutInv, RingInv
  <2>2. \A r \in Rank : Cardinality(SmallLayers(r)') = Cardinality(SmallLayers(r))
                          + (IF heads < world_size /\ slots(spec, r) # {} THEN 1 ELSE 0)
    <3> HIDE DEF spec
    <3>1. QED
      BY <1>1, SmallLayersStep DEF LayoutInv, n, heads
  <2>3. CASE heads >= world_size
    <3>1. \A r \in Rank : Cardinality(SmallLayers(r)') = base + (IF r < rr_offset THEN 1 ELSE 0)
      <4> HIDE DEF spec
      <4>1. ~ (heads < world_size)
        BY <1>2, <1>4, <2>3
      <4>2. \A r \in Rank : Cardinality(SmallLayers(r)') = Cardinality(SmallLayers(r)) + 0
        BY <2>2, <4>1
      <4>3. QED
        BY <2>1, <4>2
    <3>2. QED
      BY <1>1, <2>3, <3>1 DEF RingInv
  <2>4. CASE heads < world_size
    <3>1. spec = moe_spec(heads, rr_offset) /\ rr_offset' = next_offset(heads, rr_offset)
      BY <1>1, <1>2, <1>4, <2>4
    <3>2. rr_offset' = Wrap(rr_offset + heads)
      BY <1>2, <1>4, <2>4, <3>1, MoeOwners
    <3>3. \A r \in Rank : slots(spec, r) # {} <=>
            IF rr_offset + heads < world_size THEN rr_offset <= r /\ r < rr_offset + heads
            ELSE rr_offset <= r \/ r < rr_offset + heads - world_size
      BY <1>2, <1>4, <2>4, <3>1, MoeOwners
    <3> HIDE DEF spec
    <3>4. /\ rr_offset \in Nat /\ rr_offset < world_size
          /\ \A r \in Rank : r \in Nat /\ r < world_size
      BY <1>2 DEF Rank
    <3>5. CASE rr_offset + heads < world_size
      <4>1. \A r \in Rank : Cardinality(SmallLayers(r)') = base + (IF r < rr_offset + heads THEN 1 ELSE 0)
        BY <1>2, <1>4, <2>1, <2>2, <2>4, <3>3, <3>4, <3>5
      <4>2. QED
        BY <3>2, <3>5, <4>1 DEF RingInv, Wrap
    <3>6. CASE ~ (rr_offset + heads < world_size)
      <4>1. \A r \in Rank :
              Cardinality(SmallLayers(r)') = (base + 1) + (IF r < rr_offset + heads - world_size THEN 1 ELSE 0)
        BY <1>2, <1>4, <2>1, <2>2, <2>4, <3>3, <3>4, <3>6
      <4>2. rr_offset' = rr_offset + heads - world_size
        BY <1>2, <1>4, <3>2, <3>4, <3>6 DEF Wrap
      <4>3. base + 1 \in Nat
        OBVIOUS
      <4>4. QED
        BY <4>1, <4>2, <4>3 DEF RingInv
    <3>7. QED
      BY <3>5, <3>6
  <2>5. QED
    BY <1>2, <1>4, <2>3, <2>4
<1>13. WorkersInv'
  BY <1>1 DEF LayoutInv, WorkersInv
<1>14. QED
  BY <1>10, <1>11, <1>12, <1>13 DEF LayoutInv

----------------------------------------------------------------------------
(* The estimate and the workers *)

\* Rounding up gives the multiple that is less than one divisor above.
LEMMA AlignUp ==
    ASSUME NEW d \in Nat, NEW n \in Nat \ {0}
    PROVE  \E k \in Nat : align_up(d, n) = k * n /\ d <= k * n /\ k * n < d + n
<1>1. PICK x \in Nat : x = d + n - 1
  OBVIOUS
<1>2. PICK q \in Nat, r \in 0 .. n - 1 : q = x \div n /\ r = x % n /\ x = n * q + r
  BY <1>1, Divide
<1>3. align_up(d, n) = q * n
  BY <1>1, <1>2 DEF align_up
<1>4. PICK y \in Nat : y = n * q /\ y = q * n
  OBVIOUS
<1>5. d <= y /\ y < d + n
  BY <1>1, <1>2, <1>4
<1>6. QED
  BY <1>3, <1>4, <1>5

\* ... so it keeps the order, and leaves a multiple alone.
LEMMA AlignLaws ==
    ASSUME NEW n \in Nat \ {0}
    PROVE  /\ \A d \in Nat : align_up(d, n) \in Nat /\ d <= align_up(d, n)
           /\ \A c, d \in Nat : c <= d => align_up(c, n) <= align_up(d, n)
           /\ \A d \in Nat : d % n = 0 => align_up(d, n) = d
<1>1. ASSUME NEW d \in Nat PROVE align_up(d, n) \in Nat /\ d <= align_up(d, n)
  <2>1. PICK k \in Nat : align_up(d, n) = k * n /\ d <= k * n
    BY AlignUp
  <2>2. QED
    BY <2>1, Scale
<1>2. ASSUME NEW c \in Nat, NEW d \in Nat, c <= d PROVE align_up(c, n) <= align_up(d, n)
  <2>1. PICK j \in Nat : align_up(c, n) = j * n /\ j * n < c + n
    BY AlignUp
  <2>2. PICK k \in Nat : align_up(d, n) = k * n /\ d <= k * n
    BY AlignUp
  <2>3. k < j => k * n + n <= j * n
    BY Scale
  <2>4. j * n \in Int /\ k * n \in Int /\ (j <= k => j * n <= k * n)
    BY Scale
  <2>5. PICK x \in Int, y \in Int : x = j * n /\ y = k * n
    BY <2>4
  <2>6. ~ (k < j)
    BY <1>2, <2>1, <2>2, <2>3, <2>5
  <2>7. QED
    BY <2>1, <2>2, <2>4, <2>6
<1>3. ASSUME NEW d \in Nat, d % n = 0 PROVE align_up(d, n) = d
  <2>1. PICK k \in Nat : align_up(d, n) = k * n /\ d <= k * n /\ k * n < d + n
    BY AlignUp
  <2>2. PICK q \in Nat, r \in 0 .. n - 1 : q = d \div n /\ r = d % n /\ d = n * q + r
    BY Divide
  <2>3. d = q * n
    BY <1>3, <2>2
  <2>4. q < k => q * n + n <= k * n
    BY Scale
  <2>5. k < q => k * n + n <= q * n
    BY Scale
  <2>6. PICK y \in Int : y = k * n
    OBVIOUS
  <2>7. ~ (q < k) /\ ~ (k < q)
    BY <2>1, <2>3, <2>4, <2>5, <2>6
  <2>8. QED
    BY <2>1, <2>3, <2>7
<1>4. QED
  BY <1>1, <1>2, <1>3

LEMMA TimesMonotone ==
    ASSUME NEW h \in Nat, NEW a \in Nat, NEW b \in Nat, a <= b
    PROVE  h * a \in Nat /\ h * b \in Nat /\ h * a <= h * b
<1> DEFINE d == b - a
<1>1. d \in Nat /\ b = a + d
  OBVIOUS
<1> HIDE DEF d
<1>2. h * b = h * a + h * d /\ h * d \in Nat /\ h * a \in Nat
  BY <1>1
<1>3. QED
  BY <1>2

\* Where both factors grow the product does, strictly if one of them does and the
\* smaller product is positive.
LEMMA ProductOrder ==
    ASSUME NEW a \in Nat \ {0}, NEW b \in Nat \ {0}, NEW c \in Nat, NEW d \in Nat, a <= c, b <= d
    PROVE  a * b <= c * d /\ (a < c \/ b < d => a * b < c * d)
<1>1. a * b <= a * d /\ a * b \in Nat /\ a * d \in Nat
  BY TimesMonotone
<1>2. d * a <= d * c /\ d * c \in Nat
  BY TimesMonotone
<1>3. d * a = a * d /\ d * c = c * d
  OBVIOUS
<1>4. b < d => a * b < a * d
  <2>1. b < d => b * a + a <= d * a
    BY Scale
  <2>2. b * a = a * b
    OBVIOUS
  <2>3. QED
    BY <1>1, <1>3, <2>1, <2>2
<1>5. a < c => a * d < c * d
  <2>1. d \in Nat \ {0}
    OBVIOUS
  <2>2. a < c => a * d + d <= c * d
    BY <2>1, Scale
  <2>3. QED
    BY <1>1, <1>2, <1>3, <2>1, <2>2
<1>6. QED
  BY <1>1, <1>2, <1>3, <1>4, <1>5

\* The bytes of a head, by the estimator and by the allocator.
LEMMA HeadBytes ==
    ASSUME TypeOK
    PROVE  /\ estimated_head_bytes \in Nat /\ allocated_head_bytes \in Nat
           /\ EstimateCoversShape => allocated_head_bytes <= estimated_head_bytes
           /\ EstimateFitsShape => allocated_head_bytes = estimated_head_bytes
           /\ EstimateFallsShort => estimated_head_bytes < allocated_head_bytes
<1>1. /\ head_dim \in Nat \ {0} /\ WarpSize \in Nat \ {0} /\ BlockTokens \in Nat \ {0}
      /\ value_dim \in Nat /\ dtype \in 0 .. 7 \cup {11, 15}
  BY LayerwiseAssumption DEF TypeOK
<1>2. PICK es \in Nat \ {0} : es = element_size(dtype)
  BY <1>1 DEF element_size
<1>3. PICK db \in Nat \ {0} : db = dtype_bytes(dtype)
  BY <1>1 DEF dtype_bytes
<1>4. PICK ph \in Nat \ {0}, pk \in Nat \ {0}, pv \in Nat :
         /\ ph = padded_head_dim /\ pk = padded_dim(head_dim)
         /\ pv = IF value_dim = 0 THEN 0 ELSE padded_dim(value_dim)
         /\ value_dim <= head_dim => pv <= pk
         /\ value_dim >= head_dim => pv >= pk /\ pv = padded_dim(value_dim)
         /\ ph <= pk /\ ((build = "mlu" => head_dim % WarpSize = 0) => ph = pk)
  <2> DEFINE up(x) == align_up(x, WarpSize)
  <2>1. /\ up(head_dim) \in Nat /\ head_dim <= up(head_dim) /\ up(value_dim) \in Nat
        /\ value_dim <= head_dim => up(value_dim) <= up(head_dim)
        /\ head_dim <= value_dim => up(head_dim) <= up(value_dim)
        /\ head_dim % WarpSize = 0 => up(head_dim) = head_dim
    BY <1>1, AlignLaws
  <2> HIDE DEF up
  <2>2. /\ padded_head_dim = IF build = "ilu" THEN up(head_dim) ELSE head_dim
        /\ padded_dim(head_dim) = IF build \in {"ilu", "mlu"} THEN up(head_dim) ELSE head_dim
        /\ padded_dim(value_dim) = IF build \in {"ilu", "mlu"} THEN up(value_dim) ELSE value_dim
    BY DEF padded_head_dim, padded_dim, up
  <2>3. CASE build = "ilu"
    BY <1>1, <2>1, <2>2, <2>3
  <2>4. CASE build = "mlu"
    BY <1>1, <2>1, <2>2, <2>4
  <2>5. CASE build \notin {"ilu", "mlu"}
    BY <1>1, <2>1, <2>2, <2>5
  <2>6. QED
    BY <2>3, <2>4, <2>5
<1>5. PICK a \in Nat, b \in Nat \ {0} : a = BlockTokens * (pk + pv) /\ b = BlockTokens * (2 * ph)
  <2>1. pk + pv \in Nat /\ 2 * ph \in Nat \ {0}
    OBVIOUS
  <2>2. BlockTokens * (2 * ph) # 0
    BY <1>1, <2>1
  <2>3. QED
    BY <1>1, <2>1, <2>2
<1>6. allocated_head_bytes = a * es
  BY <1>2, <1>4, <1>5 DEF allocated_head_bytes
<1>7. estimated_head_bytes = b * db
  <2>1. 2 * BlockTokens * ph = BlockTokens * (2 * ph)
    BY <1>1
  <2>2. QED
    BY <1>3, <1>4, <1>5, <2>1 DEF estimated_head_bytes
<1>8. /\ pk + pv <= 2 * ph => a <= b
      /\ pk + pv = 2 * ph => a = b
      /\ 2 * ph < pk + pv => b < a
  <2>1. BlockTokens \in Nat \ {0} /\ pk + pv \in Nat /\ 2 * ph \in Nat
    BY <1>1
  <2>2. PICK s \in Nat, t \in Nat : s = pk + pv /\ t = 2 * ph
    BY <2>1
  <2>3. a = s * BlockTokens /\ b = t * BlockTokens
    BY <1>1, <1>5, <2>2
  <2>4. (s <= t <=> s * BlockTokens <= t * BlockTokens) /\ (s = t => a = b)
        /\ (t < s => t * BlockTokens + BlockTokens <= s * BlockTokens)
    BY <1>1, <2>3, Scale
  <2>5. QED
    BY <1>1, <1>5, <2>2, <2>3, <2>4
<1>9. a # 0
  <2>1. pk + pv \in Nat \ {0}
    OBVIOUS
  <2>2. BlockTokens * (pk + pv) # 0
    BY <1>1, <2>1
  <2>3. QED
    BY <1>5, <2>2
<1>10. ASSUME EstimateCoversShape PROVE allocated_head_bytes <= estimated_head_bytes
  <2>1. es <= db /\ pk + pv <= 2 * ph
    BY <1>2, <1>3, <1>4, <1>10 DEF EstimateCoversShape
  <2>2. a <= b
    BY <1>8, <2>1
  <2>3. a * es <= b * db
    BY <1>9, <2>1, <2>2, ProductOrder
  <2>4. QED
    BY <1>6, <1>7, <2>3
<1>11. ASSUME EstimateFitsShape PROVE allocated_head_bytes = estimated_head_bytes
  <2>1. es = db /\ pk = ph /\ value_dim = head_dim
    BY <1>2, <1>3, <1>4, <1>11 DEF EstimateFitsShape
  <2>2. pv = pk
    BY <1>1, <1>4, <2>1
  <2>3. pk + pv = 2 * ph
    BY <2>1, <2>2
  <2>4. QED
    BY <1>6, <1>7, <1>8, <2>1, <2>3
<1>12. ASSUME EstimateFallsShort PROVE estimated_head_bytes < allocated_head_bytes
  <2>1. db <= es /\ value_dim >= head_dim /\ (db < es \/ padded_dim(value_dim) > ph)
    BY <1>2, <1>3, <1>4, <1>12 DEF EstimateFallsShort
  <2>2. pv >= pk /\ (db < es \/ pv > ph)
    BY <1>4, <2>1
  <2>3. 2 * ph <= pk + pv /\ (db < es \/ 2 * ph < pk + pv)
    BY <1>4, <2>2
  <2>4. b <= a /\ (db < es \/ b < a)
    BY <1>8, <2>3
  <2>5. b * db < a * es
    BY <2>1, <2>4, ProductOrder
  <2>6. QED
    BY <1>6, <1>7, <2>5
<1>13. QED
  BY <1>6, <1>7, <1>10, <1>11, <1>12

\* The entries of a rank in a layer are the heads the worker looks up.
LEMMA RankShare ==
    ASSUME TypeOK, SpecsAreComputed, NEW l \in DOMAIN specs, NEW r \in Rank
    PROVE  /\ heads_for_rank(r, l) \in Nat
           /\ SumFunctionOnSet([i \in DOMAIN specs[l].heads_per_rank |->
                                  specs[l].heads_per_rank[i] * estimated_head_bytes],
                               slots(specs[l], r))
                = heads_for_rank(r, l) * estimated_head_bytes
<1> DEFINE spec == specs[l]
<1> DEFINE f == [i \in DOMAIN spec.heads_per_rank |-> spec.heads_per_rank[i] * estimated_head_bytes]
<1>1. Placed(spec, per_layer_heads[l])
  BY LayerPlaced
<1>2. estimated_head_bytes \in Nat
  BY HeadBytes
<1>3. CASE slots(spec, r) = {}
  <2>1. heads_for_rank(r, l) = 0
    BY <1>3 DEF heads_for_rank, rank_owns_layer
  <2>2. SumFunctionOnSet(f, {}) = 0 /\ 0 * estimated_head_bytes = 0
    BY <1>2, SumEmpty
  <2>3. QED
    BY <1>3, <2>1, <2>2
<1>4. CASE slots(spec, r) # {}
  <2>1. PICK i \in DOMAIN spec.assigned_ranks : slots(spec, r) = {i} /\ Min(slots(spec, r)) = i
    BY <1>1, <1>4, OneSlot
  <2>2. heads_for_rank(r, l) = spec.heads_per_rank[i]
    BY <1>4, <2>1 DEF heads_for_rank, rank_owns_layer
  <2>3. i \in DOMAIN spec.heads_per_rank /\ spec.heads_per_rank[i] \in Nat
    <3>1. spec.assigned_ranks \in Seq(Rank) /\ spec.heads_per_rank \in Seq(Nat)
      BY <1>1 DEF Placed, LayerShardSpec
    <3>2. Len(spec.assigned_ranks) = Len(spec.heads_per_rank)
      BY <1>1 DEF Placed, is_valid
    <3> HIDE DEF spec
    <3>3. QED
      BY <3>1, <3>2
  <2>4. f[i] = spec.heads_per_rank[i] * estimated_head_bytes /\ f[i] \in Nat
    BY <1>2, <2>3
  <2> HIDE DEF f, spec
  <2>5. SumFunctionOnSet(f, {i}) = f[i]
    BY <2>4, SumOne
  <2>6. QED
    BY <2>1, <2>2, <2>3, <2>4, <2>5 DEF f, spec
<1>5. QED
  BY <1>3, <1>4

\* The estimate of a rank, in terms of what its worker looks up.
Shared(r) == [l \in Layer |-> heads_for_rank(r, l) * estimated_head_bytes]

LEMMA EstimateShare ==
    ASSUME TypeOK, SpecsAreComputed, Len(specs) = NumLayers, NEW r \in Rank
    PROVE  /\ \A l \in Layer : heads_for_rank(r, l) \in Nat /\ Shared(r)[l] \in Nat
           /\ per_rank_bytes(r) = SumFunctionOnSet(Shared(r), Layer)
           /\ per_rank_bytes(r) \in Nat
<1>1. DOMAIN specs = Layer /\ IsFiniteSet(Layer)
  BY LayerwiseAssumption, FS_Interval DEF TypeOK, Layer
<1>2. estimated_head_bytes \in Nat
  BY HeadBytes
<1> DEFINE entry(l) == [i \in DOMAIN specs[l].heads_per_rank |->
                          specs[l].heads_per_rank[i] * estimated_head_bytes]
<1>3. per_rank_bytes(r) = SumFunction([l \in Layer |-> SumFunctionOnSet(entry(l), slots(specs[l], r))])
  BY DEF per_rank_bytes
<1>4. \A l \in Layer : /\ heads_for_rank(r, l) \in Nat
                       /\ SumFunctionOnSet(entry(l), slots(specs[l], r)) = heads_for_rank(r, l) * estimated_head_bytes
  BY <1>1, RankShare
<1>5. [l \in Layer |-> SumFunctionOnSet(entry(l), slots(specs[l], r))] = Shared(r)
  <2> HIDE DEF entry
  <2>1. QED
    BY <1>4 DEF Shared
<1>6. per_rank_bytes(r) = SumFunctionOnSet(Shared(r), Layer)
  <2>1. DOMAIN Shared(r) = Layer
    BY DEF Shared
  <2> HIDE DEF entry
  <2>2. QED
    BY <1>3, <1>5, <2>1 DEF SumFunction
<1>7. \A l \in Layer : Shared(r)[l] \in Nat
  <2> HIDE DEF entry
  <2>1. \A l \in Layer : heads_for_rank(r, l) * estimated_head_bytes \in Nat
    <3>1. \A h \in Nat : h * estimated_head_bytes \in Nat
      BY <1>2
    <3>2. QED
      BY <1>4, <3>1
  <2>2. QED
    BY <2>1 DEF Shared
<1>8. SumFunctionOnSet(Shared(r), Layer) \in Nat
  BY <1>1, <1>7, SumNat
<1>9. QED
  BY <1>4, <1>6, <1>7, <1>8

LEMMA EstimateInv ==
    ASSUME LayoutInv, Estimate
    PROVE  LayoutInv'
<1>1. /\ phase = "layout" /\ Len(specs) = NumLayers /\ phase' = "workers"
      /\ estimate' = [r \in Rank |-> per_rank_bytes(r)]
      /\ UNCHANGED <<enabled, build, dtype, value_dim, per_layer_heads, specs, rr_offset, kv_caches, worker>>
  BY DEF Estimate, inputVars, layoutVars
<1>2. \A r \in Rank : per_rank_bytes(r) \in Nat
  BY <1>1, EstimateShare DEF LayoutInv
<1>3. TypeOK'
  BY <1>1, <1>2 DEF LayoutInv, TypeOK
<1>4. SpecsAreComputed'
  BY <1>1 DEF LayoutInv, SpecsAreComputed
<1>5. RingInv'
  BY <1>1 DEF LayoutInv, RingInv, SmallLayers, rank_owns_layer
<1>6. \A r \in Rank : kv_caches[r] = <<>> /\ worker[r] = "allocating" /\ Len(<<>>) = 0
  BY <1>1 DEF LayoutInv, WorkersInv
<1>7. \A r \in Rank : per_rank_bytes(r)' = per_rank_bytes(r)
  BY <1>1 DEF per_rank_bytes, estimated_head_bytes, padded_head_dim
<1>8. WorkersInv'
  <2>1. (estimate = [r \in Rank |-> per_rank_bytes(r)])'
    BY <1>1, <1>7
  <2>2. \A r \in Rank : kv_caches'[r] = <<>> /\ worker'[r] = "allocating"
    BY <1>1, <1>6
  <2>3. QED
    BY <1>1, <2>1, <2>2, LayerwiseAssumption DEF WorkersInv
<1>9. QED
  BY <1>3, <1>4, <1>5, <1>8 DEF LayoutInv

\* A step of one worker.
LEMMA WorkerStep ==
    ASSUME LayoutInv, phase = "workers", NEW r \in Rank,
           UNCHANGED <<inputVars, layoutVars, estimate, phase>>,
           NEW c \in Seq(Nat), NEW w \in {"allocating", "verified", "failed"},
           kv_caches' = [kv_caches EXCEPT ![r] = c], worker' = [worker EXCEPT ![r] = w],
           Len(c) <= NumLayers, \A l \in DOMAIN c : c[l] = heads_for_rank(r, l),
           w = "verified" => Len(c) = NumLayers
    PROVE  LayoutInv'
<1>1. UNCHANGED <<enabled, build, dtype, value_dim, per_layer_heads, specs, rr_offset, estimate, phase>>
  BY DEF inputVars, layoutVars
<1>2. /\ kv_caches \in [Rank -> Seq(Nat)] /\ worker \in [Rank -> {"allocating", "verified", "failed"}]
  BY DEF LayoutInv, TypeOK
<1>3. /\ \A q \in Rank : kv_caches'[q] = IF q = r THEN c ELSE kv_caches[q]
      /\ \A q \in Rank : worker'[q] = IF q = r THEN w ELSE worker[q]
      /\ kv_caches' \in [Rank -> Seq(Nat)] /\ worker' \in [Rank -> {"allocating", "verified", "failed"}]
  BY <1>2
<1>4. TypeOK'
  BY <1>1, <1>3 DEF LayoutInv, TypeOK
<1>5. SpecsAreComputed'
  BY <1>1 DEF LayoutInv, SpecsAreComputed
<1>6. RingInv'
  BY <1>1 DEF LayoutInv, RingInv, SmallLayers, rank_owns_layer
<1>7. \A q \in Rank : per_rank_bytes(q)' = per_rank_bytes(q)
  BY <1>1 DEF per_rank_bytes, estimated_head_bytes, padded_head_dim
<1>8. \A q \in Rank, l \in Nat : heads_for_rank(q, l)' = heads_for_rank(q, l)
  BY <1>1 DEF heads_for_rank, rank_owns_layer
<1>9. WorkersInv'
  <2>1. (estimate = [q \in Rank |-> per_rank_bytes(q)])'
    BY <1>1, <1>7 DEF LayoutInv, WorkersInv
  <2>2. Len(specs') = NumLayers
    BY <1>1 DEF LayoutInv, WorkersInv
  <2>3. ASSUME NEW q \in Rank
        PROVE  /\ Len(kv_caches'[q]) <= NumLayers
               /\ \A l \in DOMAIN kv_caches'[q] : kv_caches'[q][l] = heads_for_rank(q, l)'
               /\ worker'[q] = "verified" => Len(kv_caches'[q]) = NumLayers
    <3>1. \A l \in DOMAIN kv_caches'[q] : l \in Nat
      BY <1>3
    <3>2. CASE q = r
      BY <1>3, <1>8, <3>1, <3>2
    <3>3. CASE q # r
      BY <1>3, <1>8, <3>1, <3>3 DEF LayoutInv, WorkersInv
    <3>4. QED
      BY <3>2, <3>3
  <2>4. QED
    BY <1>1, <2>1, <2>2, <2>3 DEF WorkersInv
<1>10. QED
  BY <1>4, <1>5, <1>6, <1>9 DEF LayoutInv

LEMMA AllocateLayerInv ==
    ASSUME LayoutInv, NEW r \in Rank, AllocateLayer(r)
    PROVE  LayoutInv'
<1> DEFINE n == Len(kv_caches[r]) + 1
<1> DEFINE heads == heads_for_rank(r, n)
<1>1. /\ phase = "workers" /\ worker[r] = "allocating" /\ Len(kv_caches[r]) < NumLayers
      /\ UNCHANGED <<inputVars, layoutVars, estimate, phase>>
  BY DEF AllocateLayer
<1>2. /\ kv_caches \in [Rank -> Seq(Nat)] /\ kv_caches[r] \in Seq(Nat)
      /\ worker \in [Rank -> {"allocating", "verified", "failed"}]
  BY DEF LayoutInv, TypeOK
<1>3. /\ Len(specs) = NumLayers
      /\ \A l \in DOMAIN kv_caches[r] : kv_caches[r][l] = heads_for_rank(r, l)
  BY <1>1 DEF LayoutInv, WorkersInv
<1>4. n \in Layer
  BY <1>1, <1>2, LayerwiseAssumption DEF Layer
<1>5. heads \in Nat
  BY <1>3, <1>4, EstimateShare DEF LayoutInv
<1> DEFINE c == Append(kv_caches[r], heads)
<1>6. c \in Seq(Nat) /\ Len(c) = n /\ \A l \in DOMAIN c : c[l] = heads_for_rank(r, l)
  <2> HIDE DEF heads
  <2>1. /\ c \in Seq(Nat) /\ Len(c) = n /\ DOMAIN c = DOMAIN kv_caches[r] \cup {n}
        /\ c[n] = heads /\ \A l \in DOMAIN kv_caches[r] : c[l] = kv_caches[r][l]
    BY <1>2, <1>5
  <2>2. QED
    BY <1>3, <2>1 DEF heads
<1>7. \/ kv_caches' = [kv_caches EXCEPT ![r] = c] /\ worker' = [worker EXCEPT ![r] = "allocating"]
      \/ kv_caches' = [kv_caches EXCEPT ![r] = kv_caches[r]] /\ worker' = [worker EXCEPT ![r] = "failed"]
  BY <1>1, <1>2 DEF AllocateLayer
<1>8. Len(c) <= NumLayers /\ Len(kv_caches[r]) <= NumLayers
  BY <1>1, <1>2, <1>6, LayerwiseAssumption
<1> HIDE DEF c, n, heads
<1>9. CASE kv_caches' = [kv_caches EXCEPT ![r] = c] /\ worker' = [worker EXCEPT ![r] = "allocating"]
  BY <1>1, <1>6, <1>8, <1>9, WorkerStep
<1>10. CASE /\ kv_caches' = [kv_caches EXCEPT ![r] = kv_caches[r]]
            /\ worker' = [worker EXCEPT ![r] = "failed"]
  BY <1>1, <1>2, <1>3, <1>8, <1>10, WorkerStep
<1>11. QED
  BY <1>7, <1>9, <1>10

LEMMA VerifyInv ==
    ASSUME LayoutInv, NEW r \in Rank, Verify(r)
    PROVE  LayoutInv'
<1> DEFINE w == IF \A l \in Layer : rank_owns_layer(r, l) <=> (kv_caches[r][l] # 0)
                THEN "verified" ELSE "failed"
<1>1. /\ phase = "workers" /\ Len(kv_caches[r]) = NumLayers
      /\ worker' = [worker EXCEPT ![r] = w]
      /\ UNCHANGED <<inputVars, layoutVars, estimate, phase>> /\ UNCHANGED kv_caches
  BY DEF Verify
<1>2. kv_caches' = [kv_caches EXCEPT ![r] = kv_caches[r]] /\ kv_caches[r] \in Seq(Nat)
  BY <1>1 DEF LayoutInv, TypeOK
<1>3. Len(kv_caches[r]) <= NumLayers /\ \A l \in DOMAIN kv_caches[r] : kv_caches[r][l] = heads_for_rank(r, l)
  BY <1>1 DEF LayoutInv, WorkersInv
<1>4. w \in {"allocating", "verified", "failed"}
  OBVIOUS
<1> HIDE DEF w
<1>5. QED
  BY <1>1, <1>2, <1>3, <1>4, WorkerStep

LEMMA NextInv == LayoutInv /\ [Next]_vars => LayoutInv'
<1> SUFFICES ASSUME LayoutInv, [Next]_vars PROVE LayoutInv'
  OBVIOUS
<1>1. ASSUME UNCHANGED vars PROVE LayoutInv'
  <2>1. UNCHANGED <<enabled, build, dtype, value_dim, per_layer_heads, specs, rr_offset, estimate, phase, kv_caches, worker>>
    BY <1>1 DEF vars, inputVars, layoutVars
  <2>2. TypeOK' /\ SpecsAreComputed'
    BY <2>1 DEF LayoutInv, TypeOK, SpecsAreComputed
  <2>3. RingInv'
    BY <2>1 DEF LayoutInv, RingInv, SmallLayers, rank_owns_layer
  <2>4. \A q \in Rank : per_rank_bytes(q)' = per_rank_bytes(q)
    BY <2>1 DEF per_rank_bytes, estimated_head_bytes, padded_head_dim
  <2>5. \A q \in Rank : \A l \in DOMAIN kv_caches[q] : heads_for_rank(q, l)' = heads_for_rank(q, l)
    BY <2>1 DEF heads_for_rank, rank_owns_layer
  <2>6. WorkersInv'
    BY <2>1, <2>4, <2>5 DEF LayoutInv, WorkersInv
  <2>7. QED
    BY <2>2, <2>3, <2>6 DEF LayoutInv
<1>2. QED
  BY <1>1, FallBackInv, AssignLayerInv, EstimateInv, AllocateLayerInv, VerifyInv DEF Next

----------------------------------------------------------------------------
(* Theorems *)

\* The invariant of the layout: the shards of every layer are what the loop
\* computes, the ranks before rr_offset are one small layer ahead of the others,
\* and a worker's cache is the shards it looked up so far.
THEOREM LayoutInvariant == Spec => []LayoutInv
  BY InitInv, NextInv, PTL DEF Spec

\* The variables keep their types: rr_offset stays a rank, and no layer gets a
\* shard on a rank that does not exist.
THEOREM LayoutTypes == Spec => []TypeOK
<1>1. LayoutInv => TypeOK
  BY DEF LayoutInv
<1>2. QED
  BY <1>1, LayoutInvariant, PTL

\* For any number of ranks, layers and heads, compute_ilu_layerwise_layout
\* puts every KV head of a layer in exactly one shard, and no rank gets two.
THEOREM HeadsPlacedOnce == Spec => []HeadsArePlacedOnce
<1>1. LayoutInv => HeadsArePlacedOnce
  <2> SUFFICES ASSUME LayoutInv, NEW l \in DOMAIN specs
               PROVE  /\ is_valid(specs[l]) /\ total_heads(specs[l]) = per_layer_heads[l]
                      /\ \A r \in Rank : Cardinality(slots(specs[l], r)) <= 1
    BY DEF HeadsArePlacedOnce
  <2>1. Placed(specs[l], per_layer_heads[l])
    BY LayerPlaced DEF LayoutInv
  <2>2. \A r \in Rank : Cardinality(slots(specs[l], r)) <= 1
    BY <2>1, OneSlot
  <2>3. QED
    BY <2>1, <2>2 DEF Placed
<1>2. QED
  BY <1>1, LayoutInvariant, PTL

\* After any number of layers with fewer heads than ranks, of whatever sizes, no
\* rank has two more of them than another: the round robin of rr_offset is fair.
THEOREM SmallLayersBalanced == Spec => []SmallLayersAreBalanced
<1>1. LayoutInv => SmallLayersAreBalanced
  <2> SUFFICES ASSUME LayoutInv PROVE SmallLayersAreBalanced
    OBVIOUS
  <2>1. PICK base \in Nat : \A r \in Rank :
          Cardinality(SmallLayers(r)) = base + (IF r < rr_offset THEN 1 ELSE 0)
    BY DEF LayoutInv, RingInv
  <2>2. \A r, s \in Rank : Cardinality(SmallLayers(r)) <= Cardinality(SmallLayers(s)) + 1
    BY <2>1
  <2>3. \A r \in Rank :
          {l \in {k \in DOMAIN specs : per_layer_heads[k] < world_size} : rank_owns_layer(r, l)}
            = SmallLayers(r)
    BY DEF SmallLayers
  <2>4. QED
    BY <2>2, <2>3 DEF SmallLayersAreBalanced
<1>2. QED
  BY <1>1, LayoutInvariant, PTL

\* A sum of zeros.
LEMMA SumZero ==
    ASSUME NEW f, NEW S, IsFiniteSet(S), \A x \in S : f[x] = 0
    PROVE  SumFunctionOnSet(f, S) <= 0
<1>1. PICK B : B = {s \in SUBSET S : SumFunctionOnSet(f, s) # 0}
  OBVIOUS
<1>2. CASE B # {}
  <2>1. PICK s \in B : IsFiniteSet(s) /\ \A t \in SUBSET s : t # s => t \notin B
    BY <1>1, <1>2, SmallestSet
  <2>2. s # {}
    BY <1>1, SumEmpty
  <2>3. PICK x \in s : TRUE
    BY <2>2
  <2>4. s \ {x} \in SUBSET S /\ s \ {x} # s /\ s \ {x} \notin B
    BY <1>1, <2>1
  <2>5. SumFunctionOnSet(f, s \ {x}) = 0
    BY <1>1, <2>4
  <2>6. \A y \in s : f[y] = 0 /\ f[y] \in Int
    BY <1>1
  <2>7. SumFunctionOnSet(f, s) = f[x] + SumFunctionOnSet(f, s \ {x})
    BY <2>1, <2>6, SumRemove
  <2>8. QED
    BY <1>1, <2>5, <2>6, <2>7
<1>3. CASE B = {}
  <2>1. SumFunctionOnSet(f, S) = 0
    BY <1>1, <1>3
  <2>2. QED
    BY <2>1
<1>4. QED
  BY <1>2, <1>3

\* The master's estimate and the workers' allocation, computed apart, agree: for
\* every build, dtype and shape a worker stays within its estimate where the
\* estimator's sizes cover the allocator's, ends at it where they are the same,
\* and above it where they fall short.
THEOREM EstimateCovers == Spec => []EstimateCoversAllocation
<1>1. LayoutInv => EstimateCoversAllocation
  <2> SUFFICES ASSUME LayoutInv, phase = "workers", NEW r \in Rank
               PROVE  /\ EstimateCoversShape => used(r) <= estimate[r]
                      /\ worker[r] = "verified" /\ EstimateFitsShape => used(r) = estimate[r]
                      /\ worker[r] = "verified" /\ EstimateFallsShort /\ used(r) > 0
                           => used(r) > estimate[r]
    BY DEF EstimateCoversAllocation
  <2> DEFINE k == DOMAIN kv_caches[r]
  <2> DEFINE g == [l \in k |-> kv_caches[r][l] * allocated_head_bytes]
  <2> DEFINE f == Shared(r)
  <2>1. /\ Len(specs) = NumLayers /\ estimate[r] = per_rank_bytes(r)
        /\ Len(kv_caches[r]) <= NumLayers
        /\ \A l \in k : kv_caches[r][l] = heads_for_rank(r, l)
        /\ worker[r] = "verified" => Len(kv_caches[r]) = NumLayers
    BY DEF LayoutInv, WorkersInv
  <2>2. /\ k \subseteq Layer /\ IsFiniteSet(Layer)
        /\ worker[r] = "verified" => k = Layer
    <3>1. kv_caches[r] \in Seq(Nat)
      BY DEF LayoutInv, TypeOK
    <3>2. k = 1 .. Len(kv_caches[r]) /\ Len(kv_caches[r]) \in Nat /\ NumLayers \in Nat
      BY <3>1, LayerwiseAssumption
    <3>3. IsFiniteSet(Layer)
      BY <3>2, FS_Interval DEF Layer
    <3> HIDE DEF k
    <3>4. QED
      BY <2>1, <3>2, <3>3 DEF Layer
  <2>3. IsFiniteSet(k)
    BY <2>2, FS_Subset
  <2>4. /\ \A l \in Layer : heads_for_rank(r, l) \in Nat /\ f[l] \in Nat
        /\ estimate[r] = SumFunctionOnSet(f, Layer)
    BY <2>1, EstimateShare DEF LayoutInv
  <2>5. used(r) = SumFunctionOnSet(g, k)
    BY DEF used, SumFunction
  <2>6. /\ estimated_head_bytes \in Nat /\ allocated_head_bytes \in Nat
        /\ EstimateCoversShape => allocated_head_bytes <= estimated_head_bytes
        /\ EstimateFitsShape => allocated_head_bytes = estimated_head_bytes
        /\ EstimateFallsShort => estimated_head_bytes < allocated_head_bytes
    BY HeadBytes DEF LayoutInv
  <2>7. \A l \in k : /\ heads_for_rank(r, l) \in Nat
                     /\ g[l] = heads_for_rank(r, l) * allocated_head_bytes
                     /\ f[l] = heads_for_rank(r, l) * estimated_head_bytes
    BY <2>1, <2>2, <2>4 DEF Shared
  <2> HIDE DEF k, g, f
  <2>8. \A l \in k : g[l] \in Nat /\ f[l] \in Nat
    <3>1. \A h \in Nat : h * allocated_head_bytes \in Nat /\ h * estimated_head_bytes \in Nat
      BY <2>6
    <3>2. QED
      BY <2>7, <3>1
  <2>9. /\ SumFunctionOnSet(g, k) \in Nat /\ SumFunctionOnSet(f, k) \in Nat
        /\ SumFunctionOnSet(f, Layer) \in Nat
    BY <2>2, <2>3, <2>4, <2>8, SumNat
  <2>10. ASSUME EstimateCoversShape PROVE used(r) <= estimate[r]
    <3>1. \A h \in Nat : h * allocated_head_bytes <= h * estimated_head_bytes
      BY <2>6, <2>10, TimesMonotone
    <3>2. \A l \in k : g[l] \in Int /\ f[l] \in Int /\ g[l] <= f[l]
      BY <2>7, <2>8, <3>1
    <3>3. SumFunctionOnSet(g, k) <= SumFunctionOnSet(f, k)
      BY <2>3, <3>2, SumMonotone
    <3>4. SumFunctionOnSet(f, k) <= SumFunctionOnSet(f, Layer)
      BY <2>2, <2>4, SumPart
    <3>5. QED
      BY <2>4, <2>5, <2>9, <3>3, <3>4
  <2>11. ASSUME worker[r] = "verified", EstimateFitsShape PROVE used(r) = estimate[r]
    <3>1. k = Layer
      BY <2>2, <2>11
    <3>2. \A l \in Layer : g[l] \in Int /\ g[l] = f[l]
      BY <2>6, <2>7, <2>8, <2>11, <3>1
    <3>3. SumFunctionOnSet(g, Layer) = SumFunctionOnSet(f, Layer)
      BY <2>2, <3>2, SumSame
    <3>4. QED
      BY <2>4, <2>5, <3>1, <3>3
  <2>12. ASSUME worker[r] = "verified", EstimateFallsShort, used(r) > 0 PROVE used(r) > estimate[r]
    <3>1. k = Layer
      BY <2>2, <2>12
    <3>2. \A h \in Nat : /\ h * estimated_head_bytes <= h * allocated_head_bytes
                         /\ h * allocated_head_bytes > 0 => h * estimated_head_bytes < h * allocated_head_bytes
      <4> SUFFICES ASSUME NEW h \in Nat
                   PROVE  /\ h * estimated_head_bytes <= h * allocated_head_bytes
                          /\ h * allocated_head_bytes > 0
                               => h * estimated_head_bytes < h * allocated_head_bytes
        OBVIOUS
      <4>1. CASE h = 0
        <5>1. h * estimated_head_bytes = 0 /\ h * allocated_head_bytes = 0
          BY <2>6, <4>1
        <5>2. QED
          BY <5>1
      <4>2. CASE h # 0
        <5>1. h \in Nat \ {0} /\ estimated_head_bytes < allocated_head_bytes
          BY <2>6, <2>12, <4>2
        <5>2. estimated_head_bytes * h + h <= allocated_head_bytes * h
          BY <2>6, <5>1, Scale
        <5>3. estimated_head_bytes * h = h * estimated_head_bytes
              /\ allocated_head_bytes * h = h * allocated_head_bytes
          BY <2>6
        <5>4. h * estimated_head_bytes \in Nat /\ h * allocated_head_bytes \in Nat
          BY <2>6
        <5>5. QED
          BY <5>1, <5>2, <5>3, <5>4
      <4>3. QED
        BY <4>1, <4>2
    <3>3. \A l \in Layer : g[l] \in Nat /\ f[l] \in Nat /\ f[l] <= g[l] /\ (g[l] > 0 => f[l] < g[l])
      BY <2>7, <2>8, <3>1, <3>2
    <3>4. PICK l \in Layer : g[l] > 0
      <4>1. SUFFICES ASSUME \A l \in Layer : ~ (g[l] > 0) PROVE FALSE
        OBVIOUS
      <4>2. \A l \in Layer : g[l] \in Int /\ g[l] = 0
        BY <3>3, <4>1
      <4>3. SumFunctionOnSet(g, Layer) <= 0
        BY <2>2, <4>2, SumZero
      <4>4. QED
        BY <2>5, <2>9, <2>12, <3>1, <4>3
    <3>5. /\ SumFunctionOnSet(g, Layer) = g[l] + SumFunctionOnSet(g, Layer \ {l})
          /\ SumFunctionOnSet(f, Layer) = f[l] + SumFunctionOnSet(f, Layer \ {l})
      BY <2>2, <3>3, SumRemove
    <3>6. IsFiniteSet(Layer \ {l}) /\ \A x \in Layer \ {l} : f[x] \in Int /\ g[x] \in Int /\ f[x] <= g[x]
      BY <2>2, <3>3, FS_Subset
    <3>7. SumFunctionOnSet(f, Layer \ {l}) <= SumFunctionOnSet(g, Layer \ {l})
      BY <3>6, SumMonotone
    <3>8. SumFunctionOnSet(f, Layer \ {l}) \in Int /\ SumFunctionOnSet(g, Layer \ {l}) \in Int
      BY <3>6, SumInt
    <3>9. f[l] \in Nat /\ g[l] \in Nat /\ f[l] < g[l]
      BY <3>3, <3>4
    <3>10. QED
      BY <2>4, <2>5, <3>1, <3>5, <3>7, <3>8, <3>9
  <2>13. QED
    BY <2>10, <2>11, <2>12
<1>2. QED
  BY <1>1, LayoutInvariant, PTL
=============================================================================
