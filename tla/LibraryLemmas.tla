---------------------------- MODULE LibraryLemmas ----------------------------
(***************************************************************************)
(* Laws of the library operators the models are built from.                *)
(*                                                                         *)
(* SumFunctionOnSet, the sum of f[x] over a finite set, with which the     *)
(* models add up bytes, blocks and tokens.  The sum is a fold whose        *)
(* recursive function the prover sees as a CHOOSE, so the laws start with  *)
(* the existence of that function.  Induction is by the least              *)
(* counterexample: NatMinimum applied to the cardinalities of the sets     *)
(* where a law fails.                                                      *)
(*                                                                         *)
(* The sequence operators with which the models move requests from queue   *)
(* to queue: which members a sequence has afterwards, and that a sequence  *)
(* without repetitions stays one.                                          *)
(***************************************************************************)
EXTENDS Functions, Integers, FiniteSets, FiniteSetTheorems, WellFoundedInduction,
        SequencesExt, Queues, TLAPS

\* Quotient and remainder.
LEMMA DivMod ==
    ASSUME NEW a \in Nat, NEW n \in Nat \ {0}
    PROVE  a \div n \in Nat /\ a % n \in 0 .. n - 1 /\ a = n * (a \div n) + (a % n)
  OBVIOUS

\* A number is its quotient times the divisor, plus its remainder.
LEMMA Divide ==
    ASSUME NEW a \in Nat, NEW n \in Nat \ {0}
    PROVE  \E q \in Nat, r \in 0 .. n - 1 : q = a \div n /\ r = a % n /\ a = n * q + r
<1>1. a \div n \in Nat /\ a % n \in 0 .. n - 1 /\ a = n * (a \div n) + (a % n)
  BY DivMod
<1>2. QED
  BY <1>1

\* Multiplying by a positive number keeps the order.
LEMMA Scale ==
    ASSUME NEW m \in Int, NEW n \in Int, NEW b \in Nat \ {0}
    PROVE  /\ m * b \in Int /\ (m \in Nat => m * b \in Nat)
           /\ m <= n <=> m * b <= n * b
           /\ m < n => m * b + b <= n * b
           /\ m * b = n * b <=> m = n
<1>1. m * b \in Int /\ n * b \in Int
  OBVIOUS
<1>2. m \in Nat => m * b \in Nat
  OBVIOUS
<1>3. ASSUME m < n PROVE m * b + b <= n * b
  <2>1. n - m - 1 \in Nat
    BY <1>3
  <2>2. (n - m - 1) * b \in Nat
    BY <2>1
  <2>3. (n - m - 1) * b = n * b - m * b - b
    OBVIOUS
  <2>4. QED
    BY <1>1, <2>2, <2>3
<1>4. ASSUME n < m PROVE n * b + b <= m * b
  <2>1. m - n - 1 \in Nat
    BY <1>4
  <2>2. (m - n - 1) * b \in Nat
    BY <2>1
  <2>3. (m - n - 1) * b = m * b - n * b - b
    OBVIOUS
  <2>4. QED
    BY <1>1, <2>2, <2>3
<1>5. m < n \/ m = n \/ n < m
  OBVIOUS
<1>6. QED
  BY <1>1, <1>2, <1>3, <1>4, <1>5

\* A non-empty set of naturals has a least element.
LEMMA NatMinimum ==
    ASSUME NEW T, T \subseteq Nat, T # {}
    PROVE  \E m \in T : \A k \in T : m <= k
<1> DEFINE R == OpToRel(<, Nat)
<1>1. \E x \in T : \A y \in T : ~ (<<y, x>> \in R)
  <2>1. IsWellFoundedOn(R, Nat)
    BY NatLessThanWellFounded DEF OpToRel
  <2> HIDE DEF R
  <2>2. QED
    BY <2>1, WFMin
<1>2. PICK x \in T : \A y \in T : ~ (<<y, x>> \in R)
  BY <1>1
<1>3. \A y \in T : ~ (y < x)
  BY <1>2 DEF R, OpToRel
<1>4. QED
  BY <1>3

\* A non-empty set of finite sets has a member none of whose proper subsets is
\* a member.
LEMMA SmallestSet ==
    ASSUME NEW S, IsFiniteSet(S), NEW B, B \subseteq SUBSET S, B # {}
    PROVE  \E s \in B : IsFiniteSet(s) /\ \A t \in SUBSET s : t # s => t \notin B
<1> DEFINE C == {Cardinality(s) : s \in B}
<1>1. \A s \in B : IsFiniteSet(s) /\ Cardinality(s) \in Nat
  BY FS_Subset, FS_CardinalityType
<1>2. C \subseteq Nat /\ C # {}
  BY <1>1
<1>3. PICK m \in C : \A k \in C : m <= k
  <2> HIDE DEF C
  <2> QED
    BY <1>2, NatMinimum
<1>4. PICK s \in B : Cardinality(s) = m
  OBVIOUS
<1>5. ASSUME NEW t \in SUBSET s, t # s, t \in B
      PROVE  FALSE
  <2>1. Cardinality(t) <= Cardinality(s) /\ Cardinality(t) # Cardinality(s)
    BY <1>1, <1>5, FS_Subset
  <2>2. m <= Cardinality(t)
    BY <1>3, <1>5
  <2>3. QED
    BY <2>1, <2>2, <1>1, <1>4, <1>5
<1>6. QED
  BY <1>1, <1>5

----------------------------------------------------------------------------
(* The recursive function of the fold *)

pick(s) == CHOOSE x \in s : TRUE

\* g is the function the fold of f over S recurs on.
IsFold(g, f, S) ==
    g = [s \in SUBSET S |-> IF s = {} THEN 0 ELSE f[pick(s)] + g[s \ {pick(s)}]]

\* SumFunctionOnSet is the value at S of a function of this kind.
LEMMA SumIsFold ==
    ASSUME NEW f, NEW S
    PROVE  SumFunctionOnSet(f, S) = (CHOOSE g : IsFold(g, f, S))[S]
  BY DEF SumFunctionOnSet, FoldFunctionOnSet, MapThenFoldSet, IsFold, pick

LEMMA PickIn ==
    ASSUME NEW s, s # {}
    PROVE  pick(s) \in s
  BY DEF pick

\* Two such functions agree where both are defined.
LEMMA FoldsAgree ==
    ASSUME NEW f, NEW S, NEW T, S \subseteq T, IsFiniteSet(T),
           NEW g, NEW h, IsFold(g, f, S), IsFold(h, f, T)
    PROVE  \A s \in SUBSET S : g[s] = h[s]
<1> DEFINE B == {s \in SUBSET S : g[s] # h[s]}
<1> SUFFICES ASSUME B # {} PROVE FALSE
  OBVIOUS
<1>1. PICK s \in B : \A t \in SUBSET s : t # s => t \notin B
  <2>1. IsFiniteSet(S)
    BY FS_Subset
  <2> HIDE DEF B
  <2>2. B \subseteq SUBSET S
    BY DEF B
  <2>3. QED
    BY <2>1, <2>2, SmallestSet
<1>2. s # {}
  BY DEF IsFold
<1> DEFINE t == s \ {pick(s)}
<1>3. t \in SUBSET s /\ t # s
  BY <1>2, PickIn
<1>4. g[t] = h[t]
  BY <1>1, <1>3
<1>5. g[s] = f[pick(s)] + g[t] /\ h[s] = f[pick(s)] + h[t]
  BY <1>2 DEF IsFold
<1>6. QED
  BY <1>4, <1>5

LEMMA FoldExists ==
    ASSUME NEW f, NEW S, IsFiniteSet(S)
    PROVE  \E g : IsFold(g, f, S)
<1> DEFINE B == {s \in SUBSET S : ~ \E g : IsFold(g, f, s)}
<1> SUFFICES ASSUME B # {} PROVE FALSE
  OBVIOUS
<1>1. PICK s \in B : IsFiniteSet(s) /\ \A t \in SUBSET s : t # s => t \notin B
  <2> HIDE DEF B
  <2>1. B \subseteq SUBSET S
    BY DEF B
  <2>2. QED
    BY <2>1, SmallestSet
<1> DEFINE F(t) == CHOOSE g : IsFold(g, f, t)
           h == [t \in SUBSET s |->
                   IF t = {} THEN 0 ELSE f[pick(t)] + F(t \ {pick(t)})[t \ {pick(t)}]]
<1>2. \A t \in SUBSET s : t # s => IsFold(F(t), f, t)
  BY <1>1
<1>3. ASSUME NEW t \in SUBSET s, t # s
      PROVE  h[t] = F(t)[t]
  <2>1. IsFold(F(t), f, t) /\ IsFiniteSet(t)
    BY <1>1, <1>2, <1>3, FS_Subset
  <2>2. CASE t = {}
    BY <2>1, <2>2 DEF IsFold
  <2>3. CASE t # {}
    <3> DEFINE u == t \ {pick(t)}
    <3>1. u \in SUBSET t /\ u # t /\ u \in SUBSET s /\ u # s
      BY <2>3, PickIn
    <3>2. IsFold(F(u), f, u)
      BY <1>2, <3>1
    <3> HIDE DEF F
    <3>3. F(u)[u] = F(t)[u]
      BY <2>1, <3>1, <3>2, FoldsAgree
    <3>4. F(t)[t] = f[pick(t)] + F(t)[u]
      BY <2>1, <2>3 DEF IsFold
    <3>5. h[t] = f[pick(t)] + F(u)[u]
      BY <2>3
    <3>6. QED
      BY <3>3, <3>4, <3>5
  <2>4. QED
    BY <2>2, <2>3
<1>4. ASSUME NEW t \in SUBSET s, t # {}
      PROVE  h[t] = f[pick(t)] + h[t \ {pick(t)}]
  <2>1. t \ {pick(t)} \in SUBSET s /\ t \ {pick(t)} # s
    BY <1>4, PickIn
  <2>2. h[t \ {pick(t)}] = F(t \ {pick(t)})[t \ {pick(t)}]
    BY <1>3, <2>1
  <2> HIDE DEF F
  <2>3. h[t] = f[pick(t)] + F(t \ {pick(t)})[t \ {pick(t)}]
    BY <1>4
  <2>4. QED
    BY <2>2, <2>3
<1>5. IsFold(h, f, s)
  <2>1. h = [t \in SUBSET s |-> h[t]] /\ h[{}] = 0
    OBVIOUS
  <2> HIDE DEF h
  <2>2. QED
    BY <1>4, <2>1 DEF IsFold
<1>6. QED
  BY <1>5

----------------------------------------------------------------------------
(* The laws *)

\* The sum over the empty set.
THEOREM SumEmpty ==
    ASSUME NEW f
    PROVE  SumFunctionOnSet(f, {}) = 0
<1>1. IsFiniteSet({})
  BY FS_EmptySet
<1>2. PICK g : IsFold(g, f, {})
  BY <1>1, FoldExists
<1>3. IsFold(CHOOSE g1 : IsFold(g1, f, {}), f, {})
  BY <1>2
<1> DEFINE h == CHOOSE g1 : IsFold(g1, f, {})
<1>4. IsFold(h, f, {})
  BY <1>3
<1> HIDE DEF h
<1>5. h[{}] = 0
  BY <1>4 DEF IsFold
<1>6. QED
  BY <1>5, SumIsFold DEF h

\* One step of the recursion.
LEMMA SumPick ==
    ASSUME NEW f, NEW S, IsFiniteSet(S), S # {}
    PROVE  SumFunctionOnSet(f, S) = f[pick(S)] + SumFunctionOnSet(f, S \ {pick(S)})
<1> DEFINE F(s) == CHOOSE g : IsFold(g, f, s)
           T == S \ {pick(S)}
<1>1. T \subseteq S /\ IsFiniteSet(T)
  BY FS_Subset
<1>2. IsFold(F(S), f, S) /\ IsFold(F(T), f, T)
  BY <1>1, FoldExists
<1>3. SumFunctionOnSet(f, S) = F(S)[S] /\ SumFunctionOnSet(f, T) = F(T)[T]
  BY SumIsFold
<1> HIDE DEF F
<1>4. F(T)[T] = F(S)[T]
  <2> HIDE DEF T
  <2>1. ASSUME NEW g, NEW h, IsFold(g, f, T), IsFold(h, f, S)
        PROVE  g[T] = h[T]
    <3>1. IsFiniteSet(S) /\ T \in SUBSET S /\ IsFold(g, f, T) /\ IsFold(h, f, S)
      BY <1>1, <2>1
    <3>2. \A s \in SUBSET T : g[s] = h[s]
      BY ONLY <3>1, FoldsAgree
    <3>3. QED
      BY <3>2
  <2>2. QED
    BY <1>2, <2>1
<1>5. F(S)[S] = f[pick(S)] + F(S)[T]
  <2>1. \A g : IsFold(g, f, S) => g[S] = f[pick(S)] + g[S \ {pick(S)}]
    BY DEF IsFold
  <2>2. QED
    BY <1>2, <2>1
<1>6. QED
  BY <1>3, <1>4, <1>5

\* The sum of integers is an integer.
LEMMA SumInt ==
    ASSUME NEW f, NEW S, IsFiniteSet(S), \A x \in S : f[x] \in Int
    PROVE  SumFunctionOnSet(f, S) \in Int
<1> DEFINE B == {s \in SUBSET S : SumFunctionOnSet(f, s) \notin Int}
<1> SUFFICES ASSUME B # {} PROVE FALSE
  OBVIOUS
<1>1. PICK s \in B : IsFiniteSet(s) /\ \A t \in SUBSET s : t # s => t \notin B
  <2> HIDE DEF B
  <2>1. B \subseteq SUBSET S
    BY DEF B
  <2>2. QED
    BY <2>1, SmallestSet
<1>2. s # {}
  BY SumEmpty
<1>3. SumFunctionOnSet(f, s \ {pick(s)}) \in Int /\ pick(s) \in s
  BY <1>1, <1>2, PickIn
<1>4. QED
  BY <1>1, <1>2, <1>3, SumPick

\* Any element may be taken out of the sum.
THEOREM SumRemove ==
    ASSUME NEW f, NEW S, IsFiniteSet(S), \A y \in S : f[y] \in Int, NEW x \in S
    PROVE  SumFunctionOnSet(f, S) = f[x] + SumFunctionOnSet(f, S \ {x})
<1> DEFINE Sum(s) == SumFunctionOnSet(f, s)
           B == {s \in SUBSET S : \E y \in s : Sum(s) # f[y] + Sum(s \ {y})}
<1> SUFFICES ASSUME B # {} PROVE FALSE
  OBVIOUS
<1>1. PICK s \in B : IsFiniteSet(s) /\ \A t \in SUBSET s : t # s => t \notin B
  <2> HIDE DEF B
  <2>1. B \subseteq SUBSET S
    BY DEF B
  <2>2. QED
    BY <2>1, SmallestSet
<1>2. PICK y \in s : Sum(s) # f[y] + Sum(s \ {y})
  OBVIOUS
<1> DEFINE c == pick(s)
           r == (s \ {y}) \ {c}
<1>3. c \in s /\ Sum(s) = f[c] + Sum(s \ {c})
  BY <1>1, PickIn, SumPick
<1>4. c # y
  BY <1>2, <1>3
<1>5. s \ {c} \notin B /\ s \ {y} \notin B
  BY <1>1, <1>3
<1>6. Sum(s \ {c}) = f[y] + Sum(r)
  <2>1. (s \ {c}) \ {y} = r
    OBVIOUS
  <2>2. QED
    BY <1>4, <1>5, <2>1
<1>7. Sum(s \ {y}) = f[c] + Sum(r)
  BY <1>3, <1>4, <1>5
<1>8. Sum(r) \in Int /\ f[c] \in Int /\ f[y] \in Int
  BY <1>1, <1>3, SumInt, FS_Subset
<1> HIDE DEF Sum, r, c
<1>9. QED
  BY <1>2, <1>3, <1>6, <1>7, <1>8

\* Adding an element.
THEOREM SumAdd ==
    ASSUME NEW f, NEW S, IsFiniteSet(S), NEW x, x \notin S,
           \A y \in S \cup {x} : f[y] \in Int
    PROVE  SumFunctionOnSet(f, S \cup {x}) = f[x] + SumFunctionOnSet(f, S)
<1>1. IsFiniteSet(S \cup {x}) /\ (S \cup {x}) \ {x} = S
  BY FS_AddElement
<1> DEFINE T == S \cup {x}
<1>2. x \in T /\ \A y \in T : f[y] \in Int
  OBVIOUS
<1> HIDE DEF T
<1>3. SumFunctionOnSet(f, T) = f[x] + SumFunctionOnSet(f, T \ {x})
  BY <1>1, <1>2, SumRemove DEF T
<1>4. QED
  BY <1>1, <1>3 DEF T

\* The sum is monotone in the function.
THEOREM SumMonotone ==
    ASSUME NEW f, NEW g, NEW S, IsFiniteSet(S),
           \A x \in S : f[x] \in Int /\ g[x] \in Int /\ f[x] <= g[x]
    PROVE  SumFunctionOnSet(f, S) <= SumFunctionOnSet(g, S)
<1> DEFINE B == {s \in SUBSET S : ~ (SumFunctionOnSet(f, s) <= SumFunctionOnSet(g, s))}
<1> SUFFICES ASSUME B # {} PROVE FALSE
  OBVIOUS
<1>1. PICK s \in B : IsFiniteSet(s) /\ \A t \in SUBSET s : t # s => t \notin B
  <2> HIDE DEF B
  <2>1. B \subseteq SUBSET S
    BY DEF B
  <2>2. QED
    BY <2>1, SmallestSet
<1>2. s # {}
  BY SumEmpty
<1> DEFINE t == s \ {pick(s)}
<1>3. pick(s) \in s
  BY <1>2, PickIn
<1>4. SumFunctionOnSet(f, t) <= SumFunctionOnSet(g, t)
  BY <1>1, <1>3
<1>5. IsFiniteSet(t) /\ \A x \in t : f[x] \in Int /\ g[x] \in Int
  BY <1>1, FS_Subset
<1>6. SumFunctionOnSet(f, t) \in Int /\ SumFunctionOnSet(g, t) \in Int
  BY <1>5, SumInt
<1>7. /\ SumFunctionOnSet(f, s) = f[pick(s)] + SumFunctionOnSet(f, t)
      /\ SumFunctionOnSet(g, s) = g[pick(s)] + SumFunctionOnSet(g, t)
  BY <1>1, <1>2, SumPick
<1> HIDE DEF t
<1>8. QED
  BY <1>3, <1>4, <1>6, <1>7

\* The sum depends on the summands only.
THEOREM SumSame ==
    ASSUME NEW f, NEW g, NEW S, IsFiniteSet(S),
           \A x \in S : f[x] \in Int /\ f[x] = g[x]
    PROVE  SumFunctionOnSet(f, S) = SumFunctionOnSet(g, S)
<1>1. SumFunctionOnSet(f, S) <= SumFunctionOnSet(g, S)
  BY SumMonotone
<1>2. SumFunctionOnSet(g, S) <= SumFunctionOnSet(f, S)
  BY SumMonotone
<1>3. SumFunctionOnSet(f, S) \in Int /\ SumFunctionOnSet(g, S) \in Int
  BY SumInt
<1>4. QED
  BY <1>1, <1>2, <1>3

\* The sum of naturals is a natural.
THEOREM SumNat ==
    ASSUME NEW f, NEW S, IsFiniteSet(S), \A x \in S : f[x] \in Nat
    PROVE  SumFunctionOnSet(f, S) \in Nat
<1> DEFINE B == {s \in SUBSET S : SumFunctionOnSet(f, s) \notin Nat}
<1> SUFFICES ASSUME B # {} PROVE FALSE
  OBVIOUS
<1>1. PICK s \in B : IsFiniteSet(s) /\ \A t \in SUBSET s : t # s => t \notin B
  <2> HIDE DEF B
  <2>1. B \subseteq SUBSET S
    BY DEF B
  <2>2. QED
    BY <2>1, SmallestSet
<1>2. s # {}
  BY SumEmpty
<1>3. SumFunctionOnSet(f, s \ {pick(s)}) \in Nat /\ pick(s) \in s
  BY <1>1, <1>2, PickIn
<1>4. QED
  BY <1>1, <1>2, <1>3, SumPick

\* A sum of naturals over a part is at most the sum.
THEOREM SumPart ==
    ASSUME NEW f, NEW S, IsFiniteSet(S), \A y \in S : f[y] \in Nat, NEW T, T \subseteq S
    PROVE  SumFunctionOnSet(f, T) <= SumFunctionOnSet(f, S)
<1> DEFINE B == {s \in SUBSET S : T \subseteq s /\ ~ (SumFunctionOnSet(f, T) <= SumFunctionOnSet(f, s))}
<1> SUFFICES ASSUME B # {} PROVE FALSE
  OBVIOUS
<1>1. PICK s \in B : IsFiniteSet(s) /\ \A t \in SUBSET s : t # s => t \notin B
  <2> HIDE DEF B
  <2>1. B \subseteq SUBSET S
    BY DEF B
  <2>2. QED
    BY <2>1, SmallestSet
<1>2. IsFiniteSet(T) /\ \A y \in T : f[y] \in Nat
  BY FS_Subset
<1>3. SumFunctionOnSet(f, T) \in Nat
  BY <1>2, SumNat
<1>4. PICK x \in s : x \notin T
  <2>1. s # T
    BY <1>1, <1>3
  <2>2. T \subseteq s
    BY <1>1
  <2>3. QED
    BY <2>1, <2>2
<1> DEFINE t == s \ {x}
<1>5. SumFunctionOnSet(f, T) <= SumFunctionOnSet(f, t)
  BY <1>1, <1>4
<1>6. IsFiniteSet(t) /\ \A y \in t : f[y] \in Nat
  BY <1>1, FS_Subset
<1>7. SumFunctionOnSet(f, t) \in Nat
  BY <1>6, SumNat
<1>8. SumFunctionOnSet(f, s) = f[x] + SumFunctionOnSet(f, t) /\ f[x] \in Nat
  BY <1>1, SumRemove
<1> HIDE DEF t
<1>9. QED
  BY <1>3, <1>5, <1>7, <1>8

\* The sum over one index.
THEOREM SumOne ==
    ASSUME NEW f, NEW x, f[x] \in Int
    PROVE  SumFunctionOnSet(f, {x}) = f[x]
<1>1. IsFiniteSet({}) /\ {} \cup {x} = {x} /\ SumFunctionOnSet(f, {}) = 0
  BY FS_EmptySet, SumEmpty
<1>2. SumFunctionOnSet(f, {} \cup {x}) = f[x] + SumFunctionOnSet(f, {})
  BY <1>1, SumAdd
<1>3. QED
  BY <1>1, <1>2

----------------------------------------------------------------------------
(* Members of sequences *)

\* Appending adds one member.
LEMMA AppendLaw ==
    ASSUME NEW T, NEW s \in Seq(T), NEW x \in T
    PROVE  /\ Append(s, x) \in Seq(T)
           /\ ToSet(Append(s, x)) = ToSet(s) \cup {x}
           /\ IsInjective(s) /\ x \notin ToSet(s) => IsInjective(Append(s, x))
<1> DEFINE t == Append(s, x)
<1>1. /\ t \in Seq(T) /\ Len(t) = Len(s) + 1 /\ t[Len(s) + 1] = x
      /\ \A i \in 1 .. Len(s) : t[i] = s[i]
  OBVIOUS
<1>2. DOMAIN t = 1 .. Len(s) + 1 /\ DOMAIN s = 1 .. Len(s) /\ Len(s) \in Nat
  BY <1>1
<1> HIDE DEF t
<1>3. ToSet(t) = ToSet(s) \cup {x}
  BY <1>1, <1>2 DEF ToSet
<1>4. IsInjective(s) /\ x \notin ToSet(s) => IsInjective(t)
  BY <1>1, <1>2 DEF ToSet, IsInjective
<1>5. QED
  BY <1>1, <1>3, <1>4 DEF t

\* Concatenation joins the members.
LEMMA ConcatLaw ==
    ASSUME NEW T, NEW s \in Seq(T), NEW t \in Seq(T)
    PROVE  /\ s \o t \in Seq(T)
           /\ ToSet(s \o t) = ToSet(s) \cup ToSet(t)
           /\ IsInjective(s) /\ IsInjective(t) /\ ToSet(s) \cap ToSet(t) = {} => IsInjective(s \o t)
<1> DEFINE u == s \o t
<1>1. /\ u \in Seq(T) /\ Len(u) = Len(s) + Len(t)
      /\ \A i \in 1 .. Len(s) : u[i] = s[i]
      /\ \A i \in 1 .. Len(t) : u[Len(s) + i] = t[i]
  OBVIOUS
<1>2. /\ DOMAIN u = 1 .. Len(s) + Len(t) /\ DOMAIN s = 1 .. Len(s) /\ DOMAIN t = 1 .. Len(t)
      /\ Len(s) \in Nat /\ Len(t) \in Nat
  BY <1>1
<1> HIDE DEF u
<1>3. \A i \in DOMAIN u : \/ i \in DOMAIN s /\ u[i] = s[i]
                          \/ i - Len(s) \in DOMAIN t /\ u[i] = t[i - Len(s)] /\ i \notin DOMAIN s
  BY <1>1, <1>2
<1>4. ToSet(u) = ToSet(s) \cup ToSet(t)
  <2>1. \A i \in DOMAIN t : Len(s) + i \in DOMAIN u
    BY <1>2
  <2>2. \A i \in DOMAIN s : i \in DOMAIN u
    BY <1>2
  <2>3. QED
    BY <1>1, <1>2, <1>3, <2>1, <2>2 DEF ToSet
<1>5. ASSUME IsInjective(s), IsInjective(t), ToSet(s) \cap ToSet(t) = {}
      PROVE  IsInjective(u)
  <2> SUFFICES ASSUME NEW i \in DOMAIN u, NEW j \in DOMAIN u, u[i] = u[j]
               PROVE  i = j
    BY DEF IsInjective
  <2>1. \A a \in DOMAIN s, b \in DOMAIN t : s[a] # t[b]
    BY <1>5 DEF ToSet
  <2>2. i \in DOMAIN s <=> j \in DOMAIN s
    BY <1>3, <2>1
  <2>3. CASE i \in DOMAIN s
    BY <1>3, <1>5, <2>2, <2>3 DEF IsInjective
  <2>4. CASE i \notin DOMAIN s
    <3>1. t[i - Len(s)] = t[j - Len(s)] /\ i - Len(s) \in DOMAIN t /\ j - Len(s) \in DOMAIN t
      BY <1>3, <2>2, <2>4
    <3>2. i - Len(s) = j - Len(s)
      BY <1>5, <3>1 DEF IsInjective
    <3>3. QED
      BY <1>2, <3>2
  <2>5. QED
    BY <2>3, <2>4
<1>6. QED
  BY <1>1, <1>4, <1>5 DEF u

\* The head and the tail.
LEMMA HeadLaw ==
    ASSUME NEW T, NEW s \in Seq(T), s # <<>>
    PROVE  /\ Head(s) \in T /\ Tail(s) \in Seq(T)
           /\ ToSet(s) = ToSet(Tail(s)) \cup {Head(s)}
           /\ IsInjective(s) => IsInjective(Tail(s)) /\ Head(s) \notin ToSet(Tail(s))
<1> DEFINE t == Tail(s)
           h == Head(s)
<1>1. /\ t \in Seq(T) /\ Len(t) = Len(s) - 1 /\ h = s[1] /\ h \in T
      /\ \A i \in 1 .. Len(s) - 1 : t[i] = s[i + 1]
  OBVIOUS
<1>2. DOMAIN t = 1 .. Len(s) - 1 /\ DOMAIN s = 1 .. Len(s) /\ Len(s) \in Nat /\ Len(s) > 0
  BY <1>1
<1> HIDE DEF t, h
<1>3. ToSet(s) = ToSet(t) \cup {h}
  <2>1. \A i \in DOMAIN s : i = 1 \/ (i - 1 \in DOMAIN t /\ t[i - 1] = s[i])
    BY <1>1, <1>2
  <2>2. \A i \in DOMAIN t : i + 1 \in DOMAIN s /\ t[i] = s[i + 1]
    BY <1>1, <1>2
  <2>3. 1 \in DOMAIN s
    BY <1>2
  <2>4. ASSUME NEW i \in DOMAIN s PROVE s[i] \in ToSet(t) \cup {h}
    BY <1>1, <2>1 DEF ToSet
  <2>5. ASSUME NEW i \in DOMAIN t PROVE t[i] \in ToSet(s)
    BY <2>2 DEF ToSet
  <2>6. h \in ToSet(s)
    BY <1>1, <2>3 DEF ToSet
  <2>7. QED
    BY <2>4, <2>5, <2>6 DEF ToSet
<1>4. ASSUME IsInjective(s) PROVE IsInjective(t) /\ h \notin ToSet(t)
  <2>1. \A i \in DOMAIN t : i + 1 \in DOMAIN s /\ t[i] = s[i + 1] /\ i + 1 # 1
    BY <1>1, <1>2
  <2>2. 1 \in DOMAIN s
    BY <1>2
  <2>3. h \notin ToSet(t)
    BY <1>1, <1>4, <2>1, <2>2 DEF ToSet, IsInjective
  <2>4. \A i, j \in DOMAIN t : t[i] = t[j] => i + 1 = j + 1
    BY <1>4, <2>1 DEF IsInjective
  <2>5. \A i, j \in DOMAIN t : t[i] = t[j] => i = j
    BY <1>2, <2>4
  <2>6. QED
    BY <2>3, <2>5 DEF IsInjective
<1>5. QED
  BY <1>1, <1>3, <1>4 DEF t, h

\* The last element and what stands in front of it.
LEMMA LastLaw ==
    ASSUME NEW T, NEW s \in Seq(T), s # <<>>
    PROVE  /\ Last(s) \in T /\ Front(s) \in Seq(T)
           /\ ToSet(s) = ToSet(Front(s)) \cup {Last(s)}
           /\ IsInjective(s) => IsInjective(Front(s)) /\ Last(s) \notin ToSet(Front(s))
<1> DEFINE t == Front(s)
           h == Last(s)
<1>0. Len(s) \in Nat /\ Len(s) > 0
  OBVIOUS
<1>1. /\ t \in Seq(T) /\ Len(t) = Len(s) - 1 /\ h = s[Len(s)] /\ h \in T
      /\ \A i \in 1 .. Len(s) - 1 : t[i] = s[i]
  <2>1. t = SubSeq(s, 1, Len(s) - 1)
    BY DEF Front
  <2>2. SubSeq(s, 1, Len(s) - 1) = [i \in 1 .. Len(s) - 1 |-> s[i]]
    BY <1>0
  <2>3. [i \in 1 .. Len(s) - 1 |-> s[i]] \in Seq(T) /\ Len([i \in 1 .. Len(s) - 1 |-> s[i]]) = Len(s) - 1
    BY <1>0
  <2>4. h = s[Len(s)] /\ s[Len(s)] \in T
    BY <1>0 DEF Last
  <2>5. QED
    BY <2>1, <2>2, <2>3, <2>4
<1>2. DOMAIN t = 1 .. Len(s) - 1 /\ DOMAIN s = 1 .. Len(s)
  BY <1>1
<1> HIDE DEF t, h
<1>3. DOMAIN s = DOMAIN t \cup {Len(s)} /\ Len(s) \notin DOMAIN t /\ \A i \in DOMAIN t : t[i] = s[i]
  BY <1>0, <1>1, <1>2
<1>4. ToSet(s) = ToSet(t) \cup {h}
  BY <1>1, <1>3 DEF ToSet
<1>5. IsInjective(s) => IsInjective(t) /\ h \notin ToSet(t)
  BY <1>1, <1>3 DEF ToSet, IsInjective
<1>6. QED
  BY <1>1, <1>4, <1>5 DEF t, h

----------------------------------------------------------------------------
(* FlattenSeq *)

\* f is the recursive function of FlattenSeq on the first m sequences of ss.
Joins(f, ss, m) ==
    /\ f = [i \in 1 .. m |-> f[i]]
    /\ \A i \in 1 .. m : f[i] = IF i = 1 THEN ss[i] ELSE f[i - 1] \o ss[i]

LEMMA JoinExists ==
    ASSUME NEW ss, NEW m \in Nat
    PROVE  \E f : Joins(f, ss, m)
<1> DEFINE B == {k \in Nat : ~ \E f : Joins(f, ss, k)}
<1> SUFFICES ASSUME B # {} PROVE FALSE
  OBVIOUS
<1>1. PICK k \in B : \A l \in B : k <= l
  <2>1. B \subseteq Nat
    OBVIOUS
  <2> HIDE DEF B
  <2>2. QED
    BY <2>1, NatMinimum
<1>2. CASE k = 0
  <2>1. Joins([i \in 1 .. 0 |-> 0], ss, 0)
    BY DEF Joins
  <2>2. QED
    BY <1>2, <2>1
<1>3. CASE k # 0
  <2>1. k - 1 \in Nat /\ k - 1 \notin B /\ k \in Nat
    BY <1>1, <1>3
  <2>2. PICK f : Joins(f, ss, k - 1)
    BY <2>1
  <2> DEFINE g == [i \in 1 .. k |-> IF i = k THEN (IF i = 1 THEN ss[i] ELSE f[i - 1] \o ss[i]) ELSE f[i]]
  <2>3. \A i \in 1 .. k - 1 : i \in 1 .. k /\ i # k /\ (i # 1 => i - 1 \in 1 .. k - 1)
    BY <2>1
  <2>4. \A i \in 1 .. k - 1 : g[i] = f[i]
    BY <2>3
  <2>5. k \in 1 .. k /\ (k # 1 => k - 1 \in 1 .. k - 1)
    BY <2>1, <1>3
  <2>6. g[k] = IF k = 1 THEN ss[k] ELSE f[k - 1] \o ss[k]
    BY <2>5
  <2>7. g = [i \in 1 .. k |-> g[i]]
    OBVIOUS
  <2>8. \A i \in 1 .. k : i = k \/ i \in 1 .. k - 1
    BY <2>1
  <2> HIDE DEF g
  <2>9. Joins(g, ss, k)
    BY <2>2, <2>3, <2>4, <2>5, <2>6, <2>7, <2>8 DEF Joins
  <2>10. QED
    BY <2>9
<1>4. QED
  BY <1>2, <1>3

\* Flattening joins the members; without repetitions in and between the
\* sequences there are none in the result.
LEMMA FlattenLaw ==
    ASSUME NEW T, NEW ss \in Seq(Seq(T))
    PROVE  /\ FlattenSeq(ss) \in Seq(T)
           /\ ToSet(FlattenSeq(ss)) = UNION {ToSet(ss[i]) : i \in 1 .. Len(ss)}
           /\ (/\ \A i \in 1 .. Len(ss) : IsInjective(ss[i])
               /\ \A i, j \in 1 .. Len(ss) : i # j => ToSet(ss[i]) \cap ToSet(ss[j]) = {})
              => IsInjective(FlattenSeq(ss))
<1> DEFINE m == Len(ss)
           Upto(k) == UNION {ToSet(ss[i]) : i \in 1 .. k}
           Apart == /\ \A i \in 1 .. m : IsInjective(ss[i])
                    /\ \A i, j \in 1 .. m : i # j => ToSet(ss[i]) \cap ToSet(ss[j]) = {}
           Right(t, k) == t \in Seq(T) /\ ToSet(t) = Upto(k) /\ (Apart => IsInjective(t))
<1>1. m \in Nat /\ \A i \in 1 .. m : ss[i] \in Seq(T)
  OBVIOUS
<1>2. CASE m = 0
  <2>1. ss = <<>> /\ FlattenSeq(ss) = ss
    BY <1>2 DEF FlattenSeq
  <2>2. ss \in Seq(T) /\ ToSet(ss) = {} /\ IsInjective(ss)
    BY <2>1 DEF ToSet, IsInjective
  <2>3. Upto(m) = {}
    BY <1>2
  <2>4. QED
    BY <2>1, <2>2, <2>3
<1>3. CASE m # 0
  <2>1. PICK f : Joins(f, ss, m)
    BY <1>1, JoinExists
  <2> DEFINE F == CHOOSE g : g = [i \in 1 .. m |-> IF i = 1 THEN ss[i] ELSE g[i - 1] \o ss[i]]
  <2>2. FlattenSeq(ss) = F[m]
    BY <1>3 DEF FlattenSeq
  <2>3. f = [i \in 1 .. m |-> IF i = 1 THEN ss[i] ELSE f[i - 1] \o ss[i]]
    <3>1. f = [i \in 1 .. m |-> f[i]] /\ \A i \in 1 .. m : f[i] = IF i = 1 THEN ss[i] ELSE f[i - 1] \o ss[i]
      BY <2>1 DEF Joins
    <3>2. [i \in 1 .. m |-> f[i]] = [i \in 1 .. m |-> IF i = 1 THEN ss[i] ELSE f[i - 1] \o ss[i]]
      BY <3>1
    <3>3. QED
      BY <3>1, <3>2
  <2>4. F = [i \in 1 .. m |-> IF i = 1 THEN ss[i] ELSE F[i - 1] \o ss[i]]
    BY <2>3
  <2> HIDE DEF F
  <2>5. \A i \in 1 .. m : F[i] = IF i = 1 THEN ss[i] ELSE F[i - 1] \o ss[i]
    BY <2>4
  <2> DEFINE B == {k \in 1 .. m : ~ Right(F[k], k)}
  <2>6. B = {}
    <3> SUFFICES ASSUME B # {} PROVE FALSE
      OBVIOUS
    <3>1. PICK k \in B : \A l \in B : k <= l
      <4>1. B \subseteq Nat
        BY <1>1
      <4> HIDE DEF B
      <4>2. QED
        BY <4>1, NatMinimum
    <3>2. k \in 1 .. m /\ ~ Right(F[k], k)
      OBVIOUS
    <3>3. CASE k = 1
      <4>1. F[k] = ss[1] /\ 1 \in 1 .. m
        BY <2>5, <3>2, <3>3
      <4>2. Upto(1) = ToSet(ss[1])
        OBVIOUS
      <4>3. QED
        BY <1>1, <3>2, <3>3, <4>1, <4>2
    <3>4. CASE k # 1
      <4>1. k - 1 \in 1 .. m /\ F[k] = F[k - 1] \o ss[k] /\ ~ (k <= k - 1)
        <5>1. k - 1 \in 1 .. m /\ ~ (k <= k - 1)
          BY <1>1, <3>2, <3>4
        <5>2. QED
          BY <2>5, <3>2, <3>4, <5>1
      <4>2. Right(F[k - 1], k - 1)
        BY <3>1, <4>1
      <4>3. /\ F[k] \in Seq(T) /\ ToSet(F[k]) = ToSet(F[k - 1]) \cup ToSet(ss[k])
            /\ IsInjective(F[k - 1]) /\ IsInjective(ss[k]) /\ ToSet(F[k - 1]) \cap ToSet(ss[k]) = {}
               => IsInjective(F[k])
        <5>1. F[k - 1] \in Seq(T) /\ ss[k] \in Seq(T)
          BY <1>1, <3>2, <4>2
        <5> DEFINE a == F[k - 1]
                   b == ss[k]
        <5> HIDE DEF a, b
        <5>2. a \in Seq(T) /\ b \in Seq(T)
          BY <5>1 DEF a, b
        <5>3. QED
          BY <4>1, <5>2, ConcatLaw DEF a, b
      <4>4. 1 .. k = (1 .. k - 1) \cup {k}
        BY <1>1, <3>2, <4>1
      <4>5. Upto(k) = Upto(k - 1) \cup ToSet(ss[k])
        BY <4>4
      <4>6. Apart => ToSet(F[k - 1]) \cap ToSet(ss[k]) = {}
        <5>1. \A i \in 1 .. k - 1 : i \in 1 .. m /\ i # k
          BY <1>1, <3>2, <4>1
        <5>2. ASSUME Apart, NEW i \in 1 .. k - 1 PROVE ToSet(ss[i]) \cap ToSet(ss[k]) = {}
          BY <3>2, <5>1, <5>2
        <5>3. ToSet(F[k - 1]) = Upto(k - 1)
          BY <4>2
        <5>4. ASSUME Apart, NEW x \in ToSet(F[k - 1]), x \in ToSet(ss[k]) PROVE FALSE
          <6>1. PICK i \in 1 .. k - 1 : x \in ToSet(ss[i])
            BY <5>3
          <6>2. QED
            BY <5>2, <5>4, <6>1
        <5> HIDE DEF Apart
        <5>5. QED
          BY <5>4
      <4>7. QED
        BY <3>2, <4>2, <4>3, <4>5, <4>6
    <3>5. QED
      BY <3>3, <3>4
  <2>7. m \in 1 .. m
    BY <1>1, <1>3
  <2>8. Right(F[m], m)
    BY <2>6, <2>7
  <2>9. QED
    BY <2>2, <2>8
<1>4. QED
  BY <1>2, <1>3

\* Reversing keeps the members.
LEMMA ReverseLaw ==
    ASSUME NEW T, NEW s \in Seq(T)
    PROVE  /\ Reverse(s) \in Seq(T)
           /\ ToSet(Reverse(s)) = ToSet(s)
           /\ IsInjective(s) => IsInjective(Reverse(s))
<1> DEFINE t == Reverse(s)
           m == Len(s)
<1>1. m \in Nat /\ DOMAIN s = 1 .. m /\ \A i \in 1 .. m : m - i + 1 \in 1 .. m /\ s[m - i + 1] \in T
  OBVIOUS
<1>2. t = [i \in 1 .. m |-> s[m - i + 1]]
  BY DEF Reverse
<1> HIDE DEF t, m
<1>3. t \in Seq(T) /\ DOMAIN t = 1 .. m /\ \A i \in 1 .. m : t[i] = s[m - i + 1]
  BY <1>1, <1>2
<1>4. ToSet(t) = ToSet(s)
  <2>1. \A i \in 1 .. m : s[i] = t[m - i + 1]
    <3>1. \A i \in 1 .. m : m - (m - i + 1) + 1 = i
      BY <1>1
    <3>2. QED
      BY <1>1, <1>3, <3>1
  <2>2. \A i \in 1 .. m : s[i] \in ToSet(t) /\ t[i] \in ToSet(s)
    <3>1. \A i \in 1 .. m : \E j \in DOMAIN t : s[i] = t[j]
      BY <1>1, <1>3, <2>1
    <3>2. \A i \in 1 .. m : \E j \in DOMAIN s : t[i] = s[j]
      BY <1>1, <1>3
    <3>3. QED
      BY <3>1, <3>2 DEF ToSet
  <2>3. QED
    BY <1>1, <1>3, <2>2 DEF ToSet
<1>5. IsInjective(s) => IsInjective(t)
  <2>1. \A i, j \in 1 .. m : m - i + 1 = m - j + 1 => i = j
    BY <1>1
  <2>2. QED
    BY <1>1, <1>3, <2>1 DEF IsInjective
<1>6. QED
  BY <1>3, <1>4, <1>5 DEF t


\* A sequence without repetitions is as long as it has members.
LEMMA LengthLaw ==
    ASSUME NEW T, NEW s \in Seq(T), IsInjective(s)
    PROVE  IsFiniteSet(ToSet(s)) /\ Cardinality(ToSet(s)) = Len(s)
<1> DEFINE m == Len(s)
           S == ToSet(s)
<1>1. m \in Nat /\ s \in [1 .. m -> S] /\ \A x \in S : \E i \in 1 .. m : s[i] = x
  BY DEF ToSet
<1>2. s \in Bijection(1 .. m, S)
  BY <1>1 DEF Bijection, Injection, Surjection
<1> HIDE DEF m, S
<1>3. ExistsBijection(1 .. m, S)
  BY <1>2 DEF ExistsBijection
<1>4. IsFiniteSet(S)
  BY <1>1, <1>3, FS_NatBijection
<1>5. Cardinality(S) = m
  BY <1>1, <1>3, FS_CountingElements
<1>6. QED
  BY <1>4, <1>5 DEF S, m

\* The members of s that are in S.
LEMMA KeepLaw ==
    ASSUME NEW T, NEW s \in Seq(T), NEW S
    PROVE  /\ Keep(s, S) \in Seq(T)
           /\ ToSet(Keep(s, S)) = ToSet(s) \cap S
           /\ IsInjective(s) => IsInjective(Keep(s, S))
<1> DEFINE ss == [i \in DOMAIN s |-> IF s[i] \in S THEN <<s[i]>> ELSE <<>>]
<1>1. DOMAIN s = 1 .. Len(s) /\ Len(s) \in Nat /\ \A i \in 1 .. Len(s) : s[i] \in T
  OBVIOUS
<1>2. \A i \in 1 .. Len(s) : /\ ss[i] \in Seq(T) /\ IsInjective(ss[i])
                             /\ ToSet(ss[i]) = IF s[i] \in S THEN {s[i]} ELSE {}
  <2> SUFFICES ASSUME NEW i \in 1 .. Len(s)
               PROVE  /\ ss[i] \in Seq(T) /\ IsInjective(ss[i])
                      /\ ToSet(ss[i]) = IF s[i] \in S THEN {s[i]} ELSE {}
    OBVIOUS
  <2>1. CASE s[i] \in S
    <3>1. ss[i] = <<s[i]>> /\ s[i] \in T
      BY <1>1, <2>1
    <3> HIDE DEF ss
    <3>2. ss[i] \in Seq(T) /\ DOMAIN ss[i] = {1} /\ ss[i][1] = s[i]
      BY <3>1
    <3>3. ToSet(ss[i]) = {s[i]} /\ IsInjective(ss[i])
      BY <3>2 DEF ToSet, IsInjective
    <3>4. QED
      BY <2>1, <3>2, <3>3
  <2>2. CASE s[i] \notin S
    <3>1. ss[i] = <<>>
      BY <1>1, <2>2
    <3> HIDE DEF ss
    <3>2. ss[i] \in Seq(T) /\ DOMAIN ss[i] = {}
      BY <3>1
    <3>3. ToSet(ss[i]) = {} /\ IsInjective(ss[i])
      BY <3>2 DEF ToSet, IsInjective
    <3>4. QED
      BY <2>2, <3>2, <3>3
  <2>3. QED
    BY <2>1, <2>2
<1>3. ss \in Seq(Seq(T)) /\ Len(ss) = Len(s)
  <2>1. ss = [i \in 1 .. Len(s) |-> ss[i]]
    BY <1>1
  <2> HIDE DEF ss
  <2>2. QED
    BY <1>1, <1>2, <2>1
<1>4. Keep(s, S) = FlattenSeq(ss)
  BY DEF Keep
<1> HIDE DEF ss
<1>5. FlattenSeq(ss) \in Seq(T) /\ ToSet(FlattenSeq(ss)) = UNION {ToSet(ss[i]) : i \in 1 .. Len(ss)}
  BY <1>3, FlattenLaw
<1>6. ToSet(Keep(s, S)) = ToSet(s) \cap S
  <2>1. ASSUME NEW x \in ToSet(Keep(s, S)) PROVE x \in ToSet(s) \cap S
    <3>1. PICK i \in 1 .. Len(s) : x \in ToSet(ss[i])
      BY <1>3, <1>4, <1>5, <2>1
    <3>2. x = s[i] /\ s[i] \in S
      BY <1>2, <3>1
    <3>3. QED
      BY <1>1, <3>2 DEF ToSet
  <2>2. ASSUME NEW x \in ToSet(s) \cap S PROVE x \in ToSet(Keep(s, S))
    <3>1. PICK i \in 1 .. Len(s) : x = s[i]
      BY <1>1, <2>2 DEF ToSet
    <3>2. x \in ToSet(ss[i])
      BY <1>2, <2>2, <3>1
    <3>3. QED
      BY <1>3, <1>4, <1>5, <3>2
  <2>3. QED
    BY <2>1, <2>2
<1>7. ASSUME IsInjective(s) PROVE IsInjective(Keep(s, S))
  <2>1. \A i, j \in 1 .. Len(ss) : i # j => ToSet(ss[i]) \cap ToSet(ss[j]) = {}
    <3> SUFFICES ASSUME NEW i \in 1 .. Len(ss), NEW j \in 1 .. Len(ss), i # j,
                        NEW x, x \in ToSet(ss[i]), x \in ToSet(ss[j])
                 PROVE  FALSE
      OBVIOUS
    <3>1. x = s[i] /\ x = s[j]
      BY <1>2, <1>3
    <3>2. QED
      BY <1>1, <1>3, <1>7, <3>1 DEF IsInjective
  <2>2. \A i \in 1 .. Len(ss) : IsInjective(ss[i])
    BY <1>2, <1>3
  <2>3. IsInjective(FlattenSeq(ss))
    BY <1>3, <2>1, <2>2, FlattenLaw
  <2>4. QED
    BY <1>4, <2>3
<1>8. QED
  BY <1>4, <1>5, <1>6, <1>7
=============================================================================
