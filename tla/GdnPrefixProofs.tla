--------------------------- MODULE GdnPrefixProofs ---------------------------
(***************************************************************************)
(* Proofs about GdnPrefix: for every mode of the cache, every set of        *)
(* prompts and every budget, the scheduler's index and the worker's states  *)
(* agree, captures end a forward pass and the queries of a step fit its     *)
(* budget; with one sequence at a time every recurrent state is that of     *)
(* its prefix and no step raises.                                           *)
(***************************************************************************)
EXTENDS GdnPrefix, LibraryLemmas

----------------------------------------------------------------------------
(* Prompts and their prefixes *)

LEMMA PromptFacts ==
    ASSUME NEW p \in Prompt
    PROVE  /\ p.blocks \in Seq(Content) /\ Len(p.blocks) \in Nat
           /\ prompt_len(p) \in Nat \ {0}
           /\ Len(p.blocks) * BlockSize \in Nat
           /\ Len(p.blocks) * BlockSize <= prompt_len(p)
           /\ prompt_len(p) < Len(p.blocks) * BlockSize + BlockSize
           /\ p # None
<1>1. p.blocks \in Seq(Content) /\ p.tail \in 0 .. BlockSize - 1 /\ p # None
  BY GdnAssumption
<1>2. BlockSize \in Nat \ {0} /\ Len(p.blocks) \in Nat
  BY <1>1, GdnAssumption
<1>3. Len(p.blocks) * BlockSize \in Nat
  BY <1>2, Scale
<1>4. p.tail = 0 => Len(p.blocks) * BlockSize > 0
  <2>1. p.tail = 0 => p.blocks # <<>>
    BY <1>1, GdnAssumption
  <2>2. p.tail = 0 => 0 < Len(p.blocks)
    BY <1>1, <2>1
  <2>3. 0 < Len(p.blocks) => 0 * BlockSize + BlockSize <= Len(p.blocks) * BlockSize
    BY <1>2, Scale
  <2>4. QED
    BY <1>2, <1>3, <2>2, <2>3
<1>5. QED
  BY <1>1, <1>2, <1>3, <1>4 DEF prompt_len

LEMMA PrefixFacts ==
    ASSUME NEW p \in Prompt, NEW n \in 0 .. Len(p.blocks)
    PROVE  /\ PrefixOf(p, n) \in Seq(Content) /\ Len(PrefixOf(p, n)) = n
           /\ n = 0 => PrefixOf(p, n) = <<>>
           /\ n # 0 => PrefixOf(p, n) \in prefixes(p)
<1>1. p.blocks \in Seq(Content) /\ Len(p.blocks) \in Nat
  BY PromptFacts
<1>2. PrefixOf(p, n) = [i \in 1 .. n |-> p.blocks[i]]
  <2>1. SubSeq(p.blocks, 1, n) = [i \in 1 .. n |-> p.blocks[i]]
    BY <1>1
  <2>2. QED
    BY <2>1 DEF PrefixOf
<1>3. [i \in 1 .. n |-> p.blocks[i]] \in Seq(Content) /\ Len([i \in 1 .. n |-> p.blocks[i]]) = n
  BY <1>1
<1>4. n = 0 => PrefixOf(p, n) = <<>>
  BY <1>2, <1>3
<1>5. n # 0 => PrefixOf(p, n) \in prefixes(p)
  BY <1>1 DEF prefixes
<1>6. QED
  BY <1>2, <1>3, <1>4, <1>5

LEMMA KeyFacts ==
    /\ \A p \in Prompt : \A k \in prefixes(p) :
         /\ k \in Key /\ Len(k) \in 1 .. Len(p.blocks) /\ k = PrefixOf(p, Len(k))
         /\ Len(k) * BlockSize \in Nat \ {0} /\ Len(k) * BlockSize <= prompt_len(p)
         /\ \A j \in prefixes(p) : Len(j) = Len(k) => j = k
    /\ \A k \in Key : k \in Seq(Content) /\ Len(k) \in Nat \ {0} /\ k # None /\ k # <<>>
<1>1. ASSUME NEW p \in Prompt, NEW k \in prefixes(p)
      PROVE  /\ k \in Key /\ Len(k) \in 1 .. Len(p.blocks) /\ k = PrefixOf(p, Len(k))
             /\ Len(k) * BlockSize \in Nat \ {0} /\ Len(k) * BlockSize <= prompt_len(p)
             /\ k \in Seq(Content)
  <2>1. PICK n \in 1 .. Len(p.blocks) : k = PrefixOf(p, n)
    BY DEF prefixes
  <2>2. Len(p.blocks) \in Nat
    BY PromptFacts
  <2>3. n \in 0 .. Len(p.blocks) /\ n # 0
    BY <2>2
  <2>4. Len(k) = n /\ k \in Seq(Content)
    BY <2>1, <2>3, PrefixFacts
  <2>5. /\ BlockSize \in Nat \ {0} /\ Len(p.blocks) * BlockSize \in Nat
        /\ Len(p.blocks) * BlockSize <= prompt_len(p) /\ prompt_len(p) \in Nat
    BY PromptFacts, GdnAssumption
  <2>6. n * BlockSize <= Len(p.blocks) * BlockSize /\ 0 * BlockSize + BlockSize <= n * BlockSize
        /\ n * BlockSize \in Nat
    <3>1. n \in Int /\ n \in Nat /\ Len(p.blocks) \in Int /\ 0 < n /\ n <= Len(p.blocks)
      BY <2>2, <2>3
    <3>2. QED
      BY <2>5, <3>1, Scale
  <2>7. k \in Key
    BY DEF Key
  <2> HIDE DEF prompt_len
  <2>8. QED
    BY <2>1, <2>3, <2>4, <2>5, <2>6, <2>7
<1>2. ASSUME NEW k \in Key
      PROVE  k \in Seq(Content) /\ Len(k) \in Nat \ {0} /\ k # None /\ k # <<>>
  <2>1. PICK p \in Prompt : k \in prefixes(p)
    BY DEF Key
  <2>2. k \in Seq(Content) /\ Len(k) \in 1 .. Len(p.blocks) /\ Len(p.blocks) \in Nat
    BY <1>1, <2>1, PromptFacts
  <2>3. QED
    BY <2>2, GdnAssumption
<1>3. QED
  BY <1>1, <1>2

\* A non-empty set of prefixes of a prompt has a longest.
LEMMA LongestFacts ==
    ASSUME NEW p \in Prompt, NEW S, S \subseteq prefixes(p), S # {}
    PROVE  longest(S) \in S /\ \A j \in S : Len(j) <= Len(longest(S))
<1> DEFINE m == Len(p.blocks)
           T == {m - Len(k) : k \in S}
<1>1. m \in Nat /\ \A k \in S : Len(k) \in 1 .. m
  BY PromptFacts, KeyFacts
<1>2. T \subseteq Nat /\ T # {}
  BY <1>1
<1>3. PICK t \in T : \A u \in T : t <= u
  <2> HIDE DEF T
  <2> QED
    BY <1>2, NatMinimum
<1>4. PICK k \in S : t = m - Len(k)
  OBVIOUS
<1>5. \A j \in S : Len(j) <= Len(k)
  <2> SUFFICES ASSUME NEW j \in S PROVE Len(j) <= Len(k)
    OBVIOUS
  <2>1. m - Len(k) <= m - Len(j)
    BY <1>3, <1>4
  <2>2. QED
    BY <1>1, <2>1
<1>6. QED
  BY <1>5 DEF longest

----------------------------------------------------------------------------
(* Least and greatest members *)

LEMMA MinFacts ==
    ASSUME NEW S, S \subseteq Nat, S # {}
    PROVE  Min(S) \in S /\ \A x \in S : Min(S) <= x
<1>1. \E m \in S : \A x \in S : m <= x
  BY NatMinimum
<1>2. QED
  BY <1>1 DEF Min

LEMMA MinPair ==
    ASSUME NEW a \in Int, NEW b \in Int
    PROVE  Min({a, b}) = IF a <= b THEN a ELSE b
<1>1. \E m \in {a, b} : \A x \in {a, b} : m <= x
  OBVIOUS
<1>2. Min({a, b}) \in {a, b} /\ Min({a, b}) <= a /\ Min({a, b}) <= b
  BY <1>1 DEF Min
<1>3. QED
  BY <1>2

LEMMA MaxFacts ==
    ASSUME NEW n \in Nat, NEW S, S \subseteq 0 .. n, S # {}
    PROVE  Max(S) \in S /\ \A x \in S : x <= Max(S)
<1> DEFINE T == {n - x : x \in S}
<1>0. \A x \in S : n - x \in Nat
  OBVIOUS
<1>1. T \subseteq Nat /\ T # {}
  BY <1>0
<1>2. PICK t \in T : \A u \in T : t <= u
  <2> HIDE DEF T
  <2> QED
    BY <1>1, NatMinimum
<1>3. PICK m \in S : t = n - m
  OBVIOUS
<1>4. \A x \in S : n - m <= n - x
  BY <1>2, <1>3
<1>5. \A x \in S : x <= m
  BY <1>4
<1>6. QED
  BY <1>5 DEF Max

----------------------------------------------------------------------------
(* The arithmetic of boundaries *)

LEMMA ModeFacts ==
    ASSUME mode \in Modes
    PROVE  /\ Policy \in {"fine32", "admission64", "off"}
           /\ RestoreMode \in {"direct", "hybrid64", "chunk64", "aligned"}
           /\ gdn_restore_alignment \in Nat \ {0}
  BY GdnAssumption DEF Policy, RestoreMode, gdn_restore_alignment

\* The blocks strictly before the last of some tokens.
LEMMA StrictFacts ==
    ASSUME NEW t \in Nat \ {0}
    PROVE  /\ strict_prefix_block_count(t) \in Nat
           /\ strict_prefix_block_count(t) * BlockSize < t
           /\ \A n \in Nat : n * BlockSize < t => n <= strict_prefix_block_count(t)
<1> DEFINE b == BlockSize
           q == (t - 1) \div b
<1>0. b \in Nat \ {0}
  BY GdnAssumption
<1> HIDE DEF b
<1>1. q \in Nat /\ b * q <= t - 1 /\ t - 1 < b * q + b
  <2>1. t - 1 \in Nat
    OBVIOUS
  <2>2. q \in Nat /\ (t - 1) % b \in 0 .. b - 1 /\ t - 1 = b * q + ((t - 1) % b)
    BY <1>0, <2>1, DivMod
  <2> DEFINE r == (t - 1) % b
             bq == b * q
  <2>3. bq \in Int
    BY <1>0, <2>2
  <2> HIDE DEF r, bq, q
  <2>4. r \in 0 .. b - 1 /\ t - 1 = bq + r
    BY <2>2 DEF r, bq, q
  <2>5. bq <= t - 1 /\ t - 1 < bq + b
    BY <1>0, <2>3, <2>4
  <2>6. QED
    BY <2>2, <2>5 DEF bq, q
<1> HIDE DEF q
<1>2. strict_prefix_block_count(t) = q
  <2>1. t = 1 => q = 0
    <3>1. t = 1 => b * q <= 0
      <4>1. b * q \in Int
        BY <1>0, <1>1
      <4>2. QED
        BY <1>1, <4>1
    <3>2. q > 0 => b * q > 0
      BY <1>0, <1>1
    <3>3. QED
      <4>1. b * q \in Int
        BY <1>0, <1>1
      <4>2. QED
        BY <1>1, <3>1, <3>2, <4>1
  <2>2. QED
    BY <2>1 DEF strict_prefix_block_count, b, q
<1>3. ASSUME NEW n \in Nat, n * b < t PROVE n <= q
  <2>1. q < n => q * b + b <= n * b
    BY <1>0, <1>1, Scale
  <2>2. q * b = b * q /\ n * b \in Int /\ b * q \in Int
    BY <1>0, <1>1
  <2>3. QED
    BY <1>0, <1>1, <1>3, <2>1, <2>2
<1>4. q * b < t
  <2>1. q * b = b * q /\ b * q \in Int
    BY <1>0, <1>1
  <2>2. QED
    BY <1>1, <2>1
<1>5. QED
  BY <1>1, <1>2, <1>3, <1>4 DEF b

\* The final key is a prefix of the prompt, and there is at most one.
LEMMA DirectFinal ==
    ASSUME NEW p \in Prompt, NEW t \in Nat \ {0}
    PROVE  /\ direct_final_key(p, t) \subseteq prefixes(p)
           /\ \A j, k \in direct_final_key(p, t) : j = k
           /\ \A n \in 1 .. Len(p.blocks) :
                n * BlockSize < t /\ t - n * BlockSize >= MinReplay =>
                    \A k \in direct_final_key(p, t) : n <= Len(k)
<1> DEFINE m == Len(p.blocks)
           c == strict_prefix_block_count(t)
           strict == Min({m, c})
           last == IF strict > 0 /\ t - strict * BlockSize < MinReplay THEN strict - 1 ELSE strict
<1>1. m \in Nat /\ c \in Nat /\ \A n \in Nat : n * BlockSize < t => n <= c
  BY PromptFacts, StrictFacts
<1>2. strict = IF m <= c THEN m ELSE c
  <2> HIDE DEF m, c
  <2> QED
    BY <1>1, MinPair
<1>3. direct_final_key(p, t) = IF last > 0 THEN {PrefixOf(p, last)} ELSE {}
  BY DEF direct_final_key
<1>4. BlockSize \in Nat \ {0} /\ MinReplay \in Nat \ {0}
  BY GdnAssumption
<1> HIDE DEF c, strict
<1>5. last \in Nat /\ last <= m
  BY <1>1, <1>2
<1>6. last > 0 => PrefixOf(p, last) \in prefixes(p) /\ Len(PrefixOf(p, last)) = last
  BY <1>1, <1>5, PrefixFacts
<1>7. ASSUME NEW n \in 1 .. m, n * BlockSize < t, t - n * BlockSize >= MinReplay
      PROVE  n <= last
  <2>1. n <= strict
    BY <1>1, <1>2, <1>7
  <2>2. CASE n = strict
    BY <1>1, <1>2, <1>4, <1>7, <2>2
  <2>3. CASE n < strict
    BY <1>1, <1>2, <2>3
  <2>4. QED
    BY <1>1, <1>2, <2>1, <2>2, <2>3
<1> HIDE DEF last
<1>8. QED
  BY <1>3, <1>6, <1>7

LEMMA AlignedFinal ==
    ASSUME mode \in Modes, NEW p \in Prompt, NEW t \in Nat \ {0}
    PROVE  /\ aligned_final_key(p, t) \subseteq prefixes(p)
           /\ \A j, k \in aligned_final_key(p, t) : j = k
           /\ \A n \in 1 .. Len(p.blocks) :
                n * BlockSize < t /\ (n * BlockSize) % gdn_restore_alignment = 0 =>
                    \A k \in aligned_final_key(p, t) : n <= Len(k)
<1> DEFINE m == Len(p.blocks)
           a == gdn_restore_alignment
           q == (t - 1) \div a
           boundary == q * a
           c == boundary \div BlockSize
           last == Min({m, c})
<1>1. m \in Nat /\ a \in Nat \ {0} /\ BlockSize \in Nat \ {0} /\ t - 1 \in Nat
  BY PromptFacts, ModeFacts, GdnAssumption
<1>2. aligned_final_key(p, t) = IF t > 1 /\ last > 0 THEN {PrefixOf(p, last)} ELSE {}
  BY DEF aligned_final_key
<1> HIDE DEF a
<1>3. q \in Nat /\ boundary \in Nat
  <2>1. q \in Nat
    BY <1>1, DivMod
  <2> HIDE DEF q
  <2>2. QED
    BY <1>1, <2>1, Scale
<1> HIDE DEF m
<1>4. c \in Nat /\ last = IF m <= c THEN m ELSE c
  <2> HIDE DEF boundary
  <2>1. c \in Nat
    BY <1>1, <1>3, DivMod
  <2> HIDE DEF c
  <2>2. QED
    BY <1>1, <2>1, MinPair
<1>5. last > 0 => PrefixOf(p, last) \in prefixes(p) /\ Len(PrefixOf(p, last)) = last
  <2>1. last \in 0 .. m
    BY <1>1, <1>4
  <2> HIDE DEF last
  <2>2. QED
    BY <2>1, PrefixFacts DEF m
<1>6. ASSUME NEW n \in 1 .. m, n * BlockSize < t, (n * BlockSize) % a = 0
      PROVE  n <= last
  <2> DEFINE x == n * BlockSize
             d == x \div a
  <2>1. x \in Nat
    <3>1. n \in Nat
      BY <1>1
    <3>2. QED
      BY <1>1, <3>1, Scale
  <2>2. d \in Nat /\ x = a * d
    <3> HIDE DEF x
    <3>1. d \in Nat /\ x = a * d + (x % a)
      BY <1>1, <2>1, DivMod
    <3>2. a * d \in Nat /\ x % a = 0
      BY <1>1, <1>6, <3>1 DEF x
    <3>3. QED
      BY <3>1, <3>2
  <2>3. x <= boundary
    <3>1. t - 1 = a * q + ((t - 1) % a) /\ (t - 1) % a \in 0 .. a - 1
      BY <1>1, DivMod
    <3> DEFINE r == (t - 1) % a
    <3> HIDE DEF r, q, d
    <3>2. a * q = boundary /\ a * d = d * a /\ d * a \in Int
      BY <1>1, <1>3, <2>2
    <3> HIDE DEF x, boundary
    <3>3. x = d * a /\ x \in Int
      BY <2>1, <2>2, <3>2
    <3>4. t - 1 = boundary + r /\ r \in 0 .. a - 1
      BY <3>1, <3>2 DEF r
    <3>5. x < t
      BY <1>6 DEF x
    <3>6. q < d => q * a + a <= d * a
      BY <1>1, <1>3, <2>2, Scale
    <3>7. q < d => boundary + a <= x
      BY <3>3, <3>6 DEF boundary
    <3>8. ~ (q < d)
      BY <1>1, <1>3, <2>1, <3>4, <3>5, <3>7
    <3>9. d <= q
      BY <1>3, <2>2, <3>8
    <3>10. d * a <= q * a
      BY <1>1, <1>3, <2>2, <3>9, Scale
    <3>11. QED
      BY <3>3, <3>10 DEF boundary
  <2>4. n <= c
    <3> HIDE DEF boundary
    <3>1. boundary = BlockSize * c + (boundary % BlockSize) /\ boundary % BlockSize \in 0 .. BlockSize - 1
      BY <1>1, <1>3, DivMod
    <3> DEFINE r == boundary % BlockSize
               y == c * BlockSize
    <3> HIDE DEF r, c
    <3>2. BlockSize * c = y /\ y \in Int
      BY <1>1, <1>4
    <3>3. c < n => y + BlockSize <= x
      BY <1>1, <1>4, Scale
    <3> HIDE DEF x, y
    <3>4. boundary = y + r /\ r \in 0 .. BlockSize - 1
      BY <3>1, <3>2 DEF r
    <3>5. ~ (c < n)
      BY <1>1, <1>3, <2>1, <2>3, <3>2, <3>3, <3>4
    <3>6. QED
      BY <1>1, <1>4, <3>5
  <2> HIDE DEF c
  <2>5. QED
    BY <1>1, <1>4, <2>4
<1> HIDE DEF last
<1>7. QED
  BY <1>2, <1>5, <1>6 DEF m, a

LEMMA FinalFacts ==
    ASSUME mode \in Modes, NEW p \in Prompt, NEW t \in Nat \ {0}
    PROVE  /\ final_capture_key(p, t) \subseteq prefixes(p)
           /\ \A j, k \in final_capture_key(p, t) : j = k
  BY DirectFinal, AlignedFinal DEF final_capture_key

\* A state that may be restored covers no more than the final key.
LEMMA EligibleFacts ==
    ASSUME mode \in Modes, NEW p \in Prompt, NEW k \in prefixes(p), restore_key_is_eligible(k, p)
    PROVE  /\ Len(k) * BlockSize < prompt_len(p)
           /\ \A f \in final_capture_key(p, prompt_len(p)) : Len(k) <= Len(f)
<1> DEFINE n == Len(k)
           len == prompt_len(p)
<1>1. /\ len \in Nat \ {0} /\ n \in 1 .. Len(p.blocks) /\ n * BlockSize \in Nat /\ n * BlockSize <= len
      /\ MinReplay \in Nat \ {0}
  BY PromptFacts, KeyFacts, GdnAssumption
<1>2. len - n * BlockSize > 0
  BY DEF restore_key_is_eligible
<1> HIDE DEF len
<1>3. n * BlockSize < len
  <2> DEFINE x == n * BlockSize
  <2>1. x \in Nat /\ len - x > 0
    BY <1>1, <1>2
  <2> HIDE DEF x
  <2>2. x < len
    BY <1>1, <2>1
  <2>3. QED
    BY <2>2 DEF x
<1>4. CASE RestoreMode \in {"direct", "hybrid64"}
  <2>1. len - n * BlockSize >= MinReplay
    BY <1>4 DEF restore_key_is_eligible, len
  <2>2. \A f \in direct_final_key(p, len) : n <= Len(f)
    BY <1>1, <1>3, <2>1, DirectFinal
  <2>3. QED
    BY <1>3, <1>4, <2>2 DEF final_capture_key, len
<1>5. CASE RestoreMode \notin {"direct", "hybrid64"}
  <2>1. (n * BlockSize) % gdn_restore_alignment = 0
    BY <1>5 DEF restore_key_is_eligible
  <2>2. \A f \in aligned_final_key(p, len) : n <= Len(f)
    BY <1>1, <1>3, <2>1, AlignedFinal
  <2>3. QED
    BY <1>3, <1>5, <2>2 DEF final_capture_key, len
<1>6. QED
  BY <1>4, <1>5

LEMMA LiveFacts ==
    ASSUME mode \in Modes, NEW p \in Prompt
    PROVE  /\ num_live_blocks(p) \in 0 .. Len(p.blocks)
           /\ live_keys(p) \subseteq prefixes(p)
           /\ \A k \in live_keys(p) : restore_key_is_eligible(k, p) /\ Len(k) <= num_live_blocks(p)
<1> DEFINE m == Len(p.blocks)
           live == num_live_blocks(p)
           c == strict_prefix_block_count(prompt_len(p))
           blocks == Min({live, c})
<1>1. m \in Nat /\ prompt_len(p) \in Nat \ {0}
  BY PromptFacts
<1>2. live \in 0 .. m
  <2> DEFINE S == {n \in 0 .. m : \A l \in 1 .. n : PrefixOf(p, l) \in kv}
  <2>1. S \subseteq 0 .. m /\ 0 \in S
    BY <1>1
  <2>2. live = Max(S)
    BY DEF num_live_blocks
  <2> HIDE DEF S, live, m
  <2>3. S # {}
    BY <2>1
  <2>4. QED
    BY <1>1, <2>1, <2>2, <2>3, MaxFacts
<1>3. c \in Nat
  BY <1>1, StrictFacts
<1>4. live_keys(p) = {k \in {PrefixOf(p, n) : n \in 1 .. blocks} : restore_key_is_eligible(k, p)}
  BY DEF live_keys
<1> HIDE DEF live, c
<1>5. blocks = IF live <= c THEN live ELSE c
  BY <1>1, <1>2, <1>3, MinPair
<1> HIDE DEF blocks
<1>6. \A n \in 1 .. blocks : n \in 0 .. m /\ n # 0 /\ n <= live
  BY <1>1, <1>2, <1>3, <1>5
<1>7. ASSUME NEW n \in 1 .. blocks
      PROVE  PrefixOf(p, n) \in prefixes(p) /\ Len(PrefixOf(p, n)) = n /\ n <= live
  BY <1>6, PrefixFacts
<1>8. QED
  BY <1>2, <1>4, <1>7 DEF live

LEMMA RestoreFacts ==
    ASSUME mode \in Modes, NEW p \in Prompt, NEW k, k = select_restore(live_keys(p)), k # None
    PROVE  /\ k \in prefixes(p) /\ k \in resident
           /\ Len(k) * BlockSize < prompt_len(p) /\ Len(k) <= num_live_blocks(p)
           /\ Policy = "admission64" => \A t \in targets_of(p) : Len(k) < Len(t)
<1> DEFINE S == live_keys(p) \cap resident
<1>1. S # {} /\ k = longest(S)
  BY DEF select_restore
<1>2. S \subseteq prefixes(p) /\ S \subseteq live_keys(p) /\ S \subseteq resident
  BY LiveFacts
<1> HIDE DEF S
<1>3. k \in S
  BY <1>1, <1>2, LongestFacts
<1>4. k \in prefixes(p) /\ k \in resident /\ k \in live_keys(p)
  BY <1>2, <1>3
<1>5. restore_key_is_eligible(k, p) /\ Len(k) <= num_live_blocks(p)
  BY <1>4, LiveFacts
<1>6. ASSUME Policy = "admission64", NEW t \in targets_of(p)
      PROVE  Len(k) < Len(t)
  <2>1. t \notin resident /\ t \in prefixes(p) /\ Len(k) <= Len(t)
    <3>1. CASE t \in repeated_branch_candidate(live_keys(p))
      <4>1. t = longest(live_keys(p)) /\ t \notin resident
        BY <3>1 DEF repeated_branch_candidate
      <4>2. live_keys(p) \subseteq prefixes(p) /\ live_keys(p) # {}
        BY <1>4, LiveFacts
      <4>3. t \in live_keys(p) /\ Len(k) <= Len(t)
        BY <1>4, <4>1, <4>2, LongestFacts
      <4>4. QED
        BY <4>1, <4>2, <4>3
    <3>2. CASE t \in final_capture_key(p, prompt_len(p)) /\ should_capture_final(t)
      <4>1. t \notin resident
        BY <1>6, <3>2 DEF should_capture_final
      <4>2. t \in prefixes(p)
        BY <3>2, PromptFacts, FinalFacts
      <4>3. Len(k) <= Len(t)
        BY <1>4, <1>5, <3>2, EligibleFacts
      <4>4. QED
        BY <4>1, <4>2, <4>3
    <3>3. QED
      BY <3>1, <3>2 DEF targets_of
  <2>2. t # k
    BY <1>4, <2>1
  <2>3. Len(t) # Len(k)
    BY <1>4, <2>1, <2>2, KeyFacts
  <2>4. Len(t) \in Nat /\ Len(k) \in Nat
    <3>1. Len(t) \in 1 .. Len(p.blocks) /\ Len(k) \in 1 .. Len(p.blocks) /\ Len(p.blocks) \in Nat
      BY <1>4, <2>1, KeyFacts, PromptFacts
    <3>2. QED
      BY <3>1
  <2>5. QED
    BY <2>1, <2>3, <2>4
<1>7. QED
  BY <1>4, <1>5, <1>6, EligibleFacts

LEMMA TargetFacts ==
    ASSUME mode \in Modes, NEW p \in Prompt
    PROVE  targets_of(p) \subseteq prefixes(p)
<1>1. repeated_branch_candidate(live_keys(p)) \subseteq prefixes(p)
  <2>1. live_keys(p) \subseteq prefixes(p)
    BY LiveFacts
  <2>2. live_keys(p) # {} => longest(live_keys(p)) \in prefixes(p)
    BY <2>1, LongestFacts
  <2>3. QED
    BY <2>2 DEF repeated_branch_candidate
<1>2. final_capture_key(p, prompt_len(p)) \subseteq prefixes(p)
  BY PromptFacts, FinalFacts
<1>3. QED
  BY <1>1, <1>2 DEF targets_of

----------------------------------------------------------------------------
(* What a group gets of the budget *)

LEMMA BudgetFacts ==
    ASSUME num_batched \in 0 .. TokenBudget, NEW needed \in Nat
    PROVE  /\ remaining_token_budget \in Nat
           /\ get_num_new_tokens(needed) \in Nat
           /\ get_num_new_tokens(needed) <= needed
           /\ get_num_new_tokens(needed) <= remaining_token_budget
           /\ num_batched = 0 /\ needed > 0 => get_num_new_tokens(needed) > 0
<1> DEFINE b == remaining_token_budget
           q == b \div BlockSize
           x == q * BlockSize
<1>1. /\ b \in Nat /\ BlockSize \in Nat \ {0} /\ TokenBudget \in Nat \ {0}
      /\ TokenBudget % BlockSize = 0 /\ (num_batched = 0 => b = TokenBudget)
  BY GdnAssumption DEF remaining_token_budget
<1>2. get_num_new_tokens(needed) = IF b < needed THEN x ELSE needed
  BY DEF get_num_new_tokens
<1> HIDE DEF b
<1>3. q \in Nat /\ b = BlockSize * q + (b % BlockSize) /\ b % BlockSize \in 0 .. BlockSize - 1
  BY <1>1, DivMod
<1> DEFINE r == b % BlockSize
<1> HIDE DEF q
<1>4. x \in Nat /\ BlockSize * q = x
  BY <1>1, <1>3
<1> HIDE DEF x
<1>5. r \in 0 .. BlockSize - 1 /\ (num_batched = 0 => r = 0)
  BY <1>1, <1>3
<1>6. b = x + r
  BY <1>3, <1>4
<1> HIDE DEF r
<1>7. x <= b /\ (num_batched = 0 => x = b /\ b > 0)
  BY <1>1, <1>4, <1>5, <1>6
<1>8. QED
  BY <1>1, <1>2, <1>4, <1>7 DEF b

\* A plan of c tokens of logical progress and ph physical ones.
PlanOK(k, p, rem, c, ph) ==
    /\ c \in Nat \ {0} /\ ph \in Nat \ {0} /\ ph <= c /\ ph <= rem /\ c <= prompt_len(p)
    /\ k = None => c = ph
    /\ k # None => Len(k) * BlockSize < c /\ ph \in {c, c - Len(k) * BlockSize}

\* The first step of a waiting request: what it computes fits the budget, what it
\* counts ends behind the restored prefix, and their difference is that prefix or nothing.
LEMMA PlanFacts ==
    ASSUME mode \in Modes, NEW p \in Prompt, NEW k \in prefixes(p) \cup {None},
           k # None => Len(k) * BlockSize < prompt_len(p),
           NEW rem \in Nat, NEW nominal \in Nat \ {0}, nominal <= rem, nominal <= prompt_len(p)
    PROVE  PlanOK(k, p, rem, plan_fast_forward(k, p, nominal, rem)[1],
                  plan_fast_forward(k, p, nominal, rem)[2])
<1> PICK c, ph : c = plan_fast_forward(k, p, nominal, rem)[1]
                 /\ ph = plan_fast_forward(k, p, nominal, rem)[2]
  OBVIOUS
<1> SUFFICES PlanOK(k, p, rem, c, ph)
  OBVIOUS
<1> USE DEF PlanOK
<1> DEFINE len == prompt_len(p)
<1>1. len \in Nat \ {0} /\ TokenBudget \in Nat \ {0}
  BY PromptFacts, GdnAssumption
<1> HIDE DEF len
<1>2. CASE k = None
  <2>1. plan_fast_forward(k, p, nominal, rem) = <<nominal, nominal>>
    BY <1>2 DEF plan_fast_forward
  <2>2. QED
    BY <1>1, <1>2, <2>1 DEF len
<1>3. CASE k # None
  <2> DEFINE cp == Len(k) * BlockSize
             q == cp \div TokenBudget
             next == (q + 1) * TokenBudget
             limit == IF RestoreMode = "hybrid64" THEN Min({cp + rem, next}) ELSE cp + rem
             logical == Min({len, limit})
             physical == logical - cp
  <2>1. cp \in Nat /\ cp < len
    BY <1>3, KeyFacts DEF len
  <2>2. plan_fast_forward(k, p, nominal, rem) =
          IF \/ physical <= 0 \/ physical > rem
             \/ logical <= nominal /\ (RestoreMode # "hybrid64" \/ physical >= nominal)
          THEN <<nominal, nominal>> ELSE <<logical, physical>>
    BY <1>3 DEF plan_fast_forward, len
  <2> HIDE DEF cp
  <2>3. next \in Nat /\ cp < next
    <3>1. q \in Nat /\ cp = TokenBudget * q + (cp % TokenBudget)
          /\ cp % TokenBudget \in 0 .. TokenBudget - 1
      BY <1>1, <2>1, DivMod
    <3> DEFINE r == cp % TokenBudget
               x == q * TokenBudget
    <3> HIDE DEF q, r
    <3>2. x \in Nat /\ TokenBudget * q = x /\ next = x + TokenBudget
      BY <1>1, <3>1
    <3> HIDE DEF x, next
    <3>3. cp = x + r /\ r \in 0 .. TokenBudget - 1
      BY <3>1, <3>2 DEF r
    <3>4. QED
      BY <1>1, <3>2, <3>3
  <2> HIDE DEF next
  <2>4. limit \in Nat /\ cp < limit /\ limit <= cp + rem
    <3>1. cp + rem \in Nat /\ cp < cp + rem
      BY <2>1
    <3> DEFINE s == cp + rem
    <3>2. Min({s, next}) = IF s <= next THEN s ELSE next
      <4> HIDE DEF s
      <4>1. s \in Int /\ next \in Int
        BY <2>3, <3>1 DEF s
      <4>2. QED
        BY <4>1, MinPair
    <3>3. QED
      BY <2>3, <3>1, <3>2
  <2> HIDE DEF limit
  <2>5. logical = IF len <= limit THEN len ELSE limit
    BY <1>1, <2>4, MinPair
  <2>6. logical \in Nat /\ cp < logical /\ logical <= len /\ logical <= cp + rem
    BY <1>1, <2>1, <2>4, <2>5
  <2> HIDE DEF logical
  <2>7. /\ nominal \in Nat \ {0} /\ nominal <= rem /\ nominal <= len
    BY DEF len
  <2>8. CASE plan_fast_forward(k, p, nominal, rem) = <<nominal, nominal>>
             /\ logical <= nominal
    <3>1. c = nominal /\ ph = nominal
      BY <2>8
    <3>2. cp < c /\ c \in Nat
      BY <2>1, <2>6, <2>7, <2>8, <3>1
    <3>3. QED
      BY <1>3, <2>7, <3>1, <3>2 DEF cp, len
  <2>9. CASE plan_fast_forward(k, p, nominal, rem) = <<logical, physical>>
    <3>1. c = logical /\ ph = logical - cp
      BY <2>9
    <3>2. /\ c \in Nat \ {0} /\ ph \in Nat \ {0} /\ ph <= c /\ ph <= rem /\ c <= len
          /\ cp < c /\ ph = c - cp
      BY <1>1, <2>1, <2>6, <3>1
    <3>3. QED
      BY <1>3, <3>2 DEF cp, len
  <2>10. physical > 0 /\ physical <= rem
    BY <2>1, <2>6
  <2>11. QED
    BY <2>1, <2>2, <2>6, <2>7, <2>8, <2>9, <2>10
<1>4. QED
  BY <1>2, <1>3

CapOK(T, computed, c, ph, c2, ph2) ==
    /\ c2 \in Nat \ {0} /\ c2 <= c /\ ph2 \in Nat \ {0} /\ ph2 <= ph /\ c2 - ph2 = c - ph
    /\ c2 # c => Policy = "admission64" /\ \E k \in T : computed + c2 = Len(k) * BlockSize
    /\ Policy = "admission64" =>
         \A k \in T : ~ (/\ computed + (c - ph) < Len(k) * BlockSize
                         /\ Len(k) * BlockSize < computed + c2)

\* Cutting a step at its first capture boundary.
LEMMA CapFacts ==
    ASSUME mode \in Modes, NEW p \in Prompt, NEW T, T \subseteq prefixes(p),
           NEW computed \in Nat, NEW c \in Nat \ {0}, NEW ph \in Nat \ {0}, ph <= c
    PROVE  /\ ~ cap_gdn_capture_boundary_raises(T, computed, c, ph)
           /\ CapOK(T, computed, c, ph, cap_gdn_capture_boundary(T, computed, c, ph)[1],
                    cap_gdn_capture_boundary(T, computed, c, ph)[2])
<1> PICK c2, ph2 : c2 = cap_gdn_capture_boundary(T, computed, c, ph)[1]
                   /\ ph2 = cap_gdn_capture_boundary(T, computed, c, ph)[2]
  OBVIOUS
<1> SUFFICES ~ cap_gdn_capture_boundary_raises(T, computed, c, ph) /\ CapOK(T, computed, c, ph, c2, ph2)
  OBVIOUS
<1> USE DEF CapOK
<1>1. CASE Policy # "admission64" \/ T = {}
  <2>1. cap_gdn_capture_boundary(T, computed, c, ph) = <<c, ph>>
    BY <1>1 DEF cap_gdn_capture_boundary
  <2>2. ~ cap_gdn_capture_boundary_raises(T, computed, c, ph)
    BY <1>1 DEF cap_gdn_capture_boundary_raises
  <2>3. c2 = c /\ ph2 = ph
    BY <2>1
  <2>4. QED
    BY <1>1, <2>2, <2>3
<1>2. CASE Policy = "admission64" /\ T # {}
  <2> DEFINE end == computed + c
             start == end - ph
             B == {end} \cup {Len(k) * BlockSize : k \in {t \in T : start < Len(t) * BlockSize}}
             capped == Min(B)
  <2>1. cap_gdn_capture_boundary(T, computed, c, ph) = <<capped - computed, capped - start>>
    BY <1>2 DEF cap_gdn_capture_boundary, cap_prefill_end_at_capture_boundary
  <2>2. \A k \in T : Len(k) * BlockSize \in Nat
    BY KeyFacts
  <2>3. end \in Nat /\ start \in Nat /\ start < end /\ computed <= start /\ start = computed + (c - ph)
    OBVIOUS
  <2>4. B \subseteq Nat /\ B # {} /\ end \in B
    BY <2>2, <2>3
  <2>5. \A b \in B : b = end \/ \E k \in T : b = Len(k) * BlockSize /\ start < Len(k) * BlockSize
    OBVIOUS
  <2>6. \A k \in T : start < Len(k) * BlockSize => Len(k) * BlockSize \in B
    OBVIOUS
  <2> HIDE DEF B
  <2>7. capped \in B /\ \A b \in B : capped <= b
    BY <2>4, MinFacts
  <2> HIDE DEF capped
  <2>8. capped \in Nat /\ capped <= end /\ start < capped
    BY <2>2, <2>3, <2>4, <2>5, <2>7
  <2>9. \A k \in T : ~ (start < Len(k) * BlockSize /\ Len(k) * BlockSize < capped)
    BY <2>2, <2>6, <2>7, <2>8
  <2>10. c2 = capped - computed /\ ph2 = capped - start
    BY <2>1
  <2>11. computed + c2 = capped /\ computed + (c - ph) = start
    BY <2>3, <2>8, <2>10
  <2>12. c2 \in Nat \ {0} /\ c2 <= c /\ ph2 \in Nat \ {0} /\ ph2 <= ph /\ c2 - ph2 = c - ph
    BY <2>3, <2>8, <2>10
  <2>13. c2 # c => \E k \in T : computed + c2 = Len(k) * BlockSize
    <3>1. c2 # c => capped # end
      BY <2>3, <2>8, <2>10
    <3>2. QED
      BY <2>5, <2>7, <2>11, <3>1
  <2>14. ~ cap_gdn_capture_boundary_raises(T, computed, c, ph)
    BY <2>12 DEF cap_gdn_capture_boundary_raises
  <2> HIDE DEF start, end
  <2>15. QED
    BY <1>2, <2>9, <2>11, <2>12, <2>13, <2>14
<1>3. QED
  BY <1>1, <1>2

\* A prompt that restores k and captures T starts with the plan, a pair.
NewPlanOK(p, k, T, plan, context) ==
    /\ T \subseteq prefixes(p)
    /\ plan[1] \in Nat \ {0} /\ plan[1] <= prompt_len(p)
    /\ plan[2] \in Nat \ {0} /\ num_batched + plan[2] <= TokenBudget
    /\ k # None => k \in prefixes(p) /\ k \in resident /\ Len(k) <= num_live_blocks(p)
    /\ context \in Nat /\ context < plan[1] /\ plan[1] - context <= plan[2]
    /\ Policy = "admission64" =>
         \A t \in T : ~ (context < Len(t) * BlockSize /\ Len(t) * BlockSize < plan[1])

\* Where a restored request starts.
restored_context(k) == IF k = None THEN 0 ELSE Len(k) * BlockSize

\* The first step of the head of the waiting queue.
LEMMA NewPlanFacts ==
    ASSUME mode \in Modes, num_batched \in 0 .. TokenBudget, NEW p \in Prompt,
           get_num_new_tokens(prompt_len(p)) > 0
    PROVE  /\ ~ cap_gdn_capture_boundary_raises(targets_of(p), 0, prefill_plan(p)[1], prefill_plan(p)[2])
           /\ NewPlanOK(p, select_restore(live_keys(p)), targets_of(p),
                        cap_gdn_capture_boundary(targets_of(p), 0, prefill_plan(p)[1], prefill_plan(p)[2]),
                        restored_context(select_restore(live_keys(p))))
<1> PICK k, T, ahead : k = select_restore(live_keys(p)) /\ T = targets_of(p) /\ ahead = prefill_plan(p)
  OBVIOUS
<1> PICK plan, context : /\ plan = cap_gdn_capture_boundary(T, 0, ahead[1], ahead[2])
                         /\ context = restored_context(k)
  OBVIOUS
<1> SUFFICES ~ cap_gdn_capture_boundary_raises(T, 0, ahead[1], ahead[2]) /\ NewPlanOK(p, k, T, plan, context)
  OBVIOUS
<1>0. context = IF k = None THEN 0 ELSE Len(k) * BlockSize
  BY DEF restored_context
<1> USE DEF NewPlanOK
<1> DEFINE len == prompt_len(p)
           nominal == get_num_new_tokens(len)
           rem == remaining_token_budget
<1>1. len \in Nat \ {0} /\ T \subseteq prefixes(p)
  BY PromptFacts, TargetFacts
<1>2. nominal \in Nat \ {0} /\ nominal <= len /\ nominal <= rem /\ rem \in Nat
        /\ rem = TokenBudget - num_batched /\ TokenBudget \in Nat
  BY <1>1, BudgetFacts, GdnAssumption DEF remaining_token_budget
<1>3. k # None => /\ k \in prefixes(p) /\ k \in resident /\ Len(k) * BlockSize < len
                  /\ Len(k) <= num_live_blocks(p)
                  /\ Policy = "admission64" => \A t \in T : Len(k) < Len(t)
  BY RestoreFacts
<1>4. ahead = plan_fast_forward(k, p, nominal, rem)
  BY DEF prefill_plan
<1> HIDE DEF len, nominal, rem
<1>5. PICK c, ph : c = ahead[1] /\ ph = ahead[2]
  OBVIOUS
<1>6. /\ c \in Nat \ {0} /\ ph \in Nat \ {0} /\ ph <= c /\ ph <= rem /\ c <= len
      /\ k = None => c = ph
      /\ k # None => Len(k) * BlockSize < c /\ ph \in {c, c - Len(k) * BlockSize}
  <2>0. mode \in Modes
    OBVIOUS
  <2>1. k \in prefixes(p) \cup {None}
    BY <1>3
  <2>2. k # None => Len(k) * BlockSize < prompt_len(p)
    BY <1>3 DEF len
  <2>3. nominal <= prompt_len(p)
    BY <1>2 DEF len
  <2>4. c = plan_fast_forward(k, p, nominal, rem)[1] /\ ph = plan_fast_forward(k, p, nominal, rem)[2]
    BY <1>4, <1>5
  <2>5. PlanOK(k, p, rem, c, ph)
    BY <1>2, <2>0, <2>1, <2>2, <2>3, <2>4, PlanFacts
  <2>6. QED
    BY <2>5 DEF PlanOK, len
<1>7. plan = cap_gdn_capture_boundary(T, 0, c, ph)
  BY <1>5
<1>8. PICK c2, ph2 : c2 = plan[1] /\ ph2 = plan[2]
  OBVIOUS
<1>9. /\ ~ cap_gdn_capture_boundary_raises(T, 0, c, ph)
      /\ c2 \in Nat \ {0} /\ c2 <= c /\ ph2 \in Nat \ {0} /\ ph2 <= ph /\ c2 - ph2 = c - ph
      /\ c2 # c => Policy = "admission64" /\ \E t \in T : 0 + c2 = Len(t) * BlockSize
      /\ Policy = "admission64" =>
           \A t \in T : ~ (0 + (c - ph) < Len(t) * BlockSize /\ Len(t) * BlockSize < 0 + c2)
  <2>1. 0 \in Nat /\ mode \in Modes
    OBVIOUS
  <2>2. ~ cap_gdn_capture_boundary_raises(T, 0, c, ph) /\ CapOK(T, 0, c, ph, c2, ph2)
    BY <1>1, <1>6, <1>7, <1>8, <2>1, CapFacts
  <2>3. QED
    BY <2>2 DEF CapOK
<1>10. context \in Nat /\ context < c /\ c - ph <= context
  <2>1. CASE k = None
    BY <1>0, <1>6, <2>1
  <2>2. CASE k # None
    <3>1. Len(k) * BlockSize \in Nat
      BY <1>3, <2>2, KeyFacts
    <3>2. QED
      BY <1>0, <1>6, <2>2, <3>1
  <2>3. QED
    BY <2>1, <2>2
<1>11. \A t \in T : Len(t) * BlockSize \in Nat
  BY <1>1, KeyFacts
<1>12. context < c2
  <2>1. CASE c2 = c
    BY <1>10, <2>1
  <2>2. CASE c2 # c
    <3>1. PICK t \in T : 0 + c2 = Len(t) * BlockSize
      BY <1>9, <2>2
    <3>2. c2 = Len(t) * BlockSize
      BY <1>9, <3>1
    <3>3. CASE k = None
      BY <1>0, <1>9, <3>3
    <3>4. CASE k # None
      <4>1. Len(k) < Len(t)
        BY <1>3, <1>9, <2>2, <3>4
      <4>2. Len(k) \in Nat /\ Len(t) \in Nat /\ BlockSize \in Nat \ {0}
        BY <1>1, <1>3, <3>4, KeyFacts, PromptFacts, GdnAssumption
      <4>3. Len(k) * BlockSize + BlockSize <= Len(t) * BlockSize
        BY <4>1, <4>2, Scale
      <4>4. Len(k) * BlockSize \in Int
        BY <4>2
      <4>5. QED
        BY <1>0, <1>9, <3>2, <3>4, <4>2, <4>3, <4>4
    <3>5. QED
      BY <3>3, <3>4
  <2>3. QED
    BY <2>1, <2>2
<1>13. ASSUME Policy = "admission64", NEW t \in T
       PROVE  ~ (context < Len(t) * BlockSize /\ Len(t) * BlockSize < c2)
  <2> DEFINE b == Len(t) * BlockSize
  <2>1. b \in Nat /\ ~ (0 + (c - ph) < b /\ b < 0 + c2)
    BY <1>9, <1>11, <1>13
  <2> HIDE DEF b
  <2>2. ~ (context < b /\ b < c2)
    BY <1>6, <1>9, <1>10, <2>1
  <2>3. QED
    BY <2>2 DEF b
<1>14. c2 - context <= ph2
  BY <1>6, <1>9, <1>10
<1>15. c2 <= len /\ num_batched + ph2 <= TokenBudget
  BY <1>1, <1>2, <1>6, <1>9
<1>16. QED
  BY <1>1, <1>3, <1>5, <1>8, <1>9, <1>10, <1>12, <1>13, <1>14, <1>15 DEF len

\* A running request whose need gets nominal tokens takes a step of these tokens.
RunningPlanOK(r, nominal, tokens) ==
    /\ tokens \in Nat /\ num_batched + tokens <= TokenBudget
    /\ num_batched = 0 => tokens > 0
    /\ ~ IsPrefill(r) => num_computed[r] = prompt_len(prompt[r]) /\ tokens <= 1
    /\ IsPrefill(r) /\ nominal > 0 =>
         ~ cap_gdn_capture_boundary_raises(capture_targets[r], num_computed[r], nominal, nominal)
    /\ IsPrefill(r) /\ tokens > 0 =>
         /\ num_computed[r] + tokens <= prompt_len(prompt[r])
         /\ Policy = "admission64" =>
              \A k \in capture_targets[r] :
                 ~ (/\ num_computed[r] < Len(k) * BlockSize
                    /\ Len(k) * BlockSize < num_computed[r] + tokens)

\* The next step of the head of the running queue.
LEMMA RunningPlanFacts ==
    ASSUME mode \in Modes, num_batched \in 0 .. TokenBudget, NEW r \in Request,
           prompt[r] \in Prompt, num_computed[r] \in 1 .. prompt_len(prompt[r]),
           capture_targets[r] \subseteq prefixes(prompt[r])
    PROVE  RunningPlanOK(r, get_num_new_tokens(running_need(r)), running_tokens(r))
<1> PICK nominal, tokens : nominal = get_num_new_tokens(running_need(r)) /\ tokens = running_tokens(r)
  OBVIOUS
<1> SUFFICES RunningPlanOK(r, nominal, tokens)
  OBVIOUS
<1> USE DEF RunningPlanOK
<1> DEFINE p == prompt[r]
           len == prompt_len(p)
           n == num_computed[r]
           T == capture_targets[r]
           rem == remaining_token_budget
<1>1. len \in Nat \ {0} /\ n \in 1 .. len /\ TokenBudget \in Nat
  BY PromptFacts, GdnAssumption
<1>2. IsPrefill(r) <=> n < len
  BY DEF IsPrefill
<1>3. running_need(r) = IF n < len THEN len - n ELSE 1
  BY DEF running_need, IsPrefill
<1>4. tokens = IF nominal > 0 /\ n < len
               THEN cap_gdn_capture_boundary(T, n, nominal, nominal)[1] ELSE nominal
  BY DEF running_tokens, IsPrefill
<1>5. T \subseteq prefixes(p) /\ p \in Prompt /\ rem = TokenBudget - num_batched
  BY DEF remaining_token_budget
<1> HIDE DEF len, n, T, p, rem
<1>6. running_need(r) \in Nat /\ running_need(r) > 0 /\ (n < len => running_need(r) = len - n)
        /\ (~ (n < len) => running_need(r) = 1 /\ n = len)
  BY <1>1, <1>3
<1>7. nominal \in Nat /\ nominal <= running_need(r) /\ nominal <= rem /\ rem \in Nat
        /\ (num_batched = 0 => nominal > 0)
  BY <1>6, BudgetFacts DEF rem
<1>8. CASE nominal > 0 /\ n < len
  <2>1. PICK c2, ph2 : c2 = cap_gdn_capture_boundary(T, n, nominal, nominal)[1]
                       /\ ph2 = cap_gdn_capture_boundary(T, n, nominal, nominal)[2]
    OBVIOUS
  <2>2. /\ ~ cap_gdn_capture_boundary_raises(T, n, nominal, nominal)
        /\ c2 \in Nat \ {0} /\ c2 <= nominal
        /\ Policy = "admission64" =>
             \A k \in T : ~ (/\ n + (nominal - nominal) < Len(k) * BlockSize
                             /\ Len(k) * BlockSize < n + c2)
    <3>1. nominal \in Nat \ {0} /\ n \in Nat /\ nominal <= nominal
      BY <1>1, <1>7, <1>8
    <3>2. ~ cap_gdn_capture_boundary_raises(T, n, nominal, nominal) /\ CapOK(T, n, nominal, nominal, c2, ph2)
      BY <1>5, <2>1, <3>1, CapFacts
    <3>3. QED
      BY <3>2 DEF CapOK
  <2>3. tokens = c2 /\ n + (nominal - nominal) = n
    BY <1>1, <1>4, <1>7, <1>8, <2>1
  <2>4. n + c2 <= len /\ num_batched + c2 <= TokenBudget
    BY <1>1, <1>5, <1>6, <1>7, <1>8, <2>2
  <2>5. QED
    BY <1>2, <1>8, <2>2, <2>3, <2>4 DEF n, T, len, p
<1>9. CASE ~ (nominal > 0 /\ n < len)
  <2>1. tokens = nominal /\ num_batched + tokens <= TokenBudget
    BY <1>1, <1>4, <1>5, <1>7, <1>9
  <2>2. IsPrefill(r) => nominal = 0
    BY <1>2, <1>7, <1>9
  <2>3. ~ IsPrefill(r) => n = len /\ tokens <= 1
    BY <1>2, <1>6, <1>7, <2>1
  <2>4. QED
    BY <1>7, <2>1, <2>2, <2>3 DEF n, len, p
<1>10. QED
  BY <1>8, <1>9

----------------------------------------------------------------------------
(* The index *)

\* The order is one of the keys of the index, and every non-empty part of the
\* index has an oldest key.
LruOK(s) ==
    /\ s.resident \subseteq Key /\ s.lru \subseteq s.resident \X s.resident
    /\ \A j, k \in s.resident : <<j, k>> \in s.lru => <<k, j>> \notin s.lru
    /\ \A T \in SUBSET s.resident : T # {} => \E k \in T : \A j \in T \ {k} : <<k, j>> \in s.lru

\* Every other key of the index is older than k.
Newest(s, k) == \A j \in s.resident \ {k} : <<j, k>> \in s.lru

LEMMA MoveFacts ==
    ASSUME NEW s, LruOK(s), NEW k \in Key
    PROVE  /\ LruOK(move_to_end(s, k)) /\ Newest(move_to_end(s, k), k)
           /\ move_to_end(s, k).resident = s.resident \cup {k}
<1> DEFINE R == s.resident \cup {k}
           L == {e \in s.lru : e[1] # k /\ e[2] # k} \cup {<<j, k>> : j \in s.resident \ {k}}
<1>1. move_to_end(s, k).resident = R /\ move_to_end(s, k).lru = L
  BY DEF move_to_end
<1>2. R \subseteq Key
  BY DEF LruOK
<1>3. ASSUME NEW e \in L PROVE e \in R \X R
  <2>1. CASE e \in s.lru
    <3>1. e \in s.resident \X s.resident
      BY <2>1 DEF LruOK
    <3>2. QED
      BY <3>1
  <2>2. CASE e \in {<<j, k>> : j \in s.resident \ {k}}
    BY <2>2
  <2>3. QED
    BY <1>3, <2>1, <2>2
<1>4. ASSUME NEW i \in R, NEW j \in R
      PROVE  <<i, j>> \in L <=> \/ i # k /\ j # k /\ <<i, j>> \in s.lru
                                \/ j = k /\ i # k
  <2>1. <<i, j>> \in {<<x, k>> : x \in s.resident \ {k}} <=> j = k /\ i # k
    BY <1>4
  <2>2. QED
    BY <2>1
<1>5. \A i, j \in R : <<i, j>> \in L => <<j, i>> \notin L
  <2> SUFFICES ASSUME NEW i \in R, NEW j \in R, <<i, j>> \in L, <<j, i>> \in L PROVE FALSE
    OBVIOUS
  <2>1. i # k /\ j # k /\ <<i, j>> \in s.lru /\ <<j, i>> \in s.lru
    <3> HIDE DEF L
    <3> QED
      BY <1>4
  <2>2. i \in s.resident /\ j \in s.resident
    BY <2>1
  <2>3. QED
    BY <2>1, <2>2 DEF LruOK
<1> HIDE DEF L
<1>6. ASSUME NEW T \in SUBSET R, T # {}
      PROVE  \E m \in T : \A j \in T \ {m} : <<m, j>> \in L
  <2>1. CASE T = {k}
    BY <2>1
  <2>2. CASE T # {k}
    <3> DEFINE U == T \ {k}
    <3>1. U \in SUBSET s.resident /\ U # {}
      BY <1>6, <2>2
    <3>2. PICK m \in U : \A j \in U \ {m} : <<m, j>> \in s.lru
      BY <3>1 DEF LruOK
    <3>3. ASSUME NEW j \in T \ {m} PROVE <<m, j>> \in L
      <4>1. m \in R /\ j \in R /\ m # k
        BY <1>6, <3>2
      <4>2. CASE j = k
        BY <1>4, <4>1, <4>2
      <4>3. CASE j # k
        <5>1. j \in U \ {m}
          BY <4>3
        <5>2. QED
          BY <1>4, <3>2, <4>1, <4>3, <5>1
      <4>4. QED
        BY <4>2, <4>3
    <3>4. QED
      BY <3>2, <3>3
  <2>3. QED
    BY <2>1, <2>2
<1>7. \A j \in R \ {k} : <<j, k>> \in L
  BY <1>4
<1> HIDE DEF R
<1>8. QED
  BY <1>1, <1>2, <1>3, <1>5, <1>6, <1>7 DEF LruOK, Newest, R

LEMMA OldestFacts ==
    ASSUME NEW s, LruOK(s), s.resident # {}
    PROVE  oldest(s) \in s.resident /\ \A j \in s.resident \ {oldest(s)} : <<oldest(s), j>> \in s.lru
<1>1. \E k \in s.resident : \A j \in s.resident \ {k} : <<k, j>> \in s.lru
  BY DEF LruOK
<1>2. QED
  BY <1>1 DEF oldest

LEMMA PopFacts ==
    ASSUME NEW s, LruOK(s)
    PROVE  LruOK(popitem(s)) /\ popitem(s).resident = s.resident \ {oldest(s)}
<1> PICK o : o = oldest(s)
  OBVIOUS
<1> DEFINE R == s.resident \ {o}
           L == {e \in s.lru : e[1] # o /\ e[2] # o}
<1>1. popitem(s).resident = R /\ popitem(s).lru = L
  BY DEF popitem
<1>2. R \subseteq Key
  BY DEF LruOK
<1>3. ASSUME NEW e \in L PROVE e \in R \X R
  <2>1. e \in s.resident \X s.resident /\ e[1] # o /\ e[2] # o
    BY <1>3 DEF LruOK
  <2>2. QED
    BY <2>1
<1>4. \A i, j \in R : <<i, j>> \in L <=> <<i, j>> \in s.lru
  OBVIOUS
<1> HIDE DEF L
<1>5. \A i, j \in R : <<i, j>> \in L => <<j, i>> \notin L
  BY <1>4 DEF LruOK
<1>6. ASSUME NEW T \in SUBSET R, T # {}
      PROVE  \E m \in T : \A j \in T \ {m} : <<m, j>> \in L
  <2>1. T \in SUBSET s.resident
    BY <1>6
  <2>2. PICK m \in T : \A j \in T \ {m} : <<m, j>> \in s.lru
    BY <1>6, <2>1 DEF LruOK
  <2>3. \A j \in T : j \in R
    BY <1>6
  <2>4. QED
    BY <1>4, <2>2, <2>3
<1>7. QED
  BY <1>1, <1>2, <1>3, <1>5, <1>6 DEF LruOK

\* Admitting a key keeps it, adds no other, and with room for two does not give
\* up the key used last before it.
LEMMA AdmitKeyFacts ==
    ASSUME NEW s, LruOK(s), NEW k \in Key
    PROVE  /\ LruOK(admit_key(s, k))
           /\ k \in admit_key(s, k).resident /\ admit_key(s, k).resident \subseteq s.resident \cup {k}
           /\ GdnCapacity >= 2 =>
                \A j \in s.resident : Newest(s, j) => j \in admit_key(s, k).resident
<1> PICK a : a = move_to_end(s, k)
  OBVIOUS
<1>1. LruOK(a) /\ Newest(a, k) /\ a.resident = s.resident \cup {k}
  BY MoveFacts
<1>2. admit_key(s, k) = IF Cardinality(a.resident) > GdnCapacity THEN popitem(a) ELSE a
  BY DEF admit_key
<1>3. CASE ~ (Cardinality(a.resident) > GdnCapacity)
  BY <1>1, <1>2, <1>3
<1>4. CASE Cardinality(a.resident) > GdnCapacity
  <2> PICK o : o = oldest(a)
    OBVIOUS
  <2>1. LruOK(popitem(a)) /\ popitem(a).resident = a.resident \ {o}
    BY <1>1, PopFacts
  <2>2. o \in a.resident /\ \A j \in a.resident \ {o} : <<o, j>> \in a.lru
    BY <1>1, OldestFacts
  <2>3. GdnCapacity \in Nat \ {0}
    BY GdnAssumption
  <2>4. o # k
    <3> SUFFICES ASSUME o = k PROVE FALSE
      OBVIOUS
    <3>1. Cardinality({k}) = 1
      BY FS_Singleton
    <3>2. PICK j \in a.resident : j # k
      BY <1>4, <2>2, <2>3, <3>1
    <3>3. <<k, j>> \in a.lru /\ <<j, k>> \in a.lru
      BY <1>1, <2>2, <3>2 DEF Newest
    <3>4. QED
      BY <1>1, <2>2, <3>2, <3>3 DEF LruOK
  <2>5. ASSUME GdnCapacity >= 2, NEW j \in s.resident, Newest(s, j) PROVE j # o
    <3> SUFFICES ASSUME j = o PROVE FALSE
      OBVIOUS
    <3>1. j # k
      BY <2>4
    <3>2. Cardinality({j, k}) = 2
      <4>1. IsFiniteSet({k}) /\ Cardinality({k}) = 1 /\ j \notin {k} /\ {k} \cup {j} = {j, k}
        BY <3>1, FS_Singleton
      <4>2. Cardinality({k} \cup {j}) = Cardinality({k}) + 1
        BY <4>1, FS_AddElement
      <4>3. QED
        BY <4>1, <4>2
    <3>3. PICK i \in a.resident : i # j /\ i # k
      <4>1. a.resident # {j, k}
        BY <1>4, <2>3, <2>5, <3>2
      <4>2. j \in a.resident /\ k \in a.resident
        BY <1>1, <2>5
      <4>3. QED
        BY <4>1, <4>2
    <3>4. <<i, j>> \in s.lru
      BY <1>1, <2>5, <3>3 DEF Newest
    <3>5. <<i, j>> \in a.lru
      BY <3>1, <3>3, <3>4 DEF move_to_end
    <3>6. <<j, i>> \in a.lru
      BY <2>2, <3>3
    <3>7. QED
      BY <1>1, <2>2, <3>3, <3>5, <3>6 DEF LruOK
  <2>6. QED
    BY <1>1, <1>2, <1>4, <2>1, <2>4, <2>5
<1>5. QED
  BY <1>3, <1>4

\* Admitting nothing, and admitting one key.
LEMMA AdmitFacts ==
    /\ \A s : admit(s, {}) = s
    /\ \A s : \A k \in Key : admit(s, {k}) = admit_key(s, k)
<1>1. ASSUME NEW s PROVE admit(s, {}) = s
  <2> DEFINE F(ks, g) == IF ks = {} THEN s ELSE admit_key(g[ks \ {longest(ks)}], longest(ks))
             f == CHOOSE g : g = [ks \in SUBSET {} |-> F(ks, g)]
             h == [ks \in SUBSET {} |-> s]
  <2>1. h = [ks \in SUBSET {} |-> F(ks, h)]
    OBVIOUS
  <2>2. f = [ks \in SUBSET {} |-> F(ks, f)]
    <3> HIDE DEF h, F
    <3> QED
      BY <2>1
  <2>3. admit(s, {}) = f[{}]
    BY DEF admit
  <2> HIDE DEF f
  <2>4. QED
    BY <2>2, <2>3
<1>2. ASSUME NEW s, NEW k \in Key PROVE admit(s, {k}) = admit_key(s, k)
  <2> DEFINE F(ks, g) == IF ks = {} THEN s ELSE admit_key(g[ks \ {longest(ks)}], longest(ks))
             f == CHOOSE g : g = [ks \in SUBSET {k} |-> F(ks, g)]
             h == [ks \in SUBSET {k} |-> IF ks = {} THEN s ELSE admit_key(s, k)]
  <2>1. longest({k}) = k
    <3>1. Len(k) \in Nat
      BY KeyFacts
    <3>2. QED
      BY <3>1 DEF longest
  <2>2. \A ks \in SUBSET {k} : ks = {} \/ ks = {k}
    OBVIOUS
  <2>3. h[{}] = s /\ {} \in SUBSET {k} /\ {k} \in SUBSET {k} /\ {k} # {} /\ {k} \ {k} = {}
    OBVIOUS
  <2>4. \A ks \in SUBSET {k} : (IF ks = {} THEN s ELSE admit_key(s, k)) = F(ks, h)
    <3> HIDE DEF h
    <3> QED
      BY <2>1, <2>2, <2>3
  <2>5. h = [ks \in SUBSET {k} |-> F(ks, h)]
    <3>1. h = [ks \in SUBSET {k} |-> IF ks = {} THEN s ELSE admit_key(s, k)]
      OBVIOUS
    <3> HIDE DEF h, F
    <3>2. QED
      BY <2>4, <3>1
  <2>6. f = [ks \in SUBSET {k} |-> F(ks, f)]
    <3> HIDE DEF h, F
    <3> QED
      BY <2>5
  <2>7. admit(s, {k}) = f[{k}]
    BY DEF admit
  <2> HIDE DEF f
  <2>8. f[{}] = s
    BY <2>3, <2>6
  <2>9. f[{k}] = admit_key(f[{k} \ {longest({k})}], longest({k}))
    BY <2>3, <2>6
  <2>10. QED
    BY <2>1, <2>3, <2>7, <2>8, <2>9
<1>3. QED
  BY <1>1, <1>2

----------------------------------------------------------------------------
(* The inductive invariant *)

\* A request under way: some of its prompt is computed, and its targets are
\* prefixes of its prompt.
RequestOK(r) ==
    /\ prompt[r] # None
    /\ num_computed[r] \in 1 .. prompt_len(prompt[r])
    /\ capture_targets[r] \subseteq prefixes(prompt[r])

\* Under admission64 no boundary of a target lies inside a forward pass.
Uncut(r, from, to) ==
    Policy = "admission64" =>
        \A k \in capture_targets[r] : ~ (from < Len(k) * BlockSize /\ Len(k) * BlockSize < to)

\* The prefix a request restores ends inside its first step, and its blocks are cached.
RestoreOK(r, end) ==
    restore_keys[r] # None =>
        /\ restore_keys[r] \in prefixes(prompt[r])
        /\ Len(restore_keys[r]) * BlockSize < end
        /\ Len(restore_keys[r]) <= num_live_blocks(prompt[r])

NewOK(g) ==
    /\ num_computed[g.req] = 0 /\ g.chunk <= prompt_len(prompt[g.req])
    /\ capture_targets[g.req] \subseteq prefixes(prompt[g.req])
    /\ RestoreOK(g.req, g.chunk)
    /\ Uncut(g.req, physical_context(g.req), g.chunk)

\* A scheduled group whose metadata is still to be built.
GroupOK(g) ==
    /\ prompt[g.req] # None
    /\ g.kind = "decode" =>
         RequestOK(g.req) /\ num_computed[g.req] = prompt_len(prompt[g.req]) /\ g.chunk = 1
    /\ g.kind = "prefill" =>
         /\ RequestOK(g.req) /\ num_computed[g.req] + g.chunk <= prompt_len(prompt[g.req])
         /\ Uncut(g.req, num_computed[g.req], num_computed[g.req] + g.chunk)
    /\ g.kind = "new" => NewOK(g)
    /\ g.kind = "preempted" => num_computed[g.req] = 0

Rest == {batch[i] : i \in Len(metadata) + 1 .. Len(batch)}

\* The metadata of a prefill: where its forward pass starts and ends, what it
\* restores, captures and cuts.
PromptMetaOK(m) ==
    /\ m.end \in num_computed[m.req] + 1 .. prompt_len(prompt[m.req])
    /\ m.context < m.end
    /\ m.restore = None => m.context = num_computed[m.req]
    /\ m.restore # None => /\ num_computed[m.req] = 0
                           /\ m.restore \in prefixes(prompt[m.req])
                           /\ m.context = Len(m.restore) * BlockSize
    /\ m.capture \subseteq prefixes(prompt[m.req])
    /\ \A j, k \in m.capture : j = k
    /\ \A k \in m.capture : m.context < Len(k) * BlockSize /\ Len(k) * BlockSize <= m.end
    /\ Policy = "admission64" => \A k \in m.capture : Len(k) * BlockSize = m.end
    /\ m.segments \subseteq 1 .. m.end - m.context - 1

MetaOK(m) ==
    /\ prompt[m.req] # None
    /\ capture_targets[m.req] \subseteq prefixes(prompt[m.req])
    /\ m.is_prompt => PromptMetaOK(m)
    /\ ~ m.is_prompt => /\ num_computed[m.req] = prompt_len(prompt[m.req])
                        /\ m.restore = None /\ m.capture = {} /\ m.evict = {}

Scheduling == phase \in {"schedule", "prefill"}
Sending == phase \in {"metadata", "execute"}
InBatch(r) == \E g \in ToSet(batch) : g.req = r

\* A request is in one queue, and the queues tell how far it is.
QueueInv ==
    /\ IsInjective(waiting) /\ IsInjective(running)
    /\ ToSet(waiting) \cap ToSet(running) = {}
    /\ \A r \in ToSet(waiting) : prompt[r] # None /\ num_computed[r] = 0
    /\ \A r \in ToSet(running) : RequestOK(r) \/ (Sending /\ InBatch(r))
    /\ \A r \in Request : prompt[r] = None => num_computed[r] = 0

\* A request has one group in the batch, and leaves its queue for it.
BatchInv ==
    /\ phase # "idle" =>
         /\ IsInjective(batch)
         /\ \A g, h \in ToSet(batch) : g.req = h.req => g = h
         /\ \A g \in Rest : GroupOK(g)
    /\ ~ Sending => metadata = <<>>
    /\ Scheduling => \A g \in ToSet(batch) : g.req \notin ToSet(waiting) \cup ToSet(running)
    /\ Sending =>
         /\ \A g \in ToSet(batch) : g.req \in ToSet(running) /\ g.kind # "preempted"
         /\ Len(metadata) <= Len(batch)
         /\ \A i \in DOMAIN metadata : metadata[i].req = batch[i].req /\ MetaOK(metadata[i])
    /\ phase = "metadata" => Len(metadata) < Len(batch)
    /\ phase = "execute" => Len(metadata) = Len(batch)

Cost(g) ==
    IF g.kind = "new" THEN g.chunk - physical_context(g.req)
    ELSE IF g.kind = "preempted" THEN 0 ELSE g.chunk
Query(m) == IF m.is_prompt THEN query_len(m) ELSE 1

\* The queries of the metadata built so far and what the rest of the batch will
\* ask for are within what the scheduler counted.
BudgetInv ==
    phase # "idle" =>
        SumFunctionOnSet([i \in DOMAIN metadata |-> Query(metadata[i])], DOMAIN metadata)
            + SumFunctionOnSet([g \in Rest |-> Cost(g)], Rest) <= num_batched

\* The worker's states are those of the index, the captures and evictions under
\* way apart.
Saved == {k \in Key : saved[k] # None}
PendingInv ==
    /\ prompts_in_batch = {} => resident = Saved
    /\ \A i \in DOMAIN metadata : prompts_in_batch = {i} =>
         /\ resident = (Saved \ metadata[i].evict) \cup metadata[i].capture
         /\ metadata[i].capture \cap metadata[i].evict = {}

IndexInv == LruOK(policy) /\ PendingInv

GdnInv == TypeOK /\ QueueInv /\ BatchInv /\ BudgetInv /\ IndexInv

\* What a group needs of the state stays as long as nothing about its request does not.
LEMMA GroupFrame ==
    ASSUME NEW g,
           prompt'[g.req] = prompt[g.req], num_computed'[g.req] = num_computed[g.req],
           capture_targets'[g.req] = capture_targets[g.req],
           restore_keys'[g.req] = restore_keys[g.req], kv' = kv, mode' = mode
    PROVE  /\ GroupOK(g) => GroupOK(g)'
           /\ Cost(g)' = Cost(g)
           /\ RequestOK(g.req) => RequestOK(g.req)'
<1> DEFINE r == g.req
<1>1. physical_context(r)' = physical_context(r)
  BY DEF physical_context
<1>2. num_live_blocks(prompt[r])' = num_live_blocks(prompt[r])
  BY DEF num_live_blocks
<1>3. \A a, b : Uncut(r, a, b)' <=> Uncut(r, a, b)
  BY DEF Uncut, Policy
<1>4. RequestOK(r)' <=> RequestOK(r)
  BY DEF RequestOK
<1>5. RestoreOK(r, g.chunk)' <=> RestoreOK(r, g.chunk)
  BY <1>2 DEF RestoreOK
<1>6. NewOK(g)' <=> NewOK(g)
  BY <1>1, <1>3, <1>5 DEF NewOK
<1>7. Cost(g)' = Cost(g)
  BY <1>1 DEF Cost
<1>8. QED
  BY <1>3, <1>4, <1>6, <1>7 DEF GroupOK

LEMMA MetaFrame ==
    ASSUME NEW m,
           prompt'[m.req] = prompt[m.req], num_computed'[m.req] = num_computed[m.req],
           capture_targets'[m.req] = capture_targets[m.req], mode' = mode, MetaOK(m)
    PROVE  MetaOK(m)'
  BY DEF MetaOK, PromptMetaOK, Policy

LEMMA IndexFrame ==
    ASSUME IndexInv, resident' = resident, lru' = lru, saved' = saved, metadata' = metadata
    PROVE  IndexInv'
  BY DEF IndexInv, LruOK, policy, PendingInv, prompts_in_batch, Saved

\* The typed parts of the state that steps look at.
LEMMA TypeFacts ==
    ASSUME TypeOK
    PROVE  /\ mode \in Modes
           /\ \A r \in Request : prompt[r] # None => prompt[r] \in Prompt
           /\ \A r \in Request : num_computed[r] \in Nat
           /\ \A g \in ToSet(batch) : g \in Group
           /\ \A i \in DOMAIN metadata : metadata[i] \in Metadata
           /\ \A r \in ToSet(waiting) \cup ToSet(running) : r \in Request
  BY DEF TypeOK, ToSet

----------------------------------------------------------------------------
(* Between steps *)

LEMMA AddSeqGroupKeeps ==
    ASSUME GdnInv, NEW r \in Request, NEW p \in Prompt, AddSeqGroup(r, p)
    PROVE  GdnInv'
<1> USE DEF AddSeqGroup, stepVars, policyVars, workerVars
<1>1. TypeOK'
  <2>1. waiting' \in Seq(Request)
    BY AppendLaw DEF GdnInv, TypeOK
  <2>2. prompt' \in [Request -> Prompt \cup {None}]
    BY DEF GdnInv, TypeOK
  <2>3. QED
    BY <2>1, <2>2 DEF GdnInv, TypeOK
<1>2. QueueInv'
  <2>1. r \notin ToSet(waiting) /\ r \notin ToSet(running) /\ num_computed[r] = 0 /\ ~ Sending
    BY DEF GdnInv, QueueInv, RequestOK, Sending
  <2>2. IsInjective(waiting') /\ ToSet(waiting') = ToSet(waiting) \cup {r}
    BY <2>1, AppendLaw DEF GdnInv, TypeOK, QueueInv
  <2>3. prompt' \in [Request -> Prompt \cup {None}] /\ prompt'[r] = p /\ p # None
        /\ \A q \in Request \ {r} : prompt'[q] = prompt[q]
    BY PromptFacts DEF GdnInv, TypeOK
  <2>4. \A q \in ToSet(running) : RequestOK(q)'
    <3> SUFFICES ASSUME NEW q \in ToSet(running) PROVE RequestOK(q)'
      OBVIOUS
    <3>1. q \in Request /\ q # r /\ RequestOK(q)
      BY <2>1, TypeFacts DEF GdnInv, QueueInv
    <3>2. QED
      BY <2>3, <3>1 DEF RequestOK
  <2>5. \A q \in ToSet(waiting') : prompt'[q] # None /\ num_computed'[q] = 0
    <3> SUFFICES ASSUME NEW q \in ToSet(waiting') PROVE prompt'[q] # None /\ num_computed[q] = 0
      OBVIOUS
    <3>1. CASE q = r
      BY <2>1, <2>3, <3>1
    <3>2. CASE q # r
      BY <2>2, <2>3, <3>2, TypeFacts DEF GdnInv, QueueInv
    <3>3. QED
      BY <3>1, <3>2
  <2>6. \A q \in Request : prompt'[q] = None => num_computed'[q] = 0
    BY <2>1, <2>3 DEF GdnInv, QueueInv
  <2>7. QED
    BY <2>1, <2>2, <2>4, <2>5, <2>6 DEF GdnInv, QueueInv
<1>3. BatchInv' /\ BudgetInv'
  BY DEF GdnInv, BatchInv, BudgetInv, Sending, Scheduling
<1>4. IndexInv'
  BY IndexFrame DEF GdnInv
<1>5. QED
  BY <1>1, <1>2, <1>3, <1>4 DEF GdnInv

\* A request that leaves the engine.
LEMMA RetireKeeps ==
    ASSUME GdnInv, NEW r \in Request, phase = "idle", retire(r),
           waiting' = Without(waiting, r), running' = Without(running, r),
           UNCHANGED <<kv, policyVars, stepVars, saved>>
    PROVE  GdnInv'
<1> USE DEF retire, stepVars, policyVars
<1>1. /\ waiting' \in Seq(Request) /\ ToSet(waiting') = ToSet(waiting) \ {r} /\ IsInjective(waiting')
      /\ running' \in Seq(Request) /\ ToSet(running') = ToSet(running) \ {r} /\ IsInjective(running')
  <2>1. ASSUME NEW s \in Seq(Request), IsInjective(s)
        PROVE  Without(s, r) \in Seq(Request) /\ ToSet(Without(s, r)) = ToSet(s) \ {r}
               /\ IsInjective(Without(s, r))
    <3>1. ToSet(s) \subseteq Request
      BY DEF ToSet
    <3>2. QED
      BY <2>1, <3>1, KeepLaw DEF Without
  <2>2. QED
    BY <2>1 DEF GdnInv, TypeOK, QueueInv
<1>2. /\ \A q \in Request \ {r} : /\ prompt'[q] = prompt[q] /\ num_computed'[q] = num_computed[q]
                                  /\ capture_targets'[q] = capture_targets[q]
      /\ prompt'[r] = None /\ num_computed'[r] = 0
  BY DEF GdnInv, TypeOK
<1>3. TypeOK'
  BY <1>1 DEF GdnInv, TypeOK
<1>4. QueueInv'
  <2>1. \A q \in ToSet(running') : RequestOK(q)'
    <3> SUFFICES ASSUME NEW q \in ToSet(running') PROVE RequestOK(q)'
      OBVIOUS
    <3>1. q \in ToSet(running) /\ q # r
      BY <1>1
    <3>2. q \in Request /\ RequestOK(q)
      BY <3>1, TypeFacts DEF GdnInv, QueueInv, Sending
    <3>3. QED
      BY <1>2, <3>1, <3>2 DEF RequestOK
  <2>2. \A q \in ToSet(waiting') : prompt'[q] # None /\ num_computed'[q] = 0
    BY <1>1, <1>2, TypeFacts DEF GdnInv, QueueInv
  <2>3. \A q \in Request : prompt'[q] = None => num_computed'[q] = 0
    BY <1>2 DEF GdnInv, QueueInv
  <2>4. QED
    BY <1>1, <2>1, <2>2, <2>3 DEF GdnInv, QueueInv
<1>5. BatchInv' /\ BudgetInv'
  BY DEF GdnInv, BatchInv, BudgetInv, Sending, Scheduling
<1>6. IndexInv'
  BY IndexFrame DEF GdnInv
<1>7. QED
  BY <1>3, <1>4, <1>5, <1>6 DEF GdnInv

LEMMA FinishKeeps ==
    ASSUME GdnInv, NEW r \in Request, Finish(r)
    PROVE  GdnInv'
<1>1. r \in ToSet(running) /\ phase = "idle"
  BY DEF Finish, ToSet
<1>2. r \notin ToSet(waiting) /\ waiting \in Seq(Request) /\ IsInjective(waiting)
  BY <1>1 DEF GdnInv, QueueInv, TypeOK
<1>3. /\ running' \in Seq(Request) /\ ToSet(running') = ToSet(running) \ {r} /\ IsInjective(running')
      /\ waiting' = waiting
  <2>1. running \in Seq(Request) /\ IsInjective(running) /\ ToSet(running) \subseteq Request
    BY DEF GdnInv, QueueInv, TypeOK, ToSet
  <2>2. QED
    BY <2>1, KeepLaw DEF Finish, Without
<1> USE DEF Finish, retire, stepVars, policyVars
<1>4. /\ \A q \in Request \ {r} : /\ prompt'[q] = prompt[q] /\ num_computed'[q] = num_computed[q]
                                  /\ capture_targets'[q] = capture_targets[q]
      /\ prompt'[r] = None /\ num_computed'[r] = 0
  BY DEF GdnInv, TypeOK
<1>5. TypeOK'
  BY <1>3 DEF GdnInv, TypeOK
<1>6. QueueInv'
  <2>1. \A q \in ToSet(running') : RequestOK(q)'
    <3> SUFFICES ASSUME NEW q \in ToSet(running') PROVE RequestOK(q)'
      OBVIOUS
    <3>1. q \in ToSet(running) /\ q # r
      BY <1>3
    <3>2. q \in Request /\ RequestOK(q)
      BY <1>1, <3>1, TypeFacts DEF GdnInv, QueueInv, Sending
    <3>3. QED
      BY <1>4, <3>1, <3>2 DEF RequestOK
  <2>2. \A q \in ToSet(waiting') : prompt'[q] # None /\ num_computed'[q] = 0
    BY <1>2, <1>3, <1>4, TypeFacts DEF GdnInv, QueueInv
  <2>3. \A q \in Request : prompt'[q] = None => num_computed'[q] = 0
    BY <1>4 DEF GdnInv, QueueInv
  <2>4. QED
    BY <1>2, <1>3, <2>1, <2>2, <2>3 DEF GdnInv, QueueInv
<1>7. BatchInv' /\ BudgetInv'
  BY <1>1 DEF GdnInv, BatchInv, BudgetInv, Sending, Scheduling
<1>8. IndexInv'
  BY IndexFrame DEF GdnInv
<1>9. QED
  BY <1>5, <1>6, <1>7, <1>8 DEF GdnInv

LEMMA EvictKvKeeps ==
    ASSUME GdnInv, NEW k \in Key, EvictKv(k)
    PROVE  GdnInv'
<1> USE DEF EvictKv, schedVars, stepVars, policyVars, workerVars
<1>1. TypeOK'
  BY DEF GdnInv, TypeOK
<1>2. QueueInv'
  BY DEF GdnInv, QueueInv, RequestOK, Sending, InBatch
<1>3. BatchInv' /\ BudgetInv'
  BY DEF GdnInv, BatchInv, BudgetInv, Sending, Scheduling
<1>4. IndexInv'
  BY IndexFrame DEF GdnInv
<1>5. QED
  BY <1>1, <1>2, <1>3, <1>4 DEF GdnInv

\* A step starts with an empty batch.
LEMMA StartStepKeeps ==
    ASSUME GdnInv, StartStep
    PROVE  GdnInv'
<1> USE DEF StartStep, schedVars, policyVars, workerVars
<1>1. metadata = <<>> /\ metadata' = <<>> /\ batch' = <<>>
  BY DEF GdnInv, BatchInv, Sending
<1>2. DOMAIN <<>> = {} /\ ToSet(<<>>) = {} /\ IsInjective(<<>>) /\ Len(<<>>) = 0
  BY DEF ToSet, IsInjective
<1>3. Rest' = {} /\ ToSet(batch)' = {}
  BY <1>1, <1>2 DEF Rest
<1>4. TypeOK'
  BY GdnAssumption DEF GdnInv, TypeOK
<1>5. QueueInv'
  BY DEF GdnInv, QueueInv, RequestOK, Sending, InBatch
<1>6. BatchInv'
  BY <1>1, <1>2, <1>3 DEF BatchInv, Sending, Scheduling
<1>7. BudgetInv'
  <2>1. SumFunctionOnSet([i \in DOMAIN metadata |-> Query(metadata[i])], DOMAIN metadata)' = 0
    BY <1>1, <1>2, SumEmpty
  <2>2. SumFunctionOnSet([g \in Rest |-> Cost(g)], Rest)' = 0
    BY <1>3, SumEmpty
  <2>3. num_batched' = 0
    OBVIOUS
  <2>4. QED
    BY <2>1, <2>2, <2>3 DEF BudgetInv
<1>8. IndexInv'
  BY <1>1, IndexFrame DEF GdnInv
<1>9. QED
  BY <1>4, <1>5, <1>6, <1>7, <1>8 DEF GdnInv

----------------------------------------------------------------------------
(* Scheduling a step *)

LEMMA CostType ==
    ASSUME TypeOK, NEW g \in Group
    PROVE  physical_context(g.req) \in Nat /\ Cost(g) \in Int
<1> DEFINE r == g.req
<1>1. r \in Request /\ g.chunk \in Nat
  BY DEF Group
<1>2. num_computed[r] \in Nat /\ restore_keys[r] \in Key \cup {None}
  BY <1>1 DEF TypeOK
<1>3. restore_keys[r] # None => Len(restore_keys[r]) * BlockSize \in Nat
  <2>1. restore_keys[r] # None => Len(restore_keys[r]) \in Nat
    BY <1>2, KeyFacts
  <2>2. BlockSize \in Nat \ {0}
    BY GdnAssumption
  <2>3. QED
    BY <2>1, <2>2, Scale
<1>4. physical_context(r) \in Nat
  BY <1>2, <1>3 DEF physical_context
<1>5. Cost(g) \in Int
  BY <1>1, <1>4 DEF Cost
<1>6. QED
  BY <1>4, <1>5

\* A group joins the batch.
LEMMA AppendBatch ==
    ASSUME GdnInv, Scheduling, NEW g \in Group, \A h \in ToSet(batch) : h.req # g.req,
           batch' = Append(batch, g), metadata' = metadata
    PROVE  /\ batch' \in Seq(Group) /\ IsInjective(batch')
           /\ Rest = ToSet(batch) /\ ToSet(batch') = ToSet(batch) \cup {g} /\ Rest' = ToSet(batch')
           /\ \A h, i \in ToSet(batch') : h.req = i.req => h = i
           /\ g \notin Rest /\ IsFiniteSet(Rest) /\ metadata = <<>>
<1>1. metadata = <<>> /\ Len(<<>>) = 0 /\ DOMAIN <<>> = {}
  BY DEF GdnInv, BatchInv, Scheduling, Sending
<1>2. batch \in Seq(Group) /\ IsInjective(batch)
  BY DEF GdnInv, BatchInv, Scheduling, TypeOK
<1>3. batch' \in Seq(Group) /\ ToSet(batch') = ToSet(batch) \cup {g}
      /\ (g \notin ToSet(batch) => IsInjective(batch'))
  BY <1>2, AppendLaw
<1>4. g \notin ToSet(batch)
  OBVIOUS
<1>5. ASSUME NEW s \in Seq(Group) PROVE {s[i] : i \in Len(<<>>) + 1 .. Len(s)} = ToSet(s)
  BY <1>1 DEF ToSet
<1>6. Rest = ToSet(batch) /\ Rest' = ToSet(batch')
  BY <1>1, <1>2, <1>3, <1>5 DEF Rest
<1>7. IsFiniteSet(Rest)
  BY <1>2, <1>6, LengthLaw
<1>8. \A h, i \in ToSet(batch') : h.req = i.req => h = i
  BY <1>3 DEF GdnInv, BatchInv, Scheduling
<1>9. QED
  BY <1>1, <1>3, <1>4, <1>6, <1>7, <1>8

\* What the batch asks for after a group has joined it.
LEMMA AppendBudget ==
    ASSUME GdnInv, Scheduling, NEW g \in Group, \A h \in ToSet(batch) : h.req # g.req,
           batch' = Append(batch, g), metadata' = metadata,
           \A h \in ToSet(batch) : Cost(h)' = Cost(h),
           NEW cost \in Int, Cost(g)' = cost, num_batched + cost <= num_batched',
           num_batched' \in Int
    PROVE  BudgetInv'
<1>1. /\ Rest = ToSet(batch) /\ Rest' = Rest \cup {g} /\ g \notin Rest /\ IsFiniteSet(Rest)
      /\ metadata = <<>>
  BY AppendBatch
<1>2. \A h \in Rest : Cost(h) \in Int
  BY <1>1, TypeFacts, CostType DEF GdnInv
<1> DEFINE f == [h \in Rest |-> Cost(h)]
           S == Rest
<1>3. PICK e : e = [h \in Rest' |-> Cost(h)']
  OBVIOUS
<1>4. \A h \in S : e[h] = f[h] /\ f[h] \in Int
  BY <1>1, <1>2, <1>3
<1>5. e[g] = cost
  BY <1>1, <1>3
<1>6. PICK q : q = [i \in DOMAIN metadata |-> Query(metadata[i])]
  OBVIOUS
<1>7. PICK q2 : q2 = [i \in DOMAIN metadata |-> Query(metadata[i])]'
  OBVIOUS
<1>8. DOMAIN metadata = {} /\ DOMAIN metadata' = {}
  BY <1>1
<1>9. SumFunctionOnSet(q, DOMAIN metadata) = 0 /\ SumFunctionOnSet(q2, DOMAIN metadata') = 0
  BY <1>8, SumEmpty
<1>10. SumFunctionOnSet(q, DOMAIN metadata) + SumFunctionOnSet(f, S) <= num_batched
  BY <1>6 DEF GdnInv, BudgetInv, Scheduling
<1> HIDE DEF f, S
<1>11. SumFunctionOnSet(e, S \cup {g}) = e[g] + SumFunctionOnSet(e, S)
  <2>1. IsFiniteSet(S) /\ g \notin S /\ \A h \in S \cup {g} : e[h] \in Int
    BY <1>1, <1>4, <1>5 DEF S
  <2>2. QED
    BY <2>1, SumAdd
<1>12. SumFunctionOnSet(e, S) = SumFunctionOnSet(f, S) /\ SumFunctionOnSet(f, S) \in Int
  <2>1. IsFiniteSet(S)
    BY <1>1 DEF S
  <2>2. QED
    BY <1>4, <2>1, SumSame, SumInt
<1>13. num_batched \in Int
  BY DEF GdnInv, TypeOK
<1>14. SumFunctionOnSet(q2, DOMAIN metadata') + SumFunctionOnSet(e, S \cup {g}) <= num_batched'
  BY <1>5, <1>9, <1>10, <1>11, <1>12, <1>13
<1>15. QED
  BY <1>1, <1>3, <1>7, <1>14 DEF BudgetInv, S

LEMMA ScheduleRunningKeeps ==
    ASSUME GdnInv, ScheduleRunning
    PROVE  GdnInv'
<1> USE DEF ScheduleRunning, policyVars, workerVars
<1>1. PICK r, tokens : r = Head(running) /\ tokens = running_tokens(r)
  OBVIOUS
<1>2. PICK g : g = [req |-> r, chunk |-> tokens, kind |-> IF IsPrefill(r) THEN "prefill" ELSE "decode"]
  OBVIOUS
<1>3. Scheduling /\ ~ Sending /\ tokens > 0 /\ batch' = Append(batch, g) /\ num_batched' = num_batched + tokens
  BY <1>1, <1>2 DEF Scheduling, Sending
<1>4. /\ running' \in Seq(Request) /\ ToSet(running) = ToSet(running') \cup {r}
      /\ IsInjective(running') /\ r \notin ToSet(running') /\ r \in Request
  BY <1>1, HeadLaw DEF GdnInv, TypeOK, QueueInv
<1>5. RequestOK(r) /\ prompt[r] \in Prompt /\ mode \in Modes /\ num_batched \in 0 .. TokenBudget
  BY <1>3, <1>4, TypeFacts DEF GdnInv, QueueInv, RequestOK, TypeOK
<1>6. PICK nominal : nominal = get_num_new_tokens(running_need(r))
  OBVIOUS
<1> RunningPlanOK(r, nominal, tokens)
  BY <1>1, <1>4, <1>5, <1>6, RunningPlanFacts DEF RequestOK
<1>7. /\ tokens \in Nat \ {0} /\ num_batched + tokens <= TokenBudget
      /\ ~ IsPrefill(r) => num_computed[r] = prompt_len(prompt[r]) /\ tokens <= 1
      /\ IsPrefill(r) => /\ num_computed[r] + tokens <= prompt_len(prompt[r])
                         /\ Uncut(r, num_computed[r], num_computed[r] + tokens)
  BY <1>3 DEF RunningPlanOK, Uncut
<1>8. g \in Group /\ g.req = r /\ g.chunk = tokens
      /\ g.kind = IF IsPrefill(r) THEN "prefill" ELSE "decode"
  BY <1>2, <1>4, <1>7 DEF Group
<1>9. \A h \in ToSet(batch) : h.req # r
  BY <1>3, <1>4 DEF GdnInv, BatchInv
<1>10. GroupOK(g)
  <2>1. tokens <= 1 => tokens = 1
    BY <1>7
  <2>2. QED
    BY <1>5, <1>7, <1>8, <2>1 DEF GroupOK, RequestOK
<1>11. ASSUME NEW h PROVE (GroupOK(h) => GroupOK(h)') /\ Cost(h)' = Cost(h)
  BY GroupFrame
<1>12. Cost(g) = tokens
  BY <1>8 DEF Cost
<1>13. /\ batch' \in Seq(Group) /\ IsInjective(batch')
       /\ Rest = ToSet(batch) /\ ToSet(batch') = ToSet(batch) \cup {g} /\ Rest' = ToSet(batch')
       /\ \A h, i \in ToSet(batch') : h.req = i.req => h = i
  BY <1>3, <1>8, <1>9, AppendBatch
<1>14. TypeOK'
  <2>1. TokenBudget \in Nat /\ tokens \in Nat /\ num_batched \in Nat
    BY <1>5, <1>7, GdnAssumption
  <2>2. num_batched + tokens \in 0 .. TokenBudget
    BY <1>7, <2>1
  <2>3. num_batched' \in 0 .. TokenBudget
    BY <1>3, <2>2
  <2>4. QED
    BY <1>4, <1>13, <2>3 DEF GdnInv, TypeOK
<1>15. QueueInv'
  <2>1. \A q \in ToSet(running') : RequestOK(q)'
    BY <1>3, <1>4 DEF GdnInv, QueueInv, RequestOK
  <2>2. QED
    BY <1>4, <2>1 DEF GdnInv, QueueInv
<1>16. BatchInv'
  <2>1. \A h \in Rest' : GroupOK(h)'
    BY <1>3, <1>10, <1>11, <1>13 DEF GdnInv, BatchInv, Scheduling
  <2>2. \A h \in ToSet(batch') : h.req \notin ToSet(waiting) \cup ToSet(running')
    BY <1>3, <1>4, <1>8, <1>13 DEF GdnInv, BatchInv, QueueInv
  <2>3. QED
    BY <1>3, <1>13, <2>1, <2>2 DEF GdnInv, BatchInv, Sending, Scheduling
<1>17. BudgetInv'
  <2>1. tokens \in Int /\ Cost(g)' = tokens /\ num_batched' \in Int /\ num_batched + tokens <= num_batched'
    BY <1>3, <1>5, <1>7, <1>11, <1>12, GdnAssumption
  <2>2. metadata' = metadata /\ \A h \in ToSet(batch) : Cost(h)' = Cost(h) /\ h.req # g.req
    BY <1>8, <1>9, <1>11
  <2>3. QED
    BY <1>3, <1>8, <2>1, <2>2, AppendBudget
<1>18. IndexInv'
  BY IndexFrame DEF GdnInv
<1>19. QED
  BY <1>14, <1>15, <1>16, <1>17, <1>18 DEF GdnInv

LEMMA EndRunningKeeps ==
    ASSUME GdnInv, EndRunning
    PROVE  GdnInv'
<1> USE DEF EndRunning, schedVars, policyVars, workerVars
<1>1. Scheduling /\ Scheduling' /\ ~ Sending /\ ~ Sending' /\ Rest' = Rest
  BY DEF Scheduling, Sending, Rest
<1>2. TypeOK'
  BY DEF GdnInv, TypeOK
<1>3. QueueInv'
  BY <1>1 DEF GdnInv, QueueInv, RequestOK
<1>4. \A g : (GroupOK(g) => GroupOK(g)') /\ Cost(g)' = Cost(g)
  BY GroupFrame
<1>5. BatchInv'
  BY <1>1, <1>4 DEF GdnInv, BatchInv
<1>6. BudgetInv'
  <2>1. [g \in Rest |-> Cost(g)]' = [g \in Rest |-> Cost(g)]
    BY <1>1, <1>4
  <2>2. [i \in DOMAIN metadata |-> Query(metadata[i])]' = [i \in DOMAIN metadata |-> Query(metadata[i])]
    BY DEF Query, query_len, worker_context
  <2>3. QED
    BY <1>1, <2>1, <2>2 DEF GdnInv, BudgetInv
<1>7. IndexInv'
  BY IndexFrame DEF GdnInv
<1>8. QED
  BY <1>2, <1>3, <1>5, <1>6, <1>7 DEF GdnInv

LEMMA PreemptRunningKeeps ==
    ASSUME GdnInv, PreemptRunning
    PROVE  GdnInv'
<1> USE DEF PreemptRunning, policyVars, workerVars
<1>1. PICK r : r = Last(running)
  OBVIOUS
<1>2. PICK g : g = [req |-> r, chunk |-> 1, kind |-> "preempted"]
  OBVIOUS
<1>3. PICK p \in Prompt : prompt' = [prompt EXCEPT ![r] = p]
  BY <1>1
<1>4. /\ Scheduling /\ ~ Sending /\ Scheduling' /\ ~ Sending'
      /\ batch' = Append(batch, g) /\ metadata' = metadata
      /\ num_computed' = [num_computed EXCEPT ![r] = 0]
  BY <1>1, <1>2 DEF Scheduling, Sending
<1>5. /\ running' \in Seq(Request) /\ ToSet(running) = ToSet(running') \cup {r}
      /\ IsInjective(running') /\ r \notin ToSet(running') /\ r \in Request
  BY <1>1, LastLaw DEF GdnInv, TypeOK, QueueInv
<1>6. g \in Group /\ g.req = r /\ g.kind = "preempted"
  BY <1>2, <1>5 DEF Group
<1>7. /\ prompt' \in [Request -> Prompt \cup {None}] /\ num_computed' \in [Request -> Nat]
      /\ prompt'[r] = p /\ p # None /\ num_computed'[r] = 0
      /\ \A q \in Request : q # r => prompt'[q] = prompt[q] /\ num_computed'[q] = num_computed[q]
  <2>1. prompt \in [Request -> Prompt \cup {None}] /\ num_computed \in [Request -> Nat]
    BY DEF GdnInv, TypeOK
  <2>2. p # None
    BY PromptFacts
  <2> HIDE DEF PreemptRunning
  <2>3. QED
    BY <1>3, <1>4, <1>5, <2>1, <2>2
<1>8. \A h \in ToSet(batch) : h.req # r
  BY <1>4, <1>5 DEF GdnInv, BatchInv
<1>9. ASSUME NEW h \in Group, h.req # r
      PROVE  (GroupOK(h) => GroupOK(h)') /\ Cost(h)' = Cost(h)
  <2>1. h.req \in Request
    BY DEF Group
  <2>2. QED
    BY <1>7, <1>9, <2>1, GroupFrame
<1>10. /\ batch' \in Seq(Group) /\ IsInjective(batch')
       /\ Rest = ToSet(batch) /\ ToSet(batch') = ToSet(batch) \cup {g} /\ Rest' = ToSet(batch')
       /\ \A h, i \in ToSet(batch') : h.req = i.req => h = i
  BY <1>4, <1>6, <1>8, AppendBatch
<1>11. TypeOK'
  BY <1>5, <1>7, <1>10 DEF GdnInv, TypeOK
<1>12. QueueInv'
  <2>1. \A q \in ToSet(running') : RequestOK(q)'
    <3> SUFFICES ASSUME NEW q \in ToSet(running') PROVE RequestOK(q)'
      OBVIOUS
    <3>1. q \in Request /\ q # r /\ RequestOK(q)
      BY <1>4, <1>5, TypeFacts DEF GdnInv, QueueInv
    <3>2. QED
      BY <1>7, <3>1 DEF RequestOK
  <2>2. r \notin ToSet(waiting)
    BY <1>5 DEF GdnInv, QueueInv
  <2>3. \A q \in ToSet(waiting') : prompt'[q] # None /\ num_computed'[q] = 0
    BY <1>7, <2>2, TypeFacts DEF GdnInv, QueueInv
  <2>4. \A q \in Request : prompt'[q] = None => num_computed'[q] = 0
    BY <1>7 DEF GdnInv, QueueInv
  <2>5. QED
    BY <1>5, <2>1, <2>3, <2>4 DEF GdnInv, QueueInv
<1>13. BatchInv'
  <2>1. GroupOK(g)'
    BY <1>6, <1>7 DEF GroupOK
  <2>2. \A h \in Rest' : GroupOK(h)'
    BY <1>4, <1>8, <1>9, <1>10, <2>1, TypeFacts DEF GdnInv, BatchInv, Scheduling
  <2>3. r \notin ToSet(waiting)
    BY <1>5 DEF GdnInv, QueueInv
  <2>4. \A h \in ToSet(batch') : h.req \notin ToSet(waiting) \cup ToSet(running')
    BY <1>4, <1>5, <1>6, <1>10, <2>3 DEF GdnInv, BatchInv
  <2>5. QED
    BY <1>4, <1>10, <2>2, <2>4 DEF GdnInv, BatchInv, Sending, Scheduling
<1>14. BudgetInv'
  <2>1. Cost(g)' = 0
    BY <1>6 DEF Cost
  <2>2. num_batched \in Int /\ num_batched' = num_batched
    BY DEF GdnInv, TypeOK
  <2>3. num_batched + 0 <= num_batched' /\ num_batched' \in Int /\ 0 \in Int
    BY <2>2
  <2>4. \A h \in ToSet(batch) : h.req # g.req /\ Cost(h)' = Cost(h)
    BY <1>6, <1>8, <1>9, TypeFacts DEF GdnInv
  <2>5. QED
    BY <1>4, <1>6, <2>1, <2>3, <2>4, AppendBudget
<1>15. IndexInv'
  BY IndexFrame DEF GdnInv
<1>16. QED
  BY <1>11, <1>12, <1>13, <1>14, <1>15 DEF GdnInv

\* Restoring a state makes its key the newest of the index.
LEMMA TouchIndex ==
    ASSUME LruOK(policy), NEW k, k # None => k \in resident,
           lru' = IF k = None THEN lru ELSE move_to_end(policy, k).lru, resident' = resident
    PROVE  /\ LruOK(policy)' /\ lru' \subseteq Key \X Key
           /\ k # None => Newest(policy, k)'
<1>1. CASE k = None
  BY <1>1 DEF LruOK, policy
<1>2. CASE k # None
  <2>1. k \in Key /\ policy.resident = resident
    BY <1>2 DEF LruOK, policy
  <2>2. PICK m : m = move_to_end(policy, k)
    OBVIOUS
  <2>3. LruOK(m) /\ Newest(m, k) /\ m.resident = resident \cup {k}
    BY <2>1, <2>2, MoveFacts
  <2>4. m.resident = resident' /\ m.lru = lru'
    BY <1>2, <2>2, <2>3
  <2>5. policy'.resident = resident' /\ policy'.lru = lru'
    BY DEF policy
  <2>6. QED
    BY <2>3, <2>4, <2>5 DEF LruOK, Newest
<1>3. QED
  BY <1>1, <1>2

LEMMA SchedulePrefillKeeps ==
    ASSUME GdnInv, SchedulePrefill
    PROVE  GdnInv'
<1>1. PICK r, p : r = Head(waiting) /\ p = prompt[r]
  OBVIOUS
<1>2. PICK restore, targets, plan :
        /\ restore = select_restore(live_keys(p)) /\ targets = targets_of(p)
        /\ plan = cap_gdn_capture_boundary(targets, 0, prefill_plan(p)[1], prefill_plan(p)[2])
        /\ restore_keys' = [restore_keys EXCEPT ![r] = restore]
        /\ capture_targets' = [capture_targets EXCEPT ![r] = targets]
        /\ lru' = IF restore = None THEN lru ELSE move_to_end(policy, restore).lru
        /\ batch' = Append(batch, [req |-> r, chunk |-> plan[1], kind |-> "new"])
        /\ num_batched' = num_batched + plan[2]
  BY <1>1 DEF SchedulePrefill
<1>3. /\ waiting # <<>> /\ get_num_new_tokens(prompt_len(p)) > 0 /\ waiting' = Tail(waiting)
      /\ UNCHANGED <<prompt, running, num_computed, kv, mode, resident, metadata, phase, saved, mamba>>
      /\ Scheduling /\ ~ Sending /\ Scheduling' /\ ~ Sending'
  BY <1>1 DEF SchedulePrefill, can_schedule_waiting, workerVars, Scheduling, Sending
<1>4. PICK g : g = [req |-> r, chunk |-> plan[1], kind |-> "new"]
  OBVIOUS
<1>5. /\ waiting' \in Seq(Request) /\ ToSet(waiting) = ToSet(waiting') \cup {r}
      /\ IsInjective(waiting') /\ r \notin ToSet(waiting') /\ r \in Request
  BY <1>1, <1>3, HeadLaw DEF GdnInv, TypeOK, QueueInv
<1>6. p \in Prompt /\ num_computed[r] = 0 /\ mode \in Modes /\ num_batched \in 0 .. TokenBudget
  BY <1>1, <1>5, TypeFacts DEF GdnInv, QueueInv, TypeOK
<1>7. PICK context : context = restored_context(restore)
  OBVIOUS
<1>8. NewPlanOK(p, restore, targets, plan, context)
  BY <1>2, <1>3, <1>6, <1>7, NewPlanFacts
<1>9. g \in Group /\ g.req = r /\ g.chunk = plan[1] /\ g.kind = "new" /\ batch' = Append(batch, g)
  BY <1>2, <1>4, <1>5, <1>8 DEF Group, NewPlanOK
<1>10. \A h \in ToSet(batch) : h.req # r
  BY <1>3, <1>5 DEF GdnInv, BatchInv
<1>11. \A q \in Request : q # r =>
         restore_keys'[q] = restore_keys[q] /\ capture_targets'[q] = capture_targets[q]
  BY <1>2 DEF GdnInv, TypeOK
<1>12. restore_keys'[r] = restore /\ capture_targets'[r] = targets
  BY <1>2, <1>5 DEF GdnInv, TypeOK
<1>13. ASSUME NEW h \in Group, h.req # r
       PROVE  (GroupOK(h) => GroupOK(h)') /\ Cost(h)' = Cost(h)
  <2>1. h.req \in Request
    BY DEF Group
  <2>2. QED
    BY <1>3, <1>11, <1>13, <2>1, GroupFrame
<1>14. /\ batch' \in Seq(Group) /\ IsInjective(batch')
       /\ Rest = ToSet(batch) /\ ToSet(batch') = ToSet(batch) \cup {g} /\ Rest' = ToSet(batch')
       /\ \A h, i \in ToSet(batch') : h.req = i.req => h = i
  BY <1>3, <1>9, <1>10, AppendBatch
<1>15. physical_context(r)' = context
  BY <1>3, <1>6, <1>7, <1>12 DEF physical_context, restored_context
<1>16. restore # None => restore \in Key
  BY <1>6, <1>8, KeyFacts DEF NewPlanOK
<1>17. LruOK(policy)' /\ lru' \subseteq Key \X Key
  BY <1>2, <1>3, <1>8, TouchIndex DEF GdnInv, IndexInv, NewPlanOK
<1>18. TypeOK'
  <2>1. targets \in SUBSET Key
    BY <1>6, <1>8, KeyFacts DEF NewPlanOK
  <2>2. restore_keys' \in [Request -> Key \cup {None}] /\ capture_targets' \in [Request -> SUBSET Key]
    BY <1>2, <1>16, <2>1 DEF GdnInv, TypeOK
  <2>3. num_batched' \in 0 .. TokenBudget
    <3>1. plan[2] \in Nat /\ num_batched \in Nat /\ TokenBudget \in Nat /\ num_batched + plan[2] <= TokenBudget
      BY <1>6, <1>8, GdnAssumption DEF NewPlanOK
    <3>2. num_batched + plan[2] \in 0 .. TokenBudget
      BY <3>1
    <3>3. QED
      BY <1>2, <3>2
  <2>4. QED
    BY <1>3, <1>5, <1>14, <1>17, <2>2, <2>3 DEF GdnInv, TypeOK
<1>19. QueueInv'
  <2>1. \A q \in ToSet(running) : RequestOK(q)'
    <3> SUFFICES ASSUME NEW q \in ToSet(running) PROVE RequestOK(q)'
      OBVIOUS
    <3>1. q \in Request /\ q # r /\ RequestOK(q)
      BY <1>3, <1>5, TypeFacts DEF GdnInv, QueueInv
    <3>2. QED
      BY <1>3, <1>11, <3>1 DEF RequestOK
  <2>2. QED
    BY <1>3, <1>5, <2>1 DEF GdnInv, QueueInv
<1>20. BatchInv'
  <2>1. NewOK(g)'
    <3>1. RestoreOK(r, plan[1])'
      <4>1. num_live_blocks(p)' = num_live_blocks(p)
        BY <1>3 DEF num_live_blocks
      <4>2. restore # None => /\ restore \in prefixes(p) /\ Len(restore) * BlockSize < plan[1]
                              /\ Len(restore) <= num_live_blocks(p)
        BY <1>7, <1>8 DEF NewPlanOK, restored_context
      <4>3. QED
        BY <1>1, <1>3, <1>12, <4>1, <4>2 DEF RestoreOK
    <3>2. Uncut(r, context, plan[1])'
      BY <1>3, <1>8, <1>12 DEF NewPlanOK, Uncut, Policy
    <3>3. num_computed'[r] = 0 /\ plan[1] <= prompt_len(prompt'[r])
          /\ capture_targets'[r] \subseteq prefixes(prompt'[r])
      BY <1>1, <1>3, <1>6, <1>8, <1>12 DEF NewPlanOK
    <3>4. QED
      BY <1>9, <1>15, <3>1, <3>2, <3>3 DEF NewOK
  <2>2. prompt'[r] # None
    BY <1>1, <1>3, <1>6, PromptFacts
  <2>3. GroupOK(g)'
    BY <1>9, <2>1, <2>2 DEF GroupOK
  <2>4. \A h \in Rest' : GroupOK(h)'
    BY <1>3, <1>10, <1>13, <1>14, <2>3, TypeFacts DEF GdnInv, BatchInv, Scheduling
  <2>5. r \notin ToSet(running)
    BY <1>5 DEF GdnInv, QueueInv
  <2>6. \A h \in ToSet(batch') : h.req \notin ToSet(waiting') \cup ToSet(running')
    BY <1>3, <1>5, <1>9, <1>14, <2>5 DEF GdnInv, BatchInv
  <2>7. QED
    BY <1>3, <1>14, <2>4, <2>6 DEF GdnInv, BatchInv, Sending, Scheduling
<1>21. BudgetInv'
  <2>1. /\ plan[1] \in Nat /\ plan[2] \in Nat /\ context \in Nat /\ plan[1] - context <= plan[2]
        /\ num_batched \in Nat
    BY <1>6, <1>8 DEF NewPlanOK
  <2> DEFINE cost == plan[1] - context
  <2>2. Cost(g)' = cost
    BY <1>9, <1>15 DEF Cost
  <2>3. num_batched' = num_batched + plan[2]
    BY <1>2
  <2>4. cost \in Int /\ num_batched + cost <= num_batched' /\ num_batched' \in Int
    <3>1. PICK a, b : a = plan[1] /\ b = plan[2]
      OBVIOUS
    <3>2. a \in Nat /\ b \in Nat /\ context \in Nat /\ num_batched \in Nat /\ a - context <= b
      BY <2>1, <3>1
    <3>3. cost = a - context /\ num_batched' = num_batched + b
      BY <2>3, <3>1
    <3> HIDE DEF cost
    <3>4. QED
      BY <3>2, <3>3
  <2>5. \A h \in ToSet(batch) : h.req # g.req /\ Cost(h)' = Cost(h)
    BY <1>9, <1>10, <1>13, TypeFacts DEF GdnInv
  <2> HIDE DEF cost
  <2>6. QED
    BY <1>3, <1>9, <2>2, <2>4, <2>5, AppendBudget
<1>22. IndexInv'
  BY <1>3, <1>17 DEF GdnInv, IndexInv, PendingInv, prompts_in_batch, Saved
<1>23. QED
  BY <1>18, <1>19, <1>20, <1>21, <1>22 DEF GdnInv

----------------------------------------------------------------------------
(* The batch is complete *)

LEMMA RequestsLaw ==
    ASSUME NEW s \in Seq(Group), IsInjective(s), \A g, h \in ToSet(s) : g.req = h.req => g = h
    PROVE  /\ Requests(s) \in Seq(Request) /\ IsInjective(Requests(s))
           /\ ToSet(Requests(s)) = {g.req : g \in ToSet(s)}
<1> DEFINE t == Requests(s)
<1>1. /\ DOMAIN s = 1 .. Len(s) /\ Len(s) \in Nat
      /\ \A i \in 1 .. Len(s) : s[i] \in Group /\ s[i] \in ToSet(s)
  BY DEF ToSet
<1>2. t = [i \in 1 .. Len(s) |-> s[i].req]
  BY <1>1 DEF Requests
<1>3. \A i \in 1 .. Len(s) : s[i].req \in Request
  BY <1>1 DEF Group
<1> HIDE DEF t
<1>4. t \in Seq(Request) /\ DOMAIN t = 1 .. Len(s) /\ \A i \in 1 .. Len(s) : t[i] = s[i].req
  BY <1>1, <1>2, <1>3
<1>5. ToSet(t) = {g.req : g \in ToSet(s)}
  <2>1. ASSUME NEW q \in ToSet(t) PROVE q \in {g.req : g \in ToSet(s)}
    <3>1. PICK i \in 1 .. Len(s) : q = t[i]
      BY <1>4 DEF ToSet
    <3>2. QED
      BY <1>1, <1>4, <3>1
  <2>2. ASSUME NEW g \in ToSet(s) PROVE g.req \in ToSet(t)
    <3>1. PICK i \in 1 .. Len(s) : g = s[i]
      BY <1>1 DEF ToSet
    <3>2. QED
      BY <1>4, <3>1 DEF ToSet
  <2>3. QED
    BY <2>1, <2>2
<1>6. IsInjective(t)
  <2> SUFFICES ASSUME NEW i \in DOMAIN t, NEW j \in DOMAIN t, t[i] = t[j] PROVE i = j
    BY DEF IsInjective
  <2>1. s[i].req = s[j].req /\ s[i] \in ToSet(s) /\ s[j] \in ToSet(s) /\ i \in DOMAIN s /\ j \in DOMAIN s
    BY <1>1, <1>4
  <2>2. s[i] = s[j]
    BY <2>1
  <2>3. QED
    BY <2>1, <2>2 DEF IsInjective
<1>7. QED
  BY <1>4, <1>5, <1>6 DEF t

\* A group still to be sent asks for at least nothing.
LEMMA CostNat ==
    ASSUME TypeOK, NEW g \in Group, GroupOK(g)
    PROVE  /\ Cost(g) \in Nat
           /\ g.kind = "new" => /\ physical_context(g.req) \in Nat
                                /\ physical_context(g.req) < g.chunk
<1> DEFINE r == g.req
<1>1. r \in Request /\ g.chunk \in Nat \ {0}
  BY DEF Group
<1>2. g.kind = "new" => physical_context(r) \in Nat /\ physical_context(r) < g.chunk
  <2> SUFFICES ASSUME g.kind = "new"
               PROVE  physical_context(r) \in Nat /\ physical_context(r) < g.chunk
    OBVIOUS
  <2>1. num_computed[r] = 0 /\ RestoreOK(r, g.chunk)
    BY DEF GroupOK, NewOK
  <2>2. physical_context(r) \in Nat
    BY CostType
  <2>3. QED
    BY <1>1, <2>1, <2>2 DEF physical_context, RestoreOK
<1>3. QED
  BY <1>1, <1>2 DEF Cost

\* The groups of one kind, and their requests.
OfKindOK(kind) ==
    /\ OfKind(kind) \in Seq(Group) /\ IsInjective(OfKind(kind))
    /\ ToSet(OfKind(kind)) = {g \in ToSet(batch) : g.kind = kind}
    /\ Requests(OfKind(kind)) \in Seq(Request) /\ IsInjective(Requests(OfKind(kind)))
    /\ ToSet(Requests(OfKind(kind))) = {g.req : g \in {h \in ToSet(batch) : h.kind = kind}}

LEMMA OfKindFacts ==
    ASSUME GdnInv, Scheduling, NEW kind
    PROVE  OfKindOK(kind)
<1>1. batch \in Seq(Group) /\ IsInjective(batch) /\ \A g, h \in ToSet(batch) : g.req = h.req => g = h
  BY DEF GdnInv, BatchInv, TypeOK, Scheduling
<1> PICK s : s = OfKind(kind)
  OBVIOUS
<1>2. s \in Seq(Group) /\ IsInjective(s) /\ ToSet(s) = {g \in ToSet(batch) : g.kind = kind}
  <2>1. PICK S : S = {g \in ToSet(batch) : g.kind = kind}
    OBVIOUS
  <2>2. s = Keep(batch, S)
    BY <2>1 DEF OfKind
  <2>3. s \in Seq(Group) /\ IsInjective(s) /\ ToSet(s) = ToSet(batch) \cap S
    BY <1>1, <2>2, KeepLaw
  <2>4. QED
    BY <2>1, <2>3
<1>3. \A g, h \in ToSet(s) : g.req = h.req => g = h
  BY <1>1, <1>2
<1>4. /\ Requests(s) \in Seq(Request) /\ IsInjective(Requests(s))
      /\ ToSet(Requests(s)) = {g.req : g \in ToSet(s)}
  BY <1>2, <1>3, RequestsLaw
<1>5. QED
  BY <1>2, <1>4 DEF OfKindOK

\* No group runs if and only if every group is preempted.
LEMMA NoneRuns ==
    ASSUME GdnInv, Scheduling
    PROVE  num_curr_seqs = 0 <=> \A g \in ToSet(batch) : g.kind = "preempted"
<1>1. batch \in Seq(Group) /\ IsInjective(batch)
  BY DEF GdnInv, BatchInv, TypeOK, Scheduling
<1>2. PICK s : s = OfKind("preempted")
  OBVIOUS
<1>3. s \in Seq(Group) /\ IsInjective(s) /\ ToSet(s) = {g \in ToSet(batch) : g.kind = "preempted"}
  BY <1>2, OfKindFacts DEF OfKindOK
<1>4. /\ IsFiniteSet(ToSet(batch)) /\ Cardinality(ToSet(batch)) = Len(batch)
      /\ Cardinality(ToSet(s)) = Len(s) /\ ToSet(s) \subseteq ToSet(batch)
  BY <1>1, <1>3, LengthLaw
<1>5. Len(batch) \in Nat /\ Len(s) \in Nat
  BY <1>1, <1>3
<1>6. num_curr_seqs = Len(batch) - Len(s)
  BY <1>2 DEF num_curr_seqs
<1>7. num_curr_seqs = 0 <=> Cardinality(ToSet(s)) = Cardinality(ToSet(batch))
  BY <1>4, <1>5, <1>6
<1>8. Cardinality(ToSet(s)) = Cardinality(ToSet(batch)) => ToSet(s) = ToSet(batch)
  BY <1>4, FS_Subset
<1>9. QED
  BY <1>3, <1>7, <1>8

LEMMA AllMembers ==
    ASSUME NEW s \in Seq(Group)
    PROVE  {s[i] : i \in Len(<<>>) + 1 .. Len(s)} = ToSet(s)
<1>1. Len(<<>>) = 0
  OBVIOUS
<1>2. QED
  BY <1>1 DEF ToSet

\* The groups of a kind in the batch, and their requests.
GroupsOf(kind) == {g \in ToSet(batch) : g.kind = kind}
RequestsOf(kind) == {g.req : g \in GroupsOf(kind)}

\* The queues and the batch after the scheduler has put the groups together.
EndPrefillOK ==
    /\ \A j, k : j # k => RequestsOf(j) \cap RequestsOf(k) = {}
    /\ \A k : RequestsOf(k) \cap ToSet(waiting) = {} /\ RequestsOf(k) \cap ToSet(running) = {}
    /\ waiting' \in Seq(Request) /\ IsInjective(waiting')
    /\ ToSet(waiting') = ToSet(waiting) \cup RequestsOf("preempted")
    /\ running' \in Seq(Request) /\ IsInjective(running')
    /\ ToSet(running') = ToSet(running) \cup RequestsOf("decode") \cup RequestsOf("prefill")
                                        \cup RequestsOf("new")
    /\ batch' \in Seq(Group) /\ IsInjective(batch')
    /\ ToSet(batch') = {g \in ToSet(batch) : g.kind # "preempted"}
    /\ ToSet(running') = ToSet(running) \cup {g.req : g \in ToSet(batch')}

LEMMA EndPrefillFacts ==
    ASSUME GdnInv, EndPrefill
    PROVE  EndPrefillOK
<1> USE DEF EndPrefill, policyVars, workerVars
<1>1. Scheduling /\ ~ Scheduling' /\ phase' \in {"idle", "metadata"} /\ metadata = <<>> /\ metadata' = <<>>
  BY DEF Scheduling, GdnInv, BatchInv, Sending
<1>2. \A kind : /\ OfKind(kind) \in Seq(Group) /\ IsInjective(OfKind(kind)) /\ ToSet(OfKind(kind)) = GroupsOf(kind)
                /\ Requests(OfKind(kind)) \in Seq(Request) /\ IsInjective(Requests(OfKind(kind)))
                /\ ToSet(Requests(OfKind(kind))) = RequestsOf(kind)
  BY <1>1, OfKindFacts DEF OfKindOK, GroupsOf, RequestsOf
<1>3. /\ \A g, h \in ToSet(batch) : g.req = h.req => g = h
      /\ \A g \in ToSet(batch) : GroupOK(g) /\ g \in Group
      /\ \A g \in ToSet(batch) : g.req \notin ToSet(waiting) \cup ToSet(running)
      /\ Rest = ToSet(batch)
  <2>1. Rest = ToSet(batch)
    <3>1. Len(<<>>) = 0 /\ batch \in Seq(Group)
      BY DEF GdnInv, TypeOK
    <3>2. QED
      BY <1>1, <3>1 DEF Rest, ToSet
  <2>2. QED
    BY <1>1, <2>1, TypeFacts DEF GdnInv, BatchInv, Scheduling
<1>4. \A j, k : j # k => GroupsOf(j) \cap GroupsOf(k) = {} /\ RequestsOf(j) \cap RequestsOf(k) = {}
  BY <1>3 DEF GroupsOf, RequestsOf
<1>5. \A k : RequestsOf(k) \cap ToSet(waiting) = {} /\ RequestsOf(k) \cap ToSet(running) = {}
  BY <1>3 DEF GroupsOf, RequestsOf
<1>6. /\ waiting \in Seq(Request) /\ IsInjective(waiting) /\ running \in Seq(Request) /\ IsInjective(running)
      /\ ToSet(waiting) \cap ToSet(running) = {}
  BY DEF GdnInv, QueueInv, TypeOK
<1>7. /\ waiting' \in Seq(Request) /\ IsInjective(waiting')
      /\ ToSet(waiting') = ToSet(waiting) \cup RequestsOf("preempted")
  <2>1. PICK s : s = Reverse(Requests(OfKind("preempted")))
    OBVIOUS
  <2>2. s \in Seq(Request) /\ IsInjective(s) /\ ToSet(s) = RequestsOf("preempted")
    BY <1>2, <2>1, ReverseLaw
  <2>3. waiting' = s \o waiting
    BY <2>1
  <2>4. ToSet(s) \cap ToSet(waiting) = {}
    BY <1>5, <2>2
  <2> HIDE DEF EndPrefill
  <2>5. /\ s \o waiting \in Seq(Request) /\ IsInjective(s \o waiting)
        /\ ToSet(s \o waiting) = ToSet(s) \cup ToSet(waiting)
    BY <1>6, <2>2, <2>4, ConcatLaw
  <2>6. QED
    BY <2>2, <2>3, <2>5
<1>8. /\ running' \in Seq(Request) /\ IsInjective(running')
      /\ ToSet(running') = ToSet(running) \cup RequestsOf("decode") \cup RequestsOf("prefill") \cup RequestsOf("new")
  <2>1. PICK d, p, n : d = Requests(OfKind("decode")) /\ p = Requests(OfKind("prefill"))
                       /\ n = Requests(OfKind("new"))
    OBVIOUS
  <2>2. /\ d \in Seq(Request) /\ IsInjective(d) /\ ToSet(d) = RequestsOf("decode")
        /\ p \in Seq(Request) /\ IsInjective(p) /\ ToSet(p) = RequestsOf("prefill")
        /\ n \in Seq(Request) /\ IsInjective(n) /\ ToSet(n) = RequestsOf("new")
    BY <1>2, <2>1
  <2>3. PICK s : s = running \o d
    OBVIOUS
  <2> HIDE DEF EndPrefill
  <2>4. ToSet(running) \cap ToSet(d) = {}
    BY <1>5, <2>2
  <2>5. s \in Seq(Request) /\ IsInjective(s) /\ ToSet(s) = ToSet(running) \cup RequestsOf("decode")
    BY <1>6, <2>2, <2>3, <2>4, ConcatLaw
  <2>6. PICK t : t = s \o p
    OBVIOUS
  <2>7. ToSet(s) \cap ToSet(p) = {}
    BY <1>4, <1>5, <2>2, <2>5
  <2>8. t \in Seq(Request) /\ IsInjective(t) /\ ToSet(t) = ToSet(s) \cup RequestsOf("prefill")
    BY <2>2, <2>5, <2>6, <2>7, ConcatLaw
  <2>9. ToSet(t) \cap ToSet(n) = {}
    <3>1. ToSet(t) = ToSet(running) \cup RequestsOf("decode") \cup RequestsOf("prefill")
      BY <2>5, <2>8
    <3>2. ToSet(n) = RequestsOf("new")
      BY <2>2
    <3>3. /\ RequestsOf("new") \cap ToSet(running) = {}
          /\ RequestsOf("new") \cap RequestsOf("decode") = {}
          /\ RequestsOf("new") \cap RequestsOf("prefill") = {}
      BY <1>4, <1>5
    <3>4. QED
      BY <3>1, <3>2, <3>3
  <2>10. running' = t \o n
    BY <2>1, <2>3, <2>6 DEF EndPrefill
  <2>11. t \o n \in Seq(Request) /\ IsInjective(t \o n) /\ ToSet(t \o n) = ToSet(t) \cup RequestsOf("new")
    BY <2>2, <2>8, <2>9, ConcatLaw
  <2>12. QED
    BY <2>5, <2>8, <2>10, <2>11
<1>9. /\ batch' \in Seq(Group) /\ IsInjective(batch')
      /\ ToSet(batch') = GroupsOf("new") \cup GroupsOf("prefill") \cup GroupsOf("decode")
  <2>1. PICK d, p, n : d = OfKind("decode") /\ p = OfKind("prefill") /\ n = OfKind("new")
    OBVIOUS
  <2>2. /\ d \in Seq(Group) /\ IsInjective(d) /\ ToSet(d) = GroupsOf("decode")
        /\ p \in Seq(Group) /\ IsInjective(p) /\ ToSet(p) = GroupsOf("prefill")
        /\ n \in Seq(Group) /\ IsInjective(n) /\ ToSet(n) = GroupsOf("new")
    BY <1>2, <2>1
  <2>3. PICK s : s = n \o p
    OBVIOUS
  <2> HIDE DEF EndPrefill
  <2>4. ToSet(n) \cap ToSet(p) = {}
    BY <1>4, <2>2
  <2>5. s \in Seq(Group) /\ IsInjective(s) /\ ToSet(s) = GroupsOf("new") \cup GroupsOf("prefill")
    BY <2>2, <2>3, <2>4, ConcatLaw
  <2>6. ToSet(s) \cap ToSet(d) = {}
    BY <1>4, <2>2, <2>5
  <2>7. batch' = s \o d
    BY <2>1, <2>3 DEF EndPrefill
  <2>8. s \o d \in Seq(Group) /\ IsInjective(s \o d) /\ ToSet(s \o d) = ToSet(s) \cup GroupsOf("decode")
    BY <2>2, <2>5, <2>6, ConcatLaw
  <2>9. QED
    BY <2>5, <2>7, <2>8
<1>10. \A g \in Group : g.kind \in {"new", "prefill", "decode", "preempted"}
  BY DEF Group
<1>11. ToSet(batch') = {g \in ToSet(batch) : g.kind # "preempted"}
  BY <1>3, <1>9, <1>10 DEF GroupsOf
<1>12. ToSet(running') = ToSet(running) \cup {g.req : g \in ToSet(batch')}
  BY <1>8, <1>9 DEF RequestsOf
<1>13. QED
  BY <1>4, <1>5, <1>7, <1>8, <1>9, <1>11, <1>12 DEF EndPrefillOK

LEMMA EndPrefillKeeps ==
    ASSUME GdnInv, EndPrefill
    PROVE  GdnInv'
<1>0. EndPrefillOK
  BY EndPrefillFacts
<1> USE DEF EndPrefill, policyVars, workerVars
<1>1. Scheduling /\ ~ Scheduling' /\ phase' \in {"idle", "metadata"} /\ metadata = <<>> /\ metadata' = <<>>
  BY DEF Scheduling, GdnInv, BatchInv, Sending
<1>3. /\ \A g, h \in ToSet(batch) : g.req = h.req => g = h
      /\ \A g \in ToSet(batch) : GroupOK(g) /\ g \in Group
      /\ \A g \in ToSet(batch) : g.req \notin ToSet(waiting) \cup ToSet(running)
      /\ Rest = ToSet(batch)
  <2>1. Rest = ToSet(batch)
    <3>1. Len(<<>>) = 0 /\ batch \in Seq(Group)
      BY DEF GdnInv, TypeOK
    <3>2. QED
      BY <1>1, <3>1 DEF Rest, ToSet
  <2>2. QED
    BY <1>1, <2>1, TypeFacts DEF GdnInv, BatchInv, Scheduling
<1>4. /\ waiting' \in Seq(Request) /\ IsInjective(waiting') /\ running' \in Seq(Request)
      /\ IsInjective(running') /\ ToSet(waiting') = ToSet(waiting) \cup RequestsOf("preempted")
      /\ ToSet(waiting') \cap ToSet(running') = {}
  <2>1. ToSet(waiting) \cap ToSet(running) = {}
    BY DEF GdnInv, QueueInv
  <2>2. QED
    BY <1>0, <2>1 DEF EndPrefillOK
<1>9. /\ batch' \in Seq(Group) /\ IsInjective(batch')
      /\ ToSet(batch') = {g \in ToSet(batch) : g.kind # "preempted"}
      /\ ToSet(running') = ToSet(running) \cup {g.req : g \in ToSet(batch')}
  BY <1>0 DEF EndPrefillOK
<1>13. phase' = "metadata" => Sending' /\ \E g \in ToSet(batch') : TRUE
  BY <1>1, <1>9, NoneRuns DEF Sending
<1>14. phase' = "idle" => ~ Sending' /\ ToSet(batch') = {}
  BY <1>1, <1>9, NoneRuns DEF Sending
<1>15. Rest' = ToSet(batch')
  <2>1. \A s \in Seq(Group) : {s[i] : i \in Len(<<>>) + 1 .. Len(s)} = ToSet(s)
    BY AllMembers
  <2> HIDE DEF EndPrefill
  <2>2. QED
    BY <1>1, <1>9, <2>1 DEF Rest
<1>16. TypeOK'
  BY <1>1, <1>4, <1>9 DEF GdnInv, TypeOK
<1>17. QueueInv'
  <2>2. \A q \in ToSet(waiting') : prompt'[q] # None /\ num_computed'[q] = 0
    BY <1>3, <1>4 DEF GdnInv, QueueInv, GroupOK, RequestsOf, GroupsOf
  <2>3. ASSUME NEW q \in ToSet(running') PROVE RequestOK(q)' \/ (Sending' /\ InBatch(q)')
    <3>1. CASE q \in ToSet(running)
      <4>1. RequestOK(q)
        BY <1>1, <3>1 DEF GdnInv, QueueInv, Scheduling, Sending
      <4>2. QED
        BY <4>1 DEF RequestOK
    <3>2. CASE q \notin ToSet(running)
      <4>1. PICK g \in ToSet(batch') : g.req = q
        BY <1>9, <3>2
      <4>2. Sending'
        BY <1>1, <1>13, <1>14, <4>1
      <4>3. QED
        BY <4>1, <4>2 DEF InBatch
    <3>3. QED
      BY <3>1, <3>2
  <2>4. QED
    BY <1>4, <2>2, <2>3 DEF GdnInv, QueueInv
<1>18. \A g : (GroupOK(g) => GroupOK(g)') /\ Cost(g)' = Cost(g)
  BY GroupFrame
<1>19. BatchInv'
  <2>1. \A g, h \in ToSet(batch') : g.req = h.req => g = h
    BY <1>3, <1>9
  <2>2. \A g \in Rest' : GroupOK(g)'
    BY <1>3, <1>9, <1>15, <1>18
  <2>3. \A g \in ToSet(batch') : g.req \in ToSet(running') /\ g.kind # "preempted"
    BY <1>9
  <2>4. Len(metadata') = 0 /\ DOMAIN metadata' = {}
    BY <1>1
  <2>5. Len(batch') \in Nat /\ (phase' = "metadata" => Len(batch') > 0)
    <3>1. ToSet(batch') # {} => Len(batch') > 0
      BY <1>9 DEF ToSet
    <3>2. QED
      BY <1>9, <1>13, <3>1
  <2>6. QED
    BY <1>1, <1>9, <2>1, <2>2, <2>3, <2>4, <2>5 DEF BatchInv
<1>20. BudgetInv'
  <2>1. PICK e, f : e = [g \in Rest |-> Cost(g)] /\ f = [g \in Rest' |-> Cost(g)']
    OBVIOUS
  <2>2. PICK q, q2 : q = [i \in DOMAIN metadata |-> Query(metadata[i])]
                     /\ q2 = [i \in DOMAIN metadata |-> Query(metadata[i])]'
    OBVIOUS
  <2>3. DOMAIN metadata = {} /\ DOMAIN metadata' = {}
    BY <1>1
  <2>4. SumFunctionOnSet(q, DOMAIN metadata) = 0 /\ SumFunctionOnSet(q2, DOMAIN metadata') = 0
    BY <2>3, SumEmpty
  <2>5. SumFunctionOnSet(q, DOMAIN metadata) + SumFunctionOnSet(e, Rest) <= num_batched
    BY <1>1, <2>1, <2>2 DEF GdnInv, BudgetInv, Scheduling
  <2>6. \A g \in Rest : e[g] \in Nat
    BY <1>3, <2>1, CostNat DEF GdnInv
  <2>7. IsFiniteSet(Rest)
    BY <1>1, <1>3, LengthLaw DEF GdnInv, BatchInv, Scheduling, TypeOK
  <2>8. Rest' \subseteq Rest
    BY <1>3, <1>9, <1>15
  <2>9. \A g \in Rest' : f[g] \in Int /\ f[g] = e[g]
    BY <1>18, <2>1, <2>6, <2>8
  <2>10. SumFunctionOnSet(f, Rest') = SumFunctionOnSet(e, Rest')
    <3>1. IsFiniteSet(Rest')
      BY <2>7, <2>8, FS_Subset
    <3> HIDE DEF EndPrefill
    <3>2. QED
      BY <2>9, <3>1, SumSame
  <2>11. SumFunctionOnSet(e, Rest') <= SumFunctionOnSet(e, Rest)
    <3> HIDE DEF EndPrefill
    <3>1. QED
      BY <2>6, <2>7, <2>8, SumPart
  <2>12. SumFunctionOnSet(e, Rest) \in Int /\ SumFunctionOnSet(e, Rest') \in Int
    <3>1. IsFiniteSet(Rest') /\ \A g \in Rest' : e[g] \in Int
      BY <2>6, <2>7, <2>8, FS_Subset
    <3>2. QED
      BY <2>6, <2>7, <3>1, SumInt
  <2>13. num_batched \in Int /\ num_batched' = num_batched
    BY DEF GdnInv, TypeOK
  <2>14. SumFunctionOnSet(q2, DOMAIN metadata') + SumFunctionOnSet(f, Rest') <= num_batched'
    BY <2>4, <2>5, <2>10, <2>11, <2>12, <2>13
  <2>15. QED
    BY <2>1, <2>2, <2>14 DEF BudgetInv
<1>21. IndexInv'
  BY <1>1, IndexFrame DEF GdnInv
<1>22. QED
  BY <1>16, <1>17, <1>19, <1>20, <1>21 DEF GdnInv

----------------------------------------------------------------------------
(* The metadata of a group *)

\* The group whose metadata is next.
NextGroupOK(g) ==
    /\ Len(metadata) + 1 \in DOMAIN batch /\ g = batch[Len(metadata) + 1]
    /\ g \in Group /\ g \in Rest /\ GroupOK(g) /\ g.kind \in {"new", "prefill", "decode"}
    /\ g.req \in Request /\ prompt[g.req] \in Prompt /\ InBatch(g.req)
    /\ \A h \in Rest \ {g} : h \in Group /\ h.req # g.req
    /\ \A i \in DOMAIN metadata : metadata[i].req # g.req
    /\ IsFiniteSet(Rest)
    /\ Rest \ {g} = {batch[i] : i \in Len(metadata) + 2 .. Len(batch)}

LEMMA NextGroupFacts ==
    ASSUME GdnInv, phase = "metadata"
    PROVE  NextGroupOK(next_group)
<1> PICK g, n : g = next_group /\ n = Len(metadata) + 1
  OBVIOUS
<1> SUFFICES NextGroupOK(g)
  OBVIOUS
<1>1. /\ batch \in Seq(Group) /\ metadata \in Seq(Metadata) /\ IsInjective(batch)
      /\ Len(metadata) < Len(batch) /\ Len(metadata) \in Nat /\ Len(batch) \in Nat
      /\ DOMAIN batch = 1 .. Len(batch) /\ DOMAIN metadata = 1 .. Len(metadata)
  BY DEF GdnInv, BatchInv, TypeOK
<1>2. n \in 1 .. Len(batch) /\ g = batch[n] /\ Rest = {batch[i] : i \in n .. Len(batch)}
  BY <1>1 DEF next_group, Rest
<1>3. \A i \in 1 .. Len(batch) : batch[i] \in Group /\ batch[i] \in ToSet(batch)
  BY <1>1 DEF ToSet
<1>4. \A i, j \in 1 .. Len(batch) : batch[i] = batch[j] => i = j
  BY <1>1 DEF IsInjective
<1>5. /\ \A h, k \in ToSet(batch) : h.req = k.req => h = k
      /\ \A h \in Rest : GroupOK(h)
      /\ \A h \in ToSet(batch) : h.kind # "preempted"
      /\ \A i \in DOMAIN metadata : metadata[i].req = batch[i].req
  BY DEF GdnInv, BatchInv, Sending
<1>6. g \in Group /\ g \in ToSet(batch) /\ g \in Rest /\ GroupOK(g)
  BY <1>2, <1>3, <1>5
<1>7. g.kind \in {"new", "prefill", "decode"} /\ g.req \in Request
  BY <1>5, <1>6 DEF Group
<1>8. prompt[g.req] \in Prompt
  BY <1>6, <1>7, TypeFacts DEF GroupOK, GdnInv
<1>9. Rest \ {g} = {batch[i] : i \in n + 1 .. Len(batch)}
  <2>1. \A i \in n .. Len(batch) : batch[i] = g <=> i = n
    BY <1>1, <1>2, <1>4
  <2>2. n .. Len(batch) = {n} \cup (n + 1 .. Len(batch)) /\ n \notin n + 1 .. Len(batch)
    BY <1>1, <1>2
  <2>3. QED
    BY <1>2, <2>1, <2>2
<1>10. \A h \in Rest : h \in Group /\ h \in ToSet(batch)
  BY <1>1, <1>2, <1>3
<1>11. \A h \in Rest \ {g} : h \in Group /\ h.req # g.req
  BY <1>5, <1>6, <1>10
<1>12. \A i \in DOMAIN metadata : metadata[i].req # g.req
  <2> SUFFICES ASSUME NEW i \in DOMAIN metadata, metadata[i].req = g.req PROVE FALSE
    OBVIOUS
  <2>1. i \in 1 .. Len(batch) /\ i # n
    BY <1>1
  <2>2. batch[i] = g
    BY <1>3, <1>5, <1>6, <2>1
  <2>3. QED
    BY <1>2, <1>4, <2>1, <2>2
<1>13. IsFiniteSet(Rest)
  <2>1. IsFiniteSet(ToSet(batch)) /\ Rest \subseteq ToSet(batch)
    BY <1>1, <1>10, LengthLaw
  <2>2. QED
    BY <2>1, FS_Subset
<1>14. n + 1 = Len(metadata) + 2 /\ InBatch(g.req)
  BY <1>1, <1>6 DEF InBatch
<1>15. QED
  BY <1>1, <1>2, <1>6, <1>7, <1>8, <1>9, <1>11, <1>12, <1>13, <1>14 DEF NextGroupOK

\* A prefill group: what its forward pass covers.
PrefillOK(g, end) ==
    /\ IsPrefill(g.req)
    /\ end \in num_computed[g.req] + 1 .. prompt_len(prompt[g.req]) /\ num_computed[g.req] \in Nat
    /\ physical_context(g.req) \in Nat /\ physical_context(g.req) < end
    /\ Cost(g) = end - physical_context(g.req)
    /\ num_computed[g.req] # 0 => physical_context(g.req) = num_computed[g.req]
    /\ num_computed[g.req] = 0 => RestoreOK(g.req, end)
    /\ capture_targets[g.req] \subseteq prefixes(prompt[g.req])
    /\ Uncut(g.req, physical_context(g.req), end)

LEMMA PrefillFacts ==
    ASSUME TypeOK, NEW g \in Group, GroupOK(g), prompt[g.req] \in Prompt,
           g.kind \in {"new", "prefill"}
    PROVE  PrefillOK(g, Min({prompt_len(prompt[g.req]), num_computed[g.req] + g.chunk}))
<1> DEFINE r == g.req
           len == prompt_len(prompt[r])
           n == num_computed[r]
<1>1. r \in Request /\ n \in Nat /\ g.chunk \in Nat \ {0} /\ len \in Nat \ {0}
  BY PromptFacts, TypeFacts DEF Group
<1>2. PICK end : end = n + g.chunk
  OBVIOUS
<1>3. end <= len
  BY <1>1, <1>2 DEF GroupOK, NewOK
<1>4. Min({len, n + g.chunk}) = end
  <2>1. end \in Int /\ len \in Int
    BY <1>1, <1>2
  <2> HIDE DEF len, n
  <2>2. Min({len, end}) = IF len <= end THEN len ELSE end
    BY <2>1, MinPair
  <2>3. QED
    BY <1>2, <1>3, <2>1, <2>2
<1> SUFFICES PrefillOK(g, end)
  BY <1>4
<1>5. n < len /\ end \in n + 1 .. len
  <2> HIDE DEF len, n
  <2>1. QED
    BY <1>1, <1>2, <1>3
<1>6. CASE g.kind = "new"
  <2>1. n = 0 /\ end = g.chunk /\ NewOK(g)
    BY <1>1, <1>2, <1>6 DEF GroupOK, NewOK
  <2>2. physical_context(r) \in Nat /\ physical_context(r) < end
    BY <1>6, <2>1, CostNat
  <2>3. Cost(g) = end - physical_context(r)
    BY <1>6, <2>1 DEF Cost
  <2>4. QED
    BY <1>1, <1>5, <2>1, <2>2, <2>3 DEF PrefillOK, NewOK, IsPrefill
<1>7. CASE g.kind = "prefill"
  <2>1. RequestOK(r) /\ Uncut(r, n, end)
    BY <1>2, <1>7 DEF GroupOK
  <2>2. n # 0 /\ physical_context(r) = n
    BY <2>1, <1>1 DEF RequestOK, physical_context
  <2>3. Cost(g) = end - n
    BY <1>1, <1>2, <1>7 DEF Cost
  <2>4. QED
    BY <1>1, <1>5, <2>1, <2>2, <2>3 DEF PrefillOK, RequestOK, IsPrefill
<1>8. QED
  BY <1>6, <1>7

\* At most one state is captured in a step; its boundary lies in the forward
\* pass, and under admission64 at its end.
CaptureOK(r, end) ==
    /\ capture_of(r, end) \subseteq prefixes(prompt[r]) /\ capture_of(r, end) \subseteq Key
    /\ \A j, k \in capture_of(r, end) : j = k
    /\ \A k \in capture_of(r, end) :
         physical_context(r) < Len(k) * BlockSize /\ Len(k) * BlockSize <= end
    /\ Policy = "admission64" => \A k \in capture_of(r, end) : Len(k) * BlockSize = end

LEMMA CaptureFacts ==
    ASSUME mode \in Modes, NEW r, prompt[r] \in Prompt, NEW end \in Nat \ {0},
           capture_targets[r] \subseteq prefixes(prompt[r]), Uncut(r, physical_context(r), end)
    PROVE  CaptureOK(r, end)
<1> PICK C : C = capture_of(r, end)
  OBVIOUS
<1> DEFINE p == prompt[r]
<1>1. Policy \in {"fine32", "admission64", "off"} /\ p \in Prompt
  BY ModeFacts
<1>2. C = {} \/ C = capture_points_for_step(step_targets(r, end), physical_context(r), end)
  BY DEF capture_of
<1>3. C \subseteq step_targets(r, end)
      /\ \A k \in C : physical_context(r) < Len(k) * BlockSize /\ Len(k) * BlockSize <= end
  BY <1>2 DEF capture_points_for_step
<1>4. final_capture_key(p, end) \subseteq prefixes(p) /\ \A j, k \in final_capture_key(p, end) : j = k
  BY FinalFacts
<1>5. C \subseteq prefixes(p)
  BY <1>3, <1>4 DEF step_targets
<1>6. \A k \in C : k \in Key /\ Len(k) * BlockSize \in Nat /\ Len(k) \in Int
  BY <1>1, <1>5, KeyFacts
<1>7. Policy = "admission64" => \A k \in C : Len(k) * BlockSize = end
  <2> SUFFICES ASSUME Policy = "admission64", NEW k \in C PROVE Len(k) * BlockSize = end
    OBVIOUS
  <2>1. k \in capture_targets[r]
    BY <1>3 DEF step_targets
  <2>2. ~ (Len(k) * BlockSize < end) /\ Len(k) * BlockSize <= end /\ Len(k) * BlockSize \in Nat
    BY <1>3, <1>6, <2>1 DEF Uncut
  <2> DEFINE x == Len(k) * BlockSize
  <2> HIDE DEF x
  <2>3. ~ (x < end) /\ x <= end /\ x \in Nat
    BY <2>2 DEF x
  <2>4. x = end
    BY <2>3
  <2>5. QED
    BY <2>4 DEF x
<1>8. \A j, k \in C : j = k
  <2> SUFFICES ASSUME NEW j \in C, NEW k \in C PROVE j = k
    OBVIOUS
  <2>1. CASE Policy = "fine32"
    BY <1>3, <1>4, <2>1 DEF step_targets
  <2>2. CASE Policy = "admission64"
    <3>1. Len(j) * BlockSize = Len(k) * BlockSize /\ BlockSize \in Nat \ {0}
      BY <1>7, <2>2, GdnAssumption
    <3>2. Len(j) = Len(k)
      BY <1>6, <3>1, Scale
    <3>3. QED
      BY <1>1, <1>5, <3>2, KeyFacts
  <2>3. CASE Policy = "off"
    BY <2>3 DEF capture_of
  <2>4. QED
    BY <1>1, <2>1, <2>2, <2>3
<1>9. QED
  BY <1>3, <1>5, <1>6, <1>7, <1>8 DEF CaptureOK

\* The segments of a forward pass are cut strictly inside it.
LEMMA SegmentFacts ==
    ASSUME NEW r, prompt[r] \in Prompt, NEW end \in Nat \ {0}, physical_context(r) \in Nat
    PROVE  segments_of(r, end) \subseteq 1 .. end - physical_context(r) - 1
<1> DEFINE p == prompt[r]
           context == physical_context(r)
           step_ends == {e \in 1 .. end - 1 : e % TokenBudget = 0}
           captures == UNION {direct_final_key(p, e) : e \in step_ends \cup {end}}
           boundaries == step_ends \cup {Len(k) * BlockSize : k \in captures}
<1>1. \A e \in step_ends \cup {end} : e \in Nat \ {0}
  OBVIOUS
<1>2. captures \subseteq prefixes(p)
  BY <1>1, DirectFinal
<1>3. \A k \in captures : Len(k) * BlockSize \in Nat
  BY <1>2, KeyFacts
<1>4. segments_of(r, end) \subseteq {b - context : b \in {c \in boundaries : context < c /\ c < end}}
  BY DEF segments_of, canonical_direct_segment_offsets
<1> HIDE DEF captures
<1>5. \A b \in boundaries : b \in Nat
  BY <1>1, <1>3
<1> HIDE DEF boundaries, context
<1>6. context \in Nat
  BY DEF context
<1>7. \A b \in boundaries : context < b /\ b < end => b - context \in 1 .. end - context - 1
  BY <1>5, <1>6
<1>8. segments_of(r, end) \subseteq 1 .. end - context - 1
  BY <1>4, <1>7
<1>9. QED
  BY <1>8 DEF context

\* The worker starts a prefill where the scheduler's metadata says.
LEMMA QueryFacts ==
    ASSUME NEW m \in Metadata, MetaOK(m), prompt[m.req] \in Prompt
    PROVE  /\ m.is_prompt => /\ worker_context(m) = m.context /\ query_len(m) = m.end - m.context
                             /\ query_len(m) > 0
           /\ Query(m) \in Int
<1>1. m.context \in Nat /\ m.end \in Nat /\ m.restore \in Key \cup {None}
  BY DEF Metadata
<1>2. m.is_prompt => PromptMetaOK(m)
  BY DEF MetaOK
<1>3. m.is_prompt => worker_context(m) = m.context
  <2> SUFFICES ASSUME m.is_prompt PROVE worker_context(m) = m.context
    OBVIOUS
  <2>1. CASE m.restore = None
    BY <2>1 DEF worker_context
  <2>2. CASE m.restore # None
    <3>1. m.context = Len(m.restore) * BlockSize /\ m.context < m.end
      BY <1>2, <2>2 DEF PromptMetaOK
    <3>2. ~ (m.end <= Len(m.restore) * BlockSize)
      BY <1>1, <3>1
    <3>3. QED
      BY <2>2, <3>1, <3>2 DEF worker_context
  <2>3. QED
    BY <2>1, <2>2
<1>4. m.is_prompt => query_len(m) = m.end - m.context /\ m.context < m.end
  BY <1>2, <1>3 DEF query_len, PromptMetaOK
<1>5. QED
  BY <1>1, <1>3, <1>4 DEF Query

\* The types of the metadata built so far, for the sum of their queries.
LEMMA MetadataFacts ==
    ASSUME GdnInv
    PROVE  \A i \in DOMAIN metadata :
              /\ metadata[i] \in Metadata /\ metadata[i].req \in Request /\ MetaOK(metadata[i])
              /\ prompt[metadata[i].req] \in Prompt /\ Query(metadata[i]) \in Int
<1> SUFFICES ASSUME NEW i \in DOMAIN metadata
             PROVE  /\ metadata[i] \in Metadata /\ metadata[i].req \in Request /\ MetaOK(metadata[i])
                    /\ prompt[metadata[i].req] \in Prompt /\ Query(metadata[i]) \in Int
  OBVIOUS
<1>1. metadata[i] \in Metadata
  BY TypeFacts DEF GdnInv
<1>2. Sending
  <2>1. metadata # <<>>
    OBVIOUS
  <2>2. QED
    BY <2>1 DEF GdnInv, BatchInv
<1>3. MetaOK(metadata[i])
  BY <1>2 DEF GdnInv, BatchInv
<1>4. metadata[i].req \in Request
  BY <1>1 DEF Metadata
<1>5. prompt[metadata[i].req] \in Prompt
  BY <1>3, <1>4, TypeFacts DEF GdnInv, MetaOK
<1>6. QED
  BY <1>1, <1>3, <1>4, <1>5, QueryFacts

\* What a step of the metadata loop leaves alone.
MetadataFrame(r, m) ==
    /\ metadata' = Append(metadata, m)
    /\ UNCHANGED <<prompt, waiting, running, num_computed, batch, num_batched, mode>>
    /\ \A q \in Request \ {r} :
         capture_targets'[q] = capture_targets[q] /\ restore_keys'[q] = restore_keys[q]
    /\ Len(metadata) + 1 # Len(batch) => kv' = kv /\ phase' = "metadata"
    /\ Len(metadata) + 1 = Len(batch) => phase' = "execute"

LEMMA MetadataStep ==
    ASSUME GdnInv, phase = "metadata", NEW m \in Metadata, m.req = next_group.req,
           MetadataFrame(next_group.req, m), MetaOK(m)', Query(m) = Cost(next_group)
    PROVE  QueueInv' /\ BatchInv' /\ BudgetInv'
<1> PICK g, r, n : g = next_group /\ r = g.req /\ n = Len(metadata) + 1
  OBVIOUS
<1>1. NextGroupOK(g)
  BY NextGroupFacts
<1>2. /\ metadata' = Append(metadata, m)
      /\ UNCHANGED <<prompt, waiting, running, num_computed, batch, num_batched, mode>>
      /\ \A q \in Request \ {r} :
           capture_targets'[q] = capture_targets[q] /\ restore_keys'[q] = restore_keys[q]
      /\ n # Len(batch) => kv' = kv /\ phase' = "metadata"
      /\ n = Len(batch) => phase' = "execute"
  BY DEF MetadataFrame
<1>3. /\ metadata \in Seq(Metadata) /\ metadata' \in Seq(Metadata) /\ Len(metadata') = n
      /\ DOMAIN metadata = 1 .. n - 1 /\ DOMAIN metadata' = 1 .. n /\ metadata'[n] = m
      /\ n \in Nat \ {0} /\ \A i \in 1 .. n - 1 : metadata'[i] = metadata[i]
  BY <1>2 DEF GdnInv, TypeOK
<1>4. Sending /\ ~ Scheduling /\ Sending' /\ ~ Scheduling' /\ phase' \in {"metadata", "execute"}
  BY <1>2 DEF Sending, Scheduling
<1>5. /\ n <= Len(batch) /\ Len(batch) \in Nat /\ g = batch[n] /\ batch \in Seq(Group)
      /\ r \in Request /\ prompt[r] \in Prompt /\ m.req = r /\ Query(m) = Cost(g) /\ g \in Rest
  BY <1>1, <1>3 DEF NextGroupOK, GdnInv, TypeOK
<1>6. Rest' = Rest \ {g}
  <2>1. n + 1 = Len(metadata) + 2
    BY <1>3
  <2>2. Rest' = {batch[i] : i \in n + 1 .. Len(batch)}
    BY <1>2, <1>3 DEF Rest
  <2>3. QED
    BY <1>1, <2>1, <2>2 DEF NextGroupOK
<1>7. n = Len(batch) => Rest' = {}
  <2>1. Rest' = {batch[i] : i \in n + 1 .. Len(batch)}
    BY <1>2, <1>3 DEF Rest
  <2>2. QED
    BY <1>3, <2>1
<1>8. \A h \in Rest' : (GroupOK(h) => GroupOK(h)') /\ Cost(h)' = Cost(h)
  <2> SUFFICES ASSUME NEW h \in Rest' PROVE (GroupOK(h) => GroupOK(h)') /\ Cost(h)' = Cost(h)
    OBVIOUS
  <2>1. h \in Group /\ h.req # r /\ h.req \in Request
    BY <1>1, <1>6 DEF NextGroupOK, Group
  <2>2. kv' = kv
    BY <1>2, <1>7
  <2>3. QED
    BY <1>2, <2>1, <2>2, GroupFrame
<1>9. QueueInv'
  <2>1. ASSUME NEW q \in ToSet(running) PROVE RequestOK(q)' \/ (Sending' /\ InBatch(q)')
    <3>1. q \in Request /\ (RequestOK(q) \/ InBatch(q))
      BY <1>4, TypeFacts DEF GdnInv, QueueInv
    <3>2. InBatch(q) => InBatch(q)'
      BY <1>2 DEF InBatch
    <3>3. CASE q = r
      BY <1>1, <1>4, <3>2, <3>3 DEF NextGroupOK
    <3>4. CASE q # r
      <4>1. RequestOK(q) => RequestOK(q)'
        BY <1>2, <3>1, <3>4 DEF RequestOK
      <4>2. QED
        BY <1>4, <3>1, <3>2, <4>1
    <3>5. QED
      BY <3>3, <3>4
  <2>2. QED
    BY <1>2, <2>1 DEF GdnInv, QueueInv
<1>10. BatchInv'
  <2>1. /\ IsInjective(batch') /\ \A h, i \in ToSet(batch') : h.req = i.req => h = i
        /\ \A h \in ToSet(batch') : h.req \in ToSet(running') /\ h.kind # "preempted"
    BY <1>2, <1>4 DEF GdnInv, BatchInv
  <2>2. \A h \in Rest' : GroupOK(h)'
    BY <1>6, <1>8 DEF GdnInv, BatchInv
  <2>3. ASSUME NEW i \in DOMAIN metadata' PROVE metadata'[i].req = batch'[i].req /\ MetaOK(metadata[i])'
    <3>1. CASE i = n
      <4>1. MetaOK(metadata[i])'
        BY <1>3, <3>1
      <4>2. QED
        BY <1>2, <1>3, <1>5, <3>1, <4>1
    <3>2. CASE i # n
      <4>1. i \in DOMAIN metadata /\ metadata'[i] = metadata[i]
        BY <1>3, <2>3, <3>2
      <4>2. metadata[i].req = batch[i].req /\ MetaOK(metadata[i])
        BY <1>4, <4>1 DEF GdnInv, BatchInv
      <4>3. PICK o : o = metadata[i]
        OBVIOUS
      <4>4. o.req # r /\ o.req \in Request
        BY <1>1, <4>1, <4>3, MetadataFacts DEF NextGroupOK
      <4>5. MetaOK(o)'
        BY <1>2, <4>2, <4>3, <4>4, MetaFrame
      <4>6. QED
        BY <1>2, <4>1, <4>2, <4>3, <4>5
    <3>3. QED
      BY <3>1, <3>2
  <2>4. Len(metadata') <= Len(batch') /\ (n # Len(batch) => Len(metadata') < Len(batch'))
    BY <1>2, <1>3, <1>5
  <2>5. (phase' = "execute" => Len(metadata') = Len(batch'))
        /\ (phase' = "metadata" => Len(metadata') < Len(batch'))
    BY <1>2, <1>3, <2>4
  <2>6. QED
    BY <1>4, <2>1, <2>2, <2>3, <2>4, <2>5 DEF BatchInv
<1>11. BudgetInv'
  <2>1. PICK e, f : e = [h \in Rest |-> Cost(h)] /\ f = [h \in Rest' |-> Cost(h)']
    OBVIOUS
  <2>2. PICK q, q2 : q = [i \in DOMAIN metadata |-> Query(metadata[i])]
                     /\ q2 = [i \in DOMAIN metadata |-> Query(metadata[i])]'
    OBVIOUS
  <2>3. SumFunctionOnSet(q, DOMAIN metadata) + SumFunctionOnSet(e, Rest) <= num_batched
    BY <2>1, <2>2 DEF GdnInv, BudgetInv
  <2>4. /\ IsFiniteSet(Rest) /\ IsFiniteSet(Rest') /\ IsFiniteSet(1 .. n - 1) /\ n \notin 1 .. n - 1
        /\ 1 .. n = (1 .. n - 1) \cup {n}
    <3>1. IsFiniteSet(1 .. n - 1)
      <4>1. 1 \in Int /\ n - 1 \in Int
        BY <1>3
      <4>2. QED
        BY <4>1, FS_Interval
    <3>2. IsFiniteSet(Rest)
      BY <1>1 DEF NextGroupOK
    <3>3. QED
      BY <1>3, <1>6, <3>1, <3>2, FS_Subset
  <2>5. \A h \in Rest : e[h] \in Int
    BY <1>1, <2>1, CostType DEF NextGroupOK, GdnInv
  <2>7. \A i \in 1 .. n : q2[i] = Query(metadata'[i])
    <3>1. \A i \in DOMAIN metadata' : q2[i] = Query(metadata[i])'
      BY <2>2
    <3>2. \A i \in DOMAIN metadata' : Query(metadata[i])' = Query(metadata'[i])
      BY DEF Query, query_len, worker_context
    <3>3. QED
      BY <1>3, <3>1, <3>2
  <2>8. q2[n] = Cost(g) /\ Cost(g) \in Int /\ \A i \in 1 .. n - 1 : q2[i] = q[i] /\ q[i] \in Int
    <3>1. \A i \in 1 .. n - 1 : q[i] = Query(metadata[i]) /\ Query(metadata[i]) \in Int
      BY <1>3, <2>2, MetadataFacts
    <3>2. Cost(g) \in Int
      BY <1>1, CostType DEF NextGroupOK, GdnInv
    <3>3. QED
      BY <1>3, <1>5, <2>7, <3>1, <3>2
  <2>9. SumFunctionOnSet(q2, 1 .. n) = Cost(g) + SumFunctionOnSet(q, 1 .. n - 1)
    <3>1. SumFunctionOnSet(q2, (1 .. n - 1) \cup {n}) = q2[n] + SumFunctionOnSet(q2, 1 .. n - 1)
      <4>1. \A i \in (1 .. n - 1) \cup {n} : q2[i] \in Int
        BY <2>8
      <4>2. QED
        BY <2>4, <4>1, SumAdd
    <3>2. SumFunctionOnSet(q2, 1 .. n - 1) = SumFunctionOnSet(q, 1 .. n - 1)
      BY <2>4, <2>8, SumSame
    <3>3. QED
      BY <2>4, <2>8, <3>1, <3>2
  <2>10. SumFunctionOnSet(e, Rest) = Cost(g) + SumFunctionOnSet(f, Rest')
    <3>1. e[g] = Cost(g)
      BY <1>5, <2>1
    <3>2. SumFunctionOnSet(e, Rest) = e[g] + SumFunctionOnSet(e, Rest \ {g})
      BY <1>5, <2>4, <2>5, SumRemove
    <3>3. \A h \in Rest' : f[h] \in Int /\ f[h] = e[h]
      BY <1>6, <1>8, <2>1, <2>5
    <3>4. SumFunctionOnSet(f, Rest') = SumFunctionOnSet(e, Rest')
      BY <2>4, <3>3, SumSame
    <3>5. QED
      BY <1>6, <3>1, <3>2, <3>4
  <2>11. SumFunctionOnSet(q, 1 .. n - 1) \in Int /\ SumFunctionOnSet(f, Rest') \in Int
    <3>1. \A h \in Rest' : f[h] \in Int
      BY <1>6, <1>8, <2>1, <2>5
    <3>2. QED
      BY <2>4, <2>8, <3>1, SumInt
  <2>12. SumFunctionOnSet(q2, 1 .. n) + SumFunctionOnSet(f, Rest') <= num_batched
    <3>1. num_batched \in Int /\ DOMAIN metadata = 1 .. n - 1
      BY <1>3 DEF GdnInv, TypeOK
    <3>2. QED
      BY <2>3, <2>8, <2>9, <2>10, <2>11, <3>1
  <2>13. QED
    BY <1>2, <1>3, <2>1, <2>2, <2>12 DEF BudgetInv
<1>12. QED
  BY <1>9, <1>10, <1>11

\* The index after the keys of a step are admitted.
AdmitOK(C, a) ==
    /\ LruOK(a) /\ C \subseteq a.resident /\ a.resident \subseteq resident \cup C
    /\ GdnCapacity >= 2 => \A j \in resident : Newest(policy, j) => j \in a.resident

LEMMA AdmitStep ==
    ASSUME LruOK(policy), NEW C, C \subseteq Key, \A j, k \in C : j = k
    PROVE  AdmitOK(C, admit(policy, C))
<1>1. policy.resident = resident
  BY DEF policy
<1>2. CASE C = {}
  <2>1. admit(policy, C) = policy
    BY <1>2, AdmitFacts
  <2>2. AdmitOK(C, policy)
    BY <1>1, <1>2 DEF AdmitOK
  <2>3. QED
    BY <2>1, <2>2
<1>3. CASE C # {}
  <2>1. PICK k \in C : C = {k}
    BY <1>3
  <2>2. k \in Key
    OBVIOUS
  <2>3. admit(policy, C) = admit_key(policy, k)
    BY <2>1, <2>2, AdmitFacts
  <2>4. PICK a : a = admit_key(policy, k)
    OBVIOUS
  <2>5. LruOK(a) /\ k \in a.resident /\ a.resident \subseteq resident \cup {k}
        /\ (GdnCapacity >= 2 => \A j \in resident : Newest(policy, j) => j \in a.resident)
    BY <1>1, <2>2, <2>4, AdmitKeyFacts
  <2>6. AdmitOK(C, a)
    BY <2>1, <2>5 DEF AdmitOK
  <2>7. QED
    BY <2>3, <2>4, <2>6
<1>4. QED
  BY <1>2, <1>3

\* What is marked computed are prefixes of prompts.
LEMMA MarkedKeys ==
    ASSUME GdnInv, phase = "metadata"
    PROVE  marked \subseteq Key
<1>1. \A i \in DOMAIN batch : prompt[batch[i].req] \in Prompt
  <2> SUFFICES ASSUME NEW i \in DOMAIN batch PROVE prompt[batch[i].req] \in Prompt
    OBVIOUS
  <2>1. batch \in Seq(Group) /\ metadata \in Seq(Metadata) /\ Sending
    BY DEF GdnInv, TypeOK, Sending
  <2>2. batch[i].req \in Request /\ i \in 1 .. Len(batch)
    <3>1. batch[i] \in Group /\ i \in 1 .. Len(batch)
      BY <2>1
    <3>2. QED
      BY <3>1 DEF Group
  <2>3. CASE i \in DOMAIN metadata
    <3>1. metadata[i].req = batch[i].req
      BY <2>1, <2>3 DEF GdnInv, BatchInv
    <3>2. QED
      BY <2>3, <3>1, MetadataFacts
  <2>4. CASE i \notin DOMAIN metadata
    <3>1. i \in Len(metadata) + 1 .. Len(batch)
      BY <2>1, <2>2, <2>4
    <3>2. GroupOK(batch[i])
      BY <3>1 DEF GdnInv, BatchInv, Rest
    <3>3. QED
      BY <2>2, <3>2, TypeFacts DEF GdnInv, GroupOK
  <2>5. QED
    BY <2>3, <2>4
<1>2. \A i \in DOMAIN batch : prefixes(prompt[batch[i].req]) \subseteq Key
  BY <1>1, KeyFacts
<1>3. QED
  BY <1>2 DEF marked, GdnInv, TypeOK

LEMMA DecodeKeeps ==
    ASSUME GdnInv, BuildMetadata, next_group.kind = "decode"
    PROVE  GdnInv'
<1> PICK g, r, m : g = next_group /\ r = g.req /\ m = DecodeMetadata(g)
  OBVIOUS
<1>1. NextGroupOK(g) /\ phase = "metadata"
  BY NextGroupFacts DEF BuildMetadata
<1>2. g \in Group /\ GroupOK(g) /\ g.kind = "decode" /\ r \in Request /\ prompt[r] \in Prompt
  BY <1>1 DEF NextGroupOK
<1>3. RequestOK(r) /\ num_computed[r] = prompt_len(prompt[r]) /\ g.chunk = 1
  BY <1>2 DEF GroupOK
<1>4. ~ IsPrefill(r)
  BY <1>2, <1>3, PromptFacts DEF IsPrefill
<1>5. /\ metadata' = Append(metadata, m)
      /\ UNCHANGED <<mode, resident, lru, restore_keys, capture_targets, saved, mamba>>
      /\ UNCHANGED <<prompt, waiting, running, num_computed, batch, num_batched>>
      /\ kv' = IF Len(metadata) + 1 = Len(batch) THEN marked ELSE kv
      /\ phase' = IF Len(metadata) + 1 = Len(batch) THEN "execute" ELSE "metadata"
  BY <1>4 DEF BuildMetadata, policyVars, workerVars
<1>6. m \in Metadata /\ m.req = r /\ ~ m.is_prompt /\ m.restore = None /\ m.capture = {} /\ m.evict = {}
  BY <1>2 DEF DecodeMetadata, Metadata
<1>7. MetaOK(m)'
  BY <1>3, <1>5, <1>6 DEF MetaOK, RequestOK
<1>8. Query(m) = Cost(g)
  BY <1>2, <1>3, <1>6 DEF Query, Cost
<1>9. MetadataFrame(r, m)
  BY <1>5 DEF MetadataFrame
<1>10. QueueInv' /\ BatchInv' /\ BudgetInv'
  BY <1>1, <1>6, <1>7, <1>8, <1>9, MetadataStep
<1>11. TypeOK'
  <2>1. metadata' \in Seq(Metadata)
    BY <1>5, <1>6 DEF GdnInv, TypeOK
  <2>2. kv' \subseteq Key
    BY <1>1, <1>5, MarkedKeys DEF GdnInv, TypeOK
  <2>3. QED
    BY <1>5, <2>1, <2>2 DEF GdnInv, TypeOK
<1>12. IndexInv'
  <2>1. metadata \in Seq(Metadata)
    BY DEF GdnInv, TypeOK
  <2>2. /\ DOMAIN metadata' = DOMAIN metadata \cup {Len(metadata) + 1}
        /\ metadata'[Len(metadata) + 1] = m /\ \A i \in DOMAIN metadata : metadata'[i] = metadata[i]
    BY <1>5, <2>1
  <2>3. prompts_in_batch' = prompts_in_batch
    BY <1>6, <2>1, <2>2 DEF prompts_in_batch
  <2>4. \A i \in DOMAIN metadata' : prompts_in_batch' = {i} => i \in DOMAIN metadata
    BY <2>3 DEF prompts_in_batch
  <2>5. PendingInv'
    BY <1>5, <2>2, <2>3, <2>4 DEF GdnInv, IndexInv, PendingInv, Saved
  <2>6. LruOK(policy)'
    BY <1>5 DEF GdnInv, IndexInv, LruOK, policy
  <2>7. QED
    BY <2>5, <2>6 DEF IndexInv
<1>13. QED
  BY <1>10, <1>11, <1>12 DEF GdnInv

\* The metadata of a prefill group.
PromptStepOK(g, end, C, admitted, m) ==
    /\ metadata' = Append(metadata, m)
    /\ m.req = g.req /\ m.is_prompt /\ m.capture = C /\ m.evict = resident \ admitted.resident
    /\ m.restore = (IF num_computed[g.req] = 0 THEN restore_keys[g.req] ELSE None)
    /\ m.segments = segments_of(g.req, end) /\ m.context = physical_context(g.req) /\ m.end = end
    /\ m \in Metadata
    /\ PrefillOK(g, end) /\ CaptureOK(g.req, end) /\ C = capture_of(g.req, end)
    /\ AdmitOK(C, admitted) /\ resident' = admitted.resident /\ lru' = admitted.lru
    /\ segments_of(g.req, end) \subseteq 1 .. end - physical_context(g.req) - 1
    /\ UNCHANGED <<mode, saved, mamba, prompt, waiting, running, num_computed, batch, num_batched>>
    /\ restore_keys' \in {restore_keys, [restore_keys EXCEPT ![g.req] = None]}
    /\ capture_targets' \in {capture_targets, [capture_targets EXCEPT ![g.req] = {}]}
    /\ kv' = IF Len(metadata) + 1 = Len(batch) THEN marked ELSE kv
    /\ phase' = IF Len(metadata) + 1 = Len(batch) THEN "execute" ELSE "metadata"

LEMMA MetadataType ==
    ASSUME NEW r \in Request, NEW restore \in Key \cup {None}, NEW capture \in SUBSET Key,
           NEW evict \in SUBSET Key, NEW segments \in SUBSET Nat, NEW context \in Nat, NEW end \in Nat
    PROVE  [req |-> r, is_prompt |-> TRUE, restore |-> restore, capture |-> capture,
            evict |-> evict, segments |-> segments, context |-> context, end |-> end] \in Metadata
  BY DEF Metadata

LEMMA PromptStep ==
    ASSUME GdnInv, BuildMetadata, next_group.kind # "decode"
    PROVE  \E end, C, admitted, m : PromptStepOK(next_group, end, C, admitted, m)
<1>1. PICK g, r : g = next_group /\ r = g.req
  OBVIOUS
<1>2. PICK end, C : /\ end = Min({prompt_len(prompt[r]), num_computed[r] + g.chunk})
                    /\ C = capture_of(r, end)
  OBVIOUS
<1>3. PICK admitted, m : admitted = admit(policy, C) /\ m = PrefillMetadata(g, admitted)
  OBVIOUS
<1>4. NextGroupOK(g) /\ phase = "metadata"
  BY <1>1, NextGroupFacts DEF BuildMetadata
<1>5. g \in Group /\ GroupOK(g) /\ g.kind \in {"new", "prefill"} /\ r \in Request /\ prompt[r] \in Prompt
  BY <1>1, <1>4 DEF NextGroupOK
<1>6. PrefillOK(g, end)
  BY <1>1, <1>2, <1>5, PrefillFacts DEF GdnInv
<1>7. end \in Nat \ {0} /\ physical_context(r) \in Nat
  BY <1>1, <1>5, <1>6, PromptFacts DEF PrefillOK
<1>8. CaptureOK(r, end) /\ segments_of(r, end) \subseteq 1 .. end - physical_context(r) - 1
  BY <1>1, <1>5, <1>6, <1>7, CaptureFacts, SegmentFacts DEF PrefillOK, GdnInv, TypeOK
<1>9. AdmitOK(C, admitted)
  <2>1. LruOK(policy) /\ C \subseteq Key /\ \A j, k \in C : j = k
    BY <1>2, <1>8 DEF GdnInv, IndexInv, CaptureOK
  <2>2. QED
    BY <1>3, <2>1, AdmitStep
<1>10. /\ metadata' = Append(metadata, m)
       /\ resident' = admitted.resident /\ lru' = admitted.lru /\ mode' = mode
       /\ restore_keys' \in {restore_keys, [restore_keys EXCEPT ![r] = None]}
       /\ capture_targets' \in {capture_targets, [capture_targets EXCEPT ![r] = {}]}
       /\ kv' = IF Len(metadata) + 1 = Len(batch) THEN marked ELSE kv
       /\ phase' = IF Len(metadata) + 1 = Len(batch) THEN "execute" ELSE "metadata"
  BY <1>1, <1>2, <1>3, <1>6 DEF BuildMetadata, PrefillOK
<1>11. UNCHANGED <<mode, saved, mamba, prompt, waiting, running, num_computed, batch, num_batched>>
  BY <1>10 DEF BuildMetadata, workerVars
<1>12. PICK restore, evict, segments, context :
         /\ restore = (IF num_computed[r] = 0 THEN restore_keys[r] ELSE None)
         /\ evict = resident \ admitted.resident /\ segments = segments_of(r, end)
         /\ context = physical_context(r)
  OBVIOUS
<1>13. m = [req |-> r, is_prompt |-> TRUE, restore |-> restore, capture |-> C,
            evict |-> evict, segments |-> segments, context |-> context, end |-> end]
  BY <1>1, <1>2, <1>3, <1>12 DEF PrefillMetadata
<1>14. m \in Metadata
  <2>1. restore \in Key \cup {None}
    BY <1>5, <1>12 DEF GdnInv, TypeOK
  <2>2. C \in SUBSET Key /\ evict \in SUBSET Key
    BY <1>2, <1>8, <1>12 DEF GdnInv, TypeOK, CaptureOK
  <2>3. segments \in SUBSET Nat
    <3>1. segments \subseteq 1 .. end - context - 1 /\ end - context - 1 \in Int
      BY <1>7, <1>8, <1>12
    <3>2. \A x \in segments : x \in Nat
      BY <3>1
    <3>3. QED
      BY <3>2
  <2>4. context \in Nat /\ end \in Nat /\ r \in Request
    BY <1>5, <1>7, <1>12
  <2>5. QED
    BY <1>13, <2>1, <2>2, <2>3, <2>4, MetadataType
<1>15. /\ m.req = r /\ m.is_prompt /\ m.capture = C /\ m.evict = resident \ admitted.resident
       /\ m.restore = (IF num_computed[r] = 0 THEN restore_keys[r] ELSE None)
       /\ m.segments = segments_of(r, end) /\ m.context = physical_context(r) /\ m.end = end
  BY <1>12, <1>13
<1>16. PromptStepOK(g, end, C, admitted, m)
  BY <1>1, <1>2, <1>6, <1>8, <1>9, <1>10, <1>11, <1>14, <1>15 DEF PromptStepOK
<1>17. QED
  BY <1>1, <1>16

LEMMA PromptKeeps ==
    ASSUME GdnInv, BuildMetadata, next_group.kind # "decode"
    PROVE  GdnInv'
<1>1. PICK g, r : g = next_group /\ r = g.req
  OBVIOUS
<1>2. PICK end, C, admitted, m : PromptStepOK(g, end, C, admitted, m)
  BY <1>1, PromptStep
<1>3. NextGroupOK(g) /\ phase = "metadata"
  BY <1>1, NextGroupFacts DEF BuildMetadata
<1>4. r \in Request /\ prompt[r] \in Prompt /\ prompt[r] # None
  BY <1>1, <1>3, PromptFacts DEF NextGroupOK
<1>5. /\ metadata' = Append(metadata, m) /\ m \in Metadata /\ m.req = r /\ m.is_prompt
      /\ UNCHANGED <<mode, saved, mamba, prompt, waiting, running, num_computed, batch, num_batched>>
      /\ kv' = IF Len(metadata) + 1 = Len(batch) THEN marked ELSE kv
      /\ phase' = IF Len(metadata) + 1 = Len(batch) THEN "execute" ELSE "metadata"
      /\ restore_keys' \in {restore_keys, [restore_keys EXCEPT ![r] = None]}
      /\ capture_targets' \in {capture_targets, [capture_targets EXCEPT ![r] = {}]}
  BY <1>1, <1>2 DEF PromptStepOK
<1>6. /\ m.capture = C /\ m.evict = resident \ admitted.resident
      /\ AdmitOK(C, admitted) /\ resident' = admitted.resident /\ lru' = admitted.lru
  BY <1>2 DEF PromptStepOK
<1>7. PromptMetaOK(m)
  <2>1. PrefillOK(g, end) /\ CaptureOK(r, end) /\ C = capture_of(r, end)
    BY <1>1, <1>2 DEF PromptStepOK
  <2>2. /\ m.restore = (IF num_computed[r] = 0 THEN restore_keys[r] ELSE None)
        /\ m.context = physical_context(r) /\ m.end = end
        /\ m.segments \subseteq 1 .. m.end - m.context - 1
    BY <1>1, <1>2 DEF PromptStepOK
  <2>3. m.end \in num_computed[r] + 1 .. prompt_len(prompt[r]) /\ m.context < m.end
    BY <1>1, <2>1, <2>2 DEF PrefillOK
  <2>4. m.restore = None => m.context = num_computed[r]
    BY <1>1, <2>1, <2>2 DEF PrefillOK, physical_context
  <2>5. m.restore # None => /\ num_computed[r] = 0 /\ m.restore \in prefixes(prompt[r])
                            /\ m.context = Len(m.restore) * BlockSize
    BY <1>1, <2>1, <2>2 DEF PrefillOK, RestoreOK, physical_context
  <2>6. /\ m.capture \subseteq prefixes(prompt[r]) /\ \A j, k \in m.capture : j = k
        /\ \A k \in m.capture : m.context < Len(k) * BlockSize /\ Len(k) * BlockSize <= m.end
        /\ Policy = "admission64" => \A k \in m.capture : Len(k) * BlockSize = m.end
    BY <1>6, <2>1, <2>2 DEF CaptureOK
  <2>7. QED
    BY <1>5, <2>2, <2>3, <2>4, <2>5, <2>6 DEF PromptMetaOK
<1>8. capture_targets[r] \subseteq prefixes(prompt[r])
  BY <1>1, <1>2 DEF PromptStepOK, PrefillOK
<1>9. MetaOK(m)
  BY <1>4, <1>5, <1>7, <1>8 DEF MetaOK
<1>10. MetaOK(m)'
  <2>1. PromptMetaOK(m)'
    BY <1>5, <1>7 DEF PromptMetaOK, Policy
  <2>2. capture_targets'[r] \subseteq prefixes(prompt'[r])
    BY <1>4, <1>5, <1>8 DEF GdnInv, TypeOK
  <2>3. QED
    BY <1>4, <1>5, <2>1, <2>2 DEF MetaOK
<1>11. Query(m) = Cost(g)
  <2>1. query_len(m) = m.end - m.context
    BY <1>4, <1>5, <1>9, QueryFacts
  <2>2. Cost(g) = m.end - m.context
    BY <1>2 DEF PromptStepOK, PrefillOK
  <2>3. QED
    BY <1>5, <2>1, <2>2 DEF Query
<1>12. MetadataFrame(r, m)
  <2>1. \A q \in Request \ {r} :
          capture_targets'[q] = capture_targets[q] /\ restore_keys'[q] = restore_keys[q]
    BY <1>5 DEF GdnInv, TypeOK
  <2>2. QED
    BY <1>5, <2>1 DEF MetadataFrame
<1>13. QueueInv' /\ BatchInv' /\ BudgetInv'
  BY <1>1, <1>3, <1>5, <1>10, <1>11, <1>12, MetadataStep
<1>14. LruOK(policy)'
  <2>1. policy'.resident = admitted.resident /\ policy'.lru = admitted.lru
    BY <1>6 DEF policy
  <2>2. QED
    BY <1>6, <2>1 DEF AdmitOK, LruOK
<1>15. TypeOK'
  <2>1. metadata' \in Seq(Metadata)
    BY <1>5 DEF GdnInv, TypeOK
  <2>2. kv' \subseteq Key
    BY <1>3, <1>5, MarkedKeys DEF GdnInv, TypeOK
  <2>3. resident' \subseteq Key /\ lru' \subseteq Key \X Key
    <3>1. resident' \subseteq Key /\ lru' \subseteq resident' \X resident'
      BY <1>14 DEF LruOK, policy
    <3>2. QED
      BY <3>1
  <2>4. restore_keys' \in [Request -> Key \cup {None}] /\ capture_targets' \in [Request -> SUBSET Key]
    BY <1>5 DEF GdnInv, TypeOK
  <2>5. phase' \in {"idle", "schedule", "prefill", "metadata", "execute"}
    BY <1>5
  <2>6. QED
    BY <1>5, <2>1, <2>2, <2>3, <2>4, <2>5 DEF GdnInv, TypeOK
<1>16. PendingInv'
  <2>1. metadata \in Seq(Metadata)
    BY DEF GdnInv, TypeOK
  <2>2. PICK n : n = Len(metadata) + 1
    OBVIOUS
  <2>3. /\ DOMAIN metadata' = DOMAIN metadata \cup {n} /\ n \notin DOMAIN metadata
        /\ metadata'[n] = m /\ \A i \in DOMAIN metadata : metadata'[i] = metadata[i]
    BY <1>5, <2>1, <2>2
  <2>4. prompts_in_batch' = prompts_in_batch \cup {n} /\ n \notin prompts_in_batch
    BY <1>5, <2>3 DEF prompts_in_batch
  <2>5. ASSUME NEW i \in DOMAIN metadata', prompts_in_batch' = {i}
        PROVE  /\ resident' = (Saved \ m.evict) \cup m.capture
               /\ m.capture \cap m.evict = {} /\ metadata'[i] = m
    <3>1. i = n /\ prompts_in_batch = {}
      BY <2>4, <2>5
    <3>2. resident = Saved
      BY <3>1 DEF GdnInv, IndexInv, PendingInv
    <3>3. C \subseteq admitted.resident /\ admitted.resident \subseteq resident \cup C
      BY <1>6 DEF AdmitOK
    <3>4. QED
      BY <1>6, <2>3, <3>1, <3>2, <3>3
  <2>6. Saved' = Saved
    BY <1>5 DEF Saved
  <2>7. QED
    BY <2>4, <2>5, <2>6 DEF PendingInv
<1>17. QED
  BY <1>13, <1>14, <1>15, <1>16 DEF GdnInv, IndexInv

LEMMA BuildMetadataKeeps ==
    ASSUME GdnInv, BuildMetadata
    PROVE  GdnInv'
  BY DecodeKeeps, PromptKeeps

----------------------------------------------------------------------------
(* The forward pass *)

\* The state after some tokens of a prompt is a state.
LEMMA StateFacts ==
    /\ \A p \in Prompt : \A t \in 0 .. prompt_len(p) : State(p, t) \in StateValue
    /\ Zero \in StateValue /\ Garbage \in StateValue
    /\ \A s \in StateValue : s # None
<1>1. ASSUME NEW p \in Prompt, NEW t \in 0 .. prompt_len(p)
      PROVE  State(p, t) \in StateValue
  <2> DEFINE n == t \div BlockSize
             m == Len(p.blocks)
  <2>1. /\ t \in Nat /\ BlockSize \in Nat \ {0} /\ m \in Nat /\ m * BlockSize \in Nat
        /\ t <= prompt_len(p) /\ prompt_len(p) < m * BlockSize + BlockSize /\ prompt_len(p) \in Nat
    BY PromptFacts, GdnAssumption
  <2>2. n \in Nat /\ t = BlockSize * n + (t % BlockSize) /\ t % BlockSize \in 0 .. BlockSize - 1
    BY <2>1, DivMod
  <2> DEFINE x == n * BlockSize
             y == m * BlockSize
             r == t % BlockSize
  <2> HIDE DEF n, m, r
  <2>3. BlockSize * n = x /\ x \in Int
    BY <2>1, <2>2
  <2>4. m < n => y + BlockSize <= x
    BY <2>1, <2>2, Scale
  <2>5. t = x + r /\ r \in 0 .. BlockSize - 1
    BY <2>2, <2>3 DEF r
  <2>6. y \in Nat /\ prompt_len(p) < y + BlockSize
    BY <2>1
  <2> HIDE DEF x, y
  <2>7. ~ (m < n)
    BY <2>1, <2>3, <2>4, <2>5, <2>6
  <2>8. n \in 0 .. m
    BY <2>1, <2>2, <2>7
  <2>9. PrefixOf(p, n) = <<>> \/ PrefixOf(p, n) \in prefixes(p)
    BY <2>8, PrefixFacts DEF m
  <2>10. PrefixOf(p, n) \in Key \cup {<<>>}
    BY <2>9, KeyFacts
  <2>11. QED
    BY <2>1, <2>10 DEF State, StateValue, n
<1>2. Zero \in StateValue /\ Garbage \in StateValue
  BY DEF Zero, Garbage, StateValue
<1>3. ASSUME NEW s \in StateValue PROVE s # None
  <2>1. <<>> \in Seq(Content) /\ \A k \in Key : k \in Seq(Content)
    BY KeyFacts
  <2>2. s \in [tokens : Int, blocks : Seq(Content)]
    BY <2>1 DEF StateValue
  <2>3. QED
    BY <2>2, GdnAssumption
<1>4. QED
  BY <1>1, <1>2, <1>3

\* What a forward pass does to the tokens and the state of each request.
RequestStep(r) ==
    \/ \E i \in prompts_in_batch :
         /\ metadata[i].req = r /\ num_computed'[r] = metadata[i].end
         /\ mamba'[r] = state_at(metadata[i], metadata[i].end)
    \/ /\ num_computed'[r] = num_computed[r] /\ mamba'[r] = mamba[r]
       /\ \A i \in prompts_in_batch : metadata[i].req # r

\* ... and to each saved state.
SavedStep(k) ==
    \/ \E i \in prompts_in_batch : /\ k \in metadata[i].capture
                                   /\ saved'[k] = state_at(metadata[i], Len(k) * BlockSize)
    \/ /\ \A i \in DOMAIN metadata : k \notin metadata[i].capture
       /\ \E i \in prompts_in_batch : k \in metadata[i].evict
       /\ saved'[k] = None
    \/ /\ \A i \in DOMAIN metadata : k \notin metadata[i].capture /\ k \notin metadata[i].evict
       /\ saved'[k] = saved[k]

LEMMA ExecuteFacts ==
    ASSUME GdnInv, Execute
    PROVE  /\ \A r \in Request : RequestStep(r)
           /\ \A k \in Key : SavedStep(k)
           /\ prompts_in_batch = {} \/ \E i \in DOMAIN metadata : prompts_in_batch = {i}
<1>1. \A i \in DOMAIN metadata : metadata[i].capture # {} \/ metadata[i].evict # {} => i \in prompts_in_batch
  BY MetadataFacts DEF MetaOK, prompts_in_batch
<1>2. ASSUME NEW r \in Request PROVE RequestStep(r)
  <2> DEFINE P == \E i \in prompts_in_batch : metadata[i].req = r
             c == CHOOSE i \in prompts_in_batch : metadata[i].req = r
  <2>1. /\ num_computed'[r] = IF P THEN metadata[c].end ELSE num_computed[r]
        /\ mamba'[r] = IF P THEN state_at(metadata[c], metadata[c].end) ELSE mamba[r]
    BY DEF Execute
  <2>2. P => c \in prompts_in_batch /\ metadata[c].req = r
    OBVIOUS
  <2>3. CASE P
    <3> HIDE DEF c
    <3>1. QED
      BY <2>1, <2>2, <2>3 DEF RequestStep
  <2>4. CASE ~ P
    BY <2>1, <2>4 DEF RequestStep
  <2>5. QED
    BY <2>3, <2>4
<1>3. ASSUME NEW k \in Key PROVE SavedStep(k)
  <2> DEFINE P == \E i \in DOMAIN metadata : k \in metadata[i].capture
             c == CHOOSE i \in DOMAIN metadata : k \in metadata[i].capture
             Q == \E i \in DOMAIN metadata : k \in metadata[i].evict
  <2>1. saved'[k] = IF P THEN state_at(metadata[c], worker_context(metadata[c]) + offset(metadata[c], k))
                    ELSE IF Q THEN None ELSE saved[k]
    BY DEF Execute
  <2>2. CASE P
    <3>1. c \in DOMAIN metadata /\ k \in metadata[c].capture
      BY <2>2
    <3> HIDE DEF c, P, Q
    <3>2. PICK m : m = metadata[c]
      OBVIOUS
    <3>3. m.is_prompt /\ c \in prompts_in_batch
      BY <1>1, <3>1, <3>2 DEF prompts_in_batch
    <3>4. worker_context(m) = m.context /\ m.context \in Nat
      BY <3>1, <3>2, <3>3, MetadataFacts, QueryFacts DEF Metadata
    <3>5. Len(k) * BlockSize \in Nat
      <4>1. Len(k) \in Nat /\ BlockSize \in Nat \ {0}
        BY KeyFacts, GdnAssumption
      <4>2. QED
        BY <4>1, Scale
    <3>6. worker_context(m) + offset(m, k) = Len(k) * BlockSize
      <4> DEFINE x == Len(k) * BlockSize
      <4>1. offset(m, k) = x - m.context
        BY DEF offset
      <4> HIDE DEF x
      <4>2. x \in Nat
        BY <3>5 DEF x
      <4>3. worker_context(m) + offset(m, k) = x
        BY <3>4, <4>1, <4>2
      <4>4. QED
        BY <4>3 DEF x
    <3>7. saved'[k] = state_at(metadata[c], Len(k) * BlockSize)
      BY <2>1, <2>2, <3>2, <3>6
    <3>8. QED
      BY <3>1, <3>3, <3>7 DEF SavedStep
  <2>3. CASE ~ P /\ Q
    BY <1>1, <2>1, <2>3 DEF SavedStep
  <2>4. CASE ~ P /\ ~ Q
    BY <2>1, <2>4 DEF SavedStep
  <2>5. QED
    BY <2>2, <2>3, <2>4
<1>4. prompts_in_batch = {} \/ \E i \in DOMAIN metadata : prompts_in_batch = {i}
  <2> SUFFICES ASSUME prompts_in_batch # {} PROVE \E i \in DOMAIN metadata : prompts_in_batch = {i}
    OBVIOUS
  <2>1. ~ (Cardinality(prompts_in_batch) > 1)
    BY DEF Execute, step_raises
  <2>2. PICK i \in prompts_in_batch : TRUE
    OBVIOUS
  <2>3. i \in DOMAIN metadata
    BY DEF prompts_in_batch
  <2>4. ASSUME NEW j \in prompts_in_batch, j # i PROVE FALSE
    <3>1. Cardinality({i} \cup {j}) = Cardinality({i}) + 1
      BY <2>4, FS_Singleton, FS_AddElement
    <3>2. Cardinality({i}) = 1
      BY FS_Singleton
    <3>3. IsFiniteSet(prompts_in_batch)
      <4>1. metadata \in Seq(Metadata)
        BY DEF GdnInv, TypeOK
      <4>2. DOMAIN metadata = 1 .. Len(metadata) /\ 1 \in Int /\ Len(metadata) \in Int
        BY <4>1
      <4>3. IsFiniteSet(DOMAIN metadata)
        BY <4>2, FS_Interval
      <4>4. QED
        BY <4>3, FS_Subset DEF prompts_in_batch
    <3>4. {i} \cup {j} \subseteq prompts_in_batch
      OBVIOUS
    <3>5. Cardinality({i} \cup {j}) <= Cardinality(prompts_in_batch)
      BY <3>3, <3>4, FS_Subset
    <3>6. Cardinality(prompts_in_batch) \in Nat
      BY <3>3, FS_CardinalityType
    <3>7. QED
      BY <2>1, <3>1, <3>2, <3>5, <3>6
  <2>5. prompts_in_batch = {i}
    BY <2>2, <2>4
  <2>6. QED
    BY <2>3, <2>5
<1>5. QED
  BY <1>2, <1>3, <1>4

\* The states a prefill saves and leaves behind are states.
LEMMA StateAtFacts ==
    ASSUME GdnInv, NEW i \in prompts_in_batch
    PROVE  /\ \A t \in 0 .. prompt_len(prompt[metadata[i].req]) : state_at(metadata[i], t) \in StateValue
           /\ \A k \in metadata[i].capture : state_at(metadata[i], Len(k) * BlockSize) \in StateValue
           /\ state_at(metadata[i], metadata[i].end) \in StateValue
           /\ metadata[i].end \in num_computed[metadata[i].req] + 1 .. prompt_len(prompt[metadata[i].req])
           /\ prompt_len(prompt[metadata[i].req]) \in Nat
<1>1. PICK m : m = metadata[i]
  OBVIOUS
<1>2. i \in DOMAIN metadata /\ m.is_prompt
  BY <1>1 DEF prompts_in_batch
<1>3. m \in Metadata /\ prompt[m.req] \in Prompt /\ PromptMetaOK(m) /\ num_computed[m.req] \in Nat
  BY <1>1, <1>2, MetadataFacts, TypeFacts DEF MetaOK, GdnInv
<1>4. \A t \in 0 .. prompt_len(prompt[m.req]) : state_at(m, t) \in StateValue
  BY <1>3, StateFacts DEF state_at, absorb
<1>5. prompt_len(prompt[m.req]) \in Nat
  BY <1>3, PromptFacts
<1>6. \A k \in m.capture : state_at(m, Len(k) * BlockSize) \in StateValue
  <2> SUFFICES ASSUME NEW k \in m.capture PROVE state_at(m, Len(k) * BlockSize) \in StateValue
    OBVIOUS
  <2>1. k \in prefixes(prompt[m.req])
    BY <1>3 DEF PromptMetaOK
  <2>2. Len(k) * BlockSize \in Nat /\ Len(k) * BlockSize <= prompt_len(prompt[m.req])
    BY <1>3, <2>1, KeyFacts
  <2>3. Len(k) * BlockSize \in 0 .. prompt_len(prompt[m.req])
    BY <1>5, <2>2
  <2>4. QED
    BY <1>4, <2>3
<1>7. m.end \in num_computed[m.req] + 1 .. prompt_len(prompt[m.req])
  BY <1>3 DEF PromptMetaOK
<1>8. m.end \in 0 .. prompt_len(prompt[m.req])
  BY <1>3, <1>5, <1>7
<1>9. QED
  BY <1>1, <1>4, <1>5, <1>6, <1>7, <1>8

LEMMA ExecuteKeeps ==
    ASSUME GdnInv, Execute
    PROVE  GdnInv'
<1>1. /\ UNCHANGED <<prompt, waiting, running, restore_keys, capture_targets, kv, mode, resident, lru>>
      /\ batch' = <<>> /\ num_batched' = 0 /\ metadata' = <<>> /\ phase' = "idle"
      /\ phase = "execute" /\ Sending /\ ~ Sending' /\ ~ Scheduling'
  BY DEF Execute, policyVars, Sending, Scheduling
<1>2. \A r \in Request : RequestStep(r)
  BY ExecuteFacts
<1>3. \A k \in Key : SavedStep(k)
  BY ExecuteFacts
<1>4. ASSUME NEW r \in Request
      PROVE  /\ num_computed'[r] \in Nat /\ mamba'[r] \in StateValue \cup {None}
             /\ num_computed'[r] # num_computed[r] =>
                  \E i \in prompts_in_batch : metadata[i].req = r
  <2>1. CASE \E i \in prompts_in_batch : /\ metadata[i].req = r /\ num_computed'[r] = metadata[i].end
                                         /\ mamba'[r] = state_at(metadata[i], metadata[i].end)
    <3>1. PICK i \in prompts_in_batch : /\ metadata[i].req = r /\ num_computed'[r] = metadata[i].end
                                        /\ mamba'[r] = state_at(metadata[i], metadata[i].end)
      BY <2>1
    <3>2. metadata[i].end \in num_computed[r] + 1 .. prompt_len(prompt[r]) /\ prompt_len(prompt[r]) \in Nat
          /\ state_at(metadata[i], metadata[i].end) \in StateValue /\ num_computed[r] \in Nat
      BY <3>1, StateAtFacts, TypeFacts DEF GdnInv
    <3>3. QED
      BY <3>1, <3>2
  <2>2. CASE num_computed'[r] = num_computed[r] /\ mamba'[r] = mamba[r]
    BY <2>2 DEF GdnInv, TypeOK
  <2>3. QED
    BY <1>2, <2>1, <2>2 DEF RequestStep
<1>5. TypeOK'
  <2>1. num_computed' \in [Request -> Nat]
    <3>1. num_computed' = [r \in Request |-> num_computed'[r]]
      BY DEF Execute
    <3>2. QED
      BY <1>4, <3>1
  <2>2. mamba' \in [Request -> StateValue \cup {None}]
    <3>1. mamba' = [r \in Request |-> mamba'[r]]
      BY DEF Execute
    <3>2. QED
      BY <1>4, <3>1
  <2>3. saved' \in [Key -> StateValue \cup {None}]
    <3>1. saved' = [k \in Key |-> saved'[k]]
      BY DEF Execute
    <3>2. ASSUME NEW k \in Key PROVE saved'[k] \in StateValue \cup {None}
      <4>1. saved[k] \in StateValue \cup {None}
        BY DEF GdnInv, TypeOK
      <4>2. \A i \in prompts_in_batch : k \in metadata[i].capture =>
              state_at(metadata[i], Len(k) * BlockSize) \in StateValue
        BY StateAtFacts
      <4>3. SavedStep(k)
        BY <1>3
      <4>4. QED
        BY <4>1, <4>2, <4>3 DEF SavedStep
    <3>3. QED
      BY <3>1, <3>2
  <2>4. <<>> \in Seq(Group) /\ <<>> \in Seq(Metadata) /\ 0 \in 0 .. TokenBudget
    BY GdnAssumption
  <2>5. QED
    BY <1>1, <2>1, <2>2, <2>3, <2>4 DEF GdnInv, TypeOK
<1>6. \A i \in DOMAIN metadata : metadata[i].req \in ToSet(running)
  <2> SUFFICES ASSUME NEW i \in DOMAIN metadata PROVE metadata[i].req \in ToSet(running)
    OBVIOUS
  <2>1. metadata[i].req = batch[i].req /\ Len(metadata) = Len(batch)
    BY <1>1 DEF GdnInv, BatchInv
  <2>2. batch[i] \in ToSet(batch)
    <3>1. metadata \in Seq(Metadata) /\ batch \in Seq(Group)
      BY DEF GdnInv, TypeOK
    <3>2. QED
      BY <2>1, <3>1 DEF ToSet
  <2>3. QED
    BY <1>1, <2>1, <2>2 DEF GdnInv, BatchInv
<1>7. QueueInv'
  <2>1. ASSUME NEW q \in ToSet(running) PROVE RequestOK(q)'
    <3>1. q \in Request /\ (RequestOK(q) \/ InBatch(q))
      BY <1>1, TypeFacts DEF GdnInv, QueueInv
    <3>2. CASE \E i \in prompts_in_batch : metadata[i].req = q /\ num_computed'[q] = metadata[i].end
      <4>1. PICK i \in prompts_in_batch : metadata[i].req = q /\ num_computed'[q] = metadata[i].end
        BY <3>2
      <4>2. i \in DOMAIN metadata
        BY DEF prompts_in_batch
      <4>3. prompt[q] # None /\ capture_targets[q] \subseteq prefixes(prompt[q])
        BY <4>1, <4>2, MetadataFacts DEF MetaOK
      <4>4. num_computed'[q] \in 1 .. prompt_len(prompt[q])
        <5>1. num_computed'[q] \in num_computed[q] + 1 .. prompt_len(prompt[q])
              /\ prompt_len(prompt[q]) \in Nat /\ num_computed[q] \in Nat
          BY <3>1, <4>1, StateAtFacts, TypeFacts DEF GdnInv
        <5>2. QED
          BY <5>1
      <4>5. QED
        BY <1>1, <4>3, <4>4 DEF RequestOK
    <3>3. CASE num_computed'[q] = num_computed[q] /\ \A i \in prompts_in_batch : metadata[i].req # q
      <4>1. RequestOK(q)
        <5>1. CASE RequestOK(q)
          BY <5>1
        <5>2. CASE InBatch(q)
          <6>1. PICK j \in DOMAIN batch : batch[j].req = q
            BY <5>2 DEF InBatch, ToSet
          <6>2. j \in DOMAIN metadata /\ metadata[j].req = q
            <7>1. metadata \in Seq(Metadata) /\ batch \in Seq(Group) /\ Len(metadata) = Len(batch)
              BY <1>1 DEF GdnInv, TypeOK, BatchInv
            <7>2. j \in DOMAIN metadata
              BY <7>1
            <7>3. QED
              BY <1>1, <6>1, <7>2 DEF GdnInv, BatchInv
          <6>3. ~ metadata[j].is_prompt
            BY <3>3, <6>2 DEF prompts_in_batch
          <6>4. /\ num_computed[q] = prompt_len(prompt[q]) /\ prompt[q] # None
                /\ capture_targets[q] \subseteq prefixes(prompt[q])
            BY <6>2, <6>3, MetadataFacts DEF MetaOK
          <6>5. prompt_len(prompt[q]) \in Nat \ {0}
            BY <6>2, MetadataFacts, PromptFacts
          <6>6. QED
            BY <6>4, <6>5 DEF RequestOK
        <5>3. QED
          BY <3>1, <5>1, <5>2
      <4>2. QED
        BY <1>1, <3>3, <4>1 DEF RequestOK
    <3>4. QED
      BY <1>2, <3>1, <3>2, <3>3 DEF RequestStep
  <2>2. \A q \in ToSet(waiting) : num_computed'[q] = 0
    <3> SUFFICES ASSUME NEW q \in ToSet(waiting) PROVE num_computed'[q] = 0
      OBVIOUS
    <3>1. q \in Request /\ num_computed[q] = 0 /\ q \notin ToSet(running)
      BY TypeFacts DEF GdnInv, QueueInv
    <3>2. QED
      BY <1>4, <1>6, <3>1 DEF prompts_in_batch
  <2>3. \A q \in Request : prompt'[q] = None => num_computed'[q] = 0
    <3> SUFFICES ASSUME NEW q \in Request, prompt[q] = None PROVE num_computed'[q] = 0
      BY <1>1
    <3>1. num_computed[q] = 0
      BY DEF GdnInv, QueueInv
    <3>2. \A i \in prompts_in_batch : metadata[i].req # q
      BY MetadataFacts DEF MetaOK, prompts_in_batch
    <3>3. QED
      BY <1>4, <3>1, <3>2
  <2>4. QED
    BY <1>1, <2>1, <2>2, <2>3 DEF GdnInv, QueueInv
<1>8. BatchInv' /\ BudgetInv'
  BY <1>1 DEF BatchInv, BudgetInv
<1>9. Saved' = resident
  <2>1. ASSUME NEW k \in Key PROVE saved'[k] # None <=> k \in resident
    <3>1. CASE prompts_in_batch = {}
      <4>1. saved'[k] = saved[k]
        BY <1>3, <3>1 DEF SavedStep
      <4>2. resident = Saved
        BY <3>1 DEF GdnInv, IndexInv, PendingInv
      <4>3. QED
        BY <4>1, <4>2 DEF Saved
    <3>2. CASE prompts_in_batch # {}
      <4>1. PICK i \in DOMAIN metadata : prompts_in_batch = {i}
        BY <3>2, ExecuteFacts
      <4>2. PICK m : m = metadata[i]
        OBVIOUS
      <4>3. resident = (Saved \ m.evict) \cup m.capture
        BY <4>1, <4>2 DEF GdnInv, IndexInv, PendingInv
      <4>4. \/ k \in m.capture /\ saved'[k] # None
            \/ k \notin m.capture /\ k \in m.evict /\ saved'[k] = None
            \/ k \notin m.capture /\ k \notin m.evict /\ saved'[k] = saved[k]
        BY <1>3, <4>1, <4>2, StateAtFacts, StateFacts DEF SavedStep
      <4>5. k \in Saved <=> saved[k] # None
        BY DEF Saved
      <4>6. QED
        BY <4>3, <4>4, <4>5
    <3>3. QED
      BY <3>1, <3>2
  <2>2. resident \subseteq Key
    BY DEF GdnInv, TypeOK
  <2>3. QED
    BY <2>1, <2>2 DEF Saved
<1>10. IndexInv'
  <2>1. LruOK(policy)'
    BY <1>1 DEF GdnInv, IndexInv, LruOK, policy
  <2>2. DOMAIN metadata' = {}
    BY <1>1
  <2>3. PendingInv'
    BY <1>1, <1>9, <2>2 DEF PendingInv
  <2>4. QED
    BY <2>1, <2>3 DEF IndexInv
<1>11. QED
  BY <1>5, <1>7, <1>8, <1>10 DEF GdnInv

----------------------------------------------------------------------------
(* What holds for every cache, every set of prompts and every budget *)

LEMMA InitEstablishes == Init => GdnInv
<1> SUFFICES ASSUME Init PROVE GdnInv
  OBVIOUS
<1> USE DEF Init
<1>1. DOMAIN <<>> = {} /\ ToSet(<<>>) = {} /\ IsInjective(<<>>)
      /\ <<>> \in Seq(Request) /\ <<>> \in Seq(Group) /\ <<>> \in Seq(Metadata)
  BY DEF ToSet, IsInjective
<1>2. TypeOK
  <2>1. 0 \in 0 .. TokenBudget /\ 0 \in Nat
    BY GdnAssumption
  <2>2. QED
    BY <1>1, <2>1 DEF TypeOK
<1>3. QueueInv
  BY <1>1 DEF QueueInv
<1>4. BatchInv /\ BudgetInv
  BY DEF BatchInv, BudgetInv, Sending, Scheduling
<1>5. LruOK(policy)
  BY DEF LruOK, policy
<1>6. PendingInv
  BY <1>1 DEF PendingInv, prompts_in_batch, Saved
<1>7. QED
  BY <1>2, <1>3, <1>4, <1>5, <1>6 DEF GdnInv, IndexInv

LEMMA AbortKeeps ==
    ASSUME GdnInv, NEW r \in Request, Abort(r)
    PROVE  GdnInv'
  BY RetireKeeps DEF Abort

LEMMA StutterKeeps ==
    ASSUME GdnInv, UNCHANGED vars
    PROVE  GdnInv'
<1> USE DEF vars, schedVars, policyVars, stepVars, workerVars
<1>1. TypeOK'
  BY DEF GdnInv, TypeOK
<1>2. QueueInv'
  BY DEF GdnInv, QueueInv, RequestOK, Sending, InBatch
<1>3. \A g : (GroupOK(g) => GroupOK(g)') /\ Cost(g)' = Cost(g)
  BY GroupFrame
<1>4. \A m : MetaOK(m) => MetaOK(m)'
  BY MetaFrame
<1>5. Rest' = Rest /\ (Sending' <=> Sending) /\ (Scheduling' <=> Scheduling)
  BY DEF Rest, Sending, Scheduling
<1>6. BatchInv'
  BY <1>3, <1>4, <1>5 DEF GdnInv, BatchInv
<1>7. BudgetInv'
  <2>1. [g \in Rest |-> Cost(g)]' = [g \in Rest |-> Cost(g)]
    BY <1>3, <1>5
  <2>2. [i \in DOMAIN metadata |-> Query(metadata[i])]' = [i \in DOMAIN metadata |-> Query(metadata[i])]
    BY DEF Query, query_len, worker_context
  <2>3. QED
    BY <1>5, <2>1, <2>2 DEF GdnInv, BudgetInv
<1>8. IndexInv'
  BY IndexFrame DEF GdnInv
<1>9. QED
  BY <1>1, <1>2, <1>6, <1>7, <1>8 DEF GdnInv

LEMMA NextKeeps == GdnInv /\ [Next]_vars => GdnInv'
<1> SUFFICES ASSUME GdnInv, [Next]_vars PROVE GdnInv'
  OBVIOUS
<1>1. ASSUME NEW r \in Request, NEW p \in Prompt, AddSeqGroup(r, p) PROVE GdnInv'
  BY <1>1, AddSeqGroupKeeps
<1>2. ASSUME NEW r \in Request, Abort(r) PROVE GdnInv'
  BY <1>2, AbortKeeps
<1>3. ASSUME NEW r \in Request, Finish(r) PROVE GdnInv'
  BY <1>3, FinishKeeps
<1>4. ASSUME NEW k \in Key, EvictKv(k) PROVE GdnInv'
  BY <1>4, EvictKvKeeps
<1>5. CASE StartStep
  BY <1>5, StartStepKeeps
<1>6. CASE ScheduleRunning
  BY <1>6, ScheduleRunningKeeps
<1>7. CASE PreemptRunning
  BY <1>7, PreemptRunningKeeps
<1>8. CASE EndRunning
  BY <1>8, EndRunningKeeps
<1>9. CASE SchedulePrefill
  BY <1>9, SchedulePrefillKeeps
<1>10. CASE EndPrefill
  BY <1>10, EndPrefillKeeps
<1>11. CASE BuildMetadata
  BY <1>11, BuildMetadataKeeps
<1>12. CASE Execute
  BY <1>12, ExecuteKeeps
<1>13. CASE UNCHANGED vars
  BY <1>13, StutterKeeps
<1>14. QED
  BY <1>1, <1>2, <1>3, <1>4, <1>5, <1>6, <1>7, <1>8, <1>9, <1>10, <1>11, <1>12, <1>13 DEF Next

\* The inductive invariant: where each request is and how far it has come, what the
\* groups and the metadata of a step promise, the tokens they use, and the index.
THEOREM Invariance == Spec => []GdnInv
<1>1. Init => GdnInv
  BY InitEstablishes
<1>2. GdnInv /\ [Next]_vars => GdnInv'
  BY NextKeeps
<1>3. QED
  BY <1>1, <1>2, PTL DEF Spec

\* Every variable has its type, and the tokens a step accounts for
\* (budget.num_batched_tokens) stay within the budget.
THEOREM TypeCorrect == Spec => []TypeOK
<1>1. GdnInv => TypeOK
  BY DEF GdnInv
<1>2. QED
  BY <1>1, Invariance, PTL

\* Between steps the worker's _gdn_prefix_cache holds a state for exactly the
\* keys in the scheduler's _resident, though it is only sent the captures and
\* evictions of each step.
THEOREM WorkerFollowsIndex == Spec => []WorkerMatchesIndex
<1>1. GdnInv => WorkerMatchesIndex
  <2> SUFFICES ASSUME GdnInv, phase = "idle" PROVE Saved = resident
    BY DEF WorkerMatchesIndex, Saved
  <2>1. metadata = <<>>
    BY DEF GdnInv, BatchInv, Sending
  <2>2. prompts_in_batch = {}
    BY <2>1 DEF prompts_in_batch
  <2>3. QED
    BY <2>2 DEF GdnInv, IndexInv, PendingInv
<1>2. QED
  BY <1>1, Invariance, PTL

\* _cap_gdn_capture_boundary: under admission64 a state is captured only where
\* the forward pass ends.
THEOREM CapturesEndForwards == Spec => []CaptureEndsForward
<1>1. GdnInv => CaptureEndsForward
  <2> SUFFICES ASSUME GdnInv, phase = "execute", Policy = "admission64",
                      NEW i \in prompts_in_batch, NEW k \in metadata[i].capture
               PROVE  offset(metadata[i], k) = query_len(metadata[i])
    BY DEF CaptureEndsForward
  <2>1. PICK m : m = metadata[i]
    OBVIOUS
  <2>2. i \in DOMAIN metadata /\ m.is_prompt
    BY <2>1 DEF prompts_in_batch
  <2>3. query_len(m) = m.end - m.context /\ PromptMetaOK(m)
    BY <2>1, <2>2, MetadataFacts, QueryFacts DEF MetaOK
  <2>4. Len(k) * BlockSize = m.end
    BY <2>1, <2>3 DEF PromptMetaOK
  <2>5. QED
    BY <2>1, <2>3, <2>4 DEF offset
<1>2. QED
  BY <1>1, Invariance, PTL

\* The tokens the model runner computes in a step are within
\* max_num_batched_tokens although a restored prefix makes the logical progress
\* larger, and each scheduled prefill computes at least one.
THEOREM QueriesWithinBudget == Spec => []QueryWithinBudget
<1>1. GdnInv => QueryWithinBudget
  <2> SUFFICES ASSUME GdnInv, phase = "execute"
               PROVE  /\ \A i \in prompts_in_batch : query_len(metadata[i]) > 0
                      /\ SumFunctionOnSet([i \in DOMAIN metadata |->
                              IF metadata[i].is_prompt THEN query_len(metadata[i]) ELSE 1],
                            DOMAIN metadata) <= TokenBudget
    BY DEF QueryWithinBudget
  <2>1. \A i \in prompts_in_batch : query_len(metadata[i]) > 0
    BY MetadataFacts, QueryFacts DEF prompts_in_batch
  <2>2. PICK q, e : q = [i \in DOMAIN metadata |-> Query(metadata[i])] /\ e = [g \in Rest |-> Cost(g)]
    OBVIOUS
  <2>3. Rest = {}
    <3>1. Len(metadata) = Len(batch) /\ batch \in Seq(Group)
      BY DEF GdnInv, BatchInv, TypeOK
    <3>2. QED
      BY <3>1 DEF Rest
  <2>4. SumFunctionOnSet(e, Rest) = 0
    BY <2>3, SumEmpty
  <2>5. SumFunctionOnSet(q, DOMAIN metadata) + SumFunctionOnSet(e, Rest) <= num_batched
    BY <2>2 DEF GdnInv, BudgetInv
  <2>6. SumFunctionOnSet(q, DOMAIN metadata) \in Int
    <3>1. \A i \in DOMAIN metadata : q[i] \in Int
      BY <2>2, MetadataFacts
    <3>2. metadata \in Seq(Metadata)
      BY DEF GdnInv, TypeOK
    <3>3. DOMAIN metadata = 1 .. Len(metadata) /\ 1 \in Int /\ Len(metadata) \in Int
      BY <3>2
    <3>4. IsFiniteSet(DOMAIN metadata)
      BY <3>3, FS_Interval
    <3>5. QED
      BY <3>1, <3>4, SumInt
  <2>7. num_batched \in 0 .. TokenBudget /\ TokenBudget \in Nat
    BY GdnAssumption DEF GdnInv, TypeOK
  <2>8. SumFunctionOnSet(q, DOMAIN metadata) <= TokenBudget
    BY <2>4, <2>5, <2>6, <2>7
  <2>9. QED
    BY <2>1, <2>2, <2>8 DEF Query
<1>2. QED
  BY <1>1, Invariance, PTL

\* _cap_gdn_capture_boundary and the metadata loop never meet their RuntimeErrors,
\* whatever was aborted, preempted or evicted in between.
THEOREM PlansNeverRaise == Spec => []NoPlanRaises
<1>1. ASSUME GdnInv, phase = "schedule", running # <<>>, IsPrefill(Head(running)),
             get_num_new_tokens(running_need(Head(running))) > 0
      PROVE  ~ cap_gdn_capture_boundary_raises(capture_targets[Head(running)],
                   num_computed[Head(running)], get_num_new_tokens(running_need(Head(running))),
                   get_num_new_tokens(running_need(Head(running))))
  <2>1. PICK r, nominal : r = Head(running) /\ nominal = get_num_new_tokens(running_need(r))
    OBVIOUS
  <2>2. r \in ToSet(running) /\ r \in Request
    BY <1>1, <2>1, HeadLaw DEF GdnInv, TypeOK
  <2>3. RequestOK(r) /\ prompt[r] \in Prompt /\ mode \in Modes /\ num_batched \in 0 .. TokenBudget
    BY <1>1, <2>2, TypeFacts DEF GdnInv, QueueInv, RequestOK, TypeOK, Sending
  <2>4. RunningPlanOK(r, nominal, running_tokens(r))
    BY <2>1, <2>2, <2>3, RunningPlanFacts DEF RequestOK
  <2>5. QED
    BY <1>1, <2>1, <2>4 DEF RunningPlanOK
<1>2. ASSUME GdnInv, phase = "prefill", can_schedule_waiting
      PROVE  ~ cap_gdn_capture_boundary_raises(targets_of(prompt[Head(waiting)]), 0,
                   prefill_plan(prompt[Head(waiting)])[1], prefill_plan(prompt[Head(waiting)])[2])
  <2>1. PICK r, p : r = Head(waiting) /\ p = prompt[r]
    OBVIOUS
  <2>2. r \in ToSet(waiting) /\ r \in Request /\ get_num_new_tokens(prompt_len(p)) > 0
    BY <1>2, <2>1, HeadLaw DEF GdnInv, TypeOK, can_schedule_waiting
  <2>3. p \in Prompt /\ mode \in Modes /\ num_batched \in 0 .. TokenBudget
    BY <1>2, <2>1, <2>2, TypeFacts DEF GdnInv, QueueInv, TypeOK
  <2>4. QED
    BY <2>1, <2>2, <2>3, NewPlanFacts
<1>3. ASSUME GdnInv, phase = "metadata" PROVE ~ metadata_raises
  <2> SUFFICES ASSUME metadata_raises PROVE FALSE
    OBVIOUS
  <2>1. PICK g, r : g = next_group /\ r = g.req
    OBVIOUS
  <2>2. PICK end : end = Min({prompt_len(prompt[r]), num_computed[r] + g.chunk})
    OBVIOUS
  <2>3. /\ IsPrefill(r)
        /\ \/ /\ num_computed[r] = 0 /\ restore_keys[r] # None
              /\ Len(restore_keys[r]) > num_live_blocks(prompt[r])
           \/ Cardinality(capture_of(r, end)) > 2
    BY <2>1, <2>2 DEF metadata_raises
  <2>4. NextGroupOK(g)
    BY <1>3, <2>1, NextGroupFacts
  <2>5. g \in Group /\ GroupOK(g) /\ r \in Request /\ prompt[r] \in Prompt /\ TypeOK /\ mode \in Modes
    BY <1>3, <2>1, <2>4 DEF NextGroupOK, GdnInv, TypeOK
  <2>6. g.kind \in {"new", "prefill"}
    <3>1. g.kind = "decode" => ~ (num_computed[r] < prompt_len(prompt[r]))
      BY <2>1, <2>5, PromptFacts DEF GroupOK
    <3>2. QED
      BY <2>3, <2>4, <3>1 DEF NextGroupOK, IsPrefill
  <2>7. PrefillOK(g, end)
    BY <2>1, <2>2, <2>5, <2>6, PrefillFacts
  <2>8. end \in Nat \ {0}
    BY <2>1, <2>5, <2>7, PromptFacts DEF PrefillOK
  <2>9. CaptureOK(r, end)
    BY <2>1, <2>5, <2>7, <2>8, CaptureFacts DEF PrefillOK
  <2>10. ~ (Cardinality(capture_of(r, end)) > 2)
    <3>1. PICK C : C = capture_of(r, end)
      OBVIOUS
    <3>2. C = {} \/ \E k \in C : C = {k}
      BY <2>9, <3>1 DEF CaptureOK
    <3>3. Cardinality(C) = 0 \/ Cardinality(C) = 1
      BY <3>2, FS_EmptySet, FS_Singleton
    <3>4. QED
      BY <3>1, <3>3
  <2>11. num_computed[r] = 0 /\ restore_keys[r] # None => Len(restore_keys[r]) <= num_live_blocks(prompt[r])
    BY <2>1, <2>7 DEF PrefillOK, RestoreOK
  <2>12. num_live_blocks(prompt[r]) \in Int /\ (restore_keys[r] # None => Len(restore_keys[r]) \in Int)
    <3>1. num_live_blocks(prompt[r]) \in 0 .. Len(prompt[r].blocks)
      BY <2>5, LiveFacts
    <3>2. restore_keys[r] \in Key \cup {None}
      BY <2>5 DEF TypeOK
    <3>3. QED
      BY <3>1, <3>2, KeyFacts
  <2>13. QED
    BY <2>3, <2>10, <2>11, <2>12
<1>4. GdnInv => NoPlanRaises
  BY <1>1, <1>2, <1>3 DEF NoPlanRaises
<1>5. QED
  BY <1>4, Invariance, PTL

----------------------------------------------------------------------------
(* One sequence at a time *)

AtMostOne(S) == \A x, y \in S : x = y

\* With max_num_seqs = 1 a running request leaves no room for another: it is
\* scheduled first and with the whole budget, so a step has at most one group
\* and never a request to preempt.
OneInv ==
    /\ AtMostOne(ToSet(running)) /\ AtMostOne(ToSet(batch))
    /\ phase = "schedule" => running = <<>> \/ (batch = <<>> /\ num_batched = 0)
    /\ phase = "prefill" => running = <<>>
    /\ Scheduling => \A g \in ToSet(batch) : g.kind # "preempted"

LEMMA EmptySequence ==
    /\ ToSet(<<>>) = {} /\ Len(<<>>) = 0 /\ AtMostOne({})
    /\ \A s : s \in Seq(Request) /\ ToSet(s) = {} => s = <<>>
    /\ \A s : s \in Seq(Group) /\ ToSet(s) = {} => s = <<>>
<1>1. ToSet(<<>>) = {} /\ Len(<<>>) = 0 /\ AtMostOne({})
  BY DEF ToSet, AtMostOne
<1>2. ASSUME NEW T, NEW s \in Seq(T), ToSet(s) = {} PROVE s = <<>>
  <2>1. s # <<>> => Head(s) \in ToSet(s)
    BY HeadLaw
  <2>2. QED
    BY <1>2, <2>1
<1>3. QED
  BY <1>1, <1>2

LEMMA AtMostOneLength ==
    ASSUME NEW T, NEW s \in Seq(T), IsInjective(s), AtMostOne(ToSet(s))
    PROVE  Len(s) \in Nat /\ Len(s) <= 1
<1>1. Len(s) \in Nat /\ DOMAIN s = 1 .. Len(s)
  OBVIOUS
<1>2. CASE Len(s) > 1
  <2>1. 1 \in DOMAIN s /\ 2 \in DOMAIN s
    BY <1>1, <1>2
  <2>2. s[1] = s[2]
    BY <2>1 DEF AtMostOne, ToSet
  <2>3. QED
    BY <2>1, <2>2 DEF IsInjective
<1>3. QED
  BY <1>1, <1>2

\* No group is preempted: every group of the batch takes a seat.
LEMMA SeatsTaken ==
    ASSUME GdnInv, OneInv, Scheduling
    PROVE  num_curr_seqs = Len(batch) /\ Len(batch) \in Nat
<1>1. OfKind("preempted") \in Seq(Group) /\ ToSet(OfKind("preempted")) = {}
  BY OfKindFacts DEF OfKindOK, OneInv
<1>2. OfKind("preempted") = <<>>
  BY <1>1, EmptySequence
<1>3. batch \in Seq(Group)
  BY DEF GdnInv, TypeOK
<1>4. Len(OfKind("preempted")) = 0
  BY <1>2, EmptySequence
<1>5. Len(batch) \in Nat
  BY <1>3
<1>6. QED
  BY <1>4, <1>5 DEF num_curr_seqs

\* A running request that is the first of its step gets tokens.
LEMMA FirstGetsTokens ==
    ASSUME GdnInv, phase = "schedule", running # <<>>, num_batched = 0
    PROVE  running_tokens(Head(running)) \in Nat /\ running_tokens(Head(running)) > 0
<1>1. PICK r : r = Head(running)
  OBVIOUS
<1>2. r \in ToSet(running) /\ r \in Request
  BY <1>1, HeadLaw DEF GdnInv, TypeOK
<1>3. RequestOK(r) /\ prompt[r] \in Prompt /\ mode \in Modes /\ num_batched \in 0 .. TokenBudget
  BY <1>2, TypeFacts DEF GdnInv, QueueInv, RequestOK, TypeOK, Sending
<1>4. RunningPlanOK(r, get_num_new_tokens(running_need(r)), running_tokens(r))
  BY <1>2, <1>3, RunningPlanFacts DEF RequestOK
<1>5. QED
  BY <1>1, <1>4 DEF RunningPlanOK

\* ... so it is never preempted, and the running queue is served.
LEMMA OnePreempts ==
    ASSUME GdnInv, OneInv, PreemptRunning
    PROVE  FALSE
<1>1. phase = "schedule" /\ running # <<>> /\ Len(running) + num_curr_seqs > 1 /\ Scheduling
  BY DEF PreemptRunning, Scheduling
<1>2. batch = <<>>
  BY <1>1 DEF OneInv
<1>3. num_curr_seqs = 0
  BY <1>1, <1>2, SeatsTaken, EmptySequence
<1>4. running \in Seq(Request) /\ IsInjective(running) /\ AtMostOne(ToSet(running))
  BY DEF GdnInv, TypeOK, QueueInv, OneInv
<1>5. Len(running) \in Nat /\ Len(running) <= 1
  BY <1>4, AtMostOneLength
<1>6. QED
  BY <1>1, <1>3, <1>5

LEMMA OneEndRunning ==
    ASSUME GdnInv, OneInv, EndRunning
    PROVE  running = <<>>
<1> SUFFICES ASSUME running # <<>> PROVE FALSE
  OBVIOUS
<1>1. phase = "schedule" /\ running_tokens(Head(running)) = 0
  BY DEF EndRunning
<1>2. num_batched = 0
  BY <1>1 DEF OneInv
<1>3. QED
  BY <1>1, <1>2, FirstGetsTokens

LEMMA OneScheduleRunning ==
    ASSUME GdnInv, OneInv, ScheduleRunning
    PROVE  OneInv'
<1>1. /\ phase = "schedule" /\ phase' = phase /\ running # <<>> /\ running' = Tail(running)
      /\ \E g : batch' = Append(batch, g) /\ g.kind # "preempted"
  BY DEF ScheduleRunning
<1>2. PICK g : batch' = Append(batch, g) /\ g.kind # "preempted"
  BY <1>1
<1>3. batch = <<>>
  BY <1>1 DEF OneInv
<1>4. ToSet(batch') = {g}
  BY <1>2, <1>3 DEF ToSet
<1>5. running' = <<>>
  <2>1. /\ running \in Seq(Request) /\ IsInjective(running) /\ AtMostOne(ToSet(running))
    BY DEF GdnInv, TypeOK, QueueInv, OneInv
  <2>2. /\ running' \in Seq(Request) /\ ToSet(running) = ToSet(running') \cup {Head(running)}
        /\ Head(running) \notin ToSet(running')
    BY <1>1, <2>1, HeadLaw
  <2>3. ToSet(running') = {}
    BY <2>1, <2>2 DEF AtMostOne
  <2>4. QED
    BY <2>2, <2>3, EmptySequence
<1>6. QED
  BY <1>1, <1>2, <1>4, <1>5, EmptySequence DEF OneInv, AtMostOne

LEMMA OneSchedulePrefill ==
    ASSUME MaxNumSeqs = 1, GdnInv, OneInv, SchedulePrefill
    PROVE  OneInv'
<1>1. /\ phase = "prefill" /\ phase' = phase /\ can_schedule_waiting /\ running' = running
      /\ \E g : batch' = Append(batch, g) /\ g.kind # "preempted"
  BY DEF SchedulePrefill
<1>2. PICK g : batch' = Append(batch, g) /\ g.kind # "preempted"
  BY <1>1
<1>3. Scheduling
  BY <1>1 DEF Scheduling
<1>4. num_curr_seqs + 1 <= 1
  BY <1>1 DEF can_schedule_waiting
<1>5. Len(batch) = 0 /\ batch \in Seq(Group)
  BY <1>3, <1>4, SeatsTaken DEF GdnInv, TypeOK
<1>6. batch = <<>>
  BY <1>5
<1>7. ToSet(batch') = {g}
  BY <1>2, <1>6 DEF ToSet
<1>8. QED
  BY <1>1, <1>2, <1>7 DEF OneInv, AtMostOne

LEMMA OneEndPrefill ==
    ASSUME GdnInv, OneInv, EndPrefill
    PROVE  OneInv'
<1>1. phase = "prefill" /\ Scheduling /\ ~ Scheduling' /\ phase' # "schedule" /\ phase' # "prefill"
  BY DEF EndPrefill, Scheduling
<1>2. running = <<>>
  BY <1>1 DEF OneInv
<1>3. /\ ToSet(batch') \subseteq ToSet(batch)
      /\ ToSet(running') = ToSet(running) \cup {g.req : g \in ToSet(batch')}
  BY EndPrefillFacts DEF EndPrefillOK
<1>4. AtMostOne(ToSet(batch'))
  BY <1>3 DEF OneInv, AtMostOne
<1>5. ToSet(running') = {g.req : g \in ToSet(batch')}
  BY <1>2, <1>3, EmptySequence
<1>6. AtMostOne(ToSet(running'))
  BY <1>4, <1>5 DEF AtMostOne
<1>7. QED
  BY <1>1, <1>4, <1>6 DEF OneInv

\* The running queue only shrinks when a request leaves the engine.
LEMMA OneShrinks ==
    ASSUME OneInv, phase = "idle", phase' = "idle", batch' = batch,
           ToSet(running') \subseteq ToSet(running)
    PROVE  OneInv'
<1>1. ~ Scheduling' /\ phase' # "schedule" /\ phase' # "prefill"
  BY DEF Scheduling
<1>2. QED
  BY <1>1 DEF OneInv, AtMostOne

LEMMA OneKeeps == MaxNumSeqs = 1 /\ GdnInv /\ OneInv /\ [Next]_vars => OneInv'
<1> SUFFICES ASSUME MaxNumSeqs = 1, GdnInv, OneInv, [Next]_vars PROVE OneInv'
  OBVIOUS
<1>1. ASSUME NEW r \in Request, NEW p \in Prompt, AddSeqGroup(r, p) PROVE OneInv'
  BY <1>1, OneShrinks DEF AddSeqGroup, stepVars
<1>2. ASSUME NEW r \in Request, Abort(r) \/ Finish(r) PROVE OneInv'
  <2>1. phase = "idle" /\ phase' = "idle" /\ batch' = batch /\ running' = Without(running, r)
    BY <1>2 DEF Abort, Finish, stepVars
  <2>2. running \in Seq(Request)
    BY DEF GdnInv, TypeOK
  <2>3. ToSet(Without(running, r)) \subseteq ToSet(running)
    BY <2>2, KeepLaw DEF Without
  <2>4. QED
    BY <2>1, <2>3, OneShrinks
<1>3. ASSUME NEW k \in Key, EvictKv(k) PROVE OneInv'
  BY <1>3, OneShrinks DEF EvictKv, schedVars, stepVars
<1>4. CASE StartStep
  <2>1. running' = running /\ batch' = <<>> /\ num_batched' = 0 /\ phase' = "schedule"
    BY <1>4 DEF StartStep, schedVars
  <2>2. QED
    BY <2>1, EmptySequence DEF OneInv
<1>5. CASE ScheduleRunning
  BY <1>5, OneScheduleRunning
<1>6. CASE PreemptRunning
  BY <1>6, OnePreempts
<1>7. CASE EndRunning
  <2>1. running = <<>> /\ phase = "schedule"
    BY <1>7, OneEndRunning DEF EndRunning
  <2>2. running' = running /\ batch' = batch /\ phase' = "prefill"
    BY <1>7 DEF EndRunning, schedVars
  <2>3. QED
    BY <2>1, <2>2 DEF OneInv, Scheduling
<1>8. CASE SchedulePrefill
  BY <1>8, OneSchedulePrefill
<1>9. CASE EndPrefill
  BY <1>9, OneEndPrefill
<1>10. CASE BuildMetadata
  <2>1. running' = running /\ batch' = batch /\ phase' \in {"metadata", "execute"}
    BY <1>10 DEF BuildMetadata
  <2>2. QED
    BY <2>1 DEF OneInv, Scheduling
<1>11. CASE Execute
  <2>1. running' = running /\ batch' = <<>> /\ phase' = "idle"
    BY <1>11 DEF Execute
  <2>2. QED
    BY <2>1, EmptySequence DEF OneInv, Scheduling
<1>12. CASE UNCHANGED vars
  BY <1>12 DEF vars, schedVars, stepVars, OneInv, Scheduling
<1>13. QED
  BY <1>1, <1>2, <1>3, <1>4, <1>5, <1>6, <1>7, <1>8, <1>9, <1>10, <1>11, <1>12 DEF Next

LEMMA OneInit == Init => OneInv
<1> SUFFICES ASSUME Init PROVE OneInv
  OBVIOUS
<1>1. running = <<>> /\ batch = <<>> /\ phase = "idle"
  BY DEF Init
<1>2. ~ Scheduling
  BY <1>1 DEF Scheduling
<1>3. AtMostOne(ToSet(running)) /\ AtMostOne(ToSet(batch))
  BY <1>1, EmptySequence
<1>4. QED
  BY <1>1, <1>2, <1>3 DEF OneInv

\* With max_num_seqs = 1 a step has one group, and no group is preempted.
THEOREM OneAtATime == MaxNumSeqs = 1 => (Spec => []OneInv)
<1> SUFFICES ASSUME MaxNumSeqs = 1 PROVE Spec => []OneInv
  OBVIOUS
<1>1. Init => OneInv
  BY OneInit
<1>2. GdnInv /\ OneInv /\ [Next]_vars => OneInv'
  BY OneKeeps
<1>3. QED
  BY <1>1, <1>2, Invariance, PTL DEF Spec

----------------------------------------------------------------------------
(* Where forward passes end *)

\* A number of tokens that is whole blocks, and one a forward pass may end at.
Whole(n) == \E b \in Nat : n = b * BlockSize
EndOK(p, n) == Whole(n) \/ n = prompt_len(p)

\* Sums and multiples of whole blocks are whole blocks, and two different numbers
\* of them are a block apart.
LEMMA WholeFacts ==
    /\ Whole(0) /\ Whole(TokenBudget)
    /\ \A k \in Key : Whole(Len(k) * BlockSize)
    /\ \A m \in Nat : Whole(m * BlockSize)
    /\ \A m \in Nat : Whole(m * TokenBudget)
    /\ \A x, y : Whole(x) /\ Whole(y) => Whole(x + y)
    /\ \A x : Whole(x) => x \in Nat
    /\ \A x, y : Whole(x) /\ Whole(y) /\ x < y => x + BlockSize <= y
<1>1. BlockSize \in Nat \ {0} /\ TokenBudget \in Nat \ {0} /\ TokenBudget % BlockSize = 0
  BY GdnAssumption
<1>2. \A m \in Nat : Whole(m * BlockSize)
  BY DEF Whole
<1>3. \A x : Whole(x) => x \in Nat
  BY <1>1, Scale DEF Whole
<1>4. \A x, y : Whole(x) /\ Whole(y) => Whole(x + y)
  <2> SUFFICES ASSUME NEW a \in Nat, NEW b \in Nat PROVE Whole(a * BlockSize + b * BlockSize)
    BY DEF Whole
  <2>1. a * BlockSize + b * BlockSize = (a + b) * BlockSize /\ a + b \in Nat
    BY <1>1
  <2>2. QED
    BY <1>2, <2>1
<1>5. ASSUME NEW x, NEW y, Whole(x), Whole(y), x < y PROVE x + BlockSize <= y
  <2>1. PICK a \in Nat, b \in Nat : x = a * BlockSize /\ y = b * BlockSize
    BY <1>5 DEF Whole
  <2>2. a < b
    <3>1. b <= a => b * BlockSize <= a * BlockSize
      BY <1>1, Scale
    <3>2. x \in Nat /\ y \in Nat
      BY <1>3, <1>5
    <3>3. ~ (y <= x)
      BY <1>5, <3>2
    <3>4. ~ (b <= a)
      BY <2>1, <3>1, <3>3
    <3>5. QED
      BY <3>4
  <2>3. QED
    BY <1>1, <2>1, <2>2, Scale
<1>6. PICK t \in Nat : TokenBudget = t * BlockSize
  <2>1. PICK q \in Nat, r \in 0 .. BlockSize - 1 :
          q = TokenBudget \div BlockSize /\ r = TokenBudget % BlockSize /\ TokenBudget = BlockSize * q + r
    BY <1>1, Divide
  <2>2. TokenBudget = q * BlockSize
    BY <1>1, <2>1
  <2>3. QED
    BY <2>2
<1>7. ASSUME NEW m \in Nat PROVE Whole(m * TokenBudget)
  <2>1. m * (t * BlockSize) = (m * t) * BlockSize /\ m * t \in Nat
    BY <1>1
  <2>2. QED
    BY <1>2, <1>6, <2>1
<1>8. Whole(0)
  <2>1. 0 * BlockSize = 0
    BY <1>1
  <2>2. QED
    BY <1>2, <2>1
<1>9. \A k \in Key : Whole(Len(k) * BlockSize)
  BY <1>2, KeyFacts
<1>10. QED
  BY <1>2, <1>3, <1>4, <1>5, <1>6, <1>7, <1>8, <1>9

\* The budget cuts a request at whole blocks.
LEMMA NominalWhole ==
    ASSUME num_batched \in 0 .. TokenBudget, NEW needed \in Nat
    PROVE  get_num_new_tokens(needed) = needed \/ Whole(get_num_new_tokens(needed))
<1>1. remaining_token_budget \in Nat /\ BlockSize \in Nat \ {0}
  BY BudgetFacts, GdnAssumption
<1>2. remaining_token_budget \div BlockSize \in Nat
  BY <1>1, DivMod
<1>3. QED
  BY <1>2, WholeFacts DEF get_num_new_tokens

\* A step that restores a state, with the whole budget or whole blocks of it, ends
\* at whole blocks or with the prompt.
LEMMA PlanWhole ==
    ASSUME NEW p \in Prompt, NEW k \in prefixes(p) \cup {None},
           NEW rem \in Nat, k # None => Whole(rem),
           NEW nominal \in Nat, EndOK(p, nominal)
    PROVE  EndOK(p, plan_fast_forward(k, p, nominal, rem)[1])
<1> PICK c : c = plan_fast_forward(k, p, nominal, rem)[1]
  OBVIOUS
<1> SUFFICES EndOK(p, c)
  OBVIOUS
<1>1. CASE k = None
  <2>1. c = nominal
    BY <1>1 DEF plan_fast_forward
  <2>2. QED
    BY <2>1
<1>2. CASE k # None
  <2> DEFINE cp == Len(k) * BlockSize
             q == cp \div TokenBudget
             next == (q + 1) * TokenBudget
             limit == IF RestoreMode = "hybrid64" THEN Min({cp + rem, next}) ELSE cp + rem
             logical == Min({prompt_len(p), limit})
  <2>1. c = nominal \/ c = logical
    BY <1>2 DEF plan_fast_forward
  <2>2. k \in Key /\ cp \in Nat
    BY <1>2, KeyFacts
  <2>3. Whole(next) /\ Whole(cp)
    <3>1. q \in Nat
      BY <2>2, GdnAssumption, DivMod
    <3>2. q + 1 \in Nat
      BY <3>1
    <3>3. QED
      BY <2>2, <3>2, WholeFacts
  <2> HIDE DEF q, cp, next
  <2>4. Whole(cp + rem)
    BY <1>2, <2>3, WholeFacts
  <2>5. \A x, y : x \in Int /\ y \in Int => Min({x, y}) = x \/ Min({x, y}) = y
    BY MinPair
  <2>6. Whole(limit)
    <3>1. cp + rem \in Nat /\ next \in Nat
      BY <2>3, <2>4, WholeFacts
    <3> DEFINE s == cp + rem
    <3>2. limit = IF RestoreMode = "hybrid64" THEN Min({s, next}) ELSE s
      OBVIOUS
    <3> HIDE DEF limit, s
    <3>3. s \in Int /\ next \in Int /\ Whole(s)
      BY <2>4, <3>1 DEF s
    <3>4. Min({s, next}) = s \/ Min({s, next}) = next
      BY <2>5, <3>3
    <3>5. limit = s \/ limit = next
      BY <3>2, <3>4
    <3>6. QED
      BY <2>3, <3>3, <3>5
  <2> HIDE DEF limit
  <2>7. logical = prompt_len(p) \/ logical = limit
    <3>1. limit \in Nat /\ prompt_len(p) \in Nat
      BY <2>6, WholeFacts, PromptFacts
    <3>2. QED
      BY <2>5, <3>1
  <2>8. QED
    BY <2>1, <2>6, <2>7 DEF EndOK
<1>3. QED
  BY <1>1, <1>2

\* Cutting a step at a capture boundary leaves whole blocks.
LEMMA CapWhole ==
    ASSUME mode \in Modes, NEW p \in Prompt, NEW T, T \subseteq prefixes(p),
           NEW computed \in Nat, NEW c \in Nat \ {0}, NEW ph \in Nat \ {0}, ph <= c,
           EndOK(p, computed + c)
    PROVE  EndOK(p, computed + cap_gdn_capture_boundary(T, computed, c, ph)[1])
<1> PICK c2, ph2 : c2 = cap_gdn_capture_boundary(T, computed, c, ph)[1]
                   /\ ph2 = cap_gdn_capture_boundary(T, computed, c, ph)[2]
  OBVIOUS
<1>1. CapOK(T, computed, c, ph, c2, ph2)
  BY CapFacts
<1>2. CASE c2 = c
  BY <1>2
<1>3. CASE c2 # c
  <2>1. PICK k \in T : computed + c2 = Len(k) * BlockSize
    BY <1>1, <1>3 DEF CapOK
  <2>2. k \in Key
    BY <2>1, KeyFacts
  <2>3. QED
    BY <2>1, <2>2, WholeFacts DEF EndOK
<1>4. QED
  BY <1>2, <1>3

\* The first step of a request ends at whole blocks or with the prompt; one that
\* restores a state, if nothing else has been scheduled.
LEMMA NewWhole ==
    ASSUME mode \in Modes, num_batched \in 0 .. TokenBudget, NEW p \in Prompt,
           get_num_new_tokens(prompt_len(p)) > 0,
           select_restore(live_keys(p)) # None => num_batched = 0
    PROVE  EndOK(p, cap_gdn_capture_boundary(targets_of(p), 0, prefill_plan(p)[1],
                                             prefill_plan(p)[2])[1])
<1> PICK k, T, nominal, rem :
      /\ k = select_restore(live_keys(p)) /\ T = targets_of(p)
      /\ nominal = get_num_new_tokens(prompt_len(p)) /\ rem = remaining_token_budget
  OBVIOUS
<1>1. PICK c, ph : c = prefill_plan(p)[1] /\ ph = prefill_plan(p)[2]
  OBVIOUS
<1>2. prompt_len(p) \in Nat \ {0} /\ T \subseteq prefixes(p)
  BY PromptFacts, TargetFacts
<1>3. k \in prefixes(p) \cup {None} /\ (k # None => Len(k) * BlockSize < prompt_len(p))
  BY RestoreFacts
<1>4. /\ nominal \in Nat \ {0} /\ rem \in Nat /\ nominal <= rem /\ nominal <= prompt_len(p)
      /\ EndOK(p, nominal)
  <2>1. prompt_len(p) \in Nat
    BY <1>2
  <2>2. /\ nominal \in Nat /\ rem \in Nat /\ nominal <= rem /\ nominal <= prompt_len(p)
    BY <2>1, BudgetFacts
  <2>3. nominal = prompt_len(p) \/ Whole(nominal)
    BY <2>1, NominalWhole
  <2>4. QED
    BY <2>2, <2>3 DEF EndOK
<1>5. k # None => Whole(rem)
  <2>1. num_batched = 0 => rem = TokenBudget
    BY GdnAssumption DEF remaining_token_budget
  <2>2. QED
    BY <2>1, WholeFacts
<1>6. c = plan_fast_forward(k, p, nominal, rem)[1] /\ ph = plan_fast_forward(k, p, nominal, rem)[2]
  BY <1>1 DEF prefill_plan
<1>7. EndOK(p, c)
  BY <1>3, <1>4, <1>5, <1>6, PlanWhole
<1>8. c \in Nat \ {0} /\ ph \in Nat \ {0} /\ ph <= c
  <2>1. PlanOK(k, p, rem, c, ph)
    BY <1>3, <1>4, <1>6, PlanFacts
  <2>2. QED
    BY <2>1 DEF PlanOK
<1>9. 0 + c = c /\ 0 \in Nat
  BY <1>8
<1>10. EndOK(p, 0 + c)
  BY <1>7, <1>9
<1>11. EndOK(p, 0 + cap_gdn_capture_boundary(T, 0, c, ph)[1])
  BY <1>2, <1>8, <1>9, <1>10, CapWhole
<1>12. cap_gdn_capture_boundary(T, 0, c, ph)[1] \in Nat
  BY <1>2, <1>8, <1>9, CapFacts DEF CapOK
<1>13. QED
  BY <1>1, <1>11, <1>12

\* So does the next step of a running prefill.
LEMMA RunningWhole ==
    ASSUME mode \in Modes, num_batched \in 0 .. TokenBudget, NEW r \in Request,
           prompt[r] \in Prompt, num_computed[r] \in 1 .. prompt_len(prompt[r]),
           capture_targets[r] \subseteq prefixes(prompt[r]),
           IsPrefill(r), EndOK(prompt[r], num_computed[r]), running_tokens(r) > 0
    PROVE  EndOK(prompt[r], num_computed[r] + running_tokens(r))
<1> PICK p, n, T : p = prompt[r] /\ n = num_computed[r] /\ T = capture_targets[r]
  OBVIOUS
<1> PICK nominal : nominal = get_num_new_tokens(prompt_len(p) - n)
  OBVIOUS
<1>1. n \in Nat /\ n < prompt_len(p) /\ prompt_len(p) \in Nat /\ p \in Prompt /\ T \subseteq prefixes(p)
  BY PromptFacts DEF IsPrefill
<1>2. prompt_len(p) - n \in Nat
  BY <1>1
<1>3. nominal \in Nat /\ (nominal = prompt_len(p) - n \/ Whole(nominal))
  BY <1>2, BudgetFacts, NominalWhole
<1>4. Whole(n)
  BY <1>1 DEF EndOK
<1>5. EndOK(p, n + nominal)
  <2>1. nominal = prompt_len(p) - n => n + nominal = prompt_len(p)
    BY <1>1
  <2>2. QED
    BY <1>3, <1>4, <2>1, WholeFacts DEF EndOK
<1>6. running_tokens(r) = IF nominal > 0 THEN cap_gdn_capture_boundary(T, n, nominal, nominal)[1] ELSE nominal
  BY DEF running_tokens, running_need
<1>7. nominal \in Nat \ {0}
  BY <1>3, <1>6
<1>8. nominal <= nominal
  BY <1>3
<1>9. EndOK(p, n + cap_gdn_capture_boundary(T, n, nominal, nominal)[1])
  BY <1>1, <1>5, <1>7, <1>8, CapWhole
<1>10. running_tokens(r) = cap_gdn_capture_boundary(T, n, nominal, nominal)[1]
  BY <1>6, <1>7
<1>11. QED
  BY <1>9, <1>10

\* Another request has a group in this batch.
Shared(r) == \E h \in ToSet(batch) : h.req # r

GroupEnds(g) ==
    /\ g.kind # "preempted"
    /\ g.kind = "prefill" => EndOK(prompt[g.req], num_computed[g.req] + g.chunk)
    /\ g.kind = "new" =>
         EndOK(prompt[g.req], g.chunk) \/ (restore_keys[g.req] # None /\ Shared(g.req))

MetadataEnds(m) ==
    m.is_prompt => EndOK(prompt[m.req], m.end) \/ (m.restore # None /\ Shared(m.req))

\* Forward passes end at whole blocks or with the prompt, those of a restored
\* request that is not alone in its batch apart: they never run.
AlignInv ==
    /\ \A r \in Request : prompt[r] # None => EndOK(prompt[r], num_computed[r])
    /\ Scheduling /\ batch = <<>> => num_batched = 0
    /\ phase # "idle" => \A g \in Rest : GroupEnds(g)
    /\ \A m \in {metadata[i] : i \in DOMAIN metadata} : MetadataEnds(m)

LEMMA AlignScheduleRunning ==
    ASSUME GdnInv, AlignInv, ScheduleRunning
    PROVE  AlignInv'
<1>1. PICK r, tokens : r = Head(running) /\ tokens = running_tokens(r)
  OBVIOUS
<1>2. PICK g : g = [req |-> r, chunk |-> tokens, kind |-> IF IsPrefill(r) THEN "prefill" ELSE "decode"]
  OBVIOUS
<1>3. /\ Scheduling /\ ~ Sending /\ phase # "idle" /\ running # <<>> /\ tokens > 0
      /\ batch' = Append(batch, g)
      /\ UNCHANGED <<prompt, num_computed, restore_keys, metadata, phase>>
  BY <1>1, <1>2 DEF ScheduleRunning, Scheduling, Sending
<1>4. r \in ToSet(running) /\ r \in Request
  BY <1>1, <1>3, HeadLaw DEF GdnInv, TypeOK, QueueInv
<1>5. RequestOK(r) /\ prompt[r] \in Prompt /\ mode \in Modes /\ num_batched \in 0 .. TokenBudget
  BY <1>3, <1>4, TypeFacts DEF GdnInv, QueueInv, RequestOK, TypeOK
<1>6. IsPrefill(r) => EndOK(prompt[r], num_computed[r] + tokens)
  BY <1>1, <1>3, <1>4, <1>5, RunningWhole DEF RequestOK, AlignInv
<1>7. g \in Group
  <2>1. tokens \in Nat
    BY <1>1, <1>4, <1>5, RunningPlanFacts DEF RequestOK, RunningPlanOK
  <2>2. QED
    BY <1>2, <1>3, <1>4, <2>1 DEF Group
<1>8. \A h \in ToSet(batch) : h.req # g.req
  BY <1>2, <1>3, <1>4 DEF GdnInv, BatchInv
<1>9. Rest = ToSet(batch) /\ ToSet(batch') = ToSet(batch) \cup {g} /\ Rest' = ToSet(batch')
  BY <1>3, <1>7, <1>8, AppendBatch
<1>10. batch' # <<>>
  BY <1>3, <1>7 DEF GdnInv, TypeOK
<1>11. ASSUME NEW h \in Rest' PROVE GroupEnds(h)'
  <2>1. CASE h = g
    BY <1>2, <1>3, <1>6, <2>1 DEF GroupEnds
  <2>2. CASE h \in Rest
    <3>1. GroupEnds(h)
      BY <1>3, <2>2 DEF AlignInv
    <3>2. Shared(h.req) => Shared(h.req)'
      BY <1>9 DEF Shared
    <3>3. QED
      BY <1>3, <3>1, <3>2 DEF GroupEnds
  <2>3. QED
    BY <1>9, <2>1, <2>2
<1>12. \A i \in DOMAIN metadata : metadata = <<>>
  BY <1>3 DEF GdnInv, BatchInv
<1>13. QED
  BY <1>3, <1>10, <1>11, <1>12 DEF AlignInv, MetadataEnds

LEMMA AlignSchedulePrefill ==
    ASSUME GdnInv, AlignInv, SchedulePrefill
    PROVE  AlignInv'
<1>1. PICK r, p : r = Head(waiting) /\ p = prompt[r]
  OBVIOUS
<1>2. PICK restore, plan, g :
        /\ restore = select_restore(live_keys(p))
        /\ plan = cap_gdn_capture_boundary(targets_of(p), 0, prefill_plan(p)[1], prefill_plan(p)[2])
        /\ restore_keys' = [restore_keys EXCEPT ![r] = restore]
        /\ g = [req |-> r, chunk |-> plan[1], kind |-> "new"]
        /\ batch' = Append(batch, g)
  BY <1>1 DEF SchedulePrefill
<1>3. /\ waiting # <<>> /\ get_num_new_tokens(prompt_len(p)) > 0
      /\ UNCHANGED <<prompt, num_computed, metadata, phase>>
      /\ Scheduling /\ ~ Sending /\ phase # "idle"
  BY <1>1 DEF SchedulePrefill, can_schedule_waiting, workerVars, Scheduling, Sending
<1>4. r \in ToSet(waiting) /\ r \in Request
  BY <1>1, <1>3, HeadLaw DEF GdnInv, TypeOK, QueueInv
<1>5. p \in Prompt /\ num_computed[r] = 0 /\ mode \in Modes /\ num_batched \in 0 .. TokenBudget
  BY <1>1, <1>4, TypeFacts DEF GdnInv, QueueInv, TypeOK
<1>6. g \in Group
  <2>1. PICK context : context = restored_context(restore)
    OBVIOUS
  <2>2. NewPlanOK(p, restore, targets_of(p), plan, context)
    BY <1>2, <1>3, <1>5, <2>1, NewPlanFacts
  <2>3. QED
    BY <1>2, <1>4, <2>2 DEF Group, NewPlanOK
<1>7. \A h \in ToSet(batch) : h.req # r
  BY <1>3, <1>4 DEF GdnInv, BatchInv
<1>8. Rest = ToSet(batch) /\ ToSet(batch') = ToSet(batch) \cup {g} /\ Rest' = ToSet(batch')
  BY <1>2, <1>3, <1>6, <1>7, AppendBatch
<1>9. restore_keys'[r] = restore /\ \A q \in Request : q # r => restore_keys'[q] = restore_keys[q]
  BY <1>2, <1>4 DEF GdnInv, TypeOK
<1>10. GroupEnds(g)'
  <2>1. CASE restore = None \/ num_batched = 0
    <3>1. EndOK(p, plan[1])
      BY <1>2, <1>3, <1>5, <2>1, NewWhole
    <3>2. QED
      BY <1>1, <1>2, <1>3, <3>1 DEF GroupEnds
  <2>2. CASE restore # None /\ num_batched # 0
    <3>1. batch # <<>> /\ batch \in Seq(Group)
      BY <1>3, <2>2 DEF AlignInv, GdnInv, TypeOK
    <3>2. batch[1] \in ToSet(batch)
      BY <3>1 DEF ToSet
    <3>3. Shared(g.req)'
      BY <1>2, <1>7, <1>8, <3>2 DEF Shared
    <3>4. QED
      BY <1>2, <1>9, <2>2, <3>3 DEF GroupEnds
  <2>3. QED
    BY <2>1, <2>2
<1>11. ASSUME NEW h \in Rest' PROVE GroupEnds(h)'
  <2>1. CASE h \in Rest
    <3>1. GroupEnds(h) /\ h.req # r /\ h.req \in Request
      BY <1>3, <1>7, <1>8, <2>1, TypeFacts DEF AlignInv, GdnInv, Group
    <3>2. Shared(h.req) => Shared(h.req)'
      BY <1>8 DEF Shared
    <3>3. QED
      BY <1>3, <1>9, <3>1, <3>2 DEF GroupEnds
  <2>2. QED
    BY <1>8, <1>10, <2>1
<1>12. batch' # <<>>
  BY <1>2, <1>6 DEF GdnInv, TypeOK
<1>13. \A i \in DOMAIN metadata : metadata = <<>>
  BY <1>3 DEF GdnInv, BatchInv
<1>14. QED
  BY <1>3, <1>11, <1>12, <1>13 DEF AlignInv, MetadataEnds

LEMMA AlignEndPrefill ==
    ASSUME GdnInv, AlignInv, EndPrefill
    PROVE  AlignInv'
<1>1. /\ phase = "prefill" /\ Scheduling /\ ~ Scheduling' /\ metadata = <<>> /\ metadata' = metadata
      /\ prompt' = prompt /\ num_computed' = num_computed /\ restore_keys' = restore_keys
  BY DEF EndPrefill, Scheduling, Sending, GdnInv, BatchInv
<1>2. batch \in Seq(Group) /\ batch' \in Seq(Group)
      /\ ToSet(batch') = {g \in ToSet(batch) : g.kind # "preempted"}
  BY EndPrefillFacts DEF EndPrefillOK, GdnInv, TypeOK
<1>3. Rest = ToSet(batch) /\ Rest' = ToSet(batch')
  BY <1>1, <1>2, AllMembers DEF Rest
<1>4. \A g \in Rest : GroupEnds(g)
  BY <1>1 DEF AlignInv
<1>5. ToSet(batch') = ToSet(batch)
  BY <1>2, <1>3, <1>4 DEF GroupEnds
<1>6. \A g \in Rest' : GroupEnds(g)'
  BY <1>1, <1>3, <1>4, <1>5 DEF GroupEnds, Shared
<1>7. \A r \in Request : prompt'[r] # None => EndOK(prompt'[r], num_computed'[r])
  BY <1>1 DEF AlignInv
<1>8. \A i \in DOMAIN metadata' : FALSE
  BY <1>1
<1>9. QED
  BY <1>1, <1>6, <1>7, <1>8 DEF AlignInv

\* The metadata of a group ends where the group does.
LEMMA AlignMetadata ==
    ASSUME GdnInv, AlignInv, phase = "metadata", NEW m, m.req = next_group.req,
           MetadataFrame(next_group.req, m), MetadataEnds(m)
    PROVE  AlignInv'
<1> PICK g, n : g = next_group /\ n = Len(metadata) + 1
  OBVIOUS
<1>1. NextGroupOK(g)
  BY NextGroupFacts
<1>2. /\ metadata' = Append(metadata, m) /\ batch' = batch /\ prompt' = prompt
      /\ num_computed' = num_computed /\ phase' # "idle" /\ ~ Scheduling'
      /\ \A q \in Request \ {g.req} : restore_keys'[q] = restore_keys[q]
  BY DEF MetadataFrame, Scheduling
<1>3. metadata \in Seq(Metadata) /\ Len(metadata) \in Nat
  BY DEF GdnInv, TypeOK
<1>4. Rest' = Rest \ {g}
  <2>1. Len(metadata') = n /\ n + 1 = Len(metadata) + 2
    BY <1>2, <1>3
  <2>2. QED
    BY <1>1, <1>2, <2>1 DEF Rest, NextGroupOK
<1>5. ASSUME NEW h \in Rest' PROVE GroupEnds(h)'
  <2>1. h \in Rest /\ h.req # g.req /\ h.req \in Request
    BY <1>1, <1>4 DEF NextGroupOK, Group
  <2>2. GroupEnds(h)
    BY <2>1 DEF AlignInv
  <2>3. Shared(h.req)' = Shared(h.req)
    BY <1>2 DEF Shared
  <2>4. QED
    BY <1>2, <2>1, <2>2, <2>3 DEF GroupEnds
<1>6. ASSUME NEW x \in {metadata'[i] : i \in DOMAIN metadata'} PROVE MetadataEnds(x)'
  <2>1. MetadataEnds(x) => MetadataEnds(x)'
    BY <1>2 DEF MetadataEnds, Shared
  <2>2. PICK i \in DOMAIN metadata' : x = metadata'[i]
    OBVIOUS
  <2>3. CASE i = n
    BY <1>2, <1>3, <2>1, <2>2, <2>3
  <2>4. CASE i \in DOMAIN metadata
    <3>1. x = metadata[i]
      BY <1>2, <1>3, <2>2, <2>4
    <3>2. QED
      BY <2>1, <2>4, <3>1 DEF AlignInv
  <2>5. QED
    BY <1>2, <1>3, <2>2, <2>3, <2>4
<1>7. \A r \in Request : prompt'[r] # None => EndOK(prompt'[r], num_computed'[r])
  BY <1>2 DEF AlignInv
<1>8. QED
  BY <1>2, <1>5, <1>6, <1>7 DEF AlignInv

LEMMA AlignBuildMetadata ==
    ASSUME GdnInv, AlignInv, BuildMetadata
    PROVE  AlignInv'
<1>1. PICK g, r : g = next_group /\ r = g.req
  OBVIOUS
<1>2. NextGroupOK(g) /\ phase = "metadata"
  BY <1>1, NextGroupFacts DEF BuildMetadata
<1>3. CASE g.kind = "decode"
  <2>1. PICK m : m = DecodeMetadata(g)
    OBVIOUS
  <2>2. GroupOK(g) /\ r \in Request /\ prompt[r] \in Prompt
    BY <1>1, <1>2 DEF NextGroupOK
  <2>3. ~ IsPrefill(r)
    BY <1>1, <1>3, <2>2, PromptFacts DEF GroupOK, IsPrefill
  <2>4. MetadataFrame(r, m)
    BY <1>1, <2>1, <2>3 DEF BuildMetadata, policyVars, workerVars, MetadataFrame
  <2>5. m.req = r /\ MetadataEnds(m)
    BY <1>1, <2>1 DEF DecodeMetadata, MetadataEnds
  <2>6. QED
    BY <1>1, <1>2, <2>4, <2>5, AlignMetadata
<1>4. CASE g.kind # "decode"
  <2>1. PICK end, C, admitted, m : PromptStepOK(g, end, C, admitted, m)
    BY <1>1, <1>4, PromptStep
  <2>2. /\ m.req = r /\ m.end = end /\ PrefillOK(g, end)
        /\ m.restore = (IF num_computed[r] = 0 THEN restore_keys[r] ELSE None)
    BY <1>1, <2>1 DEF PromptStepOK
  <2>3. MetadataFrame(r, m)
    <3>1. \A q \in Request \ {r} : restore_keys'[q] = restore_keys[q] /\ capture_targets'[q] = capture_targets[q]
      BY <1>1, <2>1 DEF PromptStepOK, GdnInv, TypeOK
    <3>2. QED
      BY <1>1, <2>1, <3>1 DEF PromptStepOK, MetadataFrame
  <2>4. GroupEnds(g) /\ GroupOK(g) /\ g.kind \in {"new", "prefill"} /\ g.chunk \in Nat
    BY <1>2, <1>4 DEF NextGroupOK, AlignInv, Group
  <2>5. Cost(g) = end - physical_context(r) /\ physical_context(r) \in Nat /\ end \in Nat
        /\ num_computed[r] \in Nat
    <3>1. end \in num_computed[r] + 1 .. prompt_len(prompt[r]) /\ num_computed[r] \in Nat
      BY <1>1, <2>2 DEF PrefillOK
    <3>2. prompt_len(prompt[r]) \in Nat
      BY <1>1, <1>2, PromptFacts DEF NextGroupOK
    <3>3. QED
      BY <1>1, <2>2, <3>1, <3>2 DEF PrefillOK
  <2>6. CASE g.kind = "new"
    <3>1. num_computed[r] = 0
      BY <1>1, <2>4, <2>6 DEF GroupOK, NewOK
    <3>2. Cost(g) = g.chunk - physical_context(r)
      BY <1>1, <2>6 DEF Cost
    <3>3. end = g.chunk
      BY <2>4, <2>5, <3>2
    <3>4. m.restore = restore_keys[r]
      BY <2>2, <3>1
    <3>5. MetadataEnds(m)
      BY <1>1, <2>2, <2>4, <2>6, <3>3, <3>4 DEF MetadataEnds, GroupEnds
    <3>6. QED
      BY <1>1, <1>2, <2>2, <2>3, <3>5, AlignMetadata
  <2>7. CASE g.kind = "prefill"
    <3>1. num_computed[r] # 0
      <4>1. RequestOK(r) /\ prompt[r] \in Prompt
        BY <1>1, <1>2, <2>4, <2>7 DEF GroupOK, NextGroupOK
      <4>2. QED
        BY <4>1, PromptFacts DEF RequestOK
    <3>2. Cost(g) = g.chunk /\ physical_context(r) = num_computed[r]
      BY <1>1, <2>2, <2>7, <3>1 DEF Cost, PrefillOK
    <3>3. end = num_computed[r] + g.chunk
      BY <2>4, <2>5, <3>2
    <3>4. MetadataEnds(m)
      BY <1>1, <2>2, <2>4, <2>7, <3>3 DEF MetadataEnds, GroupEnds
    <3>5. QED
      BY <1>1, <1>2, <2>2, <2>3, <3>4, AlignMetadata
  <2>8. QED
    BY <2>4, <2>6, <2>7
<1>5. QED
  BY <1>3, <1>4

\* A forward pass that runs is that of a request alone in its batch, if it restores.
LEMMA ExecuteEnds ==
    ASSUME GdnInv, AlignInv, Execute, NEW i \in prompts_in_batch
    PROVE  EndOK(prompt[metadata[i].req], metadata[i].end)
<1>1. PICK m : m = metadata[i]
  OBVIOUS
<1>2. i \in DOMAIN metadata /\ m.is_prompt
  BY <1>1 DEF prompts_in_batch
<1>3. MetadataEnds(m)
  BY <1>1, <1>2 DEF AlignInv
<1>4. CASE m.restore # None /\ Shared(m.req)
  <2>1. phase = "execute" /\ ~ step_raises
    BY DEF Execute
  <2>2. ~ (Len(metadata) > 1)
    BY <1>1, <1>4, <2>1 DEF step_raises, has_gdn_actions
  <2>3. /\ metadata \in Seq(Metadata) /\ batch \in Seq(Group) /\ Len(metadata) = Len(batch)
        /\ metadata[i].req = batch[i].req
    BY <1>2, <2>1 DEF GdnInv, TypeOK, BatchInv, Sending
  <2>4. Len(batch) \in Nat /\ i \in 1 .. Len(batch) /\ Len(batch) <= 1
    BY <1>2, <2>2, <2>3
  <2>5. PICK h \in ToSet(batch) : h.req # m.req
    BY <1>4 DEF Shared
  <2>6. PICK j \in 1 .. Len(batch) : h = batch[j]
    BY <2>3 DEF ToSet
  <2>7. j = i
    BY <2>4
  <2>8. QED
    BY <1>1, <2>3, <2>5, <2>6, <2>7
<1>5. QED
  BY <1>1, <1>2, <1>3, <1>4 DEF MetadataEnds

LEMMA AlignExecute ==
    ASSUME GdnInv, AlignInv, Execute
    PROVE  AlignInv'
<1>1. prompt' = prompt /\ batch' = <<>> /\ metadata' = <<>> /\ phase' = "idle" /\ ~ Scheduling'
  BY DEF Execute, Scheduling
<1>2. ASSUME NEW r \in Request, prompt'[r] # None PROVE EndOK(prompt'[r], num_computed'[r])
  <2>1. CASE \E i \in prompts_in_batch : metadata[i].req = r /\ num_computed'[r] = metadata[i].end
    BY <1>1, <2>1, ExecuteEnds
  <2>2. CASE num_computed'[r] = num_computed[r]
    BY <1>1, <1>2, <2>2 DEF AlignInv
  <2>3. RequestStep(r)
    BY ExecuteFacts
  <2>4. QED
    BY <2>1, <2>2, <2>3 DEF RequestStep
<1>3. \A i \in DOMAIN metadata' : FALSE
  BY <1>1
<1>4. QED
  BY <1>1, <1>2, <1>3 DEF AlignInv

LEMMA AlignKeeps ==
    ASSUME MaxNumSeqs = 1 \/ ~ Preemption, GdnInv, MaxNumSeqs = 1 => OneInv, AlignInv, [Next]_vars
    PROVE  AlignInv'
<1>1. ASSUME phase = "idle", phase' = "idle", metadata' = metadata,
             \A r \in Request :
                \/ prompt'[r] = prompt[r] /\ num_computed'[r] = num_computed[r]
                \/ num_computed'[r] = 0
      PROVE  AlignInv'
  <2>1. metadata = <<>> /\ ~ Scheduling'
    BY <1>1 DEF GdnInv, BatchInv, Sending, Scheduling
  <2>2. \A i \in DOMAIN metadata' : FALSE
    BY <1>1, <2>1
  <2>3. \A r \in Request : prompt'[r] # None => EndOK(prompt'[r], num_computed'[r])
    BY <1>1, WholeFacts DEF AlignInv, EndOK
  <2>4. QED
    BY <1>1, <2>1, <2>2, <2>3 DEF AlignInv
<1>2. ASSUME NEW r \in Request, NEW p \in Prompt, AddSeqGroup(r, p) PROVE AlignInv'
  <2>1. /\ prompt[r] = None /\ prompt' = [prompt EXCEPT ![r] = p] /\ num_computed' = num_computed
        /\ phase = "idle" /\ phase' = "idle" /\ metadata' = metadata
    BY <1>2 DEF AddSeqGroup, stepVars
  <2>2. num_computed[r] = 0
    BY <2>1 DEF GdnInv, QueueInv
  <2>3. \A q \in Request : prompt'[q] = prompt[q] \/ num_computed'[q] = 0
    BY <2>1, <2>2 DEF GdnInv, TypeOK
  <2>4. QED
    BY <1>1, <2>1, <2>3
<1>3. ASSUME NEW r \in Request, Abort(r) \/ Finish(r) PROVE AlignInv'
  <2>1. retire(r) /\ phase = "idle" /\ phase' = "idle" /\ metadata' = metadata
    BY <1>3 DEF Abort, Finish, stepVars
  <2>2. \A q \in Request :
          \/ prompt'[q] = prompt[q] /\ num_computed'[q] = num_computed[q]
          \/ num_computed'[q] = 0
    BY <2>1 DEF retire, GdnInv, TypeOK
  <2>3. QED
    BY <1>1, <2>1, <2>2
<1>4. ASSUME NEW k \in Key, EvictKv(k) PROVE AlignInv'
  BY <1>1, <1>4 DEF EvictKv, schedVars, stepVars
<1>5. CASE StartStep
  <2>1. /\ batch' = <<>> /\ metadata' = <<>> /\ num_batched' = 0 /\ phase' = "schedule"
        /\ prompt' = prompt /\ num_computed' = num_computed
    BY <1>5 DEF StartStep, schedVars
  <2>2. Rest' = {} /\ DOMAIN metadata' = {}
    BY <2>1, EmptySequence DEF Rest
  <2>3. QED
    BY <2>1, <2>2 DEF AlignInv
<1>6. CASE ScheduleRunning
  BY <1>6, AlignScheduleRunning
<1>7. CASE PreemptRunning
  <2>1. ~ (MaxNumSeqs = 1)
    BY <1>7, OnePreempts
  <2>2. Preemption
    BY <1>7 DEF PreemptRunning
  <2>3. QED
    BY <2>1, <2>2
<1>8. CASE EndRunning
  <2>1. /\ phase = "schedule" /\ phase' = "prefill"
        /\ UNCHANGED <<prompt, num_computed, restore_keys, batch, num_batched, metadata>>
    BY <1>8 DEF EndRunning, schedVars
  <2>2. metadata = <<>> /\ Scheduling
    BY <2>1 DEF GdnInv, BatchInv, Sending, Scheduling
  <2>3. Rest' = Rest /\ \A g \in Rest : GroupEnds(g)
    BY <2>1 DEF Rest, AlignInv
  <2>4. \A g \in Rest : GroupEnds(g)'
    BY <2>1, <2>3 DEF GroupEnds, Shared
  <2>5. \A i \in DOMAIN metadata' : FALSE
    BY <2>1, <2>2
  <2>6. QED
    BY <2>1, <2>2, <2>3, <2>4, <2>5 DEF AlignInv
<1>9. CASE SchedulePrefill
  BY <1>9, AlignSchedulePrefill
<1>10. CASE EndPrefill
  BY <1>10, AlignEndPrefill
<1>11. CASE BuildMetadata
  BY <1>11, AlignBuildMetadata
<1>12. CASE Execute
  BY <1>12, AlignExecute
<1>13. CASE UNCHANGED vars
  <2>1. UNCHANGED <<prompt, num_computed, restore_keys, batch, num_batched, metadata, phase>>
    BY <1>13 DEF vars, schedVars, stepVars
  <2>2. QED
    BY <2>1 DEF AlignInv, Rest, GroupEnds, MetadataEnds, Shared, Scheduling
<1>14. QED
  BY <1>2, <1>3, <1>4, <1>5, <1>6, <1>7, <1>8, <1>9, <1>10, <1>11, <1>12, <1>13 DEF Next

----------------------------------------------------------------------------
(* What the recurrent states have absorbed *)

\* The last chunk of a prompt's prefill lost tokens of the convolution's window.
Spoilt(r) ==
    num_computed[r] = prompt_len(prompt[r]) /\ may_lose_tail(prompt[r]) /\ mamba[r] = Garbage

\* The request-local state is that of the tokens counted as computed, unless the
\* prefill is over and its last chunk was short, and a request that has computed
\* none has no state.
StateInv ==
    \A r \in Request :
        IF num_computed[r] = 0 THEN mamba[r] = None
        ELSE mamba[r] = State(prompt[r], num_computed[r]) \/ Spoilt(r)

\* A forward pass that starts at a whole block and is shorter than the window is
\* the last one of a prompt that ends a few tokens after a block.
LEMMA EndLoss ==
    ASSUME NEW p \in Prompt, NEW from \in Nat, NEW to \in Nat, Whole(from), from < to,
           EndOK(p, to), loses_tail(from, to)
    PROVE  to = prompt_len(p) /\ may_lose_tail(p) /\ ~ Whole(to)
<1>1. BlockSize \in Nat \ {0} /\ ConvWindow \in 1 .. BlockSize
  BY GdnAssumption
<1>2. from > 0 /\ to - from < ConvWindow /\ to < from + BlockSize
  BY <1>1 DEF loses_tail
<1>3. ~ Whole(to)
  <2>1. Whole(to) => from + BlockSize <= to
    BY WholeFacts
  <2>2. QED
    BY <1>1, <1>2, <2>1
<1>4. to = prompt_len(p)
  BY <1>3 DEF EndOK
<1>5. PICK L \in Nat : L = Len(p.blocks) * BlockSize /\ Whole(L)
  <2>1. Len(p.blocks) \in Nat
    BY PromptFacts
  <2>2. Len(p.blocks) * BlockSize \in Nat /\ Whole(Len(p.blocks) * BlockSize)
    BY <2>1, WholeFacts
  <2>3. QED
    BY <2>2
<1>6. to = L + p.tail /\ p.tail \in 0 .. BlockSize - 1
  BY <1>4, <1>5, GdnAssumption DEF prompt_len
<1>7. from = L
  <2>1. L < from => L + BlockSize <= from
    BY <1>5, WholeFacts
  <2>2. from < L => from + BlockSize <= L
    BY <1>5, WholeFacts
  <2>3. PICK t \in 0 .. BlockSize - 1 : to = L + t
    BY <1>6
  <2>4. ~ (L < from)
    BY <1>1, <1>5, <2>1, <2>3
  <2>5. ~ (from < L)
    BY <1>1, <1>2, <1>5, <2>2, <2>3
  <2>6. QED
    BY <1>5, <2>4, <2>5
<1>8. p.tail \in 1 .. ConvWindow - 1
  <2>1. p.tail # 0
    BY <1>3, <1>5, <1>6
  <2>2. QED
    BY <1>1, <1>2, <1>5, <1>6, <1>7, <2>1
<1>9. p.blocks # <<>>
  <2>1. p.blocks = <<>> => Len(p.blocks) = 0
    OBVIOUS
  <2>2. Len(p.blocks) = 0 => L = 0
    BY <1>1, <1>5
  <2>3. QED
    BY <1>2, <1>7, <2>1, <2>2
<1>10. QED
  BY <1>3, <1>4, <1>8, <1>9 DEF may_lose_tail

\* The state a key names is that of any prompt the key is a prefix of, and before
\* the first token the state is zero.
LEMMA PrefixStates ==
    ASSUME NEW p \in Prompt
    PROVE  /\ State(p, 0) = Zero
           /\ \A k \in prefixes(p) : State(p, Len(k) * BlockSize) = KeyState(k)
<1>1. BlockSize \in Nat \ {0} /\ Len(p.blocks) \in Nat
  BY GdnAssumption, PromptFacts
<1>2. ASSUME NEW n \in Nat PROVE (n * BlockSize) \div BlockSize = n
  <2> DEFINE x == n * BlockSize
             q == x \div BlockSize
             y == q * BlockSize
  <2>1. x \in Nat
    BY <1>1, <1>2, Scale
  <2>2. q \in Nat /\ x % BlockSize \in 0 .. BlockSize - 1 /\ x = BlockSize * q + (x % BlockSize)
    BY <1>1, <2>1, DivMod
  <2>3. BlockSize * q = y /\ y \in Nat
    BY <1>1, <2>2
  <2>4. (q < n => y + BlockSize <= x) /\ (n < q => x + BlockSize <= y)
    BY <1>1, <2>2, Scale
  <2> DEFINE r == x % BlockSize
  <2>5. x = y + r /\ r \in 0 .. BlockSize - 1
    BY <2>2, <2>3
  <2> HIDE DEF x, y, q, r
  <2>6. ~ (q < n) /\ ~ (n < q)
    BY <1>1, <2>1, <2>3, <2>4, <2>5
  <2>7. q = n
    BY <2>2, <2>6
  <2>8. QED
    BY <2>7 DEF q, x
<1>3. State(p, 0) = Zero
  <2>1. 0 \div BlockSize = 0
    <3>1. 0 * BlockSize = 0
      BY <1>1
    <3>2. QED
      BY <1>2, <3>1
  <2>2. PrefixOf(p, 0) = <<>>
    BY <1>1, PrefixFacts
  <2>3. QED
    BY <2>1, <2>2 DEF State, Zero
<1>4. ASSUME NEW k \in prefixes(p) PROVE State(p, Len(k) * BlockSize) = KeyState(k)
  <2>1. k = PrefixOf(p, Len(k)) /\ Len(k) \in Nat
    BY KeyFacts
  <2>2. (Len(k) * BlockSize) \div BlockSize = Len(k)
    BY <1>2, <2>1
  <2>3. QED
    BY <2>1, <2>2 DEF State, KeyState
<1>5. QED
  BY <1>3, <1>4

\* Whether it restores a saved state, goes on with its own or starts anew, a
\* forward pass starts at a whole block from the state of the tokens before it, so
\* every state it saves or leaves behind is that of its prefix, the one it leaves
\* after a short last chunk apart.
LEMMA StateAfter ==
    ASSUME GdnInv, AlignInv, StateInv, SavedStateIsPrefixState, Execute,
           NEW i \in prompts_in_batch, NEW t
    PROVE  \/ state_at(metadata[i], t) = State(prompt[metadata[i].req], t)
           \/ /\ state_at(metadata[i], t) = Garbage
              /\ t = metadata[i].end /\ t = prompt_len(prompt[metadata[i].req]) /\ ~ Whole(t)
              /\ may_lose_tail(prompt[metadata[i].req])
<1>1. PICK m, p : m = metadata[i] /\ p = prompt[m.req]
  OBVIOUS
<1>2. i \in DOMAIN metadata /\ m.is_prompt
  BY <1>1 DEF prompts_in_batch
<1>3. /\ m \in Metadata /\ m.req \in Request /\ p \in Prompt /\ PromptMetaOK(m)
      /\ worker_context(m) = m.context
  BY <1>1, <1>2, MetadataFacts, QueryFacts DEF MetaOK
<1>4. /\ m.context \in Nat /\ m.end \in Nat /\ m.context < m.end /\ m.end <= prompt_len(p)
      /\ prompt_len(p) \in Nat /\ num_computed[m.req] \in Nat /\ num_computed[m.req] < m.end
  <2>1. m.context \in Nat /\ m.end \in Nat /\ num_computed[m.req] \in Nat
    BY <1>3, TypeFacts DEF Metadata, GdnInv
  <2>2. m.end \in num_computed[m.req] + 1 .. prompt_len(p) /\ m.context < m.end
    BY <1>1, <1>3 DEF PromptMetaOK
  <2>3. prompt_len(p) \in Nat
    BY <1>3, PromptFacts
  <2>4. QED
    BY <2>1, <2>2, <2>3
<1>5. Whole(m.context)
  <2>1. CASE m.restore # None
    <3>1. m.restore \in prefixes(p) /\ m.context = Len(m.restore) * BlockSize
      BY <1>1, <1>3, <2>1 DEF PromptMetaOK
    <3>2. m.restore \in Key
      BY <1>3, <3>1, KeyFacts
    <3>3. QED
      BY <3>1, <3>2, WholeFacts
  <2>2. CASE m.restore = None
    <3>1. m.context = num_computed[m.req]
      BY <1>3, <2>2 DEF PromptMetaOK
    <3>2. p # None
      BY <1>3, GdnAssumption
    <3>3. EndOK(p, num_computed[m.req])
      BY <1>1, <1>3, <3>2 DEF AlignInv
    <3>4. num_computed[m.req] # prompt_len(p)
      BY <1>4
    <3>5. QED
      BY <3>1, <3>3, <3>4 DEF EndOK
  <2>3. QED
    BY <2>1, <2>2
<1>6. initial_state(m) = State(p, m.context)
  <2>1. CASE m.restore # None
    <3>1. m.restore \in prefixes(p) /\ m.context = Len(m.restore) * BlockSize
      BY <1>1, <1>3, <2>1 DEF PromptMetaOK
    <3>2. m.restore \in Key
      BY <1>3, <3>1, KeyFacts
    <3>3. ~ forward_raises(m)
      BY <1>1 DEF Execute, step_raises
    <3>4. saved[m.restore] # None
      BY <2>1, <3>3 DEF forward_raises
    <3>5. saved[m.restore] = KeyState(m.restore)
      BY <3>2, <3>4 DEF SavedStateIsPrefixState
    <3>6. State(p, m.context) = KeyState(m.restore)
      BY <1>3, <3>1, PrefixStates
    <3>7. QED
      BY <2>1, <3>5, <3>6 DEF initial_state
  <2>2. CASE m.restore = None
    <3>1. m.context = num_computed[m.req]
      BY <1>3, <2>2 DEF PromptMetaOK
    <3>2. mamba[m.req] = IF num_computed[m.req] = 0 THEN None ELSE State(p, num_computed[m.req])
      <4>1. num_computed[m.req] # prompt_len(prompt[m.req])
        BY <1>1, <1>4
      <4>2. ~ Spoilt(m.req)
        BY <4>1 DEF Spoilt
      <4>3. QED
        BY <1>1, <1>3, <4>2 DEF StateInv
    <3>3. CASE num_computed[m.req] = 0
      <4>1. initial_state(m) = Zero
        BY <2>2, <3>2, <3>3 DEF initial_state
      <4>2. QED
        BY <1>3, <3>1, <3>3, <4>1, PrefixStates
    <3>4. CASE num_computed[m.req] # 0
      <4>1. mamba[m.req] = State(p, m.context)
        BY <3>1, <3>2, <3>4
      <4>2. State(p, m.context) # None
        <5>1. m.context \in 0 .. prompt_len(p)
          BY <1>4
        <5>2. QED
          BY <1>3, <5>1, StateFacts
      <4>3. QED
        BY <2>2, <4>1, <4>2 DEF initial_state
    <3>5. QED
      BY <3>3, <3>4
  <2>3. QED
    BY <2>1, <2>2
<1>7. CASE t = m.end /\ loses_tail(m.context, t)
  <2>1. EndOK(p, m.end)
    BY <1>1, ExecuteEnds
  <2>2. m.end = prompt_len(p) /\ may_lose_tail(p) /\ ~ Whole(m.end)
    BY <1>3, <1>4, <1>5, <1>7, <2>1, EndLoss
  <2>3. state_at(m, t) = Garbage
    BY <1>3, <1>7 DEF state_at
  <2>4. QED
    BY <1>1, <1>7, <2>2, <2>3
<1>8. CASE ~ (t = m.end /\ loses_tail(m.context, t))
  <2>1. state_at(m, t) = absorb(initial_state(m), p, m.context, t)
    BY <1>1, <1>3, <1>8 DEF state_at
  <2>2. QED
    BY <1>1, <1>6, <2>1 DEF absorb
<1>9. QED
  BY <1>7, <1>8

LEMMA StateExecute ==
    ASSUME GdnInv, AlignInv, StateInv, SavedStateIsPrefixState, Execute
    PROVE  StateInv' /\ SavedStateIsPrefixState'
<1>1. prompt' = prompt
  BY DEF Execute
<1>2. ASSUME NEW r \in Request
      PROVE  IF num_computed'[r] = 0 THEN mamba'[r] = None
             ELSE mamba'[r] = State(prompt'[r], num_computed'[r]) \/ Spoilt(r)'
  <2>1. CASE \E i \in prompts_in_batch : /\ metadata[i].req = r /\ num_computed'[r] = metadata[i].end
                                         /\ mamba'[r] = state_at(metadata[i], metadata[i].end)
    <3>1. PICK i \in prompts_in_batch : /\ metadata[i].req = r /\ num_computed'[r] = metadata[i].end
                                        /\ mamba'[r] = state_at(metadata[i], metadata[i].end)
      BY <2>1
    <3>2. \/ mamba'[r] = State(prompt[r], num_computed'[r])
          \/ /\ num_computed'[r] = prompt_len(prompt[r]) /\ may_lose_tail(prompt[r])
             /\ mamba'[r] = Garbage
      BY <3>1, StateAfter
    <3>3. num_computed'[r] # 0
      <4>1. num_computed'[r] \in num_computed[r] + 1 .. prompt_len(prompt[r])
            /\ prompt_len(prompt[r]) \in Nat /\ num_computed[r] \in Nat
        BY <3>1, StateAtFacts, TypeFacts DEF GdnInv
      <4>2. QED
        BY <4>1
    <3>4. QED
      BY <1>1, <3>2, <3>3 DEF Spoilt
  <2>2. CASE num_computed'[r] = num_computed[r] /\ mamba'[r] = mamba[r]
    BY <1>1, <2>2 DEF StateInv, Spoilt
  <2>3. RequestStep(r)
    BY ExecuteFacts
  <2>4. QED
    BY <2>1, <2>2, <2>3 DEF RequestStep
<1>3. ASSUME NEW k \in Key PROVE saved'[k] # None => saved'[k] = KeyState(k)
  <2>1. CASE \E i \in prompts_in_batch : /\ k \in metadata[i].capture
                                         /\ saved'[k] = state_at(metadata[i], Len(k) * BlockSize)
    <3>1. PICK i \in prompts_in_batch : /\ k \in metadata[i].capture
                                        /\ saved'[k] = state_at(metadata[i], Len(k) * BlockSize)
      BY <2>1
    <3>2. PICK p : p = prompt[metadata[i].req]
      OBVIOUS
    <3>3. p \in Prompt /\ k \in prefixes(p)
      BY <3>1, <3>2, MetadataFacts DEF MetaOK, PromptMetaOK, prompts_in_batch
    <3>4. saved'[k] = State(p, Len(k) * BlockSize)
      <4>1. Whole(Len(k) * BlockSize)
        BY WholeFacts
      <4>2. QED
        BY <3>1, <3>2, <4>1, StateAfter
    <3>5. QED
      BY <3>3, <3>4, PrefixStates
  <2>2. CASE saved'[k] = None \/ saved'[k] = saved[k]
    BY <2>2 DEF SavedStateIsPrefixState
  <2>3. SavedStep(k)
    BY ExecuteFacts
  <2>4. QED
    BY <2>1, <2>2, <2>3 DEF SavedStep
<1>4. QED
  BY <1>2, <1>3 DEF StateInv, SavedStateIsPrefixState

\* A step that is no forward pass changes the prompt and the tokens of a request
\* only when it has no state.
LEMMA StateFrame ==
    ASSUME StateInv, SavedStateIsPrefixState, saved' = saved,
           \A r \in Request :
              \/ mamba'[r] = None /\ num_computed'[r] = 0
              \/ /\ mamba'[r] = mamba[r] /\ num_computed'[r] = num_computed[r]
                 /\ prompt'[r] = prompt[r] \/ num_computed[r] = 0
    PROVE  StateInv' /\ SavedStateIsPrefixState'
  BY DEF StateInv, Spoilt, SavedStateIsPrefixState

LEMMA StateKeeps ==
    ASSUME MaxNumSeqs = 1 \/ ~ Preemption, GdnInv, MaxNumSeqs = 1 => OneInv,
           AlignInv, StateInv, SavedStateIsPrefixState, [Next]_vars
    PROVE  StateInv' /\ SavedStateIsPrefixState'
<1> DEFINE Kept == StateInv' /\ SavedStateIsPrefixState'
<1>0. ASSUME saved' = saved, mamba' = mamba, num_computed' = num_computed, prompt' = prompt
      PROVE  Kept
  BY <1>0, StateFrame
<1>1. ASSUME NEW r \in Request, NEW p \in Prompt, AddSeqGroup(r, p) PROVE Kept
  <2>1. /\ prompt[r] = None /\ prompt' = [prompt EXCEPT ![r] = p] /\ mamba' = mamba
        /\ num_computed' = num_computed /\ saved' = saved
    BY <1>1 DEF AddSeqGroup, workerVars
  <2>2. num_computed[r] = 0
    BY <2>1 DEF GdnInv, QueueInv
  <2>3. \A q \in Request : prompt'[q] = prompt[q] \/ num_computed[q] = 0
    BY <2>1, <2>2 DEF GdnInv, TypeOK
  <2>4. QED
    BY <2>1, <2>3, StateFrame
<1>2. ASSUME NEW r \in Request, Abort(r) \/ Finish(r) PROVE Kept
  <2>1. retire(r) /\ saved' = saved
    BY <1>2 DEF Abort, Finish
  <2>2. \A q \in Request :
          \/ mamba'[q] = None /\ num_computed'[q] = 0
          \/ mamba'[q] = mamba[q] /\ num_computed'[q] = num_computed[q] /\ prompt'[q] = prompt[q]
    BY <2>1 DEF retire, GdnInv, TypeOK
  <2>3. QED
    BY <2>1, <2>2, StateFrame
<1>3. ASSUME NEW k \in Key, EvictKv(k) PROVE Kept
  BY <1>0, <1>3 DEF EvictKv, schedVars, workerVars
<1>4. CASE PreemptRunning
  <2>1. ~ (MaxNumSeqs = 1)
    BY <1>4, OnePreempts
  <2>2. Preemption
    BY <1>4 DEF PreemptRunning
  <2>3. QED
    BY <2>1, <2>2
<1>5. CASE StartStep
  BY <1>0, <1>5 DEF StartStep, schedVars, workerVars
<1>6. CASE ScheduleRunning
  BY <1>0, <1>6 DEF ScheduleRunning, workerVars
<1>7. CASE EndRunning
  BY <1>0, <1>7 DEF EndRunning, schedVars, workerVars
<1>8. CASE SchedulePrefill
  BY <1>0, <1>8 DEF SchedulePrefill, workerVars
<1>9. CASE EndPrefill
  BY <1>0, <1>9 DEF EndPrefill, workerVars
<1>10. CASE BuildMetadata
  BY <1>0, <1>10 DEF BuildMetadata, workerVars
<1>11. CASE Execute
  BY <1>11, StateExecute
<1>12. CASE UNCHANGED vars
  BY <1>0, <1>12 DEF vars, schedVars, workerVars
<1>13. QED
  BY <1>1, <1>2, <1>3, <1>4, <1>5, <1>6, <1>7, <1>8, <1>9, <1>10, <1>11, <1>12 DEF Next

\* With one sequence at a time, or when the cache is never too small for the
\* running requests, no request comes back to a state of its own.
THEOREM StatesInvariance ==
    MaxNumSeqs = 1 \/ ~ Preemption => (Spec => [](AlignInv /\ StateInv /\ SavedStateIsPrefixState))
<1> SUFFICES ASSUME MaxNumSeqs = 1 \/ ~ Preemption
             PROVE  Spec => [](AlignInv /\ StateInv /\ SavedStateIsPrefixState)
  OBVIOUS
<1> DEFINE One == MaxNumSeqs = 1 => OneInv
           States == StateInv /\ SavedStateIsPrefixState
<1>1. Init => One /\ AlignInv /\ States
  <2>1. Init => StateInv
    BY DEF Init, StateInv
  <2>2. Init => SavedStateIsPrefixState
    BY DEF Init, SavedStateIsPrefixState
  <2>3. Init => AlignInv
    <3> SUFFICES ASSUME Init PROVE AlignInv
      OBVIOUS
    <3>1. \A r \in Request : prompt[r] = None
      BY DEF Init
    <3>2. phase = "idle" /\ ~ Scheduling /\ {metadata[i] : i \in DOMAIN metadata} = {}
      BY DEF Init, Scheduling
    <3>3. QED
      BY <3>1, <3>2 DEF AlignInv
  <2>4. QED
    BY <2>1, <2>2, <2>3, OneInit
<1>2. GdnInv /\ One /\ AlignInv /\ States /\ [Next]_vars => One' /\ AlignInv' /\ States'
  BY OneKeeps, AlignKeeps, StateKeeps
<1>3. QED
  BY <1>1, <1>2, Invariance, PTL DEF Spec

\* Every state in the worker's _gdn_prefix_cache is the state after exactly the
\* prefix its key names, whichever request, chunks and restored state led to it.
THEOREM SavedStatesAreSound ==
    MaxNumSeqs = 1 \/ ~ Preemption => (Spec => []SavedStateIsPrefixState)
  BY StatesInvariance, PTL

\* Between steps the recurrent state of a running request has absorbed exactly
\* the tokens the scheduler counts as computed, those skipped by a restored
\* prefix included; only a prompt that ends one to ConvWindow - 1 tokens after a
\* block may be left, when its prefill is over, with a state that lost tokens.
THEOREM StatesFollowProgress ==
    MaxNumSeqs = 1 \/ ~ Preemption => (Spec => []RequestStateMatchesProgress)
<1>1. GdnInv /\ StateInv => RequestStateMatchesProgress
  <2> SUFFICES ASSUME GdnInv, StateInv, phase = "idle", NEW i \in DOMAIN running, NEW r, r = running[i]
               PROVE  \/ mamba[r] = State(prompt[r], num_computed[r])
                      \/ ~ IsPrefill(r) /\ may_lose_tail(prompt[r]) /\ mamba[r] = Garbage
    BY DEF RequestStateMatchesProgress
  <2>1. r \in ToSet(running) /\ r \in Request
    BY TypeFacts DEF ToSet, GdnInv
  <2>2. RequestOK(r) /\ prompt[r] \in Prompt
    BY <2>1, TypeFacts DEF GdnInv, QueueInv, Sending, RequestOK
  <2>3. num_computed[r] # 0
    BY <2>2, PromptFacts DEF RequestOK
  <2>4. CASE Spoilt(r)
    <3>1. num_computed[r] = prompt_len(prompt[r]) /\ prompt_len(prompt[r]) \in Nat
      BY <2>2, <2>4, PromptFacts DEF Spoilt
    <3>2. ~ IsPrefill(r)
      BY <3>1 DEF IsPrefill
    <3>3. QED
      BY <2>4, <3>2 DEF Spoilt
  <2>5. QED
    BY <2>1, <2>3, <2>4 DEF StateInv
<1>2. QED
  BY <1>1, Invariance, StatesInvariance, PTL

----------------------------------------------------------------------------
(* What a step restores *)

\* Between its choice and its copy the restored state has the newest key of the
\* index, so it is not among those the step's own captures evict.
RestoreInv ==
    /\ phase # "idle" =>
         \A g \in Rest : g.kind = "new" /\ restore_keys[g.req] # None =>
             restore_keys[g.req] \in resident /\ Newest(policy, restore_keys[g.req])
    /\ \A i \in DOMAIN metadata : metadata[i].restore # None =>
         saved[metadata[i].restore] # None /\ metadata[i].restore \notin metadata[i].evict

\* Outside the metadata loop a step that changes neither keys nor index keeps this.
LEMMA RestoreFrame ==
    ASSUME RestoreInv, ~ Sending => metadata = <<>>, ~ Sending, metadata' = metadata,
           \/ phase' = "idle"
           \/ /\ phase # "idle" /\ Rest' \subseteq Rest
              /\ restore_keys' = restore_keys /\ resident' = resident /\ lru' = lru
    PROVE  RestoreInv'
<1>1. DOMAIN metadata' = {}
  OBVIOUS
<1>2. CASE phase' = "idle"
  BY <1>1, <1>2 DEF RestoreInv
<1>3. CASE /\ phase # "idle" /\ Rest' \subseteq Rest
           /\ restore_keys' = restore_keys /\ resident' = resident /\ lru' = lru
  BY <1>1, <1>3 DEF RestoreInv, Newest, policy
<1>4. QED
  BY <1>2, <1>3

LEMMA RestoreScheduleRunning ==
    ASSUME GdnInv, OneInv, RestoreInv, ScheduleRunning
    PROVE  RestoreInv'
<1>1. /\ phase = "schedule" /\ running # <<>> /\ metadata' = metadata
      /\ \E g : batch' = Append(batch, g) /\ g.kind # "new"
  BY DEF ScheduleRunning
<1>2. PICK g : batch' = Append(batch, g) /\ g.kind # "new"
  BY <1>1
<1>3. batch = <<>> /\ metadata = <<>>
  BY <1>1 DEF OneInv, GdnInv, BatchInv, Sending
<1>4. Rest' = {g} /\ DOMAIN metadata' = {}
  BY <1>1, <1>2, <1>3 DEF Rest
<1>5. QED
  BY <1>2, <1>4 DEF RestoreInv

LEMMA RestoreSchedulePrefill ==
    ASSUME MaxNumSeqs = 1, GdnInv, OneInv, RestoreInv, SchedulePrefill
    PROVE  RestoreInv'
<1>1. PICK r, p, restore : /\ r = Head(waiting) /\ p = prompt[r] /\ restore = select_restore(live_keys(p))
  OBVIOUS
<1>2. /\ phase = "prefill" /\ can_schedule_waiting /\ waiting # <<>> /\ num_curr_seqs + 1 <= 1
      /\ resident' = resident /\ metadata' = metadata /\ phase' = phase
      /\ restore_keys' = [restore_keys EXCEPT ![r] = restore]
      /\ lru' = IF restore = None THEN lru ELSE move_to_end(policy, restore).lru
      /\ \E g : batch' = Append(batch, g) /\ g.req = r
  <2>1. phase = "prefill" /\ can_schedule_waiting
    BY DEF SchedulePrefill
  <2>2. waiting # <<>> /\ num_curr_seqs + 1 <= 1
    BY <2>1 DEF can_schedule_waiting
  <2>3. resident' = resident /\ metadata' = metadata /\ phase' = phase
    BY DEF SchedulePrefill
  <2>4. restore_keys' = [restore_keys EXCEPT ![r] = restore]
    BY <1>1 DEF SchedulePrefill
  <2>5. lru' = IF restore = None THEN lru ELSE move_to_end(policy, restore).lru
    BY <1>1 DEF SchedulePrefill
  <2>6. \E g : batch' = Append(batch, g) /\ g.req = r
    BY <1>1 DEF SchedulePrefill
  <2>7. QED
    BY <2>1, <2>2, <2>3, <2>4, <2>5, <2>6
<1>3. PICK g : batch' = Append(batch, g) /\ g.req = r
  BY <1>2
<1>4. Scheduling /\ metadata = <<>>
  BY <1>2 DEF Scheduling, GdnInv, BatchInv, Sending
<1>5. Len(batch) = 0 /\ batch \in Seq(Group)
  BY <1>2, <1>4, SeatsTaken DEF GdnInv, TypeOK
<1>6. batch = <<>>
  BY <1>5
<1>7. Rest' = {g} /\ DOMAIN metadata' = {}
  BY <1>2, <1>3, <1>4, <1>6 DEF Rest
<1>8. r \in ToSet(waiting) /\ r \in Request
  BY <1>1, <1>2, HeadLaw DEF GdnInv, TypeOK
<1>9. restore_keys'[r] = restore
  BY <1>2, <1>8 DEF GdnInv, TypeOK
<1>10. p \in Prompt /\ mode \in Modes
  BY <1>1, <1>8, TypeFacts DEF GdnInv, QueueInv, TypeOK
<1>11. restore # None => restore \in resident
  BY <1>1, <1>10, RestoreFacts
<1>12. restore # None => Newest(policy, restore)'
  BY <1>2, <1>11, TouchIndex DEF GdnInv, IndexInv
<1>13. QED
  BY <1>2, <1>3, <1>7, <1>9, <1>11, <1>12 DEF RestoreInv

LEMMA RestoreEndPrefill ==
    ASSUME GdnInv, RestoreInv, EndPrefill
    PROVE  RestoreInv'
<1>1. /\ phase = "prefill" /\ ~ Sending /\ metadata = <<>> /\ metadata' = metadata
      /\ restore_keys' = restore_keys /\ resident' = resident /\ lru' = lru
  BY DEF EndPrefill, policyVars, GdnInv, BatchInv, Sending
<1>2. batch \in Seq(Group) /\ batch' \in Seq(Group) /\ ToSet(batch') \subseteq ToSet(batch)
  BY EndPrefillFacts DEF EndPrefillOK, GdnInv, TypeOK
<1>3. Rest = ToSet(batch) /\ Rest' = ToSet(batch')
  BY <1>1, <1>2, AllMembers DEF Rest
<1>4. QED
  BY <1>1, <1>2, <1>3, RestoreFrame

\* With one group the metadata loop is a single step, which starts from the index
\* the worker has.
LEMMA RestoreBuildMetadata ==
    ASSUME GdnCapacity >= 2, GdnInv, OneInv, RestoreInv, BuildMetadata
    PROVE  RestoreInv'
<1>1. PICK g, r : g = next_group /\ r = g.req
  OBVIOUS
<1>2. NextGroupOK(g) /\ phase = "metadata"
  BY <1>1, NextGroupFacts DEF BuildMetadata
<1>3. /\ metadata \in Seq(Metadata) /\ batch \in Seq(Group) /\ IsInjective(batch)
      /\ Len(metadata) < Len(batch)
  BY <1>2 DEF GdnInv, TypeOK, BatchInv
<1>4. Len(batch) \in Nat /\ Len(batch) <= 1
  BY <1>3, AtMostOneLength DEF OneInv
<1>5. metadata = <<>> /\ Len(batch) = 1
  <2>1. PICK a, b : a = Len(metadata) /\ b = Len(batch)
    OBVIOUS
  <2>2. a \in Nat /\ b \in Nat /\ a < b /\ b <= 1
    BY <1>3, <1>4, <2>1
  <2>3. a = 0 /\ b = 1
    BY <2>2
  <2>4. metadata \in Seq(Metadata) /\ Len(metadata) = 0
    BY <1>3, <2>1, <2>3
  <2>5. metadata = <<>>
    BY <2>4
  <2>6. QED
    BY <2>1, <2>3, <2>5
<1>6. PICK m : metadata' = Append(metadata, m)
  BY DEF BuildMetadata
<1>7. metadata' = <<m>> /\ batch' = batch /\ saved' = saved
  BY <1>5, <1>6 DEF BuildMetadata, workerVars
<1>8. Rest' = {} /\ DOMAIN metadata' = {1} /\ metadata'[1] = m
  <2>1. Len(<<m>>) + 1 .. Len(batch) = {}
    BY <1>5
  <2>2. QED
    BY <1>7, <2>1 DEF Rest
<1>9. ASSUME m.restore # None PROVE saved[m.restore] # None /\ m.restore \notin m.evict
  <2>1. g.kind # "decode"
    <3> SUFFICES ASSUME g.kind = "decode" PROVE FALSE
      OBVIOUS
    <3>1. GroupOK(g) /\ prompt[r] \in Prompt
      BY <1>1, <1>2 DEF NextGroupOK
    <3>2. num_computed[r] = prompt_len(prompt[r]) /\ prompt_len(prompt[r]) \in Nat
      BY <1>1, <3>1, PromptFacts DEF GroupOK
    <3>3. ~ IsPrefill(r)
      BY <3>2 DEF IsPrefill
    <3>4. metadata' = Append(metadata, DecodeMetadata(g))
      BY <1>1, <3>3 DEF BuildMetadata
    <3>5. metadata'[1] = DecodeMetadata(g)
      BY <1>5, <3>4
    <3>6. QED
      BY <1>8, <1>9, <3>5 DEF DecodeMetadata
  <2>2. PICK end, C, admitted, n : PromptStepOK(g, end, C, admitted, n)
    BY <1>1, <2>1, PromptStep
  <2>3. n = m
    <3>1. metadata' = Append(metadata, n)
      BY <2>2 DEF PromptStepOK
    <3>2. metadata'[1] = n
      BY <1>5, <3>1
    <3>3. QED
      BY <1>8, <3>2
  <2>4. /\ m.restore = (IF num_computed[r] = 0 THEN restore_keys[r] ELSE None)
        /\ m.evict = resident \ admitted.resident /\ AdmitOK(C, admitted)
    BY <1>1, <2>2, <2>3 DEF PromptStepOK
  <2>5. num_computed[r] = 0 /\ restore_keys[r] = m.restore
    BY <1>9, <2>4
  <2>6. g.kind = "new" /\ g \in Rest
    <3>1. g \in Rest /\ GroupOK(g) /\ g.kind \in {"new", "prefill", "decode"}
      BY <1>2 DEF NextGroupOK
    <3>2. prompt[r] \in Prompt
      BY <1>1, <1>2 DEF NextGroupOK
    <3>3. g.kind = "prefill" => num_computed[r] \in 1 .. prompt_len(prompt[r])
      BY <1>1, <3>1 DEF GroupOK, RequestOK
    <3>4. g.kind # "prefill"
      BY <2>5, <3>2, <3>3, PromptFacts
    <3>5. QED
      BY <2>1, <3>1, <3>4
  <2>7. m.restore \in resident /\ Newest(policy, m.restore)
    BY <1>1, <1>2, <1>9, <2>5, <2>6 DEF RestoreInv
  <2>8. m.restore \in admitted.resident
    BY <2>4, <2>7 DEF AdmitOK
  <2>9. resident = Saved
    <3>1. prompts_in_batch = {}
      BY <1>5 DEF prompts_in_batch
    <3>2. QED
      BY <3>1 DEF GdnInv, IndexInv, PendingInv
  <2>10. QED
    BY <2>4, <2>7, <2>8, <2>9 DEF Saved
<1>10. QED
  BY <1>7, <1>8, <1>9 DEF RestoreInv

LEMMA RestoreKeeps ==
    ASSUME MaxNumSeqs = 1, GdnCapacity >= 2, GdnInv, OneInv, RestoreInv, [Next]_vars
    PROVE  RestoreInv'
<1>0. /\ ~ Sending => metadata = <<>>
      /\ phase = "idle" => ~ Sending /\ metadata = <<>>
  BY DEF GdnInv, BatchInv, Sending
<1>1. ASSUME phase = "idle", phase' = "idle", metadata' = metadata PROVE RestoreInv'
  BY <1>0, <1>1, RestoreFrame
<1>2. ASSUME NEW r \in Request, NEW p \in Prompt, AddSeqGroup(r, p) PROVE RestoreInv'
  BY <1>1, <1>2 DEF AddSeqGroup, stepVars
<1>3. ASSUME NEW r \in Request, Abort(r) \/ Finish(r) PROVE RestoreInv'
  BY <1>1, <1>3 DEF Abort, Finish, stepVars
<1>4. ASSUME NEW k \in Key, EvictKv(k) PROVE RestoreInv'
  BY <1>1, <1>4 DEF EvictKv, stepVars
<1>5. ASSUME batch' = <<>>, metadata' = <<>> PROVE RestoreInv'
  <2>1. Rest' = {} /\ DOMAIN metadata' = {}
    BY <1>5, EmptySequence DEF Rest
  <2>2. QED
    BY <2>1 DEF RestoreInv
<1>6. CASE StartStep
  BY <1>5, <1>6 DEF StartStep
<1>7. CASE ScheduleRunning
  BY <1>7, RestoreScheduleRunning
<1>8. CASE PreemptRunning
  BY <1>8, OnePreempts
<1>9. CASE EndRunning
  <2>1. /\ phase = "schedule" /\ ~ Sending /\ metadata' = metadata /\ batch' = batch
        /\ restore_keys' = restore_keys /\ resident' = resident /\ lru' = lru
    BY <1>9 DEF EndRunning, schedVars, policyVars, Sending
  <2>2. Rest' = Rest
    BY <2>1 DEF Rest
  <2>3. QED
    BY <1>0, <2>1, <2>2, RestoreFrame
<1>10. CASE SchedulePrefill
  BY <1>10, RestoreSchedulePrefill
<1>11. CASE EndPrefill
  BY <1>11, RestoreEndPrefill
<1>12. CASE BuildMetadata
  BY <1>12, RestoreBuildMetadata
<1>13. CASE Execute
  BY <1>5, <1>13 DEF Execute
<1>14. CASE UNCHANGED vars
  <2>1. Rest' = Rest
    BY <1>14 DEF vars, stepVars, Rest
  <2>2. QED
    BY <1>14, <2>1 DEF vars, schedVars, policyVars, stepVars, workerVars, RestoreInv, Newest, policy
<1>15. QED
  BY <1>2, <1>3, <1>4, <1>6, <1>7, <1>8, <1>9, <1>10, <1>11, <1>12, <1>13, <1>14 DEF Next

\* The metadata of the only group of a step meets no check of the model runner
\* or the forward.
LEMMA ForwardRuns ==
    ASSUME GdnInv, OneInv, RestoreInv, phase = "execute"
    PROVE  ~ step_raises
<1>1. /\ metadata \in Seq(Metadata) /\ batch \in Seq(Group) /\ IsInjective(batch)
      /\ Len(metadata) = Len(batch)
  BY DEF GdnInv, TypeOK, BatchInv
<1>2. Len(metadata) \in Nat /\ Len(metadata) <= 1 /\ DOMAIN metadata = 1 .. Len(metadata)
  BY <1>1, AtMostOneLength DEF OneInv
<1>3. ~ (Cardinality(prompts_in_batch) > 1)
  <2>1. prompts_in_batch \subseteq {1}
    BY <1>2 DEF prompts_in_batch
  <2>2. prompts_in_batch = {} \/ prompts_in_batch = {1}
    BY <2>1
  <2>3. Cardinality(prompts_in_batch) = 0 \/ Cardinality(prompts_in_batch) = 1
    BY <2>2, FS_EmptySet, FS_Singleton
  <2>4. QED
    BY <2>3
<1>4. ~ (Len(metadata) > 1)
  BY <1>2
<1>5. ASSUME NEW i \in prompts_in_batch PROVE ~ forward_raises(metadata[i])
  <2>1. PICK m : m = metadata[i]
    OBVIOUS
  <2>2. i \in DOMAIN metadata /\ m.is_prompt
    BY <2>1 DEF prompts_in_batch
  <2>3. m \in Metadata /\ PromptMetaOK(m) /\ query_len(m) = m.end - m.context /\ prompt[m.req] \in Prompt
    BY <2>1, <2>2, MetadataFacts, QueryFacts DEF MetaOK
  <2>4. ~ (m.restore # None /\ (m.restore \in m.evict \/ saved[m.restore] = None))
    BY <2>1, <2>2 DEF RestoreInv
  <2>5. ASSUME NEW k \in m.capture PROVE offset(m, k) \in 1 .. query_len(m)
    <3>1. PICK x : x = Len(k) * BlockSize
      OBVIOUS
    <3>2. k \in prefixes(prompt[m.req]) /\ m.context < x /\ x <= m.end
      BY <2>3, <3>1 DEF PromptMetaOK
    <3>3. x \in Nat
      BY <2>3, <3>1, <3>2, KeyFacts
    <3>4. m.context \in Nat /\ m.end \in Nat
      BY <2>3 DEF Metadata
    <3>5. offset(m, k) = x - m.context
      BY <3>1 DEF offset
    <3>6. x - m.context \in 1 .. m.end - m.context
      BY <3>2, <3>3, <3>4
    <3>7. QED
      BY <2>3, <3>5, <3>6
  <2>6. m.segments \ (1 .. query_len(m) - 1) = {}
    BY <2>3 DEF PromptMetaOK
  <2>7. QED
    BY <2>1, <2>4, <2>5, <2>6 DEF forward_raises
<1>6. QED
  BY <1>3, <1>4, <1>5 DEF step_raises

\* With one sequence at a time and room for two states no RuntimeError of the
\* planning, the model runner or the forward is met: the state chosen for restore
\* outlives the evictions of the step that restores it.
THEOREM StepsNeverRaise == MaxNumSeqs = 1 /\ GdnCapacity >= 2 => (Spec => []NoStepRaises)
<1> SUFFICES ASSUME MaxNumSeqs = 1, GdnCapacity >= 2 PROVE Spec => []NoStepRaises
  OBVIOUS
<1>1. Spec => []OneInv
  BY OneAtATime
<1>2. Init => RestoreInv
  BY EmptySequence DEF Init, RestoreInv
<1>3. GdnInv /\ OneInv /\ RestoreInv /\ [Next]_vars => RestoreInv'
  BY RestoreKeeps
<1>4. Spec => []RestoreInv
  BY <1>1, <1>2, <1>3, Invariance, PTL DEF Spec
<1>5. NoPlanRaises /\ GdnInv /\ OneInv /\ RestoreInv => NoStepRaises
  BY ForwardRuns DEF NoStepRaises
<1>6. QED
  BY <1>1, <1>4, <1>5, Invariance, PlansNeverRaise, PTL
=============================================================================
