-------------------------- MODULE MambaCacheProofs --------------------------
(***************************************************************************)
(* Proofs about MambaCache, for every number of requests, samples, seats   *)
(* and steps: types, the state of each sequence follows the sequence, rows *)
(* are mapped only for live requests, and the clean-up has nothing to move. *)
(***************************************************************************)
EXTENDS MambaCache, LibraryLemmas

----------------------------------------------------------------------------
(* The inductive invariant *)

Scheduling == phase \in {"running", "swapped", "waiting"}
Working == phase \in {"release", "assign", "forward", "outputs"}

\* Lists of groups, and their requests.
Group == [req : Request, chunk : Nat]
Lists == [Kind -> Seq(Group)]

RequestsOf(g, k) == [i \in DOMAIN g[k] |-> g[k][i].req]

\* Of the lists that a step runs.
Joined(g) ==
    RequestsOf(g, "new") \o RequestsOf(g, "prefill") \o RequestsOf(g, "in_prefill")
        \o RequestsOf(g, "decode") \o RequestsOf(g, "in_decode")

Taken(g) == UNION {ToSet(RequestsOf(g, k)) : k \in RunKind}

\* Where a request may wait or be collected.  The lists of a step count while the
\* step is scheduled; then their requests are back in the queues.
Place == Kind \cup {"waiting", "running", "swapped"}

InPlaces(g, w, r, s) ==
    [q \in Place |-> IF q = "waiting" THEN w
                     ELSE IF q = "running" THEN r
                     ELSE IF q = "swapped" THEN s
                     ELSE RequestsOf(g, q)]

\* The lists of the step that is being scheduled.
collected == IF Scheduling THEN groups ELSE NoGroups

held == InPlaces(collected, waiting, running, swapped)

Members(h) == UNION {ToSet(h[q]) : q \in Place}

\* No request is in two places or in one place twice.
AllOnce(h) ==
    /\ h \in [Place -> Seq(Request)]
    /\ \A q \in Place : IsInjective(h[q])
    /\ \A p, q \in Place : p # q => ToSet(h[p]) \cap ToSet(h[q]) = {}

\* A request in a place is unfinished; the ids of finished requests travel once.
RequestInv ==
    /\ \A r \in Request : n[r] = 0 => num_seqs[r] = 0 /\ unfinished[r] = {}
    /\ \A r \in Request : need[r] > 0 /\ n[r] > 1 => num_seqs[r] = 1
    /\ \A r \in Request : n[r] = 1 => num_seqs[r] = 1
    /\ \A r \in Members(held) : unfinished[r] # {}
    /\ \A r \in finished_ids \cup delivered : n[r] # 0 /\ unfinished[r] = {}

\* What the step has scheduled is within its token budget, and no chunk is longer than
\* the prompt it is cut from.
BudgetInv ==
    /\ Scheduling => num_batched_tokens <= TokenBudget
    /\ Scheduling \/ Working =>
         \A k \in RunKind : \A g \in ToSet(groups[k]) :
             need[g.req] > 0 => g.chunk <= need[g.req]

\* The running sequences of the requests that the step has scheduled.
demand == {p \in Pair : p[1] \in ToSet(Scheduled) /\ p[2] \in unfinished[p[1]]}

\* The seats counted by the budget are enough for them, and so is the batch small.
SeatsInv ==
    /\ Scheduling => /\ IsFiniteSet(demand)
                     /\ Cardinality(demand) <= num_curr_seqs
                     /\ num_curr_seqs <= MaxNumSeqs
    /\ Working => Len(batch) <= MaxNumSeqs

\* The batch has the running sequences of the scheduled requests, each once, and
\* those assigned so far sit in the rows of their positions.
BatchInv ==
    Working =>
        /\ IsInjective(batch)
        /\ ToSet(Scheduled) \subseteq ToSet(running)
        /\ ToSet(batch) = demand
        /\ phase # "release" =>
             /\ assigned <= Len(batch)
             /\ \A i \in 1 .. assigned : indices[batch[i]] = i - 1
             /\ \A p \in Pair : p[1] \in delivered => indices[p] = NoRow
        /\ phase \in {"forward", "outputs"} => assigned = Len(batch)

\* No two sequences share a row.
RowsApart ==
    \A p, q \in Pair : indices[p] # NoRow /\ indices[p] = indices[q] => p = q

\* The first sequence of a request is mapped before its siblings are forked, and a
\* sequence without a row has been fed what the first one has, or nothing.
ForkInv ==
    /\ \A r \in Request, s \in Seqs : indices[<<r, s>>] # NoRow =>
         indices[<<r, 1>>] # NoRow /\ s <= num_seqs[r]
    /\ \A r \in Request : indices[<<r, 1>>] = NoRow =>
         unfinished[r] \subseteq {1} /\ \A s \in Seqs : fed[<<r, s>>] = <<>>
    /\ \A r \in Request, s \in Seqs :
         s \in unfinished[r] /\ indices[<<r, s>>] = NoRow => fed[<<r, s>>] = fed[<<r, 1>>]

\* MappedIsLive without the lists of a step that is over.
LiveInv ==
    \A p \in Pair : indices[p] # NoRow =>
        p[1] \in Members(held) \cup finished_ids \cup lost
                   \cup (IF phase = "release" THEN delivered ELSE {})

\* What holds while the engine has not stopped.
EngineInv ==
    /\ AllOnce(held) /\ RequestInv
    /\ BudgetInv /\ SeatsInv
    /\ BatchInv /\ ForkInv /\ LiveInv
    /\ raised = "no"

MambaInv ==
    /\ TypeOK
    /\ RowsApart /\ StateFollowsSequence
    /\ phase # "stopped" => EngineInv
    /\ phase = "stopped" => MappedIsLive /\ RowsSufficeForBatch


----------------------------------------------------------------------------
(* Places *)

\* Request r leaves place a, where t stays, for the end of place b.
Moves(g, h, a, b, r, t) ==
    /\ a \in Place /\ b \in Place /\ a # b
    /\ r \in Request /\ t \in Seq(Request)
    /\ ToSet(g[a]) = ToSet(t) \cup {r} /\ r \notin ToSet(t) /\ IsInjective(t)
    /\ h \in [Place -> Seq(Request)]
    /\ h[a] = t /\ h[b] = Append(g[b], r)
    /\ \A q \in Place : q # a /\ q # b => h[q] = g[q]

LEMMA MoveLaw ==
    ASSUME NEW g, AllOnce(g), NEW h, NEW a, NEW b, NEW r, NEW t, Moves(g, h, a, b, r, t)
    PROVE  AllOnce(h) /\ Members(h) = Members(g)
<1> USE DEF Moves
<1>1. g \in [Place -> Seq(Request)]
  BY DEF AllOnce
<1>2. /\ Append(g[b], r) \in Seq(Request)
      /\ ToSet(Append(g[b], r)) = ToSet(g[b]) \cup {r}
      /\ IsInjective(g[b]) /\ r \notin ToSet(g[b]) => IsInjective(Append(g[b], r))
  <2> DEFINE gb == g[b]
  <2>1. gb \in Seq(Request)
    BY <1>1
  <2> HIDE DEF gb
  <2>2. /\ Append(gb, r) \in Seq(Request)
        /\ ToSet(Append(gb, r)) = ToSet(gb) \cup {r}
        /\ IsInjective(gb) /\ r \notin ToSet(gb) => IsInjective(Append(gb, r))
    BY <2>1, AppendLaw
  <2>3. QED
    BY <2>2 DEF gb
<1>3. r \notin ToSet(g[b]) /\ IsInjective(g[b])
  BY DEF AllOnce
<1>4. /\ h \in [Place -> Seq(Request)]
      /\ h[a] = t /\ h[b] = Append(g[b], r)
      /\ \A q \in Place : q # a /\ q # b => h[q] = g[q]
  OBVIOUS
<1>5. \A q \in Place : IsInjective(h[q])
  BY <1>2, <1>3, <1>4 DEF AllOnce
<1>6. /\ ToSet(h[a]) = ToSet(g[a]) \ {r} /\ ToSet(h[b]) = ToSet(g[b]) \cup {r}
      /\ \A q \in Place : q # a /\ q # b => ToSet(h[q]) = ToSet(g[q])
  BY <1>2, <1>4
<1>7. \A p, q \in Place : p # q => ToSet(h[p]) \cap ToSet(h[q]) = {}
  <2> SUFFICES ASSUME NEW p \in Place, NEW q \in Place, p # q,
                      NEW x, x \in ToSet(h[p]), x \in ToSet(h[q])
               PROVE  FALSE
    OBVIOUS
  <2>1. \A u, v \in Place : u # v => ~ (x \in ToSet(g[u]) /\ x \in ToSet(g[v]))
    BY DEF AllOnce
  <2>2. r \in ToSet(g[a])
    OBVIOUS
  <2>3. QED
    BY <1>6, <2>1, <2>2
<1>8. Members(h) = Members(g)
  <2>1. ASSUME NEW x \in Members(h) PROVE x \in Members(g)
    <3>1. PICK q \in Place : x \in ToSet(h[q])
      BY <2>1 DEF Members
    <3>2. \E u \in Place : x \in ToSet(g[u])
      BY <1>6, <3>1
    <3>3. QED
      BY <3>2 DEF Members
  <2>2. ASSUME NEW x \in Members(g) PROVE x \in Members(h)
    <3>1. PICK q \in Place : x \in ToSet(g[q])
      BY <2>2 DEF Members
    <3>2. \E u \in Place : x \in ToSet(h[u])
      BY <1>6, <3>1
    <3>3. QED
      BY <3>2 DEF Members
  <2>3. QED
    BY <2>1, <2>2
<1>9. QED
  BY <1>4, <1>5, <1>7, <1>8 DEF AllOnce

\* Requests that only leave.
LEMMA DropLaw ==
    ASSUME NEW g, AllOnce(g), NEW h \in [Place -> Seq(Request)],
           \A q \in Place : IsInjective(h[q]) /\ ToSet(h[q]) \subseteq ToSet(g[q])
    PROVE  AllOnce(h) /\ Members(h) \subseteq Members(g)
<1>1. \A p, q \in Place : p # q => ToSet(h[p]) \cap ToSet(h[q]) = {}
  <2>1. \A p, q \in Place : p # q => ToSet(g[p]) \cap ToSet(g[q]) = {}
    BY DEF AllOnce
  <2>2. QED
    BY <2>1
<1>2. Members(h) \subseteq Members(g)
  BY DEF Members
<1>3. QED
  BY <1>1, <1>2 DEF AllOnce

\* A request that comes.
LEMMA AddLaw ==
    ASSUME NEW g, AllOnce(g), NEW a \in Place, NEW r \in Request, r \notin Members(g),
           NEW h \in [Place -> Seq(Request)], h[a] = Append(g[a], r),
           \A q \in Place : q # a => h[q] = g[q]
    PROVE  AllOnce(h) /\ Members(h) = Members(g) \cup {r}
<1>1. g \in [Place -> Seq(Request)]
  BY DEF AllOnce
<1>2. /\ Append(g[a], r) \in Seq(Request)
      /\ ToSet(Append(g[a], r)) = ToSet(g[a]) \cup {r}
      /\ IsInjective(g[a]) /\ r \notin ToSet(g[a]) => IsInjective(Append(g[a], r))
  <2> DEFINE gb == g[a]
  <2>1. gb \in Seq(Request)
    BY <1>1
  <2> HIDE DEF gb
  <2>2. /\ Append(gb, r) \in Seq(Request)
        /\ ToSet(Append(gb, r)) = ToSet(gb) \cup {r}
        /\ IsInjective(gb) /\ r \notin ToSet(gb) => IsInjective(Append(gb, r))
    BY <2>1, AppendLaw
  <2>3. QED
    BY <2>2 DEF gb
<1>3. \A q \in Place : r \notin ToSet(g[q])
  BY DEF Members
<1>4. /\ h \in [Place -> Seq(Request)]
      /\ h[a] = Append(g[a], r)
      /\ \A q \in Place : q # a => h[q] = g[q]
  OBVIOUS
<1>5. \A q \in Place : IsInjective(h[q])
  BY <1>2, <1>3, <1>4 DEF AllOnce
<1>6. /\ ToSet(h[a]) = ToSet(g[a]) \cup {r}
      /\ \A q \in Place : q # a => ToSet(h[q]) = ToSet(g[q])
  BY <1>2, <1>4
<1>7. \A p, q \in Place : p # q => ToSet(h[p]) \cap ToSet(h[q]) = {}
  <2> SUFFICES ASSUME NEW p \in Place, NEW q \in Place, p # q,
                      NEW x, x \in ToSet(h[p]), x \in ToSet(h[q])
               PROVE  FALSE
    OBVIOUS
  <2>1. ~ (x \in ToSet(g[p]) /\ x \in ToSet(g[q]))
    BY DEF AllOnce
  <2>2. QED
    BY <1>3, <1>6, <2>1
<1>8. Members(h) = Members(g) \cup {r}
  <2>1. ASSUME NEW x \in Members(h) PROVE x \in Members(g) \cup {r}
    <3>1. PICK q \in Place : x \in ToSet(h[q])
      BY <2>1 DEF Members
    <3>2. x = r \/ x \in ToSet(g[q])
      BY <1>6, <3>1
    <3>3. QED
      BY <3>2 DEF Members
  <2>2. ASSUME NEW x \in Members(g) PROVE x \in Members(h)
    <3>1. PICK q \in Place : x \in ToSet(g[q])
      BY <2>2 DEF Members
    <3>2. x \in ToSet(h[q])
      BY <1>6, <3>1
    <3>3. QED
      BY <3>2 DEF Members
  <2>3. r \in Members(h)
    BY <1>6 DEF Members
  <2>4. QED
    BY <2>1, <2>2, <2>3
<1>9. QED
  BY <1>4, <1>5, <1>7, <1>8 DEF AllOnce


----------------------------------------------------------------------------
(* The lists of a step *)

LEMMA KindsAreNamed ==
    /\ RunKind \subseteq Kind /\ Kind \subseteq Place
    /\ {"waiting", "running", "swapped"} \subseteq Place \ Kind
    /\ {"preempted", "swapped_out"} \subseteq Kind \ RunKind
    /\ {"new", "prefill", "decode", "in_prefill", "in_decode"} \subseteq RunKind
  BY DEF RunKind, Kind, Place

LEMMA RequestsLaw ==
    ASSUME NEW g \in Lists, NEW k \in Kind
    PROVE  /\ RequestsOf(g, k) \in Seq(Request)
           /\ DOMAIN RequestsOf(g, k) = DOMAIN g[k]
           /\ Len(RequestsOf(g, k)) = Len(g[k])
           /\ ToSet(RequestsOf(g, k)) = {x.req : x \in ToSet(g[k])}
<1> DEFINE s == g[k]
           t == RequestsOf(g, k)
<1>1. s \in Seq(Group)
  BY DEF Lists
<1>2. t = [i \in DOMAIN s |-> s[i].req]
  BY DEF RequestsOf
<1> HIDE DEF s, t
<1>3. DOMAIN s = 1 .. Len(s) /\ Len(s) \in Nat /\ \A i \in DOMAIN s : s[i].req \in Request
  <2>1. DOMAIN s = 1 .. Len(s) /\ Len(s) \in Nat /\ \A i \in 1 .. Len(s) : s[i] \in Group
    BY <1>1
  <2>2. \A x \in Group : x.req \in Request
    BY DEF Group
  <2>3. QED
    BY <2>1, <2>2
<1>4. t \in Seq(Request) /\ DOMAIN t = DOMAIN s /\ Len(t) = Len(s)
  BY <1>2, <1>3
<1>5. ToSet(t) = {x.req : x \in ToSet(s)}
  BY <1>2, <1>4 DEF ToSet
<1>6. QED
  BY <1>4, <1>5 DEF s, t

\* A group recorded at the end of a list.
Recorded(g, r, tokens, kind) ==
    [g EXCEPT ![kind] = Append(@, [req |-> r, chunk |-> tokens])]

LEMMA RecordLaw ==
    ASSUME NEW g \in Lists, NEW r \in Request, NEW tokens \in Nat, NEW kind \in Kind
    PROVE  LET h == Recorded(g, r, tokens, kind) IN
           /\ h \in Lists
           /\ RequestsOf(h, kind) = Append(RequestsOf(g, kind), r)
           /\ ToSet(h[kind]) = ToSet(g[kind]) \cup {[req |-> r, chunk |-> tokens]}
           /\ \A k \in Kind : k # kind => h[k] = g[k] /\ RequestsOf(h, k) = RequestsOf(g, k)
<1> DEFINE h == Recorded(g, r, tokens, kind)
           x == [req |-> r, chunk |-> tokens]
           s == g[kind]
           t == Append(s, x)
<1>1. x \in Group /\ x.req = r
  BY DEF Group
<1>2. s \in Seq(Group) /\ g \in [Kind -> Seq(Group)]
  BY DEF Lists
<1>3. h = [g EXCEPT ![kind] = t]
  BY DEF Recorded
<1> HIDE DEF h, x, s
<1>4. t \in Seq(Group) /\ ToSet(t) = ToSet(s) \cup {x}
  BY <1>1, <1>2, AppendLaw
<1>5. Len(t) = Len(s) + 1 /\ DOMAIN t = 1 .. Len(s) + 1 /\ t[Len(s) + 1] = x
      /\ (\A i \in 1 .. Len(s) : t[i] = s[i]) /\ DOMAIN s = 1 .. Len(s) /\ Len(s) \in Nat
  BY <1>1, <1>2
<1> HIDE DEF t
<1>6. h \in [Kind -> Seq(Group)] /\ h[kind] = t /\ \A k \in Kind : k # kind => h[k] = g[k]
  BY <1>2, <1>3, <1>4
<1>7. RequestsOf(h, kind) = [i \in DOMAIN t |-> t[i].req]
  BY <1>6 DEF RequestsOf
<1>8. RequestsOf(g, kind) = [i \in DOMAIN s |-> s[i].req]
  BY DEF RequestsOf, s
<1>9. RequestsOf(g, kind) \in Seq(Request) /\ Len(RequestsOf(g, kind)) = Len(s)
  BY RequestsLaw DEF s
<1>10. [i \in DOMAIN t |-> t[i].req] = Append(RequestsOf(g, kind), r)
  <2> DEFINE u == RequestsOf(g, kind)
             v == [i \in DOMAIN t |-> t[i].req]
             w == Append(u, r)
  <2>1. u \in Seq(Request) /\ Len(u) = Len(s) /\ \A i \in 1 .. Len(s) : u[i] = s[i].req
    BY <1>5, <1>8, <1>9
  <2> HIDE DEF u
  <2>2. w \in Seq(Request) /\ Len(w) = Len(s) + 1 /\ w[Len(s) + 1] = r /\ \A i \in 1 .. Len(s) : w[i] = u[i]
    BY <1>5, <2>1
  <2>3. v \in Seq(Request) /\ Len(v) = Len(s) + 1
    <3>1. \A i \in 1 .. Len(s) + 1 : t[i].req \in Request
      <4>1. \A i \in DOMAIN t : t[i] \in Group
        BY <1>4
      <4>2. \A y \in Group : y.req \in Request
        BY DEF Group
      <4>3. QED
        BY <1>5, <4>1, <4>2
    <3>2. QED
      BY <1>5, <3>1
  <2>4. \A i \in 1 .. Len(s) + 1 : v[i] = w[i]
    <3>1. \A i \in 1 .. Len(s) + 1 : v[i] = t[i].req
      BY <1>5
    <3>2. \A i \in 1 .. Len(s) + 1 : i = Len(s) + 1 \/ i \in 1 .. Len(s)
      BY <1>5
    <3>3. QED
      BY <1>1, <1>5, <2>1, <2>2, <3>1, <3>2
  <2> HIDE DEF v, w
  <2>5. v = w
    BY <2>2, <2>3, <2>4
  <2>6. QED
    BY <2>5 DEF v, w, u
<1>11. \A k \in Kind : k # kind => RequestsOf(h, k) = RequestsOf(g, k)
  BY <1>6 DEF RequestsOf
<1>12. QED
  BY <1>4, <1>6, <1>7, <1>10, <1>11 DEF Lists, h, s, x

\* The scheduled requests, in the order of the batch.
LEMMA JoinedLaw ==
    ASSUME NEW g \in Lists
    PROVE  /\ Joined(g) \in Seq(Request)
           /\ ToSet(Joined(g)) = Taken(g)
           /\ (/\ \A k \in RunKind : IsInjective(RequestsOf(g, k))
               /\ \A k, l \in RunKind : k # l => ToSet(RequestsOf(g, k)) \cap ToSet(RequestsOf(g, l)) = {})
              => IsInjective(Joined(g))
<1> DEFINE a == RequestsOf(g, "new")
           b == RequestsOf(g, "prefill")
           c == RequestsOf(g, "in_prefill")
           d == RequestsOf(g, "decode")
           e == RequestsOf(g, "in_decode")
           Apart == /\ \A k \in RunKind : IsInjective(RequestsOf(g, k))
                    /\ \A k, l \in RunKind :
                          k # l => ToSet(RequestsOf(g, k)) \cap ToSet(RequestsOf(g, l)) = {}
<1>1. Taken(g) = ToSet(a) \cup ToSet(b) \cup ToSet(c) \cup ToSet(d) \cup ToSet(e)
  BY DEF Taken, RunKind
<1>2. /\ a \in Seq(Request) /\ b \in Seq(Request) /\ c \in Seq(Request)
      /\ d \in Seq(Request) /\ e \in Seq(Request)
  BY RequestsLaw, KindsAreNamed
<1>3. Apart => /\ IsInjective(a) /\ IsInjective(b) /\ IsInjective(c) /\ IsInjective(d) /\ IsInjective(e)
               /\ ToSet(a) \cap ToSet(b) = {}
               /\ (ToSet(a) \cup ToSet(b)) \cap ToSet(c) = {}
               /\ (ToSet(a) \cup ToSet(b) \cup ToSet(c)) \cap ToSet(d) = {}
               /\ (ToSet(a) \cup ToSet(b) \cup ToSet(c) \cup ToSet(d)) \cap ToSet(e) = {}
  <2> SUFFICES ASSUME Apart
               PROVE  /\ IsInjective(a) /\ IsInjective(b) /\ IsInjective(c) /\ IsInjective(d) /\ IsInjective(e)
                      /\ ToSet(a) \cap ToSet(b) = {}
                      /\ (ToSet(a) \cup ToSet(b)) \cap ToSet(c) = {}
                      /\ (ToSet(a) \cup ToSet(b) \cup ToSet(c)) \cap ToSet(d) = {}
                      /\ (ToSet(a) \cup ToSet(b) \cup ToSet(c) \cup ToSet(d)) \cap ToSet(e) = {}
    OBVIOUS
  <2>1. IsInjective(a) /\ IsInjective(b) /\ IsInjective(c) /\ IsInjective(d) /\ IsInjective(e)
    BY KindsAreNamed
  <2>2. \A k, l \in RunKind : k # l => ToSet(RequestsOf(g, k)) \cap ToSet(RequestsOf(g, l)) = {}
    OBVIOUS
  <2>3. /\ ToSet(a) \cap ToSet(b) = {} /\ ToSet(a) \cap ToSet(c) = {} /\ ToSet(a) \cap ToSet(d) = {}
        /\ ToSet(a) \cap ToSet(e) = {}
    BY <2>2, KindsAreNamed
  <2>4. /\ ToSet(b) \cap ToSet(c) = {} /\ ToSet(b) \cap ToSet(d) = {} /\ ToSet(b) \cap ToSet(e) = {}
    BY <2>2, KindsAreNamed
  <2>5. ToSet(c) \cap ToSet(d) = {} /\ ToSet(c) \cap ToSet(e) = {} /\ ToSet(d) \cap ToSet(e) = {}
    BY <2>2, KindsAreNamed
  <2> HIDE DEF a, b, c, d, e, Apart
  <2>6. QED
    BY <2>1, <2>3, <2>4, <2>5
<1>4. Joined(g) = (((a \o b) \o c) \o d) \o e
  BY DEF Joined
<1> HIDE DEF a, b, c, d, e, Apart
<1> DEFINE ab == a \o b
<1>5. ab \in Seq(Request) /\ ToSet(ab) = ToSet(a) \cup ToSet(b) /\ (Apart => IsInjective(ab))
  BY <1>2, <1>3, ConcatLaw
<1> HIDE DEF ab
<1> DEFINE abc == ab \o c
<1>6. abc \in Seq(Request) /\ ToSet(abc) = ToSet(ab) \cup ToSet(c) /\ (Apart => IsInjective(abc))
  BY <1>2, <1>3, <1>5, ConcatLaw
<1> HIDE DEF abc
<1> DEFINE abcd == abc \o d
<1>7. abcd \in Seq(Request) /\ ToSet(abcd) = ToSet(abc) \cup ToSet(d) /\ (Apart => IsInjective(abcd))
  BY <1>2, <1>3, <1>5, <1>6, ConcatLaw
<1> HIDE DEF abcd
<1> DEFINE all == abcd \o e
<1>8. all \in Seq(Request) /\ ToSet(all) = ToSet(abcd) \cup ToSet(e) /\ (Apart => IsInjective(all))
  BY <1>2, <1>3, <1>5, <1>6, <1>7, ConcatLaw
<1>9. Joined(g) = all
  BY <1>4 DEF all, abcd, abc, ab
<1>10. QED
  BY <1>1, <1>5, <1>6, <1>7, <1>8, <1>9 DEF Apart


----------------------------------------------------------------------------
(* What the steps of the scheduler leave alone *)

LEMMA HeldParts ==
    /\ held = InPlaces(collected, waiting, running, swapped)
    /\ held' = InPlaces(collected', waiting', running', swapped')
    /\ Scheduled = Joined(groups) /\ Scheduled' = Joined(groups')
    /\ \A k \in Kind : Requests(k) = RequestsOf(groups, k) /\ Requests(k)' = RequestsOf(groups', k)
<1>1. held = InPlaces(collected, waiting, running, swapped)
  BY DEF held
<1>2. held' = InPlaces(collected', waiting', running', swapped')
  BY DEF held, InPlaces, RequestsOf
<1>3. Scheduled = Joined(groups) /\ Scheduled' = Joined(groups')
  BY DEF Scheduled, Joined, Requests, RequestsOf
<1>4. \A k \in Kind : Requests(k) = RequestsOf(groups, k) /\ Requests(k)' = RequestsOf(groups', k)
  BY DEF Requests, RequestsOf
<1>5. QED
  BY <1>1, <1>2, <1>3, <1>4

LEMMA PlacesLaw ==
    ASSUME NEW g \in Lists, NEW w \in Seq(Request), NEW r \in Seq(Request), NEW s \in Seq(Request)
    PROVE  LET h == InPlaces(g, w, r, s) IN
           /\ h \in [Place -> Seq(Request)]
           /\ h["waiting"] = w /\ h["running"] = r /\ h["swapped"] = s
           /\ \A k \in Kind : h[k] = RequestsOf(g, k)
<1> DEFINE h == InPlaces(g, w, r, s)
<1>1. \A k \in Kind : RequestsOf(g, k) \in Seq(Request)
  BY RequestsLaw
<1>2. \A k \in Kind : k \in Place /\ k \notin {"waiting", "running", "swapped"}
  BY DEF Kind, RunKind, Place
<1>3. \A q \in Place : q \in Kind \/ q \in {"waiting", "running", "swapped"}
  BY DEF Place
<1>4. {"waiting", "running", "swapped"} \subseteq Place
  BY DEF Place
<1>5. /\ h["waiting"] = w /\ h["running"] = r /\ h["swapped"] = s
      /\ \A k \in Kind : h[k] = RequestsOf(g, k)
  BY <1>2, <1>4 DEF InPlaces
<1>6. h = [q \in Place |-> h[q]]
  BY DEF InPlaces
<1> HIDE DEF h
<1>7. \A q \in Place : h[q] \in Seq(Request)
  BY <1>1, <1>3, <1>5
<1>8. QED
  BY <1>5, <1>6, <1>7 DEF h

LEMMA NoGroupsLaw ==
    /\ NoGroups \in Lists
    /\ \A k \in Kind : RequestsOf(NoGroups, k) = <<>> /\ ToSet(NoGroups[k]) = {}
<1>1. <<>> \in Seq(Group) /\ DOMAIN <<>> = {} /\ ToSet(<<>>) = {}
  BY DEF ToSet
<1>2. \A k \in Kind : NoGroups[k] = <<>>
  BY DEF NoGroups
<1>3. NoGroups \in Lists
  BY <1>1 DEF NoGroups, Lists
<1>4. \A k \in Kind : RequestsOf(NoGroups, k) = <<>>
  BY <1>1, <1>2 DEF RequestsOf
<1>5. QED
  BY <1>1, <1>2, <1>3, <1>4

\* The rows and what was fed stay; requests may finish, and a request may begin.
LEMMA RowsFrame ==
    ASSUME TypeOK, RowsApart, StateFollowsSequence, ForkInv,
           UNCHANGED <<indices, row, fed>>,
           \A r \in Request : num_seqs[r] <= num_seqs'[r],
           \A r \in Request : num_seqs'[r] \in Nat,
           \A r \in Request : unfinished'[r] \subseteq unfinished[r] \cup {1}
    PROVE  RowsApart' /\ StateFollowsSequence' /\ ForkInv'
<1>1. RowsApart'
  BY DEF RowsApart
<1>2. StateFollowsSequence'
  BY DEF StateFollowsSequence
<1>3. ASSUME NEW r \in Request, NEW s \in Seqs, indices[<<r, s>>] # NoRow
      PROVE  indices[<<r, 1>>] # NoRow /\ s <= num_seqs'[r]
  <2>1. indices[<<r, 1>>] # NoRow /\ s <= num_seqs[r]
    BY <1>3 DEF ForkInv
  <2>2. num_seqs[r] \in Int /\ num_seqs'[r] \in Int /\ s \in Int
    BY DEF TypeOK, Seqs
  <2>3. QED
    BY <2>1, <2>2
<1>4. ASSUME NEW r \in Request, indices[<<r, 1>>] = NoRow
      PROVE  unfinished'[r] \subseteq {1} /\ \A s \in Seqs : fed[<<r, s>>] = <<>>
  <2>1. unfinished[r] \subseteq {1} /\ \A s \in Seqs : fed[<<r, s>>] = <<>>
    BY <1>4 DEF ForkInv
  <2>2. QED
    BY <2>1
<1>5. ASSUME NEW r \in Request, NEW s \in Seqs, s \in unfinished'[r], indices[<<r, s>>] = NoRow
      PROVE  fed[<<r, s>>] = fed[<<r, 1>>]
  <2>1. s \in unfinished[r] => fed[<<r, s>>] = fed[<<r, 1>>]
    BY <1>5 DEF ForkInv
  <2>2. s \in unfinished[r] \/ s = 1
    BY <1>5
  <2>3. QED
    BY <2>1, <2>2
<1>6. indices' = indices /\ fed' = fed
  OBVIOUS
<1>7. ForkInv'
  BY <1>3, <1>4, <1>5, <1>6 DEF ForkInv
<1>8. QED
  BY <1>1, <1>2, <1>7

\* Requests stay, or go where MappedIsLive allows it.
LEMMA LiveFrame ==
    ASSUME LiveInv, phase # "release",
           indices' = indices,
           NEW gone, Members(held) \subseteq Members(held') \cup gone,
           gone \cup finished_ids \cup lost \subseteq
               finished_ids' \cup lost' \cup (IF phase' = "release" THEN delivered' ELSE {})
    PROVE  LiveInv'
<1> SUFFICES ASSUME NEW p \in Pair, indices[p] # NoRow
             PROVE  p[1] \in Members(held') \cup finished_ids' \cup lost'
                               \cup (IF phase' = "release" THEN delivered' ELSE {})
  BY DEF LiveInv
<1>1. p[1] \in Members(held) \cup finished_ids \cup lost
  BY DEF LiveInv
<1>2. QED
  BY <1>1

\* The members of the places are what MappedIsLive names.
LEMMA MembersAreNamed ==
    ASSUME NEW g \in Lists, NEW w \in Seq(Request), NEW r \in Seq(Request), NEW s \in Seq(Request)
    PROVE  Members(InPlaces(g, w, r, s)) \subseteq
               ToSet(w \o r \o s) \cup (UNION {ToSet(RequestsOf(g, k)) : k \in Kind})
<1> DEFINE h == InPlaces(g, w, r, s)
<1>1. /\ h["waiting"] = w /\ h["running"] = r /\ h["swapped"] = s
      /\ \A k \in Kind : h[k] = RequestsOf(g, k)
  BY PlacesLaw
<1> HIDE DEF h
<1>2. ToSet(w \o r \o s) = ToSet(w) \cup ToSet(r) \cup ToSet(s)
  <2>1. w \o r \in Seq(Request) /\ ToSet(w \o r) = ToSet(w) \cup ToSet(r)
    BY ConcatLaw
  <2> DEFINE u == w \o r
  <2> HIDE DEF u
  <2>2. u \in Seq(Request) /\ ToSet(u) = ToSet(w) \cup ToSet(r)
    BY <2>1 DEF u
  <2>3. ToSet(u \o s) = ToSet(u) \cup ToSet(s)
    BY <2>2, ConcatLaw
  <2>4. QED
    BY <2>2, <2>3 DEF u
<1>3. ToSet(<<>>) = {}
  BY DEF ToSet
<1>4. ASSUME NEW x \in Members(h)
      PROVE  x \in ToSet(w \o r \o s) \cup (UNION {ToSet(RequestsOf(g, k)) : k \in Kind})
  <2>1. PICK q \in Place : x \in ToSet(h[q])
    BY <1>4 DEF Members
  <2>2. CASE q \in Kind
    <3>1. x \in ToSet(RequestsOf(g, q))
      BY <1>1, <1>3, <2>1, <2>2
    <3>2. QED
      BY <2>2, <3>1
  <2>3. CASE q \in {"waiting", "running", "swapped"}
    BY <1>1, <1>2, <2>1, <2>3
  <2>4. QED
    BY <2>2, <2>3 DEF Place
<1>5. QED
  BY <1>4 DEF h

LEMMA PartsTyped ==
    ASSUME TypeOK
    PROVE  /\ groups \in Lists
           /\ waiting \in Seq(Request) /\ running \in Seq(Request) /\ swapped \in Seq(Request)
           /\ collected \in Lists
<1>1. groups \in Lists
  BY DEF TypeOK, Lists, Group
<1>2. {waiting, running, swapped} \subseteq Seq(Request)
  BY DEF TypeOK
<1>3. collected \in Lists
  BY <1>1, NoGroupsLaw DEF collected
<1>4. QED
  BY <1>1, <1>2, <1>3

LEMMA LiveIsLive ==
    ASSUME TypeOK, phase # "stopped", EngineInv
    PROVE  MappedIsLive
<1> SUFFICES ASSUME NEW p \in Pair, indices[p] # NoRow
             PROVE  p[1] \in ToSet(waiting \o running \o swapped)
                               \cup (UNION {ToSet(Requests(k)) : k \in Kind})
                               \cup finished_ids \cup lost
                               \cup (IF phase = "release" THEN delivered ELSE {})
  BY DEF MappedIsLive
<1>1. p[1] \in Members(held) \cup finished_ids \cup lost
                 \cup (IF phase = "release" THEN delivered ELSE {})
  BY DEF EngineInv, LiveInv
<1>2. Members(held) \subseteq ToSet(waiting \o running \o swapped)
                                \cup (UNION {ToSet(RequestsOf(collected, k)) : k \in Kind})
  BY PartsTyped, HeldParts, MembersAreNamed
<1>3. \A k \in Kind : Requests(k) = RequestsOf(groups, k)
  BY HeldParts
<1>4. \A k \in Kind : ToSet(RequestsOf(collected, k)) \subseteq ToSet(Requests(k))
  <2>1. ToSet(<<>>) = {}
    BY DEF ToSet
  <2>2. QED
    BY <1>3, <2>1, NoGroupsLaw DEF collected
<1>5. QED
  BY <1>1, <1>2, <1>4

\* Request x leaves the queue a, where t stays.
Leaves(a, x, t) ==
    /\ a \in {"waiting", "running", "swapped"}
    /\ x \in Request /\ t \in Seq(Request)
    /\ ToSet(held[a]) = ToSet(t) \cup {x} /\ x \notin ToSet(t) /\ IsInjective(t)
    /\ waiting' = IF a = "waiting" THEN t ELSE waiting
    /\ running' = IF a = "running" THEN t ELSE running
    /\ swapped' = IF a = "swapped" THEN t ELSE swapped

\* held, as long as the step is scheduled.
gathered == InPlaces(groups, waiting, running, swapped)

\* A request goes from a queue to the end of a list.
LEMMA CollectLaw ==
    ASSUME TypeOK, Scheduling, AllOnce(held),
           NEW a, NEW x, NEW t, Leaves(a, x, t),
           NEW kind \in Kind, NEW tokens \in Nat,
           Record(x, tokens, kind)
    PROVE  /\ groups' \in Lists
           /\ AllOnce(gathered') /\ Members(gathered') = Members(held)
           /\ ToSet(groups'[kind]) = ToSet(groups[kind]) \cup {[req |-> x, chunk |-> tokens]}
           /\ \A k \in Kind : k # kind => groups'[k] = groups[k]
<1> USE DEF Leaves
<1> DEFINE h == gathered'
<1>0. h = InPlaces(groups', waiting', running', swapped')
  BY DEF gathered, InPlaces, RequestsOf
<1> HIDE DEF h
<1>1. groups' = Recorded(groups, x, tokens, kind)
  BY DEF Record, Recorded
<1>2. /\ groups' \in Lists /\ RequestsOf(groups', kind) = Append(RequestsOf(groups, kind), x)
      /\ \A k \in Kind : k # kind => RequestsOf(groups', k) = RequestsOf(groups, k)
      /\ ToSet(groups'[kind]) = ToSet(groups[kind]) \cup {[req |-> x, chunk |-> tokens]}
      /\ \A k \in Kind : k # kind => groups'[k] = groups[k]
  <2>1. groups \in Lists /\ kind \in Kind /\ x \in Request /\ tokens \in Nat
    BY PartsTyped
  <2> DEFINE g == groups
             e == Recorded(g, x, tokens, kind)
  <2> HIDE DEF g
  <2>2. g \in Lists /\ x \in Request /\ tokens \in Nat /\ kind \in Kind
    BY <2>1 DEF g
  <2>3. /\ e \in Lists /\ RequestsOf(e, kind) = Append(RequestsOf(g, kind), x)
        /\ \A k \in Kind : k # kind => RequestsOf(e, k) = RequestsOf(g, k)
        /\ ToSet(e[kind]) = ToSet(g[kind]) \cup {[req |-> x, chunk |-> tokens]}
        /\ \A k \in Kind : k # kind => e[k] = g[k]
    BY ONLY <2>2, RecordLaw, SMTT(30)
  <2>4. groups' = e
    BY <1>1 DEF g
  <2> HIDE DEF e
  <2>5. QED
    BY ONLY <2>3, <2>4 DEF g
<1>3. waiting' \in Seq(Request) /\ running' \in Seq(Request) /\ swapped' \in Seq(Request)
  BY PartsTyped
<1>4. held = InPlaces(groups, waiting, running, swapped)
  BY DEF held, collected
<1>5. /\ held["waiting"] = waiting /\ held["running"] = running /\ held["swapped"] = swapped
      /\ \A k \in Kind : held[k] = RequestsOf(groups, k)
  BY ONLY <1>4, PartsTyped, PlacesLaw, TypeOK
<1>6. /\ h \in [Place -> Seq(Request)]
      /\ h["waiting"] = waiting' /\ h["running"] = running' /\ h["swapped"] = swapped'
      /\ \A k \in Kind : h[k] = RequestsOf(groups', k)
  <2>1. groups' \in Lists /\ h = InPlaces(groups', waiting', running', swapped')
    BY <1>0, <1>2
  <2> DEFINE g == groups'
             w == waiting'
             r == running'
             s == swapped'
             e == InPlaces(g, w, r, s)
  <2>2. h = e
    BY <2>1
  <2> HIDE DEF g, w, r, s
  <2>3. g \in Lists /\ w \in Seq(Request) /\ r \in Seq(Request) /\ s \in Seq(Request)
    BY <1>3, <2>1 DEF g, w, r, s
  <2>4. /\ e \in [Place -> Seq(Request)]
        /\ e["waiting"] = w /\ e["running"] = r /\ e["swapped"] = s
        /\ \A k \in Kind : e[k] = RequestsOf(g, k)
    BY ONLY <2>3, PlacesLaw
  <2> HIDE DEF e
  <2>5. QED
    BY ONLY <2>2, <2>4 DEF g, w, r, s
<1>7. a \in Place /\ kind \in Place /\ a # kind /\ a \notin Kind
  BY KindsAreNamed
<1>8. h[a] = t /\ h[kind] = Append(held[kind], x)
  BY <1>2, <1>5, <1>6
<1>9. ASSUME NEW q \in Place, q # a, q # kind PROVE h[q] = held[q]
  <2>1. CASE q \in Kind
    BY <1>2, <1>5, <1>6, <1>9, <2>1
  <2>2. CASE q \in {"waiting", "running", "swapped"}
    BY <1>5, <1>6, <1>9, <2>2
  <2>3. QED
    BY <2>1, <2>2 DEF Place
<1>10. Moves(held, h, a, kind, x, t)
  BY <1>6, <1>7, <1>8, <1>9 DEF Moves
<1>11. AllOnce(h) /\ Members(h) = Members(held)
  BY <1>10, MoveLaw
<1>12. QED
  BY <1>2, <1>11 DEF h


----------------------------------------------------------------------------
(* The budget *)

LEMMA CountLaw ==
    ASSUME TypeOK, NEW r \in Request
    PROVE  /\ IsFiniteSet(unfinished[r]) /\ Cardinality(unfinished[r]) \in Nat
           /\ get_max_num_running_seqs(r) \in Nat
           /\ Cardinality(unfinished[r]) <= get_max_num_running_seqs(r)
<1> DEFINE u == unfinished[r]
           c == num_seqs[r]
           m == n[r]
<1>1. c \in Nat /\ m \in Nat /\ u \subseteq 1 .. c
  BY SizesAssumption DEF TypeOK
<1>2. get_max_num_running_seqs(r) = IF m > c THEN m ELSE Cardinality(u)
  BY DEF get_max_num_running_seqs
<1> HIDE DEF u, c, m
<1>3. IsFiniteSet(1 .. c) /\ Cardinality(1 .. c) = IF 1 > c THEN 0 ELSE c - 1 + 1
  BY <1>1, FS_Interval
<1>4. IsFiniteSet(u) /\ Cardinality(u) <= Cardinality(1 .. c)
  BY <1>1, <1>3, FS_Subset
<1>5. Cardinality(u) \in Nat
  BY <1>4, FS_CardinalityType
<1>6. Cardinality(u) <= c
  BY <1>1, <1>3, <1>4, <1>5
<1>7. QED
  BY <1>1, <1>2, <1>4, <1>5, <1>6 DEF u

LEMMA WholeBlocks ==
    ASSUME NEW a \in Nat, NEW b \in Nat \ {0}
    PROVE  (a \div b) * b \in Nat /\ (a \div b) * b <= a
<1>1. a \div b \in Nat /\ a % b \in 0 .. b - 1 /\ a = b * (a \div b) + (a % b)
  OBVIOUS
<1> DEFINE q == a \div b
<1> HIDE DEF q
<1>2. q * b = b * q /\ q * b \in Nat
  BY <1>1 DEF q
<1>3. QED
  BY <1>1, <1>2 DEF q

LEMMA TokensLaw ==
    ASSUME TypeOK, num_batched_tokens <= TokenBudget, NEW r \in Request
    PROVE  /\ num_uncomputed(r) \in Nat /\ get_num_new_tokens(r) \in Nat
           /\ need[r] > 0 => num_uncomputed(r) = need[r] /\ get_num_new_tokens(r) <= need[r]
<1>1. num_uncomputed(r) \in Nat /\ (need[r] > 0 => num_uncomputed(r) = need[r])
  <2>1. need[r] \in Nat
    BY SizesAssumption DEF TypeOK
  <2>2. QED
    BY <2>1, CountLaw DEF num_uncomputed, IsPrefill
<1>2. remaining_token_budget \in Nat
  BY SizesAssumption DEF TypeOK, remaining_token_budget
<1> DEFINE rem == remaining_token_budget
           w == (rem \div BlockSize) * BlockSize
           u == num_uncomputed(r)
<1>3. w \in Nat /\ w <= rem
  BY <1>2, SizesAssumption, WholeBlocks
<1>4. get_num_new_tokens(r) = IF Cardinality(unfinished[r]) = 1 /\ rem < u THEN w ELSE u
  BY DEF get_num_new_tokens
<1> HIDE DEF w, u, rem
<1>5. get_num_new_tokens(r) \in Nat /\ get_num_new_tokens(r) <= u
  BY <1>1, <1>2, <1>3, <1>4 DEF u, rem
<1>6. QED
  BY <1>1, <1>5 DEF u

\* The requests of the lists after one more is recorded.
LEMMA TakenLaw ==
    ASSUME TypeOK, NEW x \in Request, NEW tokens \in Nat, NEW kind \in Kind,
           Record(x, tokens, kind)
    PROVE  /\ Scheduled \in Seq(Request) /\ Scheduled' \in Seq(Request)
           /\ kind \in RunKind => ToSet(Scheduled') = ToSet(Scheduled) \cup {x}
           /\ kind \notin RunKind => Scheduled' = Scheduled
<1> DEFINE g == groups
           h == Recorded(g, x, tokens, kind)
<1>1. g \in Lists
  BY PartsTyped
<1>2. groups' = h
  BY DEF Record, Recorded
<1> HIDE DEF g
<1>3. /\ h \in Lists /\ RequestsOf(h, kind) = Append(RequestsOf(g, kind), x)
      /\ \A k \in Kind : k # kind => RequestsOf(h, k) = RequestsOf(g, k)
  BY <1>1, RecordLaw
<1> HIDE DEF h
<1>4. /\ Joined(g) \in Seq(Request) /\ ToSet(Joined(g)) = Taken(g)
      /\ Joined(h) \in Seq(Request) /\ ToSet(Joined(h)) = Taken(h)
  BY <1>1, <1>3, JoinedLaw
<1>5. Scheduled = Joined(g) /\ Scheduled' = Joined(h)
  BY <1>2, HeldParts DEF g
<1>6. ASSUME kind \in RunKind PROVE Taken(h) = Taken(g) \cup {x}
  <2> DEFINE s == RequestsOf(g, kind)
  <2>1. s \in Seq(Request)
    BY <1>1, RequestsLaw
  <2> HIDE DEF s
  <2>2. ToSet(Append(s, x)) = ToSet(s) \cup {x}
    BY <2>1, AppendLaw
  <2>3. ToSet(RequestsOf(h, kind)) = ToSet(RequestsOf(g, kind)) \cup {x}
    BY <1>3, <2>2 DEF s
  <2>4. RunKind \subseteq Kind
    BY KindsAreNamed
  <2>5. ASSUME NEW y \in Taken(h) PROVE y \in Taken(g) \cup {x}
    <3>1. PICK k \in RunKind : y \in ToSet(RequestsOf(h, k))
      BY <2>5 DEF Taken
    <3>2. y \in ToSet(RequestsOf(g, k)) \cup {x}
      BY <1>3, <2>3, <2>4, <3>1
    <3>3. QED
      BY <3>2 DEF Taken
  <2>6. ASSUME NEW y \in Taken(g) PROVE y \in Taken(h)
    <3>1. PICK k \in RunKind : y \in ToSet(RequestsOf(g, k))
      BY <2>6 DEF Taken
    <3>2. y \in ToSet(RequestsOf(h, k))
      BY <1>3, <2>3, <2>4, <3>1
    <3>3. QED
      BY <3>2 DEF Taken
  <2>7. x \in Taken(h)
    BY <1>6, <2>3 DEF Taken
  <2>8. QED
    BY <2>5, <2>6, <2>7
<1>7. ASSUME kind \notin RunKind PROVE Joined(h) = Joined(g)
  BY <1>3, <1>7, KindsAreNamed DEF Joined
<1>8. QED
  BY <1>4, <1>5, <1>6, <1>7

\* The sequences of one request.
LEMMA SharesLaw ==
    ASSUME NEW x, NEW u, IsFiniteSet(u), NEW B, \A p \in B : p = <<x, p[2]>> /\ p[2] \in u
    PROVE  IsFiniteSet(B) /\ Cardinality(B) <= Cardinality(u)
<1> DEFINE f == [p \in B |-> p[2]]
<1>1. f \in Injection(B, u)
  <2>1. f \in [B -> u]
    OBVIOUS
  <2>2. \A p, q \in B : f[p] = f[q] => p = q
    OBVIOUS
  <2>3. QED
    BY <2>1, <2>2 DEF Injection, IsInjective
<1>2. QED
  BY <1>1, FS_Injection

\* One more request takes its seats.
LEMMA DemandLaw ==
    ASSUME TypeOK, IsFiniteSet(demand), NEW x \in Request, NEW tokens \in Nat, NEW kind \in RunKind,
           Record(x, tokens, kind), unfinished' = unfinished
    PROVE  IsFiniteSet(demand') /\ Cardinality(demand') <= Cardinality(demand) + get_max_num_running_seqs(x)
<1> DEFINE B == {p \in Pair : p[1] = x /\ p[2] \in unfinished[x]}
           u == unfinished[x]
<1>1. kind \in Kind
  BY KindsAreNamed
<1>2. ToSet(Scheduled') = ToSet(Scheduled) \cup {x}
  BY <1>1, TakenLaw
<1>3. demand' = demand \cup B
  <2>1. demand' = {p \in Pair : p[1] \in ToSet(Scheduled') /\ p[2] \in unfinished[p[1]]}
    BY DEF demand
  <2>2. QED
    BY <1>2, <2>1 DEF demand
<1>4. IsFiniteSet(u) /\ Cardinality(u) \in Nat /\ get_max_num_running_seqs(x) \in Nat
      /\ Cardinality(u) <= get_max_num_running_seqs(x)
  BY CountLaw
<1>5. \A p \in B : p = <<x, p[2]>> /\ p[2] \in u
  BY DEF Pair
<1> HIDE DEF B, u
<1>6. IsFiniteSet(B) /\ Cardinality(B) <= Cardinality(u)
  BY <1>4, <1>5, SharesLaw
<1>7. IsFiniteSet(demand \cup B)
      /\ Cardinality(demand \cup B) = Cardinality(demand) + Cardinality(B) - Cardinality(demand \cap B)
  BY <1>6, FS_Union
<1>8. Cardinality(demand) \in Nat /\ Cardinality(B) \in Nat /\ Cardinality(demand \cap B) \in Nat
  BY <1>6, FS_CardinalityType, FS_Intersection
<1>9. QED
  BY <1>3, <1>4, <1>6, <1>7, <1>8


----------------------------------------------------------------------------
(* The scheduler *)

LEMMA TypeFrame ==
    ASSUME TypeOK, UNCHANGED <<n, num_seqs, workerVars>>,
           need' \in [Request -> 0 .. MaxPrompt],
           unfinished' \in [Request -> SUBSET Seqs],
           \A r \in Request : unfinished'[r] \subseteq unfinished[r],
           waiting' \in Seq(Request), running' \in Seq(Request), swapped' \in Seq(Request),
           finished_ids' \subseteq Request, lost' \subseteq Request,
           groups' \in Lists, num_batched_tokens' \in Nat, num_curr_seqs' \in Nat,
           phase' \in Phase, steps' \in 0 .. MaxSteps,
           raised' \in {"no", "over_budget", "over_seats", "index_error", "out_of_rows", "swap_indices"}
    PROVE  TypeOK'
<1>1. \A r \in Request : unfinished'[r] \subseteq 1 .. num_seqs'[r]
  <2>1. \A r \in Request : unfinished[r] \subseteq 1 .. num_seqs[r] /\ num_seqs' = num_seqs
    BY DEF TypeOK
  <2>2. QED
    BY <2>1
<1>2. groups' \in [Kind -> Seq([req : Request, chunk : Nat])]
  BY DEF Lists, Group
<1>3. n' = n /\ num_seqs' = num_seqs /\ delivered' = delivered /\ batch' = batch /\ assigned' = assigned
      /\ indices' = indices /\ row' = row /\ fed' = fed
  BY DEF workerVars
<1>4. QED
  BY <1>1, <1>2, <1>3 DEF TypeOK

LEMMA RequestFrame ==
    ASSUME RequestInv, UNCHANGED <<n, num_seqs, unfinished, finished_ids, delivered>>,
           Members(held') \subseteq Members(held),
           \A r \in Request : need'[r] > 0 /\ n[r] > 1 => num_seqs[r] = 1
    PROVE  RequestInv'
<1>1. \A r \in Members(held') : unfinished[r] # {}
  BY DEF RequestInv
<1>2. n' = n /\ num_seqs' = num_seqs /\ unfinished' = unfinished
      /\ finished_ids' = finished_ids /\ delivered' = delivered
  OBVIOUS
<1>3. QED
  BY <1>1, <1>2 DEF RequestInv

\* A step of the scheduler that touches no row.
LEMMA SchedulingFrame ==
    ASSUME MambaInv, phase \notin {"release", "stopped"}, Scheduling',
           UNCHANGED <<num_seqs, workerVars, finished_ids, raised>>,
           \A r \in Request : unfinished'[r] \subseteq unfinished[r],
           lost \subseteq lost',
           Members(held) \subseteq Members(held') \cup lost',
           TypeOK', AllOnce(held'), RequestInv', BudgetInv', SeatsInv'
    PROVE  MambaInv'
<1>1. EngineInv /\ TypeOK /\ RowsApart /\ StateFollowsSequence
  BY DEF MambaInv
<1>2. indices' = indices /\ row' = row /\ fed' = fed
  BY DEF workerVars
<1>3. RowsApart' /\ StateFollowsSequence' /\ ForkInv'
  <2>1. \A r \in Request : num_seqs[r] <= num_seqs'[r] /\ num_seqs'[r] \in Nat
    BY <1>1 DEF TypeOK
  <2>2. \A r \in Request : unfinished'[r] \subseteq unfinished[r] \cup {1}
    OBVIOUS
  <2>3. ForkInv
    BY <1>1 DEF EngineInv
  <2>4. QED
    BY <1>1, <1>2, <2>1, <2>2, <2>3, RowsFrame
<1>4. LiveInv'
  <2>1. LiveInv
    BY <1>1 DEF EngineInv
  <2>2. lost' \cup finished_ids \cup lost \subseteq
               finished_ids' \cup lost' \cup (IF phase' = "release" THEN delivered' ELSE {})
    OBVIOUS
  <2>3. QED
    BY <1>2, <2>1, <2>2, LiveFrame
<1>5. BatchInv'
  BY DEF BatchInv, Scheduling, Working
<1>6. raised' = "no"
  BY <1>1 DEF EngineInv
<1>7. EngineInv'
  BY <1>3, <1>4, <1>5, <1>6 DEF EngineInv
<1>8. phase' # "stopped"
  BY DEF Scheduling
<1>9. QED
  BY <1>3, <1>7, <1>8 DEF MambaInv

LEMMA HeldQueues ==
    ASSUME TypeOK
    PROVE  /\ held \in [Place -> Seq(Request)]
           /\ held["waiting"] = waiting /\ held["running"] = running /\ held["swapped"] = swapped
           /\ \A k \in Kind : held[k] = RequestsOf(collected, k)
  BY HeldParts, PartsTyped, PlacesLaw

\* A group joins the lists of the step within the budget.
LEMMA ScheduleLaw ==
    ASSUME MambaInv, Scheduling, NEW a \in {"waiting", "running", "swapped"}, held[a] # <<>>,
           NEW tokens \in Nat, NEW kind \in RunKind,
           Schedule(Head(held[a]), tokens, kind),
           can_schedule(Head(held[a]), tokens),
           need[Head(held[a])] > 0 => tokens <= need[Head(held[a])],
           waiting' = IF a = "waiting" THEN Tail(held[a]) ELSE waiting,
           running' = IF a = "running" THEN Tail(held[a]) ELSE running,
           swapped' = IF a = "swapped" THEN Tail(held[a]) ELSE swapped,
           UNCHANGED <<requestVars, finished_ids, phase, steps, workerVars, lost, raised>>
    PROVE  MambaInv'
<1> DEFINE q == held[a]
           x == Head(q)
           t == Tail(q)
<1>1. TypeOK /\ EngineInv /\ AllOnce(held) /\ kind \in Kind
  BY KindsAreNamed DEF MambaInv, EngineInv, Scheduling
<1>2. q \in Seq(Request) /\ q # <<>> /\ IsInjective(q)
  BY <1>1, KindsAreNamed DEF AllOnce
<1> HIDE DEF q
<1>3. x \in Request /\ t \in Seq(Request) /\ ToSet(q) = ToSet(t) \cup {x} /\ x \notin ToSet(t) /\ IsInjective(t)
  BY <1>2, HeadLaw
<1>4. /\ Schedule(x, tokens, kind) /\ can_schedule(x, tokens) /\ (need[x] > 0 => tokens <= need[x])
      /\ waiting' = IF a = "waiting" THEN t ELSE waiting
      /\ running' = IF a = "running" THEN t ELSE running
      /\ swapped' = IF a = "swapped" THEN t ELSE swapped
      /\ ToSet(held[a]) = ToSet(t) \cup {x}
  BY <1>3 DEF q
<1>5. Record(x, tokens, kind) /\ num_batched_tokens' = num_batched_tokens + tokens
      /\ num_curr_seqs' = num_curr_seqs + get_max_num_running_seqs(x)
  BY <1>4 DEF Schedule
<1> HIDE DEF x, t
<1>6. Scheduling' /\ phase' = phase
  BY DEF Scheduling
<1>7. held' = gathered'
  <2>1. collected' = groups'
    BY <1>6 DEF collected
  <2>2. held' = InPlaces(groups', waiting', running', swapped')
    BY <2>1, HeldParts
  <2>3. gathered' = InPlaces(groups', waiting', running', swapped')
    BY DEF gathered, InPlaces, RequestsOf
  <2>4. QED
    BY <2>2, <2>3
<1>8. /\ groups' \in Lists
      /\ AllOnce(held') /\ Members(held') = Members(held)
      /\ ToSet(groups'[kind]) = ToSet(groups[kind]) \cup {[req |-> x, chunk |-> tokens]}
      /\ \A k \in Kind : k # kind => groups'[k] = groups[k]
  <2>1. Leaves(a, x, t)
    BY <1>3, <1>4 DEF Leaves
  <2>2. QED
    BY <1>1, <1>5, <1>7, <2>1, CollectLaw
<1>9. n' = n /\ need' = need /\ num_seqs' = num_seqs /\ unfinished' = unfinished
      /\ finished_ids' = finished_ids /\ delivered' = delivered /\ lost' = lost /\ steps' = steps
      /\ raised' = raised
  BY DEF requestVars, workerVars
<1>10. num_batched_tokens' \in Nat /\ num_curr_seqs' \in Nat /\ get_max_num_running_seqs(x) \in Nat
  <2>1. num_batched_tokens \in Nat /\ num_curr_seqs \in Nat
    BY <1>1 DEF TypeOK
  <2>2. get_max_num_running_seqs(x) \in Nat
    BY <1>1, <1>3, CountLaw
  <2>3. QED
    BY <1>5, <2>1, <2>2
<1>11. waiting' \in Seq(Request) /\ running' \in Seq(Request) /\ swapped' \in Seq(Request)
  BY <1>1, <1>3, <1>4, PartsTyped
<1>12. TypeOK'
  <2>1. /\ need' \in [Request -> 0 .. MaxPrompt] /\ finished_ids' \subseteq Request /\ lost' \subseteq Request
        /\ phase' \in Phase /\ steps' \in 0 .. MaxSteps
        /\ raised' \in {"no", "over_budget", "over_seats", "index_error", "out_of_rows", "swap_indices"}
    BY <1>1, <1>6, <1>9 DEF TypeOK
  <2>2. /\ unfinished' \in [Request -> SUBSET Seqs]
        /\ \A r \in Request : unfinished'[r] \subseteq unfinished[r]
    BY <1>1, <1>9 DEF TypeOK
  <2>3. QED
    BY <1>1, <1>8, <1>9, <1>10, <1>11, <2>1, <2>2, TypeFrame
<1>13. RequestInv'
  <2>1. RequestInv
    BY <1>1 DEF EngineInv
  <2>2. \A r \in Request : need'[r] > 0 /\ n[r] > 1 => num_seqs[r] = 1
    BY <1>9, <2>1 DEF RequestInv
  <2>3. QED
    BY <1>8, <1>9, <2>1, <2>2, RequestFrame
<1>14. BudgetInv'
  <2>1. num_batched_tokens' <= TokenBudget
    BY <1>1, <1>4, <1>5, SizesAssumption DEF can_schedule, remaining_token_budget, TypeOK
  <2>2. ASSUME NEW k \in RunKind, NEW g \in ToSet(groups'[k]), need[g.req] > 0
        PROVE  g.chunk <= need[g.req]
    <3>1. k \in Kind
      BY KindsAreNamed
    <3>2. CASE g \in ToSet(groups[k])
      BY <1>1, <2>2, <3>2 DEF EngineInv, BudgetInv
    <3>3. CASE g \notin ToSet(groups[k])
      <4>1. g = [req |-> x, chunk |-> tokens]
        BY <1>8, <3>1, <3>3
      <4>2. QED
        BY <1>4, <2>2, <4>1
    <3>4. QED
      BY <3>2, <3>3
  <2>3. QED
    BY <1>9, <2>1, <2>2 DEF BudgetInv
<1>15. SeatsInv'
  <2>1. IsFiniteSet(demand) /\ Cardinality(demand) <= num_curr_seqs
    BY <1>1 DEF EngineInv, SeatsInv
  <2>2. IsFiniteSet(demand') /\ Cardinality(demand') <= Cardinality(demand) + get_max_num_running_seqs(x)
    BY <1>1, <1>3, <1>5, <1>9, <2>1, DemandLaw
  <2>3. Cardinality(demand) \in Nat /\ Cardinality(demand') \in Nat /\ num_curr_seqs \in Nat
    BY <1>1, <2>1, <2>2, FS_CardinalityType DEF TypeOK
  <2>4. Cardinality(demand') <= num_curr_seqs'
    BY <1>5, <1>10, <2>1, <2>2, <2>3
  <2>5. num_curr_seqs' <= MaxNumSeqs
    BY <1>4, <1>5 DEF can_schedule
  <2>6. ~ Working'
    BY <1>6 DEF Scheduling, Working
  <2>7. QED
    BY <2>2, <2>4, <2>5, <2>6 DEF SeatsInv
<1>16. /\ Members(held) \subseteq Members(held') \cup lost' /\ lost \subseteq lost'
       /\ \A r \in Request : unfinished'[r] \subseteq unfinished[r]
       /\ phase \notin {"release", "stopped"}
  BY <1>8, <1>9 DEF Scheduling
<1>17. UNCHANGED <<num_seqs, workerVars, finished_ids, raised>>
  BY <1>9
<1>18. QED
  BY <1>6, <1>8, <1>12, <1>13, <1>14, <1>15, <1>16, <1>17, SchedulingFrame


LEMMA ScheduleRunningStops ==
    ASSUME MambaInv, ScheduleRunning, phase' = "stopped"
    PROVE  MambaInv'
<1> DEFINE x == Head(running)
           t == Tail(running)
           tokens == get_num_new_tokens(x)
           kind == IF IsPrefill(x) THEN "prefill" ELSE "decode"
<1>1. /\ Schedule(x, tokens, kind) /\ phase = "running" /\ running # <<>>
      /\ running' = t
      /\ UNCHANGED <<requestVars, waiting, swapped, finished_ids, steps, workerVars, lost>>
      /\ raised' \in {"over_seats", "over_budget"} \/ phase' = phase
  BY DEF ScheduleRunning
<1>2. TypeOK /\ EngineInv /\ RowsApart /\ StateFollowsSequence /\ Scheduling
  BY <1>1 DEF MambaInv, Scheduling
<1>3. held["running"] = running /\ AllOnce(held)
  BY <1>2, HeldQueues DEF EngineInv
<1>4. running \in Seq(Request) /\ IsInjective(running)
  BY <1>2, <1>3, KindsAreNamed, PartsTyped DEF AllOnce
<1>5. x \in Request /\ t \in Seq(Request) /\ ToSet(running) = ToSet(t) \cup {x}
      /\ x \notin ToSet(t) /\ IsInjective(t)
  BY <1>1, <1>4, HeadLaw
<1>6. tokens \in Nat
  BY <1>2, <1>5, TokensLaw DEF EngineInv, BudgetInv
<1>7. kind \in Kind
  BY DEF Kind, RunKind
<1> HIDE DEF x, t, tokens, kind
<1>8. Record(x, tokens, kind) /\ num_batched_tokens' = num_batched_tokens + tokens
      /\ num_curr_seqs' = num_curr_seqs + get_max_num_running_seqs(x)
  BY <1>1 DEF Schedule
<1>9. groups' \in Lists /\ Members(gathered') = Members(held)
  <2>1. Leaves("running", x, t)
    BY <1>1, <1>3, <1>5 DEF Leaves
  <2>2. QED
    BY <1>2, <1>3, <1>6, <1>7, <1>8, <2>1, CollectLaw
<1>10. n' = n /\ need' = need /\ num_seqs' = num_seqs /\ unfinished' = unfinished /\ lost' = lost
       /\ finished_ids' = finished_ids /\ steps' = steps /\ waiting' = waiting /\ swapped' = swapped
       /\ indices' = indices /\ row' = row /\ fed' = fed /\ UNCHANGED workerVars
  BY <1>1 DEF requestVars, workerVars
<1>11. raised' \in {"over_seats", "over_budget"}
  BY <1>1
<1>12. waiting' \in Seq(Request) /\ running' \in Seq(Request) /\ swapped' \in Seq(Request)
  BY <1>1, <1>2, <1>5, <1>10, PartsTyped
<1>13. TypeOK'
  <2>1. num_batched_tokens' \in Nat /\ num_curr_seqs' \in Nat
    <3>1. num_batched_tokens \in Nat /\ num_curr_seqs \in Nat
      BY <1>2 DEF TypeOK
    <3>2. get_max_num_running_seqs(x) \in Nat
      BY <1>2, <1>5, CountLaw
    <3>3. QED
      BY <1>6, <1>8, <3>1, <3>2
  <2>2. /\ need' \in [Request -> 0 .. MaxPrompt] /\ finished_ids' \subseteq Request /\ lost' \subseteq Request
        /\ steps' \in 0 .. MaxSteps
    BY <1>2, <1>10 DEF TypeOK
  <2>3. /\ unfinished' \in [Request -> SUBSET Seqs] /\ \A r \in Request : unfinished'[r] \subseteq unfinished[r]
        /\ phase' \in Phase
        /\ raised' \in {"no", "over_budget", "over_seats", "index_error", "out_of_rows", "swap_indices"}
    BY <1>2, <1>10, <1>11 DEF Phase, TypeOK
  <2>4. QED
    BY <1>2, <1>9, <1>10, <1>12, <2>1, <2>2, <2>3, TypeFrame
<1>14. RowsApart' /\ StateFollowsSequence'
  BY <1>2, <1>10 DEF RowsApart, StateFollowsSequence
<1>15. MappedIsLive'
  <2>1. Members(gathered') \subseteq ToSet(waiting' \o running' \o swapped')
                                \cup (UNION {ToSet(RequestsOf(groups', k)) : k \in Kind})
    <3> DEFINE g == groups'
               w == waiting'
               r == running'
               s == swapped'
    <3>1. gathered' = InPlaces(g, w, r, s)
      BY DEF gathered, InPlaces, RequestsOf
    <3> HIDE DEF g, w, r, s
    <3>2. g \in Lists /\ w \in Seq(Request) /\ r \in Seq(Request) /\ s \in Seq(Request)
      BY <1>9, <1>12 DEF g, w, r, s
    <3>3. Members(InPlaces(g, w, r, s)) \subseteq ToSet(w \o r \o s)
                                \cup (UNION {ToSet(RequestsOf(g, k)) : k \in Kind})
      BY ONLY <3>2, MembersAreNamed
    <3>4. QED
      BY <3>1, <3>3 DEF g, w, r, s
  <2>2. ASSUME NEW p \in Pair, indices[p] # NoRow
        PROVE  p[1] \in Members(held) \cup finished_ids \cup lost
    BY <1>1, <1>2, <2>2 DEF EngineInv, LiveInv
  <2>3. \A k \in Kind : Requests(k)' = RequestsOf(groups', k)
    BY HeldParts
  <2>4. ASSUME NEW p \in Pair, indices'[p] # NoRow
        PROVE  p[1] \in ToSet(waiting' \o running' \o swapped')
                          \cup (UNION {ToSet(Requests(k)') : k \in Kind})
                          \cup finished_ids' \cup lost'
    BY <1>9, <1>10, <2>1, <2>2, <2>3, <2>4
  <2>5. QED
    BY <2>4 DEF MappedIsLive
<1>16. RowsSufficeForBatch'
  BY <1>11 DEF RowsSufficeForBatch
<1>17. QED
  BY <1>13, <1>14, <1>15, <1>16 DEF MambaInv

LEMMA ScheduleRunningGoesOn ==
    ASSUME MambaInv, ScheduleRunning, phase' # "stopped"
    PROVE  MambaInv'
<1> DEFINE x == Head(running)
           tokens == get_num_new_tokens(x)
           kind == IF IsPrefill(x) THEN "prefill" ELSE "decode"
<1>1. /\ Schedule(x, tokens, kind) /\ phase = "running" /\ running # <<>>
      /\ running' = Tail(running)
      /\ UNCHANGED <<requestVars, waiting, swapped, finished_ids, steps, workerVars, lost>>
      /\ can_schedule(x, tokens) /\ UNCHANGED <<phase, raised>>
  BY DEF ScheduleRunning
<1>2. TypeOK /\ EngineInv /\ Scheduling
  BY <1>1 DEF MambaInv, Scheduling
<1>3. held["running"] = running /\ AllOnce(held)
  BY <1>2, HeldQueues DEF EngineInv
<1>4. x \in Request
  BY <1>1, <1>2, PartsTyped, HeadLaw
<1>5. tokens \in Nat /\ (need[x] > 0 => tokens <= need[x])
  BY <1>2, <1>4, TokensLaw DEF EngineInv, BudgetInv
<1>6. kind \in RunKind
  BY DEF RunKind
<1> HIDE DEF tokens, kind
<1> DEFINE a == "running"
<1>7. /\ held[a] # <<>> /\ Schedule(Head(held[a]), tokens, kind) /\ can_schedule(Head(held[a]), tokens)
      /\ need[Head(held[a])] > 0 => tokens <= need[Head(held[a])]
      /\ waiting' = IF a = "waiting" THEN Tail(held[a]) ELSE waiting
      /\ running' = IF a = "running" THEN Tail(held[a]) ELSE running
      /\ swapped' = IF a = "swapped" THEN Tail(held[a]) ELSE swapped
      /\ a \in {"waiting", "running", "swapped"}
  BY <1>1, <1>3, <1>5
<1>8. UNCHANGED <<requestVars, finished_ids, phase, steps, workerVars, lost, raised>>
  BY <1>1
<1> HIDE DEF a, x
<1>9. QED
  BY <1>2, <1>5, <1>6, <1>7, <1>8, ScheduleLaw

LEMMA SwapInKeeps ==
    ASSUME MambaInv, SwapIn
    PROVE  MambaInv'
<1> DEFINE x == Head(swapped)
           tokens == num_uncomputed(x)
           kind == IF IsPrefill(x) THEN "in_prefill" ELSE "in_decode"
<1>1. /\ Schedule(x, tokens, kind) /\ phase = "swapped" /\ swapped # <<>>
      /\ swapped' = Tail(swapped) /\ can_schedule(x, tokens)
      /\ UNCHANGED <<requestVars, waiting, running, finished_ids, phase, steps, workerVars, lost, raised>>
  BY DEF SwapIn
<1>2. TypeOK /\ EngineInv /\ Scheduling
  BY <1>1 DEF MambaInv, Scheduling
<1>3. held["swapped"] = swapped /\ AllOnce(held)
  BY <1>2, HeldQueues DEF EngineInv
<1>4. x \in Request
  BY <1>1, <1>2, PartsTyped, HeadLaw
<1>5. tokens \in Nat /\ (need[x] > 0 => tokens <= need[x])
  <2>1. tokens \in Nat /\ (need[x] > 0 => tokens = need[x])
    BY <1>2, <1>4, TokensLaw DEF EngineInv, BudgetInv
  <2>2. QED
    BY <2>1
<1>6. kind \in RunKind
  BY DEF RunKind
<1> HIDE DEF tokens, kind
<1> DEFINE a == "swapped"
<1>7. /\ held[a] # <<>> /\ Schedule(Head(held[a]), tokens, kind) /\ can_schedule(Head(held[a]), tokens)
      /\ need[Head(held[a])] > 0 => tokens <= need[Head(held[a])]
      /\ waiting' = IF a = "waiting" THEN Tail(held[a]) ELSE waiting
      /\ running' = IF a = "running" THEN Tail(held[a]) ELSE running
      /\ swapped' = IF a = "swapped" THEN Tail(held[a]) ELSE swapped
      /\ a \in {"waiting", "running", "swapped"}
  BY <1>1, <1>3, <1>5
<1>8. UNCHANGED <<requestVars, finished_ids, phase, steps, workerVars, lost, raised>>
  BY <1>1
<1> HIDE DEF a, x
<1>9. QED
  BY <1>2, <1>5, <1>6, <1>7, <1>8, ScheduleLaw

LEMMA SchedulePrefillKeeps ==
    ASSUME MambaInv, SchedulePrefill
    PROVE  MambaInv'
<1> DEFINE x == Head(waiting)
           tokens == get_num_new_tokens(x)
           kind == "new"
<1>1. /\ Schedule(x, tokens, kind) /\ phase = "waiting" /\ waiting # <<>>
      /\ waiting' = Tail(waiting) /\ can_schedule(x, tokens)
      /\ UNCHANGED <<requestVars, running, swapped, finished_ids, phase, steps, workerVars, lost, raised>>
  BY DEF SchedulePrefill
<1>2. TypeOK /\ EngineInv /\ Scheduling
  BY <1>1 DEF MambaInv, Scheduling
<1>3. held["waiting"] = waiting /\ AllOnce(held)
  BY <1>2, HeldQueues DEF EngineInv
<1>4. x \in Request
  BY <1>1, <1>2, PartsTyped, HeadLaw
<1>5. tokens \in Nat /\ (need[x] > 0 => tokens <= need[x])
  BY <1>2, <1>4, TokensLaw DEF EngineInv, BudgetInv
<1>6. kind \in RunKind
  BY DEF RunKind
<1> HIDE DEF tokens, kind
<1> DEFINE a == "waiting"
<1>7. /\ held[a] # <<>> /\ Schedule(Head(held[a]), tokens, kind) /\ can_schedule(Head(held[a]), tokens)
      /\ need[Head(held[a])] > 0 => tokens <= need[Head(held[a])]
      /\ waiting' = IF a = "waiting" THEN Tail(held[a]) ELSE waiting
      /\ running' = IF a = "running" THEN Tail(held[a]) ELSE running
      /\ swapped' = IF a = "swapped" THEN Tail(held[a]) ELSE swapped
      /\ a \in {"waiting", "running", "swapped"}
  BY <1>1, <1>3, <1>5
<1>8. UNCHANGED <<requestVars, finished_ids, phase, steps, workerVars, lost, raised>>
  BY <1>1
<1> HIDE DEF a, x
<1>9. QED
  BY <1>2, <1>5, <1>6, <1>7, <1>8, ScheduleLaw


\* The last group of the running queue gives way to the others.
LEMMA PreemptLaw ==
    ASSUME MambaInv, phase = "running", running # <<>>,
           NEW kind \in {"preempted", "swapped_out"},
           Record(Last(running), 0, kind), running' = Front(running),
           UNCHANGED <<n, num_seqs, unfinished, waiting, swapped, finished_ids, num_batched_tokens,
                       num_curr_seqs, phase, steps, workerVars, lost, raised>>,
           need' \in [Request -> 0 .. MaxPrompt],
           \A r \in Request : need'[r] # need[r] => r = Last(running) /\ num_seqs[r] = 1
    PROVE  MambaInv'
<1> DEFINE x == Last(running)
           t == Front(running)
<1>1. TypeOK /\ EngineInv /\ Scheduling /\ Scheduling'
  BY DEF MambaInv, Scheduling
<1>2. held["running"] = running /\ AllOnce(held)
  BY <1>1, HeldQueues DEF EngineInv
<1>3. running \in Seq(Request) /\ IsInjective(running)
  BY <1>1, <1>2, KindsAreNamed, PartsTyped DEF AllOnce
<1>4. x \in Request /\ t \in Seq(Request) /\ ToSet(running) = ToSet(t) \cup {x}
      /\ x \notin ToSet(t) /\ IsInjective(t)
  BY <1>3, LastLaw
<1>5. Record(x, 0, kind) /\ running' = t
  OBVIOUS
<1> HIDE DEF x, t
<1>6. kind \in Kind /\ kind \notin RunKind
  BY KindsAreNamed
<1>7. held' = gathered'
  BY <1>1, HeldParts DEF collected, gathered, InPlaces, RequestsOf
<1>8. /\ groups' \in Lists
      /\ AllOnce(held') /\ Members(held') = Members(held)
      /\ \A k \in Kind : k # kind => groups'[k] = groups[k]
  <2>1. Leaves("running", x, t)
    BY <1>2, <1>4, <1>5 DEF Leaves
  <2> DEFINE zero == 0
  <2>2. zero \in Nat /\ Record(x, zero, kind)
    BY <1>5
  <2> HIDE DEF zero
  <2>3. QED
    BY <1>1, <1>2, <1>6, <1>7, <2>1, <2>2, CollectLaw
<1>9. Scheduled' = Scheduled
  <2> DEFINE zero == 0
  <2>1. zero \in Nat /\ Record(x, zero, kind)
    BY <1>5
  <2> HIDE DEF zero
  <2>2. QED
    BY <1>1, <1>4, <1>6, <2>1, TakenLaw
<1>10. TypeOK'
  <2>1. waiting' \in Seq(Request) /\ running' \in Seq(Request) /\ swapped' \in Seq(Request)
    BY <1>1, <1>4, <1>5, PartsTyped
  <2>2. /\ finished_ids' \subseteq Request /\ lost' \subseteq Request
        /\ num_batched_tokens' \in Nat /\ num_curr_seqs' \in Nat
        /\ phase' \in Phase /\ steps' \in 0 .. MaxSteps
        /\ raised' \in {"no", "over_budget", "over_seats", "index_error", "out_of_rows", "swap_indices"}
        /\ unfinished' \in [Request -> SUBSET Seqs] /\ \A r \in Request : unfinished'[r] \subseteq unfinished[r]
    BY <1>1 DEF TypeOK
  <2>3. QED
    BY <1>1, <1>8, <2>1, <2>2, TypeFrame
<1>11. RequestInv'
  <2>1. RequestInv
    BY <1>1 DEF EngineInv
  <2>2. \A r \in Request : need'[r] > 0 /\ n[r] > 1 => num_seqs[r] = 1
    BY <2>1 DEF RequestInv
  <2>3. UNCHANGED <<n, num_seqs, unfinished, finished_ids, delivered>>
    BY DEF workerVars
  <2>4. QED
    BY <1>8, <2>1, <2>2, <2>3, RequestFrame
<1>12. BudgetInv'
  <2>1. num_batched_tokens' <= TokenBudget
    BY <1>1 DEF EngineInv, BudgetInv
  <2>2. ASSUME NEW k \in RunKind, NEW g \in ToSet(groups'[k]), need'[g.req] > 0
        PROVE  g.chunk <= need'[g.req]
    <3>1. k \in Kind /\ k \in Place /\ k # kind
      BY <1>6, KindsAreNamed
    <3>2. g \in ToSet(groups[k])
      BY <1>8, <3>1
    <3>3. held[k] = RequestsOf(groups, k) /\ groups \in Lists
      BY <1>1, <3>1, HeldQueues, PartsTyped DEF collected
    <3>4. g.req \in ToSet(held[k])
      <4>1. ToSet(RequestsOf(groups, k)) = {y.req : y \in ToSet(groups[k])}
        BY <3>1, <3>3, RequestsLaw
      <4>2. QED
        BY <3>2, <3>3, <4>1
    <3>5. g.req # x
      <4>1. x \in ToSet(held["running"]) /\ "running" \in Place /\ k # "running"
        BY <1>2, <1>4, <3>1, KindsAreNamed
      <4>2. ToSet(held[k]) \cap ToSet(held["running"]) = {}
        BY <1>2, <3>1, <4>1 DEF AllOnce
      <4>3. QED
        BY <3>4, <4>1, <4>2
    <3>6. g.req \in Request
      BY <1>2, <3>1, <3>4, HeldQueues, <1>1 DEF AllOnce, ToSet
    <3>7. need'[g.req] = need[g.req]
      BY <3>5, <3>6 DEF x
    <3>8. QED
      BY <1>1, <2>2, <3>2, <3>7 DEF EngineInv, BudgetInv
  <2>3. QED
    BY <2>1, <2>2 DEF BudgetInv
<1>13. SeatsInv'
  <2>1. demand' = demand
    BY <1>9 DEF demand
  <2>2. IsFiniteSet(demand) /\ Cardinality(demand) <= num_curr_seqs /\ num_curr_seqs <= MaxNumSeqs
    BY <1>1 DEF EngineInv, SeatsInv
  <2>3. ~ Working'
    BY <1>1 DEF Scheduling, Working
  <2>4. num_curr_seqs' = num_curr_seqs
    OBVIOUS
  <2>5. QED
    BY ONLY <2>1, <2>2, <2>3, <2>4 DEF SeatsInv
<1>14. /\ Members(held) \subseteq Members(held') \cup lost' /\ lost \subseteq lost'
       /\ \A r \in Request : unfinished'[r] \subseteq unfinished[r]
       /\ phase \notin {"release", "stopped"}
  BY <1>8
<1>15. UNCHANGED <<num_seqs, workerVars, finished_ids, raised>>
  OBVIOUS
<1>16. QED
  BY <1>1, <1>8, <1>10, <1>11, <1>12, <1>13, <1>14, <1>15, SchedulingFrame

LEMMA MaxOfTwo ==
    ASSUME NEW a \in Int, NEW b \in Int
    PROVE  Max({a, b}) \in {a, b} /\ Max({a, b}) >= a /\ Max({a, b}) >= b
<1>1. \E x \in {a, b} : \A y \in {a, b} : x >= y
  <2>1. CASE a >= b
    BY <2>1
  <2>2. CASE b >= a
    BY <2>2
  <2>3. QED
    BY <2>1, <2>2
<1>2. QED
  BY <1>1 DEF Max

LEMMA PreemptByRecomputeKeeps ==
    ASSUME MambaInv, PreemptByRecompute
    PROVE  MambaInv'
<1> DEFINE x == Last(running)
<1>1. /\ phase = "running" /\ running # <<>> /\ num_seqs[x] = 1
      /\ Record(x, 0, "preempted") /\ running' = Front(running)
      /\ UNCHANGED <<n, num_seqs, unfinished, waiting, swapped, finished_ids, num_batched_tokens,
                     num_curr_seqs, phase, steps, workerVars, lost, raised>>
  BY DEF PreemptByRecompute, slots_may_run_out
<1>2. PICK len \in Max({1, need[x]}) .. MaxPrompt : need' = [need EXCEPT ![x] = len]
  BY DEF PreemptByRecompute
<1>3. TypeOK
  BY DEF MambaInv
<1>4. need \in [Request -> 0 .. MaxPrompt] /\ MaxPrompt \in Nat /\ x \in Request
  BY <1>1, <1>3, PartsTyped, LastLaw, SizesAssumption DEF TypeOK
<1> HIDE DEF x
<1>5. len \in 0 .. MaxPrompt
  <2> DEFINE a == need[x]
             m == Max({1, a})
  <2>1. a \in Int
    BY <1>4
  <2> HIDE DEF a
  <2>2. m \in {1, a} /\ m >= 1
    BY <2>1, MaxOfTwo
  <2>3. len \in m .. MaxPrompt
    BY <1>2 DEF a
  <2> HIDE DEF m
  <2>4. QED
    BY <1>4, <2>1, <2>2, <2>3
<1>6. need' \in [Request -> 0 .. MaxPrompt]
  BY <1>2, <1>4, <1>5
<1>7. \A r \in Request : need'[r] # need[r] => r = x /\ num_seqs[r] = 1
  BY <1>1, <1>2, <1>4
<1> DEFINE kind == "preempted"
<1>8. kind \in {"preempted", "swapped_out"} /\ Record(Last(running), 0, kind)
  BY <1>1 DEF x
<1> HIDE DEF kind
<1>9. QED
  BY <1>1, <1>6, <1>7, <1>8, PreemptLaw DEF x

LEMMA PreemptBySwapKeeps ==
    ASSUME MambaInv, PreemptBySwap
    PROVE  MambaInv'
<1>1. /\ phase = "running" /\ running # <<>>
      /\ running' = Front(running)
      /\ UNCHANGED <<n, num_seqs, unfinished, waiting, swapped, finished_ids, num_batched_tokens,
                     num_curr_seqs, phase, steps, workerVars, lost, raised>>
      /\ need' = need
  BY DEF PreemptBySwap, slots_may_run_out, requestVars
<1> DEFINE kind == "swapped_out"
<1>2. kind \in {"preempted", "swapped_out"} /\ Record(Last(running), 0, kind)
  BY DEF PreemptBySwap
<1>3. need' \in [Request -> 0 .. MaxPrompt]
  BY <1>1 DEF MambaInv, TypeOK
<1> HIDE DEF kind
<1>4. QED
  BY <1>1, <1>2, <1>3, PreemptLaw


\* Only the phase of the scheduling changes.
LEMMA PhaseLaw ==
    ASSUME MambaInv, Scheduling, Scheduling',
           UNCHANGED <<requestVars, queueVars, finished_ids, stepVars, steps, workerVars, lost, raised>>
    PROVE  MambaInv'
<1>1. TypeOK /\ EngineInv /\ phase \notin {"release", "stopped"}
  BY DEF MambaInv, Scheduling
<1>2. /\ n' = n /\ need' = need /\ num_seqs' = num_seqs /\ unfinished' = unfinished
      /\ waiting' = waiting /\ running' = running /\ swapped' = swapped
      /\ finished_ids' = finished_ids /\ groups' = groups /\ num_batched_tokens' = num_batched_tokens
      /\ num_curr_seqs' = num_curr_seqs /\ steps' = steps /\ delivered' = delivered
      /\ lost' = lost /\ raised' = raised
  BY DEF requestVars, queueVars, stepVars, workerVars
<1>3. held' = held
  BY <1>2, HeldParts DEF collected
<1>4. TypeOK'
  <2>1. /\ need' \in [Request -> 0 .. MaxPrompt] /\ finished_ids' \subseteq Request /\ lost' \subseteq Request
        /\ num_batched_tokens' \in Nat /\ num_curr_seqs' \in Nat /\ steps' \in 0 .. MaxSteps
        /\ raised' \in {"no", "over_budget", "over_seats", "index_error", "out_of_rows", "swap_indices"}
        /\ unfinished' \in [Request -> SUBSET Seqs] /\ \A r \in Request : unfinished'[r] \subseteq unfinished[r]
    BY <1>1, <1>2 DEF TypeOK
  <2>2. phase' \in Phase
    BY DEF Scheduling, Phase
  <2>3. groups' \in Lists /\ waiting' \in Seq(Request) /\ running' \in Seq(Request) /\ swapped' \in Seq(Request)
    BY <1>1, <1>2, PartsTyped
  <2>4. QED
    BY <1>1, <1>2, <2>1, <2>2, <2>3, TypeFrame
<1>5. RequestInv'
  <2>1. RequestInv
    BY <1>1 DEF EngineInv
  <2>2. \A r \in Request : need'[r] > 0 /\ n[r] > 1 => num_seqs[r] = 1
    BY <1>2, <2>1 DEF RequestInv
  <2>3. QED
    BY <1>2, <1>3, <2>1, <2>2, RequestFrame
<1>6. BudgetInv'
  BY <1>1, <1>2 DEF EngineInv, BudgetInv
<1>7. SeatsInv'
  <2>1. demand' = demand
    BY <1>2, HeldParts DEF demand
  <2>2. IsFiniteSet(demand) /\ Cardinality(demand) <= num_curr_seqs /\ num_curr_seqs <= MaxNumSeqs
    BY <1>1 DEF EngineInv, SeatsInv
  <2>3. ~ Working'
    BY DEF Scheduling, Working
  <2>4. num_curr_seqs' = num_curr_seqs
    BY <1>2
  <2>5. QED
    BY ONLY <2>1, <2>2, <2>3, <2>4 DEF SeatsInv
<1>8. AllOnce(held') /\ Members(held) \subseteq Members(held') \cup lost' /\ lost \subseteq lost'
  BY <1>1, <1>2, <1>3 DEF EngineInv
<1>9. \A r \in Request : unfinished'[r] \subseteq unfinished[r]
  BY <1>2
<1>10. UNCHANGED <<num_seqs, workerVars, finished_ids, raised>>
  BY <1>2
<1>11. QED
  BY <1>1, <1>4, <1>5, <1>6, <1>7, <1>8, <1>9, <1>10, SchedulingFrame

LEMMA EndRunningKeeps ==
    ASSUME MambaInv, EndRunning
    PROVE  MambaInv'
<1>1. Scheduling /\ Scheduling'
  BY DEF EndRunning, Scheduling
<1>2. UNCHANGED <<requestVars, queueVars, finished_ids, stepVars, steps, workerVars, lost, raised>>
  BY DEF EndRunning
<1>3. QED
  BY <1>1, <1>2, PhaseLaw

LEMMA EndSwappedKeeps ==
    ASSUME MambaInv, EndSwapped
    PROVE  MambaInv'
<1>1. Scheduling /\ Scheduling'
  BY DEF EndSwapped, Scheduling
<1>2. UNCHANGED <<requestVars, queueVars, finished_ids, stepVars, steps, workerVars, lost, raised>>
  BY DEF EndSwapped
<1>3. QED
  BY <1>1, <1>2, PhaseLaw

LEMMA StartStepKeeps ==
    ASSUME MambaInv, StartStep
    PROVE  MambaInv'
<1>1. /\ phase = "idle" /\ phase' = "running" /\ steps < MaxSteps /\ steps' = steps + 1
      /\ groups' = NoGroups /\ num_batched_tokens' = 0 /\ num_curr_seqs' = 0
      /\ UNCHANGED <<requestVars, queueVars, finished_ids, workerVars, lost, raised>>
  BY DEF StartStep
<1>2. TypeOK /\ EngineInv /\ phase \notin {"release", "stopped"} /\ ~ Scheduling /\ Scheduling' /\ ~ Working'
  BY <1>1 DEF MambaInv, Scheduling, Working
<1>3. /\ n' = n /\ need' = need /\ num_seqs' = num_seqs /\ unfinished' = unfinished
      /\ waiting' = waiting /\ running' = running /\ swapped' = swapped
      /\ finished_ids' = finished_ids /\ delivered' = delivered
      /\ lost' = lost /\ raised' = raised
  BY <1>1 DEF requestVars, queueVars, workerVars
<1>4. held' = held
  BY <1>1, <1>2, <1>3, HeldParts DEF collected
<1>5. TypeOK'
  <2>1. /\ need' \in [Request -> 0 .. MaxPrompt] /\ finished_ids' \subseteq Request /\ lost' \subseteq Request
        /\ num_batched_tokens' \in Nat /\ num_curr_seqs' \in Nat /\ phase' \in Phase
        /\ raised' \in {"no", "over_budget", "over_seats", "index_error", "out_of_rows", "swap_indices"}
        /\ unfinished' \in [Request -> SUBSET Seqs] /\ \A r \in Request : unfinished'[r] \subseteq unfinished[r]
    BY <1>1, <1>2, <1>3 DEF TypeOK, Phase
  <2>2. steps' \in 0 .. MaxSteps
    BY <1>1, <1>2, SizesAssumption DEF TypeOK
  <2>3. groups' \in Lists /\ waiting' \in Seq(Request) /\ running' \in Seq(Request) /\ swapped' \in Seq(Request)
    BY <1>1, <1>2, <1>3, PartsTyped, NoGroupsLaw
  <2>4. QED
    BY <1>1, <1>2, <1>3, <2>1, <2>2, <2>3, TypeFrame
<1>6. RequestInv'
  <2>1. RequestInv
    BY <1>2 DEF EngineInv
  <2>2. \A r \in Request : need'[r] > 0 /\ n[r] > 1 => num_seqs[r] = 1
    BY <1>3, <2>1 DEF RequestInv
  <2>3. QED
    BY <1>3, <1>4, <2>1, <2>2, RequestFrame
<1>7. BudgetInv'
  <2>1. 0 <= TokenBudget
    BY SizesAssumption
  <2>2. \A k \in RunKind : ToSet(groups'[k]) = {}
    BY <1>1, NoGroupsLaw, KindsAreNamed
  <2>3. num_batched_tokens' <= TokenBudget
    BY <1>1, <2>1
  <2>4. QED
    BY <2>2, <2>3 DEF BudgetInv
<1>8. SeatsInv'
  <2>1. ToSet(Scheduled') = {}
    <3>1. ToSet(Joined(NoGroups)) = Taken(NoGroups)
      BY NoGroupsLaw, JoinedLaw
    <3>2. Taken(NoGroups) = {}
      <4>1. ToSet(<<>>) = {}
        BY DEF ToSet
      <4>2. QED
        BY <4>1, NoGroupsLaw, KindsAreNamed DEF Taken
    <3>3. QED
      BY <1>1, <3>1, <3>2, HeldParts
  <2>2. demand' = {p \in Pair : p[1] \in ToSet(Scheduled') /\ p[2] \in unfinished'[p[1]]}
    BY DEF demand
  <2>3. demand' = {}
    BY <2>1, <2>2
  <2>4. IsFiniteSet(demand') /\ Cardinality(demand') = 0
    BY <2>3, FS_EmptySet
  <2>5. QED
    BY <1>1, <1>2, <2>4, SizesAssumption DEF SeatsInv
<1>9. AllOnce(held') /\ Members(held) \subseteq Members(held') \cup lost' /\ lost \subseteq lost'
  BY <1>2, <1>3, <1>4 DEF EngineInv
<1>10. \A r \in Request : unfinished'[r] \subseteq unfinished[r]
  BY <1>3
<1>11. UNCHANGED <<num_seqs, workerVars, finished_ids, raised>>
  BY <1>1, <1>3
<1>12. QED
  BY <1>2, <1>5, <1>6, <1>7, <1>8, <1>9, <1>10, <1>11, SchedulingFrame

\* A request at the head of a queue that can never run is dropped.
LEMMA IgnoreLaw ==
    ASSUME MambaInv, Scheduling, NEW a \in {"waiting", "swapped"}, held[a] # <<>>,
           Ignore(Head(held[a])),
           waiting' = IF a = "waiting" THEN Tail(held[a]) ELSE waiting,
           swapped' = IF a = "swapped" THEN Tail(held[a]) ELSE swapped
    PROVE  MambaInv'
<1> DEFINE q == held[a]
           x == Head(q)
           t == Tail(q)
<1>1. TypeOK /\ EngineInv /\ AllOnce(held) /\ phase \notin {"release", "stopped"}
  BY DEF MambaInv, EngineInv, Scheduling
<1>2. q \in Seq(Request) /\ q # <<>> /\ IsInjective(q)
  BY <1>1, KindsAreNamed DEF AllOnce
<1> HIDE DEF q
<1>3. x \in Request /\ t \in Seq(Request) /\ ToSet(q) = ToSet(t) \cup {x} /\ x \notin ToSet(t) /\ IsInjective(t)
  BY <1>2, HeadLaw
<1>4. /\ unfinished' = [unfinished EXCEPT ![x] = {}] /\ lost' = lost \cup {x}
      /\ n' = n /\ need' = need /\ num_seqs' = num_seqs /\ running' = running
      /\ finished_ids' = finished_ids /\ UNCHANGED stepVars /\ phase' = phase /\ steps' = steps
      /\ UNCHANGED workerVars /\ raised' = raised
      /\ waiting' = IF a = "waiting" THEN t ELSE waiting
      /\ swapped' = IF a = "swapped" THEN t ELSE swapped
  BY DEF Ignore, q
<1>5. /\ groups' = groups /\ num_batched_tokens' = num_batched_tokens
      /\ num_curr_seqs' = num_curr_seqs /\ delivered' = delivered
  BY <1>4 DEF stepVars, workerVars
<1>6. held[a] = q
  BY DEF q
<1> HIDE DEF x, t
<1>7. \A r \in Request : unfinished'[r] = IF r = x THEN {} ELSE unfinished[r]
  <2>1. unfinished \in [Request -> SUBSET Seqs]
    BY <1>1 DEF TypeOK
  <2>2. QED
    BY <1>4, <2>1
<1>8. Scheduling' /\ collected' = collected
  BY <1>4, <1>5 DEF Scheduling, collected
<1>9. waiting' \in Seq(Request) /\ running' \in Seq(Request) /\ swapped' \in Seq(Request)
  BY <1>1, <1>3, <1>4, PartsTyped
<1>10. /\ held' \in [Place -> Seq(Request)]
       /\ held'[a] = t
       /\ \A p \in Place : p # a => held'[p] = held[p]
  <2> DEFINE g == collected
             w == waiting'
             r == running'
             s == swapped'
             e == InPlaces(g, w, r, s)
  <2>1. held' = e
    BY <1>8, HeldParts
  <2>2. g \in Lists /\ w \in Seq(Request) /\ r \in Seq(Request) /\ s \in Seq(Request)
    BY <1>1, <1>9, PartsTyped
  <2> HIDE DEF g, w, r, s
  <2>3. /\ e \in [Place -> Seq(Request)]
        /\ e["waiting"] = w /\ e["running"] = r /\ e["swapped"] = s
        /\ \A k \in Kind : e[k] = RequestsOf(g, k)
    BY ONLY <2>2, PlacesLaw
  <2> HIDE DEF e
  <2>4. /\ held["waiting"] = waiting /\ held["running"] = running /\ held["swapped"] = swapped
        /\ \A k \in Kind : held[k] = RequestsOf(g, k)
    BY <1>1, HeldQueues DEF g
  <2>5. ASSUME NEW p \in Place, p # a PROVE e[p] = held[p]
    BY <1>4, <2>3, <2>4, <2>5 DEF Place, w, r, s
  <2>6. e[a] = t
    BY <1>4, <2>3 DEF w, s
  <2>7. QED
    BY <2>1, <2>3, <2>5, <2>6
<1>11. a \in Place
  BY KindsAreNamed
<1>12. AllOnce(held') /\ Members(held') \subseteq Members(held)
  <2>1. \A p \in Place : IsInjective(held'[p]) /\ ToSet(held'[p]) \subseteq ToSet(held[p])
    BY <1>1, <1>3, <1>6, <1>10 DEF AllOnce
  <2> DEFINE h == held'
  <2>2. h \in [Place -> Seq(Request)] /\ \A p \in Place : IsInjective(h[p]) /\ ToSet(h[p]) \subseteq ToSet(held[p])
    BY <1>10, <2>1
  <2> HIDE DEF h
  <2>3. AllOnce(h) /\ Members(h) \subseteq Members(held)
    BY <1>1, <2>2, DropLaw
  <2>4. QED
    BY <2>3 DEF h
<1>13. x \notin Members(held') /\ Members(held) \subseteq Members(held') \cup {x}
  <2>1. \A p \in Place : p # a => ToSet(held[p]) \cap ToSet(held[a]) = {}
    BY <1>1, <1>11 DEF AllOnce
  <2>2. x \in ToSet(held[a]) /\ ToSet(held[a]) = ToSet(held'[a]) \cup {x} /\ x \notin ToSet(held'[a])
    BY <1>3, <1>6, <1>10
  <2>3. ASSUME NEW p \in Place PROVE x \notin ToSet(held'[p]) /\ ToSet(held[p]) \subseteq ToSet(held'[p]) \cup {x}
    BY <1>10, <2>1, <2>2
  <2>4. QED
    BY <2>3 DEF Members
<1>14. x \in Members(held)
  BY <1>3, <1>6, <1>11 DEF Members
<1>15. TypeOK'
  <2>1. /\ need' \in [Request -> 0 .. MaxPrompt] /\ finished_ids' \subseteq Request /\ lost' \subseteq Request
        /\ num_batched_tokens' \in Nat /\ num_curr_seqs' \in Nat /\ steps' \in 0 .. MaxSteps
        /\ raised' \in {"no", "over_budget", "over_seats", "index_error", "out_of_rows", "swap_indices"}
        /\ phase' \in Phase
    BY <1>1, <1>3, <1>4, <1>5 DEF TypeOK
  <2>2. groups' \in Lists
    BY <1>1, <1>5, PartsTyped
  <2>3. /\ unfinished' \in [Request -> SUBSET Seqs]
        /\ \A r \in Request : unfinished'[r] \subseteq unfinished[r]
    BY <1>1, <1>4, <1>7 DEF TypeOK
  <2>4. QED
    BY <1>1, <1>4, <1>9, <2>1, <2>2, <2>3, TypeFrame
<1>16. RequestInv'
  <2>1. RequestInv
    BY <1>1 DEF EngineInv
  <2>2. ASSUME NEW r \in Request, n[r] = 0 PROVE num_seqs[r] = 0 /\ unfinished'[r] = {}
    BY <1>7, <2>1, <2>2 DEF RequestInv
  <2>3. ASSUME NEW r \in Members(held') PROVE unfinished'[r] # {}
    <3>1. r \in Members(held) /\ r # x
      BY <1>12, <1>13, <2>3
    <3>2. r \in Request
      BY <1>10, <2>3 DEF Members, ToSet
    <3>3. QED
      BY <1>7, <2>1, <3>1, <3>2 DEF RequestInv
  <2>4. ASSUME NEW r \in finished_ids \cup delivered PROVE n[r] # 0 /\ unfinished'[r] = {}
    <3>1. n[r] # 0 /\ unfinished[r] = {} /\ r \in Request
      BY <1>1, <2>1, <2>4 DEF RequestInv, TypeOK
    <3>2. QED
      BY <1>7, <3>1
  <2>5. QED
    BY <1>4, <1>5, <2>1, <2>2, <2>3, <2>4 DEF RequestInv
<1>17. BudgetInv'
  BY <1>1, <1>4, <1>5, <1>8 DEF EngineInv, BudgetInv, Scheduling, Working
<1>18. SeatsInv'
  <2>1. IsFiniteSet(demand) /\ Cardinality(demand) <= num_curr_seqs /\ num_curr_seqs <= MaxNumSeqs
    BY <1>1 DEF EngineInv, SeatsInv
  <2>2. demand' \subseteq demand
    <3>1. demand' = {p \in Pair : p[1] \in ToSet(Scheduled') /\ p[2] \in unfinished'[p[1]]}
      BY DEF demand
    <3>2. Scheduled' = Scheduled
      BY <1>5, HeldParts
    <3>3. ASSUME NEW p \in demand' PROVE p \in demand
      <4>1. p \in Pair /\ p[1] \in ToSet(Scheduled) /\ p[2] \in unfinished'[p[1]] /\ p[1] \in Request
        BY <3>1, <3>2, <3>3 DEF Pair
      <4>2. p[2] \in unfinished[p[1]]
        BY <1>7, <4>1
      <4>3. QED
        BY <4>1, <4>2 DEF demand
    <3>4. QED
      BY <3>3
  <2>3. IsFiniteSet(demand') /\ Cardinality(demand') <= Cardinality(demand)
    BY <2>1, <2>2, FS_Subset
  <2>4. Cardinality(demand') \in Nat /\ Cardinality(demand) \in Nat /\ num_curr_seqs \in Nat
    BY <1>1, <2>1, <2>3, FS_CardinalityType DEF TypeOK
  <2>5. Cardinality(demand') <= num_curr_seqs' /\ num_curr_seqs' <= MaxNumSeqs
    BY <1>5, <2>1, <2>3, <2>4
  <2>6. ~ Working'
    BY <1>8 DEF Scheduling, Working
  <2>7. QED
    BY <2>3, <2>5, <2>6 DEF SeatsInv
<1>19. /\ Members(held) \subseteq Members(held') \cup lost' /\ lost \subseteq lost'
       /\ \A r \in Request : unfinished'[r] \subseteq unfinished[r]
  BY <1>4, <1>7, <1>13
<1>20. UNCHANGED <<num_seqs, workerVars, finished_ids, raised>>
  BY <1>4
<1>21. QED
  BY <1>1, <1>8, <1>12, <1>15, <1>16, <1>17, <1>18, <1>19, <1>20, SchedulingFrame

LEMMA IgnoreSwappedKeeps ==
    ASSUME MambaInv, IgnoreSwapped
    PROVE  MambaInv'
<1>1. phase = "swapped" /\ swapped # <<>> /\ Ignore(Head(swapped)) /\ swapped' = Tail(swapped)
      /\ waiting' = waiting
  BY DEF IgnoreSwapped
<1>2. TypeOK /\ Scheduling
  BY <1>1 DEF MambaInv, Scheduling
<1> DEFINE a == "swapped"
<1>3. /\ a \in {"waiting", "swapped"} /\ held[a] # <<>> /\ Ignore(Head(held[a]))
      /\ waiting' = IF a = "waiting" THEN Tail(held[a]) ELSE waiting
      /\ swapped' = IF a = "swapped" THEN Tail(held[a]) ELSE swapped
  BY <1>1, <1>2, HeldQueues
<1> HIDE DEF a
<1>4. QED
  BY <1>2, <1>3, IgnoreLaw

LEMMA IgnoreWaitingKeeps ==
    ASSUME MambaInv, IgnoreWaiting
    PROVE  MambaInv'
<1>1. phase = "waiting" /\ waiting # <<>> /\ Ignore(Head(waiting)) /\ waiting' = Tail(waiting)
      /\ swapped' = swapped
  BY DEF IgnoreWaiting
<1>2. TypeOK /\ Scheduling
  BY <1>1 DEF MambaInv, Scheduling
<1> DEFINE a == "waiting"
<1>3. /\ a \in {"waiting", "swapped"} /\ held[a] # <<>> /\ Ignore(Head(held[a]))
      /\ waiting' = IF a = "waiting" THEN Tail(held[a]) ELSE waiting
      /\ swapped' = IF a = "swapped" THEN Tail(held[a]) ELSE swapped
  BY <1>1, <1>2, HeldQueues
<1> HIDE DEF a
<1>4. QED
  BY <1>2, <1>3, IgnoreLaw


----------------------------------------------------------------------------
(* Requests *)

\* The places after a step, by the queues and the lists after it.
LEMMA NextQueues ==
    ASSUME collected' \in Lists,
           waiting' \in Seq(Request), running' \in Seq(Request), swapped' \in Seq(Request)
    PROVE  /\ held' \in [Place -> Seq(Request)]
           /\ held'["waiting"] = waiting' /\ held'["running"] = running' /\ held'["swapped"] = swapped'
           /\ \A k \in Kind : held'[k] = RequestsOf(collected', k)
<1> DEFINE g == collected'
           w == waiting'
           r == running'
           s == swapped'
           e == InPlaces(g, w, r, s)
<1>1. held' = e
  BY HeldParts
<1> HIDE DEF g, w, r, s
<1>2. g \in Lists /\ w \in Seq(Request) /\ r \in Seq(Request) /\ s \in Seq(Request)
  BY DEF g, w, r, s
<1>3. /\ e \in [Place -> Seq(Request)]
      /\ e["waiting"] = w /\ e["running"] = r /\ e["swapped"] = s
      /\ \A k \in Kind : e[k] = RequestsOf(g, k)
  BY ONLY <1>2, PlacesLaw
<1> HIDE DEF e
<1>4. QED
  BY ONLY <1>1, <1>3 DEF g, w, r, s

LEMMA ThreeQueues ==
    ASSUME NEW w \in Seq(Request), NEW r \in Seq(Request), NEW s \in Seq(Request)
    PROVE  ToSet(w \o r \o s) = ToSet(w) \cup ToSet(r) \cup ToSet(s)
<1> DEFINE u == w \o r
<1>1. u \in Seq(Request) /\ ToSet(u) = ToSet(w) \cup ToSet(r)
  BY ConcatLaw
<1> HIDE DEF u
<1>2. ToSet(u \o s) = ToSet(u) \cup ToSet(s)
  BY <1>1, ConcatLaw
<1>3. QED
  BY <1>1, <1>2 DEF u

\* Requests come and go between the steps.
LEMMA IdleFrame ==
    ASSUME MambaInv, phase = "idle", phase' = "idle",
           UNCHANGED <<workerVars, lost, raised>>,
           \A r \in Request : num_seqs[r] <= num_seqs'[r],
           \A r \in Request : unfinished'[r] \subseteq unfinished[r] \cup {1},
           finished_ids \subseteq finished_ids',
           Members(held) \subseteq Members(held') \cup finished_ids',
           TypeOK', AllOnce(held'), RequestInv'
    PROVE  MambaInv'
<1>1. EngineInv /\ TypeOK /\ RowsApart /\ StateFollowsSequence /\ ForkInv /\ LiveInv
  BY DEF MambaInv, EngineInv
<1>2. indices' = indices /\ row' = row /\ fed' = fed
  BY DEF workerVars
<1>3. RowsApart' /\ StateFollowsSequence' /\ ForkInv'
  <2>1. \A r \in Request : num_seqs'[r] \in Nat
    BY SizesAssumption DEF TypeOK
  <2>2. QED
    BY <1>1, <1>2, <2>1, RowsFrame
<1>4. LiveInv'
  <2> DEFINE gone == finished_ids'
  <2>1. /\ Members(held) \subseteq Members(held') \cup gone
        /\ gone \cup finished_ids \cup lost \subseteq
               finished_ids' \cup lost' \cup (IF phase' = "release" THEN delivered' ELSE {})
    OBVIOUS
  <2> HIDE DEF gone
  <2>2. QED
    BY <1>1, <1>2, <2>1, LiveFrame
<1>5. ~ Scheduling' /\ ~ Working'
  BY DEF Scheduling, Working
<1>6. BudgetInv' /\ SeatsInv' /\ BatchInv'
  BY <1>5 DEF BudgetInv, SeatsInv, BatchInv
<1>7. raised' = "no"
  BY <1>1 DEF EngineInv
<1>8. QED
  BY <1>3, <1>4, <1>6, <1>7 DEF MambaInv, EngineInv

LEMMA AddSeqGroupKeeps ==
    ASSUME MambaInv, NEW x \in Request, AddSeqGroup(x)
    PROVE  MambaInv'
<1>1. PICK c \in 1 .. MaxN : n' = [n EXCEPT ![x] = c]
  BY DEF AddSeqGroup
<1>2. PICK len \in 1 .. MaxPrompt : need' = [need EXCEPT ![x] = len]
  BY DEF AddSeqGroup
<1>3. /\ phase = "idle" /\ n[x] = 0
      /\ num_seqs' = [num_seqs EXCEPT ![x] = 1] /\ unfinished' = [unfinished EXCEPT ![x] = {1}]
      /\ waiting' = Append(waiting, x)
      /\ UNCHANGED <<running, swapped, finished_ids, stepVars, phase, steps, workerVars, lost, raised>>
  BY DEF AddSeqGroup
<1>4. /\ groups' = groups /\ num_batched_tokens' = num_batched_tokens
      /\ num_curr_seqs' = num_curr_seqs /\ delivered' = delivered
      /\ batch' = batch /\ assigned' = assigned /\ indices' = indices /\ row' = row /\ fed' = fed
      /\ finished_ids' = finished_ids /\ lost' = lost /\ steps' = steps /\ phase' = phase /\ raised' = raised
  BY <1>3 DEF stepVars, workerVars
<1>5. TypeOK /\ EngineInv /\ RequestInv /\ AllOnce(held)
  BY <1>3 DEF MambaInv, EngineInv
<1>6. /\ n \in [Request -> 0 .. MaxN] /\ need \in [Request -> 0 .. MaxPrompt]
      /\ num_seqs \in [Request -> 0 .. MaxN] /\ unfinished \in [Request -> SUBSET Seqs]
      /\ \A r \in Request : unfinished[r] \subseteq 1 .. num_seqs[r]
  BY <1>5 DEF TypeOK
<1>7. num_seqs[x] = 0 /\ unfinished[x] = {}
  BY <1>3, <1>5 DEF RequestInv
<1>8. \A r \in Request : r # x => /\ n'[r] = n[r] /\ need'[r] = need[r]
                                  /\ num_seqs'[r] = num_seqs[r] /\ unfinished'[r] = unfinished[r]
  BY <1>1, <1>2, <1>3, <1>6
<1>9. n'[x] = c /\ need'[x] = len /\ num_seqs'[x] = 1 /\ unfinished'[x] = {1}
  BY <1>1, <1>2, <1>3, <1>6
<1>10. waiting' \in Seq(Request) /\ running' \in Seq(Request) /\ swapped' \in Seq(Request)
       /\ collected' = collected /\ collected \in Lists
  BY <1>3, <1>4, <1>5, PartsTyped DEF collected, Scheduling
<1>11. TypeOK'
  <2>1. n' \in [Request -> 0 .. MaxN] /\ need' \in [Request -> 0 .. MaxPrompt]
    BY <1>1, <1>2, <1>6, SizesAssumption
  <2>2. num_seqs' \in [Request -> 0 .. MaxN] /\ unfinished' \in [Request -> SUBSET Seqs]
    <3>1. 1 \in 0 .. MaxN /\ {1} \in SUBSET Seqs
      BY SizesAssumption DEF Seqs
    <3>2. QED
      BY <1>3, <1>6, <3>1
  <2>3. \A r \in Request : unfinished'[r] \subseteq 1 .. num_seqs'[r]
    BY <1>6, <1>8, <1>9
  <2>4. QED
    BY <1>4, <1>5, <1>10, <2>1, <2>2, <2>3 DEF TypeOK
<1>12. x \notin Members(held)
  BY <1>5, <1>7 DEF RequestInv
<1>13. AllOnce(held') /\ Members(held') = Members(held) \cup {x}
  <2> DEFINE h == held'
             a == "waiting"
  <2>1. /\ h \in [Place -> Seq(Request)]
        /\ h["waiting"] = waiting' /\ h["running"] = running /\ h["swapped"] = swapped
        /\ \A k \in Kind : h[k] = RequestsOf(collected, k)
    BY <1>3, <1>10, NextQueues
  <2> HIDE DEF h
  <2>2. h[a] = Append(held[a], x)
    BY <1>3, <1>5, <2>1, HeldQueues
  <2>3. \A q \in Place : q # a => h[q] = held[q]
    BY <1>5, <2>1, HeldQueues DEF Place
  <2>4. a \in Place
    BY KindsAreNamed
  <2> HIDE DEF a
  <2>5. AllOnce(h) /\ Members(h) = Members(held) \cup {x}
    BY <1>5, <1>12, <2>1, <2>2, <2>3, <2>4, AddLaw
  <2>6. QED
    BY <2>5 DEF h
<1>14. RequestInv'
  <2>1. \A r \in Request : n'[r] = 0 => num_seqs'[r] = 0 /\ unfinished'[r] = {}
    BY <1>5, <1>8, <1>9 DEF RequestInv
  <2>2. \A r \in Request : need'[r] > 0 /\ n'[r] > 1 => num_seqs'[r] = 1
    BY <1>5, <1>8, <1>9 DEF RequestInv
  <2>3. \A r \in Request : n'[r] = 1 => num_seqs'[r] = 1
    BY <1>5, <1>8, <1>9 DEF RequestInv
  <2>4. ASSUME NEW r \in Members(held') PROVE unfinished'[r] # {}
    <3>1. r \in Request
      BY <1>11, <1>13 DEF Members, AllOnce, ToSet
    <3>2. CASE r = x
      BY <1>9, <3>2
    <3>3. CASE r # x
      BY <1>5, <1>8, <1>13, <2>4, <3>1, <3>3 DEF RequestInv
    <3>4. QED
      BY <3>2, <3>3
  <2>5. ASSUME NEW r \in finished_ids \cup delivered PROVE n'[r] # 0 /\ unfinished'[r] = {}
    <3>1. r \in Request /\ n[r] # 0 /\ unfinished[r] = {}
      BY <1>5, <2>5 DEF RequestInv, TypeOK
    <3>2. QED
      BY <1>3, <1>8, <3>1
  <2>6. QED
    BY <1>4, <2>1, <2>2, <2>3, <2>4, <2>5 DEF RequestInv
<1>15. /\ \A r \in Request : num_seqs[r] <= num_seqs'[r]
       /\ \A r \in Request : unfinished'[r] \subseteq unfinished[r] \cup {1}
  <2>1. \A r \in Request : num_seqs[r] \in Int
    BY <1>6
  <2>2. QED
    BY <1>7, <1>8, <1>9, <2>1
<1>16. Members(held) \subseteq Members(held') \cup finished_ids' /\ finished_ids \subseteq finished_ids'
  BY <1>4, <1>13
<1>17. phase' = "idle" /\ UNCHANGED <<workerVars, lost, raised>>
  BY <1>3
<1>18. QED
  BY <1>3, <1>11, <1>13, <1>14, <1>15, <1>16, <1>17, IdleFrame

LEMMA AbortSeqGroupKeeps ==
    ASSUME MambaInv, NEW x \in Request, AbortSeqGroup(x)
    PROVE  MambaInv'
<1>1. /\ phase = "idle" /\ x \in ToSet(waiting \o running \o swapped)
      /\ waiting' = Without(waiting, {x}) /\ running' = Without(running, {x})
      /\ swapped' = Without(swapped, {x})
      /\ finished_ids' = finished_ids \cup {x} /\ unfinished' = [unfinished EXCEPT ![x] = {}]
      /\ UNCHANGED <<n, need, num_seqs, stepVars, phase, steps, workerVars, lost, raised>>
  BY DEF AbortSeqGroup
<1>2. /\ groups' = groups /\ num_batched_tokens' = num_batched_tokens
      /\ num_curr_seqs' = num_curr_seqs /\ delivered' = delivered
      /\ lost' = lost /\ steps' = steps /\ phase' = phase /\ raised' = raised
      /\ n' = n /\ need' = need /\ num_seqs' = num_seqs
  BY <1>1 DEF stepVars, workerVars
<1>3. TypeOK /\ EngineInv /\ RequestInv /\ AllOnce(held)
  BY <1>1 DEF MambaInv, EngineInv
<1>4. \A r \in Request : unfinished'[r] = IF r = x THEN {} ELSE unfinished[r]
  <2>1. unfinished \in [Request -> SUBSET Seqs]
    BY <1>3 DEF TypeOK
  <2>2. QED
    BY <1>1, <2>1
<1>5. waiting \in Seq(Request) /\ running \in Seq(Request) /\ swapped \in Seq(Request)
  BY <1>3, PartsTyped
<1>6. \A s \in Seq(Request) :
         /\ Without(s, {x}) \in Seq(Request) /\ ToSet(Without(s, {x})) = ToSet(s) \ {x}
         /\ IsInjective(s) => IsInjective(Without(s, {x}))
  <2> DEFINE S == Request \ {x}
  <2>1. \A s : Without(s, {x}) = Keep(s, S)
    BY DEF Without
  <2>2. \A s \in Seq(Request) : ToSet(s) \cap S = ToSet(s) \ {x}
    BY DEF ToSet
  <2> HIDE DEF S
  <2>3. ASSUME NEW s \in Seq(Request)
        PROVE  /\ Keep(s, S) \in Seq(Request) /\ ToSet(Keep(s, S)) = ToSet(s) \cap S
               /\ IsInjective(s) => IsInjective(Keep(s, S))
    BY KeepLaw
  <2>4. QED
    BY <2>1, <2>2, <2>3
<1>7. /\ waiting' \in Seq(Request) /\ running' \in Seq(Request) /\ swapped' \in Seq(Request)
      /\ ToSet(waiting') = ToSet(waiting) \ {x} /\ ToSet(running') = ToSet(running) \ {x}
      /\ ToSet(swapped') = ToSet(swapped) \ {x}
      /\ IsInjective(waiting) => IsInjective(waiting')
      /\ IsInjective(running) => IsInjective(running')
      /\ IsInjective(swapped) => IsInjective(swapped')
  BY <1>1, <1>5, <1>6
<1>8. collected' = collected /\ collected \in Lists /\ collected = NoGroups
  BY <1>1, <1>2, <1>3, PartsTyped DEF collected, Scheduling
<1>9. /\ held' \in [Place -> Seq(Request)]
      /\ held'["waiting"] = waiting' /\ held'["running"] = running' /\ held'["swapped"] = swapped'
      /\ \A k \in Kind : held'[k] = <<>>
  BY <1>7, <1>8, NextQueues, NoGroupsLaw
<1>10. /\ held["waiting"] = waiting /\ held["running"] = running /\ held["swapped"] = swapped
       /\ \A k \in Kind : held[k] = <<>>
  BY <1>3, <1>8, HeldQueues, NoGroupsLaw
<1>11. \A q \in Place : ToSet(held'[q]) = ToSet(held[q]) \ {x} /\ IsInjective(held'[q])
  <2>1. ASSUME NEW q \in Kind PROVE ToSet(held'[q]) = ToSet(held[q]) \ {x} /\ IsInjective(held'[q])
    <3>1. ToSet(<<>>) = {} /\ IsInjective(<<>>)
      BY DEF ToSet, IsInjective
    <3>2. QED
      BY <1>9, <1>10, <2>1, <3>1
  <2>2. IsInjective(waiting) /\ IsInjective(running) /\ IsInjective(swapped)
    BY <1>3, <1>10, KindsAreNamed DEF AllOnce
  <2>3. QED
    BY <1>7, <1>9, <1>10, <2>1, <2>2 DEF Place
<1>12. AllOnce(held') /\ Members(held') \subseteq Members(held)
  <2> DEFINE h == held'
  <2>1. h \in [Place -> Seq(Request)] /\ \A p \in Place : IsInjective(h[p]) /\ ToSet(h[p]) \subseteq ToSet(held[p])
    BY <1>9, <1>11
  <2> HIDE DEF h
  <2>2. AllOnce(h) /\ Members(h) \subseteq Members(held)
    BY <1>3, <2>1, DropLaw
  <2>3. QED
    BY <2>2 DEF h
<1>13. x \notin Members(held') /\ Members(held) \subseteq Members(held') \cup {x}
  BY <1>11 DEF Members
<1>14. n[x] # 0
  <2>1. x \in ToSet(waiting) \cup ToSet(running) \cup ToSet(swapped)
    BY <1>1, <1>5, ThreeQueues
  <2>2. x \in Members(held)
    BY <1>10, <2>1, KindsAreNamed DEF Members
  <2>3. QED
    BY <1>3, <2>2 DEF RequestInv
<1>15. TypeOK'
  <2>1. /\ need' \in [Request -> 0 .. MaxPrompt] /\ finished_ids' \subseteq Request /\ lost' \subseteq Request
        /\ num_batched_tokens' \in Nat /\ num_curr_seqs' \in Nat /\ steps' \in 0 .. MaxSteps
        /\ raised' \in {"no", "over_budget", "over_seats", "index_error", "out_of_rows", "swap_indices"}
        /\ phase' \in Phase
    BY <1>1, <1>2, <1>3 DEF TypeOK
  <2>2. groups' \in Lists
    BY <1>2, <1>3, PartsTyped
  <2>3. /\ unfinished' \in [Request -> SUBSET Seqs]
        /\ \A r \in Request : unfinished'[r] \subseteq unfinished[r]
    BY <1>1, <1>3, <1>4 DEF TypeOK
  <2>4. QED
    BY <1>1, <1>2, <1>3, <1>7, <2>1, <2>2, <2>3, TypeFrame
<1>16. RequestInv'
  <2>1. ASSUME NEW r \in Request, n[r] = 0 PROVE num_seqs[r] = 0 /\ unfinished'[r] = {}
    BY <1>3, <1>4, <2>1 DEF RequestInv
  <2>2. ASSUME NEW r \in Members(held') PROVE unfinished'[r] # {}
    <3>1. r \in Members(held) /\ r # x
      BY <1>12, <1>13, <2>2
    <3>2. r \in Request
      BY <1>9, <2>2 DEF Members, ToSet
    <3>3. QED
      BY <1>3, <1>4, <3>1, <3>2 DEF RequestInv
  <2>3. ASSUME NEW r \in finished_ids' \cup delivered PROVE n[r] # 0 /\ unfinished'[r] = {}
    <3>1. r = x \/ (n[r] # 0 /\ unfinished[r] = {} /\ r \in Request)
      BY <1>1, <1>3, <2>3 DEF RequestInv, TypeOK
    <3>2. QED
      BY <1>4, <1>14, <3>1
  <2>4. QED
    BY <1>2, <1>3, <2>1, <2>2, <2>3 DEF RequestInv
<1>17. /\ \A r \in Request : num_seqs[r] <= num_seqs'[r]
       /\ \A r \in Request : unfinished'[r] \subseteq unfinished[r] \cup {1}
  <2>1. \A r \in Request : num_seqs[r] \in Int
    BY <1>3 DEF TypeOK
  <2>2. QED
    BY <1>2, <1>4, <2>1
<1>18. Members(held) \subseteq Members(held') \cup finished_ids' /\ finished_ids \subseteq finished_ids'
  BY <1>1, <1>13
<1>19. phase' = "idle" /\ UNCHANGED <<workerVars, lost, raised>>
  BY <1>1
<1>20. QED
  BY <1>1, <1>12, <1>15, <1>16, <1>17, <1>18, <1>19, IdleFrame


----------------------------------------------------------------------------
(* The end of a step of the scheduler *)

LEMMA PairsLaw ==
    ASSUME TypeOK, NEW r \in Request
    PROVE  /\ pairs_of(r) \in Seq(Pair) /\ IsInjective(pairs_of(r))
           /\ ToSet(pairs_of(r)) = {p \in Pair : p[1] = r /\ p[2] \in unfinished[r]}
<1> DEFINE t == [s \in Seqs |-> <<r, s>>]
           S == {r} \X unfinished[r]
<1>1. pairs_of(r) = Keep(t, S)
  BY DEF pairs_of
<1>2. t \in Seq(Pair) /\ IsInjective(t) /\ ToSet(t) = {p \in Pair : p[1] = r}
  <2>1. MaxN \in Nat /\ Seqs = 1 .. MaxN
    BY SizesAssumption DEF Seqs
  <2>2. \A s \in 1 .. MaxN : <<r, s>> \in Pair
    BY <2>1 DEF Pair
  <2>3. t \in Seq(Pair) /\ DOMAIN t = Seqs
    BY <2>1, <2>2
  <2>4. IsInjective(t)
    BY <2>3 DEF IsInjective
  <2>5. ToSet(t) = {p \in Pair : p[1] = r}
    BY <2>3 DEF ToSet, Pair
  <2>6. QED
    BY <2>3, <2>4, <2>5
<1>3. ToSet(t) \cap S = {p \in Pair : p[1] = r /\ p[2] \in unfinished[r]}
  BY <1>2 DEF Pair
<1> HIDE DEF t, S
<1>4. Keep(t, S) \in Seq(Pair) /\ ToSet(Keep(t, S)) = ToSet(t) \cap S /\ IsInjective(Keep(t, S))
  BY <1>2, KeepLaw
<1>5. QED
  BY <1>1, <1>3, <1>4

\* The batch has the running sequences of the scheduled requests.
LEMMA BatchLaw ==
    ASSUME TypeOK, Scheduled \in Seq(Request), IsInjective(Scheduled)
    PROVE  /\ request_ids_to_seq_ids \in Seq(Pair) /\ IsInjective(request_ids_to_seq_ids)
           /\ ToSet(request_ids_to_seq_ids) = demand
<1> DEFINE S == Scheduled
           ss == [i \in DOMAIN S |-> pairs_of(S[i])]
<1>1. request_ids_to_seq_ids = FlattenSeq(ss)
  BY DEF request_ids_to_seq_ids
<1>2. demand = {p \in Pair : p[1] \in ToSet(S) /\ p[2] \in unfinished[p[1]]}
  BY DEF demand
<1>3. S \in Seq(Request) /\ IsInjective(S)
  OBVIOUS
<1> HIDE DEF S
<1>4. DOMAIN S = 1 .. Len(S) /\ Len(S) \in Nat /\ \A i \in 1 .. Len(S) : S[i] \in Request
  BY <1>3
<1>5. \A i \in 1 .. Len(S) : /\ ss[i] \in Seq(Pair) /\ IsInjective(ss[i])
                             /\ ToSet(ss[i]) = {p \in Pair : p[1] = S[i] /\ p[2] \in unfinished[S[i]]}
  BY <1>4, PairsLaw
<1>6. ss \in Seq(Seq(Pair)) /\ Len(ss) = Len(S)
  <2>1. ss = [i \in 1 .. Len(S) |-> ss[i]]
    BY <1>4
  <2> HIDE DEF ss
  <2>2. QED
    BY <1>4, <1>5, <2>1
<1> HIDE DEF ss
<1>7. \A i, j \in 1 .. Len(ss) : i # j => ToSet(ss[i]) \cap ToSet(ss[j]) = {}
  <2>1. \A i, j \in 1 .. Len(S) : S[i] = S[j] => i = j
    BY <1>3, <1>4 DEF IsInjective
  <2>2. ASSUME NEW i \in 1 .. Len(ss), NEW j \in 1 .. Len(ss), i # j,
               NEW x, x \in ToSet(ss[i]), x \in ToSet(ss[j])
        PROVE  FALSE
    <3>1. x[1] = S[i] /\ x[1] = S[j]
      BY <1>5, <1>6, <2>2
    <3>2. QED
      BY <1>6, <2>1, <2>2, <3>1
  <2>3. QED
    BY <2>2
<1>8. /\ FlattenSeq(ss) \in Seq(Pair) /\ IsInjective(FlattenSeq(ss))
      /\ ToSet(FlattenSeq(ss)) = UNION {ToSet(ss[i]) : i \in 1 .. Len(ss)}
  <2>1. \A i \in 1 .. Len(ss) : IsInjective(ss[i])
    BY <1>5, <1>6
  <2>2. QED
    BY <1>6, <1>7, <2>1, FlattenLaw
<1>9. ToSet(FlattenSeq(ss)) = demand
  <2>1. ASSUME NEW p \in ToSet(FlattenSeq(ss)) PROVE p \in demand
    <3>1. PICK i \in 1 .. Len(S) : p \in ToSet(ss[i])
      BY <1>6, <1>8, <2>1
    <3>2. p \in Pair /\ p[1] = S[i] /\ p[2] \in unfinished[p[1]]
      BY <1>5, <3>1
    <3>3. S[i] \in ToSet(S)
      BY <1>4 DEF ToSet
    <3>4. QED
      BY <1>2, <3>2, <3>3
  <2>2. ASSUME NEW p \in demand PROVE p \in ToSet(FlattenSeq(ss))
    <3>1. PICK i \in 1 .. Len(S) : p[1] = S[i]
      BY <1>2, <1>4, <2>2 DEF ToSet
    <3>2. p \in ToSet(ss[i])
      BY <1>2, <1>5, <2>2, <3>1
    <3>3. QED
      BY <1>6, <1>8, <3>2
  <2>3. QED
    BY <2>1, <2>2
<1>10. QED
  BY <1>1, <1>8, <1>9

\* The queues after a step.
Returned(g, r) ==
    r \o RequestsOf(g, "in_decode") \o RequestsOf(g, "in_prefill") \o RequestsOf(g, "decode")
      \o RequestsOf(g, "prefill") \o RequestsOf(g, "new")
Recomputed(g, w) == Reverse(RequestsOf(g, "preempted")) \o w
SwappedOut(g, s) == s \o RequestsOf(g, "swapped_out")

LEMMA ReturnedLaw ==
    ASSUME NEW g \in Lists, NEW r \in Seq(Request)
    PROVE  /\ Returned(g, r) \in Seq(Request)
           /\ ToSet(Returned(g, r)) = ToSet(r) \cup Taken(g)
           /\ (/\ IsInjective(r)
               /\ \A k \in RunKind : IsInjective(RequestsOf(g, k)) /\ ToSet(RequestsOf(g, k)) \cap ToSet(r) = {}
               /\ \A k, l \in RunKind : k # l => ToSet(RequestsOf(g, k)) \cap ToSet(RequestsOf(g, l)) = {})
              => IsInjective(Returned(g, r))
<1> DEFINE a == RequestsOf(g, "in_decode")
           b == RequestsOf(g, "in_prefill")
           c == RequestsOf(g, "decode")
           d == RequestsOf(g, "prefill")
           e == RequestsOf(g, "new")
           Apart == /\ IsInjective(r)
                    /\ \A k \in RunKind : IsInjective(RequestsOf(g, k)) /\ ToSet(RequestsOf(g, k)) \cap ToSet(r) = {}
                    /\ \A k, l \in RunKind :
                          k # l => ToSet(RequestsOf(g, k)) \cap ToSet(RequestsOf(g, l)) = {}
<1>1. Taken(g) = ToSet(a) \cup ToSet(b) \cup ToSet(c) \cup ToSet(d) \cup ToSet(e)
  BY DEF Taken, RunKind
<1>2. /\ a \in Seq(Request) /\ b \in Seq(Request) /\ c \in Seq(Request)
      /\ d \in Seq(Request) /\ e \in Seq(Request)
  BY RequestsLaw, KindsAreNamed
<1>3. Apart => /\ IsInjective(r)
               /\ IsInjective(a) /\ IsInjective(b) /\ IsInjective(c) /\ IsInjective(d) /\ IsInjective(e)
               /\ ToSet(r) \cap ToSet(a) = {}
               /\ (ToSet(r) \cup ToSet(a)) \cap ToSet(b) = {}
               /\ (ToSet(r) \cup ToSet(a) \cup ToSet(b)) \cap ToSet(c) = {}
               /\ (ToSet(r) \cup ToSet(a) \cup ToSet(b) \cup ToSet(c)) \cap ToSet(d) = {}
               /\ (ToSet(r) \cup ToSet(a) \cup ToSet(b) \cup ToSet(c) \cup ToSet(d)) \cap ToSet(e) = {}
  <2> SUFFICES ASSUME Apart
               PROVE  /\ IsInjective(r)
                      /\ IsInjective(a) /\ IsInjective(b) /\ IsInjective(c) /\ IsInjective(d) /\ IsInjective(e)
                      /\ ToSet(r) \cap ToSet(a) = {}
                      /\ (ToSet(r) \cup ToSet(a)) \cap ToSet(b) = {}
                      /\ (ToSet(r) \cup ToSet(a) \cup ToSet(b)) \cap ToSet(c) = {}
                      /\ (ToSet(r) \cup ToSet(a) \cup ToSet(b) \cup ToSet(c)) \cap ToSet(d) = {}
                      /\ (ToSet(r) \cup ToSet(a) \cup ToSet(b) \cup ToSet(c) \cup ToSet(d)) \cap ToSet(e) = {}
    OBVIOUS
  <2>1. "new" \in RunKind /\ "prefill" \in RunKind /\ "decode" \in RunKind
        /\ "in_prefill" \in RunKind /\ "in_decode" \in RunKind
    BY KindsAreNamed
  <2>2. /\ IsInjective(r)
        /\ IsInjective(a) /\ IsInjective(b) /\ IsInjective(c) /\ IsInjective(d) /\ IsInjective(e)
    BY <2>1
  <2>3. /\ ToSet(r) \cap ToSet(a) = {} /\ ToSet(r) \cap ToSet(b) = {} /\ ToSet(r) \cap ToSet(c) = {}
        /\ ToSet(r) \cap ToSet(d) = {} /\ ToSet(r) \cap ToSet(e) = {}
    BY <2>1
  <2>4. /\ ToSet(a) \cap ToSet(b) = {} /\ ToSet(a) \cap ToSet(c) = {} /\ ToSet(a) \cap ToSet(d) = {}
        /\ ToSet(a) \cap ToSet(e) = {} /\ ToSet(b) \cap ToSet(c) = {} /\ ToSet(b) \cap ToSet(d) = {}
        /\ ToSet(b) \cap ToSet(e) = {} /\ ToSet(c) \cap ToSet(d) = {} /\ ToSet(c) \cap ToSet(e) = {}
        /\ ToSet(d) \cap ToSet(e) = {}
    BY <2>1
  <2> HIDE DEF a, b, c, d, e, Apart
  <2>5. QED
    BY <2>2, <2>3, <2>4
<1> HIDE DEF a, b, c, d, e, Apart
<1> DEFINE ra == r \o a
<1>4. ra \in Seq(Request) /\ ToSet(ra) = ToSet(r) \cup ToSet(a) /\ (Apart => IsInjective(ra))
  BY <1>2, <1>3, ConcatLaw
<1> HIDE DEF ra
<1> DEFINE rb == ra \o b
<1>5. rb \in Seq(Request) /\ ToSet(rb) = ToSet(ra) \cup ToSet(b) /\ (Apart => IsInjective(rb))
  BY <1>2, <1>3, <1>4, ConcatLaw
<1> HIDE DEF rb
<1> DEFINE rc == rb \o c
<1>6. rc \in Seq(Request) /\ ToSet(rc) = ToSet(rb) \cup ToSet(c) /\ (Apart => IsInjective(rc))
  BY <1>2, <1>3, <1>4, <1>5, ConcatLaw
<1> HIDE DEF rc
<1> DEFINE rd == rc \o d
<1>7. rd \in Seq(Request) /\ ToSet(rd) = ToSet(rc) \cup ToSet(d) /\ (Apart => IsInjective(rd))
  BY <1>2, <1>3, <1>4, <1>5, <1>6, ConcatLaw
<1> HIDE DEF rd
<1> DEFINE re == rd \o e
<1>8. re \in Seq(Request) /\ ToSet(re) = ToSet(rd) \cup ToSet(e) /\ (Apart => IsInjective(re))
  BY <1>2, <1>3, <1>4, <1>5, <1>6, <1>7, ConcatLaw
<1>9. Returned(g, r) = re
  BY DEF Returned, re, rd, rc, rb, ra, a, b, c, d, e
<1> HIDE DEF re
<1>10. QED
  BY <1>1, <1>4, <1>5, <1>6, <1>7, <1>8, <1>9 DEF Apart


LEMMA RecomputedLaw ==
    ASSUME NEW g \in Lists, NEW w \in Seq(Request)
    PROVE  /\ Recomputed(g, w) \in Seq(Request)
           /\ ToSet(Recomputed(g, w)) = ToSet(RequestsOf(g, "preempted")) \cup ToSet(w)
           /\ (/\ IsInjective(w) /\ IsInjective(RequestsOf(g, "preempted"))
               /\ ToSet(RequestsOf(g, "preempted")) \cap ToSet(w) = {})
              => IsInjective(Recomputed(g, w))
<1> DEFINE a == RequestsOf(g, "preempted")
<1>1. a \in Seq(Request)
  BY RequestsLaw, KindsAreNamed
<1> HIDE DEF a
<1> DEFINE b == Reverse(a)
<1>2. b \in Seq(Request) /\ ToSet(b) = ToSet(a) /\ (IsInjective(a) => IsInjective(b))
  BY <1>1, ReverseLaw
<1> HIDE DEF b
<1>3. /\ b \o w \in Seq(Request) /\ ToSet(b \o w) = ToSet(b) \cup ToSet(w)
      /\ IsInjective(b) /\ IsInjective(w) /\ ToSet(b) \cap ToSet(w) = {} => IsInjective(b \o w)
  BY <1>2, ConcatLaw
<1>4. Recomputed(g, w) = b \o w
  BY DEF Recomputed, a, b
<1>5. QED
  BY <1>2, <1>3, <1>4 DEF a

LEMMA SwappedOutLaw ==
    ASSUME NEW g \in Lists, NEW s \in Seq(Request)
    PROVE  /\ SwappedOut(g, s) \in Seq(Request)
           /\ ToSet(SwappedOut(g, s)) = ToSet(s) \cup ToSet(RequestsOf(g, "swapped_out"))
           /\ (/\ IsInjective(s) /\ IsInjective(RequestsOf(g, "swapped_out"))
               /\ ToSet(s) \cap ToSet(RequestsOf(g, "swapped_out")) = {})
              => IsInjective(SwappedOut(g, s))
<1> DEFINE a == RequestsOf(g, "swapped_out")
<1>1. a \in Seq(Request)
  BY RequestsLaw, KindsAreNamed
<1> HIDE DEF a
<1>2. /\ s \o a \in Seq(Request) /\ ToSet(s \o a) = ToSet(s) \cup ToSet(a)
      /\ IsInjective(s) /\ IsInjective(a) /\ ToSet(s) \cap ToSet(a) = {} => IsInjective(s \o a)
  BY <1>1, ConcatLaw
<1>3. SwappedOut(g, s) = s \o a
  BY DEF SwappedOut, a
<1>4. QED
  BY <1>2, <1>3 DEF a

\* Between steps only the queues hold requests.
LEMMA EmptyPlaces ==
    ASSUME NEW w \in Seq(Request), NEW r \in Seq(Request), NEW s \in Seq(Request)
    PROVE  LET h == InPlaces(NoGroups, w, r, s) IN
           /\ h \in [Place -> Seq(Request)]
           /\ h["waiting"] = w /\ h["running"] = r /\ h["swapped"] = s
           /\ \A k \in Kind : h[k] = <<>>
<1> DEFINE g == NoGroups
           e == InPlaces(g, w, r, s)
<1>1. g \in Lists /\ \A k \in Kind : RequestsOf(g, k) = <<>>
  BY NoGroupsLaw
<1> HIDE DEF g
<1>2. /\ e \in [Place -> Seq(Request)]
      /\ e["waiting"] = w /\ e["running"] = r /\ e["swapped"] = s
      /\ \A k \in Kind : e[k] = RequestsOf(g, k)
  BY <1>1, PlacesLaw
<1> HIDE DEF e
<1>3. /\ e \in [Place -> Seq(Request)]
      /\ e["waiting"] = w /\ e["running"] = r /\ e["swapped"] = s
      /\ \A k \in Kind : e[k] = <<>>
  BY <1>1, <1>2
<1>4. QED
  BY <1>3 DEF e, g

\* The groups of the lists return to the queues, each to one.
LEMMA ReturnLaw ==
    ASSUME NEW g \in Lists, NEW w \in Seq(Request), NEW r \in Seq(Request), NEW s \in Seq(Request),
           AllOnce(InPlaces(g, w, r, s))
    PROVE  LET h == InPlaces(NoGroups, Recomputed(g, w), Returned(g, r), SwappedOut(g, s)) IN
           /\ Recomputed(g, w) \in Seq(Request) /\ Returned(g, r) \in Seq(Request)
           /\ SwappedOut(g, s) \in Seq(Request)
           /\ AllOnce(h) /\ Members(h) = Members(InPlaces(g, w, r, s))
<1> DEFINE f == InPlaces(g, w, r, s)
           w2 == Recomputed(g, w)
           r2 == Returned(g, r)
           s2 == SwappedOut(g, s)
           h == InPlaces(NoGroups, w2, r2, s2)
<1>1. /\ f["waiting"] = w /\ f["running"] = r /\ f["swapped"] = s
      /\ \A k \in Kind : f[k] = RequestsOf(g, k)
  BY PlacesLaw
<1>2. AllOnce(f)
  OBVIOUS
<1> HIDE DEF f
<1>3. /\ \A k \in Place : IsInjective(f[k])
      /\ \A k, l \in Place : k # l => ToSet(f[k]) \cap ToSet(f[l]) = {}
  BY <1>2 DEF AllOnce
<1>4. /\ IsInjective(r)
      /\ \A k \in RunKind : IsInjective(RequestsOf(g, k)) /\ ToSet(RequestsOf(g, k)) \cap ToSet(r) = {}
      /\ \A k, l \in RunKind : k # l => ToSet(RequestsOf(g, k)) \cap ToSet(RequestsOf(g, l)) = {}
  BY <1>1, <1>3, KindsAreNamed
<1>5. r2 \in Seq(Request) /\ ToSet(r2) = ToSet(r) \cup Taken(g) /\ IsInjective(r2)
  BY <1>4, ReturnedLaw
<1>6. w2 \in Seq(Request) /\ ToSet(w2) = ToSet(f["preempted"]) \cup ToSet(f["waiting"]) /\ IsInjective(w2)
  <2>1. /\ IsInjective(w) /\ IsInjective(RequestsOf(g, "preempted"))
        /\ ToSet(RequestsOf(g, "preempted")) \cap ToSet(w) = {}
    BY <1>1, <1>3, KindsAreNamed
  <2>2. QED
    BY <1>1, <2>1, RecomputedLaw, KindsAreNamed
<1>7. s2 \in Seq(Request) /\ ToSet(s2) = ToSet(f["swapped"]) \cup ToSet(f["swapped_out"]) /\ IsInjective(s2)
  <2>1. /\ IsInjective(s) /\ IsInjective(RequestsOf(g, "swapped_out"))
        /\ ToSet(s) \cap ToSet(RequestsOf(g, "swapped_out")) = {}
    BY <1>1, <1>3, KindsAreNamed
  <2>2. QED
    BY <1>1, <2>1, SwappedOutLaw, KindsAreNamed
<1>8. \A x : x \in ToSet(r2) <=> x \in ToSet(f["running"]) \/ \E k \in RunKind : x \in ToSet(f[k])
  BY <1>1, <1>5, KindsAreNamed DEF Taken
<1> HIDE DEF w2, r2, s2
<1>9. /\ h \in [Place -> Seq(Request)]
      /\ h["waiting"] = w2 /\ h["running"] = r2 /\ h["swapped"] = s2
      /\ \A k \in Kind : h[k] = <<>>
  BY <1>5, <1>6, <1>7, EmptyPlaces
<1> HIDE DEF h
<1>10. ToSet(<<>>) = {} /\ IsInjective(<<>>)
  BY DEF ToSet, IsInjective
<1>11. \A k \in Place : IsInjective(h[k])
  BY <1>5, <1>6, <1>7, <1>9, <1>10 DEF Place
<1>12. \A k, l \in Place : k # l => ToSet(h[k]) \cap ToSet(h[l]) = {}
  <2>1. ASSUME NEW x PROVE /\ ~ (x \in ToSet(r2) /\ x \in ToSet(w2))
                           /\ ~ (x \in ToSet(r2) /\ x \in ToSet(s2))
                           /\ ~ (x \in ToSet(w2) /\ x \in ToSet(s2))
    <3>1. \A k, l \in Place : x \in ToSet(f[k]) /\ x \in ToSet(f[l]) => k = l
      BY <1>3
    <3>2. ~ (x \in ToSet(r2) /\ x \in ToSet(w2))
      BY <1>6, <1>8, <3>1, KindsAreNamed
    <3>3. ~ (x \in ToSet(r2) /\ x \in ToSet(s2))
      BY <1>7, <1>8, <3>1, KindsAreNamed
    <3>4. ~ (x \in ToSet(w2) /\ x \in ToSet(s2))
      BY <1>6, <1>7, <3>1, KindsAreNamed
    <3>5. QED
      BY <3>2, <3>3, <3>4
  <2>2. ASSUME NEW k \in Place, NEW l \in Place, k # l, NEW x, x \in ToSet(h[k]), x \in ToSet(h[l])
        PROVE  FALSE
    <3>1. k \notin Kind /\ l \notin Kind
      BY <1>9, <1>10, <2>2
    <3>2. k \in {"waiting", "running", "swapped"} /\ l \in {"waiting", "running", "swapped"}
      BY <3>1 DEF Place
    <3>3. QED
      BY <1>9, <2>1, <2>2, <3>2
  <2>3. QED
    BY <2>2
<1>13. Members(h) = Members(f)
  <2>1. ASSUME NEW x \in Members(h) PROVE x \in Members(f)
    <3>1. PICK q \in Place : x \in ToSet(h[q])
      BY <2>1 DEF Members
    <3>2. q \in {"waiting", "running", "swapped"}
      BY <1>9, <1>10, <3>1 DEF Place
    <3>3. \E k \in Place : x \in ToSet(f[k])
      BY <1>6, <1>7, <1>8, <1>9, <3>1, <3>2, KindsAreNamed
    <3>4. QED
      BY <3>3 DEF Members
  <2>2. ASSUME NEW x \in Members(f) PROVE x \in Members(h)
    <3>1. PICK q \in Place : x \in ToSet(f[q])
      BY <2>2 DEF Members
    <3>2. q \in RunKind \/ q \in {"waiting", "running", "swapped", "preempted", "swapped_out"}
      BY DEF Place, Kind
    <3>3. x \in ToSet(r2) \/ x \in ToSet(w2) \/ x \in ToSet(s2)
      BY <1>6, <1>7, <1>8, <3>1, <3>2
    <3>4. QED
      BY <1>9, <3>3, KindsAreNamed DEF Members
  <2>3. QED
    BY <2>1, <2>2
<1>14. AllOnce(h)
  BY <1>9, <1>11, <1>12 DEF AllOnce
<1>15. QED
  BY <1>5, <1>6, <1>7, <1>13, <1>14 DEF h, f, w2, r2, s2

LEMMA EndScheduleKeeps ==
    ASSUME MambaInv, EndSchedule
    PROVE  MambaInv'
<1>1. /\ phase = "waiting"
      /\ running' = running \o Requests("in_decode") \o Requests("in_prefill") \o Requests("decode")
                      \o Requests("prefill") \o Requests("new")
      /\ waiting' = Reverse(Requests("preempted")) \o waiting
      /\ swapped' = swapped \o Requests("swapped_out")
      /\ UNCHANGED <<requestVars, stepVars, steps, assigned, indices, row, fed, raised>>
  BY DEF EndSchedule
<1>2. \/ /\ Scheduled = <<>> /\ phase' = "idle" /\ delivered' = delivered /\ batch' = batch
         /\ finished_ids' \subseteq finished_ids
         /\ lost \subseteq lost' /\ lost' \subseteq lost \cup finished_ids
         /\ finished_ids \subseteq finished_ids' \cup lost'
      \/ /\ phase' = "release" /\ finished_ids' = {} /\ delivered' = finished_ids
         /\ batch' = request_ids_to_seq_ids /\ lost' = lost
  BY DEF EndSchedule
<1>3. TypeOK /\ EngineInv /\ AllOnce(held) /\ RequestInv /\ Scheduling /\ RowsApart /\ StateFollowsSequence
  BY <1>1 DEF MambaInv, EngineInv, Scheduling
<1>4. /\ n' = n /\ need' = need /\ num_seqs' = num_seqs /\ unfinished' = unfinished
      /\ groups' = groups /\ num_batched_tokens' = num_batched_tokens /\ num_curr_seqs' = num_curr_seqs
      /\ steps' = steps /\ assigned' = assigned /\ indices' = indices /\ row' = row /\ fed' = fed
      /\ raised' = raised
  BY <1>1 DEF requestVars, stepVars
<1>5. phase' \in {"idle", "release"} /\ ~ Scheduling'
  BY <1>2 DEF Scheduling
<1>6. /\ waiting' = Recomputed(groups, waiting) /\ running' = Returned(groups, running)
      /\ swapped' = SwappedOut(groups, swapped)
  BY <1>1, HeldParts, KindsAreNamed DEF Recomputed, Returned, SwappedOut
<1>7. held = InPlaces(groups, waiting, running, swapped)
  BY <1>3 DEF held, collected
<1>8. /\ groups \in Lists
      /\ waiting \in Seq(Request) /\ running \in Seq(Request) /\ swapped \in Seq(Request)
  BY <1>3, PartsTyped
<1>9. /\ waiting' \in Seq(Request) /\ running' \in Seq(Request) /\ swapped' \in Seq(Request)
      /\ AllOnce(held') /\ Members(held') = Members(held)
  <2>1. held' = InPlaces(NoGroups, waiting', running', swapped')
    BY <1>5, HeldParts DEF collected
  <2>2. QED
    BY <1>3, <1>6, <1>7, <1>8, <2>1, ReturnLaw
<1>10. /\ \A k \in RunKind : IsInjective(RequestsOf(groups, k))
       /\ \A k, l \in RunKind : k # l => ToSet(RequestsOf(groups, k)) \cap ToSet(RequestsOf(groups, l)) = {}
  <2>1. \A k \in Kind : held[k] = RequestsOf(groups, k)
    BY <1>7, <1>8, PlacesLaw
  <2>2. QED
    BY <1>3, <2>1, KindsAreNamed DEF AllOnce
<1>11. Scheduled \in Seq(Request) /\ IsInjective(Scheduled) /\ ToSet(Scheduled) = Taken(groups)
       /\ Scheduled' = Scheduled
  BY <1>4, <1>8, <1>10, JoinedLaw, HeldParts
<1>12. /\ request_ids_to_seq_ids \in Seq(Pair) /\ IsInjective(request_ids_to_seq_ids)
       /\ ToSet(request_ids_to_seq_ids) = demand
  BY <1>3, <1>11, BatchLaw
<1>13. TypeOK'
  <2>1. /\ finished_ids' \subseteq Request /\ lost' \subseteq Request /\ delivered' \subseteq Request
        /\ batch' \in Seq(Pair) /\ phase' \in Phase
    BY <1>2, <1>3, <1>12 DEF TypeOK, Phase
  <2>2. {waiting', running', swapped'} \subseteq Seq(Request)
    BY <1>9
  <2>3. QED
    BY <1>3, <1>4, <2>1, <2>2 DEF TypeOK
<1>14. RowsApart' /\ StateFollowsSequence' /\ ForkInv'
  <2>1. \A r \in Request : num_seqs[r] <= num_seqs'[r] /\ num_seqs'[r] \in Nat
    BY <1>3, <1>4 DEF TypeOK
  <2>2. ForkInv
    BY <1>3 DEF EngineInv
  <2>3. \A r \in Request : unfinished'[r] \subseteq unfinished[r] \cup {1}
    BY <1>4
  <2>4. QED
    BY <1>3, <1>4, <2>1, <2>2, <2>3, RowsFrame
<1>15. LiveInv'
  <2> DEFINE gone == lost'
  <2>1. /\ Members(held) \subseteq Members(held') \cup gone
        /\ gone \cup finished_ids \cup lost \subseteq
               finished_ids' \cup lost' \cup (IF phase' = "release" THEN delivered' ELSE {})
    BY <1>2, <1>9
  <2> HIDE DEF gone
  <2>2. LiveInv /\ phase # "release"
    BY <1>1, <1>3 DEF EngineInv
  <2>3. QED
    BY <1>4, <2>1, <2>2, LiveFrame
<1>16. RequestInv'
  <2>1. finished_ids' \cup delivered' \subseteq finished_ids \cup delivered
    BY <1>2
  <2>2. QED
    BY <1>3, <1>4, <1>9, <2>1 DEF RequestInv
<1>17. BudgetInv'
  BY <1>3, <1>4, <1>5 DEF EngineInv, BudgetInv
<1>18. demand' = demand
  BY <1>4, <1>11 DEF demand
<1>19. SeatsInv' /\ BatchInv'
  <2>1. CASE phase' = "idle"
    BY <1>5, <2>1 DEF SeatsInv, BatchInv, Working
  <2>2. CASE phase' = "release"
    <3>1. batch' = request_ids_to_seq_ids
      BY <1>2, <2>2
    <3>2. batch' \in Seq(Pair) /\ IsInjective(batch') /\ ToSet(batch') = demand
      BY <1>12, <3>1
    <3>3. Len(batch') = Cardinality(demand)
      <4> DEFINE b == batch'
      <4>1. b \in Seq(Pair) /\ IsInjective(b) /\ ToSet(b) = demand
        BY <3>2
      <4> HIDE DEF b
      <4>2. Cardinality(ToSet(b)) = Len(b)
        BY <4>1, LengthLaw
      <4>3. QED
        BY <4>1, <4>2 DEF b
    <3>4. Len(batch') <= MaxNumSeqs
      <4>1. /\ Cardinality(demand) <= num_curr_seqs /\ num_curr_seqs <= MaxNumSeqs
            /\ num_curr_seqs \in Nat
        BY <1>3 DEF EngineInv, SeatsInv, TypeOK
      <4>2. Len(batch') \in Nat /\ MaxNumSeqs \in Nat
        BY <3>2, SizesAssumption
      <4>3. QED
        BY <3>3, <4>1, <4>2
    <3>5. ToSet(Scheduled') \subseteq ToSet(running')
      <4>1. ToSet(running') = ToSet(running) \cup Taken(groups)
        BY <1>6, <1>8, ReturnedLaw
      <4>2. QED
        BY <1>11, <4>1
    <3>6. SeatsInv'
      BY <1>5, <3>4 DEF SeatsInv
    <3>7. BatchInv'
      BY <1>18, <2>2, <3>2, <3>5 DEF BatchInv
    <3>8. QED
      BY <3>6, <3>7
  <2>3. QED
    BY <1>5, <2>1, <2>2
<1>20. raised' = "no" /\ phase' # "stopped"
  BY <1>3, <1>4, <1>5 DEF EngineInv
<1>21. QED
  BY <1>9, <1>13, <1>14, <1>15, <1>16, <1>17, <1>19, <1>20 DEF MambaInv, EngineInv


----------------------------------------------------------------------------
(* The worker *)

LEMMA SeatsAreRows ==
    /\ max_batch_size \in Nat \ {0} /\ MaxNumSeqs <= max_batch_size
    /\ Row = 0 .. max_batch_size - 1 /\ Row \subseteq Nat /\ NoRow \notin Row
<1>1. MaxNumSeqs \in Nat \ {0}
  BY SizesAssumption
<1>2. /\ (MaxNumSeqs + 7) \div 8 \in Nat
      /\ MaxNumSeqs <= ((MaxNumSeqs + 7) \div 8) * 8
  BY <1>1
<1>3. max_batch_size \in Nat \ {0} /\ MaxNumSeqs <= max_batch_size
  BY <1>1, <1>2 DEF max_batch_size
<1>4. QED
  BY <1>3 DEF Row, NoRow

\* The batch while the worker has it.
LEMMA BatchParts ==
    ASSUME MambaInv, Working
    PROVE  /\ TypeOK /\ EngineInv /\ RequestInv /\ ForkInv /\ RowsApart /\ StateFollowsSequence
           /\ batch \in Seq(Pair) /\ IsInjective(batch) /\ Len(batch) <= MaxNumSeqs
           /\ \A i \in 1 .. Len(batch) : /\ batch[i] \in Pair /\ batch[i][1] \in Request
                                         /\ batch[i][2] \in unfinished[batch[i][1]]
                                         /\ batch[i][1] \notin delivered
                                         /\ batch[i][1] \in ToSet(running)
                                         /\ i - 1 \in Row
           /\ \A i, j \in 1 .. Len(batch) : batch[i] = batch[j] => i = j
           /\ ToSet(running) \subseteq Members(held)
<1>1. phase # "stopped"
  BY DEF Working
<1>2. TypeOK /\ EngineInv /\ RequestInv /\ ForkInv /\ RowsApart /\ StateFollowsSequence
  BY <1>1 DEF MambaInv, EngineInv
<1>3. batch \in Seq(Pair)
  BY <1>2 DEF TypeOK
<1>4. /\ IsInjective(batch) /\ Len(batch) <= MaxNumSeqs /\ ToSet(batch) = demand
      /\ ToSet(Scheduled) \subseteq ToSet(running)
  BY <1>2 DEF EngineInv, BatchInv, SeatsInv
<1>5. \A p \in Pair : p[1] \in Request
  BY DEF Pair
<1>6. DOMAIN batch = 1 .. Len(batch) /\ Len(batch) \in Nat
  BY <1>3
<1>7. ASSUME NEW i \in 1 .. Len(batch)
      PROVE  /\ batch[i] \in Pair /\ batch[i][1] \in Request
             /\ batch[i][2] \in unfinished[batch[i][1]]
             /\ batch[i][1] \notin delivered
             /\ batch[i][1] \in ToSet(running)
             /\ i - 1 \in Row
  <2>1. batch[i] \in demand
    BY <1>4, <1>6 DEF ToSet
  <2>2. /\ batch[i] \in Pair /\ batch[i][1] \in ToSet(Scheduled)
        /\ batch[i][2] \in unfinished[batch[i][1]]
    BY <2>1 DEF demand
  <2>3. batch[i][1] \notin delivered
    BY <1>2, <2>2 DEF RequestInv
  <2>4. i - 1 \in Row
    BY <1>4, <1>6, SeatsAreRows, SizesAssumption
  <2>5. QED
    BY <1>4, <1>5, <2>2, <2>3, <2>4
<1>8. \A i, j \in 1 .. Len(batch) : batch[i] = batch[j] => i = j
  BY <1>4, <1>6 DEF IsInjective
<1>9. ToSet(running) \subseteq Members(held)
  BY <1>2, HeldQueues, KindsAreNamed DEF Members
<1>10. QED
  BY <1>2, <1>3, <1>4, <1>7, <1>8, <1>9

\* A step of the worker: the scheduler's state stays.
LEMMA WorkerFrame ==
    ASSUME MambaInv, Working, phase' \in {"assign", "forward", "outputs"},
           UNCHANGED <<requestVars, queueVars, finished_ids, stepVars, steps, delivered, batch, lost,
                       raised>>,
           assigned' \in 0 .. Len(batch),
           phase' # "assign" => assigned' = Len(batch),
           indices' \in [Pair -> Row \cup {NoRow}],
           row' \in [Row -> Seq(Pair)], fed' \in [Pair -> Seq(Pair)],
           RowsApart', StateFollowsSequence', ForkInv',
           \A i \in 1 .. assigned' : indices'[batch[i]] = i - 1,
           \A p \in Pair : p[1] \in delivered => indices'[p] = NoRow,
           \A p \in Pair : indices'[p] # NoRow => indices[p] # NoRow \/ p \in ToSet(batch)
    PROVE  MambaInv'
<1>1. /\ TypeOK /\ EngineInv /\ RequestInv /\ AllOnce(held)
      /\ ToSet(running) \subseteq Members(held)
  BY BatchParts DEF EngineInv
<1>2. /\ n' = n /\ need' = need /\ num_seqs' = num_seqs /\ unfinished' = unfinished
      /\ waiting' = waiting /\ running' = running /\ swapped' = swapped
      /\ groups' = groups /\ num_batched_tokens' = num_batched_tokens /\ num_curr_seqs' = num_curr_seqs
      /\ finished_ids' = finished_ids /\ delivered' = delivered /\ batch' = batch
      /\ steps' = steps /\ lost' = lost /\ raised' = raised
  BY DEF requestVars, queueVars, stepVars
<1>3. ~ Scheduling /\ ~ Scheduling' /\ Working'
  BY DEF Scheduling, Working
<1>4. held' = held
  BY <1>2, <1>3, HeldParts DEF collected
<1>5. TypeOK'
  <2>1. assigned' \in Nat /\ phase' \in Phase
    BY DEF Phase
  <2>2. QED
    BY <1>1, <1>2, <2>1 DEF TypeOK
<1>6. RequestInv'
  BY <1>1, <1>2, <1>4 DEF RequestInv
<1>7. BudgetInv'
  BY <1>1, <1>2, <1>3 DEF EngineInv, BudgetInv
<1>8. Scheduled' = Scheduled /\ demand' = demand
  BY <1>2, HeldParts DEF demand
<1>9. SeatsInv'
  BY <1>1, <1>2, <1>3 DEF EngineInv, SeatsInv
<1>10. BatchInv'
  <2>1. IsInjective(batch) /\ ToSet(Scheduled) \subseteq ToSet(running) /\ ToSet(batch) = demand
    BY <1>1 DEF EngineInv, BatchInv
  <2>2. assigned' <= Len(batch)
    BY <1>1 DEF TypeOK
  <2>3. phase' # "release" /\ (phase' \in {"forward", "outputs"} => assigned' = Len(batch))
    OBVIOUS
  <2>4. QED
    BY <1>2, <1>8, <2>1, <2>2, <2>3 DEF BatchInv
<1>11. LiveInv'
  <2>1. SUFFICES ASSUME NEW p \in Pair, indices'[p] # NoRow
                 PROVE  p[1] \in Members(held) \cup finished_ids \cup lost
    BY <1>2, <1>4 DEF LiveInv
  <2>2. CASE indices[p] # NoRow
    <3>1. p[1] \notin delivered
      BY <2>1
    <3>2. QED
      BY <1>1, <2>2, <3>1 DEF EngineInv, LiveInv
  <2>3. CASE p \in ToSet(batch)
    <3>1. p[1] \in ToSet(Scheduled)
      BY <1>1, <2>3 DEF EngineInv, BatchInv, demand
    <3>2. ToSet(Scheduled) \subseteq ToSet(running)
      BY <1>1 DEF EngineInv, BatchInv
    <3>3. QED
      BY <1>1, <3>1, <3>2
  <2>4. QED
    BY <2>1, <2>2, <2>3
<1>12. raised' = "no" /\ phase' # "stopped" /\ AllOnce(held')
  BY <1>1, <1>2, <1>4 DEF EngineInv
<1>13. EngineInv'
  BY <1>6, <1>7, <1>9, <1>10, <1>11, <1>12 DEF EngineInv
<1>14. QED
  BY <1>5, <1>12, <1>13 DEF MambaInv

LEMMA ReleaseFinishedRequestsKeeps ==
    ASSUME MambaInv, ReleaseFinishedRequests
    PROVE  MambaInv'
<1> DEFINE released == {p \in Pair : p[1] \in delivered}
<1>1. /\ phase = "release" /\ phase' = "assign" /\ assigned' = 0
      /\ row' = [i \in Row |-> IF \E p \in released : indices[p] = i THEN <<>> ELSE row[i]]
      /\ indices' = [p \in Pair |-> IF p \in released THEN NoRow ELSE indices[p]]
      /\ fed' = [p \in Pair |-> IF p \in released THEN <<>> ELSE fed[p]]
      /\ UNCHANGED <<requestVars, queueVars, finished_ids, stepVars, steps, delivered, batch, lost,
                     raised>>
  BY DEF ReleaseFinishedRequests
<1>2. Working
  BY <1>1 DEF Working
<1>3. TypeOK /\ RequestInv /\ ForkInv /\ RowsApart /\ StateFollowsSequence /\ batch \in Seq(Pair)
  BY <1>2, BatchParts
<1>4. /\ indices \in [Pair -> Row \cup {NoRow}] /\ row \in [Row -> Seq(Pair)] /\ fed \in [Pair -> Seq(Pair)]
      /\ delivered \subseteq Request
  BY <1>3 DEF TypeOK
<1>5. num_seqs' = num_seqs /\ unfinished' = unfinished
  BY <1>1 DEF requestVars
<1>6. /\ indices' \in [Pair -> Row \cup {NoRow}]
      /\ row' \in [Row -> Seq(Pair)] /\ fed' \in [Pair -> Seq(Pair)]
  BY <1>1, <1>4
<1>7. \A p \in Pair : /\ p \in released => indices'[p] = NoRow /\ fed'[p] = <<>>
                      /\ p \notin released => indices'[p] = indices[p] /\ fed'[p] = fed[p]
  BY <1>1
<1>8. \A p \in Pair : p \in released <=> p[1] \in delivered
  OBVIOUS
<1>9. RowsApart'
  BY <1>3, <1>7 DEF RowsApart
<1>10. StateFollowsSequence'
  <2> SUFFICES ASSUME NEW p \in Pair, indices'[p] # NoRow PROVE row'[indices'[p]] = fed'[p]
    BY DEF StateFollowsSequence
  <2>1. p \notin released /\ indices'[p] = indices[p] /\ fed'[p] = fed[p]
    BY <1>7
  <2>2. \A q \in released : indices[q] # indices[p]
    BY <1>3, <2>1 DEF RowsApart
  <2>3. indices[p] \in Row
    BY <1>4, <2>1
  <2>4. row'[indices[p]] = row[indices[p]]
    BY <1>1, <2>2, <2>3
  <2>5. QED
    BY <1>3, <2>1, <2>4 DEF StateFollowsSequence
<1> HIDE DEF released
<1>11. \A r \in Request, s \in Seqs : <<r, s>> \in Pair /\ <<r, s>>[1] = r /\ <<r, 1>> \in Pair
  BY SizesAssumption DEF Pair, Seqs
<1>12. ForkInv'
  <2>1. ASSUME NEW r \in Request, NEW s \in Seqs, indices'[<<r, s>>] # NoRow
        PROVE  indices'[<<r, 1>>] # NoRow /\ s <= num_seqs[r]
    <3>1. r \notin delivered /\ indices[<<r, s>>] # NoRow
      BY <1>7, <1>8, <1>11, <2>1
    <3>2. indices[<<r, 1>>] # NoRow /\ s <= num_seqs[r]
      BY <1>3, <3>1 DEF ForkInv
    <3>3. <<r, 1>> \in Pair /\ <<r, 1>> \notin released
      BY <1>8, <1>11, <3>1
    <3>4. QED
      BY <1>7, <3>2, <3>3
  <2>2. ASSUME NEW r \in Request, indices'[<<r, 1>>] = NoRow
        PROVE  unfinished[r] \subseteq {1} /\ \A s \in Seqs : fed'[<<r, s>>] = <<>>
    <3>1. CASE r \in delivered
      <4>1. unfinished[r] = {}
        BY <1>3, <3>1 DEF RequestInv
      <4>2. \A s \in Seqs : fed'[<<r, s>>] = <<>>
        BY <1>7, <1>8, <1>11, <3>1
      <4>3. QED
        BY <4>1, <4>2
    <3>2. CASE r \notin delivered
      <4>1. \A s \in Seqs : <<r, s>> \in Pair /\ <<r, s>> \notin released
        BY <1>8, <1>11, <3>2
      <4>2. 1 \in Seqs
        BY SizesAssumption DEF Seqs
      <4>3. indices[<<r, 1>>] = NoRow
        BY <1>7, <2>2, <4>1, <4>2
      <4>4. unfinished[r] \subseteq {1} /\ \A s \in Seqs : fed[<<r, s>>] = <<>>
        BY <1>3, <4>3 DEF ForkInv
      <4>5. QED
        BY <1>7, <4>1, <4>4
    <3>3. QED
      BY <3>1, <3>2
  <2>3. ASSUME NEW r \in Request, NEW s \in Seqs, s \in unfinished[r], indices'[<<r, s>>] = NoRow
        PROVE  fed'[<<r, s>>] = fed'[<<r, 1>>]
    <3>1. r \notin delivered
      BY <1>3, <2>3 DEF RequestInv
    <3>2. <<r, s>> \notin released /\ <<r, 1>> \notin released
      BY <1>8, <1>11, <3>1
    <3>3. indices[<<r, s>>] = NoRow
      BY <1>7, <1>11, <2>3, <3>2
    <3>4. fed[<<r, s>>] = fed[<<r, 1>>]
      BY <1>3, <2>3, <3>3 DEF ForkInv
    <3>5. QED
      BY <1>7, <1>11, <3>2, <3>4
  <2>4. QED
    BY <1>5, <2>1, <2>2, <2>3 DEF ForkInv
<1>13. assigned' \in 0 .. Len(batch) /\ \A i \in 1 .. assigned' : indices'[batch[i]] = i - 1
  BY <1>1, <1>3
<1>14. /\ \A p \in Pair : p[1] \in delivered => indices'[p] = NoRow
       /\ \A p \in Pair : indices'[p] # NoRow => indices[p] # NoRow \/ p \in ToSet(batch)
  BY <1>7, <1>8
<1>15. phase' \in {"assign", "forward", "outputs"} /\ (phase' # "assign" => assigned' = Len(batch))
  BY <1>1
<1>16. UNCHANGED <<requestVars, queueVars, finished_ids, stepVars, steps, delivered, batch, lost,
                   raised>>
  BY <1>1
<1>17. QED
  BY <1>2, <1>6, <1>9, <1>10, <1>12, <1>13, <1>14, <1>15, <1>16, WorkerFrame


\* The state of the assignment.
LEMMA AssignParts ==
    ASSUME MambaInv, Assigning
    PROVE  /\ TypeOK /\ EngineInv /\ RequestInv /\ ForkInv /\ RowsApart /\ StateFollowsSequence
           /\ Working /\ phase = "assign"
           /\ assigned' = assigned + 1 /\ assigned' \in 0 .. Len(batch) /\ destination = assigned
           /\ assigned + 1 \in 1 .. Len(batch) /\ current = batch[assigned + 1]
           /\ destination \in Row /\ current \in Pair /\ current \in ToSet(batch)
           /\ current[1] \in Request /\ current[2] \in unfinished[current[1]]
           /\ current[1] \notin delivered
           /\ \A i \in 1 .. assigned : /\ indices[batch[i]] = i - 1 /\ i - 1 # destination
                                       /\ batch[i] \in Pair /\ batch[i] # current
           /\ \A p \in Pair : p[1] \in delivered => indices[p] = NoRow
           /\ UNCHANGED <<requestVars, queueVars, finished_ids, stepVars, steps, delivered, batch, fed, lost>>
<1>1. /\ phase = "assign" /\ assigned < Len(batch) /\ assigned' = assigned + 1
      /\ UNCHANGED <<requestVars, queueVars, finished_ids, stepVars, steps, delivered, batch, fed, lost>>
  BY DEF Assigning
<1>2. Working
  BY <1>1 DEF Working
<1>3. /\ TypeOK /\ EngineInv /\ RequestInv /\ ForkInv /\ RowsApart /\ StateFollowsSequence
      /\ batch \in Seq(Pair)
      /\ \A i \in 1 .. Len(batch) : /\ batch[i] \in Pair /\ batch[i][1] \in Request
                                    /\ batch[i][2] \in unfinished[batch[i][1]]
                                    /\ batch[i][1] \notin delivered
                                    /\ i - 1 \in Row
      /\ \A i, j \in 1 .. Len(batch) : batch[i] = batch[j] => i = j
  BY <1>2, BatchParts
<1>4. assigned \in Nat /\ Len(batch) \in Nat /\ assigned + 1 \in 1 .. Len(batch)
      /\ assigned' \in 0 .. Len(batch)
  BY <1>1, <1>3 DEF TypeOK
<1>5. destination = assigned /\ current = batch[assigned + 1]
  BY DEF destination, current
<1>6. destination \in Row
  <2>1. (assigned + 1) - 1 \in Row
    BY <1>3, <1>4
  <2>2. (assigned + 1) - 1 = assigned
    BY <1>4
  <2>3. QED
    BY <1>5, <2>1, <2>2
<1>7. current \in ToSet(batch)
  BY <1>3, <1>4, <1>5 DEF ToSet
<1>8. ASSUME NEW i \in 1 .. assigned
      PROVE  /\ indices[batch[i]] = i - 1 /\ i - 1 # destination
             /\ batch[i] \in Pair /\ batch[i] # current
  <2>1. i \in 1 .. Len(batch) /\ i # assigned + 1 /\ i - 1 # assigned
    BY <1>4
  <2>2. indices[batch[i]] = i - 1
    BY <1>1, <1>2, <1>3 DEF EngineInv, BatchInv
  <2>3. QED
    BY <1>3, <1>4, <1>5, <2>1, <2>2
<1>9. \A p \in Pair : p[1] \in delivered => indices[p] = NoRow
  BY <1>1, <1>2, <1>3 DEF EngineInv, BatchInv
<1>10. QED
  BY <1>1, <1>2, <1>3, <1>4, <1>5, <1>6, <1>7, <1>8, <1>9

LEMMA OccupiedLaw ==
    ASSUME TypeOK
    PROVE  /\ \A i \in Row : i \in occupied <=> \E p \in Pair : indices[p] = i
           /\ occupied \subseteq Row
           /\ free_rows \subseteq Row
           /\ \A p \in Pair : indices[p] \notin free_rows
<1>1. indices \in [Pair -> Row \cup {NoRow}] /\ NoRow \notin Row
  BY SeatsAreRows DEF TypeOK
<1>2. QED
  BY <1>1 DEF occupied, free_rows

LEMMA FreeLaw ==
    ASSUME free_rows # {}
    PROVE  first_free_index \in free_rows
<1>1. free_rows \subseteq Nat
  BY SeatsAreRows DEF free_rows
<1> DEFINE S == free_rows
<1> HIDE DEF S
<1>2. \E m \in S : \A k \in S : m <= k
  BY <1>1, NatMinimum DEF S
<1>3. Min(S) \in S
  BY <1>2 DEF Min
<1>4. QED
  BY <1>3 DEF first_free_index, S

\* Assigning a row fails only when sequences outside the batch hold rows.
LEMMA AssignRaisesKeeps ==
    ASSUME MambaInv, AssignRaises
    PROVE  MambaInv'
<1>1. Assigning /\ assign_raises # "no" /\ phase' = "stopped" /\ raised' = assign_raises
      /\ indices' = indices /\ row' = row
  BY DEF AssignRaises
<1>2. /\ TypeOK /\ EngineInv /\ RowsApart /\ StateFollowsSequence /\ Working /\ phase = "assign"
      /\ destination \in Row /\ current \in Pair /\ current \in ToSet(batch)
      /\ assigned' \in 0 .. Len(batch)
      /\ UNCHANGED <<requestVars, queueVars, finished_ids, stepVars, steps, delivered, batch, fed, lost>>
  BY <1>1, AssignParts
<1>3. indices[current] = NoRow /\ free_rows = {} /\ raised' = "out_of_rows"
  BY <1>1, <1>2 DEF assign_raises
<1>4. /\ n' = n /\ need' = need /\ num_seqs' = num_seqs /\ unfinished' = unfinished
      /\ waiting' = waiting /\ running' = running /\ swapped' = swapped
      /\ groups' = groups /\ num_batched_tokens' = num_batched_tokens /\ num_curr_seqs' = num_curr_seqs
      /\ finished_ids' = finished_ids /\ delivered' = delivered /\ batch' = batch
      /\ steps' = steps /\ lost' = lost /\ fed' = fed
  BY <1>2 DEF requestVars, queueVars, stepVars
<1>5. TypeOK'
  <2>1. assigned' \in Nat /\ phase' \in Phase
        /\ raised' \in {"no", "over_budget", "over_seats", "index_error", "out_of_rows", "swap_indices"}
    BY <1>1, <1>2, <1>3 DEF Phase
  <2>2. QED
    BY <1>1, <1>2, <1>4, <2>1 DEF TypeOK
<1>6. RowsApart' /\ StateFollowsSequence'
  BY <1>1, <1>2, <1>4 DEF RowsApart, StateFollowsSequence
<1>7. MappedIsLive'
  <2>1. MappedIsLive
    BY <1>2, LiveIsLive
  <2>2. \A k \in Kind : ToSet(Requests(k)') = ToSet(Requests(k))
    BY <1>4, HeldParts
  <2>3. ASSUME NEW p \in Pair, indices[p] # NoRow
        PROVE  p[1] \in ToSet(waiting \o running \o swapped)
                           \cup (UNION {ToSet(Requests(k)) : k \in Kind})
                           \cup finished_ids \cup lost
    BY <1>2, <2>1, <2>3 DEF MappedIsLive
  <2>4. ASSUME NEW p \in Pair, indices'[p] # NoRow
        PROVE  p[1] \in ToSet(waiting' \o running' \o swapped')
                           \cup (UNION {ToSet(Requests(k)') : k \in Kind})
                           \cup finished_ids' \cup lost'
    BY <1>1, <1>4, <2>2, <2>3, <2>4
  <2>5. QED
    BY <2>4 DEF MappedIsLive
<1>8. \E p \in Pair : indices[p] # NoRow /\ p \notin ToSet(batch)
  <2> SUFFICES ASSUME \A p \in Pair : indices[p] # NoRow => p \in ToSet(batch) PROVE FALSE
    OBVIOUS
  <2> DEFINE others == ToSet(batch) \ {current}
             f == [i \in Row |-> CHOOSE p \in Pair : indices[p] = i]
  <2>1. \A i \in Row : i \in occupied
    BY <1>3 DEF free_rows
  <2>2. \A i \in Row : \E p \in Pair : indices[p] = i
    BY <1>2, <2>1, OccupiedLaw
  <2>3. \A i \in Row : f[i] \in Pair /\ indices[f[i]] = i
    BY <2>2
  <2>4. f = [i \in Row |-> f[i]]
    OBVIOUS
  <2> HIDE DEF f
  <2>5. \A i \in Row : f[i] \in others
    BY <1>3, <2>3, SeatsAreRows
  <2>6. f \in Injection(Row, others)
    BY <2>3, <2>4, <2>5 DEF Injection, IsInjective
  <2>7. IsFiniteSet(ToSet(batch)) /\ Cardinality(ToSet(batch)) = Len(batch) /\ Len(batch) <= MaxNumSeqs
        /\ Len(batch) \in Nat
    BY <1>2, BatchParts, LengthLaw
  <2>8. IsFiniteSet(others) /\ Cardinality(others) = Len(batch) - 1
    BY <1>2, <2>7, FS_RemoveElement
  <2> HIDE DEF others
  <2>9. Cardinality(Row) <= Cardinality(others)
    BY <2>6, <2>8, FS_Injection
  <2>10. Cardinality(Row) = max_batch_size
    <3>1. max_batch_size \in Nat \ {0} /\ Row = 0 .. max_batch_size - 1
      BY SeatsAreRows
    <3> DEFINE m == max_batch_size - 1
    <3>2. m \in Nat /\ Row = 0 .. m /\ max_batch_size = m + 1
      BY <3>1
    <3> HIDE DEF m
    <3>3. Cardinality(0 .. m) = IF 0 > m THEN 0 ELSE m - 0 + 1
      BY <3>2, FS_Interval
    <3>4. QED
      BY <3>2, <3>3
  <2>11. QED
    BY <2>7, <2>8, <2>9, <2>10, SeatsAreRows, SizesAssumption
<1>9. RowsSufficeForBatch'
  BY <1>1, <1>3, <1>4, <1>8 DEF RowsSufficeForBatch
<1>10. QED
  BY <1>1, <1>5, <1>6, <1>7, <1>9 DEF MambaInv


\* The mapping and the rows once nobody is left in row d.
Vacates(mi, mr, d) ==
    /\ mi \in [Pair -> Row \cup {NoRow}] /\ mr \in [Row -> Seq(Pair)]
    /\ \A p \in Pair : /\ mi[p] # d
                       /\ mi[p] = NoRow <=> indices[p] = NoRow
                       /\ indices[p] # d => mi[p] = indices[p]
                       /\ mi[p] # NoRow => mr[mi[p]] = fed[p]
    /\ \A p, q \in Pair : mi[p] # NoRow /\ mi[p] = mi[q] => p = q

LEMMA MoveOutLaw ==
    ASSUME TypeOK, RowsApart, StateFollowsSequence, NEW d \in Row,
           d \in occupied => free_rows # {}
    PROVE  Vacates(moved_indices(d), moved_row(d), d)
<1>1. indices \in [Pair -> Row \cup {NoRow}] /\ row \in [Row -> Seq(Pair)] /\ NoRow \notin Row
  BY SeatsAreRows DEF TypeOK
<1>2. \A p \in Pair : indices[p] # NoRow => row[indices[p]] = fed[p]
  BY DEF StateFollowsSequence
<1>3. \A p, q \in Pair : indices[p] # NoRow /\ indices[p] = indices[q] => p = q
  BY DEF RowsApart
<1>4. CASE d \notin occupied
  <2>1. moved_indices(d) = indices /\ moved_row(d) = row
    BY <1>4 DEF moved_indices, moved_row
  <2>2. \A p \in Pair : indices[p] # d
    BY <1>4, OccupiedLaw
  <2>3. QED
    BY <1>1, <1>2, <1>3, <2>1, <2>2 DEF Vacates
<1>5. CASE d \in occupied
  <2> DEFINE e == first_free_index
             mi == moved_indices(d)
             mr == moved_row(d)
  <2>1. e \in free_rows /\ e \in Row
    BY <1>5, FreeLaw, OccupiedLaw
  <2>2. \A p \in Pair : indices[p] # e
    BY <2>1, OccupiedLaw
  <2>3. mi = [p \in Pair |-> IF indices[p] = d THEN e ELSE indices[p]]
    BY <1>5 DEF moved_indices
  <2>4. mr = [row EXCEPT ![e] = row[d]]
    BY <1>5 DEF moved_row
  <2>5. e # d
    BY <1>5, <2>2, OccupiedLaw
  <2> HIDE DEF e, mi, mr
  <2>6. mi \in [Pair -> Row \cup {NoRow}] /\ mr \in [Row -> Seq(Pair)]
    BY <1>1, <2>1, <2>3, <2>4
  <2>7. /\ mr[e] = row[d] /\ \A i \in Row : i # e => mr[i] = row[i]
        /\ \A p \in Pair : mi[p] = IF indices[p] = d THEN e ELSE indices[p]
    BY <1>1, <2>1, <2>3, <2>4
  <2>8. ASSUME NEW p \in Pair
        PROVE  /\ mi[p] # d
               /\ mi[p] = NoRow <=> indices[p] = NoRow
               /\ indices[p] # d => mi[p] = indices[p]
               /\ mi[p] # NoRow => mr[mi[p]] = fed[p]
    <3>1. indices[p] \in Row \cup {NoRow} /\ indices[p] # e
      BY <1>1, <2>2
    <3>2. mi[p] = IF indices[p] = d THEN e ELSE indices[p]
      BY <2>7
    <3>3. mi[p] # NoRow => mr[mi[p]] = fed[p]
      BY <1>1, <1>2, <2>1, <2>7, <3>1, <3>2
    <3>4. QED
      BY <1>1, <2>1, <2>5, <3>1, <3>2, <3>3
  <2>9. \A p, q \in Pair : mi[p] # NoRow /\ mi[p] = mi[q] => p = q
    BY <1>1, <1>3, <2>2, <2>7
  <2>10. QED
    BY <2>6, <2>8, <2>9 DEF Vacates, mi, mr
<1>6. QED
  BY <1>4, <1>5

\* A sequence of the batch that had no row gets the vacated one, with its state in it.
LEMMA MapLaw ==
    ASSUME MambaInv, Assigning, UNCHANGED <<phase, raised>>, indices[current] = NoRow,
           NEW mi, NEW mr, Vacates(mi, mr, destination),
           row' = [mr EXCEPT ![destination] = fed[current]],
           indices' = [mi EXCEPT ![current] = destination],
           current[2] = 1 \/ indices[<<current[1], 1>>] # NoRow
    PROVE  MambaInv'
<1> DEFINE c == current
           d == destination
<1>1. /\ TypeOK /\ EngineInv /\ RequestInv /\ ForkInv /\ RowsApart /\ StateFollowsSequence
      /\ Working /\ phase = "assign"
      /\ assigned' = assigned + 1 /\ assigned' \in 0 .. Len(batch) /\ d = assigned
      /\ assigned + 1 \in 1 .. Len(batch) /\ c = batch[assigned + 1]
      /\ d \in Row /\ c \in Pair /\ c \in ToSet(batch)
      /\ c[1] \in Request /\ c[2] \in unfinished[c[1]]
      /\ c[1] \notin delivered
      /\ \A i \in 1 .. assigned : /\ indices[batch[i]] = i - 1 /\ i - 1 # d
                                  /\ batch[i] \in Pair /\ batch[i] # c
      /\ \A p \in Pair : p[1] \in delivered => indices[p] = NoRow
      /\ UNCHANGED <<requestVars, queueVars, finished_ids, stepVars, steps, delivered, batch, fed, lost>>
  BY AssignParts
<1>2. /\ indices[c] = NoRow /\ row' = [mr EXCEPT ![d] = fed[c]] /\ indices' = [mi EXCEPT ![c] = d]
      /\ c[2] = 1 \/ indices[<<c[1], 1>>] # NoRow
  OBVIOUS
<1>3. /\ mi \in [Pair -> Row \cup {NoRow}] /\ mr \in [Row -> Seq(Pair)]
      /\ \A p \in Pair : /\ mi[p] # d
                         /\ mi[p] = NoRow <=> indices[p] = NoRow
                         /\ indices[p] # d => mi[p] = indices[p]
                         /\ mi[p] # NoRow => mr[mi[p]] = fed[p]
      /\ \A p, q \in Pair : mi[p] # NoRow /\ mi[p] = mi[q] => p = q
  BY DEF Vacates
<1> HIDE DEF c, d
<1>4. fed \in [Pair -> Seq(Pair)] /\ fed' = fed /\ num_seqs' = num_seqs /\ unfinished' = unfinished
      /\ NoRow \notin Row
  BY <1>1, SeatsAreRows DEF TypeOK, requestVars
<1>5. indices' \in [Pair -> Row \cup {NoRow}] /\ row' \in [Row -> Seq(Pair)] /\ fed' \in [Pair -> Seq(Pair)]
  BY <1>1, <1>2, <1>3, <1>4
<1>6. /\ indices'[c] = d /\ \A p \in Pair : p # c => indices'[p] = mi[p]
      /\ row'[d] = fed[c] /\ \A i \in Row : i # d => row'[i] = mr[i]
  BY <1>1, <1>2, <1>3
<1>7. \A p \in Pair : p # c => (indices'[p] = NoRow <=> indices[p] = NoRow)
  BY <1>3, <1>6
<1>8. d # NoRow
  BY <1>1, <1>4
<1>9. RowsApart'
  <2> SUFFICES ASSUME NEW p \in Pair, NEW q \in Pair, indices'[p] # NoRow, indices'[p] = indices'[q]
               PROVE  p = q
    BY DEF RowsApart
  <2>1. CASE p = c \/ q = c
    BY <1>3, <1>6, <2>1
  <2>2. CASE p # c /\ q # c
    BY <1>3, <1>6, <2>2
  <2>3. QED
    BY <2>1, <2>2
<1>10. StateFollowsSequence'
  <2> SUFFICES ASSUME NEW p \in Pair, indices'[p] # NoRow PROVE row'[indices'[p]] = fed[p]
    BY <1>4 DEF StateFollowsSequence
  <2>1. CASE p = c
    BY <1>6, <2>1
  <2>2. CASE p # c
    <3>1. indices'[p] = mi[p] /\ mi[p] # d /\ mi[p] \in Row
      BY <1>3, <1>6, <2>2
    <3>2. QED
      BY <1>3, <1>6, <3>1
  <2>3. QED
    BY <2>1, <2>2
<1>11. 1 \in Seqs /\ \A r \in Request, s \in Seqs : <<r, s>> \in Pair
  BY SizesAssumption DEF Pair, Seqs
<1>12. c = <<c[1], c[2]>>
  BY <1>1 DEF Pair
<1>13. ForkInv'
  <2>1. ASSUME NEW r \in Request, NEW s \in Seqs, indices'[<<r, s>>] # NoRow
        PROVE  indices'[<<r, 1>>] # NoRow /\ s <= num_seqs[r]
    <3>1. CASE <<r, s>> = c
      <4>1. r = c[1] /\ s = c[2] /\ s \in unfinished[r]
        BY <1>1, <3>1
      <4>2. s <= num_seqs[r]
        <5>1. unfinished[r] \subseteq 1 .. num_seqs[r]
          BY <1>1 DEF TypeOK
        <5>2. QED
          BY <4>1, <5>1
      <4>3. CASE s = 1
        BY <2>1, <4>2, <4>3
      <4>4. CASE s # 1
        <5>1. indices[<<r, 1>>] # NoRow /\ <<r, 1>> # c
          BY <1>2, <4>1, <4>4
        <5>2. QED
          BY <1>7, <1>11, <4>2, <5>1
      <4>5. QED
        BY <4>3, <4>4
    <3>2. CASE <<r, s>> # c
      <4>1. indices[<<r, s>>] # NoRow
        BY <1>7, <1>11, <2>1, <3>2
      <4>2. indices[<<r, 1>>] # NoRow /\ s <= num_seqs[r]
        BY <1>1, <4>1 DEF ForkInv
      <4>3. <<r, 1>> # c
        BY <1>2, <4>2
      <4>4. QED
        BY <1>7, <1>11, <4>2, <4>3
    <3>3. QED
      BY <3>1, <3>2
  <2>2. ASSUME NEW r \in Request, indices'[<<r, 1>>] = NoRow
        PROVE  unfinished[r] \subseteq {1} /\ \A s \in Seqs : fed[<<r, s>>] = <<>>
    <3>1. <<r, 1>> # c
      BY <1>6, <1>8, <2>2
    <3>2. indices[<<r, 1>>] = NoRow
      BY <1>7, <1>11, <2>2, <3>1
    <3>3. QED
      BY <1>1, <3>2 DEF ForkInv
  <2>3. ASSUME NEW r \in Request, NEW s \in Seqs, s \in unfinished[r], indices'[<<r, s>>] = NoRow
        PROVE  fed[<<r, s>>] = fed[<<r, 1>>]
    <3>1. <<r, s>> # c
      BY <1>6, <1>8, <2>3
    <3>2. indices[<<r, s>>] = NoRow
      BY <1>7, <1>11, <2>3, <3>1
    <3>3. QED
      BY <1>1, <2>3, <3>2 DEF ForkInv
  <2>4. QED
    BY <1>4, <2>1, <2>2, <2>3 DEF ForkInv
<1>14. ASSUME NEW i \in 1 .. assigned' PROVE indices'[batch[i]] = i - 1
  <2>1. CASE i \in 1 .. assigned
    <3>1. indices[batch[i]] = i - 1 /\ i - 1 # d /\ batch[i] \in Pair /\ batch[i] # c
      BY <1>1, <2>1
    <3>2. QED
      BY <1>3, <1>6, <3>1
  <2>2. assigned \in Nat
    BY <1>1 DEF TypeOK
  <2>3. CASE i = assigned + 1
    BY <1>1, <1>6, <2>2, <2>3
  <2>4. QED
    BY <1>1, <2>1, <2>2, <2>3
<1>15. \A p \in Pair : p[1] \in delivered => indices'[p] = NoRow
  BY <1>1, <1>7
<1>16. \A p \in Pair : indices'[p] # NoRow => indices[p] # NoRow \/ p \in ToSet(batch)
  BY <1>1, <1>7
<1>17. phase' \in {"assign", "forward", "outputs"} /\ phase' = "assign"
  BY <1>1
<1>18. UNCHANGED <<requestVars, queueVars, finished_ids, stepVars, steps, delivered, batch, lost,
                   raised>>
  BY <1>1
<1>19. QED
  BY <1>1, <1>5, <1>9, <1>10, <1>13, <1>14, <1>15, <1>16, <1>17, <1>18, WorkerFrame


LEMMA AssignNewRequestKeeps ==
    ASSUME MambaInv, AssignNewRequest
    PROVE  MambaInv'
<1> DEFINE mi == moved_indices(destination)
           mr == moved_row(destination)
<1>1. /\ Assigning /\ assign_raises = "no" /\ UNCHANGED <<phase, raised>>
      /\ ~ holds_row(current[1])
      /\ row' = [mr EXCEPT ![destination] = <<>>]
      /\ indices' = [mi EXCEPT ![current] = destination]
  BY DEF AssignNewRequest, Assigns
<1>2. /\ TypeOK /\ ForkInv /\ RowsApart /\ StateFollowsSequence
      /\ destination \in Row /\ current \in Pair /\ current[1] \in Request
      /\ current[2] \in unfinished[current[1]]
  BY <1>1, AssignParts
<1>3. \A s \in Seqs : indices[<<current[1], s>>] = NoRow
  BY <1>1 DEF holds_row
<1>4. 1 \in Seqs /\ current[2] \in Seqs /\ current = <<current[1], current[2]>>
  BY <1>2, SizesAssumption DEF Pair, Seqs
<1>5. indices[current] = NoRow
  <2> DEFINE s == current[2]
  <2>1. s \in Seqs /\ current = <<current[1], s>>
    BY <1>4
  <2> HIDE DEF s
  <2>2. QED
    BY <1>3, <2>1
<1>6. fed[current] = <<>> /\ current[2] = 1
  <2> DEFINE s == current[2]
             r == current[1]
  <2>1. s \in Seqs /\ current = <<r, s>> /\ r \in Request /\ s \in unfinished[r]
    BY <1>2, <1>4
  <2>2. indices[<<r, 1>>] = NoRow
    BY <1>3, <1>4
  <2> HIDE DEF s, r
  <2>3. unfinished[r] \subseteq {1} /\ \A t \in Seqs : fed[<<r, t>>] = <<>>
    BY <1>2, <2>1, <2>2 DEF ForkInv
  <2>4. QED
    BY <2>1, <2>3 DEF s
<1>7. Vacates(mi, mr, destination)
  <2> DEFINE d == destination
  <2>1. d \in Row /\ (d \in occupied => free_rows # {})
    BY <1>1, <1>2, <1>5 DEF assign_raises
  <2> HIDE DEF d
  <2>2. Vacates(moved_indices(d), moved_row(d), d)
    BY <1>2, <2>1, MoveOutLaw
  <2>3. QED
    BY <2>2 DEF d
<1> HIDE DEF mi, mr
<1>8. row' = [mr EXCEPT ![destination] = fed[current]]
  BY <1>1, <1>6
<1>9. QED
  BY <1>1, <1>5, <1>6, <1>7, <1>8, MapLaw

LEMMA AssignSiblingKeeps ==
    ASSUME MambaInv, AssignSibling
    PROVE  MambaInv'
<1> DEFINE mi == moved_indices(destination)
           mr == moved_row(destination)
           r == current[1]
           s == current[2]
<1>1. /\ Assigning /\ assign_raises = "no" /\ UNCHANGED <<phase, raised>>
      /\ holds_row(r) /\ indices[current] = NoRow
      /\ row' = [mr EXCEPT ![destination] = mr[mi[<<r, 1>>]]]
      /\ indices' = [mi EXCEPT ![current] = destination]
  BY DEF AssignSibling, Assigns, row_with_sibling, first_index
<1>2. /\ TypeOK /\ ForkInv /\ RowsApart /\ StateFollowsSequence
      /\ destination \in Row /\ current \in Pair /\ r \in Request /\ s \in unfinished[r]
  BY <1>1, AssignParts
<1>3. 1 \in Seqs /\ s \in Seqs /\ current = <<r, s>> /\ <<r, 1>> \in Pair
  BY <1>2, SizesAssumption DEF Pair, Seqs
<1>4. PICK t \in Seqs : indices[<<r, t>>] # NoRow
  BY <1>1 DEF holds_row
<1>5. Vacates(mi, mr, destination)
  <2> DEFINE d == destination
  <2>1. d \in Row /\ (d \in occupied => free_rows # {})
    BY <1>1, <1>2 DEF assign_raises
  <2> HIDE DEF d
  <2>2. Vacates(moved_indices(d), moved_row(d), d)
    BY <1>2, <2>1, MoveOutLaw
  <2>3. QED
    BY <2>2 DEF d
<1> HIDE DEF mi, mr, r, s
<1>6. indices[<<r, 1>>] # NoRow
  BY <1>2, <1>4 DEF ForkInv
<1>7. fed[current] = fed[<<r, 1>>]
  BY <1>1, <1>2, <1>3 DEF ForkInv
<1>8. mr[mi[<<r, 1>>]] = fed[<<r, 1>>]
  BY <1>3, <1>5, <1>6 DEF Vacates
<1>9. row' = [mr EXCEPT ![destination] = fed[current]]
  BY <1>1, <1>7, <1>8
<1>10. current[2] = 1 \/ indices[<<current[1], 1>>] # NoRow
  BY <1>6 DEF r
<1>11. QED
  BY <1>1, <1>5, <1>9, <1>10, MapLaw

LEMMA AssignKnownKeeps ==
    ASSUME MambaInv, AssignKnown
    PROVE  MambaInv'
<1> DEFINE c == current
           d == destination
           f == indices[current]
<1>1. Assigning /\ UNCHANGED <<phase, raised>>
  BY DEF AssignKnown
<1>2. /\ TypeOK /\ EngineInv /\ RequestInv /\ ForkInv /\ RowsApart /\ StateFollowsSequence
      /\ Working /\ phase = "assign"
      /\ assigned' = assigned + 1 /\ assigned' \in 0 .. Len(batch) /\ d = assigned
      /\ assigned + 1 \in 1 .. Len(batch) /\ c = batch[assigned + 1]
      /\ d \in Row /\ c \in Pair /\ c \in ToSet(batch)
      /\ c[1] \in Request /\ c[2] \in unfinished[c[1]]
      /\ c[1] \notin delivered
      /\ \A i \in 1 .. assigned : /\ indices[batch[i]] = i - 1 /\ i - 1 # d
                                  /\ batch[i] \in Pair /\ batch[i] # c
      /\ \A p \in Pair : p[1] \in delivered => indices[p] = NoRow
      /\ UNCHANGED <<requestVars, queueVars, finished_ids, stepVars, steps, delivered, batch, fed, lost>>
  BY <1>1, AssignParts
<1>3. /\ f # NoRow
      /\ row' = [row EXCEPT ![f] = row[d], ![d] = row[f]]
      /\ indices' = [p \in Pair |-> CASE indices[p] = f -> d
                                      [] indices[p] = d -> f
                                      [] OTHER -> indices[p]]
  BY <1>2 DEF AssignKnown, swapped_row, swapped_indices
<1>4. indices \in [Pair -> Row \cup {NoRow}] /\ row \in [Row -> Seq(Pair)] /\ fed \in [Pair -> Seq(Pair)]
      /\ NoRow \notin Row /\ f = indices[c]
  BY <1>2, SeatsAreRows DEF TypeOK
<1>5. fed' = fed /\ num_seqs' = num_seqs /\ unfinished' = unfinished
  BY <1>2 DEF requestVars
<1> HIDE DEF c, d, f
<1>6. f \in Row /\ d # NoRow
  BY <1>2, <1>3, <1>4
<1>7. \A p \in Pair : indices'[p] = IF indices[p] = f THEN d ELSE IF indices[p] = d THEN f ELSE indices[p]
  BY <1>3
<1>8. row'[d] = row[f] /\ row'[f] = row[d] /\ \A i \in Row : i # d /\ i # f => row'[i] = row[i]
  BY <1>2, <1>3, <1>4, <1>6
<1>9. indices' \in [Pair -> Row \cup {NoRow}] /\ row' \in [Row -> Seq(Pair)] /\ fed' \in [Pair -> Seq(Pair)]
  <2>1. \A p \in Pair : indices'[p] \in Row \cup {NoRow}
    BY <1>2, <1>4, <1>6, <1>7
  <2>2. indices' \in [Pair -> Row \cup {NoRow}]
    BY <1>3, <2>1
  <2>3. QED
    BY <1>2, <1>3, <1>4, <1>5, <1>6, <2>2
<1>10. \A p \in Pair : indices'[p] = NoRow <=> indices[p] = NoRow
  BY <1>3, <1>6, <1>7
<1>11. RowsApart'
  <2>1. \A p, q \in Pair : indices[p] # NoRow /\ indices[p] = indices[q] => p = q
    BY <1>2 DEF RowsApart
  <2>2. ASSUME NEW p \in Pair, NEW q \in Pair, indices'[p] # NoRow, indices'[p] = indices'[q]
        PROVE  p = q
    BY <1>7, <1>10, <2>1, <2>2
  <2>3. QED
    BY <2>2 DEF RowsApart
<1>12. StateFollowsSequence'
  <2> SUFFICES ASSUME NEW p \in Pair, indices'[p] # NoRow PROVE row'[indices'[p]] = fed[p]
    BY <1>5 DEF StateFollowsSequence
  <2>1. indices[p] # NoRow /\ row[indices[p]] = fed[p] /\ indices[p] \in Row
    BY <1>2, <1>4, <1>10 DEF StateFollowsSequence
  <2>2. row'[indices'[p]] = row[indices[p]]
    BY <1>7, <1>8, <2>1
  <2>3. QED
    BY <2>1, <2>2
<1>13. ForkInv'
  <2>1. 1 \in Seqs /\ \A r \in Request, s \in Seqs : <<r, s>> \in Pair
    BY SizesAssumption DEF Pair, Seqs
  <2>2. \A r \in Request, s \in Seqs : indices'[<<r, s>>] = NoRow <=> indices[<<r, s>>] = NoRow
    BY <1>10, <2>1
  <2>3. QED
    BY <1>2, <1>5, <2>1, <2>2 DEF ForkInv
<1>14. ASSUME NEW i \in 1 .. assigned' PROVE indices'[batch[i]] = i - 1
  <2>1. CASE i \in 1 .. assigned
    <3>1. indices[batch[i]] = i - 1 /\ i - 1 # d /\ batch[i] \in Pair /\ batch[i] # c
      BY <1>2, <2>1
    <3>2. indices[batch[i]] # f
      BY <1>2, <1>3, <1>4, <3>1 DEF RowsApart
    <3>3. QED
      BY <1>7, <3>1, <3>2
  <2>2. assigned \in Nat
    BY <1>2 DEF TypeOK
  <2>3. CASE i = assigned + 1
    BY <1>2, <1>4, <1>7, <2>2, <2>3
  <2>4. QED
    BY <1>2, <2>1, <2>2, <2>3
<1>15. \A p \in Pair : p[1] \in delivered => indices'[p] = NoRow
  BY <1>2, <1>10
<1>16. \A p \in Pair : indices'[p] # NoRow => indices[p] # NoRow \/ p \in ToSet(batch)
  BY <1>10
<1>17. phase' \in {"assign", "forward", "outputs"} /\ phase' = "assign"
  BY <1>1, <1>2
<1>18. UNCHANGED <<requestVars, queueVars, finished_ids, stepVars, steps, delivered, batch, lost,
                   raised>>
  BY <1>1, <1>2
<1>19. QED
  BY <1>2, <1>9, <1>11, <1>12, <1>13, <1>14, <1>15, <1>16, <1>17, <1>18, WorkerFrame


\* The clean-up finds nothing to move.
LEMMA CleanUpKeeps ==
    ASSUME MambaInv, CleanUp
    PROVE  MambaInv'
<1>1. /\ phase = "assign" /\ assigned = Len(batch)
      /\ strangers = {} => phase' = "forward" /\ raised' = raised
      /\ UNCHANGED <<requestVars, queueVars, finished_ids, stepVars, steps, workerVars, lost>>
  BY DEF CleanUp
<1>2. Working
  BY <1>1 DEF Working
<1>3. /\ TypeOK /\ EngineInv /\ ForkInv /\ RowsApart /\ StateFollowsSequence /\ batch \in Seq(Pair)
      /\ \A i \in 1 .. Len(batch) : batch[i][1] \notin delivered
  BY <1>2, BatchParts
<1>4. strangers = {}
  <2> SUFFICES ASSUME NEW i \in occupied, i < Len(batch) PROVE batch[i + 1][1] \notin delivered
    BY DEF strangers
  <2>1. i \in Nat
    BY <1>3, OccupiedLaw, SeatsAreRows
  <2>2. i + 1 \in 1 .. Len(batch)
    BY <1>3, <2>1
  <2>3. QED
    BY <1>3, <2>2
<1>5. /\ indices' = indices /\ row' = row /\ fed' = fed /\ delivered' = delivered
      /\ batch' = batch /\ assigned' = assigned /\ num_seqs' = num_seqs /\ unfinished' = unfinished
  BY <1>1 DEF workerVars, requestVars
<1>6. /\ indices' \in [Pair -> Row \cup {NoRow}] /\ row' \in [Row -> Seq(Pair)]
      /\ fed' \in [Pair -> Seq(Pair)]
  BY <1>3, <1>5 DEF TypeOK
<1>7. RowsApart' /\ StateFollowsSequence' /\ ForkInv'
  BY <1>3, <1>5 DEF RowsApart, StateFollowsSequence, ForkInv
<1>8. assigned' \in 0 .. Len(batch) /\ assigned' = Len(batch)
  BY <1>1, <1>3, <1>5
<1>9. /\ \A i \in 1 .. assigned' : indices'[batch[i]] = i - 1
      /\ \A p \in Pair : p[1] \in delivered => indices'[p] = NoRow
  BY <1>1, <1>2, <1>3, <1>5 DEF EngineInv, BatchInv
<1>10. \A p \in Pair : indices'[p] # NoRow => indices[p] # NoRow \/ p \in ToSet(batch)
  BY <1>5
<1>11. phase' \in {"assign", "forward", "outputs"}
  BY <1>1, <1>4
<1>12. UNCHANGED <<requestVars, queueVars, finished_ids, stepVars, steps, delivered, batch, lost,
                   raised>>
  BY <1>1, <1>4, <1>5
<1>13. QED
  BY <1>2, <1>6, <1>7, <1>8, <1>9, <1>10, <1>11, <1>12, WorkerFrame

\* Each row of the batch and its sequence take the same token.
LEMMA ForwardKeeps ==
    ASSUME MambaInv, Forward
    PROVE  MambaInv'
<1>1. /\ phase = "forward" /\ phase' = "outputs"
      /\ row' = [i \in Row |-> IF i < Len(batch) THEN Append(row[i], batch[i + 1]) ELSE row[i]]
      /\ fed' = [p \in Pair |-> IF p \in ToSet(batch) THEN Append(fed[p], p) ELSE fed[p]]
      /\ indices' = indices /\ assigned' = assigned
      /\ UNCHANGED <<requestVars, queueVars, finished_ids, stepVars, steps, delivered, batch, lost,
                     raised>>
  BY DEF Forward
<1>2. Working
  BY <1>1 DEF Working
<1>3. /\ TypeOK /\ EngineInv /\ RequestInv /\ ForkInv /\ RowsApart /\ StateFollowsSequence
      /\ batch \in Seq(Pair)
      /\ \A i \in 1 .. Len(batch) : batch[i] \in Pair /\ i - 1 \in Row
  BY <1>2, BatchParts
<1>4. /\ indices \in [Pair -> Row \cup {NoRow}] /\ row \in [Row -> Seq(Pair)] /\ fed \in [Pair -> Seq(Pair)]
      /\ NoRow \notin Row /\ Row \subseteq Nat
  BY <1>3, SeatsAreRows DEF TypeOK
<1>5. /\ assigned = Len(batch) /\ \A i \in 1 .. Len(batch) : indices[batch[i]] = i - 1
      /\ \A p \in Pair : p[1] \in delivered => indices[p] = NoRow
      /\ ToSet(batch) = demand
  BY <1>1, <1>2, <1>3 DEF EngineInv, BatchInv
<1>6. DOMAIN batch = 1 .. Len(batch) /\ Len(batch) \in Nat
  BY <1>3
<1>7. \A p \in ToSet(batch) : \E i \in 1 .. Len(batch) : p = batch[i] /\ indices[p] = i - 1
  BY <1>5, <1>6 DEF ToSet
<1>8. row' \in [Row -> Seq(Pair)] /\ fed' \in [Pair -> Seq(Pair)]
  <2>1. \A i \in Row : i < Len(batch) => batch[i + 1] \in Pair
    BY <1>3, <1>4, <1>6
  <2>2. \A i \in Row : row[i] \in Seq(Pair)
    BY <1>4
  <2>3. \A i \in Row : row'[i] \in Seq(Pair)
    BY <1>1, <2>1, <2>2
  <2>4. \A p \in Pair : fed[p] \in Seq(Pair)
    BY <1>4
  <2>5. \A p \in Pair : fed'[p] \in Seq(Pair)
    BY <1>1, <2>4
  <2>6. QED
    BY <1>1, <2>3, <2>5
<1>9. RowsApart'
  BY <1>1, <1>3 DEF RowsApart
<1>10. StateFollowsSequence'
  <2> SUFFICES ASSUME NEW p \in Pair, indices[p] # NoRow PROVE row'[indices[p]] = fed'[p]
    BY <1>1 DEF StateFollowsSequence
  <2>1. indices[p] \in Row /\ row[indices[p]] = fed[p]
    BY <1>3, <1>4 DEF StateFollowsSequence
  <2>2. CASE p \in ToSet(batch)
    <3>1. PICK i \in 1 .. Len(batch) : p = batch[i] /\ indices[p] = i - 1
      BY <1>7, <2>2
    <3>2. indices[p] < Len(batch) /\ indices[p] + 1 = i
      BY <1>6, <3>1
    <3>3. row'[indices[p]] = Append(row[indices[p]], batch[i])
      BY <1>1, <2>1, <3>2
    <3>4. fed'[p] = Append(fed[p], p)
      BY <1>1, <2>2
    <3>5. QED
      BY <2>1, <3>1, <3>3, <3>4
  <2>3. CASE p \notin ToSet(batch)
    <3>1. ~ (indices[p] < Len(batch))
      <4> SUFFICES ASSUME indices[p] < Len(batch) PROVE FALSE
        OBVIOUS
      <4> DEFINE j == indices[p]
                 m == Len(batch)
      <4>1. j \in Nat /\ j < m /\ m \in Nat
        BY <1>4, <1>6, <2>1
      <4> HIDE DEF j, m
      <4>2. j + 1 \in 1 .. m /\ (j + 1) - 1 = j
        BY <4>1
      <4>3. PICK i \in 1 .. Len(batch) : i - 1 = indices[p]
        BY <4>2 DEF j, m
      <4>4. batch[i] \in Pair /\ indices[batch[i]] = indices[p] /\ batch[i] \in ToSet(batch)
        BY <1>3, <1>5, <1>6, <4>3 DEF ToSet
      <4>5. QED
        BY <1>3, <2>3, <4>4 DEF RowsApart
    <3>2. row'[indices[p]] = row[indices[p]] /\ fed'[p] = fed[p]
      BY <1>1, <2>1, <2>3, <3>1
    <3>3. QED
      BY <2>1, <3>2
  <2>4. QED
    BY <2>2, <2>3
<1>11. 1 \in Seqs /\ \A r \in Request, s \in Seqs : <<r, s>> \in Pair /\ <<r, s>>[1] = r /\ <<r, s>>[2] = s
  BY SizesAssumption DEF Pair, Seqs
<1>12. \A p \in ToSet(batch) : indices[p] # NoRow
  <2>1. \A i \in 1 .. Len(batch) : i - 1 \in Row
    BY <1>3
  <2>2. QED
    BY <1>4, <1>7, <2>1
<1>13. ForkInv'
  <2>1. num_seqs' = num_seqs /\ unfinished' = unfinished
    BY <1>1 DEF requestVars
  <2>2. ASSUME NEW r \in Request, indices[<<r, 1>>] = NoRow
        PROVE  unfinished[r] \subseteq {1} /\ \A s \in Seqs : fed'[<<r, s>>] = <<>>
    <3>1. unfinished[r] \subseteq {1} /\ \A s \in Seqs : fed[<<r, s>>] = <<>>
      BY <1>3, <2>2 DEF ForkInv
    <3>2. \A s \in Seqs : <<r, s>> \notin ToSet(batch)
      BY <1>3, <1>12, <2>2 DEF ForkInv
    <3>3. QED
      BY <1>1, <1>11, <3>1, <3>2
  <2>3. ASSUME NEW r \in Request, NEW s \in Seqs, s \in unfinished[r], indices[<<r, s>>] = NoRow
        PROVE  fed'[<<r, s>>] = fed'[<<r, 1>>]
    <3>1. fed[<<r, s>>] = fed[<<r, 1>>]
      BY <1>3, <2>3 DEF ForkInv
    <3>2. <<r, s>> \notin ToSet(batch)
      BY <1>12, <2>3
    <3>3. r \notin ToSet(Scheduled)
      BY <1>5, <1>11, <2>3, <3>2 DEF demand
    <3>4. <<r, 1>> \notin ToSet(batch)
      BY <1>5, <1>11, <3>3 DEF demand
    <3>5. QED
      BY <1>1, <1>11, <3>1, <3>2, <3>4
  <2>4. \A r \in Request, s \in Seqs : indices[<<r, s>>] # NoRow =>
           indices[<<r, 1>>] # NoRow /\ s <= num_seqs[r]
    BY <1>3 DEF ForkInv
  <2>5. indices' = indices
    BY <1>1
  <2>6. QED
    BY <2>1, <2>2, <2>3, <2>4, <2>5 DEF ForkInv
<1>14. assigned' \in 0 .. Len(batch) /\ assigned' = Len(batch)
  BY <1>1, <1>5, <1>6
<1>15. /\ \A i \in 1 .. assigned' : indices'[batch[i]] = i - 1
       /\ \A p \in Pair : p[1] \in delivered => indices'[p] = NoRow
       /\ \A p \in Pair : indices'[p] # NoRow => indices[p] # NoRow \/ p \in ToSet(batch)
  BY <1>1, <1>5
<1>16. phase' \in {"assign", "forward", "outputs"} /\ indices' \in [Pair -> Row \cup {NoRow}]
  BY <1>1, <1>4
<1>17. UNCHANGED <<requestVars, queueVars, finished_ids, stepVars, steps, delivered, batch, lost,
                   raised>>
  BY <1>1
<1>18. QED
  BY <1>2, <1>8, <1>9, <1>10, <1>13, <1>14, <1>15, <1>16, <1>17, WorkerFrame


----------------------------------------------------------------------------
(* The outputs of a step *)

\* A chunk is a part of the prompt that is not computed yet.
LEMMA ChunkLaw ==
    ASSUME TypeOK, BudgetInv, Working, NEW r \in Request
    PROVE  chunk_of(r) \in Nat /\ chunk_of(r) <= need[r]
<1>1. need[r] \in Nat
  BY SizesAssumption DEF TypeOK
<1>2. CASE IsPrefill(r) /\ r \in ToSet(Scheduled)
  <2> DEFINE G == UNION {ToSet(groups[k]) : k \in RunKind}
             g == CHOOSE x \in G : x.req = r
  <2>1. groups \in Lists
    BY PartsTyped
  <2>2. ToSet(Scheduled) = Taken(groups)
    BY <2>1, JoinedLaw, HeldParts
  <2>3. \A k \in RunKind : ToSet(RequestsOf(groups, k)) = {x.req : x \in ToSet(groups[k])}
    BY <2>1, RequestsLaw, KindsAreNamed
  <2>4. \E x \in G : x.req = r
    <3>1. PICK k \in RunKind : r \in ToSet(RequestsOf(groups, k))
      BY <1>2, <2>2 DEF Taken
    <3>2. PICK x \in ToSet(groups[k]) : x.req = r
      BY <2>3, <3>1
    <3>3. x \in G
      BY <3>1, <3>2
    <3>4. QED
      BY <3>2, <3>3
  <2>5. g \in G /\ g.req = r
    BY <2>4
  <2>6. chunk_of(r) = g.chunk
    BY <1>2 DEF chunk_of
  <2> HIDE DEF g
  <2>7. PICK k \in RunKind : g \in ToSet(groups[k])
    BY <2>5
  <2>8. g \in Group
    <3>1. groups[k] \in Seq(Group)
      BY <2>1, KindsAreNamed DEF Lists
    <3>2. QED
      BY <2>7, <3>1 DEF ToSet
  <2>9. g.chunk \in Nat
    BY <2>8 DEF Group
  <2>10. g.chunk <= need[g.req]
    <3>1. need[g.req] > 0
      BY <1>2, <2>5 DEF IsPrefill
    <3>2. QED
      BY <2>7, <3>1 DEF BudgetInv
  <2>11. QED
    BY <2>5, <2>6, <2>9, <2>10
<1>3. CASE ~ (IsPrefill(r) /\ r \in ToSet(Scheduled))
  <2>1. chunk_of(r) = 0
    BY <1>3 DEF chunk_of
  <2>2. QED
    BY <1>1, <2>1
<1>4. QED
  BY <1>2, <1>3

\* The children of a request whose prefill is complete.
LEMMA ChildrenLaw ==
    ASSUME TypeOK, RequestInv, BudgetInv, Working, NEW r \in Request,
           r \in sampled => unfinished[r] # {}
    PROVE  /\ children(r) \subseteq Seqs \ {1}
           /\ r \notin sampled => children(r) = {}
           /\ Cardinality(children(r)) \in Nat
           /\ num_seqs[r] + Cardinality(children(r)) \in 0 .. MaxN
           /\ unfinished[r] \cup children(r) \subseteq 1 .. (num_seqs[r] + Cardinality(children(r)))
           /\ \A s \in children(r) : s > num_seqs[r]
           /\ children(r) # {} => need[r] = chunk_of(r) /\ n[r] > 1
<1> DEFINE m == n[r]
           c == num_seqs[r]
<1>1. m \in 0 .. MaxN /\ c \in 0 .. MaxN /\ MaxN \in Nat /\ unfinished[r] \subseteq 1 .. c
  BY SizesAssumption DEF TypeOK
<1>2. CASE r \notin prefilled \/ m <= 1
  <2>1. children(r) = {}
    <3>1. r \in prefilled => children(r) = 2 .. m
      BY DEF children
    <3>2. r \notin prefilled => children(r) = {}
      BY DEF children
    <3> HIDE DEF m
    <3>3. m <= 1 => 2 .. m = {}
      BY <1>1
    <3>4. QED
      BY <1>2, <3>1, <3>2, <3>3
  <2>2. Cardinality(children(r)) = 0
    BY <2>1, FS_EmptySet
  <2> HIDE DEF c
  <2>3. c + Cardinality(children(r)) = c
    BY <1>1, <2>2
  <2>4. QED
    BY <1>1, <2>1, <2>2, <2>3 DEF c
<1>3. CASE r \in prefilled /\ m > 1
  <2>1. r \in sampled /\ need[r] = chunk_of(r) /\ need[r] > 0
    BY <1>3 DEF prefilled, sampled, IsPrefill
  <2>2. c = 1
    BY <1>3, <2>1 DEF RequestInv
  <2>3. children(r) = 2 .. m
    BY <1>3 DEF children
  <2> HIDE DEF m, c
  <2>4. Cardinality(2 .. m) = IF 2 > m THEN 0 ELSE m - 2 + 1
    BY <1>1, FS_Interval
  <2>5. Cardinality(children(r)) = m - 1
    BY <1>1, <1>3, <2>3, <2>4
  <2>6. c + Cardinality(children(r)) = m
    BY <1>1, <2>2, <2>5
  <2>7. 2 .. m \subseteq Seqs \ {1}
    BY <1>1 DEF Seqs
  <2>8. unfinished[r] \cup (2 .. m) \subseteq 1 .. m /\ \A s \in 2 .. m : s > c
    BY <1>1, <1>3, <2>2
  <2>9. Cardinality(children(r)) \in Nat
    BY <1>1, <1>3, <2>5
  <2>10. QED
    BY <1>1, <1>3, <2>1, <2>3, <2>6, <2>7, <2>8, <2>9 DEF c, m
<1>4. m <= 1 \/ m > 1
  BY <1>1
<1>5. QED
  BY <1>2, <1>3, <1>4

LEMMA ProcessOutputsKeeps ==
    ASSUME MambaInv, ProcessOutputs
    PROVE  MambaInv'
<1> DEFINE done == {r \in sampled : unfinished'[r] = {}}
<1>1. /\ phase = "outputs" /\ phase' = "idle"
      /\ num_seqs' = [r \in Request |-> num_seqs[r] + Cardinality(children(r))]
      /\ need' = [r \in Request |-> need[r] - chunk_of(r)]
      /\ fed' = [p \in Pair |-> IF p[2] \in children(p[1]) THEN fed[<<p[1], 1>>] ELSE fed[p]]
      /\ running' = Without(running, done) /\ finished_ids' = finished_ids \cup done
      /\ UNCHANGED <<n, waiting, swapped, stepVars, steps, delivered, batch, assigned, indices, row,
                     lost, raised>>
  BY DEF ProcessOutputs
<1>2. PICK stop \in [sampled -> SUBSET Seqs] :
         unfinished' = [r \in Request |->
                IF r \in sampled THEN (unfinished[r] \cup children(r)) \ stop[r]
                ELSE unfinished[r]]
  BY DEF ProcessOutputs
<1>3. Working
  BY <1>1 DEF Working
<1>4. /\ TypeOK /\ EngineInv /\ RequestInv /\ ForkInv /\ RowsApart /\ StateFollowsSequence
      /\ batch \in Seq(Pair) /\ BudgetInv /\ AllOnce(held) /\ LiveInv
      /\ \A i \in 1 .. Len(batch) : i - 1 \in Row
      /\ ToSet(running) \subseteq Members(held)
  BY <1>3, BatchParts DEF EngineInv
<1>5. /\ n' = n /\ waiting' = waiting /\ swapped' = swapped
      /\ groups' = groups /\ num_batched_tokens' = num_batched_tokens /\ num_curr_seqs' = num_curr_seqs
      /\ steps' = steps /\ delivered' = delivered /\ batch' = batch /\ assigned' = assigned
      /\ indices' = indices /\ row' = row /\ lost' = lost /\ raised' = raised
  BY <1>1 DEF stepVars
<1>6. /\ assigned = Len(batch) /\ \A i \in 1 .. Len(batch) : indices[batch[i]] = i - 1
      /\ ToSet(batch) = demand /\ ToSet(Scheduled) \subseteq ToSet(running)
  BY <1>1, <1>3, <1>4 DEF EngineInv, BatchInv
<1>7. 1 \in Seqs /\ \A r \in Request, s \in Seqs : <<r, s>> \in Pair /\ <<r, s>>[1] = r /\ <<r, s>>[2] = s
  BY SizesAssumption DEF Pair, Seqs
<1>8. running \in Seq(Request) /\ \A r \in ToSet(running) : r \in Request
  BY <1>4, PartsTyped DEF ToSet
<1>9. ASSUME NEW r \in sampled
      PROVE  /\ r \in Request /\ r \in ToSet(running) /\ unfinished[r] # {} /\ n[r] # 0
             /\ indices[<<r, 1>>] # NoRow
  <2>1. r \in ToSet(Scheduled) /\ r \in ToSet(running) /\ r \in Request
    BY <1>6, <1>8 DEF sampled
  <2>2. unfinished[r] # {}
    BY <1>4, <2>1 DEF RequestInv
  <2>3. n[r] # 0
    BY <1>4, <2>1, <2>2 DEF RequestInv
  <2>4. PICK s \in unfinished[r] : TRUE
    BY <2>2
  <2>5. unfinished[r] \subseteq Seqs
    BY <1>4, <2>1 DEF TypeOK
  <2>6. <<r, s>> \in ToSet(batch)
    BY <1>6, <1>7, <2>1, <2>4, <2>5 DEF demand
  <2>7. indices[<<r, s>>] # NoRow
    <3>1. PICK i \in 1 .. Len(batch) : batch[i] = <<r, s>>
      BY <1>4, <2>6 DEF ToSet
    <3>2. indices[<<r, s>>] = i - 1 /\ i - 1 \in Row
      BY <1>4, <1>6, <3>1
    <3>3. QED
      BY <3>2, SeatsAreRows
  <2>8. indices[<<r, 1>>] # NoRow
    BY <1>4, <2>1, <2>4, <2>5, <2>7 DEF ForkInv
  <2>9. QED
    BY <2>1, <2>2, <2>3, <2>8
<1>10. ASSUME NEW r \in Request
       PROVE  /\ children(r) \subseteq Seqs \ {1}
              /\ r \notin sampled => children(r) = {}
              /\ Cardinality(children(r)) \in Nat
              /\ num_seqs[r] + Cardinality(children(r)) \in 0 .. MaxN
              /\ unfinished[r] \cup children(r) \subseteq 1 .. (num_seqs[r] + Cardinality(children(r)))
              /\ \A s \in children(r) : s > num_seqs[r]
              /\ children(r) # {} => need[r] = chunk_of(r) /\ n[r] > 1
  BY <1>3, <1>4, <1>9, ChildrenLaw
<1>11. \A r \in Request : chunk_of(r) \in Nat /\ chunk_of(r) <= need[r]
  BY <1>3, <1>4, ChunkLaw
<1>12. \A r \in Request : /\ num_seqs'[r] = num_seqs[r] + Cardinality(children(r))
                          /\ need'[r] = need[r] - chunk_of(r)
                          /\ r \notin sampled => unfinished'[r] = unfinished[r]
                          /\ unfinished'[r] \subseteq unfinished[r] \cup children(r)
  BY <1>1, <1>2
<1>13. \A r \in Request, s \in Seqs :
          fed'[<<r, s>>] = IF s \in children(r) THEN fed[<<r, 1>>] ELSE fed[<<r, s>>]
  BY <1>1, <1>7
<1>14. \A r \in Request, s \in Seqs : s \in children(r) => indices[<<r, s>>] = NoRow
  <2> SUFFICES ASSUME NEW r \in Request, NEW s \in Seqs, s \in children(r), indices[<<r, s>>] # NoRow
               PROVE  FALSE
    OBVIOUS
  <2>1. s <= num_seqs[r] /\ s > num_seqs[r]
    BY <1>4, <1>10 DEF ForkInv
  <2>2. s \in Int /\ num_seqs[r] \in Int
    BY <1>4 DEF TypeOK, Seqs
  <2>3. QED
    BY <2>1, <2>2
<1>15. done \subseteq sampled /\ done \subseteq Request
  BY <1>9
<1>16. TypeOK'
  <2>1. \A r \in Request : need[r] \in 0 .. MaxPrompt /\ num_seqs[r] \in 0 .. MaxN
    BY <1>4 DEF TypeOK
  <2>2. need' \in [Request -> 0 .. MaxPrompt]
    <3>1. \A r \in Request : need[r] - chunk_of(r) \in 0 .. MaxPrompt
      BY <1>11, <2>1, SizesAssumption
    <3>2. QED
      BY <1>1, <3>1
  <2>3. num_seqs' \in [Request -> 0 .. MaxN]
    BY <1>1, <1>10
  <2>4. unfinished' \in [Request -> SUBSET Seqs]
        /\ \A r \in Request : unfinished'[r] \subseteq 1 .. num_seqs'[r]
    <3>1. \A r \in Request : unfinished'[r] \subseteq 1 .. num_seqs'[r]
      BY <1>10, <1>12
    <3>2. \A r \in Request : num_seqs'[r] \in 0 .. MaxN
      BY <2>3
    <3>3. \A r \in Request : unfinished'[r] \subseteq Seqs
      BY <3>1, <3>2, SizesAssumption DEF Seqs
    <3>4. QED
      BY <1>2, <3>1, <3>3
  <2>5. fed' \in [Pair -> Seq(Pair)]
    <3>1. \A p \in Pair : fed[p] \in Seq(Pair) /\ <<p[1], 1>> \in Pair
      BY <1>4, <1>7 DEF TypeOK, Pair
    <3>2. QED
      BY <1>1, <3>1
  <2>6. running' \in Seq(Request)
    <3> DEFINE S == Request \ done
    <3>1. running' = Keep(running, S)
      BY <1>1 DEF Without
    <3> HIDE DEF S
    <3>2. QED
      BY <1>8, <3>1, KeepLaw
  <2>7. finished_ids' \subseteq Request /\ phase' \in Phase
    BY <1>1, <1>4, <1>15 DEF TypeOK, Phase
  <2>8. {waiting', running', swapped'} \subseteq Seq(Request)
    BY <1>4, <1>5, <2>6 DEF TypeOK
  <2>9. QED
    BY <1>4, <1>5, <2>2, <2>3, <2>4, <2>5, <2>7, <2>8 DEF TypeOK
<1> HIDE DEF done
<1>17. ToSet(running') = ToSet(running) \ done /\ (IsInjective(running) => IsInjective(running'))
       /\ running' \in Seq(Request)
  <2> DEFINE S == Request \ done
  <2>1. running' = Keep(running, S)
    BY <1>1 DEF Without
  <2>2. ToSet(running) \cap S = ToSet(running) \ done
    BY <1>8
  <2> HIDE DEF S
  <2>3. QED
    BY <1>8, <2>1, <2>2, KeepLaw
<1>18. ~ Scheduling /\ ~ Scheduling' /\ ~ Working'
  BY <1>1 DEF Scheduling, Working
<1>19. /\ held["waiting"] = waiting /\ held["running"] = running /\ held["swapped"] = swapped
       /\ \A k \in Kind : held[k] = <<>>
       /\ held' \in [Place -> Seq(Request)]
       /\ held'["waiting"] = waiting /\ held'["running"] = running' /\ held'["swapped"] = swapped
       /\ \A k \in Kind : held'[k] = <<>>
  <2>1. collected = NoGroups /\ collected' = NoGroups
    BY <1>18 DEF collected
  <2>2. waiting' \in Seq(Request) /\ swapped' \in Seq(Request)
    BY <1>4, <1>5, PartsTyped
  <2>3. collected' \in Lists
    BY <2>1, NoGroupsLaw
  <2>4. /\ held' \in [Place -> Seq(Request)]
        /\ held'["waiting"] = waiting' /\ held'["running"] = running' /\ held'["swapped"] = swapped'
        /\ \A k \in Kind : held'[k] = RequestsOf(collected', k)
    BY <1>17, <2>2, <2>3, NextQueues
  <2>5. /\ held["waiting"] = waiting /\ held["running"] = running /\ held["swapped"] = swapped
        /\ \A k \in Kind : held[k] = RequestsOf(collected, k)
    BY <1>4, HeldQueues
  <2>6. QED
    BY <1>5, <2>1, <2>4, <2>5, NoGroupsLaw
<1>20. AllOnce(held') /\ Members(held') \subseteq Members(held)
  <2> DEFINE h == held'
  <2>1. \A q \in Place : IsInjective(held[q])
    BY <1>4 DEF AllOnce
  <2>2. \A q \in Place : q # "running" => h[q] = held[q]
    BY <1>19 DEF Place
  <2>3. "running" \in Place
    BY KindsAreNamed
  <2>4. h \in [Place -> Seq(Request)] /\ \A p \in Place : IsInjective(h[p]) /\ ToSet(h[p]) \subseteq ToSet(held[p])
    BY <1>17, <1>19, <2>1, <2>2, <2>3
  <2> HIDE DEF h
  <2>5. AllOnce(h) /\ Members(h) \subseteq Members(held)
    BY <1>4, <2>4, DropLaw
  <2>6. QED
    BY <2>5 DEF h
<1>21. Members(held) \subseteq Members(held') \cup done
  <2>1. ASSUME NEW x \in Members(held) PROVE x \in Members(held') \cup done
    <3>1. PICK q \in Place : x \in ToSet(held[q])
      BY <2>1 DEF Members
    <3>2. x \in ToSet(held'[q]) \cup done
      BY <1>17, <1>19, <3>1 DEF Place
    <3>3. QED
      BY <3>2 DEF Members
  <2>2. QED
    BY <2>1
<1>22. \A x \in Members(held') : x \in sampled => x \in ToSet(running')
  <2> SUFFICES ASSUME NEW x \in Members(held'), x \in sampled PROVE x \in ToSet(running')
    OBVIOUS
  <2>1. PICK q \in Place : x \in ToSet(held'[q])
    BY DEF Members
  <2>2. x \in ToSet(held["running"]) /\ "running" \in Place
    BY <1>9, <1>19, KindsAreNamed
  <2>3. q = "running"
    <3>1. ToSet(held'[q]) \subseteq ToSet(held[q])
      BY <1>17, <1>19 DEF Place
    <3>2. QED
      BY <1>4, <2>1, <2>2, <3>1 DEF AllOnce
  <2>4. QED
    BY <1>19, <2>1, <2>3
<1>23. RequestInv'
  <2>1. ASSUME NEW r \in Request, n[r] = 0 PROVE num_seqs'[r] = 0 /\ unfinished'[r] = {}
    <3>1. r \notin sampled /\ num_seqs[r] = 0 /\ unfinished[r] = {}
      BY <1>4, <1>9, <2>1 DEF RequestInv
    <3>2. children(r) = {} /\ Cardinality(children(r)) = 0
      BY <1>10, <3>1, FS_EmptySet
    <3>3. QED
      BY <1>12, <3>1, <3>2
  <2>2. ASSUME NEW r \in Request, children(r) = {} PROVE num_seqs'[r] = num_seqs[r]
    <3>1. Cardinality(children(r)) = 0 /\ num_seqs[r] \in Int
      BY <1>4, <2>2, FS_EmptySet DEF TypeOK
    <3>2. QED
      BY <1>12, <3>1
  <2>3. ASSUME NEW r \in Request, need'[r] > 0, n[r] > 1 PROVE num_seqs'[r] = 1
    <3>1. need[r] \in Int /\ chunk_of(r) \in Nat /\ need'[r] = need[r] - chunk_of(r)
      BY <1>4, <1>11, <1>12 DEF TypeOK
    <3>2. need[r] > 0 /\ need[r] # chunk_of(r)
      BY <2>3, <3>1
    <3>3. num_seqs[r] = 1
      BY <1>4, <2>3, <3>2 DEF RequestInv
    <3>4. children(r) = {}
      BY <1>10, <3>2
    <3>5. QED
      BY <2>2, <3>3, <3>4
  <2>4. ASSUME NEW r \in Request, n[r] = 1 PROVE num_seqs'[r] = 1
    <3>1. num_seqs[r] = 1
      BY <1>4, <2>4 DEF RequestInv
    <3>2. children(r) = {}
      BY <1>10, <2>4
    <3>3. QED
      BY <2>2, <3>1, <3>2
  <2>5. ASSUME NEW r \in Members(held') PROVE unfinished'[r] # {}
    <3>a. r \in Members(held)
      BY <1>20, <2>5
    <3>b. r \in Request
      BY <1>19, <2>5 DEF Members, ToSet
    <3>1. r \in Members(held) /\ r \in Request
      BY <3>a, <3>b
    <3>2. CASE r \in sampled
      <4>1. r \notin done
        BY <1>17, <1>22, <2>5, <3>2
      <4>2. QED
        BY <3>2, <4>1 DEF done
    <3>3. CASE r \notin sampled
      BY <1>4, <1>12, <3>1, <3>3 DEF RequestInv
    <3>4. QED
      BY <3>2, <3>3
  <2>6. ASSUME NEW r \in finished_ids' \cup delivered PROVE n[r] # 0 /\ unfinished'[r] = {}
    <3>1. CASE r \in done
      BY <1>9, <1>15, <3>1 DEF done
    <3>2. CASE r \notin done
      <4>1. r \in Request /\ n[r] # 0 /\ unfinished[r] = {}
        BY <1>1, <1>4, <2>6, <3>2 DEF RequestInv, TypeOK
      <4>2. r \notin sampled
        BY <1>9, <4>1
      <4>3. QED
        BY <1>12, <4>1, <4>2
    <3>3. QED
      BY <3>1, <3>2
  <2>7. QED
    BY <1>5, <2>1, <2>3, <2>4, <2>5, <2>6 DEF RequestInv
<1>24. RowsApart'
  BY <1>4, <1>5 DEF RowsApart
<1>25. StateFollowsSequence'
  <2> SUFFICES ASSUME NEW p \in Pair, indices[p] # NoRow PROVE row[indices[p]] = fed'[p]
    BY <1>5 DEF StateFollowsSequence
  <2>1. p[1] \in Request /\ p[2] \in Seqs /\ p = <<p[1], p[2]>>
    BY DEF Pair
  <2>2. p[2] \notin children(p[1])
    <3> DEFINE r == p[1]
               s == p[2]
    <3>1. r \in Request /\ s \in Seqs /\ indices[<<r, s>>] # NoRow
      BY <2>1
    <3> HIDE DEF r, s
    <3>2. s \notin children(r)
      BY <1>14, <3>1
    <3>3. QED
      BY <3>2 DEF r, s
  <2>3. fed'[p] = fed[p]
    BY <1>1, <2>2
  <2>4. QED
    BY <1>4, <2>3 DEF StateFollowsSequence
<1>26. ForkInv'
  <2>1. ASSUME NEW r \in Request, NEW s \in Seqs, indices[<<r, s>>] # NoRow
        PROVE  indices[<<r, 1>>] # NoRow /\ s <= num_seqs'[r]
    <3>1. indices[<<r, 1>>] # NoRow /\ s <= num_seqs[r]
      BY <1>4, <2>1 DEF ForkInv
    <3>2. /\ num_seqs[r] \in Int /\ s \in Int /\ Cardinality(children(r)) \in Nat
          /\ num_seqs'[r] = num_seqs[r] + Cardinality(children(r))
      BY <1>4, <1>10, <1>12 DEF TypeOK, Seqs
    <3>3. QED
      BY <3>1, <3>2
  <2>2. ASSUME NEW r \in Request, indices[<<r, 1>>] = NoRow
        PROVE  unfinished'[r] \subseteq {1} /\ \A s \in Seqs : fed'[<<r, s>>] = <<>>
    <3>1. unfinished[r] \subseteq {1} /\ \A s \in Seqs : fed[<<r, s>>] = <<>>
      BY <1>4, <2>2 DEF ForkInv
    <3>2. r \notin sampled
      BY <1>9, <2>2
    <3>3. children(r) = {} /\ unfinished'[r] = unfinished[r]
      BY <1>10, <1>12, <3>2
    <3>4. QED
      BY <1>13, <3>1, <3>3
  <2>3. ASSUME NEW r \in Request, NEW s \in Seqs, s \in unfinished'[r], indices[<<r, s>>] = NoRow
        PROVE  fed'[<<r, s>>] = fed'[<<r, 1>>]
    <3>1. fed'[<<r, 1>>] = fed[<<r, 1>>]
      <4>1. 1 \notin children(r)
        BY <1>10
      <4>2. QED
        BY <1>7, <1>13, <4>1
    <3>2. CASE s \in children(r)
      BY <1>13, <3>1, <3>2
    <3>3. CASE s \notin children(r)
      <4>1. s \in unfinished[r]
        BY <1>12, <2>3, <3>3
      <4>2. fed[<<r, s>>] = fed[<<r, 1>>]
        BY <1>4, <2>3, <4>1 DEF ForkInv
      <4>3. QED
        BY <1>13, <3>1, <3>3, <4>2
    <3>4. QED
      BY <3>2, <3>3
  <2>4. QED
    BY <1>5, <2>1, <2>2, <2>3 DEF ForkInv
<1>27. LiveInv'
  <2>1. /\ LiveInv /\ phase # "release" /\ indices' = indices
        /\ Members(held) \subseteq Members(held') \cup done
        /\ done \cup finished_ids \cup lost \subseteq
               finished_ids' \cup lost' \cup (IF phase' = "release" THEN delivered' ELSE {})
    BY <1>1, <1>4, <1>5, <1>21
  <2>2. QED
    BY <2>1, LiveFrame
<1>28. BudgetInv' /\ SeatsInv' /\ BatchInv'
  BY <1>18 DEF BudgetInv, SeatsInv, BatchInv
<1>29. raised' = "no" /\ phase' # "stopped"
  BY <1>1, <1>4, <1>5 DEF EngineInv
<1>30. EngineInv'
  BY <1>20, <1>23, <1>26, <1>27, <1>28, <1>29 DEF EngineInv
<1>31. QED
  BY <1>16, <1>24, <1>25, <1>29, <1>30 DEF MambaInv


----------------------------------------------------------------------------
(* The theorems *)

LEMMA InitKeeps == Init => MambaInv
<1> SUFFICES ASSUME Init PROVE MambaInv
  OBVIOUS
<1> USE DEF Init
<1>1. <<>> \in Seq(Request) /\ <<>> \in Seq(Pair) /\ ToSet(<<>>) = {} /\ DOMAIN <<>> = {}
      /\ IsInjective(<<>>)
  BY DEF ToSet, IsInjective
<1>2. NoGroups \in [Kind -> Seq([req : Request, chunk : Nat])]
  BY NoGroupsLaw DEF Lists, Group
<1>3. MaxN \in Nat /\ MaxPrompt \in Nat /\ MaxSteps \in Nat
  BY SizesAssumption
<1>4. TypeOK
  <2>1. /\ n \in [Request -> 0 .. MaxN] /\ need \in [Request -> 0 .. MaxPrompt]
        /\ num_seqs \in [Request -> 0 .. MaxN] /\ steps \in 0 .. MaxSteps
    BY <1>3
  <2>2. unfinished \in [Request -> SUBSET Seqs] /\ \A r \in Request : unfinished[r] \subseteq 1 .. num_seqs[r]
    OBVIOUS
  <2>3. /\ indices \in [Pair -> Row \cup {NoRow}]
        /\ row \in [Row -> Seq(Pair)] /\ fed \in [Pair -> Seq(Pair)]
    BY <1>1
  <2>4. phase \in Phase
    BY DEF Phase
  <2>5. {waiting, running, swapped} \subseteq Seq(Request) /\ batch \in Seq(Pair)
    BY <1>1
  <2>6. QED
    BY <1>2, <2>1, <2>2, <2>3, <2>4, <2>5 DEF TypeOK
<1>5. RowsApart /\ StateFollowsSequence
  BY DEF RowsApart, StateFollowsSequence
<1>6. ~ Scheduling /\ ~ Working /\ phase # "stopped" /\ raised = "no"
  BY DEF Scheduling, Working
<1>7. \A q \in Place : held[q] = <<>>
  <2>1. collected = NoGroups
    BY <1>6 DEF collected
  <2>2. \A k \in Kind : held[k] = <<>>
    BY <1>4, <2>1, HeldQueues, NoGroupsLaw
  <2>3. held["waiting"] = <<>> /\ held["running"] = <<>> /\ held["swapped"] = <<>>
    BY <1>4, HeldQueues
  <2>4. QED
    BY <2>2, <2>3 DEF Place
<1>8. AllOnce(held) /\ Members(held) = {}
  <2>1. held \in [Place -> Seq(Request)]
    BY <1>4, HeldQueues
  <2>2. QED
    BY <1>1, <1>7, <2>1 DEF AllOnce, Members
<1>9. RequestInv
  BY <1>8 DEF RequestInv
<1>10. BudgetInv /\ SeatsInv /\ BatchInv
  BY <1>6 DEF BudgetInv, SeatsInv, BatchInv
<1>11. ForkInv /\ LiveInv
  BY DEF ForkInv, LiveInv, Pair, Seqs
<1>12. EngineInv
  BY <1>6, <1>8, <1>9, <1>10, <1>11 DEF EngineInv
<1>13. QED
  BY <1>4, <1>5, <1>6, <1>12 DEF MambaInv

LEMMA StutterKeeps ==
    ASSUME MambaInv, UNCHANGED vars
    PROVE  MambaInv'
<1>1. /\ n' = n /\ need' = need /\ num_seqs' = num_seqs /\ unfinished' = unfinished
      /\ waiting' = waiting /\ running' = running /\ swapped' = swapped
      /\ finished_ids' = finished_ids /\ groups' = groups
      /\ num_batched_tokens' = num_batched_tokens /\ num_curr_seqs' = num_curr_seqs
      /\ phase' = phase /\ steps' = steps /\ delivered' = delivered /\ batch' = batch
      /\ assigned' = assigned /\ indices' = indices /\ row' = row /\ fed' = fed
      /\ lost' = lost /\ raised' = raised
  BY DEF vars, requestVars, queueVars, stepVars, workerVars
<1>2. TypeOK => TypeOK'
  BY <1>1 DEF TypeOK
<1>3. (RowsApart => RowsApart') /\ (StateFollowsSequence => StateFollowsSequence')
  BY <1>1 DEF RowsApart, StateFollowsSequence
<1>4. /\ Scheduling' = Scheduling /\ Working' = Working
      /\ \A k \in Kind : Requests(k)' = Requests(k)
      /\ Scheduled' = Scheduled /\ held' = held
  <2>1. Scheduling' = Scheduling /\ Working' = Working
    BY <1>1 DEF Scheduling, Working
  <2>2. collected' = collected
    BY <1>1, <2>1 DEF collected
  <2>3. QED
    BY <1>1, <2>1, <2>2, HeldParts
<1>5. demand' = demand
  BY <1>1, <1>4 DEF demand
<1>6. EngineInv => EngineInv'
  <2>1. RequestInv => RequestInv'
    BY <1>1, <1>4 DEF RequestInv
  <2>2. (BudgetInv => BudgetInv') /\ (SeatsInv => SeatsInv')
    BY <1>1, <1>4, <1>5 DEF BudgetInv, SeatsInv
  <2>3. BatchInv => BatchInv'
    BY <1>1, <1>4, <1>5 DEF BatchInv
  <2>4. (ForkInv => ForkInv') /\ (LiveInv => LiveInv')
    BY <1>1, <1>4 DEF ForkInv, LiveInv
  <2>5. QED
    BY <1>1, <1>4, <2>1, <2>2, <2>3, <2>4 DEF EngineInv
<1>7. (MappedIsLive => MappedIsLive') /\ (RowsSufficeForBatch => RowsSufficeForBatch')
  BY <1>1, <1>4 DEF MappedIsLive, RowsSufficeForBatch
<1>8. QED
  BY <1>1, <1>2, <1>3, <1>6, <1>7 DEF MambaInv

LEMMA NextKeeps ==
    ASSUME MambaInv, Next
    PROVE  MambaInv'
<1>1. ASSUME NEW r \in Request, AddSeqGroup(r) \/ AbortSeqGroup(r) PROVE MambaInv'
  BY <1>1, AddSeqGroupKeeps, AbortSeqGroupKeeps
<1>2. CASE ScheduleRunning
  BY <1>2, ScheduleRunningStops, ScheduleRunningGoesOn
<1>3. CASE StartStep \/ PreemptByRecompute \/ PreemptBySwap \/ EndRunning
  BY <1>3, StartStepKeeps, PreemptByRecomputeKeeps, PreemptBySwapKeeps, EndRunningKeeps
<1>4. CASE SwapIn \/ IgnoreSwapped \/ EndSwapped
  BY <1>4, SwapInKeeps, IgnoreSwappedKeeps, EndSwappedKeeps
<1>5. CASE SchedulePrefill \/ IgnoreWaiting \/ EndSchedule
  BY <1>5, SchedulePrefillKeeps, IgnoreWaitingKeeps, EndScheduleKeeps
<1>6. CASE ReleaseFinishedRequests \/ CleanUp \/ Forward \/ ProcessOutputs
  BY <1>6, ReleaseFinishedRequestsKeeps, CleanUpKeeps, ForwardKeeps, ProcessOutputsKeeps
<1>7. CASE AssignRaises \/ AssignNewRequest \/ AssignSibling \/ AssignKnown
  BY <1>7, AssignRaisesKeeps, AssignNewRequestKeeps, AssignSiblingKeeps, AssignKnownKeeps
<1>8. QED
  BY <1>1, <1>2, <1>3, <1>4, <1>5, <1>6, <1>7 DEF Next

\* The inductive invariant of the queues, the step and the rows (scheduler.py and
\* mamba_cache.py): no request is in two places, what a step has scheduled fits its
\* budget, and the batch sits in the first rows.
THEOREM MambaInvariant == Spec => []MambaInv
<1>1. MambaInv /\ [Next]_vars => MambaInv'
  BY NextKeeps, StutterKeeps
<1>2. QED
  BY <1>1, InitKeeps, PTL DEF Spec

\* The queues, the batch and the mapping of mamba_cache.py have the values the code
\* gives them, however many requests and samples there are.
THEOREM MambaCacheTypes == Spec => []TypeOK
<1>1. MambaInv => TypeOK
  BY DEF MambaInv
<1>2. QED
  BY <1>1, MambaInvariant, PTL

\* However often _move_out_if_already_occupied, _swap_pair_indices_and_mappings and
\* _copy_mamba_cache move rows, the row of a sequence holds what the model was fed for
\* it and, before the fork, for the sequence it was forked from.
THEOREM StateIsNotMixed == Spec => []StateFollowsSequence
<1>1. MambaInv => StateFollowsSequence
  BY DEF MambaInv
<1>2. QED
  BY <1>1, MambaInvariant, PTL

\* A row that _release_finished_requests has not freed belongs to a request that some
\* queue or the step holds, whose id is on its way, or that the scheduler dropped.
THEOREM RowsDoNotLeak == Spec => []MappedIsLive
<1>1. MambaInv => MappedIsLive
  BY LiveIsLive DEF MambaInv
<1>2. QED
  BY <1>1, MambaInvariant, PTL

\* A batch that passes the assertions of schedule() never exceeds the cache, and
\* _clean_up_first_bs_blocks never calls _swap_indices, which does not exist.
THEOREM RowsSuffice == Spec => []RowsSufficeForBatch
<1>1. MambaInv => RowsSufficeForBatch
  BY DEF MambaInv, EngineInv, RowsSufficeForBatch
<1>2. QED
  BY <1>1, MambaInvariant, PTL
=============================================================================
