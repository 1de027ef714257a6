------------------------ MODULE CaptureServerProofs -------------------------
(***************************************************************************)
(* Proofs about the capture server, for every number of slots, every       *)
(* backlog cap and every set of display frames.                            *)
(*                                                                         *)
(* The model computes with folds: over the tokens of a drain, the records  *)
(* that a client reads, the frames of a read, the slots that stay open.    *)
(* FoldRuns turns a fold over a sequence into the values it takes, place   *)
(* by place, and the lemmas after it say so of each fold of the model; an  *)
(* induction over the places (Stays, Reaches) then needs one step.         *)
(*                                                                         *)
(* A replica is faithful because the records under way, read now, would    *)
(* leave the client where the server is (ReplicaInv): that is what each    *)
(* record that is sent, and each that is written, preserves.               *)
(***************************************************************************)
EXTENDS CaptureServer, Integers, FiniteSetTheorems, WellFoundedInduction, TLAPS

(* The inductive invariant *)

Texts(kind) == {Blank} \cup {f.text : f \in {g \in Frames : g.kind = kind}}
Snaps == [row : Texts("row"), cell : Texts("cell"), cur : Token]
Screens == [row : Texts("row"), cell : Texts("cell")]
Views == [row : Texts("row"), cell : Texts("cell"), cur : Token, seq : 0 .. MaxSeq, sure : BOOLEAN]
Clients == [est : BOOLEAN, kick : BOOLEAN, backlog : Seq(Record), due : [{"event", "ack"} -> Nat]]

\* Nothing is under way to a client that has no session or is kicked.  What is under way
\* to any other is what is due, but for an acknowledgement that the command which is
\* being executed has yet to put there.
GoodClient(c, owed) ==
  /\ c \in Clients
  /\ ~c.est => c = Closed
  /\ c.kick => c.backlog = <<>>
  /\ Count(c.backlog, "pairs") <= BacklogMax + 1
  /\ Live(c) => /\ Count(c.backlog, "event") = c.due["event"]
                /\ Count(c.backlog, "ack") + owed = c.due["ack"]

\* The view of a client once it has read what is under way to it.
Made(v, records) == FoldLeft(Read, v, records)

\* The frame that is under way, as a client that follows the bus knows it.
HeadOf(tok) == IF tok.part = "head" THEN tok ELSE Mark

\* The views that miss nothing, if they are as far as the server.
Synced(n, s, g) ==
  {v \in Views :
     /\ v.seq <= n
     /\ v.seq = n => /\ v.cur \in {HeadOf(s.cur), Mark}
                     /\ v.sure => v.cur = HeadOf(s.cur) /\ v.row = g.row /\ v.cell = g.cell}

StateInv ==
  /\ pc \in {"poll", "recv", "drain", "flush"} /\ turn \in Ports
  /\ open \in Seq(Ports) /\ IsInjective(open)
  /\ seq \in 0 .. MaxSeq
  /\ slot \in [Ports -> Clients] /\ \A i \in Ports : GoodClient(slot[i], 0)
  /\ \A i \in Ports : i \notin Range(open) => slot[i] = Closed
  /\ snap \in Snaps /\ screen \in Screens
  /\ close(snap).row = screen.row /\ close(snap).cell = screen.cell
  /\ view \in [Ports -> Views]

ReplicaInv ==
  \A i \in Watched :
    /\ ~slot[i].est => view[i] = Unseen
    /\ Live(slot[i]) => Made(view[i], slot[i].backlog) \in Synced(seq, snap, screen)

IInv == StateInv /\ ReplicaInv
-----------------------------------------------------------------------------
(* Numbers, the greatest member of a set, folds *)

LEMMA LeastExists ==
  ASSUME NEW S \in SUBSET Nat, S # {}
  PROVE  \E x \in S : \A y \in S : x <= y
  <1> DEFINE R == OpToRel(<, Nat)
  <1>1. PICK x \in S : \A y \in S : <<y, x>> \notin R
    <2> HIDE DEF R
    <2>1. IsWellFoundedOn(R, Nat)
      BY NatLessThanWellFounded DEF R
    <2> QED BY <2>1, WFMin
  <1>2. \A y \in S : x <= y
    <2> SUFFICES ASSUME NEW y \in S, y < x PROVE FALSE
      OBVIOUS
    <2>1. <<y, x>> \in R
      BY DEF OpToRel
    <2> QED BY <1>1, <2>1
  <1> QED BY <1>1, <1>2

\* What the first element has and every step keeps, all have.
LEMMA Stays ==
  ASSUME NEW V, NEW n \in Nat, NEW g, g[0] \in V,
         \A k \in 1 .. n : g[k - 1] \in V => g[k] \in V
  PROVE  \A k \in 0 .. n : g[k] \in V
  <1> DEFINE Bad == {k \in 0 .. n : g[k] \notin V}
  <1> SUFFICES ASSUME Bad # {} PROVE FALSE
    OBVIOUS
  <1>1. PICK j \in Bad : \A i \in Bad : j <= i
    <2> HIDE DEF Bad
    <2>1. Bad \in SUBSET Nat
      BY DEF Bad
    <2> QED BY <2>1, LeastExists
  <1>2. j # 0
    BY <1>1
  <1>3. j \in 1 .. n /\ j - 1 \in 0 .. n /\ ~(j <= j - 1)
    BY <1>1, <1>2
  <1>4. j - 1 \notin Bad
    <2> HIDE DEF Bad
    <2> QED BY <1>1, <1>3
  <1> QED BY <1>1, <1>3, <1>4

\* The greatest of some numbers up to n.
LEMMA MaxIsGreatest ==
  ASSUME NEW n \in Nat, NEW u \in SUBSET (0 .. n), u # {}
  PROVE  Max(u) \in u /\ \A y \in u : Max(u) >= y
  <1> DEFINE D == {n - y : y \in u}
  <1>1. PICK d \in D : \A e \in D : d <= e
    <2>1. \A y \in u : y \in Nat /\ y <= n /\ n - y \in Nat
      OBVIOUS
    <2>2. D \in SUBSET Nat /\ D # {}
      BY <2>1
    <2> HIDE DEF D
    <2> QED BY <2>2, LeastExists
  <1>2. PICK x \in u : d = n - x
    BY <1>1
  <1>3. \A y \in u : x >= y
    <2> SUFFICES ASSUME NEW y \in u PROVE x >= y
      OBVIOUS
    <2>1. n - y \in D
      OBVIOUS
    <2>2. d <= n - y
      BY <1>1, <2>1
    <2> QED BY <1>2, <2>2
  <1> QED BY <1>3 DEF Max

LEMMA MaxOfInterval ==
  ASSUME NEW n \in Nat, NEW k \in 1 .. n
  PROVE  1 .. k \in SUBSET (1 .. n) /\ 1 .. k # {} /\ Max(1 .. k) = k /\ (1 .. k) \ {k} = 1 .. (k - 1)
  <1>1. 1 .. k \in SUBSET (0 .. n) /\ k \in 1 .. k
    OBVIOUS
  <1>2. Max(1 .. k) \in 1 .. k /\ Max(1 .. k) >= k
    BY <1>1, MaxIsGreatest
  <1>3. Max(1 .. k) = k
    BY <1>2
  <1>4. (1 .. k) \ {k} = 1 .. (k - 1)
    OBVIOUS
  <1> QED BY <1>1, <1>3, <1>4

\* h is what the fold of the transitions T over each set of the first m places yields.
FoldsTo(h, base, T, m) ==
  \A u \in SUBSET (1 .. m) : h[u] = IF u = {} THEN base ELSE T[Max(u)][h[u \ {Max(u)}]]

\* One place more.
LEMMA FoldGrows ==
  ASSUME NEW V, NEW base \in V, NEW n \in Nat, NEW T \in [1 .. n -> [V -> V]], NEW m \in 1 .. n,
         NEW h \in [SUBSET (1 .. (m - 1)) -> V], FoldsTo(h, base, T, m - 1)
  PROVE  \E f \in [SUBSET (1 .. m) -> V] : FoldsTo(f, base, T, m)
  <1> DEFINE f == [u \in SUBSET (1 .. m) |-> IF m \in u THEN T[m][h[u \ {m}]] ELSE h[u]]
  <1>1. ASSUME NEW u \in SUBSET (1 .. m), m \in u
        PROVE  u \ {m} \in SUBSET (1 .. (m - 1)) /\ u # {} /\ Max(u) = m
    <2>1. u \in SUBSET (0 .. m) /\ u # {} /\ m \in Nat
      BY <1>1
    <2>2. Max(u) \in u /\ Max(u) >= m
      BY <1>1, <2>1, MaxIsGreatest, Zenon
    <2>3. \A y \in u : y \in Nat /\ y <= m
      OBVIOUS
    <2>4. Max(u) = m
      <3>1. \A x \in u : x >= m => x = m
        BY <2>3
      <3> QED BY <2>2, <3>1, Zenon
    <2>5. \A y \in u \ {m} : y \in 1 .. (m - 1)
      BY <2>3
    <2> QED BY <2>1, <2>4, <2>5
  <1>2. ASSUME NEW u \in SUBSET (1 .. m), m \notin u
        PROVE  u \in SUBSET (1 .. (m - 1))
    <2>1. \A y \in u : y \in 1 .. (m - 1)
      BY <1>2
    <2> QED BY <2>1
  <1>3. f \in [SUBSET (1 .. m) -> V]
    <2> SUFFICES ASSUME NEW u \in SUBSET (1 .. m)
                 PROVE  (IF m \in u THEN T[m][h[u \ {m}]] ELSE h[u]) \in V
      OBVIOUS
    <2>1. CASE m \in u
      <3>1. h[u \ {m}] \in V
        BY <1>1, <2>1
      <3>2. T[m] \in [V -> V]
        OBVIOUS
      <3> QED BY <2>1, <3>1, <3>2
    <2>2. CASE m \notin u
      BY <1>2, <2>2
    <2> QED BY <2>1, <2>2
  <1>4. ASSUME NEW u \in SUBSET (1 .. m)
        PROVE  f[u] = IF u = {} THEN base ELSE T[Max(u)][f[u \ {Max(u)}]]
    <2>1. CASE m \in u
      <3>1. u \ {m} \in SUBSET (1 .. (m - 1)) /\ u # {} /\ Max(u) = m
        BY <1>1, <2>1
      <3>2. f[u] = T[m][h[u \ {m}]]
        BY <2>1
      <3>3. u \ {m} \in SUBSET (1 .. m) /\ m \notin u \ {m}
        OBVIOUS
      <3>4. f[u \ {m}] = h[u \ {m}]
        BY <3>3
      <3> HIDE DEF f
      <3> QED BY <3>1, <3>2, <3>4, Zenon
    <2>2. CASE m \notin u /\ u # {}
      <3>1. u \in SUBSET (1 .. (m - 1)) /\ f[u] = h[u]
        BY <1>2, <2>2
      <3>2. h[u] = T[Max(u)][h[u \ {Max(u)}]]
        BY <2>2, <3>1 DEF FoldsTo
      <3>3. u \ {Max(u)} \in SUBSET (1 .. m) /\ m \notin u \ {Max(u)}
        BY <2>2
      <3>4. f[u \ {Max(u)}] = h[u \ {Max(u)}]
        BY <3>3
      <3> HIDE DEF f
      <3> QED BY <2>2, <3>1, <3>2, <3>4, Zenon
    <2>3. CASE u = {}
      <3>1. u \in SUBSET (1 .. (m - 1)) /\ f[u] = h[u]
        BY <2>3
      <3>2. h[u] = base
        BY <2>3, <3>1 DEF FoldsTo
      <3> HIDE DEF f
      <3> QED BY <2>3, <3>1, <3>2
    <2> QED BY <2>1, <2>2, <2>3
  <1> HIDE DEF f
  <1> QED BY <1>3, <1>4 DEF FoldsTo

\* A fold has a value for every set of places.
LEMMA FoldExists ==
  ASSUME NEW V, NEW base \in V, NEW n \in Nat, NEW T \in [1 .. n -> [V -> V]]
  PROVE  \E h \in [SUBSET (1 .. n) -> V] : FoldsTo(h, base, T, n)
  <1> DEFINE Done == {m \in 0 .. n : \E h \in [SUBSET (1 .. m) -> V] : FoldsTo(h, base, T, m)}
             g == [m \in 0 .. n |-> m]
  <1>1. 0 \in Done
    <2> DEFINE h == [u \in SUBSET (1 .. 0) |-> base]
    <2>1. h \in [SUBSET (1 .. 0) -> V]
      OBVIOUS
    <2>2. \A u \in SUBSET (1 .. 0) : u = {} /\ h[u] = base
      OBVIOUS
    <2>3. FoldsTo(h, base, T, 0)
      BY <2>2 DEF FoldsTo
    <2> HIDE DEF h
    <2>4. 0 \in 0 .. n
      OBVIOUS
    <2> QED BY <2>1, <2>3, <2>4
  <1>2. ASSUME NEW m \in 1 .. n, m - 1 \in Done PROVE m \in Done
    <2>1. PICK h \in [SUBSET (1 .. (m - 1)) -> V] : FoldsTo(h, base, T, m - 1)
      BY <1>2
    <2>2. \E f \in [SUBSET (1 .. m) -> V] : FoldsTo(f, base, T, m)
      BY <2>1, FoldGrows
    <2> QED BY <2>2
  <1>3. g[0] = 0 /\ \A k \in 1 .. n : g[k - 1] = k - 1 /\ g[k] = k
    OBVIOUS
  <1>4. g[n] \in Done
    <2>1. g[n] = n
      OBVIOUS
    <2> HIDE DEF g, Done
    <2>2. \A k \in 0 .. n : g[k] \in Done
      <3>1. g[0] \in Done /\ \A k \in 1 .. n : g[k - 1] \in Done => g[k] \in Done
        BY <1>1, <1>2, <1>3, Zenon
      <3> QED BY <3>1, Stays
    <2> QED BY <2>2
  <1>5. g[n] = n
    OBVIOUS
  <1> HIDE DEF g
  <1> QED BY <1>4, <1>5

-----------------------------------------------------------------------------
(* Counting records *)

Places(records, type) == {k \in DOMAIN records : records[k].type = type}

LEMMA CountIsCardinality ==
  ASSUME NEW s, NEW type
  PROVE  Count(s, type) = Cardinality(Places(s, type))
  BY Zenon DEF Count, Places

LEMMA PlacesFinite ==
  ASSUME NEW V, NEW s \in Seq(V), NEW type
  PROVE  IsFiniteSet(Places(s, type)) /\ Count(s, type) \in Nat
  <1>1. IsFiniteSet(1 .. Len(s)) /\ Places(s, type) \in SUBSET (1 .. Len(s))
    BY FS_Interval DEF Places
  <1>2. IsFiniteSet(Places(s, type))
    BY <1>1, FS_Subset
  <1> QED BY <1>2, FS_CardinalityType, CountIsCardinality

LEMMA CountNone == \A type : Count(<<>>, type) = 0
  <1> SUFFICES ASSUME NEW type PROVE Count(<<>>, type) = 0
    OBVIOUS
  <1>1. Places(<<>>, type) = {}
    BY DEF Places
  <1> QED BY <1>1, FS_EmptySet, CountIsCardinality

LEMMA CountAppend ==
  ASSUME NEW V, NEW s \in Seq(V), NEW r \in V, NEW type
  PROVE  Count(Append(s, r), type) = Count(s, type) + (IF r.type = type THEN 1 ELSE 0)
  <1>1. IsFiniteSet(Places(s, type)) /\ Count(s, type) \in Nat
    BY PlacesFinite
  <1>2. Len(s) + 1 \notin Places(s, type)
    BY DEF Places
  <1>3. CASE r.type = type
    <2> DEFINE t == Append(s, r)
    <2>1. /\ DOMAIN t = 1 .. Len(s) + 1 /\ DOMAIN s = 1 .. Len(s) /\ t[Len(s) + 1] = r
          /\ \A k \in 1 .. Len(s) : t[k] = s[k]
      OBVIOUS
    <2>2. \A k : k \in 1 .. Len(s) + 1 <=> k \in 1 .. Len(s) \/ k = Len(s) + 1
      OBVIOUS
    <2>3. Places(t, type) = Places(s, type) \cup {Len(s) + 1}
      <3> HIDE DEF t
      <3> QED BY <1>3, <2>1, <2>2 DEF Places
    <2> QED BY <1>1, <1>2, <1>3, <2>3, FS_AddElement, CountIsCardinality
  <1>4. CASE r.type # type
    <2>1. Places(Append(s, r), type) = Places(s, type)
      BY <1>4 DEF Places
    <2> QED BY <1>1, <1>4, <2>1, CountIsCardinality
  <1> QED BY <1>3, <1>4

\* What is taken from the front and what stays behind.
LEMMA CountSplit ==
  ASSUME NEW V, NEW s \in Seq(V), NEW n \in 0 .. Len(s), NEW type
  PROVE  Count(s, type) = Count(SubSeq(s, 1, n), type) + Count(SubSeq(s, n + 1, Len(s)), type)
  <1> DEFINE a == SubSeq(s, 1, n)
             b == SubSeq(s, n + 1, Len(s))
             F == Places(a, type)
             B == Places(b, type)
             S == {k \in Places(s, type) : k > n}
             f == [k \in B |-> n + k]
  <1>1. /\ a \in Seq(V) /\ Len(a) = n /\ \A k \in 1 .. n : a[k] = s[k]
        /\ b \in Seq(V) /\ Len(b) = Len(s) - n /\ \A k \in 1 .. Len(s) - n : b[k] = s[n + k]
    OBVIOUS
  <1>2. IsFiniteSet(F) /\ IsFiniteSet(B) /\ IsFiniteSet(Places(s, type))
    BY <1>1, PlacesFinite
  <1>3. F \subseteq Nat /\ B \subseteq Nat /\ Count(a, type) \in Nat /\ Count(b, type) \in Nat
    <2>1. Count(a, type) \in Nat /\ Count(b, type) \in Nat
      BY <1>1, PlacesFinite
    <2>2. DOMAIN a = 1 .. n /\ DOMAIN b = 1 .. Len(s) - n
      BY <1>1
    <2> HIDE DEF a, b
    <2>3. F \subseteq 1 .. n /\ B \subseteq 1 .. Len(s) - n
      BY <2>2 DEF Places
    <2> HIDE DEF F, B
    <2> QED BY <2>1, <2>3
  <1>4. F = {k \in Places(s, type) : k <= n}
    <2>1. DOMAIN a = 1 .. n /\ DOMAIN s = 1 .. Len(s)
      BY <1>1
    <2> HIDE DEF a
    <2>2. F = {k \in 1 .. n : s[k].type = type}
      BY <1>1, <2>1 DEF Places
    <2>3. \A k : k \in 1 .. n <=> k \in 1 .. Len(s) /\ k <= n
      OBVIOUS
    <2> HIDE DEF F
    <2> QED BY <2>1, <2>2, <2>3 DEF Places
  <1>5. Places(s, type) = F \cup S /\ F \cap S = {}
    <2> HIDE DEF F
    <2> QED BY <1>4 DEF Places
  <1>6. \A k \in B : n + k \in S
    BY <1>1 DEF Places
  <1>7. \A k \in S : k - n \in B /\ n + (k - n) = k
    BY <1>1 DEF Places
  <1>8. f \in Bijection(B, S)
    <2>1. f \in [B -> S]
      BY <1>6
    <2>2. \A x, y \in B : f[x] = f[y] => x = y
      BY <1>3
    <2>3. \A k \in S : \E x \in B : f[x] = k
      BY <1>7
    <2> HIDE DEF f, B, S
    <2>4. f \in Injection(B, S)
      BY <2>1, <2>2 DEF Injection, IsInjective
    <2>5. f \in Surjection(B, S)
      BY <2>1, <2>3 DEF Surjection
    <2> QED BY <2>4, <2>5 DEF Bijection
  <1>9. Cardinality(S) = Cardinality(B) /\ IsFiniteSet(S)
    <2> HIDE DEF f, B, S
    <2>1. ExistsBijection(B, S)
      BY <1>8 DEF ExistsBijection
    <2> QED BY <1>2, <2>1, FS_Bijection
  <1>10. Cardinality(F \cup S) = Cardinality(F) + Cardinality(S)
    <2> HIDE DEF F, S
    <2>1. Cardinality(F) \in Nat /\ Cardinality(S) \in Nat
      BY <1>2, <1>9, FS_CardinalityType
    <2>2. Cardinality(F \cup S) = Cardinality(F) + Cardinality(S) - Cardinality(F \cap S)
      BY <1>2, <1>9, FS_Union, Zenon
    <2>3. Cardinality(F \cap S) = 0
      BY <1>5, FS_EmptySet
    <2> QED BY <2>1, <2>2, <2>3
  <1> HIDE DEF F, B, S
  <1>11. Count(s, type) = Cardinality(F) + Cardinality(B)
    BY <1>5, <1>9, <1>10, CountIsCardinality
  <1>12. Count(a, type) = Cardinality(F) /\ Count(b, type) = Cardinality(B)
    BY CountIsCardinality DEF F, B
  <1> HIDE DEF a, b
  <1>13. Count(s, type) = Count(a, type) + Count(b, type)
    BY <1>11, <1>12
  <1> QED BY <1>13 DEF a, b

\* g unfolds like the fold of the transitions T, as long as its values are in V.
Unfolds(g, V, base, T, n) ==
  \A u \in SUBSET (1 .. n) :
    /\ u = {} => g[u] = base
    /\ u # {} /\ g[u \ {Max(u)}] \in V => g[u] = T[Max(u)][g[u \ {Max(u)}]]

\* t is what the fold leaves after each place, and last what it leaves at the end.
IsRun(t, base, T, n, last) == t[0] = base /\ t[n] = last /\ \A k \in 1 .. n : t[k] = T[k][t[k - 1]]

LEMMA FoldRuns ==
  ASSUME NEW V, NEW base \in V, NEW n \in Nat, NEW T \in [1 .. n -> [V -> V]], NEW g,
         Unfolds(g, V, base, T, n)
  PROVE  \E t \in [0 .. n -> V] : IsRun(t, base, T, n, g[1 .. n])
  <1> DEFINE t == [k \in 0 .. n |-> g[1 .. k]]
  <1>1. t[0] = base
    <2>1. 1 .. 0 = {} /\ 1 .. 0 \in SUBSET (1 .. n)
      OBVIOUS
    <2>2. t[0] = g[1 .. 0]
      OBVIOUS
    <2> HIDE DEF t
    <2> QED BY <2>1, <2>2, Zenon DEF Unfolds
  <1>2. ASSUME NEW k \in 1 .. n, t[k - 1] \in V PROVE t[k] = T[k][t[k - 1]] /\ t[k] \in V
    <2>1. 1 .. k \in SUBSET (1 .. n) /\ 1 .. k # {} /\ Max(1 .. k) = k /\ (1 .. k) \ {k} = 1 .. (k - 1)
      BY MaxOfInterval
    <2>2. t[k - 1] = g[1 .. (k - 1)] /\ t[k] = g[1 .. k]
      OBVIOUS
    <2> HIDE DEF t
    <2>3. g[(1 .. k) \ {Max(1 .. k)}] \in V
      BY <1>2, <2>1, <2>2, Zenon
    <2>4. g[1 .. k] = T[Max(1 .. k)][g[(1 .. k) \ {Max(1 .. k)}]]
      BY <2>1, <2>3, Zenon DEF Unfolds
    <2>5. t[k] = T[k][t[k - 1]]
      BY <2>1, <2>2, <2>4, Zenon
    <2> QED BY <1>2, <2>5
  <1>3. t[n] = g[1 .. n] /\ t = [k \in 0 .. n |-> t[k]]
    OBVIOUS
  <1> HIDE DEF t
  <1>4. \A k \in 0 .. n : t[k] \in V
    BY <1>1, <1>2, Stays
  <1>5. t \in [0 .. n -> V]
    BY <1>3, <1>4
  <1>6. \A k \in 1 .. n : t[k - 1] \in V
    BY <1>4
  <1>7. IsRun(t, base, T, n, g[1 .. n])
    BY <1>1, <1>2, <1>3, <1>6, Zenon DEF IsRun
  <1> QED BY <1>5, <1>7

-----------------------------------------------------------------------------
(* The folds of the model, place by place *)

DecodeRun(t, base, s, last) ==
  t[0] = base /\ t[Len(s)] = last
  /\ \A k \in 1 .. Len(s) : t[k] = Decode(t[k - 1], s[k])

LEMMA DecodeRuns ==
  ASSUME NEW V, NEW base \in V, NEW W, NEW s \in Seq(W),
         \A v \in V : \A k \in 1 .. Len(s) : Decode(v, s[k]) \in V
  PROVE  \E t \in [0 .. Len(s) -> V] : DecodeRun(t, base, s, FoldLeft(Decode, base, s))
  <1> DEFINE T == [k \in 1 .. Len(s) |-> [v \in V |-> Decode(v, s[k])]]
             Is(iter) == iter = [u \in SUBSET (DOMAIN s) |->
                                   IF u = {} THEN base ELSE Decode(iter[u \ {Max(u)}], s[Max(u)])]
             g == CHOOSE iter : Is(iter)
  <1>1. T \in [1 .. Len(s) -> [V -> V]] /\ Len(s) \in Nat /\ DOMAIN s = 1 .. Len(s)
    OBVIOUS
  <1>2. \A k \in 1 .. Len(s) : \A v \in V : T[k][v] = Decode(v, s[k])
    OBVIOUS
  <1>3. \A u \in SUBSET (1 .. Len(s)) : u # {} => Max(u) \in 1 .. Len(s)
    <2> SUFFICES ASSUME NEW u \in SUBSET (1 .. Len(s)), u # {} PROVE Max(u) \in 1 .. Len(s)
      OBVIOUS
    <2>1. u \in SUBSET (0 .. Len(s))
      BY <1>1
    <2> QED BY <1>1, <2>1, MaxIsGreatest
  <1>4. FoldLeft(Decode, base, s) = g[DOMAIN s]
    BY Zenon DEF FoldLeft, MapThenFoldSet
  <1> HIDE DEF T
  <1>5. PICK h \in [SUBSET (1 .. Len(s)) -> V] : FoldsTo(h, base, T, Len(s))
    BY <1>1, FoldExists
  <1>6. Is(h)
    <2>1. ASSUME NEW u \in SUBSET (1 .. Len(s)), u # {}
          PROVE  h[u] = Decode(h[u \ {Max(u)}], s[Max(u)])
      <3>1. h[u] = T[Max(u)][h[u \ {Max(u)}]]
        BY <1>5, <2>1 DEF FoldsTo
      <3>2. h[u \ {Max(u)}] \in V /\ Max(u) \in 1 .. Len(s)
        BY <1>3, <2>1
      <3> QED BY <1>2, <3>1, <3>2
    <2>2. h[{}] = base
      BY <1>5 DEF FoldsTo
    <2> QED BY <1>1, <2>1, <2>2
  <1>7. Is(g)
    BY <1>6, Zenon
  <1> HIDE DEF g
  <1>8. \A u \in SUBSET (1 .. Len(s)) :
          /\ u = {} => g[u] = base
          /\ u # {} => g[u] = Decode(g[u \ {Max(u)}], s[Max(u)])
    BY <1>1, <1>7
  <1> HIDE DEF Is
  <1>9. Unfolds(g, V, base, T, Len(s))
    BY <1>2, <1>3, <1>8, Zenon DEF Unfolds
  <1>10. PICK t \in [0 .. Len(s) -> V] : IsRun(t, base, T, Len(s), g[1 .. Len(s)])
    BY <1>1, <1>9, FoldRuns
  <1>11. \A k \in 1 .. Len(s) : t[k] = Decode(t[k - 1], s[k])
    <2>1. \A k \in 1 .. Len(s) : k - 1 \in 0 .. Len(s) /\ t[k - 1] \in V
      BY <1>1, <1>10
    <2> QED BY <1>2, <1>10, <2>1, Zenon DEF IsRun
  <1>12. DecodeRun(t, base, s, FoldLeft(Decode, base, s))
    <2>1. t[0] = base /\ t[Len(s)] = FoldLeft(Decode, base, s)
      BY <1>1, <1>4, <1>10, Zenon DEF IsRun
    <2> QED BY <1>11, <2>1, Zenon DEF DecodeRun
  <1> QED BY <1>12, Zenon

ReadRun(t, base, s, last) ==
  t[0] = base /\ t[Len(s)] = last
  /\ \A k \in 1 .. Len(s) : t[k] = Read(t[k - 1], s[k])

LEMMA ReadRuns ==
  ASSUME NEW V, NEW base \in V, NEW W, NEW s \in Seq(W),
         \A v \in V : \A k \in 1 .. Len(s) : Read(v, s[k]) \in V
  PROVE  \E t \in [0 .. Len(s) -> V] : ReadRun(t, base, s, Made(base, s))
  <1> DEFINE T == [k \in 1 .. Len(s) |-> [v \in V |-> Read(v, s[k])]]
             Is(iter) == iter = [u \in SUBSET (DOMAIN s) |->
                                   IF u = {} THEN base ELSE Read(iter[u \ {Max(u)}], s[Max(u)])]
             g == CHOOSE iter : Is(iter)
  <1>1. T \in [1 .. Len(s) -> [V -> V]] /\ Len(s) \in Nat /\ DOMAIN s = 1 .. Len(s)
    OBVIOUS
  <1>2. \A k \in 1 .. Len(s) : \A v \in V : T[k][v] = Read(v, s[k])
    OBVIOUS
  <1>3. \A u \in SUBSET (1 .. Len(s)) : u # {} => Max(u) \in 1 .. Len(s)
    <2> SUFFICES ASSUME NEW u \in SUBSET (1 .. Len(s)), u # {} PROVE Max(u) \in 1 .. Len(s)
      OBVIOUS
    <2>1. u \in SUBSET (0 .. Len(s))
      BY <1>1
    <2> QED BY <1>1, <2>1, MaxIsGreatest
  <1>4. Made(base, s) = g[DOMAIN s]
    BY Zenon DEF Made, FoldLeft, MapThenFoldSet
  <1> HIDE DEF T
  <1>5. PICK h \in [SUBSET (1 .. Len(s)) -> V] : FoldsTo(h, base, T, Len(s))
    BY <1>1, FoldExists
  <1>6. Is(h)
    <2>1. ASSUME NEW u \in SUBSET (1 .. Len(s)), u # {}
          PROVE  h[u] = Read(h[u \ {Max(u)}], s[Max(u)])
      <3>1. h[u] = T[Max(u)][h[u \ {Max(u)}]]
        BY <1>5, <2>1 DEF FoldsTo
      <3>2. h[u \ {Max(u)}] \in V /\ Max(u) \in 1 .. Len(s)
        BY <1>3, <2>1
      <3> QED BY <1>2, <3>1, <3>2
    <2>2. h[{}] = base
      BY <1>5 DEF FoldsTo
    <2> QED BY <1>1, <2>1, <2>2
  <1>7. Is(g)
    BY <1>6, Zenon
  <1> HIDE DEF g
  <1>8. \A u \in SUBSET (1 .. Len(s)) :
          /\ u = {} => g[u] = base
          /\ u # {} => g[u] = Read(g[u \ {Max(u)}], s[Max(u)])
    BY <1>1, <1>7
  <1> HIDE DEF Is
  <1>9. Unfolds(g, V, base, T, Len(s))
    BY <1>2, <1>3, <1>8, Zenon DEF Unfolds
  <1>10. PICK t \in [0 .. Len(s) -> V] : IsRun(t, base, T, Len(s), g[1 .. Len(s)])
    BY <1>1, <1>9, FoldRuns
  <1>11. \A k \in 1 .. Len(s) : t[k] = Read(t[k - 1], s[k])
    <2>1. \A k \in 1 .. Len(s) : k - 1 \in 0 .. Len(s) /\ t[k - 1] \in V
      BY <1>1, <1>10
    <2> QED BY <1>2, <1>10, <2>1, Zenon DEF IsRun
  <1>12. ReadRun(t, base, s, Made(base, s))
    <2>1. t[0] = base /\ t[Len(s)] = Made(base, s)
      BY <1>1, <1>4, <1>10, Zenon DEF IsRun
    <2> QED BY <1>11, <2>1, Zenon DEF ReadRun
  <1> QED BY <1>12, Zenon

FeedRun(t, base, s, last) ==
  t[0] = base /\ t[Len(s)] = last
  /\ \A k \in 1 .. Len(s) : t[k] = feed(t[k - 1], s[k])

LEMMA FeedRuns ==
  ASSUME NEW V, NEW base \in V, NEW W, NEW s \in Seq(W),
         \A v \in V : \A k \in 1 .. Len(s) : feed(v, s[k]) \in V
  PROVE  \E t \in [0 .. Len(s) -> V] : FeedRun(t, base, s, FoldLeft(feed, base, s))
  <1> DEFINE T == [k \in 1 .. Len(s) |-> [v \in V |-> feed(v, s[k])]]
             Is(iter) == iter = [u \in SUBSET (DOMAIN s) |->
                                   IF u = {} THEN base ELSE feed(iter[u \ {Max(u)}], s[Max(u)])]
             g == CHOOSE iter : Is(iter)
  <1>1. T \in [1 .. Len(s) -> [V -> V]] /\ Len(s) \in Nat /\ DOMAIN s = 1 .. Len(s)
    OBVIOUS
  <1>2. \A k \in 1 .. Len(s) : \A v \in V : T[k][v] = feed(v, s[k])
    OBVIOUS
  <1>3. \A u \in SUBSET (1 .. Len(s)) : u # {} => Max(u) \in 1 .. Len(s)
    <2> SUFFICES ASSUME NEW u \in SUBSET (1 .. Len(s)), u # {} PROVE Max(u) \in 1 .. Len(s)
      OBVIOUS
    <2>1. u \in SUBSET (0 .. Len(s))
      BY <1>1
    <2> QED BY <1>1, <2>1, MaxIsGreatest
  <1>4. FoldLeft(feed, base, s) = g[DOMAIN s]
    BY Zenon DEF FoldLeft, MapThenFoldSet
  <1> HIDE DEF T
  <1>5. PICK h \in [SUBSET (1 .. Len(s)) -> V] : FoldsTo(h, base, T, Len(s))
    BY <1>1, FoldExists
  <1>6. Is(h)
    <2>1. ASSUME NEW u \in SUBSET (1 .. Len(s)), u # {}
          PROVE  h[u] = feed(h[u \ {Max(u)}], s[Max(u)])
      <3>1. h[u] = T[Max(u)][h[u \ {Max(u)}]]
        BY <1>5, <2>1 DEF FoldsTo
      <3>2. h[u \ {Max(u)}] \in V /\ Max(u) \in 1 .. Len(s)
        BY <1>3, <2>1
      <3> QED BY <1>2, <3>1, <3>2
    <2>2. h[{}] = base
      BY <1>5 DEF FoldsTo
    <2> QED BY <1>1, <2>1, <2>2
  <1>7. Is(g)
    BY <1>6, Zenon
  <1> HIDE DEF g
  <1>8. \A u \in SUBSET (1 .. Len(s)) :
          /\ u = {} => g[u] = base
          /\ u # {} => g[u] = feed(g[u \ {Max(u)}], s[Max(u)])
    BY <1>1, <1>7
  <1> HIDE DEF Is
  <1>9. Unfolds(g, V, base, T, Len(s))
    BY <1>2, <1>3, <1>8, Zenon DEF Unfolds
  <1>10. PICK t \in [0 .. Len(s) -> V] : IsRun(t, base, T, Len(s), g[1 .. Len(s)])
    BY <1>1, <1>9, FoldRuns
  <1>11. \A k \in 1 .. Len(s) : t[k] = feed(t[k - 1], s[k])
    <2>1. \A k \in 1 .. Len(s) : k - 1 \in 0 .. Len(s) /\ t[k - 1] \in V
      BY <1>1, <1>10
    <2> QED BY <1>2, <1>10, <2>1, Zenon DEF IsRun
  <1>12. FeedRun(t, base, s, FoldLeft(feed, base, s))
    <2>1. t[0] = base /\ t[Len(s)] = FoldLeft(feed, base, s)
      BY <1>1, <1>4, <1>10, Zenon DEF IsRun
    <2> QED BY <1>11, <2>1, Zenon DEF FeedRun
  <1> QED BY <1>12, Zenon

PaintFold(base, s) ==
  FoldLeft(LAMBDA g, tok : IF tok.part = "tail" THEN Painted(g, tok.f) ELSE g, base, s)
PaintRun(t, base, s, last) ==
  t[0] = base /\ t[Len(s)] = last
  /\ \A k \in 1 .. Len(s) : t[k] = (IF s[k].part = "tail" THEN Painted(t[k - 1], s[k].f) ELSE t[k - 1])

LEMMA PaintRuns ==
  ASSUME NEW V, NEW base \in V, NEW W, NEW s \in Seq(W),
         \A v \in V : \A k \in 1 .. Len(s) : (IF s[k].part = "tail" THEN Painted(v, s[k].f) ELSE v) \in V
  PROVE  \E t \in [0 .. Len(s) -> V] : PaintRun(t, base, s, PaintFold(base, s))
  <1> DEFINE T == [k \in 1 .. Len(s) |-> [v \in V |-> (IF s[k].part = "tail" THEN Painted(v, s[k].f) ELSE v)]]
             Is(iter) == iter = [u \in SUBSET (DOMAIN s) |->
                                   IF u = {} THEN base
                                   ELSE (IF s[Max(u)].part = "tail"
                                         THEN Painted(iter[u \ {Max(u)}], s[Max(u)].f)
                                         ELSE iter[u \ {Max(u)}])]
             g == CHOOSE iter : Is(iter)
  <1>1. T \in [1 .. Len(s) -> [V -> V]] /\ Len(s) \in Nat /\ DOMAIN s = 1 .. Len(s)
    OBVIOUS
  <1>2. \A k \in 1 .. Len(s) : \A v \in V : T[k][v] = (IF s[k].part = "tail" THEN Painted(v, s[k].f) ELSE v)
    OBVIOUS
  <1>3. \A u \in SUBSET (1 .. Len(s)) : u # {} => Max(u) \in 1 .. Len(s)
    <2> SUFFICES ASSUME NEW u \in SUBSET (1 .. Len(s)), u # {} PROVE Max(u) \in 1 .. Len(s)
      OBVIOUS
    <2>1. u \in SUBSET (0 .. Len(s))
      BY <1>1
    <2> QED BY <1>1, <2>1, MaxIsGreatest
  <1>4. PaintFold(base, s) = g[DOMAIN s]
    BY Zenon DEF PaintFold, FoldLeft, MapThenFoldSet
  <1> HIDE DEF T
  <1>5. PICK h \in [SUBSET (1 .. Len(s)) -> V] : FoldsTo(h, base, T, Len(s))
    BY <1>1, FoldExists
  <1>6. Is(h)
    <2>1. ASSUME NEW u \in SUBSET (1 .. Len(s)), u # {}
          PROVE  h[u] = (IF s[Max(u)].part = "tail" THEN Painted(h[u \ {Max(u)}], s[Max(u)].f) ELSE h[u \ {Max(u)}])
      <3>1. h[u] = T[Max(u)][h[u \ {Max(u)}]]
        BY <1>5, <2>1 DEF FoldsTo
      <3>2. h[u \ {Max(u)}] \in V /\ Max(u) \in 1 .. Len(s)
        BY <1>3, <2>1
      <3> QED BY <1>2, <3>1, <3>2
    <2>2. h[{}] = base
      BY <1>5 DEF FoldsTo
    <2> QED BY <1>1, <2>1, <2>2
  <1>7. Is(g)
    BY <1>6, Zenon
  <1> HIDE DEF g
  <1>8. \A u \in SUBSET (1 .. Len(s)) :
          /\ u = {} => g[u] = base
          /\ u # {} => g[u] = (IF s[Max(u)].part = "tail"
                              THEN Painted(g[u \ {Max(u)}], s[Max(u)].f) ELSE g[u \ {Max(u)}])
    BY <1>1, <1>7
  <1> HIDE DEF Is
  <1>9. Unfolds(g, V, base, T, Len(s))
    BY <1>2, <1>3, <1>8, Zenon DEF Unfolds
  <1>10. PICK t \in [0 .. Len(s) -> V] : IsRun(t, base, T, Len(s), g[1 .. Len(s)])
    BY <1>1, <1>9, FoldRuns
  <1>11. \A k \in 1 .. Len(s) : t[k] = (IF s[k].part = "tail" THEN Painted(t[k - 1], s[k].f) ELSE t[k - 1])
    <2>1. \A k \in 1 .. Len(s) : k - 1 \in 0 .. Len(s) /\ t[k - 1] \in V
      BY <1>1, <1>10
    <2> QED BY <1>2, <1>10, <2>1, Zenon DEF IsRun
  <1>12. PaintRun(t, base, s, PaintFold(base, s))
    <2>1. t[0] = base /\ t[Len(s)] = PaintFold(base, s)
      BY <1>1, <1>4, <1>10, Zenon DEF IsRun
    <2> QED BY <1>11, <2>1, Zenon DEF PaintRun
  <1> QED BY <1>12, Zenon

SendFold(cut, base, s) ==
  FoldLeft(LAMBDA b, f : out(b, Replay(f), cut), base, s)
SendRun(t, cut, base, s, last) ==
  t[0] = base /\ t[Len(s)] = last
  /\ \A k \in 1 .. Len(s) : t[k] = out(t[k - 1], Replay(s[k]), cut)

LEMMA SendRuns ==
  ASSUME NEW V, NEW cut, NEW base \in V, NEW W, NEW s \in Seq(W),
         \A v \in V : \A k \in 1 .. Len(s) : out(v, Replay(s[k]), cut) \in V
  PROVE  \E t \in [0 .. Len(s) -> V] : SendRun(t, cut, base, s, SendFold(cut, base, s))
  <1> DEFINE T == [k \in 1 .. Len(s) |-> [v \in V |-> out(v, Replay(s[k]), cut)]]
             Is(iter) == iter = [u \in SUBSET (DOMAIN s) |->
                                   IF u = {} THEN base ELSE out(iter[u \ {Max(u)}], Replay(s[Max(u)]), cut)]
             g == CHOOSE iter : Is(iter)
  <1>1. T \in [1 .. Len(s) -> [V -> V]] /\ Len(s) \in Nat /\ DOMAIN s = 1 .. Len(s)
    OBVIOUS
  <1>2. \A k \in 1 .. Len(s) : \A v \in V : T[k][v] = out(v, Replay(s[k]), cut)
    OBVIOUS
  <1>3. \A u \in SUBSET (1 .. Len(s)) : u # {} => Max(u) \in 1 .. Len(s)
    <2> SUFFICES ASSUME NEW u \in SUBSET (1 .. Len(s)), u # {} PROVE Max(u) \in 1 .. Len(s)
      OBVIOUS
    <2>1. u \in SUBSET (0 .. Len(s))
      BY <1>1
    <2> QED BY <1>1, <2>1, MaxIsGreatest
  <1>4. SendFold(cut, base, s) = g[DOMAIN s]
    BY Zenon DEF SendFold, FoldLeft, MapThenFoldSet
  <1> HIDE DEF T
  <1>5. PICK h \in [SUBSET (1 .. Len(s)) -> V] : FoldsTo(h, base, T, Len(s))
    BY <1>1, FoldExists
  <1>6. Is(h)
    <2>1. ASSUME NEW u \in SUBSET (1 .. Len(s)), u # {}
          PROVE  h[u] = out(h[u \ {Max(u)}], Replay(s[Max(u)]), cut)
      <3>1. h[u] = T[Max(u)][h[u \ {Max(u)}]]
        BY <1>5, <2>1 DEF FoldsTo
      <3>2. h[u \ {Max(u)}] \in V /\ Max(u) \in 1 .. Len(s)
        BY <1>3, <2>1
      <3> QED BY <1>2, <3>1, <3>2
    <2>2. h[{}] = base
      BY <1>5 DEF FoldsTo
    <2> QED BY <1>1, <2>1, <2>2
  <1>7. Is(g)
    BY <1>6, Zenon
  <1> HIDE DEF g
  <1>8. \A u \in SUBSET (1 .. Len(s)) :
          /\ u = {} => g[u] = base
          /\ u # {} => g[u] = out(g[u \ {Max(u)}], Replay(s[Max(u)]), cut)
    BY <1>1, <1>7
  <1> HIDE DEF Is
  <1>9. Unfolds(g, V, base, T, Len(s))
    BY <1>2, <1>3, <1>8, Zenon DEF Unfolds
  <1>10. PICK t \in [0 .. Len(s) -> V] : IsRun(t, base, T, Len(s), g[1 .. Len(s)])
    BY <1>1, <1>9, FoldRuns
  <1>11. \A k \in 1 .. Len(s) : t[k] = out(t[k - 1], Replay(s[k]), cut)
    <2>1. \A k \in 1 .. Len(s) : k - 1 \in 0 .. Len(s) /\ t[k - 1] \in V
      BY <1>1, <1>10
    <2> QED BY <1>2, <1>10, <2>1, Zenon DEF IsRun
  <1>12. SendRun(t, cut, base, s, SendFold(cut, base, s))
    <2>1. t[0] = base /\ t[Len(s)] = SendFold(cut, base, s)
      BY <1>1, <1>4, <1>10, Zenon DEF IsRun
    <2> QED BY <1>11, <2>1, Zenon DEF SendRun
  <1> QED BY <1>12, Zenon

FramesFold(i, starved, base, s) ==
  FoldLeft(LAMBDA state, frame : take_frame(state, i, frame, starved), base, s)
FramesRun(t, i, starved, base, s, last) ==
  t[0] = base /\ t[Len(s)] = last
  /\ \A k \in 1 .. Len(s) : t[k] = take_frame(t[k - 1], i, s[k], starved)

LEMMA FramesRuns ==
  ASSUME NEW V, NEW i, NEW starved, NEW base \in V, NEW W, NEW s \in Seq(W),
         \A v \in V : \A k \in 1 .. Len(s) : take_frame(v, i, s[k], starved) \in V
  PROVE  \E t \in [0 .. Len(s) -> V] : FramesRun(t, i, starved, base, s, FramesFold(i, starved, base, s))
  <1> DEFINE T == [k \in 1 .. Len(s) |-> [v \in V |-> take_frame(v, i, s[k], starved)]]
             Is(iter) == iter = [u \in SUBSET (DOMAIN s) |->
                                   IF u = {} THEN base ELSE take_frame(iter[u \ {Max(u)}], i, s[Max(u)], starved)]
             g == CHOOSE iter : Is(iter)
  <1>1. T \in [1 .. Len(s) -> [V -> V]] /\ Len(s) \in Nat /\ DOMAIN s = 1 .. Len(s)
    OBVIOUS
  <1>2. \A k \in 1 .. Len(s) : \A v \in V : T[k][v] = take_frame(v, i, s[k], starved)
    OBVIOUS
  <1>3. \A u \in SUBSET (1 .. Len(s)) : u # {} => Max(u) \in 1 .. Len(s)
    <2> SUFFICES ASSUME NEW u \in SUBSET (1 .. Len(s)), u # {} PROVE Max(u) \in 1 .. Len(s)
      OBVIOUS
    <2>1. u \in SUBSET (0 .. Len(s))
      BY <1>1
    <2> QED BY <1>1, <2>1, MaxIsGreatest
  <1>4. FramesFold(i, starved, base, s) = g[DOMAIN s]
    BY Zenon DEF FramesFold, FoldLeft, MapThenFoldSet
  <1> HIDE DEF T
  <1>5. PICK h \in [SUBSET (1 .. Len(s)) -> V] : FoldsTo(h, base, T, Len(s))
    BY <1>1, FoldExists
  <1>6. Is(h)
    <2>1. ASSUME NEW u \in SUBSET (1 .. Len(s)), u # {}
          PROVE  h[u] = take_frame(h[u \ {Max(u)}], i, s[Max(u)], starved)
      <3>1. h[u] = T[Max(u)][h[u \ {Max(u)}]]
        BY <1>5, <2>1 DEF FoldsTo
      <3>2. h[u \ {Max(u)}] \in V /\ Max(u) \in 1 .. Len(s)
        BY <1>3, <2>1
      <3> QED BY <1>2, <3>1, <3>2
    <2>2. h[{}] = base
      BY <1>5 DEF FoldsTo
    <2> QED BY <1>1, <2>1, <2>2
  <1>7. Is(g)
    BY <1>6, Zenon
  <1> HIDE DEF g
  <1>8. \A u \in SUBSET (1 .. Len(s)) :
          /\ u = {} => g[u] = base
          /\ u # {} => g[u] = take_frame(g[u \ {Max(u)}], i, s[Max(u)], starved)
    BY <1>1, <1>7
  <1> HIDE DEF Is
  <1>9. Unfolds(g, V, base, T, Len(s))
    BY <1>2, <1>3, <1>8, Zenon DEF Unfolds
  <1>10. PICK t \in [0 .. Len(s) -> V] : IsRun(t, base, T, Len(s), g[1 .. Len(s)])
    BY <1>1, <1>9, FoldRuns
  <1>11. \A k \in 1 .. Len(s) : t[k] = take_frame(t[k - 1], i, s[k], starved)
    <2>1. \A k \in 1 .. Len(s) : k - 1 \in 0 .. Len(s) /\ t[k - 1] \in V
      BY <1>1, <1>10
    <2> QED BY <1>2, <1>10, <2>1, Zenon DEF IsRun
  <1>12. FramesRun(t, i, starved, base, s, FramesFold(i, starved, base, s))
    <2>1. t[0] = base /\ t[Len(s)] = FramesFold(i, starved, base, s)
      BY <1>1, <1>4, <1>10, Zenon DEF IsRun
    <2> QED BY <1>11, <2>1, Zenon DEF FramesRun
  <1> QED BY <1>12, Zenon

KeepFold(S, base, s) ==
  FoldLeft(LAMBDA kept, i : IF i \in S THEN kept ELSE Append(kept, i), base, s)
KeepRun(t, S, base, s, last) ==
  t[0] = base /\ t[Len(s)] = last
  /\ \A k \in 1 .. Len(s) : t[k] = (IF s[k] \in S THEN t[k - 1] ELSE Append(t[k - 1], s[k]))

LEMMA KeepRuns ==
  ASSUME NEW V, NEW S, NEW base \in V, NEW W, NEW s \in Seq(W),
         \A v \in V : \A k \in 1 .. Len(s) : (IF s[k] \in S THEN v ELSE Append(v, s[k])) \in V
  PROVE  \E t \in [0 .. Len(s) -> V] : KeepRun(t, S, base, s, KeepFold(S, base, s))
  <1> DEFINE T == [k \in 1 .. Len(s) |-> [v \in V |-> (IF s[k] \in S THEN v ELSE Append(v, s[k]))]]
             Is(iter) == iter = [u \in SUBSET (DOMAIN s) |->
                                   IF u = {} THEN base
                                   ELSE (IF s[Max(u)] \in S THEN iter[u \ {Max(u)}]
                                         ELSE Append(iter[u \ {Max(u)}], s[Max(u)]))]
             g == CHOOSE iter : Is(iter)
  <1>1. T \in [1 .. Len(s) -> [V -> V]] /\ Len(s) \in Nat /\ DOMAIN s = 1 .. Len(s)
    OBVIOUS
  <1>2. \A k \in 1 .. Len(s) : \A v \in V : T[k][v] = (IF s[k] \in S THEN v ELSE Append(v, s[k]))
    OBVIOUS
  <1>3. \A u \in SUBSET (1 .. Len(s)) : u # {} => Max(u) \in 1 .. Len(s)
    <2> SUFFICES ASSUME NEW u \in SUBSET (1 .. Len(s)), u # {} PROVE Max(u) \in 1 .. Len(s)
      OBVIOUS
    <2>1. u \in SUBSET (0 .. Len(s))
      BY <1>1
    <2> QED BY <1>1, <2>1, MaxIsGreatest
  <1>4. KeepFold(S, base, s) = g[DOMAIN s]
    BY Zenon DEF KeepFold, FoldLeft, MapThenFoldSet
  <1> HIDE DEF T
  <1>5. PICK h \in [SUBSET (1 .. Len(s)) -> V] : FoldsTo(h, base, T, Len(s))
    BY <1>1, FoldExists
  <1>6. Is(h)
    <2>1. ASSUME NEW u \in SUBSET (1 .. Len(s)), u # {}
          PROVE  h[u] = (IF s[Max(u)] \in S THEN h[u \ {Max(u)}] ELSE Append(h[u \ {Max(u)}], s[Max(u)]))
      <3>1. h[u] = T[Max(u)][h[u \ {Max(u)}]]
        BY <1>5, <2>1 DEF FoldsTo
      <3>2. h[u \ {Max(u)}] \in V /\ Max(u) \in 1 .. Len(s)
        BY <1>3, <2>1
      <3> QED BY <1>2, <3>1, <3>2
    <2>2. h[{}] = base
      BY <1>5 DEF FoldsTo
    <2> QED BY <1>1, <2>1, <2>2
  <1>7. Is(g)
    BY <1>6, Zenon
  <1> HIDE DEF g
  <1>8. \A u \in SUBSET (1 .. Len(s)) :
          /\ u = {} => g[u] = base
          /\ u # {} => g[u] = (IF s[Max(u)] \in S THEN g[u \ {Max(u)}] ELSE Append(g[u \ {Max(u)}], s[Max(u)]))
    BY <1>1, <1>7
  <1> HIDE DEF Is
  <1>9. Unfolds(g, V, base, T, Len(s))
    BY <1>2, <1>3, <1>8, Zenon DEF Unfolds
  <1>10. PICK t \in [0 .. Len(s) -> V] : IsRun(t, base, T, Len(s), g[1 .. Len(s)])
    BY <1>1, <1>9, FoldRuns
  <1>11. \A k \in 1 .. Len(s) : t[k] = (IF s[k] \in S THEN t[k - 1] ELSE Append(t[k - 1], s[k]))
    <2>1. \A k \in 1 .. Len(s) : k - 1 \in 0 .. Len(s) /\ t[k - 1] \in V
      BY <1>1, <1>10
    <2> QED BY <1>2, <1>10, <2>1, Zenon DEF IsRun
  <1>12. KeepRun(t, S, base, s, KeepFold(S, base, s))
    <2>1. t[0] = base /\ t[Len(s)] = KeepFold(S, base, s)
      BY <1>1, <1>4, <1>10, Zenon DEF IsRun
    <2> QED BY <1>11, <2>1, Zenon DEF KeepRun
  <1> QED BY <1>12, Zenon

-----------------------------------------------------------------------------
(* Frames, tokens, records *)

LEMMA FrameFacts ==
  /\ \A f \in Frames : f.kind \in {"row", "cell"} /\ f.text \in Texts(f.kind) /\ f.text # Blank
  /\ \A kind \in {"row", "cell"} : \A x \in Texts(kind) : x # Blank =>
       [kind |-> kind, text |-> x] \in Frames
  /\ Blank \in Texts("row") /\ Blank \in Texts("cell")
  <1>1. \A f \in Frames : f.kind \in {"row", "cell"} /\ f = [kind |-> f.kind, text |-> f.text] /\ f.text # Blank
    <2> SUFFICES ASSUME NEW f \in Frames
                 PROVE  f.kind \in {"row", "cell"} /\ f = [kind |-> f.kind, text |-> f.text] /\ f.text # Blank
      OBVIOUS
    <2>1. f \in [kind : {"row", "cell"}, text : {f.text}] /\ f.text # Blank
      BY SnapshotAssumption
    <2> QED BY <2>1
  <1>2. \A kind \in {"row", "cell"} : \A x \in Texts(kind) : x # Blank =>
          [kind |-> kind, text |-> x] \in Frames
    <2> SUFFICES ASSUME NEW kind \in {"row", "cell"}, NEW x \in Texts(kind), x # Blank
                 PROVE  [kind |-> kind, text |-> x] \in Frames
      OBVIOUS
    <2>1. PICK f \in Frames : f.kind = kind /\ f.text = x
      BY DEF Texts
    <2> QED BY <1>1, <2>1
  <1> QED BY <1>1, <1>2 DEF Texts

LEMMA TokenFacts ==
  /\ Mark \in Token /\ Mark.part = "mark"
  /\ \A tok \in Token :
       \/ tok = Mark
       \/ /\ tok.part \in {"head", "tail"} /\ tok.f \in Frames
          /\ tok = Part(tok.part, tok.f)
  /\ \A f \in Frames :
       /\ Part("head", f) \in Token /\ Part("head", f).part = "head" /\ Part("head", f).f = f
       /\ Part("tail", f) \in Token /\ Part("tail", f).part = "tail" /\ Part("tail", f).f = f
  /\ \A tok \in Token : HeadOf(tok) \in Token
  <1>1. Mark \in Token /\ Mark.part = "mark"
    BY DEF Token, Mark, Part
  <1>2. \A f \in Frames :
          /\ Part("head", f) \in Token /\ Part("head", f).part = "head" /\ Part("head", f).f = f
          /\ Part("tail", f) \in Token /\ Part("tail", f).part = "tail" /\ Part("tail", f).f = f
    <2> SUFFICES ASSUME NEW f \in Frames, NEW part \in {"head", "tail"}
                 PROVE  Part(part, f) \in Token /\ Part(part, f).part = part /\ Part(part, f).f = f
      BY Zenon
    <2>1. Part(part, f) \in Token
      BY DEF Token
    <2> QED BY <2>1 DEF Part
  <1>3. ASSUME NEW tok \in Token, tok # Mark
        PROVE  /\ tok.part \in {"head", "tail"} /\ tok.f \in Frames
               /\ tok = Part(tok.part, tok.f)
    <2>1. PICK part \in {"head", "tail"}, f \in Frames : tok = Part(part, f)
      BY <1>3 DEF Token
    <2> QED BY <2>1 DEF Part
  <1>4. \A tok \in Token : HeadOf(tok) \in Token
    BY <1>1 DEF HeadOf
  <1> QED BY <1>1, <1>2, <1>3, <1>4, Zenon

LEMMA RecordFacts ==
  /\ \A type \in {"event", "ack"} : Typed(type) \in Record /\ Typed(type).type = type
  /\ \A f \in Frames :
       Replay(f) \in Record /\ Replay(f).type = "replay" /\ Replay(f).toks[1].f = f
  /\ \A n \in 1 .. MaxSeq : \A toks \in BoundedSeq(Token, DrainMax) :
       Pairs(n, toks) \in Record /\ Pairs(n, toks).type = "pairs"
         /\ Pairs(n, toks).n = n /\ Pairs(n, toks).toks = toks
  /\ \A rec \in Record :
       \/ rec.type \in {"event", "ack"}
       \/ rec.type = "replay" /\ rec.toks[1].f \in Frames
       \/ rec.type = "pairs" /\ rec.n \in 1 .. MaxSeq /\ rec.toks \in BoundedSeq(Token, DrainMax)
  <1>1. \A type \in {"event", "ack"} : Typed(type) \in Record /\ Typed(type).type = type
    BY DEF Record, Typed
  <1>2. \A f \in Frames :
          Replay(f) \in Record /\ Replay(f).type = "replay" /\ Replay(f).toks[1].f = f
    BY DEF Record, Replay, Part
  <1>3. \A n \in 1 .. MaxSeq : \A toks \in BoundedSeq(Token, DrainMax) :
          Pairs(n, toks) \in Record /\ Pairs(n, toks).type = "pairs"
            /\ Pairs(n, toks).n = n /\ Pairs(n, toks).toks = toks
    BY DEF Record, Pairs
  <1>4. ASSUME NEW rec \in Record
        PROVE  \/ rec.type \in {"event", "ack"}
               \/ rec.type = "replay" /\ rec.toks[1].f \in Frames
               \/ rec.type = "pairs" /\ rec.n \in 1 .. MaxSeq /\ rec.toks \in BoundedSeq(Token, DrainMax)
    <2>1. \/ rec \in {Typed("event"), Typed("ack")}
          \/ \E f \in Frames : rec = Replay(f)
          \/ \E n \in 1 .. MaxSeq, toks \in BoundedSeq(Token, DrainMax) : rec = Pairs(n, toks)
      BY DEF Record
    <2> QED BY <1>1, <1>2, <1>3, <2>1
  <1> QED BY <1>1, <1>2, <1>3, <1>4

LEMMA BoundedIsSeq ==
  ASSUME NEW V, NEW n \in Nat
  PROVE  /\ \A s \in BoundedSeq(V, n) : s \in Seq(V) /\ Len(s) <= n
         /\ <<>> \in BoundedSeq(V, n)
  <1>1. ASSUME NEW s \in BoundedSeq(V, n) PROVE s \in Seq(V) /\ Len(s) <= n
    <2>1. PICK m \in 0 .. n : s \in [1 .. m -> V]
      BY DEF BoundedSeq, SeqOf
    <2>2. s \in Seq(V) /\ Len(s) = m
      BY <2>1
    <2> QED BY <2>2
  <1>2. <<>> \in [1 .. 0 -> V] /\ 0 \in 0 .. n
    OBVIOUS
  <1> QED BY <1>1, <1>2 DEF BoundedSeq, SeqOf

LEMMA ClosedFacts ==
  /\ Closed \in Clients /\ ~Closed.est /\ ~Closed.kick /\ Closed.backlog = <<>>
  /\ Closed.due["event"] = 0 /\ Closed.due["ack"] = 0
  /\ DOMAIN Closed = {"est", "kick", "backlog", "due"}
  /\ \A c \in Clients : DOMAIN c = DOMAIN Closed
  BY DEF Closed, Clients

LEMMA UnseenFacts ==
  /\ Unseen \in Views
  /\ Unseen.row = Blank /\ Unseen.cell = Blank /\ Unseen.cur = Mark /\ Unseen.seq = 0 /\ ~Unseen.sure
  <1>1. 0 \in 0 .. MaxSeq
    BY CaptureAssumption
  <1> QED BY <1>1, FrameFacts, TokenFacts DEF Unseen, Views

-----------------------------------------------------------------------------
(* What a client makes of its records *)

LEMMA PaintedType ==
  /\ \A v \in Views, f \in Frames :
       /\ Painted(v, f) \in Views
       /\ Painted(v, f).cur = v.cur /\ Painted(v, f).seq = v.seq /\ Painted(v, f).sure = v.sure
       /\ f.kind = "row" => Painted(v, f).row = f.text /\ Painted(v, f).cell = Blank
       /\ f.kind # "row" => Painted(v, f).row = v.row /\ Painted(v, f).cell = f.text
  /\ \A g \in Screens, f \in Frames :
       /\ Painted(g, f) \in Screens
       /\ f.kind = "row" => Painted(g, f).row = f.text /\ Painted(g, f).cell = Blank
       /\ f.kind # "row" => Painted(g, f).row = g.row /\ Painted(g, f).cell = f.text
  <1>1. \A f \in Frames : f.kind = "row" => f.text \in Texts("row")
    BY FrameFacts, Zenon
  <1>2. \A f \in Frames : f.kind # "row" => f.text \in Texts("cell")
    <2> SUFFICES ASSUME NEW f \in Frames, f.kind # "row" PROVE f.text \in Texts("cell")
      OBVIOUS
    <2>1. f.kind = "cell"
      BY FrameFacts
    <2> QED BY <2>1, FrameFacts, Zenon
  <1>3. Blank \in Texts("cell")
    BY FrameFacts
  <1>4. ASSUME NEW v \in Views, NEW f \in Frames
        PROVE  /\ Painted(v, f) \in Views
               /\ Painted(v, f).cur = v.cur /\ Painted(v, f).seq = v.seq /\ Painted(v, f).sure = v.sure
               /\ f.kind = "row" => Painted(v, f).row = f.text /\ Painted(v, f).cell = Blank
               /\ f.kind # "row" => Painted(v, f).row = v.row /\ Painted(v, f).cell = f.text
    <2>1. CASE f.kind = "row"
      BY <1>1, <1>3, <2>1 DEF Painted, Views
    <2>2. CASE f.kind # "row"
      BY <1>2, <2>2 DEF Painted, Views
    <2> QED BY <2>1, <2>2
  <1>5. ASSUME NEW v \in Screens, NEW f \in Frames
        PROVE  /\ Painted(v, f) \in Screens
               /\ f.kind = "row" => Painted(v, f).row = f.text /\ Painted(v, f).cell = Blank
               /\ f.kind # "row" => Painted(v, f).row = v.row /\ Painted(v, f).cell = f.text
    <2>1. CASE f.kind = "row"
      BY <1>1, <1>3, <2>1 DEF Painted, Screens
    <2>2. CASE f.kind # "row"
      BY <1>2, <2>2 DEF Painted, Screens
    <2> QED BY <2>1, <2>2
  <1> QED BY <1>4, <1>5

LEMMA DecodeType ==
  ASSUME NEW v \in Views, NEW tok \in Token
  PROVE  /\ Decode(v, tok) \in Views /\ Decode(v, tok).seq = v.seq
         /\ tok.part = "tail" /\ v.cur = Part("head", tok.f) =>
              /\ Decode(v, tok).cur = Mark
              /\ Decode(v, tok).sure = (v.sure \/ tok.f.kind = "row")
              /\ Decode(v, tok).row = Painted(v, tok.f).row /\ Decode(v, tok).cell = Painted(v, tok.f).cell
         /\ ~(tok.part = "tail" /\ v.cur = Part("head", tok.f)) =>
              /\ Decode(v, tok).cur = (IF tok.part = "head" THEN tok ELSE Mark)
              /\ Decode(v, tok).sure = v.sure
              /\ Decode(v, tok).row = v.row /\ Decode(v, tok).cell = v.cell
  <1>1. CASE tok.part = "tail" /\ v.cur = Part("head", tok.f)
    <2> DEFINE p == Painted(v, tok.f)
    <2>1. tok.f \in Frames
      BY <1>1, TokenFacts
    <2>2. p \in Views /\ p.seq = v.seq
      BY <2>1, PaintedType
    <2>3. Decode(v, tok) = [p EXCEPT !.cur = Mark, !.sure = v.sure \/ tok.f.kind = "row"]
      BY <1>1 DEF Decode
    <2>4. v.sure \in BOOLEAN /\ (v.sure \/ tok.f.kind = "row") \in BOOLEAN
      BY DEF Views
    <2> HIDE DEF p
    <2>5. Decode(v, tok) \in Views /\ Decode(v, tok).seq = v.seq /\ Decode(v, tok).cur = Mark
            /\ Decode(v, tok).sure = (v.sure \/ tok.f.kind = "row")
            /\ Decode(v, tok).row = p.row /\ Decode(v, tok).cell = p.cell
      <3>1. PICK b \in BOOLEAN : b = (v.sure \/ tok.f.kind = "row")
        BY <2>4, Zenon
      <3>2. Decode(v, tok) = [p EXCEPT !.cur = Mark, !.sure = b]
        BY <2>3, <3>1, Zenon
      <3>3. Mark \in Token
        BY TokenFacts
      <3>4. PICK d : d = Decode(v, tok)
        OBVIOUS
      <3>5. d \in Views /\ d.seq = p.seq /\ d.cur = Mark /\ d.sure = b /\ d.row = p.row /\ d.cell = p.cell
        BY <2>2, <3>2, <3>3, <3>4 DEF Views
      <3> QED BY <2>2, <3>1, <3>4, <3>5, Zenon
    <2> QED BY <1>1, <2>5 DEF p
  <1>2. CASE ~(tok.part = "tail" /\ v.cur = Part("head", tok.f))
    <2>1. Decode(v, tok) = [v EXCEPT !.cur = IF tok.part = "head" THEN tok ELSE Mark]
      BY <1>2 DEF Decode
    <2> QED BY <1>2, <2>1, TokenFacts DEF Views
  <1> QED BY <1>1, <1>2

LEMMA DecodedType ==
  ASSUME NEW v \in Views, NEW toks \in Seq(Token)
  PROVE  FoldLeft(Decode, v, toks) \in Views /\ FoldLeft(Decode, v, toks).seq = v.seq
  <1> DEFINE V == {w \in Views : w.seq = v.seq}
  <1>1. \A w \in V : \A k \in 1 .. Len(toks) : Decode(w, toks[k]) \in V
    BY DecodeType
  <1>2. v \in V
    OBVIOUS
  <1> HIDE DEF V
  <1>3. PICK t \in [0 .. Len(toks) -> V] : DecodeRun(t, v, toks, FoldLeft(Decode, v, toks))
    BY <1>1, <1>2, DecodeRuns
  <1>4. FoldLeft(Decode, v, toks) \in V
    <2>1. t[Len(toks)] = FoldLeft(Decode, v, toks)
      BY <1>3 DEF DecodeRun
    <2>2. Len(toks) \in 0 .. Len(toks)
      OBVIOUS
    <2> QED BY <2>1, <2>2
  <1> QED BY <1>4 DEF V

\* Where the decoding of a record of bus bytes starts.
Gapless(v, n) ==
  IF n = v.seq + 1 THEN [v EXCEPT !.seq = n] ELSE [v EXCEPT !.seq = n, !.cur = Mark, !.sure = FALSE]

LEMMA ReadFacts ==
  ASSUME NEW v \in Views, NEW rec \in Record
  PROVE  /\ Read(v, rec) \in Views
         /\ rec.type \in {"event", "ack"} => Read(v, rec) = v
         /\ rec.type = "replay" => Read(v, rec) = Painted(v, rec.toks[1].f)
         /\ rec.type = "pairs" => Read(v, rec) = FoldLeft(Decode, Gapless(v, rec.n), rec.toks)
  <1>1. CASE rec.type \in {"event", "ack"}
    BY <1>1 DEF Read
  <1>2. CASE rec.type = "replay"
    <2>1. rec.toks[1].f \in Frames
      BY <1>2, RecordFacts
    <2>2. Read(v, rec) = Painted(v, rec.toks[1].f)
      BY <1>2, Zenon DEF Read
    <2> QED BY <1>2, <2>1, <2>2, PaintedType
  <1>3. CASE rec.type = "pairs"
    <2>1. rec.n \in 1 .. MaxSeq /\ rec.toks \in Seq(Token) /\ rec.n \in 0 .. MaxSeq
      BY <1>3, RecordFacts, BoundedIsSeq, CaptureAssumption
    <2>2. Gapless(v, rec.n) \in Views
      BY <2>1, TokenFacts DEF Gapless, Views
    <2>3. Read(v, rec) = FoldLeft(Decode, Gapless(v, rec.n), rec.toks)
      BY <1>3, Zenon DEF Read, Gapless
    <2> QED BY <1>3, <2>1, <2>2, <2>3, DecodedType
  <1> QED BY <1>1, <1>2, <1>3, RecordFacts

LEMMA MadeRuns ==
  ASSUME NEW v \in Views, NEW s \in Seq(Record)
  PROVE  /\ \E t \in [0 .. Len(s) -> Views] : ReadRun(t, v, s, Made(v, s))
         /\ Made(v, s) \in Views
  <1>1. \A w \in Views : \A k \in 1 .. Len(s) : Read(w, s[k]) \in Views
    BY ReadFacts
  <1>2. PICK t \in [0 .. Len(s) -> Views] : ReadRun(t, v, s, Made(v, s))
    BY <1>1, ReadRuns
  <1>3. t[Len(s)] = Made(v, s) /\ Len(s) \in 0 .. Len(s)
    BY <1>2 DEF ReadRun
  <1>4. t[Len(s)] \in Views
    BY <1>3
  <1> QED BY <1>2, <1>3, <1>4, Zenon

\* There is one way to read a sequence of n records.
Makes(u, v, s, n) == n = Len(s) /\ u[0] = v /\ \A k \in 1 .. n : u[k] = Read(u[k - 1], s[k])

LEMMA MadeIs ==
  ASSUME NEW v \in Views, NEW s \in Seq(Record), NEW n \in Nat, NEW u, Makes(u, v, s, n)
  PROVE  Made(v, s) = u[n]
  <1> USE DEF Makes
  <1>1. PICK t \in [0 .. Len(s) -> Views] : ReadRun(t, v, s, Made(v, s))
    BY MadeRuns
  <1>2. t[0] = v /\ t[n] = Made(v, s) /\ \A k \in 1 .. n : t[k] = Read(t[k - 1], s[k])
    BY <1>1, Zenon DEF ReadRun
  <1> DEFINE Bad == {k \in 0 .. n : t[k] # u[k]}
  <1> SUFFICES ASSUME Bad # {} PROVE FALSE
    BY <1>2
  <1>3. PICK j \in Bad : \A i \in Bad : j <= i
    <2> HIDE DEF Bad
    <2>1. Bad \in SUBSET Nat
      BY DEF Bad
    <2> QED BY <2>1, LeastExists
  <1>4. j # 0
    BY <1>2, <1>3
  <1>5. j \in 1 .. n /\ j - 1 \in 0 .. n /\ ~(j <= j - 1)
    BY <1>3, <1>4
  <1>6. j - 1 \notin Bad
    <2> HIDE DEF Bad
    <2> QED BY <1>3, <1>5
  <1>7. t[j - 1] = u[j - 1]
    BY <1>5, <1>6
  <1>8. t[j] = u[j]
    BY <1>2, <1>5, <1>7, Zenon
  <1> QED BY <1>3, <1>8

LEMMA MadeNone == \A v \in Views : Made(v, <<>>) = v
  <1> SUFFICES ASSUME NEW v \in Views PROVE Made(v, <<>>) = v
    OBVIOUS
  <1> DEFINE e == <<>>
             u == [k \in 0 .. 0 |-> v]
  <1>1. e \in Seq(Record) /\ 0 = Len(e) /\ 0 \in Nat
    OBVIOUS
  <1> HIDE DEF e
  <1>2. u[0] = v /\ \A k \in 1 .. 0 : u[k] = Read(u[k - 1], e[k])
    OBVIOUS
  <1> HIDE DEF u
  <1>3. Made(v, e) = u[0]
    <2>1. Makes(u, v, e, 0)
      BY <1>1, <1>2 DEF Makes
    <2> QED BY <1>1, <2>1, MadeIs
  <1> QED BY <1>2, <1>3 DEF e

LEMMA MadeAppend ==
  ASSUME NEW v \in Views, NEW s \in Seq(Record), NEW rec \in Record
  PROVE  Made(v, Append(s, rec)) = Read(Made(v, s), rec)
  <1>1. PICK t \in [0 .. Len(s) -> Views] : ReadRun(t, v, s, Made(v, s))
    BY MadeRuns
  <1>2. t[0] = v /\ t[Len(s)] = Made(v, s) /\ \A k \in 1 .. Len(s) : t[k] = Read(t[k - 1], s[k])
    BY <1>1 DEF ReadRun
  <1> DEFINE n == Len(s) + 1
             a == Append(s, rec)
             u == [k \in 0 .. n |-> IF k = n THEN Read(Made(v, s), rec) ELSE t[k]]
  <1>3. /\ a \in Seq(Record) /\ n = Len(a) /\ n \in Nat /\ a[n] = rec /\ n - 1 = Len(s) /\ Len(s) \in Nat
        /\ \A k \in 1 .. Len(s) : a[k] = s[k]
    OBVIOUS
  <1>4. u[0] = v /\ u[n] = Read(Made(v, s), rec) /\ \A k \in 0 .. Len(s) : u[k] = t[k]
    BY <1>2, <1>3
  <1> HIDE DEF n, a, u
  <1>5. ASSUME NEW k \in 1 .. n PROVE u[k] = Read(u[k - 1], a[k])
    <2>1. CASE k = n
      <3>1. u[k - 1] = Made(v, s)
        BY <1>2, <1>3, <1>4, <2>1
      <3> QED BY <1>3, <1>4, <2>1, <3>1
    <2>2. CASE k # n
      <3>1. k \in 1 .. Len(s) /\ k \in 0 .. Len(s) /\ k - 1 \in 0 .. Len(s)
        BY <1>3, <2>2
      <3> QED BY <1>2, <1>3, <1>4, <3>1, Zenon
    <2> QED BY <2>1, <2>2
  <1>6. Made(v, a) = u[n]
    <2>1. Makes(u, v, a, n)
      BY <1>3, <1>4, <1>5 DEF Makes
    <2> QED BY <1>3, <2>1, MadeIs
  <1> QED BY <1>4, <1>6 DEF a

\* What is read in two goes.
LEMMA MadeSplit ==
  ASSUME NEW v \in Views, NEW s \in Seq(Record), NEW n \in 0 .. Len(s)
  PROVE  Made(Made(v, SubSeq(s, 1, n)), SubSeq(s, n + 1, Len(s))) = Made(v, s)
  <1>1. PICK t \in [0 .. Len(s) -> Views] : ReadRun(t, v, s, Made(v, s))
    BY MadeRuns
  <1>2. t[0] = v /\ t[Len(s)] = Made(v, s) /\ \A k \in 1 .. Len(s) : t[k] = Read(t[k - 1], s[k])
    BY <1>1 DEF ReadRun
  <1> DEFINE a == SubSeq(s, 1, n)
             b == SubSeq(s, n + 1, Len(s))
             m == Len(s) - n
             u == [k \in 0 .. m |-> t[n + k]]
  <1>3. /\ a \in Seq(Record) /\ Len(a) = n /\ \A k \in 1 .. n : a[k] = s[k]
        /\ b \in Seq(Record) /\ Len(b) = m /\ \A k \in 1 .. m : b[k] = s[n + k]
        /\ m \in Nat /\ n \in Nat /\ n + m = Len(s)
    OBVIOUS
  <1>4. u[0] = t[n] /\ u[m] = t[Len(s)] /\ \A k \in 0 .. m : u[k] = t[n + k]
    <2>1. 0 \in 0 .. m /\ m \in 0 .. m /\ n + 0 = n
      <3>1. n \in Nat /\ m \in Nat
        BY <1>3
      <3> HIDE DEF m
      <3> QED BY <3>1
    <2>2. \A k \in 0 .. m : u[k] = t[n + k]
      OBVIOUS
    <2> HIDE DEF u, m
    <2> QED BY <1>3, <2>1, <2>2
  <1> HIDE DEF a, b, m, u
  <1>5. \A k \in 1 .. n : t[k] = Read(t[k - 1], a[k])
    BY <1>2, <1>3
  <1>6. Made(v, a) = t[n]
    <2>1. a \in Seq(Record) /\ n = Len(a) /\ n \in Nat
      BY <1>3
    <2>2. t[0] = v
      BY <1>2
    <2>3. PICK r \in Seq(Record) : r = a
      BY <2>1
    <2>4. n = Len(r) /\ \A k \in 1 .. n : t[k] = Read(t[k - 1], r[k])
      BY <1>5, <2>1, <2>3, Zenon
    <2>5. Made(v, r) = t[n]
      <3>1. Makes(t, v, r, n)
        BY <2>2, <2>4, Zenon DEF Makes
      <3> QED BY <2>1, <3>1, MadeIs
    <2> QED BY <2>3, <2>5
  <1>7. t[n] \in Views
    OBVIOUS
  <1>8. ASSUME NEW k \in 1 .. m PROVE u[k] = Read(u[k - 1], b[k])
    <2>1. n + k \in 1 .. Len(s) /\ k \in 0 .. m /\ k - 1 \in 0 .. m /\ n + (k - 1) = (n + k) - 1
      BY <1>3
    <2>2. u[k] = t[n + k] /\ u[k - 1] = t[(n + k) - 1]
      BY <1>4, <2>1
    <2>3. t[n + k] = Read(t[(n + k) - 1], s[n + k])
      BY <1>2, <2>1
    <2> QED BY <1>3, <2>2, <2>3
  <1>9. Made(t[n], b) = u[m]
    <2>1. m = Len(b) /\ m \in Nat /\ b \in Seq(Record)
      BY <1>3
    <2>2. PICK w \in Views : w = t[n]
      BY <1>7
    <2>3. u[0] = w
      BY <1>4, <2>2
    <2>4. Made(w, b) = u[m]
      <3>1. PICK r \in Seq(Record) : r = b
        BY <2>1
      <3>2. m = Len(r) /\ \A k \in 1 .. m : u[k] = Read(u[k - 1], r[k])
        BY <1>8, <2>1, <3>1, Zenon
      <3> HIDE DEF u, b, m
      <3>3. Made(w, r) = u[m]
        <4>1. Makes(u, w, r, m)
          BY <2>3, <3>2, Zenon DEF Makes
        <4> QED BY <2>1, <4>1, MadeIs
      <3> QED BY <3>1, <3>3
    <2> QED BY <2>2, <2>4
  <1>10. Made(Made(v, a), b) = Made(v, s)
    BY <1>2, <1>4, <1>6, <1>9, Zenon
  <1> QED BY <1>10 DEF a, b

\* Events and acknowledgements change nothing of the view.
OnlyTyped(records) == \A k \in DOMAIN records : records[k].type \in {"event", "ack"}

LEMMA MadeTyped ==
  ASSUME NEW v \in Views, NEW s \in Seq(Record), OnlyTyped(s)
  PROVE  Made(v, s) = v
  <1> DEFINE u == [k \in 0 .. Len(s) |-> v]
  <1>1. \A k \in 0 .. Len(s) : u[k] = v
    OBVIOUS
  <1> HIDE DEF u
  <1>2. \A k \in 1 .. Len(s) : u[k] = Read(u[k - 1], s[k])
    <2> SUFFICES ASSUME NEW k \in 1 .. Len(s) PROVE u[k] = Read(u[k - 1], s[k])
      OBVIOUS
    <2>1. k \in 0 .. Len(s) /\ k - 1 \in 0 .. Len(s) /\ s[k] \in Record /\ s[k].type \in {"event", "ack"}
      BY DEF OnlyTyped
    <2> QED BY <1>1, <2>1, ReadFacts
  <1>3. Len(s) \in Nat /\ u[0] = v /\ u[Len(s)] = v
    BY <1>1
  <1>4. Made(v, s) = u[Len(s)]
    <2>1. Makes(u, v, s, Len(s))
      BY <1>2, <1>3 DEF Makes
    <2> QED BY <1>3, <2>1, MadeIs
  <1> QED BY <1>3, <1>4

-----------------------------------------------------------------------------
(* A client to which typed records are sent *)

LEMMA OutFacts ==
  ASSUME NEW c \in Clients, NEW rec \in Record, NEW cut \in BOOLEAN
  PROVE  /\ out(c, rec, cut) \in Clients /\ out(c, rec, cut).est = c.est
         /\ c.kick \/ cut => out(c, rec, cut).kick /\ out(c, rec, cut).backlog = <<>>
         /\ ~c.kick /\ ~cut => /\ ~out(c, rec, cut).kick
                               /\ out(c, rec, cut).backlog = Append(c.backlog, rec)
                               /\ out(c, rec, cut).due = c.due
  <1>1. CASE c.kick \/ cut
    <2>1. out(c, rec, cut) = [Closed EXCEPT !.est = c.est, !.kick = TRUE]
      BY <1>1 DEF out
    <2>2. c.est \in BOOLEAN
      BY DEF Clients
    <2> QED BY <1>1, <2>1, <2>2, ClosedFacts DEF Clients
  <1>2. CASE ~(c.kick \/ cut)
    <2>1. out(c, rec, cut) = [c EXCEPT !.backlog = Append(@, rec)]
      BY <1>2 DEF out
    <2>2. Append(c.backlog, rec) \in Seq(Record)
      BY DEF Clients
    <2> QED BY <1>2, <2>1, <2>2 DEF Clients
  <1> QED BY <1>1, <1>2

LEMMA DueMore ==
  ASSUME NEW c \in Clients
  PROVE  /\ [c EXCEPT !.due.event = @ + 1] \in Clients /\ [c EXCEPT !.due.ack = @ + 1] \in Clients
         /\ LET e == [c EXCEPT !.due.event = @ + 1]
            IN  /\ e.est = c.est /\ e.kick = c.kick /\ e.backlog = c.backlog
                /\ e.due["event"] = c.due["event"] + 1 /\ e.due["ack"] = c.due["ack"]
         /\ LET e == [c EXCEPT !.due.ack = @ + 1]
            IN  /\ e.est = c.est /\ e.kick = c.kick /\ e.backlog = c.backlog
                /\ e.due["event"] = c.due["event"] /\ e.due["ack"] = c.due["ack"] + 1
  <1>1. [c EXCEPT !.due.event = @ + 1] \in Clients
    BY DEF Clients
  <1>2. [c EXCEPT !.due.ack = @ + 1] \in Clients
    BY DEF Clients
  <1>3. LET e == [c EXCEPT !.due.event = @ + 1]
        IN  /\ e.est = c.est /\ e.kick = c.kick /\ e.backlog = c.backlog
            /\ e.due["event"] = c.due["event"] + 1 /\ e.due["ack"] = c.due["ack"]
    BY DEF Clients
  <1>4. LET e == [c EXCEPT !.due.ack = @ + 1]
        IN  /\ e.est = c.est /\ e.kick = c.kick /\ e.backlog = c.backlog
            /\ e.due["event"] = c.due["event"] /\ e.due["ack"] = c.due["ack"] + 1
    BY DEF Clients
  <1> QED BY <1>1, <1>2, <1>3, <1>4

\* One typed record more.
LEMMA CountTyped ==
  ASSUME NEW s \in Seq(Record), NEW type \in {"event", "ack"}
  PROVE  LET t == Append(s, Typed(type))
         IN  /\ Count(t, "pairs") = Count(s, "pairs")
             /\ Count(t, "event") = Count(s, "event") + (IF type = "event" THEN 1 ELSE 0)
             /\ Count(t, "ack") = Count(s, "ack") + (IF type = "ack" THEN 1 ELSE 0)
  <1> DEFINE r == Typed(type)
  <1>1. r \in Record /\ r.type = type
    BY RecordFacts
  <1> HIDE DEF r
  <1>2. Count(s, "pairs") \in Nat /\ Count(s, "event") \in Nat /\ Count(s, "ack") \in Nat
    BY PlacesFinite
  <1>3. Count(Append(s, r), "pairs") = Count(s, "pairs") + (IF r.type = "pairs" THEN 1 ELSE 0)
    BY <1>1, CountAppend
  <1>4. Count(Append(s, r), "event") = Count(s, "event") + (IF r.type = "event" THEN 1 ELSE 0)
    BY <1>1, CountAppend
  <1>5. Count(Append(s, r), "ack") = Count(s, "ack") + (IF r.type = "ack" THEN 1 ELSE 0)
    BY <1>1, CountAppend
  <1>6. /\ Count(Append(s, r), "pairs") = Count(s, "pairs")
        /\ Count(Append(s, r), "event") = Count(s, "event") + (IF type = "event" THEN 1 ELSE 0)
        /\ Count(Append(s, r), "ack") = Count(s, "ack") + (IF type = "ack" THEN 1 ELSE 0)
    BY <1>1, <1>2, <1>3, <1>4, <1>5
  <1> QED BY <1>6 DEF r

\* A client that was c0 before the typed records: its own view, once it has read all, is
\* still as the server wants it; one whose session is new has typed records only.
Aims(c0, records, v, Z) == IF c0.est THEN Made(v, records) \in Z ELSE OnlyTyped(records)
Kin(c0, c, v, Z, owed) ==
  /\ GoodClient(c, owed)
  /\ c0.est => c.est
  /\ Live(c) => Aims(c0, c.backlog, v, Z)

LEMMA AimsAppend ==
  ASSUME NEW c0, NEW s \in Seq(Record), NEW v \in Views, NEW Z, NEW type \in {"event", "ack"},
         Aims(c0, s, v, Z)
  PROVE  Aims(c0, Append(s, Typed(type)), v, Z)
  <1>1. Typed(type) \in Record /\ Typed(type).type = type
    BY RecordFacts
  <1>2. CASE c0.est
    <2>1. Made(v, s) \in Views /\ Made(v, s) \in Z
      BY <1>2, MadeRuns DEF Aims
    <2>2. Made(v, Append(s, Typed(type))) = Made(v, s)
      BY <1>1, <2>1, MadeAppend, ReadFacts
    <2> QED BY <1>2, <2>1, <2>2 DEF Aims
  <1>3. CASE ~c0.est
    BY <1>1, <1>3 DEF Aims, OnlyTyped
  <1> QED BY <1>2, <1>3

LEMMA EventKin ==
  ASSUME NEW c0, NEW c \in Clients, NEW v \in Views, NEW Z, NEW owed \in Nat, NEW cut \in BOOLEAN,
         Kin(c0, c, v, Z, owed), Live(c)
  PROVE  LET d == out([c EXCEPT !.due.event = @ + 1], Typed("event"), cut)
         IN  Kin(c0, d, v, Z, owed) /\ d \in Clients /\ d.est
  <1> DEFINE e == [c EXCEPT !.due.event = @ + 1]
             r == Typed("event")
             d == out(e, r, cut)
  <1>1. /\ e \in Clients /\ e.est = c.est /\ e.kick = c.kick /\ e.backlog = c.backlog
        /\ e.due["event"] = c.due["event"] + 1 /\ e.due["ack"] = c.due["ack"]
    <2>1. e \in Clients
      BY DueMore, Zenon
    <2>2. e.est = c.est /\ e.kick = c.kick /\ e.backlog = c.backlog
      BY DueMore, Zenon
    <2>3. e.due["event"] = c.due["event"] + 1 /\ e.due["ack"] = c.due["ack"]
      BY DueMore, Zenon
    <2> QED BY <2>1, <2>2, <2>3
  <1>2. c.est /\ ~c.kick /\ c.backlog \in Seq(Record)
    BY DEF Live, Clients
  <1>3. r \in Record /\ r.type = "event"
    BY RecordFacts
  <1> HIDE DEF e, r
  <1>4. /\ d \in Clients /\ d.est
        /\ cut => d.kick /\ d.backlog = <<>>
        /\ ~cut => ~d.kick /\ d.backlog = Append(c.backlog, r) /\ d.due = e.due
    <2>1. PICK w \in Clients : w = e
      BY <1>1
    <2>2. d = out(w, r, cut)
      BY <2>1
    <2> HIDE DEF d
    <2>3. ~w.kick /\ w.est /\ w.backlog = c.backlog
      BY <1>1, <1>2, <2>1
    <2>4. /\ d \in Clients /\ d.est
          /\ cut => d.kick /\ d.backlog = <<>>
          /\ ~cut => ~d.kick /\ d.backlog = Append(c.backlog, r) /\ d.due = w.due
      BY <1>3, <2>2, <2>3, OutFacts
    <2> QED BY <2>1, <2>4
  <1> HIDE DEF d
  <1>5. CASE cut
    <2>1. Count(d.backlog, "pairs") <= BacklogMax + 1
      BY <1>4, <1>5, CountNone, CaptureAssumption
    <2> QED BY <1>4, <1>5, <2>1 DEF Kin, GoodClient, Live, d, e, r
  <1>6. CASE ~cut
    <2>1. /\ Count(d.backlog, "pairs") = Count(c.backlog, "pairs")
          /\ Count(d.backlog, "event") = Count(c.backlog, "event") + 1
          /\ Count(d.backlog, "ack") = Count(c.backlog, "ack")
      <3>1. d.backlog = Append(c.backlog, Typed("event"))
        BY <1>4, <1>6 DEF r
      <3>2. Count(c.backlog, "ack") \in Nat
        BY <1>2, PlacesFinite
      <3>3. /\ Count(Append(c.backlog, Typed("event")), "pairs") = Count(c.backlog, "pairs")
            /\ Count(Append(c.backlog, Typed("event")), "event") = Count(c.backlog, "event") + 1
            /\ Count(Append(c.backlog, Typed("event")), "ack") = Count(c.backlog, "ack") + 0
        BY <1>2, CountTyped
      <3> QED BY <3>1, <3>2, <3>3
    <2>2. Aims(c0, d.backlog, v, Z)
      BY <1>2, <1>4, <1>6, AimsAppend DEF Kin, r
    <2>3. GoodClient(c, owed)
      BY DEF Kin
    <2>4. GoodClient(d, owed)
      BY <1>1, <1>2, <1>4, <1>6, <2>1, <2>3 DEF GoodClient, Live
    <2>5. Kin(c0, d, v, Z, owed)
      BY <1>4, <2>2, <2>4 DEF Kin
    <2> QED BY <1>4, <2>5 DEF d, e, r
  <1> QED BY <1>5, <1>6

LEMMA AckKin ==
  ASSUME NEW c0, NEW c \in Clients, NEW v \in Views, NEW Z, NEW cut \in BOOLEAN,
         Kin(c0, c, v, Z, 1), Live(c)
  PROVE  LET d == out(c, Typed("ack"), cut)
         IN  Kin(c0, d, v, Z, 0) /\ d \in Clients /\ d.est
  <1> DEFINE r == Typed("ack")
             d == out(c, r, cut)
  <1>1. c.est /\ ~c.kick /\ c.backlog \in Seq(Record)
    BY DEF Live, Clients
  <1>2. r \in Record /\ r.type = "ack"
    BY RecordFacts
  <1> HIDE DEF r
  <1>3. /\ d \in Clients /\ d.est
        /\ cut => d.kick /\ d.backlog = <<>>
        /\ ~cut => ~d.kick /\ d.backlog = Append(c.backlog, r) /\ d.due = c.due
    BY <1>1, <1>2, OutFacts
  <1> HIDE DEF d
  <1>4. CASE cut
    <2>1. Count(d.backlog, "pairs") <= BacklogMax + 1
      BY <1>3, <1>4, CountNone, CaptureAssumption
    <2> QED BY <1>3, <1>4, <2>1 DEF Kin, GoodClient, Live, d, r
  <1>5. CASE ~cut
    <2>1. /\ Count(d.backlog, "pairs") = Count(c.backlog, "pairs")
          /\ Count(d.backlog, "event") = Count(c.backlog, "event")
          /\ Count(d.backlog, "ack") = Count(c.backlog, "ack") + 1
      <3>1. d.backlog = Append(c.backlog, Typed("ack"))
        BY <1>3, <1>5 DEF r
      <3>2. Count(c.backlog, "event") \in Nat
        BY <1>1, PlacesFinite
      <3>3. /\ Count(Append(c.backlog, Typed("ack")), "pairs") = Count(c.backlog, "pairs")
            /\ Count(Append(c.backlog, Typed("ack")), "event") = Count(c.backlog, "event") + 0
            /\ Count(Append(c.backlog, Typed("ack")), "ack") = Count(c.backlog, "ack") + 1
        BY <1>1, CountTyped
      <3> QED BY <3>1, <3>2, <3>3
    <2>2. Aims(c0, d.backlog, v, Z)
      BY <1>1, <1>3, <1>5, AimsAppend DEF Kin, r
    <2>3. GoodClient(c, 1)
      BY DEF Kin
    <2>4. Count(d.backlog, "ack") + 0 = d.due["ack"] /\ Count(d.backlog, "event") = d.due["event"]
      <3>1. Count(c.backlog, "ack") \in Nat
        BY <1>1, PlacesFinite
      <3> QED BY <1>3, <1>5, <2>1, <2>3, <3>1 DEF GoodClient
    <2>5. GoodClient(d, 0)
      BY <1>1, <1>3, <1>5, <2>1, <2>3, <2>4 DEF GoodClient, Live
    <2>6. Kin(c0, d, v, Z, 0)
      BY <1>3, <2>2, <2>5 DEF Kin
    <2> QED BY <1>3, <2>6 DEF d, r
  <1> QED BY <1>4, <1>5

LEMMA OweKin ==
  ASSUME NEW c0, NEW c \in Clients, NEW v \in Views, NEW Z, Kin(c0, c, v, Z, 0), c.est
  PROVE  LET d == [c EXCEPT !.due.ack = @ + 1]
         IN  Kin(c0, d, v, Z, 1) /\ d \in Clients /\ d.est /\ d.kick = c.kick
  <1> DEFINE d == [c EXCEPT !.due.ack = @ + 1]
  <1>1. /\ d \in Clients /\ d.est = c.est /\ d.kick = c.kick /\ d.backlog = c.backlog
        /\ d.due["ack"] = c.due["ack"] + 1 /\ d.due["event"] = c.due["event"]
    BY DueMore, Zenon
  <1> HIDE DEF d
  <1>2. GoodClient(c, 0) /\ Count(c.backlog, "ack") \in Nat
    BY PlacesFinite DEF Kin, Clients
  <1>3. GoodClient(d, 1)
    BY <1>1, <1>2 DEF GoodClient, Live
  <1>4. Kin(c0, d, v, Z, 1)
    BY <1>1, <1>3 DEF Kin, Live
  <1> QED BY <1>1, <1>4 DEF d

LEMMA KickedKin ==
  ASSUME NEW c0, NEW c, NEW v, NEW Z, NEW owed, NEW other, Kin(c0, c, v, Z, owed), ~Live(c)
  PROVE  Kin(c0, c, v, Z, other)
  BY DEF Kin, GoodClient

-----------------------------------------------------------------------------
(* Events and commands, for all clients *)

\* The views a slot's client may have once it has read all.
Aim(j) == IF j \in Watched THEN Synced(seq, snap, screen) ELSE Views

\* What the clients have become while the one at turn is being read.
AllKin(cs, owed) ==
  /\ cs \in [Ports -> Clients]
  /\ \A j \in Ports :
       /\ Kin(slot[j], cs[j], view[j], Aim(j), IF j = turn THEN owed ELSE 0)
       /\ j # turn => cs[j].est = slot[j].est

\* One event more is due to it.
MoreDue(c) == [c EXCEPT !.due.event = @ + 1]

LEMMA EventValue ==
  ASSUME NEW cs \in [Ports -> Clients], NEW starved, NEW j \in Ports
  PROVE  /\ ~Live(cs[j]) => event(cs, starved)[j] = cs[j]
         /\ Live(cs[j]) => \E cut \in BOOLEAN :
              event(cs, starved)[j] = out(MoreDue(cs[j]), Typed("event"), cut)
  <1> DEFINE es == [i \in Ports |-> IF Live(cs[i]) THEN MoreDue(cs[i]) ELSE cs[i]]
             cut == Full(es[j]) \/ j \in starved
  <1>1. event(cs, starved)[j] = IF Live(es[j]) THEN out(es[j], Typed("event"), cut) ELSE es[j]
    BY Zenon DEF event, fanout_typed, MoreDue
  <1>2. es[j] = IF Live(cs[j]) THEN MoreDue(cs[j]) ELSE cs[j]
    BY Zenon
  <1>3. cut \in BOOLEAN
    OBVIOUS
  <1>4. PICK c \in Clients : c = cs[j]
    OBVIOUS
  <1>5. MoreDue(c).est = c.est /\ MoreDue(c).kick = c.kick
    BY DueMore, Zenon DEF MoreDue
  <1> HIDE DEF cut, es
  <1>6. CASE Live(cs[j])
    <2>1. Live(es[j]) /\ es[j] = MoreDue(cs[j])
      BY <1>2, <1>4, <1>5, <1>6 DEF Live
    <2>2. event(cs, starved)[j] = out(MoreDue(cs[j]), Typed("event"), cut)
      BY <1>1, <2>1
    <2> QED BY <1>3, <1>6, <2>2, Zenon
  <1>7. CASE ~Live(cs[j])
    BY <1>1, <1>2, <1>7
  <1> QED BY <1>6, <1>7

\* An event leaves a client the kin it was, and its session on.
LEMMA EventOne ==
  ASSUME NEW cs \in [Ports -> Clients], NEW starved, NEW j \in Ports,
         NEW c0, NEW v \in Views, NEW Z, NEW owed \in Nat, Kin(c0, cs[j], v, Z, owed)
  PROVE  LET d == event(cs, starved)[j]
         IN  Kin(c0, d, v, Z, owed) /\ d \in Clients /\ d.est = cs[j].est
  <1>1. CASE ~Live(cs[j])
    BY <1>1, EventValue
  <1>2. CASE Live(cs[j])
    <2>1. PICK cut \in BOOLEAN :
            event(cs, starved)[j] = out(MoreDue(cs[j]), Typed("event"), cut)
      BY <1>2, EventValue
    <2>2. PICK c \in Clients : c = cs[j]
      OBVIOUS
    <2> DEFINE d == out(MoreDue(c), Typed("event"), cut)
    <2>3. event(cs, starved)[j] = d
      BY <2>1, <2>2
    <2>4. Kin(c0, d, v, Z, owed) /\ d \in Clients /\ d.est
      <3>1. Kin(c0, c, v, Z, owed) /\ Live(c)
        BY <1>2, <2>2
      <3> QED BY <3>1, EventKin DEF MoreDue
    <2> HIDE DEF d
    <2> QED BY <1>2, <2>3, <2>4 DEF Live
  <1> QED BY <1>1, <1>2

LEMMA EventType ==
  ASSUME NEW cs, NEW starved
  PROVE  event(cs, starved) = [j \in Ports |-> event(cs, starved)[j]]
  BY DEF event, fanout_typed

LEMMA EventAll ==
  ASSUME view \in [Ports -> Views], NEW cs, NEW starved, NEW owed \in {0, 1}, AllKin(cs, owed)
  PROVE  /\ AllKin(event(cs, starved), owed)
         /\ \A j \in Ports : event(cs, starved)[j].est = cs[j].est
  <1>1. cs \in [Ports -> Clients]
    BY DEF AllKin
  <1>2. ASSUME NEW j \in Ports
        PROVE  /\ Kin(slot[j], event(cs, starved)[j], view[j], Aim(j), IF j = turn THEN owed ELSE 0)
               /\ event(cs, starved)[j] \in Clients /\ event(cs, starved)[j].est = cs[j].est
    <2>1. PICK k \in Nat : k = IF j = turn THEN owed ELSE 0
      OBVIOUS
    <2>2. PICK v \in Views : v = view[j]
      OBVIOUS
    <2>3. Kin(slot[j], cs[j], v, Aim(j), k)
      BY <2>1, <2>2 DEF AllKin
    <2>4. /\ Kin(slot[j], event(cs, starved)[j], v, Aim(j), k)
          /\ event(cs, starved)[j] \in Clients /\ event(cs, starved)[j].est = cs[j].est
      BY <1>1, <2>3, EventOne
    <2> QED BY <2>1, <2>2, <2>4
  <1>3. event(cs, starved) \in [Ports -> Clients]
    BY <1>2, EventType, Zenon
  <1> QED BY <1>2, <1>3 DEF AllKin

LEMMA CommandAll ==
  ASSUME view \in [Ports -> Views], turn \in Ports,
         NEW cs, NEW refused \in BOOLEAN, NEW starved, AllKin(cs, 0), cs[turn].est
  PROVE  AllKin(command(cs, turn, refused, starved), 0)
  <1> DEFINE more(c) == [c EXCEPT !.due.ack = @ + 1]
             taken == [cs EXCEPT ![turn].due.ack = @ + 1]
             told == IF refused THEN event(taken, starved) ELSE taken
             cut == turn \in starved
  <1>1. cs \in [Ports -> Clients] /\ turn \in Ports
    BY DEF AllKin
  <1>2. taken = [cs EXCEPT ![turn] = more(@)]
    OBVIOUS
  <1>3. /\ Kin(slot[turn], more(cs[turn]), view[turn], Aim(turn), 1)
        /\ more(cs[turn]) \in Clients /\ more(cs[turn]).est
    <2>1. PICK c \in Clients : c = cs[turn]
      BY <1>1
    <2>2. PICK v \in Views : v = view[turn]
      OBVIOUS
    <2>3. Kin(slot[turn], c, v, Aim(turn), 0) /\ c.est
      BY <2>1, <2>2 DEF AllKin
    <2>4. Kin(slot[turn], more(c), v, Aim(turn), 1) /\ more(c) \in Clients /\ more(c).est
      BY <2>3, OweKin
    <2> QED BY <2>1, <2>2, <2>4
  <1> HIDE DEF more
  <1>4. /\ taken \in [Ports -> Clients] /\ taken[turn] = more(cs[turn])
        /\ \A j \in Ports : j # turn => taken[j] = cs[j]
    BY <1>1, <1>2, <1>3
  <1> HIDE DEF taken
  <1>5. AllKin(taken, 1) /\ taken[turn].est
    BY <1>3, <1>4 DEF AllKin
  <1>6. AllKin(told, 1) /\ told[turn].est
    BY <1>5, EventAll
  <1>7. command(cs, turn, refused, starved) =
          IF told[turn].kick THEN told ELSE [told EXCEPT ![turn] = out(@, Typed("ack"), cut)]
    BY Zenon DEF command, taken
  <1> HIDE DEF told
  <1>8. CASE told[turn].kick
    <2>1. ~Live(told[turn])
      BY <1>8 DEF Live
    <2>2. Kin(slot[turn], told[turn], view[turn], Aim(turn), 0)
      BY <1>6, <2>1, KickedKin DEF AllKin
    <2>3. AllKin(told, 0)
      BY <1>6, <2>2 DEF AllKin
    <2> QED BY <1>7, <1>8, <2>3
  <1>9. CASE ~told[turn].kick
    <2>1. told \in [Ports -> Clients] /\ cut \in BOOLEAN
      BY <1>6 DEF AllKin
    <2> HIDE DEF cut
    <2>2. PICK c \in Clients : c = told[turn]
      BY <2>1
    <2>3. PICK v \in Views : v = view[turn]
      OBVIOUS
    <2>4. Kin(slot[turn], c, v, Aim(turn), 1) /\ Live(c)
      BY <1>6, <1>9, <2>2, <2>3 DEF AllKin, Live
    <2> DEFINE d == out(c, Typed("ack"), cut)
    <2>5. Kin(slot[turn], d, v, Aim(turn), 0) /\ d \in Clients
      BY <2>1, <2>4, AckKin
    <2>6. command(cs, turn, refused, starved) = [told EXCEPT ![turn] = d]
      BY <1>7, <1>9, <2>2
    <2> HIDE DEF d
    <2> DEFINE ds == [told EXCEPT ![turn] = d]
    <2>7. /\ ds \in [Ports -> Clients] /\ ds[turn] = d
          /\ \A j \in Ports : j # turn => ds[j] = told[j]
      BY <2>1, <2>5
    <2> HIDE DEF ds
    <2>8. AllKin(ds, 0)
      BY <1>6, <2>3, <2>5, <2>7 DEF AllKin
    <2> QED BY <2>6, <2>8 DEF ds
  <1> QED BY <1>8, <1>9

-----------------------------------------------------------------------------
(* Reading a client *)

LEMMA FrameAll ==
  ASSUME view \in [Ports -> Views], turn \in Ports, NEW frame \in Message, NEW starved,
         NEW s \in [ok : BOOLEAN, slot : [Ports -> Clients]], AllKin(s.slot, 0)
  PROVE  LET r == take_frame(s, turn, frame, starved)
         IN  r \in [ok : BOOLEAN, slot : [Ports -> Clients]] /\ AllKin(r.slot, 0)
  <1> DEFINE r == take_frame(s, turn, frame, starved)
             cs == s.slot
             S == [ok : BOOLEAN, slot : [Ports -> Clients]]
  <1>1. cs \in [Ports -> Clients]
    OBVIOUS
  <1>2. CASE ~s.ok
    <2>1. r = s
      BY <1>2, Zenon DEF take_frame
    <2> QED BY <2>1
  <1>3. CASE s.ok /\ ~cs[turn].est /\ frame = "hello"
    <2> DEFINE c == [cs[turn] EXCEPT !.est = TRUE]
               ds == [cs EXCEPT ![turn] = c]
    <2>1. r = [s EXCEPT !.slot[turn].est = TRUE]
      BY <1>3, Zenon DEF take_frame
    <2>2. r \in S /\ r.slot = ds
      <3>1. c \in Clients
        BY <1>1 DEF Clients
      <3>2. r = [s EXCEPT !.slot = ds]
        BY <2>1
      <3>3. ds \in [Ports -> Clients]
        BY <1>1, <3>1
      <3> HIDE DEF ds
      <3> QED BY <3>2, <3>3
    <2>3. GoodClient(cs[turn], 0) /\ (slot[turn].est => cs[turn].est)
      BY DEF AllKin, Kin
    <2>4. cs[turn] = Closed
      BY <1>3, <2>3 DEF GoodClient
    <2>5. /\ c \in Clients /\ c.est /\ ~c.kick /\ c.backlog = <<>>
          /\ c.due["event"] = 0 /\ c.due["ack"] = 0
      <3>1. c = [Closed EXCEPT !.est = TRUE]
        BY <2>4
      <3>2. c \in Clients /\ c.est /\ ~c.kick /\ c.backlog = <<>> /\ c.due = Closed.due
        BY <3>1, ClosedFacts DEF Clients
      <3> HIDE DEF c
      <3> QED BY <3>2, ClosedFacts
    <2>6. ds \in [Ports -> Clients] /\ ds[turn] = c /\ \A j \in Ports : j # turn => ds[j] = cs[j]
      BY <1>1, <2>5
    <2> HIDE DEF c, ds
    <2>7. GoodClient(c, 0)
      BY <2>5, CountNone, CaptureAssumption DEF GoodClient
    <2>8. Aims(slot[turn], c.backlog, view[turn], Aim(turn))
      BY <1>3, <2>3, <2>5 DEF Aims, OnlyTyped
    <2>9. Kin(slot[turn], c, view[turn], Aim(turn), 0)
      BY <2>5, <2>7, <2>8 DEF Kin
    <2>10. AllKin(ds, 0)
      BY <2>6, <2>9 DEF AllKin
    <2> HIDE DEF r
    <2>11. r \in S /\ AllKin(r.slot, 0)
      BY <2>2, <2>10
    <2> QED BY <2>11 DEF r
  <1>4. CASE s.ok /\ cs[turn].est /\ frame \in {"command", "refused"}
    <2> DEFINE ds == command(cs, turn, frame = "refused", starved)
    <2>1. r = [s EXCEPT !.slot = ds]
      BY <1>4, Zenon DEF take_frame
    <2>2. AllKin(ds, 0)
      <3>1. PICK refused \in BOOLEAN : refused = (frame = "refused")
        OBVIOUS
      <3>2. AllKin(command(cs, turn, refused, starved), 0)
        BY <1>4, CommandAll
      <3> QED BY <3>1, <3>2
    <2> HIDE DEF ds
    <2>3. ds \in [Ports -> Clients]
      BY <2>2 DEF AllKin
    <2>4. r \in S /\ r.slot = ds
      BY <2>1, <2>3
    <2> HIDE DEF r
    <2>5. r \in S /\ AllKin(r.slot, 0)
      BY <2>2, <2>4
    <2> QED BY <2>5 DEF r
  <1>5. CASE /\ s.ok
             /\ ~(s.ok /\ ~cs[turn].est /\ frame = "hello")
             /\ ~(s.ok /\ cs[turn].est /\ frame \in {"command", "refused"})
    <2>1. r = [s EXCEPT !.ok = FALSE]
      BY <1>5, Zenon DEF take_frame
    <2>2. r \in S /\ r.slot = cs
      BY <2>1
    <2> HIDE DEF r
    <2>3. r \in S /\ AllKin(r.slot, 0)
      BY <2>2
    <2> QED BY <2>3 DEF r
  <1> QED BY <1>2, <1>3, <1>4, <1>5

LEMMA FramesAll ==
  ASSUME view \in [Ports -> Views], turn \in Ports, NEW frames \in Seq(Message), NEW starved,
         AllKin(slot, 0)
  PROVE  LET r == take_frames(turn, frames, starved)
         IN  r \in [ok : BOOLEAN, slot : [Ports -> Clients]] /\ AllKin(r.slot, 0)
  <1> DEFINE V == {s \in [ok : BOOLEAN, slot : [Ports -> Clients]] : AllKin(s.slot, 0)}
             start == [ok |-> TRUE, slot |-> slot]
             r == take_frames(turn, frames, starved)
  <1>1. start \in V
    <2>1. slot \in [Ports -> Clients]
      BY DEF AllKin
    <2>2. start \in [ok : BOOLEAN, slot : [Ports -> Clients]] /\ start.slot = slot
      BY <2>1
    <2> HIDE DEF start
    <2> QED BY <2>2
  <1>2. \A s \in V : \A k \in 1 .. Len(frames) : take_frame(s, turn, frames[k], starved) \in V
    <2> SUFFICES ASSUME NEW s \in V, NEW k \in 1 .. Len(frames)
                 PROVE  take_frame(s, turn, frames[k], starved) \in V
      OBVIOUS
    <2>1. frames[k] \in Message
      OBVIOUS
    <2>2. s \in [ok : BOOLEAN, slot : [Ports -> Clients]] /\ AllKin(s.slot, 0)
      OBVIOUS
    <2> HIDE DEF V
    <2>3. LET q == take_frame(s, turn, frames[k], starved)
          IN  q \in [ok : BOOLEAN, slot : [Ports -> Clients]] /\ AllKin(q.slot, 0)
      BY <2>1, <2>2, FrameAll
    <2> QED BY <2>3 DEF V
  <1>3. r = FramesFold(turn, starved, start, frames)
    BY Zenon DEF take_frames, FramesFold
  <1> HIDE DEF V, start
  <1>4. PICK t \in [0 .. Len(frames) -> V] :
          FramesRun(t, turn, starved, start, frames, FramesFold(turn, starved, start, frames))
    BY <1>1, <1>2, FramesRuns
  <1>5. t[Len(frames)] = r /\ Len(frames) \in 0 .. Len(frames)
    BY <1>3, <1>4 DEF FramesRun
  <1> HIDE DEF r
  <1>6. r \in V
    BY <1>5
  <1> QED BY <1>6 DEF r, V

\* A frame of the snapshot more.
LEMMA ReplayOne ==
  ASSUME NEW c \in Clients, GoodClient(c, 0), c.est, NEW cut \in BOOLEAN, NEW f \in Frames,
         NEW v \in Views, NEW w \in Views, Live(c) => Made(v, c.backlog) = w
  PROVE  LET d == out(c, Replay(f), cut)
         IN  /\ d \in Clients /\ GoodClient(d, 0) /\ d.est
             /\ Live(d) => Made(v, d.backlog) = Painted(w, f)
  <1> DEFINE r == Replay(f)
             d == out(c, r, cut)
  <1>1. r \in Record /\ r.type = "replay" /\ r.toks[1].f = f
    BY RecordFacts
  <1> HIDE DEF r
  <1>2. /\ d \in Clients /\ d.est
        /\ c.kick \/ cut => d.kick /\ d.backlog = <<>>
        /\ ~c.kick /\ ~cut => ~d.kick /\ d.backlog = Append(c.backlog, r) /\ d.due = c.due
    BY <1>1, OutFacts
  <1>3. c.backlog \in Seq(Record)
    BY DEF Clients
  <1> HIDE DEF d
  <1>4. CASE c.kick \/ cut
    <2>1. Count(d.backlog, "pairs") <= BacklogMax + 1
      BY <1>2, <1>4, CountNone, CaptureAssumption
    <2>2. d \in Clients /\ GoodClient(d, 0) /\ d.est /\ ~Live(d)
      BY <1>2, <1>4, <2>1 DEF GoodClient, Live
    <2> QED BY <2>2 DEF d, r
  <1>5. CASE ~c.kick /\ ~cut
    <2>1. \A type \in {"pairs", "event", "ack"} : Count(d.backlog, type) = Count(c.backlog, type)
      <3> SUFFICES ASSUME NEW type \in {"pairs", "event", "ack"}
                   PROVE  Count(d.backlog, type) = Count(c.backlog, type)
        OBVIOUS
      <3>1. Count(c.backlog, type) \in Nat /\ r.type # type
        BY <1>1, <1>3, PlacesFinite
      <3>2. Count(Append(c.backlog, r), type) = Count(c.backlog, type) + (IF r.type = type THEN 1 ELSE 0)
        BY <1>1, <1>3, CountAppend
      <3>3. d.backlog = Append(c.backlog, r)
        BY <1>2, <1>5
      <3>4. Count(Append(c.backlog, r), type) = Count(c.backlog, type) + 0
        BY <3>1, <3>2
      <3> QED BY <3>1, <3>3, <3>4
    <2>2. GoodClient(d, 0)
      BY <1>2, <1>5, <2>1 DEF GoodClient, Live
    <2>3. Made(v, c.backlog) = w
      BY <1>5 DEF Live
    <2>4. Made(v, d.backlog) = Read(w, r)
      <3>1. PICK b \in Seq(Record) : b = c.backlog
        BY <1>3
      <3>2. Made(v, Append(b, r)) = Read(Made(v, b), r)
        BY <1>1, MadeAppend
      <3>3. d.backlog = Append(b, r)
        BY <1>2, <1>5, <3>1
      <3> QED BY <2>3, <3>1, <3>2, <3>3, Zenon
    <2>5. Made(v, d.backlog) = Painted(w, f)
      BY <1>1, <2>4, ReadFacts
    <2> QED BY <1>2, <2>2, <2>5 DEF d, r
  <1> QED BY <1>4, <1>5

\* A new session shows what the cache holds.
LEMMA SnapshotShown ==
  ASSUME snap \in Snaps, NEW c \in Clients, GoodClient(c, 0), c.est, NEW cut \in BOOLEAN,
         Live(c) => OnlyTyped(c.backlog),
         NEW v \in Views, v.row = Blank, v.cell = Blank
  PROVE  LET d == send_snapshot(c, cut)
         IN  /\ d \in Clients /\ GoodClient(d, 0) /\ d.est
             /\ Live(d) => \E w \in Views :
                  /\ Made(v, d.backlog) = w
                  /\ w.row = snap.row /\ w.cell = snap.cell
                  /\ w.cur = v.cur /\ w.seq = v.seq /\ w.sure = v.sure
  <1> DEFINE s == visit(snap)
             fr == [kind |-> "row", text |-> snap.row]
             fc == [kind |-> "cell", text |-> snap.cell]
             d == send_snapshot(c, cut)
             Shows(b, w) ==
               /\ b \in Clients /\ GoodClient(b, 0) /\ b.est
               /\ Live(b) => Made(v, b.backlog) = w
             Cached(w) ==
               /\ w \in Views /\ w.row = snap.row /\ w.cell = snap.cell
               /\ w.cur = v.cur /\ w.seq = v.seq /\ w.sure = v.sure
  <1>1. snap.row # Blank => fr \in Frames
    <2>1. snap.row \in Texts("row")
      BY DEF Snaps
    <2> QED BY <2>1, FrameFacts
  <1>2. snap.cell # Blank => fc \in Frames
    <2>1. snap.cell \in Texts("cell")
      BY DEF Snaps
    <2> QED BY <2>1, FrameFacts
  <1>3. s = (IF snap.row = Blank THEN <<>> ELSE <<fr>>) \o (IF snap.cell = Blank THEN <<>> ELSE <<fc>>)
    BY Zenon DEF visit
  <1>4. fr.kind = "row" /\ fr.text = snap.row /\ fc.kind # "row" /\ fc.text = snap.cell
    OBVIOUS
  <1> HIDE DEF fr, fc, s
  <1>5. Shows(c, v)
    <2>1. Live(c) => Made(v, c.backlog) = v
      BY MadeTyped DEF Clients
    <2> QED BY <2>1
  <1>6. ASSUME NEW b, NEW w \in Views, Shows(b, w), NEW f \in Frames
        PROVE  Shows(out(b, Replay(f), cut), Painted(w, f)) /\ Painted(w, f) \in Views
    <2>1. b \in Clients /\ GoodClient(b, 0) /\ b.est /\ (Live(b) => Made(v, b.backlog) = w)
      BY <1>6
    <2>2. Painted(w, f) \in Views
      BY PaintedType
    <2>3. Shows(out(b, Replay(f), cut), Painted(w, f))
      BY <2>1, ReplayOne
    <2> QED BY <2>2, <2>3
  <1> HIDE DEF Shows
  <1> DEFINE V == {b \in Clients : GoodClient(b, 0) /\ b.est}
  <1>7. s \in Seq(Frames)
    BY <1>1, <1>2, <1>3
  <1>8. \A b \in V : \A k \in 1 .. Len(s) : out(b, Replay(s[k]), cut) \in V
    <2> SUFFICES ASSUME NEW b \in V, NEW k \in 1 .. Len(s)
                 PROVE  out(b, Replay(s[k]), cut) \in V
      OBVIOUS
    <2>1. s[k] \in Frames
      BY <1>7
    <2>2. PICK f \in Frames : f = s[k]
      BY <2>1
    <2>3. PICK w \in Views : w = Made(v, b.backlog)
      BY MadeRuns DEF Clients
    <2>4. Shows(b, w)
      BY <2>3 DEF Shows
    <2>5. Shows(out(b, Replay(f), cut), Painted(w, f))
      BY <1>6, <2>4
    <2> QED BY <2>2, <2>5 DEF Shows
  <1>9. c \in V
    OBVIOUS
  <1>10. d = SendFold(cut, c, s)
    BY Zenon DEF send_snapshot, SendFold, s
  <1> HIDE DEF V, d
  <1>11. PICK t \in [0 .. Len(s) -> V] : SendRun(t, cut, c, s, SendFold(cut, c, s))
    BY <1>7, <1>8, <1>9, SendRuns
  <1>12. t[0] = c /\ t[Len(s)] = d /\ \A k \in 1 .. Len(s) : t[k] = out(t[k - 1], Replay(s[k]), cut)
    BY <1>10, <1>11 DEF SendRun
  <1>13. \E w : Shows(d, w) /\ Cached(w)
    <2>1. CASE snap.row = Blank /\ snap.cell = Blank
      <3>1. s = <<>>
        BY <1>3, <2>1
      <3>2. Len(s) = 0
        BY <3>1
      <3>3. Shows(d, v)
        BY <1>5, <1>12, <3>2
      <3>4. Cached(v)
        BY <2>1
      <3> QED BY <3>3, <3>4
    <2>2. CASE snap.row # Blank /\ snap.cell = Blank
      <3>1. s = <<fr>>
        BY <1>3, <2>2
      <3>2. Len(s) = 1 /\ s[1] = fr
        BY <3>1
      <3>3. t[1] = out(c, Replay(fr), cut) /\ d = t[1]
        <4>1. 1 \in 1 .. Len(s) /\ 1 - 1 = 0
          BY <3>2
        <4> QED BY <1>12, <3>2, <4>1
      <3>4. Shows(d, Painted(v, fr))
        BY <1>1, <1>5, <1>6, <2>2, <3>3
      <3>5. Cached(Painted(v, fr))
        BY <1>1, <1>4, <2>2, PaintedType
      <3> QED BY <3>4, <3>5
    <2>3. CASE snap.row = Blank /\ snap.cell # Blank
      <3>1. s = <<fc>>
        BY <1>3, <2>3
      <3>2. Len(s) = 1 /\ s[1] = fc
        BY <3>1
      <3>3. t[1] = out(c, Replay(fc), cut) /\ d = t[1]
        <4>1. 1 \in 1 .. Len(s) /\ 1 - 1 = 0
          BY <3>2
        <4> QED BY <1>12, <3>2, <4>1
      <3>4. Shows(d, Painted(v, fc))
        BY <1>2, <1>5, <1>6, <2>3, <3>3
      <3>5. Cached(Painted(v, fc))
        BY <1>2, <1>4, <2>3, PaintedType
      <3> QED BY <3>4, <3>5
    <2>4. CASE snap.row # Blank /\ snap.cell # Blank
      <3>1. s = <<fr>> \o <<fc>>
        BY <1>3, <2>4, Zenon
      <3>2. Len(s) = 2 /\ s[1] = fr /\ s[2] = fc
        BY <3>1
      <3>3. t[1] = out(c, Replay(fr), cut) /\ d = out(t[1], Replay(fc), cut)
        <4>1. 1 \in 1 .. Len(s) /\ 2 \in 1 .. Len(s) /\ 1 - 1 = 0 /\ 2 - 1 = 1
          BY <3>2
        <4> QED BY <1>12, <3>2, <4>1
      <3>4. Shows(t[1], Painted(v, fr)) /\ Painted(v, fr) \in Views
        BY <1>1, <1>5, <1>6, <2>4, <3>3
      <3>5. PICK w \in Views : w = Painted(v, fr)
        BY <3>4
      <3>6. Shows(d, Painted(w, fc))
        BY <1>2, <1>6, <2>4, <3>3, <3>4, <3>5
      <3>7. w.row = snap.row /\ w.cur = v.cur /\ w.seq = v.seq /\ w.sure = v.sure
        BY <1>1, <1>4, <2>4, <3>5, PaintedType
      <3>8. Cached(Painted(w, fc))
        BY <1>2, <1>4, <2>4, <3>7, PaintedType
      <3> QED BY <3>6, <3>8
    <2> QED BY <2>1, <2>2, <2>3, <2>4
  <1> QED BY <1>13 DEF Shows, d

\* A session that is established between two frames starts in step with the server.
LEMMA NewSession ==
  ASSUME snap \in Snaps, screen \in Screens, seq \in 0 .. MaxSeq,
         close(snap).row = screen.row, close(snap).cell = screen.cell,
         NEW w \in Views, w.row = snap.row, w.cell = snap.cell, w.cur = Mark, w.seq = seq,
         w.sure => snap.cur.part = "mark"
  PROVE  w \in Synced(seq, snap, screen)
  <1>1. w.sure => HeadOf(snap.cur) = Mark /\ close(snap) = snap
    BY DEF HeadOf, close
  <1>2. w.seq <= seq
    BY DEF Views
  <1> QED BY <1>1, <1>2 DEF Synced

-----------------------------------------------------------------------------
(* The bytes of the bus *)

\* What holds of the first place and goes from each to the next holds of all.
LEMMA Reaches ==
  ASSUME NEW n \in Nat, NEW S, 0 \in S, \A k \in 1 .. n : k - 1 \in S => k \in S
  PROVE  n \in S
  <1> DEFINE g == [k \in 0 .. n |-> k]
  <1>1. g[0] = 0 /\ g[n] = n /\ \A k \in 1 .. n : g[k - 1] = k - 1 /\ g[k] = k
    OBVIOUS
  <1> HIDE DEF g
  <1>2. g[0] \in S /\ \A k \in 1 .. n : g[k - 1] \in S => g[k] \in S
    BY <1>1, Zenon
  <1>3. \A k \in 0 .. n : g[k] \in S
    BY <1>2, Stays
  <1>4. n \in 0 .. n
    OBVIOUS
  <1> QED BY <1>1, <1>3, <1>4, Zenon

\* The screen as the cache would show it once the frame that is under way is closed.
Cached(s, g) == close(s).row = g.row /\ close(s).cell = g.cell

\* A view that follows the bus: it knows the frame under way, or is not sure.
Follows(v, s, g) ==
  /\ v.cur \in {HeadOf(s.cur), Mark}
  /\ v.sure => v.cur = HeadOf(s.cur) /\ v.row = g.row /\ v.cell = g.cell

PaintedBy(g, tok) == IF tok.part = "tail" THEN Painted(g, tok.f) ELSE g

LEMMA FeedFacts ==
  ASSUME NEW s \in Snaps, NEW tok \in Token
  PROVE  /\ feed(s, tok) \in Snaps
         /\ tok.part # "tail" => /\ feed(s, tok).cur = tok
                                 /\ feed(s, tok).row = close(s).row /\ feed(s, tok).cell = close(s).cell
         /\ tok.part = "tail" /\ s.cur = Part("head", tok.f) =>
              /\ feed(s, tok).cur = tok
              /\ close(feed(s, tok)).row = (IF tok.f.kind = "row" THEN tok.f.text ELSE s.row)
              /\ close(feed(s, tok)).cell = (IF tok.f.kind = "row" THEN Blank ELSE tok.f.text)
         /\ s.cur.part # "tail" => close(s) = s
  <1>1. close(s) \in Snaps
    <2>1. CASE s.cur.part = "tail"
      <3>1. s.cur.f \in Frames
        BY <2>1, TokenFacts DEF Snaps
      <3>2. CASE s.cur.f.kind = "row"
        <4>1. s.cur.f.text \in Texts("row") /\ Blank \in Texts("cell")
          BY <3>1, <3>2, FrameFacts, Zenon
        <4> QED BY <2>1, <3>2, <4>1 DEF close, paint, Snaps
      <3>3. CASE s.cur.f.kind # "row"
        <4>1. s.cur.f.kind = "cell"
          BY <3>1, <3>3, FrameFacts
        <4>2. s.cur.f.text \in Texts("cell")
          BY <3>1, <4>1, FrameFacts, Zenon
        <4> QED BY <2>1, <3>3, <4>2 DEF close, paint, Snaps
      <3> QED BY <3>2, <3>3
    <2>2. CASE s.cur.part # "tail"
      BY <2>2 DEF close
    <2> QED BY <2>1, <2>2
  <1>2. s.cur.part # "tail" => close(s) = s
    BY DEF close
  <1>3. CASE tok.part # "tail"
    <2>1. feed(s, tok) = [close(s) EXCEPT !.cur = tok]
      BY <1>3 DEF feed
    <2>2. PICK p \in Snaps : p = close(s)
      BY <1>1
    <2> QED BY <1>2, <1>3, <2>1, <2>2 DEF Snaps
  <1>4. CASE tok.part = "tail" /\ s.cur = Part("head", tok.f)
    <2>1. feed(s, tok) = [s EXCEPT !.cur = tok]
      BY <1>4 DEF feed
    <2>2. PICK p \in Snaps : p = feed(s, tok) /\ p.cur = tok /\ p.row = s.row /\ p.cell = s.cell
      BY <2>1 DEF Snaps
    <2>3. close(p) = paint(p, tok.f)
      BY <1>4, <2>2 DEF close
    <2>4. /\ paint(p, tok.f).row = (IF tok.f.kind = "row" THEN tok.f.text ELSE s.row)
          /\ paint(p, tok.f).cell = (IF tok.f.kind = "row" THEN Blank ELSE tok.f.text)
      BY <2>2 DEF paint, Snaps
    <2> QED BY <1>2, <1>4, <2>2, <2>3, <2>4
  <1>5. CASE tok.part = "tail" /\ s.cur # Part("head", tok.f)
    <2>1. feed(s, tok) = [s EXCEPT !.cur = s.cur]
      BY <1>5 DEF feed
    <2>2. feed(s, tok) = s
      BY <2>1 DEF Snaps
    <2> QED BY <1>2, <1>5, <2>2
  <1> QED BY <1>3, <1>4, <1>5

\* One token, for the cache, the bus and a client that follows it.
LEMMA TokenStep ==
  ASSUME NEW s \in Snaps, NEW g \in Screens, NEW tok \in Token, Cached(s, g),
         tok.part = "tail" => s.cur = Part("head", tok.f)
  PROVE  /\ feed(s, tok) \in Snaps /\ PaintedBy(g, tok) \in Screens
         /\ feed(s, tok).cur = tok
         /\ Cached(feed(s, tok), PaintedBy(g, tok))
         /\ \A v \in Views : Follows(v, s, g) =>
              Follows(Decode(v, tok), feed(s, tok), PaintedBy(g, tok))
  <1>1. CASE tok.part # "tail"
    <2>1. PICK p \in Snaps : p = feed(s, tok) /\ p.cur = tok /\ p.row = close(s).row /\ p.cell = close(s).cell
      BY <1>1, FeedFacts
    <2>2. PaintedBy(g, tok) = g
      BY <1>1 DEF PaintedBy
    <2>3. Cached(p, g)
      <3>1. close(p) = p
        BY <1>1, <2>1, FeedFacts
      <3> QED BY <2>1, <3>1 DEF Cached
    <2>4. ASSUME NEW v \in Views, Follows(v, s, g) PROVE Follows(Decode(v, tok), p, g)
      <3>1. HeadOf(p.cur) = IF tok.part = "head" THEN tok ELSE Mark
        BY <2>1 DEF HeadOf
      <3>2. /\ Decode(v, tok).cur = (IF tok.part = "head" THEN tok ELSE Mark)
            /\ Decode(v, tok).sure = v.sure
            /\ Decode(v, tok).row = v.row /\ Decode(v, tok).cell = v.cell
        BY <1>1, DecodeType
      <3> QED BY <2>4, <3>1, <3>2 DEF Follows
    <2> QED BY <2>1, <2>2, <2>3, <2>4
  <1>2. CASE tok.part = "tail"
    <2>1. s.cur = Part("head", tok.f) /\ tok.f \in Frames
      BY <1>2, TokenFacts
    <2>2. s.cur.part = "head" /\ close(s) = s /\ HeadOf(s.cur) = s.cur
      <3>1. s.cur.part = "head"
        BY <2>1, TokenFacts
      <3> QED BY <3>1, FeedFacts DEF HeadOf
    <2>3. PICK p \in Snaps :
            /\ p = feed(s, tok) /\ p.cur = tok
            /\ close(p).row = (IF tok.f.kind = "row" THEN tok.f.text ELSE s.row)
            /\ close(p).cell = (IF tok.f.kind = "row" THEN Blank ELSE tok.f.text)
      BY <1>2, <2>1, FeedFacts
    <2>4. PICK h \in Screens :
            /\ h = PaintedBy(g, tok)
            /\ h.row = (IF tok.f.kind = "row" THEN tok.f.text ELSE g.row)
            /\ h.cell = (IF tok.f.kind = "row" THEN Blank ELSE tok.f.text)
      <3>1. PaintedBy(g, tok) = Painted(g, tok.f)
        BY <1>2 DEF PaintedBy
      <3> QED BY <2>1, <3>1, PaintedType
    <2>5. Cached(p, h)
      BY <2>2, <2>3, <2>4 DEF Cached
    <2>6. ASSUME NEW v \in Views, Follows(v, s, g) PROVE Follows(Decode(v, tok), p, h)
      <3>1. HeadOf(p.cur) = Mark
        BY <1>2, <2>3 DEF HeadOf
      <3>2. CASE v.cur = Part("head", tok.f)
        <4>1. /\ Decode(v, tok).cur = Mark
              /\ Decode(v, tok).sure = (v.sure \/ tok.f.kind = "row")
              /\ Decode(v, tok).row = Painted(v, tok.f).row /\ Decode(v, tok).cell = Painted(v, tok.f).cell
          BY <1>2, <3>2, DecodeType
        <4>2. /\ Painted(v, tok.f).row = (IF tok.f.kind = "row" THEN tok.f.text ELSE v.row)
              /\ Painted(v, tok.f).cell = (IF tok.f.kind = "row" THEN Blank ELSE tok.f.text)
          BY <2>1, PaintedType
        <4>3. v.sure => v.row = g.row
          BY <2>6 DEF Follows
        <4> QED BY <2>4, <3>1, <4>1, <4>2, <4>3 DEF Follows
      <3>3. CASE v.cur # Part("head", tok.f)
        <4>1. ~v.sure
          BY <2>1, <2>2, <2>6, <3>3 DEF Follows
        <4>2. Decode(v, tok).cur = Mark /\ Decode(v, tok).sure = v.sure
          BY <1>2, <3>3, DecodeType
        <4> QED BY <3>1, <4>1, <4>2 DEF Follows
      <3> QED BY <3>2, <3>3
    <2> QED BY <2>3, <2>4, <2>5, <2>6
  <1> QED BY <1>1, <1>2

LEMMA DrainFollows ==
  ASSUME snap \in Snaps, screen \in Screens, Cached(snap, screen),
         NEW toks \in Seq(Token), Grammatical(toks)
  PROVE  LET s == FoldLeft(feed, snap, toks)
             g == PaintFold(screen, toks)
         IN  /\ s \in Snaps /\ g \in Screens /\ Cached(s, g)
             /\ \A v \in Views : Follows(v, snap, screen) => Follows(FoldLeft(Decode, v, toks), s, g)
  <1> DEFINE n == Len(toks)
             s == FoldLeft(feed, snap, toks)
             g == PaintFold(screen, toks)
  <1>1. \A k \in 1 .. n : toks[k] \in Token
    OBVIOUS
  <1>2. PICK S \in [0 .. Len(toks) -> Snaps] : FeedRun(S, snap, toks, s)
    <2>1. \A v \in Snaps : \A k \in 1 .. Len(toks) : feed(v, toks[k]) \in Snaps
      BY <1>1, FeedFacts
    <2> QED BY <2>1, FeedRuns
  <1>3. PICK G \in [0 .. Len(toks) -> Screens] : PaintRun(G, screen, toks, g)
    <2>1. \A v \in Screens : \A k \in 1 .. Len(toks) :
            (IF toks[k].part = "tail" THEN Painted(v, toks[k].f) ELSE v) \in Screens
      <3> SUFFICES ASSUME NEW v \in Screens, NEW k \in 1 .. Len(toks), toks[k].part = "tail"
                   PROVE  Painted(v, toks[k].f) \in Screens
        OBVIOUS
      <3>1. toks[k].f \in Frames
        BY <1>1, TokenFacts
      <3> QED BY <3>1, PaintedType
    <2> QED BY <2>1, PaintRuns
  <1>4. n \in Nat /\ n \in 0 .. n
    OBVIOUS
  <1>5. /\ S[0] = snap /\ S[n] = s /\ G[0] = screen /\ G[n] = g
        /\ \A k \in 1 .. n : S[k] = feed(S[k - 1], toks[k])
        /\ \A k \in 1 .. n : G[k] = PaintedBy(G[k - 1], toks[k])
        /\ \A k \in 0 .. n : S[k] \in Snaps /\ G[k] \in Screens
    BY <1>2, <1>3 DEF FeedRun, PaintRun, PaintedBy
  <1> HIDE DEF s, g, n
  <1>6. ASSUME NEW v \in Views, NEW W \in [0 .. n -> Views], W[0] = v, NEW good \in BOOLEAN,
               good => Follows(v, snap, screen),
               \A k \in 1 .. n : W[k] = Decode(W[k - 1], toks[k])
        PROVE  Cached(s, g) /\ (good => Follows(W[n], s, g))
    <2> DEFINE P == {k \in 0 .. n : /\ Cached(S[k], G[k])
                                    /\ k > 0 => S[k].cur = toks[k]
                                    /\ good => Follows(W[k], S[k], G[k])}
    <2>1. 0 \in P
      BY <1>4, <1>5, <1>6
    <2>2. ASSUME NEW k \in 1 .. n, k - 1 \in P PROVE k \in P
      <3>1. k - 1 \in 0 .. n /\ k \in 0 .. n /\ toks[k] \in Token /\ k > 0
        BY <1>1, <1>4, <2>2
      <3>2. toks[k].part = "tail" => S[k - 1].cur = Part("head", toks[k].f)
        <4>1. toks[k].part = "tail" =>
                Part("head", toks[k].f) = IF k = 1 THEN snap.cur ELSE toks[k - 1]
          BY DEF Grammatical, n
        <4>2. k # 1 => S[k - 1].cur = toks[k - 1]
          BY <1>4, <2>2
        <4>3. k = 1 => k - 1 = 0
          BY <2>2
        <4> QED BY <1>5, <4>1, <4>2, <4>3
      <3>3. PICK a \in Snaps : a = S[k - 1]
        BY <1>5, <3>1
      <3>4. PICK b \in Screens : b = G[k - 1]
        BY <1>5, <3>1
      <3>5. PICK w \in Views : w = W[k - 1]
        BY <3>1
      <3>6. PICK tok \in Token : tok = toks[k]
        BY <3>1
      <3>7. Cached(a, b) /\ (good => Follows(w, a, b))
        BY <2>2, <3>3, <3>4, <3>5
      <3>8. S[k] = feed(a, tok) /\ G[k] = PaintedBy(b, tok) /\ W[k] = Decode(w, tok)
        BY <1>5, <1>6, <3>3, <3>4, <3>5, <3>6
      <3>9. tok.part = "tail" => a.cur = Part("head", tok.f)
        BY <3>2, <3>3, <3>6
      <3> HIDE DEF P
      <3>10. /\ feed(a, tok).cur = tok /\ Cached(feed(a, tok), PaintedBy(b, tok))
             /\ good => Follows(Decode(w, tok), feed(a, tok), PaintedBy(b, tok))
        BY <3>7, <3>9, TokenStep
      <3>11. /\ Cached(S[k], G[k]) /\ S[k].cur = toks[k]
             /\ good => Follows(W[k], S[k], G[k])
        BY <3>6, <3>8, <3>10
      <3> QED BY <3>1, <3>11 DEF P
    <2> HIDE DEF P
    <2>3. n \in P
      BY <1>4, <2>1, <2>2, Reaches
    <2> QED BY <1>5, <2>3 DEF P
  <1>7. ASSUME NEW v \in Views
        PROVE  Cached(s, g) /\ (Follows(v, snap, screen) => Follows(FoldLeft(Decode, v, toks), s, g))
    <2>1. PICK W \in [0 .. Len(toks) -> Views] : DecodeRun(W, v, toks, FoldLeft(Decode, v, toks))
      <3>1. \A w \in Views : \A k \in 1 .. Len(toks) : Decode(w, toks[k]) \in Views
        BY <1>1, DecodeType DEF n
      <3> QED BY <3>1, DecodeRuns
    <2>2. /\ W \in [0 .. n -> Views] /\ W[0] = v /\ W[n] = FoldLeft(Decode, v, toks)
          /\ \A k \in 1 .. n : W[k] = Decode(W[k - 1], toks[k])
      BY <2>1 DEF DecodeRun, n
    <2>3. PICK good \in BOOLEAN : good = Follows(v, snap, screen)
      BY DEF Follows
    <2>4. Cached(s, g) /\ (good => Follows(W[n], s, g))
      BY <1>6, <2>2, <2>3
    <2> QED BY <2>2, <2>3, <2>4
  <1>8. s \in Snaps /\ g \in Screens
    BY <1>4, <1>5
  <1>9. Cached(s, g)
    BY <1>7, UnseenFacts
  <1> QED BY <1>7, <1>8, <1>9 DEF s, g

-----------------------------------------------------------------------------
(* A record of bus bytes for one client, and what it takes from its backlog *)

\* A client keeps up, or sees later that it missed a record.
LEMMA BusRecord ==
  ASSUME seq \in 0 .. MaxSeq, seq < MaxSeq, snap \in Snaps, screen \in Screens, Cached(snap, screen),
         NEW toks \in BoundedSeq(Token, DrainMax), Grammatical(toks),
         NEW v \in Views, v \in Synced(seq, snap, screen)
  PROVE  /\ Read(v, Pairs(seq + 1, toks))
              \in Synced(seq + 1, FoldLeft(feed, snap, toks), PaintFold(screen, toks))
         /\ v \in Synced(seq + 1, FoldLeft(feed, snap, toks), PaintFold(screen, toks))
  <1> DEFINE m == seq + 1
             rec == Pairs(m, toks)
             s == FoldLeft(feed, snap, toks)
             g == PaintFold(screen, toks)
             w == Gapless(v, m)
             d == FoldLeft(Decode, w, toks)
  <1>1. m \in 1 .. MaxSeq /\ m \in 0 .. MaxSeq /\ seq \in Nat /\ m = seq + 1
    BY CaptureAssumption
  <1>2. toks \in Seq(Token)
    BY BoundedIsSeq, CaptureAssumption
  <1>3. v.seq <= seq /\ v.seq \in Nat /\ (v.seq = seq => Follows(v, snap, screen))
    BY DEF Synced, Follows, Views
  <1> HIDE DEF m
  <1>4. v \in Synced(m, s, g)
    BY <1>1, <1>3 DEF Synced
  <1>5. rec \in Record /\ rec.type = "pairs" /\ rec.n = m /\ rec.toks = toks
    BY <1>1, RecordFacts
  <1> HIDE DEF rec
  <1>6. Read(v, rec) = d
    BY <1>5, ReadFacts
  <1>7. /\ w \in Views /\ w.seq = m /\ w.row = v.row /\ w.cell = v.cell
        /\ m = v.seq + 1 => w.cur = v.cur /\ w.sure = v.sure
        /\ m # v.seq + 1 => w.cur = Mark /\ ~w.sure
    <2>1. CASE m = v.seq + 1
      BY <1>1, <2>1 DEF Gapless, Views
    <2>2. CASE m # v.seq + 1
      BY <1>1, <2>2, TokenFacts DEF Gapless, Views
    <2> QED BY <2>1, <2>2
  <1> HIDE DEF w
  <1>8. Follows(w, snap, screen)
    <2>1. CASE m = v.seq + 1
      <3>1. v.seq = seq
        BY <1>1, <1>3, <2>1
      <3> QED BY <1>3, <1>7, <2>1, <3>1 DEF Follows
    <2>2. CASE m # v.seq + 1
      BY <1>7, <2>2 DEF Follows
    <2> QED BY <2>1, <2>2
  <1>9. Follows(d, s, g)
    BY <1>2, <1>7, <1>8, DrainFollows
  <1>10. d \in Views /\ d.seq = m
    BY <1>2, <1>7, DecodedType
  <1> HIDE DEF d, s, g
  <1>11. d \in Synced(m, s, g)
    BY <1>1, <1>9, <1>10 DEF Synced, Follows
  <1>12. Read(v, rec) \in Synced(m, s, g) /\ v \in Synced(m, s, g)
    BY <1>4, <1>6, <1>11
  <1> QED BY <1>12 DEF m, rec, s, g

\* A record of bus bytes goes to a backlog that is not full.
LEMMA BusClient ==
  ASSUME NEW c \in Clients, GoodClient(c, 0), Live(c), ~Full(c), NEW rec \in Record, rec.type = "pairs",
         NEW cut \in BOOLEAN
  PROVE  LET d == out(c, rec, cut)
         IN  /\ d \in Clients /\ GoodClient(d, 0) /\ d.est
             /\ Live(d) => d.backlog = Append(c.backlog, rec)
  <1> DEFINE d == out(c, rec, cut)
  <1>1. c.est /\ ~c.kick /\ c.backlog \in Seq(Record)
    BY DEF Live, Clients
  <1>2. /\ d \in Clients /\ d.est
        /\ cut => d.kick /\ d.backlog = <<>>
        /\ ~cut => ~d.kick /\ d.backlog = Append(c.backlog, rec) /\ d.due = c.due
    BY <1>1, OutFacts
  <1> HIDE DEF d
  <1>3. CASE cut
    <2>1. Count(d.backlog, "pairs") <= BacklogMax + 1
      BY <1>2, <1>3, CountNone, CaptureAssumption
    <2> QED BY <1>2, <1>3, <2>1 DEF GoodClient, Live, d
  <1>4. CASE ~cut
    <2>1. /\ Count(c.backlog, "pairs") \in Nat /\ Count(c.backlog, "event") \in Nat
          /\ Count(c.backlog, "ack") \in Nat
      BY <1>1, PlacesFinite
    <2>2. Count(d.backlog, "pairs") = Count(c.backlog, "pairs") + 1
      <3>1. Count(Append(c.backlog, rec), "pairs") =
              Count(c.backlog, "pairs") + (IF rec.type = "pairs" THEN 1 ELSE 0)
        BY <1>1, CountAppend
      <3> QED BY <1>2, <1>4, <3>1
    <2>3. Count(d.backlog, "event") = Count(c.backlog, "event") + 0
      <3>1. Count(Append(c.backlog, rec), "event") =
              Count(c.backlog, "event") + (IF rec.type = "event" THEN 1 ELSE 0)
        BY <1>1, CountAppend
      <3> QED BY <1>2, <1>4, <3>1
    <2>4. Count(d.backlog, "ack") = Count(c.backlog, "ack") + 0
      <3>1. Count(Append(c.backlog, rec), "ack") =
              Count(c.backlog, "ack") + (IF rec.type = "ack" THEN 1 ELSE 0)
        BY <1>1, CountAppend
      <3> QED BY <1>2, <1>4, <3>1
    <2>5. Count(d.backlog, "pairs") <= BacklogMax + 1
      BY <2>1, <2>2, CaptureAssumption DEF Full
    <2>6. GoodClient(d, 0)
      BY <1>1, <1>2, <1>4, <2>1, <2>3, <2>4, <2>5 DEF GoodClient, Live
    <2> QED BY <1>2, <1>4, <2>6 DEF d
  <1> QED BY <1>3, <1>4

\* What was taken from a backlog is no longer due.
LEMMA DeliveredClient ==
  ASSUME NEW c \in Clients, GoodClient(c, 0), NEW n \in 0 .. Len(c.backlog)
  PROVE  LET d == Delivered(c, n)
         IN  /\ d \in Clients /\ GoodClient(d, 0) /\ d.est = c.est /\ d.kick = c.kick
             /\ d.backlog = SubSeq(c.backlog, n + 1, Len(c.backlog))
             /\ c = Closed => d = Closed
  <1> DEFINE d == Delivered(c, n)
             front == SubSeq(c.backlog, 1, n)
             rest == SubSeq(c.backlog, n + 1, Len(c.backlog))
             due == [type \in DOMAIN c.due |-> c.due[type] - Count(front, type)]
  <1>1. c.backlog \in Seq(Record) /\ c.due \in [{"event", "ack"} -> Nat]
    BY DEF Clients
  <1>2. front \in Seq(Record) /\ rest \in Seq(Record) /\ DOMAIN c.due = {"event", "ack"}
    BY <1>1
  <1>3. d = [c EXCEPT !.backlog = rest, !.due = due]
    BY Zenon DEF Delivered
  <1>4. \A type \in {"pairs", "event", "ack"} :
          /\ Count(front, type) \in Nat /\ Count(rest, type) \in Nat
          /\ Count(c.backlog, type) = Count(front, type) + Count(rest, type)
    <2> SUFFICES ASSUME NEW type \in {"pairs", "event", "ack"}
                 PROVE  /\ Count(front, type) \in Nat /\ Count(rest, type) \in Nat
                        /\ Count(c.backlog, type) = Count(front, type) + Count(rest, type)
      OBVIOUS
    <2>1. Count(front, type) \in Nat /\ Count(rest, type) \in Nat
      BY <1>2, PlacesFinite
    <2>2. Count(c.backlog, type) = Count(front, type) + Count(rest, type)
      BY <1>1, CountSplit
    <2> QED BY <2>1, <2>2
  <1>5. due["event"] = c.due["event"] - Count(front, "event") /\ due["ack"] = c.due["ack"] - Count(front, "ack")
    BY <1>2
  <1>6. CASE Live(c)
    <2>1. Count(c.backlog, "event") = c.due["event"] /\ Count(c.backlog, "ack") + 0 = c.due["ack"]
      BY <1>6 DEF GoodClient
    <2>2. c.due["event"] \in Nat /\ c.due["ack"] \in Nat
      BY <1>1
    <2> HIDE DEF front, rest
    <2>3. due["event"] = Count(rest, "event") /\ due["ack"] = Count(rest, "ack")
      BY <1>4, <1>5, <2>1, <2>2
    <2>4. due = [type \in {"event", "ack"} |-> due[type]]
      BY <1>2
    <2>5. due \in [{"event", "ack"} -> Nat]
      <3>1. \A type \in {"event", "ack"} : due[type] \in Nat
        BY <1>4, <2>3
      <3> HIDE DEF due
      <3> QED BY <2>4, <3>1
    <2> HIDE DEF due, d
    <2>6. d \in Clients /\ d.est = c.est /\ d.kick = c.kick /\ d.backlog = rest /\ d.due = due
      BY <1>2, <1>3, <2>5 DEF Clients
    <2>7. Count(rest, "pairs") <= BacklogMax + 1
      <3>1. Count(c.backlog, "pairs") <= BacklogMax + 1
        BY DEF GoodClient
      <3> QED BY <1>4, <3>1, CaptureAssumption
    <2>8. Count(d.backlog, "ack") + 0 = d.due["ack"] /\ Count(d.backlog, "event") = d.due["event"]
      BY <1>4, <2>3, <2>6
    <2>9. GoodClient(d, 0)
      BY <1>6, <2>6, <2>7, <2>8 DEF GoodClient, Live
    <2>10. c # Closed
      BY <1>6, ClosedFacts DEF Live
    <2> QED BY <2>6, <2>9, <2>10 DEF d, rest
  <1>7. CASE ~Live(c)
    <2>1. c.backlog = <<>>
      BY <1>7, ClosedFacts DEF Live, GoodClient
    <2>2. n = 0 /\ front = <<>> /\ rest = <<>>
      BY <2>1
    <2> HIDE DEF front, rest
    <2>3. \A type \in {"event", "ack"} : c.due[type] - Count(front, type) = c.due[type]
      BY <1>1, <2>2, CountNone
    <2>4. due = c.due
      BY <1>1, <1>2, <2>3
    <2> HIDE DEF due
    <2>5. d = [c EXCEPT !.backlog = c.backlog, !.due = c.due]
      BY <1>3, <2>1, <2>2, <2>4
    <2> HIDE DEF d
    <2>6. d = c
      BY <2>5 DEF Clients
    <2> QED BY <2>1, <2>2, <2>6 DEF d, rest
  <1> QED BY <1>6, <1>7

-----------------------------------------------------------------------------
(* The slots that are taken *)

LEMMA AppendFresh ==
  ASSUME NEW V, NEW s \in Seq(V), NEW x \in V, IsInjective(s), x \notin Range(s)
  PROVE  IsInjective(Append(s, x)) /\ Range(Append(s, x)) = Range(s) \cup {x}
  <1> SUFFICES ASSUME NEW r, r = Append(s, x)
               PROVE  IsInjective(r) /\ Range(r) = Range(s) \cup {x}
    OBVIOUS
  <1>1. /\ DOMAIN r = 1 .. Len(s) + 1 /\ DOMAIN s = 1 .. Len(s) /\ Len(s) \in Nat
        /\ \A k \in 1 .. Len(s) : r[k] = s[k]
        /\ r[Len(s) + 1] = x
    OBVIOUS
  <1>2. \A k \in 1 .. Len(s) + 1 : k \in 1 .. Len(s) \/ k = Len(s) + 1
    BY <1>1
  <1>3. \A k \in 1 .. Len(s) : k \in 1 .. Len(s) + 1
    BY <1>1
  <1>4. Len(s) + 1 \in 1 .. Len(s) + 1
    BY <1>1
  <1>5. \A k \in 1 .. Len(s) : s[k] # x
    BY <1>1 DEF Range
  <1>6. IsInjective(r)
    BY <1>1, <1>2, <1>5 DEF IsInjective
  <1>7. Range(r) = Range(s) \cup {x}
    BY <1>1, <1>2, <1>3, <1>4 DEF Range
  <1> QED BY <1>6, <1>7

\* The slots that stay open keep their order.
LEMMA WithoutFacts ==
  ASSUME open \in Seq(Ports), IsInjective(open), NEW S
  PROVE  Without(S) \in Seq(Ports) /\ IsInjective(Without(S)) /\ Range(Without(S)) = Range(open) \ S
  <1> DEFINE n == Len(open)
             Left(k) == {open[j] : j \in 1 .. k} \ S
  <1>1. n \in Nat /\ DOMAIN open = 1 .. n /\ \A k \in 1 .. n : open[k] \in Ports
    OBVIOUS
  <1>2. \A v \in Seq(Ports) : \A k \in 1 .. Len(open) :
          (IF open[k] \in S THEN v ELSE Append(v, open[k])) \in Seq(Ports)
    BY <1>1
  <1>3. <<>> \in Seq(Ports)
    OBVIOUS
  <1>4. PICK t \in [0 .. Len(open) -> Seq(Ports)] : KeepRun(t, S, <<>>, open, KeepFold(S, <<>>, open))
    BY <1>2, <1>3, KeepRuns, Zenon
  <1>5. Without(S) = KeepFold(S, <<>>, open)
    BY Zenon DEF Without, KeepFold
  <1>6. t[0] = <<>> /\ t[n] = Without(S)
    BY <1>4, <1>5, Zenon DEF KeepRun
  <1>7. \A k \in 1 .. n : t[k] = (IF open[k] \in S THEN t[k - 1] ELSE Append(t[k - 1], open[k]))
    BY <1>4, Zenon DEF KeepRun
  <1>8. \A k \in 0 .. n : t[k] \in Seq(Ports)
    BY <1>4
  <1> DEFINE Kept == {k \in 0 .. n : IsInjective(t[k]) /\ Range(t[k]) = Left(k)}
  <1>9. 0 \in Kept
    <2>1. IsInjective(<<>>) /\ Range(<<>>) = {}
      BY DEF IsInjective, Range
    <2>2. Left(0) = {} /\ 0 \in 0 .. n
      BY <1>1
    <2> QED BY <1>6, <2>1, <2>2
  <1>10. ASSUME NEW k \in 1 .. n, k - 1 \in Kept PROVE k \in Kept
    <2>1. k - 1 \in 0 .. n /\ k \in 0 .. n /\ 1 .. k = (1 .. (k - 1)) \cup {k}
      BY <1>1
    <2>2. IsInjective(t[k - 1]) /\ Range(t[k - 1]) = Left(k - 1)
      BY <1>10
    <2>3. t[k - 1] \in Seq(Ports)
      BY <1>8, <2>1
    <2>4. CASE open[k] \in S
      <3>1. t[k] = t[k - 1]
        BY <1>7, <2>4
      <3>2. Left(k) = Left(k - 1)
        BY <2>1, <2>4
      <3> QED BY <2>1, <2>2, <3>1, <3>2
    <2>5. CASE open[k] \notin S
      <3>1. t[k] = Append(t[k - 1], open[k])
        BY <1>7, <2>5
      <3>2. Left(k) = Left(k - 1) \cup {open[k]}
        BY <2>1, <2>5
      <3>3. open[k] \notin {open[j] : j \in 1 .. (k - 1)}
        <4> SUFFICES ASSUME NEW j \in 1 .. (k - 1), open[k] = open[j] PROVE FALSE
          OBVIOUS
        <4>1. j \in 1 .. n /\ j # k
          BY <1>1
        <4> QED BY <1>1, <4>1 DEF IsInjective
      <3>4. open[k] \notin Range(t[k - 1])
        BY <2>2, <3>3
      <3>5. open[k] \in Ports
        BY <1>1
      <3>6. IsInjective(t[k]) /\ Range(t[k]) = Range(t[k - 1]) \cup {open[k]}
        <4> HIDE DEF Kept, Left
        <4>1. PICK r \in Seq(Ports) : r = t[k - 1]
          BY <2>3
        <4>2. IsInjective(Append(r, open[k])) /\ Range(Append(r, open[k])) = Range(r) \cup {open[k]}
          <5>1. IsInjective(r) /\ open[k] \notin Range(r)
            BY <2>2, <3>4, <4>1, Zenon
          <5> QED BY <3>5, <5>1, AppendFresh
        <4> QED BY <3>1, <4>1, <4>2, Zenon
      <3> QED BY <2>1, <2>2, <3>2, <3>6
    <2> QED BY <2>4, <2>5
  <1>11. n \in Kept
    <2> HIDE DEF Kept, n
    <2> QED BY <1>1, <1>9, <1>10, Reaches
  <1>12. Left(n) = Range(open) \ S
    BY <1>1 DEF Range
  <1>13. n \in 0 .. n
    BY <1>1
  <1> QED BY <1>6, <1>8, <1>11, <1>12, <1>13

\* A newcomer gets a slot of the server.
LEMMA VictimFacts ==
  ASSUME NEW kept \in Seq(Ports)
  PROVE  victim(kept) \in Ports
  <1>1. Slots \in Nat /\ Slots >= 1
    BY CaptureAssumption
  <1>2. CASE Len(kept) < Slots
    <2> DEFINE Free == Ports \ Range(kept)
    <2>1. Free # {}
      <3> SUFFICES ASSUME Ports \subseteq Range(kept) PROVE FALSE
        OBVIOUS
      <3>1. Len(kept) \in Nat /\ IsFiniteSet(1 .. Len(kept)) /\ Cardinality(1 .. Len(kept)) = Len(kept)
        <4>1. Len(kept) \in Nat /\ 1 \in Int /\ Len(kept) \in Int
          OBVIOUS
        <4>2. IsFiniteSet(1 .. Len(kept))
              /\ Cardinality(1 .. Len(kept)) = IF 1 > Len(kept) THEN 0 ELSE Len(kept) - 1 + 1
          BY <4>1, FS_Interval, Zenon
        <4> QED BY <4>1, <4>2
      <3>2. kept \in Surjection(1 .. Len(kept), Range(kept))
        BY DEF Surjection, Range
      <3>3. IsFiniteSet(Range(kept)) /\ Cardinality(Range(kept)) <= Len(kept)
        BY <3>1, <3>2, FS_Surjection
      <3>4. Cardinality(Ports) = Slots
        BY <1>1, FS_Interval DEF Ports
      <3>5. Cardinality(Ports) <= Cardinality(Range(kept)) /\ Cardinality(Range(kept)) \in Nat
        BY <3>3, FS_Subset, FS_CardinalityType
      <3> QED BY <1>1, <1>2, <3>1, <3>3, <3>4, <3>5
    <2>2. Free \in SUBSET Nat
      BY <1>1 DEF Ports
    <2>3. \E x \in Free : \A y \in Free : x <= y
      <3> HIDE DEF Free
      <3> QED BY <2>1, <2>2, LeastExists
    <2>4. Min(Free) \in Free
      <3> HIDE DEF Free
      <3> QED BY <2>3 DEF Min
    <2> QED BY <1>2, <2>4 DEF victim
  <1>3. CASE ~(Len(kept) < Slots)
    <2>1. Len(kept) \in Nat /\ Len(kept) >= 1
      BY <1>1, <1>3
    <2>2. Head(kept) \in Ports
      BY <2>1
    <2> QED BY <1>3, <2>2 DEF victim
  <1> QED BY <1>2, <1>3

-----------------------------------------------------------------------------
(* The invariant, slot by slot *)

Fits(i, c, v, n, s, g) ==
  /\ c \in Clients /\ GoodClient(c, 0) /\ v \in Views
  /\ i \in Watched => /\ ~c.est => v = Unseen
                      /\ Live(c) => Made(v, c.backlog) \in Synced(n, s, g)

SlotInv ==
  /\ pc \in {"poll", "recv", "drain", "flush"} /\ turn \in Ports
  /\ open \in Seq(Ports) /\ IsInjective(open)
  /\ seq \in 0 .. MaxSeq
  /\ snap \in Snaps /\ screen \in Screens /\ Cached(snap, screen)
  /\ slot = [i \in Ports |-> slot[i]] /\ view = [i \in Ports |-> view[i]]
  /\ \A i \in Ports : /\ Fits(i, slot[i], view[i], seq, snap, screen)
                      /\ i \notin Range(open) => slot[i] = Closed

LEMMA InvParts == IInv <=> SlotInv
  <1>1. \A i \in Watched : i \in Ports
    BY CaptureAssumption DEF Ports
  <1>2. IInv => /\ slot = [i \in Ports |-> slot[i]] /\ view = [i \in Ports |-> view[i]]
                /\ \A i \in Ports : slot[i] \in Clients /\ view[i] \in Views
    BY DEF IInv, StateInv
  <1>3. ASSUME IInv
        PROVE  \A i \in Ports : /\ Fits(i, slot[i], view[i], seq, snap, screen)
                                /\ i \notin Range(open) => slot[i] = Closed
    <2>1. \A i \in Ports : GoodClient(slot[i], 0) /\ (i \notin Range(open) => slot[i] = Closed)
      BY <1>3, Zenon DEF IInv, StateInv
    <2>2. \A i \in Watched : /\ ~slot[i].est => view[i] = Unseen
                             /\ Live(slot[i]) => Made(view[i], slot[i].backlog) \in Synced(seq, snap, screen)
      BY <1>3, Zenon DEF IInv, ReplicaInv
    <2> QED BY <1>2, <1>3, <2>1, <2>2, Zenon DEF Fits
  <1>4. ASSUME slot = [i \in Ports |-> slot[i]], view = [i \in Ports |-> view[i]],
               \A i \in Ports : Fits(i, slot[i], view[i], seq, snap, screen)
        PROVE  slot \in [Ports -> Clients] /\ view \in [Ports -> Views] /\ ReplicaInv
               /\ \A i \in Ports : GoodClient(slot[i], 0)
    <2>1. \A i \in Ports : slot[i] \in Clients /\ view[i] \in Views /\ GoodClient(slot[i], 0)
      BY <1>4, Zenon DEF Fits
    <2>2. slot \in [Ports -> Clients] /\ view \in [Ports -> Views]
      BY <1>4, <2>1
    <2>3. ReplicaInv
      BY <1>1, <1>4, Zenon DEF ReplicaInv, Fits
    <2> QED BY <2>1, <2>2, <2>3
  <1>5. IInv => Cached(snap, screen)
    BY DEF IInv, StateInv, Cached
  <1> QED BY <1>2, <1>3, <1>4, <1>5, Zenon DEF IInv, StateInv, SlotInv, Cached

LEMMA ClosedFits ==
  ASSUME NEW i, NEW n, NEW s, NEW g
  PROVE  Fits(i, Closed, Unseen, n, s, g)
  <1>1. Count(Closed.backlog, "pairs") <= BacklogMax + 1
    BY ClosedFacts, CountNone, CaptureAssumption
  <1> QED BY <1>1, ClosedFacts, UnseenFacts, Zenon DEF Fits, GoodClient, Live

LEMMA InitInv == Init => IInv
  <1> SUFFICES ASSUME Init PROVE IInv
    OBVIOUS
  <1>1. /\ pc \in {"poll", "recv", "drain", "flush"} /\ turn \in Ports
        /\ open \in Seq(Ports) /\ IsInjective(open) /\ seq \in 0 .. MaxSeq
    BY CaptureAssumption DEF Init, Ports, IsInjective
  <1>2. snap \in Snaps /\ screen \in Screens
    BY FrameFacts, TokenFacts DEF Init, Empty, Snaps, Screens
  <1>3. Cached(snap, screen)
    <2>1. snap.row = Blank /\ snap.cell = Blank /\ snap.cur = Mark /\ screen.row = Blank /\ screen.cell = Blank
      BY DEF Init, Empty
    <2>2. close(snap) = snap
      BY <2>1, TokenFacts DEF close
    <2> QED BY <2>1, <2>2 DEF Cached
  <1>4. slot = [i \in Ports |-> slot[i]] /\ view = [i \in Ports |-> view[i]]
        /\ \A i \in Ports : slot[i] = Closed /\ view[i] = Unseen
    BY DEF Init
  <1>5. \A i \in Ports : Fits(i, slot[i], view[i], seq, snap, screen) /\ (i \notin Range(open) => slot[i] = Closed)
    BY <1>4, ClosedFits, Zenon
  <1> QED BY <1>1, <1>2, <1>3, <1>4, <1>5, InvParts, Zenon DEF SlotInv

LEMMA StutterInv == IInv /\ UNCHANGED vars => IInv'
  BY DEF vars, IInv, StateInv, ReplicaInv

\* What becomes of the invariant when the bus has brought nothing.
LEMMA QuietInv ==
  ASSUME IInv, UNCHANGED <<seq, snap, screen>>,
         pc' \in {"poll", "recv", "drain", "flush"}, turn' \in Ports,
         open' \in Seq(Ports), IsInjective(open'),
         slot' = [i \in Ports |-> slot'[i]], view' = [i \in Ports |-> view'[i]],
         \A i \in Ports : /\ Fits(i, slot'[i], view'[i], seq, snap, screen)
                          /\ i \notin Range(open') => slot'[i] = Closed
  PROVE  IInv'
  <1>1. seq \in 0 .. MaxSeq /\ snap \in Snaps /\ screen \in Screens /\ Cached(snap, screen)
    BY InvParts, Zenon DEF SlotInv
  <1>2. seq' \in 0 .. MaxSeq /\ snap' \in Snaps /\ screen' \in Screens /\ Cached(snap', screen')
        /\ seq' = seq /\ snap' = snap /\ screen' = screen
    BY <1>1
  <1>3. \A i \in Ports : Fits(i, slot'[i], view'[i], seq', snap', screen')
    BY <1>2, Zenon
  <1>4. SlotInv'
    BY <1>2, <1>3, Zenon DEF SlotInv
  <1> QED BY <1>4, InvParts, PTL
-----------------------------------------------------------------------------
(* The steps: clients that come and go, events *)

\* The slots in S are closed, and those that stay open are still listed.
LEMMA ClosingInv ==
  ASSUME IInv, UNCHANGED <<seq, snap, screen>>,
         pc' \in {"poll", "recv", "drain", "flush"}, turn' \in Ports,
         open' \in Seq(Ports), IsInjective(open'), NEW S, Range(open) \ S \subseteq Range(open'),
         slot' = close_clients(S), view' = Forgotten(S)
  PROVE  IInv'
  <1>1. \A i \in Ports : /\ Fits(i, slot[i], view[i], seq, snap, screen)
                         /\ i \notin Range(open) => slot[i] = Closed
    BY InvParts, Zenon DEF SlotInv
  <1>2. \A i \in Ports : slot'[i] = (IF i \in S THEN Closed ELSE slot[i])
                         /\ view'[i] = (IF i \in S THEN Unseen ELSE view[i])
    BY DEF close_clients, Forgotten
  <1>3. slot' = [i \in Ports |-> slot'[i]] /\ view' = [i \in Ports |-> view'[i]]
    BY DEF close_clients, Forgotten
  <1>4. ASSUME NEW i \in Ports
        PROVE  /\ Fits(i, slot'[i], view'[i], seq, snap, screen)
               /\ i \notin Range(open') => slot'[i] = Closed
    <2>1. CASE i \in S
      BY <1>2, <2>1, ClosedFits
    <2>2. CASE i \notin S
      <3>1. slot'[i] = slot[i] /\ view'[i] = view[i]
        BY <1>2, <2>2
      <3>2. i \notin Range(open') => i \notin Range(open)
        BY <2>2
      <3> QED BY <1>1, <3>1, <3>2
    <2> QED BY <2>1, <2>2
  <1> QED BY <1>3, <1>4, QuietInv

LEMMA AcceptInv == IInv /\ Accept => IInv'
  <1> SUFFICES ASSUME IInv, Accept PROVE IInv'
    OBVIOUS
  <1>1. open \in Seq(Ports) /\ IsInjective(open) /\ turn \in Ports
    BY DEF IInv, StateInv
  <1> DEFINE kicked == {i \in Ports : slot[i].kick}
             kept == Without(kicked)
             let_in == kicked \cup {victim(kept)}
  <1>2. \/ open' = kept /\ slot' = close_clients(kicked) /\ view' = Forgotten(kicked)
        \/ /\ open' = Append(Without(let_in), victim(kept))
           /\ slot' = close_clients(let_in) /\ view' = Forgotten(let_in)
    BY Zenon DEF Accept
  <1>3. pc' = "recv" /\ UNCHANGED <<turn, seq, snap, screen>>
    BY DEF Accept
  <1> HIDE DEF kicked
  <1>4. kept \in Seq(Ports) /\ IsInjective(kept) /\ Range(kept) = Range(open) \ kicked
    BY <1>1, WithoutFacts
  <1>5. victim(kept) \in Ports
    <2> HIDE DEF kept
    <2> QED BY <1>4, VictimFacts
  <1>6. CASE open' = kept /\ slot' = close_clients(kicked) /\ view' = Forgotten(kicked)
    <2> HIDE DEF kept
    <2> QED BY <1>1, <1>3, <1>4, <1>6, ClosingInv
  <1>7. CASE /\ open' = Append(Without(let_in), victim(kept))
             /\ slot' = close_clients(let_in) /\ view' = Forgotten(let_in)
    <2>1. victim(kept) \in let_in
      OBVIOUS
    <2> HIDE DEF kept, let_in
    <2>2. PICK x \in Ports : x = victim(kept)
      BY <1>5
    <2>3. PICK r \in Seq(Ports) : r = Without(let_in) /\ IsInjective(r) /\ Range(r) = Range(open) \ let_in
      BY <1>1, WithoutFacts
    <2>4. x \notin Range(r)
      BY <2>1, <2>2, <2>3
    <2>5. IsInjective(Append(r, x)) /\ Range(Append(r, x)) = Range(r) \cup {x} /\ Append(r, x) \in Seq(Ports)
      <3>1. Append(r, x) \in Seq(Ports)
        OBVIOUS
      <3> QED BY <2>3, <2>4, <3>1, AppendFresh
    <2>6. open' = Append(r, x)
      BY <1>7, <2>2, <2>3
    <2>7. open' \in Seq(Ports) /\ IsInjective(open') /\ Range(open) \ let_in \subseteq Range(open')
      BY <2>3, <2>5, <2>6
    <2> QED BY <1>1, <1>3, <1>7, <2>7, ClosingInv
  <1> QED BY <1>2, <1>6, <1>7

LEMMA ThenType ==
  ASSUME turn \in Ports, pc \in {"poll", "recv", "drain", "flush"}, Then("drain")
  PROVE  turn' \in Ports /\ pc' \in {"poll", "recv", "drain", "flush"}
  BY CaptureAssumption DEF Then, Ports

LEMMA RecvNothingInv == IInv /\ RecvNothing => IInv'
  <1> SUFFICES ASSUME IInv, RecvNothing PROVE IInv'
    OBVIOUS
  <1>1. turn' \in Ports /\ pc' \in {"poll", "recv", "drain", "flush"}
    BY ThenType DEF IInv, StateInv, RecvNothing
  <1>2. UNCHANGED <<open, slot, seq, snap, view, screen>>
    BY DEF RecvNothing
  <1>3. SlotInv
    BY InvParts
  <1>4. SlotInv'
    BY <1>1, <1>2, <1>3 DEF SlotInv
  <1> QED BY <1>4, InvParts, PTL

LEMMA RecvEndInv == IInv /\ RecvEnd => IInv'
  <1> SUFFICES ASSUME IInv, RecvEnd PROVE IInv'
    OBVIOUS
  <1>1. turn' \in Ports /\ pc' \in {"poll", "recv", "drain", "flush"}
    BY ThenType DEF IInv, StateInv, RecvEnd
  <1>2. /\ UNCHANGED <<seq, snap, screen>>
        /\ open' = Without({turn}) /\ slot' = close_clients({turn}) /\ view' = Forgotten({turn})
    BY DEF RecvEnd, CloseHere
  <1>3. open \in Seq(Ports) /\ IsInjective(open)
    BY DEF IInv, StateInv
  <1>4. Without({turn}) \in Seq(Ports) /\ IsInjective(Without({turn}))
        /\ Range(Without({turn})) = Range(open) \ {turn}
    BY <1>3, WithoutFacts
  <1>5. PICK S : S = {turn}
    OBVIOUS
  <1>6. /\ open' \in Seq(Ports) /\ IsInjective(open') /\ Range(open) \ S \subseteq Range(open')
        /\ slot' = close_clients(S) /\ view' = Forgotten(S)
    BY <1>2, <1>4, <1>5
  <1> QED BY <1>1, <1>2, <1>6, ClosingInv

\* Every client is its own kin.
LEMMA SelfKin ==
  ASSUME IInv
  PROVE  AllKin(slot, 0)
  <1>1. \A i \in Ports : Fits(i, slot[i], view[i], seq, snap, screen)
    BY InvParts, Zenon DEF SlotInv
  <1>2. slot \in [Ports -> Clients]
    BY DEF IInv, StateInv
  <1>3. ASSUME NEW j \in Ports PROVE Kin(slot[j], slot[j], view[j], Aim(j), 0)
    <2>1. PICK c \in Clients, v \in Views : c = slot[j] /\ v = view[j]
      BY <1>1 DEF Fits
    <2>2. GoodClient(c, 0) /\ (j \in Watched /\ Live(c) => Made(v, c.backlog) \in Synced(seq, snap, screen))
      BY <1>1, <2>1 DEF Fits
    <2>3. Made(v, c.backlog) \in Views
      <3>1. PICK b \in Seq(Record) : b = c.backlog
        BY DEF Clients
      <3>2. Made(v, b) \in Views
        BY MadeRuns
      <3> QED BY <3>1, <3>2
    <2>4. Live(c) => Aims(c, c.backlog, v, Aim(j))
      BY <2>2, <2>3, Zenon DEF Aims, Aim, Live
    <2>5. Kin(c, c, v, Aim(j), 0)
      BY <2>2, <2>4, Zenon DEF Kin
    <2> QED BY <2>1, <2>5
  <1> QED BY <1>2, <1>3 DEF AllKin

\* A kin with the same session fits.
LEMMA KinFits ==
  ASSUME IInv, NEW j \in Ports, NEW c \in Clients, Kin(slot[j], c, view[j], Aim(j), 0), c.est = slot[j].est
  PROVE  Fits(j, c, view[j], seq, snap, screen) /\ (j \notin Range(open) => c = Closed)
  <1>1. Fits(j, slot[j], view[j], seq, snap, screen) /\ (j \notin Range(open) => slot[j] = Closed)
    BY InvParts, Zenon DEF SlotInv
  <1>2. GoodClient(c, 0) /\ (Live(c) => Aims(slot[j], c.backlog, view[j], Aim(j)))
    BY DEF Kin
  <1>3. j \notin Range(open) => c = Closed
    BY <1>1, <1>2, ClosedFacts DEF GoodClient
  <1>4. view[j] \in Views /\ (j \in Watched /\ ~c.est => view[j] = Unseen)
    BY <1>1 DEF Fits
  <1>5. j \in Watched /\ Live(c) => Made(view[j], c.backlog) \in Synced(seq, snap, screen)
    BY <1>2, Zenon DEF Aims, Aim, Live
  <1> QED BY <1>2, <1>3, <1>4, <1>5, Zenon DEF Fits

LEMMA ReportInv == IInv /\ Report => IInv'
  <1> SUFFICES ASSUME IInv, Report PROVE IInv'
    OBVIOUS
  <1>1. PICK starved \in SUBSET Range(open) : slot' = event(slot, starved)
    BY DEF Report
  <1>2. UNCHANGED <<pc, turn, open, seq, snap, view, screen>>
    BY DEF Report
  <1>3. AllKin(slot, 0) /\ view \in [Ports -> Views]
    BY SelfKin DEF IInv, StateInv
  <1>4. AllKin(slot', 0) /\ \A j \in Ports : slot'[j].est = slot[j].est
    <2>1. PICK cs : cs = slot
      OBVIOUS
    <2>2. AllKin(cs, 0)
      BY <1>3, <2>1
    <2>3. AllKin(event(cs, starved), 0) /\ \A j \in Ports : event(cs, starved)[j].est = cs[j].est
      BY <1>3, <2>2, EventAll
    <2> QED BY <1>1, <2>1, <2>3, Zenon
  <1>5. ASSUME NEW j \in Ports
        PROVE  Fits(j, slot'[j], view'[j], seq, snap, screen) /\ (j \notin Range(open') => slot'[j] = Closed)
    <2>1. slot'[j] \in Clients /\ Kin(slot[j], slot'[j], view[j], Aim(j), 0) /\ slot'[j].est = slot[j].est
      BY <1>4 DEF AllKin
    <2>2. PICK c \in Clients : c = slot'[j]
      BY <2>1
    <2>3. Fits(j, c, view[j], seq, snap, screen) /\ (j \notin Range(open) => c = Closed)
      BY <2>1, <2>2, KinFits
    <2> QED BY <1>2, <2>2, <2>3
  <1>6. slot' = [i \in Ports |-> slot'[i]] /\ view' = [i \in Ports |-> view'[i]]
    BY <1>2, <1>3, <1>4 DEF AllKin
  <1>7. pc' \in {"poll", "recv", "drain", "flush"} /\ turn' \in Ports /\ open' \in Seq(Ports) /\ IsInjective(open')
    BY <1>2 DEF IInv, StateInv
  <1> QED BY <1>2, <1>5, <1>6, <1>7, QuietInv

-----------------------------------------------------------------------------
(* The step that reads a client *)

\* What a session that has just been established is shown, before its first event.
LEMMA ShownFits ==
  ASSUME IInv, NEW j \in Ports, NEW c \in Clients, GoodClient(c, 0), c.est,
         Live(c) => OnlyTyped(c.backlog), NEW cut \in BOOLEAN,
         NEW v \in Views, j \in Watched => /\ v.row = Blank /\ v.cell = Blank
                                           /\ v.cur = Mark /\ v.seq = seq
                                           /\ v.sure => snap.cur.part = "mark"
  PROVE  LET d == send_snapshot(c, cut)
         IN  d \in Clients /\ d.est /\ Kin(d, d, v, Aim(j), 0)
  <1> DEFINE d == send_snapshot(c, cut)
  <1>1. /\ snap \in Snaps /\ screen \in Screens /\ seq \in 0 .. MaxSeq
        /\ close(snap).row = screen.row /\ close(snap).cell = screen.cell
    BY DEF IInv, StateInv
  <1>2. Unseen \in Views /\ Unseen.row = Blank /\ Unseen.cell = Blank
    BY UnseenFacts
  <1>3. d \in Clients /\ GoodClient(d, 0) /\ d.est
    BY <1>1, <1>2, SnapshotShown
  <1>4. ASSUME j \in Watched, Live(d) PROVE Made(v, d.backlog) \in Synced(seq, snap, screen)
    <2>1. Live(d) => \E w \in Views :
            /\ Made(v, d.backlog) = w
            /\ w.row = snap.row /\ w.cell = snap.cell
            /\ w.cur = v.cur /\ w.seq = v.seq /\ w.sure = v.sure
      BY <1>1, <1>4, SnapshotShown
    <2> HIDE DEF d
    <2>2. PICK w \in Views :
            /\ Made(v, d.backlog) = w
            /\ w.row = snap.row /\ w.cell = snap.cell
            /\ w.cur = v.cur /\ w.seq = v.seq /\ w.sure = v.sure
      BY <1>4, <2>1
    <2>3. w.cur = Mark /\ w.seq = seq /\ (w.sure => snap.cur.part = "mark")
      BY <1>4, <2>2
    <2>4. w \in Synced(seq, snap, screen)
      BY <1>1, <2>2, <2>3, NewSession
    <2> QED BY <2>2, <2>4
  <1>5. Live(d) => Made(v, d.backlog) \in Views
    <2> HIDE DEF d
    <2>1. PICK b \in Seq(Record) : b = d.backlog
      BY <1>3 DEF Clients
    <2> QED BY <2>1, MadeRuns
  <1> HIDE DEF d
  <1>6. Kin(d, d, v, Aim(j), 0)
    BY <1>3, <1>4, <1>5, Zenon DEF Kin, Aims, Aim
  <1> QED BY <1>3, <1>6 DEF d

\* A session is established: its client gets the screen, and all the state.
LEMMA RecvNewInv ==
  ASSUME IInv, NEW starved \in SUBSET Range(open), NEW cs, AllKin(cs, 0),
         turn \in Range(open), cs[turn].est, ~slot[turn].est,
         slot' = event([cs EXCEPT ![turn] = send_snapshot(@, turn \in starved)], starved),
         view' = IF turn \in Watched
                 THEN [view EXCEPT ![turn].seq = seq, ![turn].sure = snap.cur.part = "mark"] ELSE view,
         UNCHANGED <<open, seq, snap, screen>>,
         pc' \in {"poll", "recv", "drain", "flush"}, turn' \in Ports
  PROVE  IInv'
  <1>1. /\ turn \in Ports /\ view \in [Ports -> Views] /\ open \in Seq(Ports) /\ IsInjective(open)
        /\ seq \in 0 .. MaxSeq
    BY DEF IInv, StateInv
  <1>2. /\ cs \in [Ports -> Clients] /\ \A j \in Ports : Kin(slot[j], cs[j], view[j], Aim(j), 0)
        /\ \A j \in Ports : j # turn => cs[j].est = slot[j].est
    BY DEF AllKin
  <1>3. Fits(turn, slot[turn], view[turn], seq, snap, screen)
    BY <1>1, InvParts, Zenon DEF SlotInv
  <1> DEFINE cut == turn \in starved
             d == send_snapshot(cs[turn], cut)
             shown == [cs EXCEPT ![turn] = d]
             v == view'[turn]
  <1>4. v \in Views /\ (turn \in Watched => /\ v.row = Blank /\ v.cell = Blank
                                            /\ v.cur = Mark /\ v.seq = seq
                                            /\ v.sure => snap.cur.part = "mark")
    <2>1. CASE turn \in Watched
      <3>1. view[turn] = Unseen
        BY <1>3, <2>1 DEF Fits
      <3>2. v = [view[turn] EXCEPT !.seq = seq, !.sure = snap.cur.part = "mark"]
        BY <1>1, <2>1
      <3>3. PICK u \in Views, b \in BOOLEAN : u = Unseen /\ b = (snap.cur.part = "mark")
        BY UnseenFacts
      <3>4. v = [u EXCEPT !.seq = seq, !.sure = b]
        BY <3>1, <3>2, <3>3, Zenon
      <3> HIDE DEF v
      <3>5. v \in Views /\ v.row = u.row /\ v.cell = u.cell /\ v.cur = u.cur /\ v.seq = seq /\ v.sure = b
        BY <1>1, <3>4 DEF Views
      <3> QED BY <3>3, <3>5, UnseenFacts
    <2>2. CASE turn \notin Watched
      BY <1>1, <2>2
    <2> QED BY <2>1, <2>2
  <1>5. cs[turn] \in Clients /\ GoodClient(cs[turn], 0) /\ (Live(cs[turn]) => OnlyTyped(cs[turn].backlog))
    BY <1>1, <1>2, Zenon DEF Kin, Aims
  <1>6. cut \in BOOLEAN
    OBVIOUS
  <1>7. d \in Clients /\ d.est /\ Kin(d, d, v, Aim(turn), 0)
    <2> HIDE DEF cut, v
    <2>1. PICK c \in Clients : c = cs[turn]
      BY <1>5
    <2>2. PICK u \in Views : u = v
      BY <1>4
    <2>3. LET e == send_snapshot(c, cut)
          IN  e \in Clients /\ e.est /\ Kin(e, e, u, Aim(turn), 0)
      <3>1. GoodClient(c, 0) /\ c.est /\ (Live(c) => OnlyTyped(c.backlog))
        BY <1>5, <2>1
      <3>2. turn \in Watched => /\ u.row = Blank /\ u.cell = Blank
                                /\ u.cur = Mark /\ u.seq = seq
                                /\ u.sure => snap.cur.part = "mark"
        BY <1>4, <2>2
      <3> QED BY <1>1, <1>6, <3>1, <3>2, ShownFits
    <2> QED BY <2>1, <2>2, <2>3, Zenon
  <1>8. slot' = event(shown, starved)
    BY Zenon
  <1> HIDE DEF d, v, cut
  <1>9. shown \in [Ports -> Clients] /\ shown[turn] = d /\ \A j \in Ports : j # turn => shown[j] = cs[j]
    BY <1>1, <1>2, <1>7
  <1> HIDE DEF shown
  <1>10. slot' = [j \in Ports |-> slot'[j]]
    <2>1. event(shown, starved) = [j \in Ports |-> event(shown, starved)[j]]
      BY EventType
    <2> QED BY <1>8, <2>1, Zenon
  <1>11. view' = [j \in Ports |-> view'[j]] /\ \A j \in Ports : j # turn => view'[j] = view[j]
    BY <1>1
  <1>12. ASSUME NEW j \in Ports
         PROVE  Fits(j, slot'[j], view'[j], seq, snap, screen) /\ (j \notin Range(open') => slot'[j] = Closed)
    <2>1. CASE j = turn
      <3>1. PICK c0 \in Clients, u \in Views : c0 = d /\ u = v
        BY <1>4, <1>7
      <3>2. PICK e \in Clients : e = event(shown, starved)[turn] /\ Kin(c0, e, u, Aim(turn), 0) /\ e.est = d.est
        <4>1. Kin(c0, shown[turn], u, Aim(turn), 0) /\ 0 \in Nat
          BY <1>7, <1>9, <3>1
        <4>2. LET e == event(shown, starved)[turn]
              IN  Kin(c0, e, u, Aim(turn), 0) /\ e \in Clients /\ e.est = shown[turn].est
          BY <1>1, <1>9, <4>1, EventOne
        <4> QED BY <1>9, <4>2, Zenon
      <3>3. slot'[j] = e /\ view'[j] = u
        BY <1>8, <2>1, <3>1, <3>2 DEF v
      <3>4. GoodClient(e, 0) /\ e.est /\ (j \in Watched /\ Live(e) => Made(u, e.backlog) \in Synced(seq, snap, screen))
        <4>1. Live(e) => Aims(c0, e.backlog, u, Aim(turn))
          BY <3>2 DEF Kin
        <4>2. c0.est
          BY <1>7, <3>1
        <4> QED BY <1>7, <2>1, <3>2, <4>1, <4>2, Zenon DEF Aims, Aim, Kin
      <3>5. Fits(j, e, u, seq, snap, screen)
        BY <3>4, Zenon DEF Fits
      <3>6. j \in Range(open')
        BY <2>1
      <3> QED BY <3>3, <3>5, <3>6
    <2>2. CASE j # turn
      <3>1. PICK c0 \in Clients, u \in Views : c0 = slot[j] /\ u = view[j]
        BY <1>1 DEF IInv, StateInv
      <3>2. PICK e \in Clients : e = event(shown, starved)[j] /\ Kin(c0, e, u, Aim(j), 0) /\ e.est = slot[j].est
        <4>1. Kin(c0, shown[j], u, Aim(j), 0) /\ 0 \in Nat
          BY <1>2, <1>9, <2>2, <3>1
        <4>2. LET e == event(shown, starved)[j]
              IN  Kin(c0, e, u, Aim(j), 0) /\ e \in Clients /\ e.est = shown[j].est
          BY <1>9, <4>1, EventOne
        <4>3. shown[j].est = slot[j].est
          BY <1>2, <1>9, <2>2
        <4> QED BY <4>2, <4>3, Zenon
      <3>3. slot'[j] = e /\ view'[j] = view[j]
        BY <1>8, <1>11, <2>2, <3>2
      <3>4. Fits(j, e, view[j], seq, snap, screen) /\ (j \notin Range(open) => e = Closed)
        BY <3>1, <3>2, KinFits
      <3> QED BY <3>3, <3>4
    <2> QED BY <2>1, <2>2
  <1>13. open' \in Seq(Ports) /\ IsInjective(open')
    BY <1>1
  <1> QED BY <1>10, <1>11, <1>12, <1>13, QuietInv

\* Frames of a client whose session goes on, or waits for its first frame.
LEMMA RecvOldInv ==
  ASSUME IInv, NEW cs, AllKin(cs, 0), turn \in Range(open), cs[turn].est => slot[turn].est,
         slot' = cs, view' = view, UNCHANGED <<open, seq, snap, screen>>,
         pc' \in {"poll", "recv", "drain", "flush"}, turn' \in Ports
  PROVE  IInv'
  <1>1. turn \in Ports /\ view \in [Ports -> Views] /\ open \in Seq(Ports) /\ IsInjective(open)
    BY DEF IInv, StateInv
  <1>2. cs \in [Ports -> Clients] /\ (\A j \in Ports : Kin(slot[j], cs[j], view[j], Aim(j), 0))
        /\ \A j \in Ports : j # turn => cs[j].est = slot[j].est
    BY DEF AllKin
  <1>3. ASSUME NEW j \in Ports PROVE cs[j].est = slot[j].est
    <2>1. slot[j].est => cs[j].est
      BY <1>2 DEF Kin
    <2>2. cs[j].est \in BOOLEAN /\ slot[j].est \in BOOLEAN
      BY <1>2 DEF Clients, IInv, StateInv
    <2> QED BY <1>2, <2>1, <2>2
  <1>4. ASSUME NEW j \in Ports
        PROVE  Fits(j, slot'[j], view'[j], seq, snap, screen) /\ (j \notin Range(open') => slot'[j] = Closed)
    <2>1. PICK c \in Clients : c = cs[j]
      BY <1>2
    <2>2. Fits(j, c, view[j], seq, snap, screen) /\ (j \notin Range(open) => c = Closed)
      BY <1>2, <1>3, <2>1, KinFits
    <2> QED BY <2>1, <2>2
  <1>5. slot' = [j \in Ports |-> slot'[j]] /\ view' = [j \in Ports |-> view'[j]]
        /\ open' \in Seq(Ports) /\ IsInjective(open')
    BY <1>1, <1>2
  <1> QED BY <1>4, <1>5, QuietInv

\* A fatal error of the client at turn, after commands of it that others were told of.
LEMMA RecvFatalInv ==
  ASSUME IInv, NEW cs, AllKin(cs, 0), turn \in Range(open),
         slot' = [cs EXCEPT ![turn] = Closed], view' = Forgotten({turn}), open' = Without({turn}),
         UNCHANGED <<seq, snap, screen>>,
         pc' \in {"poll", "recv", "drain", "flush"}, turn' \in Ports
  PROVE  IInv'
  <1>1. turn \in Ports /\ view \in [Ports -> Views] /\ open \in Seq(Ports) /\ IsInjective(open)
    BY DEF IInv, StateInv
  <1>2. cs \in [Ports -> Clients] /\ (\A j \in Ports : Kin(slot[j], cs[j], view[j], Aim(j), 0))
        /\ \A j \in Ports : j # turn => cs[j].est = slot[j].est
    BY DEF AllKin
  <1>3. open' \in Seq(Ports) /\ IsInjective(open') /\ Range(open') = Range(open) \ {turn}
    BY <1>1, WithoutFacts
  <1>4. /\ slot' = [j \in Ports |-> slot'[j]] /\ view' = [j \in Ports |-> view'[j]]
        /\ slot'[turn] = Closed /\ view'[turn] = Unseen
        /\ \A j \in Ports : j # turn => slot'[j] = cs[j] /\ view'[j] = view[j]
    BY <1>1, <1>2 DEF Forgotten
  <1>5. ASSUME NEW j \in Ports
        PROVE  Fits(j, slot'[j], view'[j], seq, snap, screen) /\ (j \notin Range(open') => slot'[j] = Closed)
    <2>1. CASE j = turn
      BY <1>4, <2>1, ClosedFits
    <2>2. CASE j # turn
      <3>1. PICK c \in Clients : c = cs[j]
        BY <1>2
      <3>2. Fits(j, c, view[j], seq, snap, screen) /\ (j \notin Range(open) => c = Closed)
        BY <1>2, <2>2, <3>1, KinFits
      <3>3. j \notin Range(open') => j \notin Range(open)
        BY <1>3, <2>2
      <3> QED BY <1>4, <2>2, <3>1, <3>2, <3>3
    <2> QED BY <2>1, <2>2
  <1> QED BY <1>3, <1>4, <1>5, QuietInv

LEMMA RecvInv == IInv /\ Recv => IInv'
  <1> SUFFICES ASSUME IInv, Recv PROVE IInv'
    OBVIOUS
  <1>1. /\ turn' \in Ports /\ pc' \in {"poll", "recv", "drain", "flush"}
        /\ turn \in Range(open) /\ UNCHANGED <<seq, snap, screen>>
    BY ThenType DEF IInv, StateInv, Recv
  <1>2. PICK frames \in Reads, starved \in SUBSET Range(open) :
          LET fed == take_frames(turn, frames, starved)
              new == fed.slot[turn].est /\ ~slot[turn].est
              shown == [fed.slot EXCEPT ![turn] = send_snapshot(@, turn \in starved)]
          IN IF fed.ok
             THEN /\ slot' = (IF new THEN event(shown, starved) ELSE fed.slot) /\ Bounded(slot')
                  /\ view' = IF new /\ turn \in Watched
                             THEN [view EXCEPT ![turn].seq = seq, ![turn].sure = snap.cur.part = "mark"] ELSE view
                  /\ UNCHANGED open
             ELSE /\ slot' = [fed.slot EXCEPT ![turn] = Closed] /\ Bounded(slot')
                  /\ view' = Forgotten({turn}) /\ open' = Without({turn})
    BY Zenon DEF Recv
  <1> DEFINE fed == take_frames(turn, frames, starved)
  <1>3. frames \in Seq(Message)
    BY CaptureAssumption
  <1>4. AllKin(fed.slot, 0)
    BY <1>3, SelfKin, FramesAll DEF IInv, StateInv
  <1>5. PICK cs : cs = fed.slot
    OBVIOUS
  <1>6. AllKin(cs, 0)
    BY <1>4, <1>5, Zenon
  <1>7. CASE fed.ok /\ cs[turn].est /\ ~slot[turn].est
    <2>1. /\ slot' = event([cs EXCEPT ![turn] = send_snapshot(@, turn \in starved)], starved)
          /\ view' = IF turn \in Watched
                     THEN [view EXCEPT ![turn].seq = seq, ![turn].sure = snap.cur.part = "mark"] ELSE view
          /\ UNCHANGED open
      BY <1>2, <1>5, <1>7, Zenon
    <2> QED BY <1>1, <1>6, <1>7, <2>1, RecvNewInv
  <1>8. CASE fed.ok /\ ~(cs[turn].est /\ ~slot[turn].est)
    <2>1. slot' = cs /\ view' = view /\ UNCHANGED open
      BY <1>2, <1>5, <1>8, Zenon
    <2>2. cs[turn].est => slot[turn].est
      BY <1>8
    <2> QED BY <1>1, <1>6, <2>1, <2>2, RecvOldInv
  <1>9. CASE ~fed.ok
    <2>1. slot' = [cs EXCEPT ![turn] = Closed] /\ view' = Forgotten({turn}) /\ open' = Without({turn})
      BY <1>2, <1>5, <1>9, Zenon
    <2> QED BY <1>1, <1>6, <2>1, RecvFatalInv
  <1> QED BY <1>7, <1>8, <1>9

-----------------------------------------------------------------------------
(* The steps: the bytes of the bus, and what the backlogs write *)

LEMMA NothingFed == FoldLeft(feed, snap, <<>>) = snap /\ PaintFold(screen, <<>>) = screen
  <1>1. PICK e \in Seq({}) : e = <<>>
    <2>1. <<>> \in Seq({})
      OBVIOUS
    <2> QED BY <2>1, Zenon
  <1>2. Len(e) = 0
    BY <1>1
  <1>3. PICK V : V = {snap}
    OBVIOUS
  <1>4. PICK W : W = {screen}
    OBVIOUS
  <1>5. PICK t \in [0 .. Len(e) -> V] : FeedRun(t, snap, e, FoldLeft(feed, snap, e))
    <2>1. snap \in V /\ \A v \in V : \A k \in 1 .. Len(e) : feed(v, e[k]) \in V
      BY <1>2, <1>3
    <2> QED BY <2>1, FeedRuns
  <1>6. PICK u \in [0 .. Len(e) -> W] : PaintRun(u, screen, e, PaintFold(screen, e))
    <2>1. screen \in W /\ \A v \in W : \A k \in 1 .. Len(e) :
            (IF e[k].part = "tail" THEN Painted(v, e[k].f) ELSE v) \in W
      BY <1>2, <1>4
    <2> QED BY <2>1, PaintRuns
  <1>7. FoldLeft(feed, snap, e) = snap
    BY <1>2, <1>5, Zenon DEF FeedRun
  <1>8. PaintFold(screen, e) = screen
    BY <1>2, <1>6, Zenon DEF PaintRun
  <1> QED BY <1>1, <1>7, <1>8

\* A client that gets the record of bus bytes, or a copy of it without its bytes.
LEMMA RecordFits ==
  ASSUME IInv, seq < MaxSeq, NEW toks \in BoundedSeq(Token, DrainMax), Grammatical(toks),
         NEW j \in Ports, NEW c \in Clients, NEW v \in Views, Fits(j, c, v, seq, snap, screen),
         Live(c), ~Full(c), NEW cut \in BOOLEAN
  PROVE  Fits(j, out(c, Copy(j, seq + 1, toks), cut), v,
              seq + 1, FoldLeft(feed, snap, toks), PaintFold(screen, toks))
  <1> DEFINE m == seq + 1
             s == FoldLeft(feed, snap, toks)
             g == PaintFold(screen, toks)
             rec == Copy(j, m, toks)
             d == out(c, rec, cut)
  <1>1. /\ seq \in 0 .. MaxSeq /\ snap \in Snaps /\ screen \in Screens /\ Cached(snap, screen)
        /\ m \in 1 .. MaxSeq /\ 1 \in 1 .. MaxSeq
    <2>1. seq \in 0 .. MaxSeq /\ snap \in Snaps /\ screen \in Screens /\ Cached(snap, screen)
      BY InvParts, Zenon DEF SlotInv
    <2> QED BY <2>1, CaptureAssumption
  <1>2. rec \in Record /\ rec.type = "pairs" /\ (j \in Watched => rec = Pairs(m, toks))
    <2>1. <<>> \in BoundedSeq(Token, DrainMax)
      BY BoundedIsSeq, CaptureAssumption
    <2> HIDE DEF m
    <2> QED BY <1>1, <2>1, RecordFacts DEF Copy
  <1>3. GoodClient(c, 0) /\ (j \in Watched => Made(v, c.backlog) \in Synced(seq, snap, screen))
    BY DEF Fits
  <1>4. c.backlog \in Seq(Record)
    BY DEF Clients
  <1>5. j \in Watched => Made(v, Append(c.backlog, rec)) \in Synced(m, s, g)
    <2> SUFFICES ASSUME j \in Watched PROVE Made(v, Append(c.backlog, rec)) \in Synced(m, s, g)
      OBVIOUS
    <2>1. PICK w \in Views : w = Made(v, c.backlog)
      <3>1. PICK b \in Seq(Record) : b = c.backlog
        BY <1>4
      <3> QED BY <3>1, MadeRuns
    <2>2. Read(w, Pairs(m, toks)) \in Synced(m, s, g)
      <3>1. w \in Synced(seq, snap, screen)
        BY <1>3, <2>1
      <3> QED BY <1>1, <3>1, BusRecord
    <2> HIDE DEF rec, m, s, g
    <2>3. PICK b \in Seq(Record), r \in Record : b = c.backlog /\ r = rec
      BY <1>2, <1>4
    <2>4. Made(v, Append(b, r)) = Read(Made(v, b), r)
      BY MadeAppend
    <2> QED BY <1>2, <2>1, <2>2, <2>3, <2>4, Zenon
  <1> HIDE DEF rec, m, s, g
  <1>6. PICK r \in Record : r = rec /\ r.type = "pairs"
    BY <1>2
  <1>7. LET e == out(c, r, cut)
        IN  /\ e \in Clients /\ GoodClient(e, 0) /\ e.est
            /\ Live(e) => e.backlog = Append(c.backlog, r)
    BY <1>3, <1>6, BusClient
  <1>8. /\ d \in Clients /\ GoodClient(d, 0) /\ d.est
        /\ Live(d) => d.backlog = Append(c.backlog, rec)
    BY <1>6, <1>7, Zenon
  <1> HIDE DEF d
  <1>9. Fits(j, d, v, m, s, g)
    BY <1>5, <1>8, Zenon DEF Fits
  <1> QED BY <1>9 DEF d, rec, m, s, g

\* One that is stalled misses it.
LEMMA MissedFits ==
  ASSUME IInv, seq < MaxSeq, NEW toks \in BoundedSeq(Token, DrainMax), Grammatical(toks),
         NEW j \in Ports, NEW c \in Clients, NEW v \in Views, Fits(j, c, v, seq, snap, screen)
  PROVE  Fits(j, c, v, seq + 1, FoldLeft(feed, snap, toks), PaintFold(screen, toks))
  <1>1. seq \in 0 .. MaxSeq /\ snap \in Snaps /\ screen \in Screens /\ Cached(snap, screen)
    BY InvParts, Zenon DEF SlotInv
  <1>2. j \in Watched /\ Live(c) =>
          Made(v, c.backlog) \in Synced(seq + 1, FoldLeft(feed, snap, toks), PaintFold(screen, toks))
    <2> SUFFICES ASSUME j \in Watched, Live(c)
                 PROVE  Made(v, c.backlog)
                          \in Synced(seq + 1, FoldLeft(feed, snap, toks), PaintFold(screen, toks))
      OBVIOUS
    <2>1. PICK b \in Seq(Record) : b = c.backlog
      BY DEF Clients
    <2>2. PICK w \in Views : w = Made(v, b)
      BY MadeRuns
    <2>3. w \in Synced(seq, snap, screen)
      BY <2>1, <2>2 DEF Fits
    <2>4. w \in Synced(seq + 1, FoldLeft(feed, snap, toks), PaintFold(screen, toks))
      BY <1>1, <2>3, BusRecord
    <2> QED BY <2>1, <2>2, <2>4
  <1> QED BY <1>2, Zenon DEF Fits

LEMMA DrainInv == IInv /\ Drain => IInv'
  <1> SUFFICES ASSUME IInv, Drain PROVE IInv'
    OBVIOUS
  <1>1. /\ turn \in Ports /\ open \in Seq(Ports) /\ IsInjective(open) /\ seq \in 0 .. MaxSeq
        /\ snap \in Snaps /\ screen \in Screens /\ Cached(snap, screen)
        /\ slot = [i \in Ports |-> slot[i]] /\ view = [i \in Ports |-> view[i]]
        /\ \A i \in Ports : /\ Fits(i, slot[i], view[i], seq, snap, screen)
                            /\ i \notin Range(open) => slot[i] = Closed
    BY InvParts, Zenon DEF SlotInv
  <1>2. pc' = "flush" /\ UNCHANGED <<turn, open, view>>
    BY DEF Drain
  <1>3. PICK toks \in BoundedSeq(Token, DrainMax) :
          /\ Grammatical(toks)
          /\ IF toks # <<>> /\ \E i \in Ports : Live(slot[i])
             THEN /\ seq < MaxSeq /\ seq' = seq + 1
                  /\ \E starved \in SUBSET Range(open) : slot' = fanout_pairs(seq + 1, toks, starved)
             ELSE UNCHANGED <<seq, slot>>
          /\ snap' = FoldLeft(feed, snap, toks) /\ screen' = PaintFold(screen, toks)
    BY Zenon DEF Drain, PaintFold
  <1>4. snap' \in Snaps /\ screen' \in Screens /\ Cached(snap', screen')
    <2>1. toks \in Seq(Token)
      BY BoundedIsSeq, CaptureAssumption
    <2>2. FoldLeft(feed, snap, toks) \in Snaps /\ PaintFold(screen, toks) \in Screens
          /\ Cached(FoldLeft(feed, snap, toks), PaintFold(screen, toks))
      BY <1>1, <1>3, <2>1, DrainFollows
    <2> QED BY <1>3, <2>2, Zenon
  <1>5. CASE toks # <<>> /\ \E i \in Ports : Live(slot[i])
    <2>1. PICK starved \in SUBSET Range(open) : slot' = fanout_pairs(seq + 1, toks, starved)
      BY <1>3, <1>5
    <2>2. seq < MaxSeq /\ seq' = seq + 1
      BY <1>3, <1>5
    <2>3. seq' \in 0 .. MaxSeq
      BY <1>1, <2>2, CaptureAssumption
    <2>4. slot' = [i \in Ports |-> slot'[i]]
          /\ \A i \in Ports : slot'[i] = IF Live(slot[i]) /\ ~Full(slot[i])
                                         THEN out(slot[i], Copy(i, seq + 1, toks), i \in starved) ELSE slot[i]
      BY <2>1 DEF fanout_pairs
    <2>5. ASSUME NEW j \in Ports
          PROVE  Fits(j, slot'[j], view'[j], seq', snap', screen') /\ (j \notin Range(open') => slot'[j] = Closed)
      <3>1. PICK c \in Clients, v \in Views : c = slot[j] /\ v = view[j]
        BY <1>1 DEF Fits
      <3>2. Fits(j, c, v, seq, snap, screen) /\ (j \notin Range(open') => c = Closed) /\ view'[j] = v
        <4>1. view'[j] = view[j] /\ open' = open
          BY <1>2
        <4> QED BY <1>1, <3>1, <4>1, Zenon
      <3>3. CASE Live(c) /\ ~Full(c)
        <4>1. PICK cut \in BOOLEAN : cut = (j \in starved)
          <5>1. (j \in starved) \in BOOLEAN
            OBVIOUS
          <5> QED BY <5>1, Zenon
        <4>2. slot'[j] = out(c, Copy(j, seq + 1, toks), cut)
          BY <2>4, <3>1, <3>3, <4>1
        <4>3. Fits(j, out(c, Copy(j, seq + 1, toks), cut), v,
                   seq + 1, FoldLeft(feed, snap, toks), PaintFold(screen, toks))
          BY <1>3, <2>2, <3>2, <3>3, RecordFits
        <4>4. j \in Range(open')
          BY <3>2, <3>3, ClosedFacts DEF Live
        <4> QED BY <1>3, <2>2, <3>2, <4>2, <4>3, <4>4, Zenon
      <3>4. CASE ~(Live(c) /\ ~Full(c))
        <4>1. slot'[j] = c
          BY <2>4, <3>1, <3>4
        <4>2. Fits(j, c, v, seq + 1, FoldLeft(feed, snap, toks), PaintFold(screen, toks))
          BY <1>3, <2>2, <3>2, MissedFits
        <4> QED BY <1>3, <2>2, <3>2, <4>1, <4>2, Zenon
      <3> QED BY <3>3, <3>4
    <2>6. SlotInv'
      BY <1>1, <1>2, <1>4, <2>3, <2>4, <2>5 DEF SlotInv
    <2> QED BY <2>6, InvParts, PTL
  <1>6. CASE ~(toks # <<>> /\ \E i \in Ports : Live(slot[i]))
    <2>1. UNCHANGED <<seq, slot>>
      BY <1>3, <1>6
    <2>2. toks = <<>> => snap' = snap /\ screen' = screen
      BY <1>3, NothingFed
    <2>3. ASSUME NEW j \in Ports
          PROVE  Fits(j, slot'[j], view'[j], seq', snap', screen') /\ (j \notin Range(open') => slot'[j] = Closed)
      <3>1. Fits(j, slot[j], view[j], seq, snap, screen) /\ (j \notin Range(open) => slot[j] = Closed)
        BY <1>1
      <3>2. slot'[j] = slot[j] /\ view'[j] = view[j] /\ seq' = seq /\ open' = open
        BY <1>2, <2>1
      <3>3. Fits(j, slot[j], view[j], seq, snap', screen')
        <4>1. CASE toks = <<>>
          BY <2>2, <3>1, <4>1
        <4>2. CASE toks # <<>>
          <5>1. ~Live(slot[j])
            BY <1>6, <4>2
          <5> QED BY <3>1, <5>1, Zenon DEF Fits
        <4> QED BY <4>1, <4>2
      <3> QED BY <3>1, <3>2, <3>3, Zenon
    <2>4. SlotInv'
      BY <1>1, <1>2, <1>4, <2>1, <2>3 DEF SlotInv
    <2> QED BY <2>4, InvParts, PTL
  <1> QED BY <1>5, <1>6

\* A client whose backlog is written, some of it or all.
LEMMA WrittenFits ==
  ASSUME NEW j \in Ports, NEW c \in Clients, NEW v \in Views, NEW n \in 0 .. Len(c.backlog),
         NEW m, NEW s, NEW g, Fits(j, c, v, m, s, g),
         NEW w, w = IF j \in Watched THEN FoldLeft(Read, v, SubSeq(c.backlog, 1, n)) ELSE v
  PROVE  Fits(j, Delivered(c, n), w, m, s, g) /\ (c = Closed => Delivered(c, n) = Closed)
  <1> DEFINE d == Delivered(c, n)
  <1>1. GoodClient(c, 0) /\ (j \in Watched => /\ ~c.est => v = Unseen
                                              /\ Live(c) => Made(v, c.backlog) \in Synced(m, s, g))
    BY DEF Fits
  <1>2. /\ d \in Clients /\ GoodClient(d, 0) /\ d.est = c.est /\ d.kick = c.kick
        /\ d.backlog = SubSeq(c.backlog, n + 1, Len(c.backlog))
        /\ c = Closed => d = Closed
    BY <1>1, DeliveredClient
  <1> HIDE DEF d
  <1>3. PICK b \in Seq(Record) : b = c.backlog
    BY DEF Clients
  <1>4. n \in 0 .. Len(b) /\ SubSeq(b, 1, n) \in Seq(Record) /\ SubSeq(b, n + 1, Len(b)) \in Seq(Record)
    BY <1>3
  <1>5. j \in Watched => w = Made(v, SubSeq(b, 1, n))
    BY <1>3, Zenon DEF Made
  <1>6. w \in Views
    <2>1. Made(v, SubSeq(b, 1, n)) \in Views
      <3>1. PICK x \in Seq(Record) : x = SubSeq(b, 1, n)
        BY <1>4
      <3>2. Made(v, x) \in Views
        BY MadeRuns
      <3> QED BY <3>1, <3>2
    <2> QED BY <1>5, <2>1
  <1>7. j \in Watched => Made(w, d.backlog) = Made(v, b)
    <2>1. Made(Made(v, SubSeq(b, 1, n)), SubSeq(b, n + 1, Len(b))) = Made(v, b)
      BY <1>4, MadeSplit
    <2>2. d.backlog = SubSeq(b, n + 1, Len(b))
      BY <1>2, <1>3
    <2> QED BY <1>5, <2>1, <2>2, Zenon
  <1>8. j \in Watched /\ ~c.est => w = v
    <2> SUFFICES ASSUME j \in Watched, ~c.est PROVE w = v
      OBVIOUS
    <2>1. b = <<>>
      BY <1>1, <1>3, ClosedFacts DEF GoodClient
    <2>2. SubSeq(b, 1, n) = <<>>
      BY <1>4, <2>1
    <2> QED BY <1>5, <2>2, MadeNone
  <1>9. Live(d) => Live(c)
    BY <1>2 DEF Live
  <1>10. Fits(j, d, w, m, s, g)
    BY <1>1, <1>2, <1>3, <1>6, <1>7, <1>8, <1>9, Zenon DEF Fits
  <1> QED BY <1>2, <1>10 DEF d

LEMMA FlushInv == IInv /\ Flush => IInv'
  <1> SUFFICES ASSUME IInv, Flush PROVE IInv'
    OBVIOUS
  <1>1. /\ turn \in Ports /\ open \in Seq(Ports) /\ IsInjective(open)
        /\ \A i \in Ports : /\ Fits(i, slot[i], view[i], seq, snap, screen)
                            /\ i \notin Range(open) => slot[i] = Closed
    BY InvParts, Zenon DEF SlotInv
  <1>2. pc' = "poll" /\ UNCHANGED <<turn, seq, snap, screen>>
    BY DEF Flush
  <1>3. PICK n \in [Ports -> 0 .. Max({Len(slot[i].backlog) : i \in Ports})],
             gone \in SUBSET {i \in Ports : slot[i].backlog # <<>>} :
          /\ \A i \in Ports : n[i] <= IF i \in gone THEN 0 ELSE Len(slot[i].backlog)
          /\ open' = Without(gone)
          /\ slot' = [i \in Ports |-> IF i \in gone THEN Closed ELSE Delivered(slot[i], n[i])]
          /\ view' = [i \in Ports |->
               CASE i \notin Watched               -> view[i]
                 [] i \in Watched /\ i \in gone     -> Unseen
                 [] i \in Watched /\ i \notin gone  -> FoldLeft(Read, view[i], SubSeq(slot[i].backlog, 1, n[i]))]
    BY Zenon DEF Flush
  <1>4. open' \in Seq(Ports) /\ IsInjective(open') /\ Range(open') = Range(open) \ gone
    BY <1>1, <1>3, WithoutFacts
  <1>5. slot' = [i \in Ports |-> slot'[i]] /\ view' = [i \in Ports |-> view'[i]]
    BY <1>3
  <1>6. ASSUME NEW j \in Ports
        PROVE  Fits(j, slot'[j], view'[j], seq, snap, screen) /\ (j \notin Range(open') => slot'[j] = Closed)
    <2>1. PICK c \in Clients, v \in Views : c = slot[j] /\ v = view[j]
      BY <1>1 DEF Fits
    <2>2. Fits(j, c, v, seq, snap, screen) /\ (j \notin Range(open) => c = Closed)
      BY <1>1, <2>1
    <2>3. slot'[j] = IF j \in gone THEN Closed ELSE Delivered(c, n[j])
      BY <1>3, <2>1
    <2>4. /\ j \notin Watched => view'[j] = v
          /\ j \in Watched /\ j \in gone => view'[j] = Unseen
          /\ j \in Watched /\ j \notin gone => view'[j] = FoldLeft(Read, v, SubSeq(c.backlog, 1, n[j]))
      BY <1>3, <2>1
    <2>5. CASE j \in gone
      <3>1. slot'[j] = Closed
        BY <2>3, <2>5
      <3>2. j \in Watched => view'[j] = Unseen
        BY <2>4, <2>5
      <3>3. j \notin Watched => view'[j] = v
        BY <2>4
      <3>4. Fits(j, Closed, Unseen, seq, snap, screen)
        BY ClosedFits
      <3>5. Fits(j, Closed, view'[j], seq, snap, screen)
        <4>1. CASE j \in Watched
          BY <3>2, <3>4, <4>1
        <4>2. CASE j \notin Watched
          BY <3>3, <3>4, <4>2, Zenon DEF Fits
        <4> QED BY <4>1, <4>2
      <3> QED BY <3>1, <3>5
    <2>6. CASE j \notin gone
      <3>1. PICK k \in 0 .. Len(c.backlog) : k = n[j]
        <4>1. n[j] \in 0 .. Max({Len(slot[i].backlog) : i \in Ports})
          BY <1>3
        <4>2. n[j] <= Len(c.backlog)
          BY <1>3, <2>1, <2>6
        <4>3. Len(c.backlog) \in Nat
          BY DEF Clients
        <4> QED BY <4>1, <4>2, <4>3
      <3>2. PICK w : w = IF j \in Watched THEN FoldLeft(Read, v, SubSeq(c.backlog, 1, k)) ELSE v
        OBVIOUS
      <3>3. Fits(j, Delivered(c, k), w, seq, snap, screen) /\ (c = Closed => Delivered(c, k) = Closed)
        BY <2>2, <3>2, WrittenFits
      <3>4. slot'[j] = Delivered(c, k) /\ view'[j] = w
        BY <2>3, <2>4, <2>6, <3>1, <3>2, Zenon
      <3>5. j \notin Range(open') => j \notin Range(open)
        BY <1>4, <2>6
      <3> QED BY <2>2, <3>3, <3>4, <3>5
    <2> QED BY <2>5, <2>6
  <1>7. pc' \in {"poll", "recv", "drain", "flush"} /\ turn' \in Ports
    BY <1>1, <1>2
  <1> QED BY <1>2, <1>4, <1>5, <1>6, <1>7, QuietInv

-----------------------------------------------------------------------------
(* The theorems *)

LEMMA NextInv == IInv /\ [Next]_vars => IInv'
  BY AcceptInv, RecvNothingInv, RecvEndInv, ReportInv, RecvInv, DrainInv, FlushInv, StutterInv, Zenon
  DEF Next

LEMMA Inductive == Spec => []IInv
  BY InitInv, NextInv, PTL DEF Spec

\* Every state of the server is of the right type: no slot is listed twice or taken without
\* being listed, and no backlog holds more than one record of bus bytes above its cap,
\* however the sends, the stalls and the closed connections come together.
THEOREM TypeCorrect == Spec => []TypeOK
  <1>1. IInv => TypeOK
    <2> SUFFICES ASSUME IInv PROVE TypeOK
      OBVIOUS
    <2>1. /\ pc \in {"poll", "recv", "drain", "flush"} /\ turn \in Ports
          /\ open \in Seq(Ports) /\ IsInjective(open)
          /\ seq \in 0 .. MaxSeq
          /\ slot \in [Ports -> Clients] /\ \A i \in Ports : GoodClient(slot[i], 0)
          /\ \A i \in Ports : i \notin Range(open) => slot[i] = Closed
          /\ snap \in Snaps /\ view \in [Ports -> Views]
      BY DEF IInv, StateInv
    <2>2. Range(open) \subseteq Ports
      BY <2>1 DEF Range
    <2>3. snap.cur \in Token
      BY <2>1 DEF Snaps
    <2>4. ASSUME NEW i \in Ports
          PROVE  /\ DOMAIN slot[i] = DOMAIN Closed /\ (i \notin Range(open) => slot[i] = Closed)
                 /\ \A n \in DOMAIN slot[i].backlog : slot[i].backlog[n] \in Record
                 /\ Count(slot[i].backlog, "pairs") <= BacklogMax + 1
                 /\ view[i].cur \in Token
      <3>1. PICK c \in Clients, v \in Views : c = slot[i] /\ v = view[i] /\ GoodClient(c, 0)
        BY <2>1
      <3>2. DOMAIN c = DOMAIN Closed
        BY ClosedFacts
      <3>3. \A n \in DOMAIN c.backlog : c.backlog[n] \in Record
        <4>1. PICK b \in Seq(Record) : b = c.backlog
          BY DEF Clients
        <4>2. \A n \in DOMAIN b : b[n] \in Record
          OBVIOUS
        <4> QED BY <4>1, <4>2
      <3>4. Count(c.backlog, "pairs") <= BacklogMax + 1 /\ v.cur \in Token
        BY <3>1 DEF GoodClient, Views
      <3> QED BY <2>1, <3>1, <3>2, <3>3, <3>4
    <2> QED BY <2>1, <2>2, <2>3, <2>4, Zenon DEF TypeOK
  <1> QED BY <1>1, Inductive, PTL

\* A client that has read all it was sent, missed no record and was established between two
\* frames shows what the bus has painted: the replay of the cache is neither stale nor laid
\* over what came live.
THEOREM ReplicaIsFaithful == Spec => []FaithfulReplica
  <1>1. IInv => FaithfulReplica
    <2> SUFFICES ASSUME IInv, NEW i \in Watched,
                        Live(slot[i]), slot[i].backlog = <<>>, view[i].seq = seq, view[i].sure
                 PROVE  view[i].row = screen.row /\ view[i].cell = screen.cell
      BY DEF FaithfulReplica
    <2>1. i \in Ports
      BY CaptureAssumption DEF Ports
    <2>2. PICK v \in Views : v = view[i]
      BY <2>1 DEF IInv, StateInv
    <2>3. Made(v, <<>>) \in Synced(seq, snap, screen)
      BY <2>2 DEF IInv, ReplicaInv
    <2>4. v \in Synced(seq, snap, screen)
      BY <2>3, MadeNone
    <2> QED BY <2>2, <2>4 DEF Synced
  <1> QED BY <1>1, Inductive, PTL

\* No event, diagnostic or acknowledgement is dropped for one client: what was due since its
\* session was established has reached it or is under way, or the client is cut.
THEOREM NothingIsLost == Spec => []NothingTypedLost
  <1>1. IInv => NothingTypedLost
    <2> SUFFICES ASSUME IInv, NEW i \in Ports, Live(slot[i]), NEW type \in {"event", "ack"}
                 PROVE  Count(slot[i].backlog, type) = slot[i].due[type]
      BY DEF NothingTypedLost
    <2>1. PICK c \in Clients : c = slot[i] /\ GoodClient(c, 0)
      BY DEF IInv, StateInv
    <2>2. Count(c.backlog, "event") = c.due["event"] /\ Count(c.backlog, "ack") + 0 = c.due["ack"]
      BY <2>1 DEF GoodClient
    <2>3. Count(c.backlog, "ack") \in Nat
      <3>1. PICK b \in Seq(Record) : b = c.backlog
        BY DEF Clients
      <3> QED BY <3>1, PlacesFinite
    <2>4. Count(c.backlog, "ack") = c.due["ack"]
      BY <2>2, <2>3
    <2> QED BY <2>1, <2>2, <2>4
  <1> QED BY <1>1, Inductive, PTL

=============================================================================
