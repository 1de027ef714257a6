------------------------- MODULE EditArbiterProofs --------------------------
(***************************************************************************)
(* Machine-checked proofs about EditArbiter, for every size of the ring    *)
(* and all macros: it implements RequestQueue.                             *)
(***************************************************************************)
EXTENDS EditArbiter, FiniteSetsExt, SequenceTheorems, WellFoundedInduction, TLAPS

\* A cycle of the scrape never runs beside an edit; a park may.
OneMachine == edit = "busy" => nav # "cycle"
IInv == TypeOK /\ OneMachine

-----------------------------------------------------------------------------
(* The ring *)

\* A remainder is a wrap-around once at most.
LEMMA Wraps ==
  ASSUME NEW a \in Nat, a < 2 * QN
  PROVE  a % QN = IF a < QN THEN a ELSE a - QN
  <1> QN \in Nat \ {0}
    BY ArbiterAssumption
  <1>1. CASE a < QN
    BY <1>1
  <1>2. CASE a >= QN
    BY <1>2
  <1> QED BY <1>1, <1>2

LEMMA SlotIs ==
  ASSUME TypeOK, NEW i \in 0 .. QN - 1
  PROVE  /\ Slot(i) = IF head + i < QN THEN head + i ELSE head + i - QN
         /\ Slot(i) \in 0 .. QN - 1
  <1> QN \in Nat \ {0} /\ head \in 0 .. QN - 1
    BY ArbiterAssumption DEF TypeOK
  <1>1. Slot(i) = IF head + i < QN THEN head + i ELSE head + i - QN
    BY Wraps DEF Slot
  <1> QED BY <1>1

\* No two of the places in the ring share a slot.
LEMMA SlotsDiffer ==
  ASSUME TypeOK, NEW i \in 0 .. QN - 1, NEW j \in 0 .. QN - 1, Slot(i) = Slot(j)
  PROVE  i = j
  <1> QN \in Nat \ {0} /\ head \in 0 .. QN - 1
    BY ArbiterAssumption DEF TypeOK
  <1> QED BY SlotIs

LEMMA SlotBefore ==
  ASSUME TypeOK, NEW i \in 1 .. QN - 1
  PROVE  (Slot(i) + QN - 1) % QN = Slot(i - 1)
  <1> QN \in Nat \ {0} /\ head \in 0 .. QN - 1
    BY ArbiterAssumption DEF TypeOK
  <1>1. /\ Slot(i) = IF head + i < QN THEN head + i ELSE head + i - QN
        /\ Slot(i) \in 0 .. QN - 1
    BY SlotIs
  <1>2. Slot(i - 1) = IF head + i - 1 < QN THEN head + i - 1 ELSE head + i - 1 - QN
    BY SlotIs
  <1>3. (Slot(i) + QN - 1) % QN
          = IF Slot(i) + QN - 1 < QN THEN Slot(i) + QN - 1 ELSE Slot(i) + QN - 1 - QN
    BY <1>1, Wraps
  <1> QED BY <1>1, <1>2, <1>3

\* With its head one further, the ring's places are one less.
LEMMA SlotAfter ==
  ASSUME TypeOK, head' = (head + 1) % QN, NEW i \in 1 .. QN - 1
  PROVE  (head' + i - 1) % QN = Slot(i)
  <1> QN \in Nat \ {0} /\ head \in 0 .. QN - 1
    BY ArbiterAssumption DEF TypeOK
  <1>1. head' = IF head + 1 < QN THEN head + 1 ELSE head + 1 - QN
    BY Wraps
  <1>2. (head' + i - 1) % QN = IF head' + i - 1 < QN THEN head' + i - 1 ELSE head' + i - 1 - QN
    BY <1>1, Wraps
  <1> QED BY <1>1, <1>2, SlotIs

LEMMA QueueIs ==
  ASSUME TypeOK
  PROVE  /\ Queue \in Seq(Requests) /\ Len(Queue) = n /\ n \in 0 .. QN
         /\ \A i \in 1 .. n : Queue[i] = q[Slot(i - 1)] /\ Queue[i] \in Requests
  <1>1. n \in 0 .. QN /\ QN \in Nat \ {0} /\ Queue \in Seq(Requests)
    BY ArbiterAssumption DEF TypeOK
  <1>2. Len(Queue) = n /\ \A i \in 1 .. n : Queue[i] = q[Slot(i - 1)]
    BY <1>1 DEF Queue
  <1> QED BY <1>1, <1>2, ElementOfSeq

-----------------------------------------------------------------------------
(* The queue *)

\* What RemoveAt leaves.
LEMMA Removed ==
  ASSUME NEW S, NEW s \in Seq(S), NEW p \in 1 .. Len(s)
  PROVE  /\ RemoveAt(s, p) \in Seq(S) /\ Len(RemoveAt(s, p)) = Len(s) - 1
         /\ \A k \in 1 .. Len(s) - 1 : RemoveAt(s, p)[k] = IF k < p THEN s[k] ELSE s[k + 1]
  <1> DEFINE a == SubSeq(s, 1, p - 1)
             b == SubSeq(s, p + 1, Len(s))
  <1>1. Len(s) \in Nat /\ \A i \in 1 .. Len(s) : s[i] \in S
    BY ElementOfSeq, LenProperties
  <1>2. /\ a \in Seq(S) /\ Len(a) = p - 1
        /\ \A i \in 1 .. p - 1 : a[i] = s[i]
    <2>1. \A i \in 1 .. p - 1 : s[i] \in S
      BY <1>1
    <2>2. /\ a \in Seq(S) /\ Len(a) = IF 1 <= p - 1 THEN p - 1 - 1 + 1 ELSE 0
          /\ \A i \in 1 .. p - 1 - 1 + 1 : a[i] = s[1 + i - 1]
      <3> HIDE DEF a
      <3> QED BY <2>1, SubSeqProperties DEF a
    <2> QED BY <1>1, <2>2
  <1>3. /\ b \in Seq(S) /\ Len(b) = Len(s) - p
        /\ \A i \in 1 .. Len(s) - p : b[i] = s[p + i]
    <2>1. \A i \in p + 1 .. Len(s) : s[i] \in S
      BY <1>1
    <2>2. /\ b \in Seq(S) /\ Len(b) = IF p + 1 <= Len(s) THEN Len(s) - (p + 1) + 1 ELSE 0
          /\ \A i \in 1 .. Len(s) - (p + 1) + 1 : b[i] = s[(p + 1) + i - 1]
      BY <1>1, <2>1, SubSeqProperties
    <2> QED BY <1>1, <2>2
  <1> HIDE DEF a, b
  <1>4. /\ a \o b \in Seq(S) /\ Len(a \o b) = Len(s) - 1
        /\ \A k \in 1 .. Len(s) - 1 : (a \o b)[k] = IF k <= p - 1 THEN a[k] ELSE b[k - (p - 1)]
    BY <1>1, <1>2, <1>3, ConcatProperties
  <1>5. ASSUME NEW k \in 1 .. Len(s) - 1
        PROVE  (a \o b)[k] = IF k < p THEN s[k] ELSE s[k + 1]
    <2>1. CASE k < p
      <3>1. (a \o b)[k] = a[k]
        BY <1>4, <2>1, <1>1
      <3> QED BY <1>2, <2>1, <3>1
    <2>2. CASE ~(k < p)
      <3>1. Len(s) \in Nat /\ p \in Nat /\ k \in Nat /\ ~(k <= p - 1) /\ k - (p - 1) \in 1 .. Len(s) - p
        BY <2>2, <1>1
      <3>2. (a \o b)[k] = b[k - (p - 1)]
        BY <1>4, <3>1
      <3>3. p + (k - (p - 1)) = k + 1
        BY <3>1
      <3>4. b[k - (p - 1)] = s[p + (k - (p - 1))]
        BY <1>3, <3>1
      <3>5. (a \o b)[k] = s[k + 1]
        BY <3>2, <3>3, <3>4, Zenon
      <3> QED BY <2>2, <3>5, Zenon
    <2> QED BY <2>1, <2>2, Zenon
  <1> QED BY <1>4, <1>5 DEF RemoveAt, a, b

\* A non-empty set of natural numbers has a least one, which is its Min.
LEMMA LeastIsMin ==
  ASSUME NEW I \in SUBSET Nat, I # {}
  PROVE  Min(I) \in I /\ \A i \in I : Min(I) <= i
  <1> DEFINE R == OpToRel(<, Nat)
  <1>1. PICK x \in I : \A y \in I : <<y, x>> \notin R
    <2> HIDE DEF R
    <2>1. IsWellFoundedOn(R, Nat)
      BY NatLessThanWellFounded DEF R
    <2> QED BY <2>1, WFMin
  <1>2. \A y \in I : x <= y
    <2> SUFFICES ASSUME NEW y \in I, y < x PROVE FALSE
      OBVIOUS
    <2>1. <<y, x>> \in R
      BY DEF OpToRel
    <2> QED BY <1>1, <2>1
  <1> QED BY <1>1, <1>2 DEF Min

-----------------------------------------------------------------------------
(* What the steps do to the queue *)

\* The next queue is read off the next ring, place by place.
LEMMA QueueBecomes ==
  ASSUME NEW s \in Seq(Requests), Len(s) = n',
         \A i \in 1 .. n' : q'[Slot(i - 1)'] = s[i]
  PROVE  Queue' = s
  <1>1. Queue' = [i \in 1 .. n' |-> s[i]]
    BY DEF Queue
  <1>2. s = [i \in 1 .. Len(s) |-> s[i]]
    OBVIOUS
  <1> QED BY <1>1, <1>2

LEMMA EnqueueAppends ==
  ASSUME TypeOK, NEW r \in Requests, Enqueue(r)
  PROVE  TypeOK' /\ Queue' = Append(Queue, r) /\ n < QN
  <1>1. /\ QN \in Nat \ {0} /\ n \in 0 .. QN - 1 /\ head \in 0 .. QN - 1
        /\ q' = [q EXCEPT ![Slot(n)] = r] /\ n' = n + 1 /\ head' = head
        /\ q \in [0 .. QN - 1 -> Requests \cup {Blank}]
    BY ArbiterAssumption DEF TypeOK, Enqueue, Accepts
  <1>2. Slot(n) \in 0 .. QN - 1
    BY <1>1, SlotIs
  <1>3. /\ Queue \in Seq(Requests) /\ Len(Queue) = n
        /\ \A i \in 1 .. n : Queue[i] = q[Slot(i - 1)]
    BY QueueIs
  <1>4. /\ Append(Queue, r) \in Seq(Requests) /\ Len(Append(Queue, r)) = n + 1
        /\ \A i \in 1 .. n : Append(Queue, r)[i] = Queue[i]
        /\ Append(Queue, r)[n + 1] = r
    BY <1>3, AppendProperties
  <1>5. ASSUME NEW i \in 1 .. n'
        PROVE  q'[Slot(i - 1)'] = Append(Queue, r)[i]
    <2>1. Slot(i - 1)' = Slot(i - 1)
      BY <1>1 DEF Slot
    <2>2. CASE i \in 1 .. n
      <3>1. i - 1 \in 0 .. QN - 1 /\ i - 1 # n
        BY <1>1, <2>2
      <3>2. Slot(i - 1) \in 0 .. QN - 1 /\ Slot(i - 1) # Slot(n)
        BY <1>1, <3>1, SlotIs, SlotsDiffer
      <3>3. q'[Slot(i - 1)] = q[Slot(i - 1)]
        BY <1>1, <3>2
      <3> QED BY <1>3, <1>4, <2>1, <2>2, <3>3
    <2>3. CASE i = n + 1
      <3>1. q'[Slot(n)] = r
        BY <1>1, <1>2
      <3>2. Slot(i - 1) = Slot(n)
        BY <1>1, <2>3
      <3>3. Append(Queue, r)[i] = r
        BY <1>4, <2>3
      <3> QED BY <2>1, <3>1, <3>2, <3>3
    <2>4. i \in 1 .. n \/ i = n + 1
      BY <1>1
    <2> QED BY <2>2, <2>3, <2>4, Zenon
  <1>6. Queue' = Append(Queue, r)
    BY <1>1, <1>4, <1>5, QueueBecomes
  <1>7. q' \in [0 .. QN - 1 -> Requests \cup {Blank}] /\ n' \in 0 .. QN /\ n < QN
    BY <1>1, <1>2
  <1> QED BY <1>4, <1>6, <1>7 DEF TypeOK, Enqueue

\* The request picked is the one the queue serves next.
LEMMA PickedIs ==
  ASSUME TypeOK, n > 0
  PROVE  /\ Picked(Queue) \in 1 .. n
         /\ IF IsSet(Queue[Picked(Queue)])
            THEN \A j \in 1 .. n : IsSet(Queue[j]) => Picked(Queue) <= j
            ELSE Picked(Queue) = 1 /\ \A j \in 1 .. n : ~IsSet(Queue[j])
  <1> DEFINE I == {i \in 1 .. Len(Queue) : IsSet(Queue[i])}
  <1>1. Len(Queue) = n /\ n \in Nat
    BY QueueIs
  <1>2. CASE I # {}
    <2>1. I \subseteq 1 .. n /\ I \in SUBSET Nat
      BY <1>1
    <2>2. Min(I) \in I /\ \A i \in I : Min(I) <= i
      BY <1>2, <2>1, LeastIsMin
    <2>3. Picked(Queue) = Min(I)
      BY <1>2 DEF Picked, SelectInSeq
    <2> HIDE DEF I
    <2>4. Picked(Queue) \in I /\ \A i \in I : Picked(Queue) <= i
      BY <2>2, <2>3
    <2> QED BY <1>1, <2>1, <2>4 DEF I
  <1>3. CASE I = {}
    <2>1. \A i \in 1 .. Len(Queue) : ~IsSet(Queue[i])
      BY <1>3
    <2>2. Picked(Queue) = 1
      BY <2>1 DEF Picked
    <2> QED BY <1>1, <2>1, <2>2
  <1> QED BY <1>2, <1>3

\* A start takes the request picked out of the queue; the others stay in their order.
LEMMA StartRemoves ==
  ASSUME TypeOK, TickStart, UNCHANGED <<joined, hold>>
  PROVE  LET p == Picked(Queue)
         IN  /\ TypeOK' /\ p \in 1 .. n /\ n > 0
             /\ Queue' = RemoveAt(Queue, p) /\ running' = Queue[p]
             /\ edit' = IF NotStarted(Queue[p]) THEN "idle" ELSE "busy"
  <1> DEFINE p == Picked(Queue)
  <1>1. /\ QN \in Nat \ {0} /\ n \in 1 .. QN /\ head \in 0 .. QN - 1
        /\ n' = n - 1 /\ head' = (head + 1) % QN
        /\ q \in [0 .. QN - 1 -> Requests \cup {Blank}]
    BY ArbiterAssumption DEF TypeOK, TickStart
  <1>2. p \in 1 .. n
    BY <1>1, PickedIs
  <1>3. /\ q' = Shifted(p - 1) /\ running' = q[Slot(p - 1)]
        /\ edit' = IF NotStarted(q[Slot(p - 1)]) THEN "idle" ELSE "busy"
    BY DEF TickStart
  <1> HIDE DEF p
  <1>4. /\ Queue \in Seq(Requests) /\ Len(Queue) = n
        /\ \A i \in 1 .. n : Queue[i] = q[Slot(i - 1)] /\ Queue[i] \in Requests
    BY QueueIs
  <1>5. /\ RemoveAt(Queue, p) \in Seq(Requests) /\ Len(RemoveAt(Queue, p)) = n - 1
        /\ \A k \in 1 .. n - 1 : RemoveAt(Queue, p)[k] = IF k < p THEN Queue[k] ELSE Queue[k + 1]
    BY <1>2, <1>4, Removed
  <1>6. ASSUME NEW k \in 1 .. n'
        PROVE  q'[Slot(k - 1)'] = RemoveAt(Queue, p)[k]
    <2>1. k \in 1 .. n - 1 /\ k \in 1 .. QN - 1 /\ k - 1 \in 0 .. QN - 1
      BY <1>1
    <2>2. Slot(k - 1)' = Slot(k) /\ Slot(k) \in 0 .. QN - 1
      <3>1. Slot(k - 1)' = (head' + (k - 1)) % QN
        BY DEF Slot
      <3>2. head' + (k - 1) = head' + k - 1
        BY <1>1, <2>1
      <3>3. (head' + k - 1) % QN = Slot(k)
        BY <1>1, <2>1, SlotAfter
      <3>4. k \in 0 .. QN - 1
        BY <2>1
      <3> QED BY <3>1, <3>2, <3>3, <3>4, SlotIs, Zenon
    <2>3. q'[Slot(k)] = IF \E i \in 1 .. p - 1 : Slot(k) = Slot(i)
                        THEN q[(Slot(k) + QN - 1) % QN] ELSE q[Slot(k)]
      BY <1>3, <2>2 DEF Shifted
    <2>4. CASE k < p
      <3>1. q'[Slot(k)] = q[(Slot(k) + QN - 1) % QN]
        BY <1>2, <2>1, <2>3, <2>4
      <3>2. (Slot(k) + QN - 1) % QN = Slot(k - 1)
        BY <2>1, SlotBefore
      <3>3. Queue[k] = q[Slot(k - 1)]
        BY <1>1, <1>4, <2>1
      <3>4. RemoveAt(Queue, p)[k] = Queue[k]
        BY <1>5, <2>1, <2>4
      <3> QED BY <2>2, <3>1, <3>2, <3>3, <3>4, Zenon
    <2>5. CASE ~(k < p)
      <3>1. ASSUME NEW i \in 1 .. p - 1 PROVE Slot(k) # Slot(i)
        <4>1. i \in 0 .. QN - 1 /\ k \in 0 .. QN - 1 /\ i # k
          BY <1>1, <1>2, <2>1, <2>5
        <4> QED BY <4>1, SlotsDiffer
      <3>2. q'[Slot(k)] = q[Slot(k)]
        BY <2>3, <3>1
      <3>3. Queue[k + 1] = q[Slot(k)]
        <4>1. k + 1 \in 1 .. n /\ (k + 1) - 1 = k
          BY <1>1, <2>1
        <4> QED BY <1>4, <4>1
      <3>4. RemoveAt(Queue, p)[k] = Queue[k + 1]
        BY <1>5, <2>1, <2>5
      <3> QED BY <2>2, <3>2, <3>3, <3>4, Zenon
    <2> QED BY <2>4, <2>5
  <1>7. Queue' = RemoveAt(Queue, p)
    BY <1>1, <1>5, <1>6, QueueBecomes
  <1>8. n' \in 0 .. QN /\ head' \in 0 .. QN - 1
    BY <1>1
  <1>9. q' \in [0 .. QN - 1 -> Requests \cup {Blank}]
    <2>1. \A j \in 0 .. QN - 1 : (j + QN - 1) % QN \in 0 .. QN - 1
      BY <1>1
    <2> QED BY <1>1, <1>3, <2>1 DEF Shifted
  <1>10. running' = Queue[p] /\ running' \in Requests
    BY <1>2, <1>3, <1>4
  <1>11. edit' = IF NotStarted(Queue[p]) THEN "idle" ELSE "busy"
    BY <1>2, <1>3, <1>4
  <1>12. TypeOK'
    BY <1>5, <1>7, <1>8, <1>9, <1>10, <1>11 DEF TypeOK, TickStart
  <1> QED BY <1>1, <1>2, <1>7, <1>10, <1>11, <1>12 DEF p

-----------------------------------------------------------------------------
(* The invariant and the refinement *)

\* Every other step leaves the ring alone.
LEMMA QueueStays ==
  ASSUME TypeOK, UNCHANGED ring
  PROVE  Queue' = Queue /\ n' = n /\ head' = head /\ q' = q
  BY DEF Queue, Slot, ring

LEMMA InvInit == Init => IInv
  <1> SUFFICES ASSUME Init PROVE IInv
    OBVIOUS
  <1>1. Queue = <<>>
    BY DEF Init, Queue
  <1>2. Queue \in Seq(Requests)
    BY <1>1
  <1>3. QN \in Nat \ {0} /\ 0 \in 0 .. QN - 1 /\ 0 \in 0 .. QN
    BY ArbiterAssumption
  <1> QED BY <1>2, <1>3 DEF Init, IInv, TypeOK, OneMachine

LEMMA InvStep == IInv /\ [Next]_vars => IInv'
  <1> SUFFICES ASSUME TypeOK, OneMachine, [Next]_vars PROVE TypeOK' /\ OneMachine'
    BY DEF IInv
  <1>1. ASSUME NEW r \in Requests, Enqueue(r) PROVE TypeOK' /\ OneMachine'
    BY <1>1, EnqueueAppends DEF Enqueue, OneMachine
  <1>2. CASE TickEdit /\ UNCHANGED <<joined, hold>>
    <2>1. UNCHANGED ring
      BY <1>2 DEF TickEdit
    <2> QED BY <1>2, <2>1, QueueStays DEF TickEdit, EditRuns, TypeOK, OneMachine
  <1>3. CASE TickNav /\ UNCHANGED <<joined, hold>>
    <2>1. UNCHANGED ring
      BY <1>3 DEF TickNav
    <2> QED BY <1>3, <2>1, QueueStays DEF TickNav, NavRuns, TypeOK, OneMachine
  <1>4. CASE TickStart /\ UNCHANGED <<joined, hold>>
    BY <1>4, StartRemoves DEF TickStart, OneMachine
  <1>5. CASE Enrolls
    BY <1>5, QueueStays DEF Enrolls, TypeOK, OneMachine
  <1>6. CASE Holds
    BY <1>6, QueueStays DEF Holds, TypeOK, OneMachine
  <1>7. CASE Due
    BY <1>7, QueueStays DEF Due, TypeOK, OneMachine
  <1>8. CASE park
    BY <1>8, QueueStays DEF park, TypeOK, OneMachine
  <1>9. CASE UNCHANGED vars
    BY <1>9, QueueStays DEF vars, TypeOK, OneMachine
  <1> QED BY <1>1, <1>2, <1>3, <1>4, <1>5, <1>6, <1>7, <1>8, <1>9 DEF Next, Tick

\* The ring's counters stay in range, and what waits between them was asked for.
THEOREM TypeCorrect == Spec => []TypeOK
  <1>1. IInv => TypeOK
    BY DEF IInv
  <1> QED BY <1>1, InvInit, InvStep, PTL DEF Spec

\* The abstract queue's step for each step of the ring.
LEMMA AskStep ==
  ASSUME TypeOK, NEW r \in Requests, Enqueue(r)
  PROVE  Promised!Next
  <1>1. Queue' = Append(Queue, r) /\ Len(Queue) < QN
    BY EnqueueAppends, QueueIs
  <1>2. UNCHANGED <<hold, Session>>
    BY DEF Enqueue, Session
  <1>3. Promised!Ask(r)
    BY <1>1, <1>2 DEF Promised!Ask
  <1>4. r \in {s \in Requests : IsSet(s)} \cup {s \in Requests : ~IsSet(s)}
    OBVIOUS
  <1> QED BY <1>3, <1>4 DEF Promised!Next

LEMMA ServeStep ==
  ASSUME TypeOK, TickStart, UNCHANGED <<joined, hold>>
  PROVE  Promised!Next
  <1> DEFINE p == Picked(Queue)
  <1>1. /\ p \in 1 .. n /\ Queue' = RemoveAt(Queue, p) /\ running' = Queue[p]
        /\ edit' = IF NotStarted(Queue[p]) THEN "idle" ELSE "busy"
    BY StartRemoves
  <1>2. /\ Len(Queue) = n /\ n \in Nat
        /\ \A i \in 1 .. n : Queue[i] \in Requests
    BY QueueIs
  <1>3. IF IsSet(Queue[p])
        THEN \A j \in 1 .. n : IsSet(Queue[j]) => p <= j
        ELSE p = 1 /\ \A j \in 1 .. n : ~IsSet(Queue[j])
    BY <1>1, <1>2, PickedIs
  <1> HIDE DEF p
  <1>4. Promised!NextUp(p)
    <2> SUFFICES ASSUME NEW j \in 1 .. n, p # j PROVE Promised!Before(p, j)
      BY <1>2 DEF Promised!NextUp
    <2>1. Queue[p] \in Requests /\ Queue[j] \in Requests
      BY <1>1, <1>2
    <2> QED BY <1>1, <1>2, <1>3, <2>1 DEF Promised!Before
  <1>5. Session = <<"free">> /\ ~hold /\ hold' = hold /\ nav' = "idle"
    BY DEF TickStart, Session
  <1>6. Session' = IF NotStarted(Queue[p]) THEN <<"free">> ELSE <<"edit", Queue[p]>>
    BY <1>1, <1>5 DEF Session
  <1>7. Promised!Begin(Queue[p])
    BY <1>1, <1>2, <1>6 DEF Promised!Begin, Promised!Free, Promised!Editing
  <1>8. Promised!Serve
    <2>1. Queue' = Promised!RemoveAt(Queue, p)
      BY <1>1 DEF RemoveAt, Promised!RemoveAt
    <2>2. p \in 1 .. Len(Queue)
      BY <1>1, <1>2
    <2>3. Session = Promised!Free
      BY <1>5 DEF Promised!Free
    <2> QED BY <1>4, <1>5, <1>7, <2>1, <2>2, <2>3, Zenon DEF Promised!Serve
  <1> QED BY <1>8 DEF Promised!Next

\* The scheduler is free only when nothing is asked for; otherwise the machine goes on
\* or gives the session back.
LEMMA NavStep ==
  ASSUME TypeOK, TickNav, UNCHANGED <<joined, hold>>
  PROVE  [Promised!Next]_(Promised!vars)
  <1>1. Queue' = Queue /\ hold' = hold /\ edit = "idle" /\ edit' = "idle"
    BY QueueStays DEF TickNav
  <1>2. CASE NavFree /\ NavStarts /\ nav' = "cycle"
    <2>1. Queue = <<>>
      BY <1>2 DEF NavFree, Queue
    <2>2. Session = <<"free">> /\ Session' = <<"scrape">> /\ ~hold
      BY <1>1, <1>2 DEF NavFree, NavStarts, Session
    <2>3. Promised!Scrape
      BY <1>1, <2>1, <2>2 DEF Promised!Scrape, Promised!Free, Promised!Scraping
    <2> QED BY <2>3 DEF Promised!Next
  <1>3. CASE nav # "idle" /\ NavRuns
    <2>1. Session \in {<<"scrape">>, <<"park">>} /\ nav \in {"cycle", "park"}
      BY <1>1, <1>3 DEF TypeOK, Session
    <2>2. CASE nav' = nav
      <3>1. CASE nav = "cycle"
        BY <1>1, <2>2, <3>1 DEF Session, Promised!vars
      <3>2. CASE nav = "park"
        BY <1>1, <2>2, <3>2 DEF Session, Promised!vars
      <3> QED BY <2>1, <3>1, <3>2
    <2>3. CASE nav' # nav
      <3>1. Session' \in {<<"park">>, <<"free">>}
        BY <1>1, <1>3, <2>1, <2>3 DEF NavRuns, Session
      <3>2. Session # <<"free">>
        BY <2>1
      <3>3. Promised!Yield
        BY <1>1, <3>1, <3>2 DEF Promised!Yield, Promised!ParkOrFree, Promised!Free, Promised!Parking
      <3> QED BY <3>3 DEF Promised!Next
    <2> QED BY <2>2, <2>3
  <1> QED BY <1>2, <1>3 DEF TickNav

LEMMA EditStep ==
  ASSUME IInv, TickEdit, UNCHANGED <<joined, hold>>
  PROVE  [Promised!Next]_(Promised!vars)
  <1>1. /\ Queue' = Queue /\ hold' = hold /\ edit = "busy" /\ nav' = nav
        /\ running' = running /\ nav \in {"idle", "park"}
    BY QueueStays DEF TickEdit, IInv, TypeOK, OneMachine
  <1>2. CASE edit' = "busy"
    <2>1. Session' = Session
      BY <1>1, <1>2 DEF Session
    <2> QED BY <1>1, <2>1 DEF Promised!vars
  <1>3. CASE edit' = "idle"
    <2>1. Session' \in {<<"park">>, <<"free">>}
      BY <1>1, <1>3 DEF Session
    <2>2. Session # <<"free">>
      BY <1>1 DEF Session
    <2>3. Promised!Yield
      BY <1>1, <2>1, <2>2 DEF Promised!Yield, Promised!ParkOrFree, Promised!Free, Promised!Parking
    <2> QED BY <2>3 DEF Promised!Next
  <1> QED BY <1>2, <1>3 DEF TickEdit, EditRuns

LEMMA ParkStep ==
  ASSUME TypeOK, park
  PROVE  [Promised!Next]_(Promised!vars)
  <1>1. Queue' = Queue /\ hold' = hold /\ edit' = edit /\ running' = running
    BY QueueStays DEF park
  <1>2. CASE edit = "busy"
    <2>1. Session' = Session
      BY <1>1, <1>2 DEF Session
    <2> QED BY <1>1, <2>1 DEF Promised!vars
  <1>3. CASE edit = "idle"
    <2>1. Session = <<"free">> /\ Session' = <<"park">>
      BY <1>1, <1>3 DEF Session, park
    <2>2. Promised!Yield
      BY <1>1, <2>1 DEF Promised!Yield, Promised!ParkOrFree, Promised!Free, Promised!Parking
    <2> QED BY <2>2 DEF Promised!Next
  <1> QED BY <1>2, <1>3 DEF TypeOK

\* The ring with its gap closing implements the queue in which sets overtake gets: sets
\* before gets, each in the order they were asked for, one holder of the session, and
\* nothing started under an external client's hold.
THEOREM OrderKept == Spec => KeepsOrder
  <1>1. Init => Promised!Init
    <2> SUFFICES ASSUME Init PROVE Promised!Init
      OBVIOUS
    <2>1. Queue = <<>> /\ Session = <<"free">> /\ hold = FALSE
      BY DEF Init, Queue, Session
    <2> QED BY <2>1 DEF Promised!Init, Promised!Free
  <1>2. IInv /\ [Next]_vars => [Promised!Next]_(Promised!vars)
    <2> SUFFICES ASSUME IInv, TypeOK, [Next]_vars PROVE [Promised!Next]_(Promised!vars)
      BY DEF IInv
    <2>1. CASE Enrolls \/ Due \/ UNCHANGED vars
      <3>1. UNCHANGED <<ring, running, edit, nav, hold>>
        BY <2>1 DEF Enrolls, Due, vars
      <3>2. Queue' = Queue /\ Session' = Session
        BY <3>1, QueueStays DEF Session
      <3> QED BY <3>1, <3>2 DEF Promised!vars
    <2>2. CASE Holds
      <3>1. Queue' = Queue /\ Session' = Session /\ hold' = ~hold
        BY <2>2, QueueStays DEF Holds, Session
      <3>2. Promised!Hold
        BY <3>1 DEF Promised!Hold
      <3> QED BY <3>2 DEF Promised!Next
    <2>3. CASE TickStart /\ UNCHANGED <<joined, hold>>
      BY <2>3, ServeStep
    <2>4. CASE TickNav /\ UNCHANGED <<joined, hold>>
      BY <2>4, NavStep
    <2>5. CASE TickEdit /\ UNCHANGED <<joined, hold>>
      BY <2>5, EditStep
    <2>6. CASE park
      BY <2>6, ParkStep
    <2>7. ASSUME NEW r \in Requests, Enqueue(r) PROVE Promised!Next
      BY <2>7, AskStep
    <2> QED BY <2>1, <2>2, <2>3, <2>4, <2>5, <2>6, <2>7 DEF Next, Tick
  <1> QED BY <1>1, <1>2, InvInit, InvStep, PTL DEF Spec, KeepsOrder, Promised!Spec

=============================================================================
