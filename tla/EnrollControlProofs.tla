------------------------ MODULE EnrollControlProofs ------------------------
(***************************************************************************)
(* Machine-checked proofs about EnrollControl, for every number of         *)
(* requests, every grace period, either kind of drain and every set of     *)
(* callers.                                                                *)
(***************************************************************************)
EXTENDS EnrollControl, SequenceTheorems, TLAPS

(* The inductive invariant.  What a request has done already is told by     *)
(* which of its stores are left.                                           *)

\* The stores t are the last ones of stores.
Ends(t, stores) ==
  /\ Len(t) <= Len(stores)
  /\ \A i \in 1 .. Len(t) : t[i] = stores[Len(stores) - Len(t) + i]

Left(c) == Len(todo[c])
Joining(c) == Ends(todo[c], JoinStores)
Leaving(c) == Ends(todo[c], LeaveStores)
Stopping(c) == Ends(todo[c], StopStores)

\* Nothing is left, or a request to arm or disarm: first the word, then the dirty flag.
ArmStores(a) == <<Set("armed_", a), Set("state_dirty_", TRUE)>>
OnlyArming(c) ==
  \/ todo[c] = <<>>
  \/ \E a \in BOOLEAN : Ends(todo[c], ArmStores(a)) \/ todo[c] = <<Set("armed_", a)>>

\* Every caller is within one request, or none.
TodoInv == \A c \in callers : Joining(c) \/ Leaving(c) \/ Stopping(c) \/ OnlyArming(c)

\* What was counted before a request to join was made is forgotten by its first
\* store, and a certificate given in between by its second.
JoinInv ==
  wish => /\ (\A c \in callers : Left(c) < 8) => (flag["polled_"] => answered)
          /\ (\A c \in callers : Left(c) < 7) => (flag["join_logged_"] => joined)

\* The requests of a behaviour come from one side: no two are under way.
OneSided == \A c, d \in callers : c = d

\* A dirty flag is set, or will be by the last store of the request.
Announces(c) == todo[c] # <<>> /\ todo[c][Left(c)] = Set("state_dirty_", TRUE)
ReportInv ==
  OneSided =>
    /\ \A c \in callers : todo[c] # <<>> => Announces(c) \/ todo[c] = <<Set("armed_", flag["armed_"])>>
    /\ flag["state_dirty_"] \/ reported = Current \/ \E c \in callers : Announces(c)

\* A request to join ends the drain before it raises the claim; one to leave drops the
\* claim before it starts the drain.
MaskInv ==
  OneSided =>
    /\ flag["drain_"] => ~flag["claim_mask_"]
    /\ \A c \in callers :
         \/ Joining(c) /\ (Left(c) <= 5 => ~flag["drain_"])
         \/ Leaving(c) /\ (Left(c) <= 3 => ~flag["claim_mask_"])
         \/ Stopping(c) /\ (Left(c) <= 3 => ~flag["drain_"])
         \/ OnlyArming(c)

\* Commands are given and done between two passes of the drain.  The deadline of a
\* drain is never nearer than the end of its grace period.
Patient == flag["drain_"] => grace + since >= Grace
CommandInv ==
  callers = {"task"} =>
    /\ todo["task"] # <<>> => task_pc = "poll"
    /\ task_pc = "delay" => ~wish
    /\ \/ /\ OnlyArming("task") /\ Patient
          /\ wish => flag["enroll_"] /\ ~flag["drain_"]
       \/ /\ Joining("task") /\ Left("task") > 0 /\ Patient
          /\ Left("task") <= 5 => ~flag["drain_"]
          /\ Left("task") <= 1 => flag["enroll_"]
       \/ /\ Leaving("task") /\ Left("task") > 0 /\ ~wish
          /\ Left("task") >= 3 => ~flag["drain_"]
          /\ Left("task") = 1 => Patient
       \/ /\ Stopping("task") /\ Left("task") > 0 /\ ~wish
          /\ Left("task") <= 3 => ~flag["drain_"]

IInv == TypeOK /\ TodoInv /\ JoinInv /\ ReportInv /\ MaskInv /\ CommandInv

-----------------------------------------------------------------------------
(* The stores of a request *)

LEMMA StoresTyped ==
  /\ JoinStores \in Seq(StoreOps) /\ Len(JoinStores) = 8
  /\ LeaveStores \in Seq(StoreOps) /\ Len(LeaveStores) = 6
  /\ StopStores \in Seq(StoreOps) /\ Len(StopStores) = 4
  /\ \A a \in BOOLEAN : ArmStores(a) \in Seq(StoreOps) /\ Len(ArmStores(a)) = 2
  /\ \A a \in BOOLEAN : <<Set("armed_", a)>> \in Seq(StoreOps)
  <1> USE DEF Set, StoreOps, Flags
  <1>1. JoinStores \in Seq(StoreOps) /\ Len(JoinStores) = 8
    BY DEF JoinStores
  <1>2. LeaveStores \in Seq(StoreOps) /\ Len(LeaveStores) = 6
    BY DEF LeaveStores
  <1>3. StopStores \in Seq(StoreOps) /\ Len(StopStores) = 4
    BY DEF StopStores
  <1>4. \A a \in BOOLEAN : ArmStores(a) \in Seq(StoreOps) /\ Len(ArmStores(a)) = 2
    BY DEF ArmStores
  <1>5. \A a \in BOOLEAN : <<Set("armed_", a)>> \in Seq(StoreOps)
    OBVIOUS
  <1> QED BY <1>1, <1>2, <1>3, <1>4, <1>5

\* Making the first of the stores that are left leaves the others.
LEMMA EndsStep ==
  ASSUME NEW t \in Seq(StoreOps), t # <<>>, NEW stores \in Seq(StoreOps), Ends(t, stores)
  PROVE  /\ Len(t) \in 1 .. Len(stores) /\ Len(Tail(t)) = Len(t) - 1
         /\ Head(t) = stores[Len(stores) - Len(t) + 1]
         /\ Ends(Tail(t), stores)
  <1>1. Len(t) \in Nat /\ Len(t) >= 1 /\ Len(stores) \in Nat /\ Len(t) <= Len(stores)
    BY EmptySeq DEF Ends
  <1>2. /\ Head(t) = t[1] /\ Tail(t) \in Seq(StoreOps) /\ Len(Tail(t)) = Len(t) - 1
        /\ \A i \in 1 .. Len(t) - 1 : Tail(t)[i] = t[i + 1]
    BY <1>1, HeadTailProperties
  <1>3. Head(t) = stores[Len(stores) - Len(t) + 1]
    BY <1>1, <1>2 DEF Ends
  <1>4. ASSUME NEW i \in 1 .. Len(t) - 1
        PROVE  Tail(t)[i] = stores[Len(stores) - Len(Tail(t)) + i]
    <2>1. Tail(t)[i] = t[i + 1] /\ i + 1 \in 1 .. Len(t)
      BY <1>1, <1>2
    <2>2. t[i + 1] = stores[Len(stores) - Len(t) + (i + 1)]
      BY <2>1 DEF Ends
    <2>3. Len(stores) - Len(t) + (i + 1) = Len(stores) - Len(Tail(t)) + i
      BY <1>1, <1>2
    <2> QED BY <2>1, <2>2, <2>3
  <1> QED BY <1>1, <1>2, <1>3, <1>4 DEF Ends

LEMMA EndsSelf ==
  ASSUME NEW stores \in Seq(StoreOps) PROVE Ends(stores, stores)
  <1> Len(stores) \in Nat
    OBVIOUS
  <1> QED BY DEF Ends

LEMMA LeftCounts == TypeOK => \A c \in callers : Left(c) \in Nat
  BY DEF TypeOK, Left

\* Which store a request makes next, by the number of those left.
LEMMA JoinNext ==
  ASSUME TypeOK, NEW c \in callers, todo[c] # <<>>, Joining(c)
  PROVE  /\ Left(c) \in 1 .. 8
         /\ Left(c) = 8 => Head(todo[c]) = Set("polled_", FALSE)
         /\ Left(c) = 7 => Head(todo[c]) = Set("join_logged_", FALSE)
         /\ Left(c) = 6 => Head(todo[c]) = Set("drain_", FALSE)
         /\ Left(c) = 5 => Head(todo[c]) = Set("drain_replied_", FALSE)
         /\ Left(c) = 4 => Head(todo[c]) = Set("claim_mask_", TRUE)
         /\ Left(c) = 3 => Head(todo[c]) = Set("sess_ready_", FALSE)
         /\ Left(c) = 2 => Head(todo[c]) = Set("enroll_", TRUE)
         /\ Left(c) = 1 => Head(todo[c]) = Set("state_dirty_", TRUE)
  <1>1. todo[c] \in Seq(StoreOps)
    BY DEF TypeOK
  <1>2. Left(c) \in 1 .. 8 /\ Head(todo[c]) = JoinStores[8 - Left(c) + 1]
    BY <1>1, StoresTyped, EndsStep DEF Left, Joining
  <1>3. /\ JoinStores[1] = Set("polled_", FALSE)
        /\ JoinStores[2] = Set("join_logged_", FALSE)
        /\ JoinStores[3] = Set("drain_", FALSE)
        /\ JoinStores[4] = Set("drain_replied_", FALSE)
        /\ JoinStores[5] = Set("claim_mask_", TRUE)
        /\ JoinStores[6] = Set("sess_ready_", FALSE)
        /\ JoinStores[7] = Set("enroll_", TRUE)
        /\ JoinStores[8] = Set("state_dirty_", TRUE)
    BY DEF JoinStores, Set
  <1> QED BY <1>2, <1>3 DEF Set

LEMMA LeaveNext ==
  ASSUME TypeOK, NEW c \in callers, todo[c] # <<>>, Leaving(c)
  PROVE  /\ Left(c) \in 1 .. 6
         /\ Left(c) = 6 => Head(todo[c]) = Set("drain_polls_", FALSE)
         /\ Left(c) = 5 => Head(todo[c]) = Set("drain_replied_", FALSE)
         /\ Left(c) = 4 => Head(todo[c]) = Set("claim_mask_", FALSE)
         /\ Left(c) = 3 => Head(todo[c]) = Set("drain_", TRUE)
         /\ Left(c) = 2 => Head(todo[c]) = Set("drain_deadline_ms_", TRUE)
         /\ Left(c) = 1 => Head(todo[c]) = Set("state_dirty_", TRUE)
  <1>1. todo[c] \in Seq(StoreOps)
    BY DEF TypeOK
  <1>2. Left(c) \in 1 .. 6 /\ Head(todo[c]) = LeaveStores[6 - Left(c) + 1]
    BY <1>1, StoresTyped, EndsStep DEF Left, Leaving
  <1>3. /\ LeaveStores[1] = Set("drain_polls_", FALSE)
        /\ LeaveStores[2] = Set("drain_replied_", FALSE)
        /\ LeaveStores[3] = Set("claim_mask_", FALSE)
        /\ LeaveStores[4] = Set("drain_", TRUE)
        /\ LeaveStores[5] = Set("drain_deadline_ms_", TRUE)
        /\ LeaveStores[6] = Set("state_dirty_", TRUE)
    BY DEF LeaveStores, Set
  <1> QED BY <1>2, <1>3 DEF Set

LEMMA StopNext ==
  ASSUME TypeOK, NEW c \in callers, todo[c] # <<>>, Stopping(c)
  PROVE  /\ Left(c) \in 1 .. 4
         /\ Left(c) = 4 => Head(todo[c]) = Set("drain_", FALSE)
         /\ Left(c) = 3 => Head(todo[c]) = Set("claim_mask_", TRUE)
         /\ Left(c) = 2 => Head(todo[c]) = Set("enroll_", FALSE)
         /\ Left(c) = 1 => Head(todo[c]) = Set("state_dirty_", TRUE)
  <1>1. todo[c] \in Seq(StoreOps)
    BY DEF TypeOK
  <1>2. Left(c) \in 1 .. 4 /\ Head(todo[c]) = StopStores[4 - Left(c) + 1]
    BY <1>1, StoresTyped, EndsStep DEF Left, Stopping
  <1>3. /\ StopStores[1] = Set("drain_", FALSE)
        /\ StopStores[2] = Set("claim_mask_", TRUE)
        /\ StopStores[3] = Set("enroll_", FALSE)
        /\ StopStores[4] = Set("state_dirty_", TRUE)
    BY DEF StopStores, Set
  <1> QED BY <1>2, <1>3 DEF Set

LEMMA ArmNext ==
  ASSUME TypeOK, NEW c \in callers, todo[c] # <<>>, OnlyArming(c)
  PROVE  /\ Left(c) \in 1 .. 2
         /\ \/ \E a \in BOOLEAN : Head(todo[c]) = Set("armed_", a)
            \/ Head(todo[c]) = Set("state_dirty_", TRUE) /\ Left(c) = 1
         /\ \/ Tail(todo[c]) = <<>>
            \/ \E a \in BOOLEAN : Ends(Tail(todo[c]), ArmStores(a))
  <1>1. todo[c] \in Seq(StoreOps)
    BY DEF TypeOK
  <1>2. CASE \E a \in BOOLEAN : Ends(todo[c], ArmStores(a))
    <2> PICK a \in BOOLEAN : Ends(todo[c], ArmStores(a))
      BY <1>2
    <2>1. /\ Left(c) \in 1 .. 2 /\ Head(todo[c]) = ArmStores(a)[2 - Left(c) + 1]
          /\ Ends(Tail(todo[c]), ArmStores(a))
      BY <1>1, StoresTyped, EndsStep DEF Left
    <2>2. ArmStores(a)[1] = Set("armed_", a) /\ ArmStores(a)[2] = Set("state_dirty_", TRUE)
      BY DEF ArmStores, Set
    <2>3. \/ Head(todo[c]) = Set("armed_", a)
          \/ Head(todo[c]) = Set("state_dirty_", TRUE) /\ Left(c) = 1
      BY <2>1, <2>2 DEF Set
    <2> QED BY <2>1, <2>3
  <1>3. CASE \E a \in BOOLEAN : todo[c] = <<Set("armed_", a)>>
    BY <1>3 DEF Set, Left
  <1> QED BY <1>2, <1>3 DEF OnlyArming

\* What one store of a request does.
LEMMA StoreEffect ==
  ASSUME TypeOK, NEW c \in callers, Store(c)
  PROVE  /\ todo[c] # <<>> /\ todo[c] \in Seq(StoreOps) /\ Head(todo[c]) \in StoreOps
         /\ callers' = callers /\ Left(c) \in Nat /\ Left(c)' = Left(c) - 1
         /\ todo'[c] = Tail(todo[c])
         /\ \A d \in callers : d # c => todo'[d] = todo[d]
         /\ flag' \in [Flags -> BOOLEAN] /\ todo' \in [callers -> Seq(StoreOps)]
         /\ \A f \in Flags : flag'[f] = IF Head(todo[c]).f = f THEN Head(todo[c]).v ELSE flag[f]
         /\ grace' = IF Head(todo[c]).f = "drain_deadline_ms_" THEN Grace ELSE grace
  <1>1. /\ todo[c] # <<>> /\ todo[c] \in Seq(StoreOps) /\ todo \in [callers -> Seq(StoreOps)]
        /\ flag \in [Flags -> BOOLEAN] /\ callers' = callers
    BY DEF TypeOK, Store
  <1>2. Head(todo[c]) \in StoreOps /\ Tail(todo[c]) \in Seq(StoreOps) /\ Len(Tail(todo[c])) = Len(todo[c]) - 1
    BY <1>1, HeadTailProperties
  <1>3. todo' = [todo EXCEPT ![c] = Tail(@)]
    BY DEF Store
  <1>4. /\ todo'[c] = Tail(todo[c]) /\ todo' \in [callers -> Seq(StoreOps)]
        /\ \A d \in callers : d # c => todo'[d] = todo[d]
    BY <1>1, <1>2, <1>3
  <1>5. Left(c) \in Nat /\ Left(c)' = Left(c) - 1
    BY <1>1, <1>2, <1>4 DEF Left
  <1>6. Head(todo[c]).v \in BOOLEAN
    BY <1>2 DEF StoreOps
  <1>7. flag' = IF Head(todo[c]).f \in Flags THEN [flag EXCEPT ![Head(todo[c]).f] = Head(todo[c]).v] ELSE flag
    BY DEF Store
  <1>8. /\ flag' \in [Flags -> BOOLEAN]
        /\ \A f \in Flags : flag'[f] = IF Head(todo[c]).f = f THEN Head(todo[c]).v ELSE flag[f]
    BY <1>1, <1>6, <1>7
  <1>9. grace' = IF Head(todo[c]).f = "drain_deadline_ms_" THEN Grace ELSE grace
    BY DEF Store
  <1> QED BY <1>1, <1>2, <1>4, <1>5, <1>8, <1>9

-----------------------------------------------------------------------------
(* What the other steps do *)

\* A request finds nothing left of its caller's last one.
LEMMA RequestEffect ==
  ASSUME TypeOK, NEW c \in callers, NEW stores \in Seq(StoreOps), Request(c, stores)
  PROVE  /\ todo[c] = <<>> /\ Left(c) = 0
         /\ todo'[c] = stores /\ Left(c)' = Len(stores)
         /\ todo' \in [callers -> Seq(StoreOps)]
         /\ \A d \in callers : d # c => todo'[d] = todo[d]
         /\ calls' \in 0 .. MaxCalls /\ MayRun(c)
         /\ UNCHANGED <<callers, flag, drain_polls, grace, task_pc, reported>>
  <1>1. /\ todo[c] = <<>> /\ todo' = [todo EXCEPT ![c] = stores]
        /\ UNCHANGED <<callers, flag, drain_polls, grace, task_pc, reported>>
        /\ MayRun(c) /\ calls' = calls + 1 /\ calls < MaxCalls
    BY DEF Request
  <1>2. todo \in [callers -> Seq(StoreOps)] /\ calls \in 0 .. MaxCalls
    BY DEF TypeOK
  <1>3. /\ todo'[c] = stores /\ todo' \in [callers -> Seq(StoreOps)]
        /\ \A d \in callers : d # c => todo'[d] = todo[d]
    BY <1>1, <1>2
  <1>4. calls' \in 0 .. MaxCalls
    BY <1>1, <1>2, BoundsAssumption
  <1> QED BY <1>1, <1>3, <1>4 DEF Left

\* The stores of each request.
LEMMA EnrollRequest ==
  ASSUME TypeOK, NEW c \in callers, NEW e \in BOOLEAN, set_enroll(c, e)
  PROVE  \E stores \in {JoinStores, LeaveStores, StopStores} :
           /\ Request(c, stores)
           /\ stores = JoinStores <=> e
           /\ stores = LeaveStores => flag["enroll_"] /\ ~flag["drain_"]
  <1>1. JoinStores # LeaveStores /\ JoinStores # StopStores /\ LeaveStores # StopStores
    <2>1. Len(JoinStores) = 8 /\ Len(LeaveStores) = 6 /\ Len(StopStores) = 4
      BY StoresTyped
    <2> QED BY <2>1
  <1>2. CASE e
    <2>1. Request(c, JoinStores)
      BY <1>2 DEF set_enroll
    <2> QED BY <1>1, <1>2, <2>1
  <1>3. CASE ~e /\ flag["enroll_"] /\ ~flag["drain_"]
    <2>1. Request(c, LeaveStores)
      BY <1>3 DEF set_enroll
    <2> QED BY <1>1, <1>3, <2>1
  <1>4. CASE ~e /\ ~(flag["enroll_"] /\ ~flag["drain_"])
    <2>1. Request(c, StopStores)
      BY <1>4 DEF set_enroll
    <2> QED BY <1>1, <1>4, <2>1
  <1> QED BY <1>2, <1>3, <1>4

LEMMA ArmRequest ==
  ASSUME TypeOK, NEW c \in callers, NEW a \in BOOLEAN, set_armed(c, a)
  PROVE  /\ UNCHANGED <<wish, since, answered, joined>>
         /\ \/ Request(c, ArmStores(a))
            \/ flag["armed_"] = a /\ Request(c, <<Set("armed_", a)>>)
  <1>1. CASE flag["armed_"] # a
    <2>1. Request(c, <<Set("armed_", a), Set("state_dirty_", TRUE)>>)
      BY <1>1 DEF set_armed
    <2> QED BY <2>1 DEF ArmStores, set_armed
  <1>2. CASE flag["armed_"] = a
    <2>1. Request(c, <<Set("armed_", a)>>)
      BY <1>2 DEF set_armed
    <2> QED BY <1>2, <2>1 DEF set_armed
  <1> QED BY <1>1, <1>2

LEMMA EnrollMade ==
  ASSUME TypeOK, NEW c \in callers, NEW e \in BOOLEAN, set_enroll(c, e)
  PROVE  /\ todo[c] = <<>> /\ MayRun(c) /\ UNCHANGED <<callers, flag, grace, task_pc>>
         /\ \/ e /\ Joining(c)' /\ Left(c)' = 8
            \/ ~e /\ ~flag["drain_"] /\ Leaving(c)' /\ Left(c)' = 6
            \/ ~e /\ Stopping(c)' /\ Left(c)' = 4
  <1>1. PICK stores \in {JoinStores, LeaveStores, StopStores} :
          /\ Request(c, stores)
          /\ stores = JoinStores <=> e
          /\ stores = LeaveStores => flag["enroll_"] /\ ~flag["drain_"]
    BY EnrollRequest
  <1>2. stores \in Seq(StoreOps) /\ Ends(stores, stores)
    BY StoresTyped, EndsSelf
  <1>3. /\ todo'[c] = stores /\ Left(c)' = Len(stores) /\ todo[c] = <<>> /\ MayRun(c)
        /\ UNCHANGED <<callers, flag, grace, task_pc>>
    BY <1>1, <1>2, RequestEffect
  <1>4. Len(JoinStores) = 8 /\ Len(LeaveStores) = 6 /\ Len(StopStores) = 4
    BY StoresTyped
  <1>5. CASE stores = JoinStores
    <2>1. Joining(c)'
      BY <1>2, <1>3, <1>5 DEF Joining
    <2>2. Left(c)' = 8
      BY <1>3, <1>4, <1>5
    <2> QED BY <1>1, <1>3, <1>5, <2>1, <2>2
  <1>6. CASE stores = LeaveStores
    <2>1. Leaving(c)'
      BY <1>2, <1>3, <1>6 DEF Leaving
    <2>2. Left(c)' = 6
      BY <1>3, <1>4, <1>6
    <2>3. stores # JoinStores
      BY <1>4, <1>6
    <2> QED BY <1>1, <1>3, <1>6, <2>1, <2>2, <2>3
  <1>7. CASE stores = StopStores
    <2>1. Stopping(c)'
      BY <1>2, <1>3, <1>7 DEF Stopping
    <2>2. Left(c)' = 4
      BY <1>3, <1>4, <1>7
    <2>3. stores # JoinStores
      BY <1>4, <1>7
    <2> QED BY <1>1, <1>3, <1>7, <2>1, <2>2, <2>3
  <1> QED BY <1>1, <1>5, <1>6, <1>7

LEMMA ArmMade ==
  ASSUME TypeOK, NEW c \in callers, NEW a \in BOOLEAN, set_armed(c, a)
  PROVE  /\ todo[c] = <<>> /\ MayRun(c) /\ OnlyArming(c)'
         /\ UNCHANGED <<callers, flag, grace, task_pc, wish, since>>
  <1>1. UNCHANGED <<wish, since>>
    BY ArmRequest
  <1>2. PICK stores \in {ArmStores(a), <<Set("armed_", a)>>} : Request(c, stores)
    BY ArmRequest
  <1>3. stores \in Seq(StoreOps) /\ Ends(stores, stores)
    BY StoresTyped, EndsSelf
  <1>4. /\ todo'[c] = stores /\ todo[c] = <<>> /\ MayRun(c)
        /\ UNCHANGED <<callers, flag, grace, task_pc>>
    BY <1>2, <1>3, RequestEffect
  <1>5. OnlyArming(c)'
    BY <1>2, <1>3, <1>4 DEF OnlyArming
  <1> QED BY <1>1, <1>4, <1>5

\* What the interrupt writes: the drain's answer, the key gate and the count of polls.
IsrStep == Poll \/ RollcallElsewhere \/ RollcallReply \/ SessionGate
LEMMA IsrEffect ==
  ASSUME TypeOK, IsrStep
  PROVE  /\ UNCHANGED <<callers, grace, todo, task_pc, reported, calls, wish, since, joined>>
         /\ flag' \in [Flags -> BOOLEAN]
         /\ \A f \in {"enroll_", "drain_", "claim_mask_", "armed_", "state_dirty_", "join_logged_"} :
              flag'[f] = flag[f]
         /\ drain_polls' \in 0 .. QuietPolls
         /\ answered' \in BOOLEAN
         /\ (flag["polled_"] => answered) => (flag'["polled_"] => answered')
  <1> USE DEF TypeOK, Isr, Flags, QuietPolls
  <1>1. CASE Poll
    <2>1. CASE flag["drain_"] /\ DrainQuiet
      BY <1>1, <2>1 DEF Poll
    <2>2. CASE ~(flag["drain_"] /\ DrainQuiet)
      <3>1. /\ flag' = [flag EXCEPT !["polled_"] = TRUE] /\ answered' = TRUE
            /\ UNCHANGED drain_polls /\ Isr
        BY <1>1, <2>2 DEF Poll
      <3> QED BY <3>1
    <2> QED BY <2>1, <2>2
  <1>2. CASE RollcallElsewhere
    BY <1>2 DEF RollcallElsewhere
  <1>3. CASE RollcallReply
    BY <1>3 DEF RollcallReply
  <1>4. CASE SessionGate
    <2>1. \E v \in BOOLEAN : flag' = [flag EXCEPT !["sess_ready_"] = v]
      BY <1>4 DEF SessionGate
    <2>2. /\ flag' \in [Flags -> BOOLEAN]
          /\ \A f \in Flags \ {"sess_ready_"} : flag'[f] = flag[f]
      BY <2>1
    <2> QED BY <1>4, <2>2 DEF SessionGate
  <1> QED BY <1>1, <1>2, <1>3, <1>4 DEF IsrStep

LEMMA LeaveEffect ==
  ASSUME TypeOK, Leave
  PROVE  /\ flag' \in [Flags -> BOOLEAN]
         /\ ~flag'["drain_"] /\ ~flag'["enroll_"] /\ flag'["state_dirty_"]
         /\ \A f \in Flags \ {"drain_", "enroll_", "state_dirty_"} : flag'[f] = flag[f]
  BY DEF TypeOK, Leave, Flags

\* What the task writes: the end of the drain, the dirty flag and the join event.
LEMMA TaskEffect ==
  ASSUME TypeOK, TaskStep
  PROVE  /\ UNCHANGED <<callers, drain_polls, grace, todo, calls, wish, since, answered>>
         /\ task_pc' \in TaskPcs
         /\ flag' \in [Flags -> BOOLEAN]
         /\ reported' \in [armed : BOOLEAN, enroll : {"drain", "yes", "no"}]
         /\ joined' \in BOOLEAN
         /\ \A f \in {"claim_mask_", "armed_", "polled_"} : flag'[f] = flag[f]
         /\ \/ flag' = flag \/ ~flag'["drain_"]
            \/ flag'["drain_"] = flag["drain_"] /\ flag'["enroll_"] = flag["enroll_"]
         /\ ~CheckDrain /\ ~FinishDrain => flag'["drain_"] = flag["drain_"] /\ flag'["enroll_"] = flag["enroll_"]
  <1> USE DEF TypeOK, Goto, Flags, TaskPcs
  <1>0. Current \in [armed : BOOLEAN, enroll : {"drain", "yes", "no"}]
    BY DEF Current, Enrollment
  <1>1. CASE CheckDrain
    <2>1. CASE flag' = flag
      BY <1>1, <2>1 DEF CheckDrain
    <2>2. CASE Leave
      BY <1>1, <2>2, LeaveEffect DEF CheckDrain
    <2> QED BY <1>1, <2>1, <2>2 DEF CheckDrain
  <1>2. CASE FinishDrain
    BY <1>2, LeaveEffect DEF FinishDrain
  <1>3. CASE EmitState
    BY <1>3, <1>0 DEF EmitState
  <1>4. CASE EmitJoin
    <2> DEFINE event == ~flag["join_logged_"] /\ flag["enroll_"] /\ flag["polled_"]
               logged == flag["join_logged_"] \/ event
    <2>1. /\ flag' = [flag EXCEPT !["join_logged_"] = logged]
          /\ joined' = (joined \/ (event /\ answered)) /\ reported' = reported /\ Goto("report")
      BY <1>4 DEF EmitJoin
    <2>2. logged \in BOOLEAN /\ joined' \in BOOLEAN
      BY <2>1
    <2> HIDE DEF logged
    <2>3. /\ flag' \in [Flags -> BOOLEAN]
          /\ \A f \in Flags \ {"join_logged_"} : flag'[f] = flag[f]
      BY <2>1, <2>2
    <2> QED BY <2>1, <2>2, <2>3
  <1>5. CASE ReportWindow
    BY <1>5, <1>0 DEF ReportWindow
  <1>6. CASE Proceed
    BY <1>6 DEF Proceed
  <1> QED BY <1>1, <1>2, <1>3, <1>4, <1>5, <1>6 DEF TaskStep

-----------------------------------------------------------------------------
(* One invariant after the other *)

\* A step of the specification is one of these.
LEMMA Steps ==
  ASSUME Next
  PROVE  \/ \E c \in callers, e \in BOOLEAN : set_enroll(c, e)
         \/ \E c \in callers, a \in BOOLEAN : set_armed(c, a)
         \/ \E c \in callers : Store(c)
         \/ TaskStep \/ IsrStep \/ Tick
  BY DEF Next, IsrStep

LEMMA TypeStep == TypeOK /\ [Next]_vars => TypeOK'
  <1> SUFFICES ASSUME TypeOK, [Next]_vars PROVE TypeOK'
    OBVIOUS
  <1>1. ASSUME NEW c \in callers, NEW e \in BOOLEAN, set_enroll(c, e) PROVE TypeOK'
    <2>1. PICK stores \in {JoinStores, LeaveStores, StopStores} : Request(c, stores)
      BY <1>1, EnrollRequest
    <2>2. stores \in Seq(StoreOps)
      BY StoresTyped
    <2>3. /\ wish' \in BOOLEAN /\ since' \in 0 .. Grace /\ answered' \in BOOLEAN /\ joined' \in BOOLEAN
      <3>1. CASE e
        BY <1>1, <3>1 DEF set_enroll, TypeOK
      <3>2. CASE ~e
        BY <1>1, <3>2, BoundsAssumption DEF set_enroll, TypeOK
      <3> QED BY <3>1, <3>2
    <2> QED BY <2>1, <2>2, <2>3, RequestEffect DEF TypeOK
  <1>2. ASSUME NEW c \in callers, NEW a \in BOOLEAN, set_armed(c, a) PROVE TypeOK'
    <2>1. /\ UNCHANGED <<wish, since, answered, joined>>
          /\ Request(c, ArmStores(a)) \/ Request(c, <<Set("armed_", a)>>)
      BY <1>2, ArmRequest
    <2>2. ArmStores(a) \in Seq(StoreOps) /\ <<Set("armed_", a)>> \in Seq(StoreOps)
      BY StoresTyped
    <2>3. CASE Request(c, ArmStores(a))
      BY <2>1, <2>2, <2>3, RequestEffect DEF TypeOK
    <2>4. CASE Request(c, <<Set("armed_", a)>>)
      BY <2>1, <2>2, <2>4, RequestEffect DEF TypeOK
    <2> QED BY <2>1, <2>3, <2>4
  <1>3. ASSUME NEW c \in callers, Store(c) PROVE TypeOK'
    <2>1. drain_polls' \in 0 .. QuietPolls
      BY <1>3 DEF Store, TypeOK, QuietPolls
    <2>2. UNCHANGED <<callers, task_pc, reported, calls, wish, since, answered, joined>>
      BY <1>3 DEF Store
    <2>3. grace' \in 0 .. Grace
      BY SMTT(30), <1>3, StoreEffect, BoundsAssumption DEF TypeOK
    <2> QED BY <1>3, <2>1, <2>2, <2>3, StoreEffect DEF TypeOK
  <1>4. CASE TaskStep
    BY <1>4, TaskEffect DEF TypeOK
  <1>5. CASE IsrStep
    BY <1>5, IsrEffect DEF TypeOK
  <1>6. CASE Tick
    BY <1>6, BoundsAssumption DEF Tick, TypeOK
  <1>7. CASE UNCHANGED vars
    BY <1>7 DEF vars, TypeOK
  <1> QED BY <1>1, <1>2, <1>3, <1>4, <1>5, <1>6, <1>7, Steps

LEMMA TodoStep == TypeOK /\ TodoInv /\ [Next]_vars => TodoInv'
  <1> SUFFICES ASSUME TypeOK, TodoInv, [Next]_vars PROVE TodoInv'
    OBVIOUS
  <1> USE DEF TodoInv, Joining, Leaving, Stopping, OnlyArming
  <1>0. ASSUME NEW c \in callers, NEW stores \in Seq(StoreOps), Request(c, stores),
               \/ stores \in {JoinStores, LeaveStores, StopStores}
               \/ \E a \in BOOLEAN : stores = ArmStores(a) \/ stores = <<Set("armed_", a)>>
        PROVE  TodoInv'
    <2>1. todo'[c] = stores /\ callers' = callers /\ \A d \in callers : d # c => todo'[d] = todo[d]
      BY <1>0, RequestEffect
    <2>2. Ends(stores, stores)
      BY EndsSelf
    <2> QED BY <1>0, <2>1, <2>2
  <1>1. ASSUME NEW c \in callers, NEW e \in BOOLEAN, set_enroll(c, e) PROVE TodoInv'
    <2>1. PICK stores \in {JoinStores, LeaveStores, StopStores} : Request(c, stores)
      BY <1>1, EnrollRequest
    <2> QED BY <1>0, <2>1, StoresTyped
  <1>2. ASSUME NEW c \in callers, NEW a \in BOOLEAN, set_armed(c, a) PROVE TodoInv'
    <2>1. Request(c, ArmStores(a)) \/ Request(c, <<Set("armed_", a)>>)
      BY <1>2, ArmRequest
    <2>2. ArmStores(a) \in Seq(StoreOps) /\ <<Set("armed_", a)>> \in Seq(StoreOps)
      BY StoresTyped
    <2> QED BY <1>0, <2>1, <2>2
  <1>3. ASSUME NEW c \in callers, Store(c) PROVE TodoInv'
    <2>1. /\ todo[c] # <<>> /\ todo[c] \in Seq(StoreOps) /\ todo'[c] = Tail(todo[c])
          /\ callers' = callers /\ \A d \in callers : d # c => todo'[d] = todo[d]
      BY <1>3, StoreEffect
    <2>2. CASE OnlyArming(c)
      BY <2>1, <2>2, ArmNext
    <2>3. CASE Joining(c) \/ Leaving(c) \/ Stopping(c)
      BY ZenonT(60), <2>1, <2>3, StoresTyped, EndsStep
    <2> QED BY <2>2, <2>3
  <1>4. CASE UNCHANGED <<callers, todo>>
    BY <1>4
  <1> QED BY <1>1, <1>2, <1>3, <1>4, Steps, TaskEffect, IsrEffect DEF Tick, vars

LEMMA JoinStep == TypeOK /\ TodoInv /\ JoinInv /\ [Next]_vars => JoinInv'
  <1> SUFFICES ASSUME TypeOK, TodoInv, JoinInv, [Next]_vars PROVE JoinInv'
    OBVIOUS
  <1> USE DEF JoinInv
  <1>1. ASSUME NEW c \in callers, NEW e \in BOOLEAN, set_enroll(c, e) PROVE JoinInv'
    <2>1. wish' = e
      BY <1>1 DEF set_enroll
    <2>2. CASE e
      <3>1. Request(c, JoinStores)
        BY <1>1, <2>2, EnrollRequest
      <3>2. callers' = callers /\ Left(c)' = 8
        BY <3>1, StoresTyped, RequestEffect
      <3> QED BY <3>2
    <2> QED BY <2>1, <2>2
  <1>2. ASSUME NEW c \in callers, NEW a \in BOOLEAN, set_armed(c, a) PROVE JoinInv'
    <2>1. /\ UNCHANGED <<wish, since, answered, joined>>
          /\ Request(c, ArmStores(a)) \/ Request(c, <<Set("armed_", a)>>)
      BY <1>2, ArmRequest
    <2>2. /\ Left(c) = 0 /\ callers' = callers /\ flag' = flag
          /\ \A d \in callers : d # c => todo'[d] = todo[d]
      BY <2>1, StoresTyped, RequestEffect
    <2>3. \A d \in callers : d # c => Left(d)' = Left(d)
      BY <2>2 DEF Left
    <2> QED BY <2>1, <2>2, <2>3
  <1>3. ASSUME NEW c \in callers, Store(c) PROVE JoinInv'
    <2>1. UNCHANGED <<wish, answered, joined>>
      BY <1>3 DEF Store
    <2>2. /\ callers' = callers /\ Left(c) \in Nat /\ Left(c)' = Left(c) - 1 /\ todo[c] # <<>>
          /\ \A d \in callers : d # c => todo'[d] = todo[d]
          /\ \A f \in Flags : flag'[f] = IF Head(todo[c]).f = f THEN Head(todo[c]).v ELSE flag[f]
      BY <1>3, StoreEffect
    <2>3. \A d \in callers : d # c => Left(d)' = Left(d)
      BY <2>2 DEF Left
    <2>4. /\ Left(c) >= 7 => Joining(c)
          /\ Joining(c) => /\ Left(c) <= 8
                           /\ Left(c) = 8 => Head(todo[c]).f = "polled_" /\ Head(todo[c]).v = FALSE
                           /\ Left(c) = 7 => Head(todo[c]).f = "join_logged_" /\ Head(todo[c]).v = FALSE
          /\ Head(todo[c]).f \in {"polled_", "join_logged_"} => Head(todo[c]).v = FALSE
      <3>1. Joining(c) => /\ Left(c) <= 8
                          /\ Left(c) = 8 => Head(todo[c]).f = "polled_" /\ Head(todo[c]).v = FALSE
                          /\ Left(c) = 7 => Head(todo[c]).f = "join_logged_" /\ Head(todo[c]).v = FALSE
                          /\ Head(todo[c]).f \in {"polled_", "join_logged_"} => Head(todo[c]).v = FALSE
        BY <2>2, JoinNext DEF Set
      <3>2. Leaving(c) => Left(c) <= 6 /\ Head(todo[c]).f \notin {"polled_", "join_logged_"}
        BY <2>2, LeaveNext DEF Set
      <3>3. Stopping(c) => Left(c) <= 4 /\ Head(todo[c]).f \notin {"polled_", "join_logged_"}
        BY <2>2, StopNext DEF Set
      <3>4. OnlyArming(c) => Left(c) <= 2 /\ Head(todo[c]).f \notin {"polled_", "join_logged_"}
        <4> SUFFICES ASSUME OnlyArming(c)
                     PROVE  Left(c) <= 2 /\ Head(todo[c]).f \notin {"polled_", "join_logged_"}
          OBVIOUS
        <4>1. Left(c) \in 1 .. 2
          BY <2>2, ArmNext
        <4>2. \E a \in BOOLEAN : Head(todo[c]) = Set("armed_", a) \/ Head(todo[c]) = Set("state_dirty_", TRUE)
          BY <2>2, ArmNext
        <4> QED BY <4>1, <4>2 DEF Set
      <3> QED BY <2>2, <3>1, <3>2, <3>3, <3>4 DEF TodoInv
    <2>5. /\ flag'["polled_"] => flag["polled_"] /\ ~(Left(c) = 8)
          /\ flag'["join_logged_"] => flag["join_logged_"] /\ ~(Left(c) = 7)
      BY <2>2, <2>4 DEF Flags
    <2>6. Left(c) <= 8
      BY <2>2, <2>4
    <2> QED BY <2>1, <2>2, <2>3, <2>5, <2>6
  <1>4. CASE TaskStep
    <2>1. UNCHANGED <<callers, todo, wish, answered>> /\ flag'["polled_"] = flag["polled_"]
      BY <1>4, TaskEffect
    <2>2. \A d \in callers : Left(d)' = Left(d)
      BY <2>1 DEF Left
    <2>3. CASE UNCHANGED joined /\ flag'["join_logged_"] = flag["join_logged_"]
      BY <2>1, <2>2, <2>3
    <2>4. CASE EmitJoin
      <3>1. /\ joined => joined'
            /\ flag'["join_logged_"] /\ ~flag["join_logged_"] => flag["polled_"]
            /\ flag'["join_logged_"] /\ ~flag["join_logged_"] /\ answered => joined'
        <4>1. CASE ~flag["join_logged_"] /\ flag["enroll_"] /\ flag["polled_"]
          BY <2>4, <4>1 DEF EmitJoin, TypeOK
        <4>2. CASE ~(~flag["join_logged_"] /\ flag["enroll_"] /\ flag["polled_"])
          <5>1. flag' = [flag EXCEPT !["join_logged_"] = flag["join_logged_"]]
            BY <2>4, <4>2 DEF EmitJoin, TypeOK, Flags
          <5>2. joined => joined'
            BY <2>4 DEF EmitJoin
          <5> QED BY <5>1, <5>2 DEF TypeOK, Flags
        <4> QED BY <4>1, <4>2
      <3>2. (\A d \in callers : Left(d) < 7) => (\A d \in callers : Left(d) < 8)
        BY LeftCounts
      <3> QED BY <2>1, <2>2, <3>1, <3>2
    <2>5. CASE Leave /\ UNCHANGED joined
      BY <2>3, <2>5, LeaveEffect DEF Flags
    <2>6. CASE flag' = flag /\ UNCHANGED joined
      BY <2>3, <2>6
    <2>7. CASE EmitState
      BY <2>3, <2>7 DEF EmitState, TypeOK, Flags
    <2>8. CASE CheckDrain \/ FinishDrain
      BY <2>5, <2>6, <2>8 DEF CheckDrain, FinishDrain
    <2>9. CASE ReportWindow \/ Proceed
      BY <2>6, <2>9 DEF ReportWindow, Proceed
    <2> QED BY <1>4, <2>4, <2>7, <2>8, <2>9 DEF TaskStep
  <1>5. CASE IsrStep
    <2>1. /\ UNCHANGED <<callers, todo, wish, joined>> /\ flag'["join_logged_"] = flag["join_logged_"]
          /\ (flag["polled_"] => answered) => (flag'["polled_"] => answered')
      BY <1>5, IsrEffect
    <2>2. \A d \in callers : Left(d)' = Left(d)
      BY <2>1 DEF Left
    <2> QED BY <2>1, <2>2
  <1>6. CASE UNCHANGED <<callers, todo, wish, joined, answered, flag>>
    <2>1. \A d \in callers : Left(d)' = Left(d)
      BY <1>6 DEF Left
    <2> QED BY <1>6, <2>1
  <1> QED BY <1>1, <1>2, <1>3, <1>4, <1>5, <1>6, Steps DEF Tick, vars

LEMMA CurrentKept ==
  ASSUME flag'["armed_"] = flag["armed_"], flag'["drain_"] = flag["drain_"], flag'["enroll_"] = flag["enroll_"]
  PROVE  Current' = Current
  BY DEF Current, Enrollment

\* All requests but one to arm again what is armed end in the dirty flag.
LEMMA LastStore ==
  ASSUME NEW stores, stores \in {JoinStores, LeaveStores, StopStores} \/ \E a \in BOOLEAN : stores = ArmStores(a)
  PROVE  stores # <<>> /\ stores[Len(stores)] = Set("state_dirty_", TRUE)
  <1>1. CASE stores = JoinStores
    BY <1>1 DEF JoinStores, Set
  <1>2. CASE stores = LeaveStores
    BY <1>2 DEF LeaveStores, Set
  <1>3. CASE stores = StopStores
    BY <1>3 DEF StopStores, Set
  <1>4. ASSUME NEW a \in BOOLEAN, stores = ArmStores(a)
        PROVE  stores # <<>> /\ stores[Len(stores)] = Set("state_dirty_", TRUE)
    BY <1>4 DEF ArmStores, Set
  <1> QED BY <1>1, <1>2, <1>3, <1>4

LEMMA ReportStep == TypeOK /\ ReportInv /\ [Next]_vars => ReportInv'
  <1> SUFFICES ASSUME TypeOK, ReportInv, [Next]_vars, OneSided' PROVE ReportInv'
    BY DEF ReportInv
  <1>0. callers' = callers
    BY Steps, TaskEffect, IsrEffect DEF set_enroll, set_armed, Request, Store, Tick, vars
  <1>a. OneSided
    BY <1>0 DEF OneSided
  <1>b. /\ \A c \in callers : todo[c] # <<>> => Announces(c) \/ todo[c] = <<Set("armed_", flag["armed_"])>>
        /\ flag["state_dirty_"] \/ reported = Current \/ \E c \in callers : Announces(c)
    BY <1>a DEF ReportInv
  <1>c. ASSUME NEW c \in callers, NEW stores \in Seq(StoreOps), Request(c, stores),
               stores \in {JoinStores, LeaveStores, StopStores} \/ \E a \in BOOLEAN : stores = ArmStores(a)
        PROVE  ReportInv'
    <2>1. todo'[c] = stores
      BY <1>c, RequestEffect
    <2>2. Announces(c)'
      BY <1>c, <2>1, LastStore DEF Announces, Left
    <2>3. \A d \in callers' : d = c
      BY <1>0, <1>a DEF OneSided
    <2> QED BY <1>0, <2>2, <2>3 DEF ReportInv
  <1>d. ASSUME UNCHANGED <<todo>>, flag'["armed_"] = flag["armed_"]
        PROVE  /\ \A c \in callers' : todo'[c] # <<>> => Announces(c)' \/ todo'[c] = <<Set("armed_", flag'["armed_"])>>
               /\ \A c \in callers : Announces(c)' <=> Announces(c)
    BY <1>0, <1>b, <1>d DEF Announces, Left
  <1>1. ASSUME NEW c \in callers, NEW e \in BOOLEAN, set_enroll(c, e) PROVE ReportInv'
    <2>1. PICK stores \in {JoinStores, LeaveStores, StopStores} : Request(c, stores)
      BY <1>1, EnrollRequest
    <2> QED BY <1>c, <2>1, StoresTyped
  <1>2. ASSUME NEW c \in callers, NEW a \in BOOLEAN, set_armed(c, a) PROVE ReportInv'
    <2>1. CASE Request(c, ArmStores(a))
      BY <1>c, <2>1, StoresTyped
    <2>2. CASE flag["armed_"] = a /\ Request(c, <<Set("armed_", a)>>)
      <3>1. /\ todo[c] = <<>> /\ todo'[c] = <<Set("armed_", a)>>
            /\ UNCHANGED <<flag, reported>>
        BY <2>2, StoresTyped, RequestEffect
      <3>2. \A d \in callers : d = c
        BY <1>a DEF OneSided
      <3>3. flag["state_dirty_"] \/ reported = Current
        BY <1>b, <3>1, <3>2 DEF Announces
      <3>4. Current' = Current
        BY <3>1 DEF Current, Enrollment
      <3> QED BY <1>0, <2>2, <3>1, <3>2, <3>3, <3>4 DEF ReportInv
    <2> QED BY <1>2, <2>1, <2>2, ArmRequest
  <1>3. ASSUME NEW c \in callers, Store(c) PROVE ReportInv'
    <2>1. \A d \in callers' : d = c
      BY <1>0, <1>a DEF OneSided
    <2>2. /\ todo[c] # <<>> /\ todo[c] \in Seq(StoreOps) /\ todo'[c] = Tail(todo[c])
          /\ Left(c) \in Nat /\ Left(c)' = Left(c) - 1
      BY <1>3, StoreEffect
    <2>3. /\ Len(Tail(todo[c])) = Left(c) - 1 /\ Head(todo[c]) = todo[c][1]
          /\ \A i \in 1 .. Left(c) - 1 : Tail(todo[c])[i] = todo[c][i + 1]
          /\ Left(c) >= 1
      BY <2>2, HeadTailProperties, EmptySeq DEF Left
    <2>4. CASE Announces(c) /\ Left(c) > 1
      <3>1. todo'[c][Left(c) - 1] = todo[c][Left(c)] /\ todo'[c] # <<>>
        BY <2>2, <2>3, <2>4
      <3>2. Announces(c)'
        BY <2>2, <2>4, <3>1 DEF Announces
      <3> QED BY <1>0, <2>1, <3>2 DEF ReportInv
    <2>5. CASE Announces(c) /\ Left(c) = 1
      <3>1. Head(todo[c]) = Set("state_dirty_", TRUE)
        BY <2>3, <2>5 DEF Announces
      <3>2. flag'["state_dirty_"]
        BY <1>3, <3>1, StoreEffect DEF Set, Flags
      <3>3. todo'[c] = <<>>
        <4>1. Tail(todo[c]) \in Seq(StoreOps)
          BY <2>2, HeadTailProperties
        <4>2. Len(Tail(todo[c])) = 0
          BY <2>3, <2>5
        <4> QED BY <2>2, <4>1, <4>2, EmptySeq
      <3> QED BY <1>0, <2>1, <3>2, <3>3 DEF ReportInv
    <2>6. CASE ~Announces(c)
      <3>1. todo[c] = <<Set("armed_", flag["armed_"])>>
        BY <1>b, <2>2, <2>6
      <3>2. Head(todo[c]) = Set("armed_", flag["armed_"]) /\ todo'[c] = <<>>
        BY <2>2, <3>1
      <3>3. flag' = flag
        BY <1>3, <3>2 DEF Store, Set, Flags, TypeOK
      <3>4. reported' = reported
        BY <1>3 DEF Store
      <3>5. flag["state_dirty_"] \/ reported = Current
        BY <1>0, <1>b, <2>1, <2>6
      <3>6. Current' = Current
        BY <3>3 DEF Current, Enrollment
      <3> QED BY <1>0, <2>1, <3>2, <3>3, <3>4, <3>5, <3>6 DEF ReportInv
    <2> QED BY <2>2, <2>3, <2>4, <2>5, <2>6
  <1>4. CASE TaskStep
    <2>1. UNCHANGED <<todo>> /\ flag'["armed_"] = flag["armed_"]
      BY <1>4, TaskEffect
    <2>2. CASE Leave
      BY <1>d, <2>1, <2>2, LeaveEffect DEF ReportInv
    <2>3. CASE EmitState
      <3>1. /\ flag'["drain_"] = flag["drain_"] /\ flag'["enroll_"] = flag["enroll_"]
            /\ reported' = IF flag["state_dirty_"] THEN Current ELSE reported
        BY <2>3 DEF EmitState, TypeOK, Flags
      <3>2. Current' = Current
        BY <2>1, <3>1, CurrentKept
      <3> QED BY <1>0, <1>b, <1>d, <2>1, <3>1, <3>2 DEF ReportInv
    <2>4. CASE EmitJoin
      <3>1. \A f \in Flags \ {"join_logged_"} : flag'[f] = flag[f]
        BY <2>4 DEF EmitJoin, TypeOK, Flags
      <3>2. Current' = Current
        BY <3>1, CurrentKept DEF Flags
      <3>3. UNCHANGED reported
        BY <2>4 DEF EmitJoin
      <3> QED BY <1>0, <1>b, <1>d, <2>1, <3>1, <3>2, <3>3 DEF ReportInv, Flags
    <2>5. CASE flag' = flag /\ reported' \in {reported, Current}
      <3>1. Current' = Current
        BY <2>5, CurrentKept
      <3> QED BY <1>0, <1>b, <1>d, <2>1, <2>5, <3>1 DEF ReportInv
    <2>6. CASE CheckDrain \/ FinishDrain
      BY <2>2, <2>5, <2>6 DEF CheckDrain, FinishDrain
    <2>7. CASE ReportWindow \/ Proceed
      BY <2>5, <2>7 DEF ReportWindow, Proceed
    <2> QED BY <1>4, <2>3, <2>4, <2>6, <2>7 DEF TaskStep
  <1>5. CASE IsrStep
    <2>1. /\ UNCHANGED <<todo, reported>> /\ flag'["armed_"] = flag["armed_"]
          /\ flag'["state_dirty_"] = flag["state_dirty_"]
          /\ flag'["drain_"] = flag["drain_"] /\ flag'["enroll_"] = flag["enroll_"]
      BY <1>5, IsrEffect
    <2>2. Current' = Current
      BY <2>1, CurrentKept
    <2> QED BY <1>0, <1>b, <1>d, <2>1, <2>2 DEF ReportInv
  <1>6. CASE UNCHANGED <<todo, reported, flag>>
    <2>1. Current' = Current
      BY <1>6, CurrentKept
    <2> QED BY <1>0, <1>b, <1>d, <1>6, <2>1 DEF ReportInv
  <1> QED BY <1>1, <1>2, <1>3, <1>4, <1>5, <1>6, Steps DEF Tick, vars

LEMMA MaskStep == TypeOK /\ MaskInv /\ [Next]_vars => MaskInv'
  <1> SUFFICES ASSUME TypeOK, MaskInv, [Next]_vars, OneSided' PROVE MaskInv'
    BY DEF MaskInv
  <1>0. callers' = callers
    BY Steps, TaskEffect, IsrEffect DEF set_enroll, set_armed, Request, Store, Tick, vars
  <1>a. OneSided
    BY <1>0 DEF OneSided
  <1>b. /\ flag["drain_"] => ~flag["claim_mask_"]
        /\ \A c \in callers :
             \/ Joining(c) /\ (Left(c) <= 5 => ~flag["drain_"])
             \/ Leaving(c) /\ (Left(c) <= 3 => ~flag["claim_mask_"])
             \/ Stopping(c) /\ (Left(c) <= 3 => ~flag["drain_"])
             \/ OnlyArming(c)
    BY <1>a DEF MaskInv
  <1>1. ASSUME NEW c \in callers, NEW e \in BOOLEAN, set_enroll(c, e) PROVE MaskInv'
    <2>1. /\ flag' = flag
          /\ \/ Joining(c)' /\ Left(c)' = 8
             \/ Leaving(c)' /\ Left(c)' = 6
             \/ Stopping(c)' /\ Left(c)' = 4
      BY <1>1, EnrollMade
    <2>2. \A d \in callers' : d = c
      BY <1>0, <1>a DEF OneSided
    <2>3. \/ Joining(c)' /\ ~(Left(c)' <= 5)
          \/ Leaving(c)' /\ ~(Left(c)' <= 3)
          \/ Stopping(c)' /\ ~(Left(c)' <= 3)
      BY <2>1
    <2>4. flag'["drain_"] => ~flag'["claim_mask_"]
      BY <1>b, <2>1
    <2> QED BY <2>2, <2>3, <2>4 DEF MaskInv
  <1>2. ASSUME NEW c \in callers, NEW a \in BOOLEAN, set_armed(c, a) PROVE MaskInv'
    <2>1. OnlyArming(c)' /\ flag' = flag
      BY <1>2, ArmMade
    <2>2. \A d \in callers' : d = c
      BY <1>0, <1>a DEF OneSided
    <2> QED BY <1>b, <2>1, <2>2 DEF MaskInv
  <1>3. ASSUME NEW c \in callers, Store(c) PROVE MaskInv'
    <2>1. \A d \in callers' : d = c
      BY <1>0, <1>a DEF OneSided
    <2>2. /\ todo[c] # <<>> /\ todo[c] \in Seq(StoreOps) /\ todo'[c] = Tail(todo[c])
          /\ Left(c) \in Nat /\ Left(c)' = Left(c) - 1
          /\ \A f \in Flags : flag'[f] = IF Head(todo[c]).f = f THEN Head(todo[c]).v ELSE flag[f]
      BY <1>3, StoreEffect
    <2>3. CASE Joining(c) /\ (Left(c) <= 5 => ~flag["drain_"])
      <3>1. Joining(c)'
        BY <2>2, <2>3, StoresTyped, EndsStep DEF Joining
      <3>2. /\ flag'["drain_"] => flag["drain_"] /\ Left(c) > 6
            /\ flag'["claim_mask_"] => flag["claim_mask_"] \/ ~flag["drain_"]
        BY <2>2, <2>3, JoinNext DEF Set, Flags
      <3> QED BY <1>b, <2>1, <2>2, <3>1, <3>2 DEF MaskInv
    <2>4. CASE Leaving(c) /\ (Left(c) <= 3 => ~flag["claim_mask_"])
      <3>1. Leaving(c)'
        BY <2>2, <2>4, StoresTyped, EndsStep DEF Leaving
      <3>2. flag'["drain_"] => flag["drain_"] \/ Left(c) = 3
        BY <2>2, <2>4, LeaveNext DEF Set, Flags
      <3>3. Left(c) = 4 => ~flag'["claim_mask_"]
        BY <2>2, <2>4, LeaveNext DEF Set, Flags
      <3>4. flag'["claim_mask_"] => flag["claim_mask_"]
        BY <2>2, <2>4, LeaveNext DEF Set, Flags
      <3>5. Left(c) <= 4 => ~flag'["claim_mask_"]
        BY <2>2, <2>4, <3>3, <3>4
      <3>6. flag'["drain_"] => ~flag'["claim_mask_"]
        BY <1>b, <3>2, <3>4, <3>5
      <3>7. Left(c)' <= 3 => ~flag'["claim_mask_"]
        BY <2>2, <3>5
      <3> QED BY <2>1, <3>1, <3>6, <3>7 DEF MaskInv
    <2>5. CASE Stopping(c) /\ (Left(c) <= 3 => ~flag["drain_"])
      <3>1. Stopping(c)'
        BY <2>2, <2>5, StoresTyped, EndsStep DEF Stopping
      <3>2. ~flag'["drain_"] /\ Left(c) <= 4
        BY <2>2, <2>5, StopNext DEF Set, Flags
      <3> QED BY <2>1, <2>2, <3>1, <3>2 DEF MaskInv
    <2>6. CASE OnlyArming(c)
      <3>1. OnlyArming(c)'
        BY <2>2, <2>6, ArmNext DEF OnlyArming
      <3>2. \E a \in BOOLEAN : Head(todo[c]) = Set("armed_", a) \/ Head(todo[c]) = Set("state_dirty_", TRUE)
        BY <2>2, <2>6, ArmNext
      <3>3. flag'["drain_"] = flag["drain_"] /\ flag'["claim_mask_"] = flag["claim_mask_"]
        BY <2>2, <3>2 DEF Set, Flags
      <3> QED BY <1>b, <2>1, <3>1, <3>3 DEF MaskInv
    <2> QED BY <1>b, <2>3, <2>4, <2>5, <2>6
  <1>4. CASE /\ UNCHANGED todo /\ flag'["claim_mask_"] = flag["claim_mask_"]
             /\ flag'["drain_"] => flag["drain_"]
    BY <1>0, <1>b, <1>4 DEF MaskInv, Joining, Leaving, Stopping, OnlyArming, Left
  <1>5. CASE TaskStep
    BY <1>4, <1>5, TaskEffect
  <1>6. CASE IsrStep
    BY <1>4, <1>6, IsrEffect
  <1>7. CASE UNCHANGED <<todo, flag>>
    BY <1>4, <1>7
  <1> QED BY <1>1, <1>2, <1>3, <1>5, <1>6, <1>7, Steps DEF Tick, vars

LEMMA CommandStep == TypeOK /\ CommandInv /\ [Next]_vars => CommandInv'
  <1> SUFFICES ASSUME TypeOK, CommandInv, [Next]_vars, callers' = {"task"} PROVE CommandInv'
    BY DEF CommandInv
  <1> DEFINE c == "task"
  <1>0. callers' = callers
    BY Steps, TaskEffect, IsrEffect DEF set_enroll, set_armed, Request, Store, Tick, vars
  <1>a. /\ c \in callers
        /\ todo[c] # <<>> => task_pc = "poll"
        /\ task_pc = "delay" => ~wish
        /\ \/ /\ OnlyArming(c) /\ Patient
              /\ wish => flag["enroll_"] /\ ~flag["drain_"]
           \/ /\ Joining(c) /\ Left(c) > 0 /\ Patient
              /\ Left(c) <= 5 => ~flag["drain_"]
              /\ Left(c) <= 1 => flag["enroll_"]
           \/ /\ Leaving(c) /\ Left(c) > 0 /\ ~wish
              /\ Left(c) >= 3 => ~flag["drain_"]
              /\ Left(c) = 1 => Patient
           \/ /\ Stopping(c) /\ Left(c) > 0 /\ ~wish
              /\ Left(c) <= 3 => ~flag["drain_"]
    BY <1>0 DEF CommandInv
  \* Nothing is left, or something is.
  <1>b. /\ Left(c) \in Nat
        /\ Left(c) > 0 <=> todo[c] # <<>>
        /\ todo[c] = <<>> => OnlyArming(c) /\ Patient /\ (wish => flag["enroll_"] /\ ~flag["drain_"])
    <2>1. todo[c] \in Seq(StoreOps)
      BY <1>a DEF TypeOK
    <2>2. Left(c) \in Nat /\ (Left(c) > 0 <=> todo[c] # <<>>)
      BY <2>1, EmptySeq DEF Left
    <2> QED BY <1>a, <2>2
  <1>1. ASSUME NEW d \in callers, NEW e \in BOOLEAN, set_enroll(d, e) PROVE CommandInv'
    <2>0. d = c
      BY <1>0
    <2>1. /\ todo[c] = <<>> /\ MayRun(c) /\ UNCHANGED <<callers, flag, grace, task_pc>>
          /\ \/ e /\ Joining(c)' /\ Left(c)' = 8
             \/ ~e /\ ~flag["drain_"] /\ Leaving(c)' /\ Left(c)' = 6
             \/ ~e /\ Stopping(c)' /\ Left(c)' = 4
      BY <1>1, <2>0, EnrollMade
    <2>2. task_pc' = "poll"
      BY <2>1 DEF MayRun
    <2>3. wish' = e /\ (e => since' = since)
      BY <1>1 DEF set_enroll
    <2>4. CASE e /\ Joining(c)' /\ Left(c)' = 8
      <3>1. Patient'
        BY <1>b, <2>1, <2>3, <2>4 DEF Patient
      <3> QED BY <2>2, <2>4, <3>1 DEF CommandInv
    <2>5. CASE ~e /\ ~flag["drain_"] /\ Leaving(c)' /\ Left(c)' = 6
      BY <2>1, <2>2, <2>3, <2>5 DEF CommandInv
    <2>6. CASE ~e /\ Stopping(c)' /\ Left(c)' = 4
      BY <2>2, <2>3, <2>6 DEF CommandInv
    <2> QED BY <2>1, <2>4, <2>5, <2>6
  <1>2. ASSUME NEW d \in callers, NEW a \in BOOLEAN, set_armed(d, a) PROVE CommandInv'
    <2>0. d = c
      BY <1>0
    <2>1. /\ todo[c] = <<>> /\ MayRun(c) /\ OnlyArming(c)'
          /\ UNCHANGED <<callers, flag, grace, task_pc, wish, since>>
      BY <1>2, <2>0, ArmMade
    <2>2. task_pc' = "poll"
      BY <2>1 DEF MayRun
    <2>3. Patient' /\ (wish' => flag'["enroll_"] /\ ~flag'["drain_"])
      BY <1>b, <2>1 DEF Patient
    <2> QED BY <2>1, <2>2, <2>3 DEF CommandInv
  <1>3. ASSUME NEW d \in callers, Store(d) PROVE CommandInv'
    <2>0. d = c
      BY <1>0
    <2>1. /\ todo[c] # <<>> /\ todo[c] \in Seq(StoreOps) /\ todo'[c] = Tail(todo[c])
          /\ Left(c)' = Left(c) - 1
          /\ \A f \in Flags : flag'[f] = IF Head(todo[c]).f = f THEN Head(todo[c]).v ELSE flag[f]
          /\ grace' = IF Head(todo[c]).f = "drain_deadline_ms_" THEN Grace ELSE grace
      BY <1>3, <2>0, StoreEffect
    <2>2. task_pc' = "poll" /\ UNCHANGED <<wish, since>> /\ since \in Nat /\ grace \in Nat /\ Grace \in Nat
      BY <1>3, <1>a, <2>1, BoundsAssumption DEF Store, TypeOK
    <2>3. Left(c)' \in Nat /\ (Left(c)' = 0 => todo'[c] = <<>>)
      <3>1. Tail(todo[c]) \in Seq(StoreOps)
        BY <2>1, HeadTailProperties
      <3>2. Left(c)' = Len(Tail(todo[c]))
        BY <2>1 DEF Left
      <3> QED BY <2>1, <3>1, <3>2, EmptySeq
    <2>4. CASE /\ OnlyArming(c) /\ Patient
               /\ wish => flag["enroll_"] /\ ~flag["drain_"]
      <3>1. OnlyArming(c)'
        BY <1>a, <2>1, <2>4, ArmNext DEF OnlyArming
      <3>2. \E a \in BOOLEAN : Head(todo[c]) = Set("armed_", a) \/ Head(todo[c]) = Set("state_dirty_", TRUE)
        BY <1>a, <2>1, <2>4, ArmNext
      <3>3. flag'["drain_"] = flag["drain_"] /\ flag'["enroll_"] = flag["enroll_"] /\ grace' = grace
        BY <2>1, <3>2 DEF Set, Flags
      <3>4. Patient'
        BY <2>2, <2>4, <3>3 DEF Patient
      <3> QED BY <2>2, <2>4, <3>1, <3>3, <3>4 DEF CommandInv
    <2>5. CASE /\ Joining(c) /\ Left(c) > 0 /\ Patient
               /\ Left(c) <= 5 => ~flag["drain_"]
               /\ Left(c) <= 1 => flag["enroll_"]
      <3>1. Joining(c)'
        BY <2>1, <2>5, StoresTyped, EndsStep DEF Joining
      <3>2. flag'["drain_"] => flag["drain_"] /\ Left(c) > 6
        BY <1>a, <2>1, <2>5, JoinNext DEF Set, Flags
      <3>3. grace' = grace
        BY <1>a, <2>1, <2>5, JoinNext DEF Set
      <3>4. Patient'
        BY <2>2, <2>5, <3>2, <3>3 DEF Patient
      <3>5. Left(c) <= 2 => flag'["enroll_"]
        BY <1>a, <2>1, <2>5, JoinNext DEF Set, Flags
      <3>6. Left(c)' <= 5 => ~flag'["drain_"]
        BY <1>b, <2>1, <3>2
      <3>7. Left(c)' <= 1 => flag'["enroll_"]
        BY <1>b, <2>1, <3>5
      <3>8. CASE Left(c)' > 0
        BY <2>2, <3>1, <3>4, <3>6, <3>7, <3>8 DEF CommandInv
      <3>9. CASE Left(c)' = 0
        <4>1. OnlyArming(c)'
          BY <2>3, <3>9 DEF OnlyArming
        <4>2. flag'["enroll_"] /\ ~flag'["drain_"]
          BY <3>6, <3>7, <3>9
        <4> QED BY <2>2, <3>4, <4>1, <4>2 DEF CommandInv
      <3> QED BY <2>3, <3>8, <3>9
    <2>6. CASE /\ Leaving(c) /\ Left(c) > 0 /\ ~wish
               /\ Left(c) >= 3 => ~flag["drain_"]
               /\ Left(c) = 1 => Patient
      <3>1. Leaving(c)'
        BY <2>1, <2>6, StoresTyped, EndsStep DEF Leaving
      <3>2. flag'["drain_"] => flag["drain_"] \/ Left(c) = 3
        BY <1>a, <2>1, <2>6, LeaveNext DEF Set, Flags
      <3>3. Left(c) = 2 => grace' = Grace
        BY <1>a, <2>1, <2>6, LeaveNext DEF Set
      <3>4. Left(c) = 1 => grace' = grace
        BY <1>a, <2>1, <2>6, LeaveNext DEF Set
      <3>5. Left(c)' <= 1 => Patient'
        BY <1>b, <2>1, <2>2, <2>6, <3>2, <3>3, <3>4 DEF Patient
      <3>6. Left(c)' >= 3 => ~flag'["drain_"]
        BY <1>b, <2>1, <2>6, <3>2
      <3>8. CASE Left(c)' > 0
        BY <2>2, <2>6, <3>1, <3>5, <3>6, <3>8 DEF CommandInv
      <3>9. CASE Left(c)' = 0
        <4>1. OnlyArming(c)'
          BY <2>3, <3>9 DEF OnlyArming
        <4> QED BY <2>2, <2>6, <3>5, <3>9, <4>1 DEF CommandInv
      <3> QED BY <2>3, <3>8, <3>9
    <2>7. CASE /\ Stopping(c) /\ Left(c) > 0 /\ ~wish
               /\ Left(c) <= 3 => ~flag["drain_"]
      <3>1. Stopping(c)'
        BY <2>1, <2>7, StoresTyped, EndsStep DEF Stopping
      <3>2. ~flag'["drain_"]
        BY <1>a, <2>1, <2>7, StopNext DEF Set, Flags
      <3>8. CASE Left(c)' > 0
        BY <2>2, <2>7, <3>1, <3>2, <3>8 DEF CommandInv
      <3>9. CASE Left(c)' = 0
        <4>1. OnlyArming(c)'
          BY <2>3, <3>9 DEF OnlyArming
        <4> QED BY <2>2, <2>7, <3>2, <4>1 DEF CommandInv, Patient
      <3> QED BY <2>3, <3>8, <3>9
    <2> QED BY <1>a, <2>4, <2>5, <2>6, <2>7
  <1>4. CASE TaskStep
    <2>1. UNCHANGED <<todo, grace, wish, since>>
      BY <1>4, TaskEffect
    <2>2. todo[c] = <<>>
      BY <1>4, <1>a DEF TaskStep, CheckDrain, FinishDrain, EmitState, EmitJoin, ReportWindow, Proceed
    <2>3. todo'[c] = <<>> /\ OnlyArming(c)'
      BY <2>1, <2>2 DEF OnlyArming
    <2>4. CASE Leave /\ ~wish /\ task_pc' # "delay"
      <3>1. ~flag'["drain_"]
        BY <2>4, LeaveEffect
      <3> QED BY <2>1, <2>3, <2>4, <3>1 DEF CommandInv, Patient
    <2>5. CASE /\ flag'["drain_"] = flag["drain_"] /\ flag'["enroll_"] = flag["enroll_"]
               /\ task_pc' = "delay" => ~wish
      <3>1. Patient' /\ (wish' => flag'["enroll_"] /\ ~flag'["drain_"])
        BY <1>b, <2>1, <2>2, <2>5 DEF Patient
      <3> QED BY <2>1, <2>3, <2>5, <3>1 DEF CommandInv
    <2>6. CASE CheckDrain
      <3>1. DrainOver => ~wish
        BY <1>b, <2>2 DEF DrainOver
      <3> QED BY <2>4, <2>5, <2>6, <3>1 DEF CheckDrain, Goto
    <2>7. CASE FinishDrain
      BY <1>a, <2>4, <2>7 DEF FinishDrain, Goto
    <2>8. CASE ~CheckDrain /\ ~FinishDrain
      <3>1. flag'["drain_"] = flag["drain_"] /\ flag'["enroll_"] = flag["enroll_"]
        BY <1>4, <2>8, TaskEffect
      <3>2. task_pc' # "delay"
        BY <1>4, <2>8 DEF TaskStep, EmitState, EmitJoin, ReportWindow, Proceed, Goto
      <3> QED BY <2>5, <3>1, <3>2
    <2> QED BY <2>6, <2>7, <2>8
  <1>5. CASE /\ UNCHANGED <<todo, task_pc, wish>>
             /\ Patient => Patient'
             /\ flag'["drain_"] = flag["drain_"] /\ flag'["enroll_"] = flag["enroll_"]
    BY <1>0, <1>a, <1>5 DEF CommandInv, Joining, Leaving, Stopping, OnlyArming, Left
  <1>6. CASE IsrStep
    <2>1. /\ UNCHANGED <<todo, task_pc, grace>>
          /\ flag'["drain_"] = flag["drain_"] /\ flag'["enroll_"] = flag["enroll_"]
      BY <1>6, IsrEffect
    <2>2. UNCHANGED <<wish, since>>
      BY <1>6 DEF IsrStep, Poll, RollcallElsewhere, RollcallReply, SessionGate, Isr
    <2>3. Patient => Patient'
      BY <2>1, <2>2 DEF Patient
    <2> QED BY <1>5, <2>1, <2>2, <2>3
  <1>7. CASE Tick
    <2>1. Patient => Patient'
      BY <1>7, BoundsAssumption DEF Tick, Patient, TypeOK
    <2> QED BY <1>5, <1>7, <2>1 DEF Tick
  <1>8. CASE UNCHANGED vars
    BY <1>5, <1>8 DEF vars, Patient
  <1> QED BY <1>1, <1>2, <1>3, <1>4, <1>6, <1>7, <1>8, Steps

-----------------------------------------------------------------------------
LEMMA InvInit == Init => IInv
  <1> SUFFICES ASSUME Init PROVE IInv
    OBVIOUS
  <1> USE DEF Init
  <1>1. TypeOK
    <2>1. todo \in [callers -> Seq(StoreOps)]
      BY EmptySeq
    <2>2. reported \in [armed : BOOLEAN, enroll : {"drain", "yes", "no"}]
      BY DEF Current, Enrollment, Flags
    <2>3. flag \in [Flags -> BOOLEAN]
      OBVIOUS
    <2>4. drain_polls \in 0 .. QuietPolls /\ task_pc \in TaskPcs
      BY DEF QuietPolls, TaskPcs
    <2>5. grace \in 0 .. Grace /\ since \in 0 .. Grace /\ calls \in 0 .. MaxCalls
      BY BoundsAssumption
    <2> QED BY <2>1, <2>2, <2>3, <2>4, <2>5 DEF TypeOK
  <1>2. \A c \in callers : todo[c] = <<>>
    OBVIOUS
  <1>3. TodoInv
    BY <1>2 DEF TodoInv, OnlyArming
  <1>4. ~wish /\ ~flag["drain_"]
    BY DEF Flags
  <1>5. JoinInv
    BY <1>4 DEF JoinInv
  <1>6. ReportInv
    BY <1>2 DEF ReportInv
  <1>7. MaskInv
    BY <1>2, <1>4 DEF MaskInv, OnlyArming
  <1>8. CommandInv
    BY <1>2, <1>4 DEF CommandInv, OnlyArming, Patient
  <1> QED BY <1>1, <1>3, <1>5, <1>6, <1>7, <1>8 DEF IInv

LEMMA InvStep == IInv /\ [Next]_vars => IInv'
  BY TypeStep, TodoStep, JoinStep, ReportStep, MaskStep, CommandStep DEF IInv

\* The invariant holds of every behaviour: whatever the task and the interrupt do
\* between two stores, what is left of a request tells what the words hold.
THEOREM Invariance == Spec => []IInv
  BY InvInit, InvStep, PTL DEF Spec

\* The state of the control plane keeps its types, and no drain's grace period ever
\* exceeds the one configured, for any callers, also with requests from both sides at once.
THEOREM TypeCorrect == Spec => []TypeOK
  <1>1. IInv => TypeOK
    BY DEF IInv
  <1> QED BY <1>1, Invariance, PTL

\* The join event is neither false nor swallowed, whoever makes the requests and
\* however their stores interleave with the task and the interrupt.
THEOREM JoinsAreCertified == Spec => []JoinCertified
  <1>1. IInv => JoinCertified
    <2> SUFFICES ASSUME IInv, Settled, wish, flag["join_logged_"] PROVE joined
      BY DEF JoinCertified
    <2>1. \A c \in callers : Left(c) = 0
      BY EmptySeq DEF Settled, Left
    <2> QED BY <2>1 DEF IInv, JoinInv
  <1> QED BY <1>1, Invariance, PTL

\* What clients were told last is the state, once a request is done and the dirty flag
\* is clear, in every behaviour whose requests come from one side.
THEOREM StateIsReported == Spec => [](OneSided => StateReported)
  <1>1. IInv => (OneSided => StateReported)
    BY DEF IInv, ReportInv, StateReported, Settled, Announces
  <1> QED BY <1>1, Invariance, PTL

\* While draining, the claim is down, in every behaviour whose requests come from one side.
THEOREM DrainsRenounce == Spec => [](OneSided => RenounceWhileDraining)
  <1>1. IInv => (OneSided => RenounceWhileDraining)
    BY DEF IInv, MaskInv, RenounceWhileDraining
  <1> QED BY <1>1, Invariance, PTL

\* Of two commands the last wins: after one to join the terminal stays enrolled.
THEOREM CommandsDoWin == Spec => []CommandsWin
  <1>1. IInv => CommandsWin
    <2> SUFFICES ASSUME IInv, callers = {"task"}, Settled, wish PROVE flag["enroll_"]
      BY DEF CommandsWin, LastWriterWins
    <2>1. todo["task"] = <<>> /\ Left("task") = 0
      BY EmptySeq DEF Settled, Left
    <2> QED BY <2>1 DEF IInv, CommandInv
  <1> QED BY <1>1, Invariance, PTL

\* A drain that a command began is not cut off before its grace period is over
\* unless the controller has let us go.
THEOREM CommandsAreGraceful == Spec => CommandsGraceful
  <1>1. IInv /\ [Next]_vars => [callers = {"task"} /\ DrainCutOff => since >= Grace]_<<task_pc, flag>>
    <2> SUFFICES ASSUME IInv, [Next]_vars, callers = {"task"}, DrainCutOff PROVE since >= Grace
      OBVIOUS
    <2>1. task_pc = "drain" /\ flag["drain_"] /\ ~flag'["drain_"] /\ TypeOK
      BY DEF DrainCutOff, IInv
    <2>2. todo["task"] = <<>>
      BY <2>1 DEF IInv, CommandInv
    <2>3. Left("task") = 0
      BY <2>2, EmptySeq DEF Left
    <2>4. Patient
      BY <2>3 DEF IInv, CommandInv
    <2>5. flag' # flag
      BY <2>1
    <2>6. ASSUME NEW c \in callers, Store(c) PROVE FALSE
      BY <2>1, <2>6 DEF Store, MayRun
    <2>7. CASE TaskStep
      <3>1. DrainOver /\ ~flag["drain_replied_"]
        BY <2>1, <2>5, <2>7
        DEF TaskStep, CheckDrain, FinishDrain, EmitState, EmitJoin, ReportWindow, Proceed
      <3> QED BY <2>1, <2>4, <3>1 DEF DrainOver, Patient, TypeOK
    <2>8. CASE IsrStep
      BY <2>1, <2>8, IsrEffect
    <2> QED BY <2>5, <2>6, <2>7, <2>8, Steps DEF set_enroll, set_armed, Request, Tick, vars
  <1> QED BY <1>1, Invariance, PTL DEF Spec, CommandsGraceful

=============================================================================
