--------------------------- MODULE PlanEditProofs ---------------------------
(***************************************************************************)
(* Proofs about the edit machine, for every page, route and request, and   *)
(* every choice of the waits and budgets.                                  *)
(*                                                                         *)
(* What an update of the machine keeps, what each state of tick returns,   *)
(* what the controller and the pump do, and the invariant; then which      *)
(* presses each state makes, what they meet, and that what is reported is  *)
(* true; last, that what a sweep publishes is on the screen, and that the  *)
(* selector is set to nothing but what the request asks for.               *)
(***************************************************************************)
EXTENDS PlanEdit, NavEngineProofs

-----------------------------------------------------------------------------
(* The invariant *)

\* The sub-states of a route step, by its kind, and the presses it has made.
StepInv(n) ==
  /\ n.step <= Len(route)
  /\ route[n.step].kind = "seek" =>
       n.rphase \in {0, 1} /\ (n.rphase = 1 => n.press < route[n.step].times)
  /\ n.press <= route[n.step].times \/ (n.confirm /\ n.step = 1)

\* An attempt is left while the machine works, the presses are within the bounds of the
\* state, the focus walk is before its field until the field is edited, and what is
\* about to be reported done is what was asked for.
MachineInv(n) ==
  /\ n \in Machines
  /\ n.st \notin {"IDLE", "TEARDOWN"} => n.attempt < Attempts
  /\ n.st = "ANCHOR" => n.press = 0 \/ n.confirm
  /\ n.st = "ROUTE" => StepInv(n)
  /\ n.st = "READ" => n.press = 0
  /\ n.st = "FOCUS" => n.field < Op(n).field
  /\ n.st = "EDIT" => n.press <= MaxPress /\ n.field = Op(n).field
  /\ n.st = "COMMIT" => n.field = Op(n).field
  /\ n.st = "SWEEP" => req.sweep /\ n.press <= 2 * req.expected + 2
  /\ n.st = "TEARDOWN" /\ n.ok => Fulfils(n)

\* A cursor menu shows one of its entries.
OnEntry(d) == d.page = "menu" => d.at \in 1 .. MenuN

Visiting == \E v \in Visits : req = v.req /\ route = v.route

UnderWay == [key : Keys, age : 0 .. Ttl]
InFlight == Seq(UnderWay)

Around ==
  /\ owed \in {"nothing", "page", "field"} /\ keys \in InFlight
  /\ calm \in BOOLEAN /\ lost \in BOOLEAN /\ passes \in 0 .. 2 /\ made \in 0 .. req.times

\* The callbacks of a step: a set is reported done with its target only.
Tells(d) == d.done /\ d.ok /\ Plain => req.ops[1].target \in {NoRow, d.value}
Calls == {d \in Callbacks : Tells(d)}

IInv ==
  /\ MachineInv(m) /\ Visiting /\ did \in Calls
  /\ dev \in Devices /\ OnEntry(dev) /\ scr \in Screens /\ OnEntry(scr)
  /\ Around

-----------------------------------------------------------------------------
(* The request *)

LEMMA Asking ==
  ASSUME Visiting
  PROVE  /\ Len(req.ops) \in Nat \ {0} /\ req.expected \in Nat /\ req.sweep \in BOOLEAN
         /\ req.times \in Nat \ {0} /\ req.clamp \subseteq Values
         /\ \A i \in 1 .. Len(req.ops) :
              /\ req.ops[i] \in EditOp /\ req.ops[i].field \in Fields /\ req.ops[i].num \in BOOLEAN
              /\ req.ops[i].target \in Readings
         /\ \A i, j \in 1 .. Len(req.ops) : i < j => req.ops[i].field < req.ops[j].field
  <1>1. PICK v \in Visits : req = v.req
    BY DEF Visiting
  <1>2. req \in Request /\ Walkable(req)
    BY <1>1, EditAssumption DEF Visit
  <1>3. req.ops \in Seq(EditOp) /\ req.ops # <<>>
    BY <1>2 DEF Request
  <1>4. Len(req.ops) \in Nat \ {0} /\ \A i \in 1 .. Len(req.ops) : req.ops[i] \in EditOp
    BY <1>3
  <1>5. ASSUME NEW i \in 1 .. Len(req.ops)
        PROVE  /\ req.ops[i].field \in Fields /\ req.ops[i].num \in BOOLEAN
               /\ req.ops[i].target \in Readings
    BY <1>4, <1>5 DEF EditOp
  <1>6. /\ req.expected \in Nat /\ req.sweep \in BOOLEAN /\ req.times \in Nat \ {0}
        /\ req.clamp \subseteq Values
    BY <1>2 DEF Request
  <1>7. \A i, j \in 1 .. Len(req.ops) : i < j => req.ops[i].field < req.ops[j].field
    BY <1>2 DEF Walkable
  <1> QED BY <1>4, <1>5, <1>6, <1>7

LEMMA Routing ==
  ASSUME Visiting
  PROVE  /\ Len(route) \in Nat \ {0}
         /\ \A i \in 1 .. Len(route) :
              /\ route[i] \in MacroStep /\ route[i].kind \in {"menu", "seek", "press"}
              /\ route[i].key \in Pressed /\ route[i].times \in Nat \ {0}
              /\ route[i].target \in 0 .. MenuN
  <1>1. PICK v \in Visits : route = v.route
    BY DEF Visiting
  <1>2. route \in Seq(MacroStep) /\ route # <<>>
    BY <1>1, EditAssumption DEF Visit
  <1>3. Len(route) \in Nat \ {0} /\ \A i \in 1 .. Len(route) : route[i] \in MacroStep
    BY <1>2
  <1> QED BY <1>3 DEF MacroStep, Pressed

-----------------------------------------------------------------------------
(* Updates of the machine *)

LEMMA Updates ==
  ASSUME NEW n \in Machines
  PROVE  /\ \A v \in States : [n EXCEPT !.st = v] \in Machines
         /\ \A v \in EngineStates : [n EXCEPT !.eng = v] \in Machines
         /\ \A v \in 0 .. Attempts : [n EXCEPT !.attempt = v] \in Machines
         /\ \A v \in 1 .. Len(route) + 1 : [n EXCEPT !.step = v] \in Machines
         /\ \A v \in 0 .. 3 : [n EXCEPT !.rphase = v] \in Machines
         /\ \A v \in Nat : [n EXCEPT !.press = v] \in Machines
         /\ \A v \in 1 .. Len(req.ops) : [n EXCEPT !.op = v] \in Machines
         /\ \A v \in 0 .. 3 : [n EXCEPT !.field = v] \in Machines
         /\ \A v \in BOOLEAN : [n EXCEPT !.confirm = v] \in Machines
         /\ \A v \in BOOLEAN : [n EXCEPT !.reversed = v] \in Machines
         /\ \A v \in BOOLEAN : [n EXCEPT !.ok = v] \in Machines
         /\ \A v \in Pages \cup {""} : [n EXCEPT !.page0 = v] \in Machines
         /\ \A v \in Readings : [n EXCEPT !.old = v] \in Machines
         /\ \A v \in Readings : [n EXCEPT !.cur = v] \in Machines
         /\ \A v \in Readings : [n EXCEPT !.estart = v] \in Machines
         /\ \A v \in 0 .. 2 : [n EXCEPT !.wphase = v] \in Machines
         /\ \A v \in Readings : [n EXCEPT !.wcand = v] \in Machines
         /\ \A v \in 0 .. Quiet : [n EXCEPT !.wq = v] \in Machines
         /\ \A v \in 0 .. Deadline : [n EXCEPT !.wdead = v] \in Machines
         /\ \A v \in 0 .. 2 : [n EXCEPT !.swphase = v] \in Machines
         /\ \A v \in BOOLEAN : [n EXCEPT !.down = v] \in Machines
         /\ \A v \in SUBSET Readings : [n EXCEPT !.seen = v] \in Machines
         /\ \A v \in BOOLEAN : [n EXCEPT !.resync = v] \in Machines
  BY ZenonT(60) DEF Machines

LEMMA Members ==
  ASSUME NEW n \in Machines
  PROVE  /\ n.st \in States /\ n.eng \in EngineStates /\ n.attempt \in 0 .. Attempts
         /\ n.step \in 1 .. Len(route) + 1 /\ n.rphase \in 0 .. 3 /\ n.press \in Nat
         /\ n.op \in 1 .. Len(req.ops) /\ n.field \in 0 .. 3 /\ n.confirm \in BOOLEAN
         /\ n.reversed \in BOOLEAN /\ n.ok \in BOOLEAN /\ n.page0 \in Pages \cup {""}
         /\ n.old \in Readings /\ n.cur \in Readings /\ n.estart \in Readings
         /\ n.wphase \in 0 .. 2 /\ n.wcand \in Readings /\ n.wq \in 0 .. Quiet
         /\ n.wdead \in 0 .. Deadline /\ n.swphase \in 0 .. 2 /\ n.down \in BOOLEAN
         /\ n.seen \subseteq Readings /\ n.resync \in BOOLEAN
  BY DEF Machines

LEMMA Constants ==
  /\ Quiet \in Nat /\ Verify \in Nat /\ SeekCheck \in Nat /\ PinGate \in Nat
  /\ Attempts \in Nat \ {0} /\ MaxPress \in Nat /\ Deadline \in Nat /\ Ttl \in Nat /\ Top \in Nat
  /\ 0 \in Values /\ NoRow \in Readings /\ Torn \in Readings /\ NearRows \subseteq Readings
  /\ Values \subseteq Readings
  BY EngineAssumption, EditAssumption DEF Readings, Values

\* Literals of the updates.
LEMMA Literals ==
  ASSUME Visiting
  PROVE  /\ TRUE \in BOOLEAN /\ FALSE \in BOOLEAN /\ 0 \in 0 .. 2 /\ 1 \in 0 .. 2 /\ 2 \in 0 .. 2
         /\ 0 \in 0 .. 3 /\ 1 \in 0 .. 3 /\ 2 \in 0 .. 3 /\ 3 \in 0 .. 3 /\ 0 \in Nat
         /\ 1 \in 1 .. Len(route) + 1 /\ 1 \in 1 .. Len(req.ops) /\ {} \in SUBSET Readings
         /\ 0 \in 0 .. Attempts /\ 0 \in 0 .. Quiet /\ 0 \in 0 .. Deadline /\ Deadline \in 0 .. Deadline
         /\ "" \in Pages \cup {""}
  BY Asking, Routing, Constants

LEMMA Words2 ==
  /\ "IDLE" \in States /\ "ANCHOR" \in States /\ "ROUTE" \in States /\ "READ" \in States
  /\ "FOCUS" \in States /\ "EDIT" \in States /\ "COMMIT" \in States /\ "SWEEP" \in States
  /\ "ABORT_ESC" \in States /\ "TEARDOWN" \in States
  BY DEF States

LEMMA IdleTyped ==
  ASSUME Visiting
  PROVE  MachineInv(Idle)
  <1>1. /\ Fresh \in EngineStates /\ "IDLE" \in States /\ NoRow \in Readings
    BY FreshTyped, Words2, Constants
  <1> QED BY <1>1, Literals, Asking DEF Idle, Machines, MachineInv

\* What the invariant asks of each state.
LEMMA InState ==
  ASSUME NEW n \in Machines
  PROVE  /\ n.st = "IDLE" => MachineInv(n)
         /\ n.st = "TEARDOWN" /\ (n.ok => Fulfils(n)) => MachineInv(n)
         /\ n.st = "ABORT_ESC" /\ n.attempt < Attempts => MachineInv(n)
         /\ n.st = "ANCHOR" /\ n.attempt < Attempts /\ (n.press = 0 \/ n.confirm) => MachineInv(n)
         /\ n.st = "ROUTE" /\ n.attempt < Attempts /\ StepInv(n) => MachineInv(n)
         /\ n.st = "READ" /\ n.attempt < Attempts /\ n.press = 0 => MachineInv(n)
         /\ n.st = "FOCUS" /\ n.attempt < Attempts /\ n.field < Op(n).field => MachineInv(n)
         /\ n.st = "EDIT" /\ n.attempt < Attempts /\ n.press <= MaxPress /\ n.field = Op(n).field
              => MachineInv(n)
         /\ n.st = "COMMIT" /\ n.attempt < Attempts /\ n.field = Op(n).field => MachineInv(n)
         /\ n.st = "SWEEP" /\ req.sweep /\ n.attempt < Attempts /\ n.press <= 2 * req.expected + 2
              => MachineInv(n)
  BY DEF MachineInv

-----------------------------------------------------------------------------
(* The outcome paths *)

LEMMA ResetTyped ==
  ASSUME Visiting, NEW n \in Machines
  PROVE  /\ reset_edit(n) \in Machines /\ reset_edit(n).press = 0 /\ reset_edit(n).st = n.st
         /\ reset_edit(n).attempt = n.attempt /\ reset_edit(n).confirm = n.confirm
         /\ reset_edit(n).cur = n.cur
  <1>1. reset_edit(n) \in Machines
    <2>1. Fresh \in EngineStates
      BY FreshTyped
    <2> QED BY <2>1, Literals, Updates, Zenon DEF reset_edit
  <1>2. /\ reset_edit(n).press = 0 /\ reset_edit(n).st = n.st
        /\ reset_edit(n).attempt = n.attempt /\ reset_edit(n).confirm = n.confirm
        /\ reset_edit(n).cur = n.cur
    BY DEF reset_edit, Machines
  <1> QED BY <1>1, <1>2

LEMMA FinishInv ==
  ASSUME Visiting, NEW n \in Machines, NEW ok \in BOOLEAN, ok => Fulfils(n)
  PROVE  MachineInv(finish(n, ok)) /\ finish(n, ok).st = "TEARDOWN"
  <1> DEFINE k == reset_edit(n)
             f == [k EXCEPT !.st = "TEARDOWN", !.ok = ok]
  <1>1. k \in Machines /\ k.cur = n.cur
    BY ResetTyped
  <1> HIDE DEF k
  <1>2. f \in Machines
    BY <1>1, Words2, Updates, Zenon
  <1>3. f.st = "TEARDOWN" /\ f.ok = ok /\ f.cur = n.cur
    BY <1>1 DEF Machines
  <1>4. finish(n, ok) = f
    BY DEF finish, k
  <1> HIDE DEF f
  <1>5. f.ok => Fulfils(f)
    BY <1>3 DEF Fulfils
  <1> QED BY <1>2, <1>3, <1>4, <1>5, InState

LEMMA FailInv ==
  ASSUME Visiting, NEW n \in Machines
  PROVE  MachineInv(fail(n)) /\ fail(n).st = "TEARDOWN"
  BY FinishInv DEF fail

\* Resetting, into a state that only asks for an attempt left.
LEMMA RestartInv ==
  ASSUME Visiting, NEW n \in Machines, NEW a \in 0 .. Attempts, a < Attempts
  PROVE  /\ MachineInv([reset_edit(n) EXCEPT !.st = "ANCHOR", !.attempt = a])
         /\ [reset_edit(n) EXCEPT !.st = "ANCHOR", !.attempt = a].st = "ANCHOR"
         /\ n.attempt < Attempts => MachineInv(abort(n)) /\ abort(n).st = "ABORT_ESC"
  <1> DEFINE k == reset_edit(n)
             r == [k EXCEPT !.st = "ANCHOR", !.attempt = a]
             b == [k EXCEPT !.st = "ABORT_ESC"]
  <1>1. k \in Machines /\ k.press = 0 /\ k.attempt = n.attempt
    BY ResetTyped
  <1>2. abort(n) = b
    BY DEF abort
  <1> HIDE DEF k
  <1>3. r \in Machines /\ b \in Machines
    BY <1>1, Words2, Updates, Zenon
  <1>4. r.st = "ANCHOR" /\ r.attempt = a /\ r.press = 0 /\ b.st = "ABORT_ESC" /\ b.attempt = n.attempt
    BY <1>1 DEF Machines
  <1> HIDE DEF r, b
  <1>5. MachineInv(r) /\ (n.attempt < Attempts => MachineInv(b))
    BY <1>3, <1>4, InState
  <1> QED BY <1>2, <1>4, <1>5 DEF r, k

LEMMA AbortInv ==
  ASSUME Visiting, NEW n \in Machines, n.attempt < Attempts
  PROVE  MachineInv(abort(n)) /\ abort(n).st = "ABORT_ESC"
  BY RestartInv, Members

LEMMA RetryInv ==
  ASSUME Visiting, NEW n \in Machines, n.attempt < Attempts
  PROVE  MachineInv(retry(n)) /\ retry(n).st \in {"ANCHOR", "TEARDOWN"}
  <1> DEFINE k == [n EXCEPT !.attempt = n.attempt + 1]
  <1>0. n.attempt \in 0 .. Attempts /\ Attempts \in Nat \ {0}
    BY Members, Constants
  <1>1. n.attempt + 1 \in 0 .. Attempts
    BY <1>0
  <1>2. CASE n.attempt + 1 >= Attempts
    <2>1. k \in Machines
      BY <1>1, Updates
    <2>2. retry(n) = fail(k)
      BY <1>2 DEF retry
    <2> HIDE DEF k
    <2> QED BY <2>1, <2>2, FailInv
  <1>3. CASE ~(n.attempt + 1 >= Attempts)
    <2> DEFINE r == reset_edit(n)
    <2>1. r.attempt = n.attempt
      BY ResetTyped
    <2>2. retry(n) = [r EXCEPT !.st = "ANCHOR", !.attempt = r.attempt + 1]
      BY <1>3 DEF retry
    <2>3. n.attempt + 1 < Attempts
      BY <1>0, <1>3
    <2> HIDE DEF r
    <2>4. retry(n) = [r EXCEPT !.st = "ANCHOR", !.attempt = n.attempt + 1]
      BY <2>1, <2>2
    <2> QED BY <1>1, <2>3, <2>4, RestartInv DEF r
  <1> QED BY <1>2, <1>3

-----------------------------------------------------------------------------
(* Reading the screen *)

World == /\ Visiting /\ scr \in Screens /\ OnEntry(scr) /\ dev \in Devices /\ OnEntry(dev)
         /\ calm \in BOOLEAN

LEMMA Rows ==
  ASSUME World, NEW n \in Machines
  PROVE  /\ Row(n) \in Readings /\ Op(n).field \in Fields /\ Op(n).num \in BOOLEAN
         /\ Op(n).target \in Readings /\ scr.page \in Pages
  <1>1. n.op \in 1 .. Len(req.ops)
    BY Members
  <1>2. Op(n).field \in Fields /\ Op(n).num \in BOOLEAN /\ Op(n).target \in Readings
    BY <1>1, Asking DEF World, Op
  <1>3. scr.row \in [Fields -> Readings] /\ scr.page \in Pages
    BY DEF World, Screens
  <1> QED BY <1>2, <1>3 DEF Row

LEMMA LookTyped ==
  ASSUME World, NEW holds \in BOOLEAN, NEW noise \in BOOLEAN
  PROVE  Look(holds, noise) \in Looks
  <1>1. (IF scr.page = "menu" THEN scr.at ELSE 1) \in 1 .. MenuN
    BY EngineAssumption DEF World, OnEntry
  <1>2. (calm /\ ~noise) \in BOOLEAN
    OBVIOUS
  <1> QED BY <1>1, <1>2 DEF Look, Looks

-----------------------------------------------------------------------------
(* The route *)

\* The same step of the same attempt.
Placed(n, k) ==
  k \in Machines /\ k.st = n.st /\ k.step = n.step /\ k.attempt = n.attempt /\ k.confirm = n.confirm

Moved(n, k, r, p) == Placed(n, k) /\ k.rphase = r /\ k.press = p

LEMMA MovesEngine ==
  ASSUME NEW n \in Machines, NEW e \in EngineStates
  PROVE  Moved(n, [n EXCEPT !.eng = e], n.rphase, n.press)
  <1>1. [n EXCEPT !.eng = e] \in Machines
    BY Updates, Zenon
  <1> QED BY <1>1 DEF Machines, Placed, Moved

LEMMA MovesPhase ==
  ASSUME NEW n \in Machines, NEW r \in 0 .. 3
  PROVE  Moved(n, [n EXCEPT !.rphase = r], r, n.press)
  <1>1. [n EXCEPT !.rphase = r] \in Machines
    BY Updates, Zenon
  <1> QED BY <1>1 DEF Machines, Placed, Moved

LEMMA MovesOn ==
  ASSUME NEW n \in Machines, NEW e \in EngineStates, NEW r \in 0 .. 3
  PROVE  Moved(n, [n EXCEPT !.eng = e, !.rphase = r], r, n.press)
  <1>1. [n EXCEPT !.eng = e, !.rphase = r] \in Machines
    BY Updates, Zenon
  <1> QED BY <1>1 DEF Machines, Placed, Moved

LEMMA MovesPress ==
  ASSUME NEW n \in Machines, NEW e \in EngineStates, NEW p \in Nat
  PROVE  Moved(n, [n EXCEPT !.eng = e, !.press = p], n.rphase, p)
  <1>1. [n EXCEPT !.eng = e, !.press = p] \in Machines
    BY Updates, Zenon
  <1> QED BY <1>1 DEF Machines, Placed, Moved

LEMMA MovesAll ==
  ASSUME NEW n \in Machines, NEW e \in EngineStates, NEW p \in Nat, NEW r \in 0 .. 3
  PROVE  Moved(n, [n EXCEPT !.eng = e, !.press = p, !.rphase = r], r, p)
  <1>1. [n EXCEPT !.eng = e, !.press = p, !.rphase = r] \in Machines
    BY Updates, Zenon
  <1> QED BY <1>1 DEF Machines, Placed, Moved

\* An outcome of a step of the route: the step goes on, or is over.
Runner(n, o) ==
  /\ o.r \in Results /\ o.press \in Pressed
  /\ Placed(n, o.n) /\ (StepInv(n) => StepInv(o.n))

LEMMA ViaRunner ==
  ASSUME NEW n \in Machines, NEW o \in Outcomes
  PROVE  Runner(n, Via(n, o)) /\ Runner(n, [Via(n, o) EXCEPT !.r = "RUN"]) /\ Runner(n, Fail([n EXCEPT !.eng = o.n]))
  <1> DEFINE k == [n EXCEPT !.eng = o.n]
  <1>1. o.r \in Results /\ o.n \in EngineStates /\ o.press \in Pressed
    BY OutcomeFields
  <1>2. Placed(n, k) /\ k.rphase = n.rphase /\ k.press = n.press
    BY <1>1, MovesEngine DEF Moved
  <1>3. Via(n, o) = [r |-> o.r, n |-> k, press |-> o.press]
    BY DEF Via, Out
  <1> HIDE DEF k
  <1>4. StepInv(n) => StepInv(k)
    BY <1>2 DEF StepInv, Placed
  <1> QED BY <1>1, <1>2, <1>3, <1>4, Words DEF Runner, Fail, Out, k

LEMMA RunRunner ==
  ASSUME NEW n \in Machines, NEW k, Placed(n, k), StepInv(n) => StepInv(k)
  PROVE  Runner(n, Run(k))
  BY Words DEF Runner, Run, Out

LEMMA SeekRunner ==
  ASSUME World, NEW n \in Machines, StepInv(n), NEW s, s = route[n.step], s.kind = "seek",
         NEW look \in Looks
  PROVE  Runner(n, seek_run(n, s, look))
  <1> DEFINE check == step(n.eng, NoKey, look, SeekCheck, FALSE)
             move == step(n.eng, s.key, Sure(look), 0, TRUE)
             k1 == [n EXCEPT !.eng = check.n, !.rphase = 1]
             k2 == [n EXCEPT !.eng = move.n, !.press = n.press + 1, !.rphase = 0]
             out == seek_run(n, s, look)
  <1>1. /\ n.step \in 1 .. Len(route) /\ s.times \in Nat \ {0} /\ s.key \in Pressed
        /\ n.rphase \in {0, 1} /\ (n.rphase = 1 => n.press < s.times) /\ n.press \in Nat
        /\ n.eng \in EngineStates
    <2>1. n.step \in 1 .. Len(route) + 1 /\ n.press \in Nat /\ n.eng \in EngineStates
      BY Members
    <2>2. Len(route) \in Nat /\ n.step <= Len(route)
      BY Routing DEF World, StepInv
    <2>3. n.step \in 1 .. Len(route)
      BY <2>1, <2>2
    <2>4. s.times \in Nat \ {0} /\ s.key \in Pressed
      BY <2>3, Routing DEF World
    <2> QED BY <2>1, <2>3, <2>4 DEF StepInv
  <1>2. check \in Outcomes /\ move \in Outcomes
    BY <1>1, StepOut, SureTyped, Words, EngineAssumption DEF StepResult
  <1>3. out = CASE n.rphase = 0 /\ check.r = "FAIL" /\ n.press < s.times    -> Run(k1)
                [] n.rphase = 0 /\ ~(check.r = "FAIL" /\ n.press < s.times) -> Via(n, check)
                [] n.rphase = 1 /\ move.r = "OK" -> Run(k2)
                [] n.rphase = 1 /\ move.r # "OK" -> [Via(n, move) EXCEPT !.r = "RUN"]
    BY DEF seek_run
  <1> SUFFICES Runner(n, out)
    OBVIOUS
  <1> HIDE DEF check, move, out
  <1>4. check.n \in EngineStates /\ move.n \in EngineStates /\ 0 \in 0 .. 3 /\ 1 \in 0 .. 3 /\ n.press + 1 \in Nat
    BY <1>1, <1>2, OutcomeFields
  <1>5. Moved(n, k1, 1, n.press) /\ Moved(n, k2, 0, n.press + 1)
    BY <1>4, MovesOn, MovesAll, Zenon
  <1> HIDE DEF k1, k2
  <1>6. CASE n.rphase = 0 /\ check.r = "FAIL" /\ n.press < s.times
    <2>1. out = Run(k1)
      BY <1>3, <1>6
    <2>2. Placed(n, k1) /\ StepInv(k1)
      BY <1>1, <1>5, <1>6 DEF StepInv, Moved, Placed
    <2> QED BY <2>1, <2>2, RunRunner
  <1>7. CASE n.rphase = 0 /\ ~(check.r = "FAIL" /\ n.press < s.times)
    <2>1. out = Via(n, check)
      BY <1>3, <1>7
    <2> QED BY <1>2, <2>1, ViaRunner
  <1>8. CASE n.rphase = 1 /\ move.r = "OK"
    <2>1. out = Run(k2)
      BY <1>3, <1>8
    <2>2. Placed(n, k2) /\ StepInv(k2)
      BY <1>1, <1>5, <1>8 DEF StepInv, Moved, Placed
    <2> QED BY <2>1, <2>2, RunRunner
  <1>9. CASE n.rphase = 1 /\ move.r # "OK"
    <2>1. out = [Via(n, move) EXCEPT !.r = "RUN"]
      BY <1>3, <1>9
    <2> QED BY <1>2, <2>1, ViaRunner
  <1> QED BY <1>1, <1>6, <1>7, <1>8, <1>9

\* Where the step under way is, and what its members are.
LEMMA AtStep ==
  ASSUME World, NEW n \in Machines, StepInv(n)
  PROVE  /\ n.step \in 1 .. Len(route) /\ Len(route) \in Nat /\ route[n.step] \in MacroStep
         /\ route[n.step].kind \in {"menu", "seek", "press"} /\ route[n.step].key \in Pressed
         /\ route[n.step].times \in Nat \ {0} /\ route[n.step].target \in 0 .. MenuN
         /\ n.rphase \in 0 .. 3 /\ n.press \in Nat /\ n.eng \in EngineStates
  <1>1. n.step \in 1 .. Len(route) + 1
    BY Members
  <1>2. Len(route) \in Nat /\ n.step <= Len(route)
    BY Routing DEF World, StepInv
  <1>3. n.step \in 1 .. Len(route)
    BY <1>1, <1>2
  <1> QED BY <1>2, <1>3, Members, Routing DEF World

LEMMA PressRunner ==
  ASSUME World, NEW n \in Machines, StepInv(n), NEW s, s = route[n.step], s.kind = "press",
         NEW look \in Looks
  PROVE  Runner(n, press_run(n, s, look))
  <1> DEFINE move == step(n.eng, s.key, Sure(look), 0, TRUE)
             gate == step(n.eng, NoKey, look, PinGate, FALSE)
             pin == pin_tick(n.eng, look)
             verify == step(n.eng, NoKey, look, Verify, FALSE)
             next == IF s.pin THEN 1 ELSE 3
             k0 == [n EXCEPT !.rphase = next]
             k1 == [n EXCEPT !.eng = move.n, !.press = n.press + 1]
             k2 == [n EXCEPT !.eng = gate.n, !.rphase = 2]
             k3 == [n EXCEPT !.eng = gate.n, !.rphase = 3]
             k4 == [n EXCEPT !.eng = pin.n, !.rphase = 3]
             k5 == [n EXCEPT !.eng = gate.n]
             out == press_run(n, s, look)
  <1>1. /\ s.times \in Nat \ {0} /\ s.key \in Pressed /\ s.kind # "seek"
        /\ n.rphase \in 0 .. 3 /\ n.press \in Nat /\ n.eng \in EngineStates
    BY AtStep
  <1>2. move \in Outcomes /\ gate \in Outcomes /\ verify \in Outcomes
    BY <1>1, StepOut, SureTyped, Words, EngineAssumption DEF StepResult
  <1>3. pin \in Outcomes
    BY <1>1, PinTickOut DEF Verified
  <1>4. out = CASE n.rphase = 0 /\ n.press >= s.times -> Run(k0)
                [] n.rphase = 0 /\ n.press < s.times ->
                     IF move.r = "OK" THEN Run(k1) ELSE [Via(n, move) EXCEPT !.r = "RUN"]
                [] n.rphase = 1 /\ gate.r = "RUN"  -> Via(n, gate)
                [] n.rphase = 1 /\ gate.r = "OK" /\ Configured  -> Run(k2)
                [] n.rphase = 1 /\ gate.r = "OK" /\ ~Configured -> Fail(k5)
                [] n.rphase = 1 /\ gate.r = "FAIL" -> Run(k3)
                [] n.rphase = 2 -> IF pin.r = "OK" THEN Run(k4) ELSE Via(n, pin)
                [] n.rphase = 3 -> Via(n, verify)
    BY DEF press_run
  <1> SUFFICES Runner(n, out)
    OBVIOUS
  <1> HIDE DEF move, gate, pin, verify, out
  <1>5. /\ move.n \in EngineStates /\ gate.n \in EngineStates /\ pin.n \in EngineStates
        /\ next \in 0 .. 3 /\ 2 \in 0 .. 3 /\ 3 \in 0 .. 3 /\ n.press + 1 \in Nat /\ gate.r \in Results
    BY <1>1, <1>2, <1>3, OutcomeFields
  <1> HIDE DEF next
  <1>6. /\ Moved(n, k0, next, n.press) /\ Moved(n, k1, n.rphase, n.press + 1)
        /\ Moved(n, k2, 2, n.press) /\ Moved(n, k3, 3, n.press) /\ Moved(n, k4, 3, n.press)
    BY <1>5, MovesPhase, MovesPress, MovesOn, Zenon
  <1> HIDE DEF k0, k1, k2, k3, k4
  <1>7. ASSUME NEW k, NEW r, Moved(n, k, r, n.press) PROVE Runner(n, Run(k))
    <2>1. Placed(n, k) /\ StepInv(k)
      BY <1>1, <1>7 DEF StepInv, Moved, Placed
    <2> QED BY <2>1, RunRunner
  <1>8. CASE n.rphase = 0 /\ n.press >= s.times
    <2>0. n.rphase = 0 /\ n.press >= s.times /\ ~(n.press < s.times)
      BY <1>1, <1>8
    <2>1. out = Run(k0)
      BY <1>4, <2>0
    <2> QED BY <1>6, <1>7, <2>1
  <1>9. CASE n.rphase = 0 /\ n.press < s.times
    <2>1. n.rphase = 0 /\ n.press < s.times /\ ~(n.press >= s.times)
      BY <1>1, <1>9
    <2>2. out = IF move.r = "OK" THEN Run(k1) ELSE [Via(n, move) EXCEPT !.r = "RUN"]
      BY <1>4, <2>1
    <2>3. Placed(n, k1) /\ StepInv(k1)
      BY <1>1, <1>6, <1>9 DEF StepInv, Moved, Placed
    <2> QED BY <1>2, <2>2, <2>3, RunRunner, ViaRunner
  <1>10. CASE n.rphase = 1
    <2>1. out \in {Via(n, gate), Run(k2), Run(k3), Fail(k5)}
      BY <1>4, <1>5, <1>10 DEF Results
    <2> QED BY <1>2, <1>6, <1>7, <2>1, ViaRunner DEF k5
  <1>11. CASE n.rphase = 2
    <2>1. out \in {Run(k4), Via(n, pin)}
      BY <1>4, <1>11
    <2> QED BY <1>3, <1>6, <1>7, <2>1, ViaRunner
  <1>12. CASE n.rphase = 3
    <2>1. out = Via(n, verify)
      BY <1>4, <1>12
    <2> QED BY <1>2, <2>1, ViaRunner
  <1> QED BY <1>1, <1>8, <1>9, <1>10, <1>11, <1>12

LEMMA StepRunner ==
  ASSUME World, NEW n \in Machines, StepInv(n), NEW noise \in BOOLEAN
  PROVE  Runner(n, step_run(n, route[n.step], noise))
  <1> DEFINE s == route[n.step]
             holds == IF s.kind = "press" /\ n.rphase \in {1, 2} THEN GateShows(n) ELSE Expects(s)
             look == Look(holds, noise)
             menu == MenuShows(n.eng, s.target)
  <1>1. s.kind \in {"menu", "seek", "press"} /\ s.target \in 0 .. MenuN /\ n.eng \in EngineStates
    BY AtStep
  <1>2. holds \in BOOLEAN /\ menu \in BOOLEAN
    BY Zenon DEF GateShows, Expects, MenuShows
  <1>3. look \in Looks /\ Look(menu, noise) \in Looks
    <2> HIDE DEF holds, menu
    <2> QED BY <1>2, LookTyped
  <1>4. CASE s.kind = "menu"
    <2> DEFINE o == menu_select(n.eng, Look(menu, noise), s.target, TRUE)
    <2>1. step_run(n, s, noise) = Via(n, o)
      BY <1>4 DEF step_run
    <2> HIDE DEF menu, s
    <2>2. o \in Outcomes
      BY <1>1, <1>3, MenuSelectOut DEF Verified
    <2> HIDE DEF o
    <2> QED BY <2>1, <2>2, ViaRunner DEF s
  <1>5. CASE s.kind = "seek"
    <2>1. step_run(n, s, noise) = seek_run(n, s, look)
      BY <1>5 DEF step_run
    <2> HIDE DEF look
    <2> QED BY <1>3, <1>5, <2>1, SeekRunner
  <1>6. CASE s.kind = "press"
    <2>1. step_run(n, s, noise) = press_run(n, s, look)
      BY <1>6 DEF step_run
    <2> HIDE DEF look
    <2> QED BY <1>3, <1>6, <2>1, PressRunner
  <1> QED BY <1>1, <1>4, <1>5, <1>6

-----------------------------------------------------------------------------
(* A pass of the main loop *)

Good(p) == MachineInv(p.m) /\ p.press \in Pressed /\ p.did \in Calls

\* Most passes do not set out to commit.
Fine(p) == Good(p) /\ p.m.st # "COMMIT"

\* Others set out when the row on the screen reads the target.
Aimed(k) == k.st = "COMMIT" => Row(k) \in {NoRow, Op(k).target}
Aims(n, k) == SetsOut(n, k) => Row(k) \in {NoRow, Op(k).target}

LEMMA ResGood ==
  ASSUME NEW n, MachineInv(n), NEW press \in Pressed, NEW calls \in Calls
  PROVE  Good(Res(n, press, calls)) /\ (n.st # "COMMIT" => Fine(Res(n, press, calls)))
  BY DEF Good, Fine, Res

LEMMA Silent ==
  /\ Nothing \in Calls /\ [Nothing EXCEPT !.snap = TRUE] \in Calls
  /\ \A v \in Readings : [Nothing EXCEPT !.sweep = v] \in Calls
  /\ \A ok \in BOOLEAN, v \in Readings :
       (ok /\ Plain => req.ops[1].target \in {NoRow, v})
         => [Nothing EXCEPT !.done = TRUE, !.ok = ok, !.value = v] \in Calls
  BY Constants DEF Nothing, Callbacks, Calls, Tells

LEMMA Told ==
  ASSUME req' = req, did' \in Calls
  PROVE  (did \in Calls)'
  BY DEF Calls, Tells, Plain

LEMMA GoesGood ==
  ASSUME NEW n, MachineInv(n)
  PROVE  Good(Goes(n)) /\ (n.st # "COMMIT" => Fine(Goes(n)))
  BY ResGood, Silent, Words DEF Goes

\* The engine's sub-state is its own.
LEMMA EngineInv ==
  ASSUME NEW n, MachineInv(n), NEW e \in EngineStates
  PROVE  MachineInv([n EXCEPT !.eng = e]) /\ [n EXCEPT !.eng = e].st = n.st
  <1> DEFINE k == [n EXCEPT !.eng = e]
  <1>1. n \in Machines /\ k \in Machines
    BY Updates, Zenon DEF MachineInv
  <1>2. /\ k.st = n.st /\ k.attempt = n.attempt /\ k.press = n.press /\ k.confirm = n.confirm
        /\ k.step = n.step /\ k.rphase = n.rphase /\ k.field = n.field /\ k.op = n.op
        /\ k.cur = n.cur /\ k.ok = n.ok
    BY <1>1 DEF Machines
  <1>3. Op(k) = Op(n) /\ (StepInv(n) <=> StepInv(k)) /\ (Fulfils(n) <=> Fulfils(k))
    BY <1>2 DEF Op, StepInv, Fulfils
  <1> HIDE DEF k
  <1>4. MachineInv(k)
    BY <1>1, <1>2, <1>3 DEF MachineInv
  <1> QED BY <1>2, <1>4 DEF k

LEMMA StaysGood ==
  ASSUME NEW n, MachineInv(n), NEW o \in Outcomes
  PROVE  Good(Stays(n, o)) /\ (n.st # "COMMIT" => Fine(Stays(n, o)))
  BY EngineInv, ResGood, Silent, OutcomeFields DEF Stays

LEMMA AnchorPass ==
  ASSUME World, NEW n, MachineInv(n), n.st = "ANCHOR", NEW noise \in BOOLEAN
  PROVE  Fine(Anchor(n, noise))
  <1> DEFINE at == scr.page = "anchor"
             look == Look(at, noise)
             o == esc_anchor(n.eng, look, n.resync)
             again == n.resync /\ o.r = "RUN"
             next == [n EXCEPT !.eng = o.n, !.resync = again]
             on == [next EXCEPT !.st = "ROUTE", !.step = 1, !.rphase = 0]
             out == Anchor(n, noise)
  <1>1. n \in Machines /\ n.attempt < Attempts /\ (n.press = 0 \/ n.confirm)
    BY DEF MachineInv
  <1>2. /\ n.eng \in EngineStates /\ n.resync \in BOOLEAN /\ n.press \in Nat
        /\ n.confirm \in BOOLEAN
    BY <1>1, Members
  <1>3. at \in BOOLEAN
    OBVIOUS
  <1>4. look \in Looks
    <2> HIDE DEF at
    <2> QED BY <1>3, LookTyped
  <1>5. out = CASE o.r = "RUN"  -> Res(next, o.press, Nothing)
                [] o.r = "OK"   -> Goes(on)
                [] o.r = "FAIL" -> Goes(retry(next))
    BY DEF Anchor
  <1> SUFFICES Fine(out)
    OBVIOUS
  <1> HIDE DEF look, out
  <1>6. o \in Outcomes
    BY <1>2, <1>4, EscAnchorOut DEF AnchorOut, Verified
  <1> HIDE DEF o
  <1>7. o.r \in Results /\ o.n \in EngineStates /\ o.press \in Pressed /\ again \in BOOLEAN
    BY <1>6, OutcomeFields
  <1> HIDE DEF again
  <1>8. next \in Machines
    BY <1>1, <1>7, Updates, Zenon
  <1>9. /\ next.st = "ANCHOR" /\ next.attempt = n.attempt /\ next.press = n.press
        /\ next.confirm = n.confirm
    BY <1>1 DEF Machines
  <1> HIDE DEF next
  <1>10. on \in Machines
    BY <1>8, Words2, Literals, Updates, Zenon DEF World
  <1>11. /\ on.st = "ROUTE" /\ on.attempt = n.attempt /\ on.press = n.press /\ on.confirm = n.confirm
         /\ on.step = 1 /\ on.rphase = 0
    BY <1>8, <1>9 DEF Machines
  <1> HIDE DEF on
  <1>12. StepInv(on)
    <2>1. Len(route) \in Nat \ {0}
      BY Routing DEF World
    <2>2. 1 \in 1 .. Len(route)
      BY <2>1
    <2>3. route[1].times \in Nat \ {0}
      BY <2>2, Routing DEF World
    <2> QED BY <1>1, <1>2, <1>11, <2>1, <2>3 DEF StepInv
  <1>13. /\ MachineInv(next) /\ MachineInv(on) /\ MachineInv(retry(next))
         /\ retry(next).st \in {"ANCHOR", "TEARDOWN"}
    BY <1>1, <1>8, <1>9, <1>10, <1>11, <1>12, InState, RetryInv DEF World
  <1>14. Fine(Res(next, o.press, Nothing)) /\ Fine(Goes(on)) /\ Fine(Goes(retry(next)))
    BY <1>7, <1>9, <1>11, <1>13, ResGood, GoesGood, Silent
  <1> QED BY <1>5, <1>7, <1>14 DEF Results

LEMMA RoutePass ==
  ASSUME World, NEW n, MachineInv(n), n.st = "ROUTE", NEW noise \in BOOLEAN
  PROVE  Fine(Route(n, noise))
  <1> DEFINE o == step_run(n, route[n.step], noise)
             k == o.n
             next == [k EXCEPT !.step = k.step + 1, !.rphase = 0, !.press = 0]
             read == [next EXCEPT !.st = "READ"]
             out == Route(n, noise)
  <1>1. n \in Machines /\ n.attempt < Attempts /\ StepInv(n)
    BY DEF MachineInv
  <1>2. Runner(n, o)
    BY <1>1, StepRunner
  <1>3. out = CASE o.r = "RUN"  -> Res(k, o.press, Nothing)
                [] o.r = "FAIL" -> Goes(retry(k))
                [] o.r = "OK"   -> Goes(IF n.step = Len(route) THEN read ELSE next)
    BY DEF Route
  <1> SUFFICES Fine(out)
    OBVIOUS
  <1>4. /\ o.r \in Results /\ o.press \in Pressed /\ k \in Machines /\ k.st = "ROUTE"
        /\ k.step = n.step /\ k.attempt = n.attempt /\ k.confirm = n.confirm /\ StepInv(k)
    BY <1>1, <1>2 DEF Runner, Placed
  <1> HIDE DEF k, out
  <1>5. n.step \in 1 .. Len(route) /\ Len(route) \in Nat
    BY <1>1, AtStep
  <1>6. k.step + 1 \in 1 .. Len(route) + 1
    BY <1>4, <1>5
  <1>7. next \in Machines
    BY <1>4, <1>6, Literals, Updates, Zenon DEF World
  <1>8. /\ next.st = "ROUTE" /\ next.attempt = n.attempt /\ next.step = n.step + 1
        /\ next.rphase = 0 /\ next.press = 0
    BY <1>4 DEF Machines
  <1> HIDE DEF next
  <1>9. read \in Machines
    BY <1>7, Words2, Updates
  <1>10. read.st = "READ" /\ read.attempt = n.attempt /\ read.press = 0
    BY <1>7, <1>8 DEF Machines
  <1> HIDE DEF read
  <1>11. CASE o.r = "RUN"
    <2>1. MachineInv(k)
      BY <1>1, <1>4, InState
    <2> QED BY <1>3, <1>4, <1>11, <2>1, ResGood, Silent
  <1>12. CASE o.r = "FAIL"
    <2>1. MachineInv(retry(k)) /\ retry(k).st \in {"ANCHOR", "TEARDOWN"}
      BY <1>1, <1>4, RetryInv DEF World
    <2> QED BY <1>3, <1>12, <2>1, GoesGood
  <1>13. CASE o.r = "OK" /\ n.step = Len(route)
    <2>1. MachineInv(read)
      BY <1>1, <1>9, <1>10, InState
    <2> QED BY <1>3, <1>10, <1>13, <2>1, GoesGood
  <1>14. CASE o.r = "OK" /\ n.step # Len(route)
    <2>1. n.step + 1 \in 1 .. Len(route)
      BY <1>5, <1>14
    <2>2. route[n.step + 1].times \in Nat \ {0}
      BY <2>1, Routing DEF World
    <2>3. StepInv(next)
      BY <1>8, <2>1, <2>2 DEF StepInv
    <2>4. MachineInv(next)
      BY <1>1, <1>7, <1>8, <2>3, InState
    <2> QED BY <1>3, <1>8, <1>14, <2>4, GoesGood
  <1> QED BY <1>4, <1>11, <1>12, <1>13, <1>14 DEF Results

-----------------------------------------------------------------------------
(* Reading the value, focusing the field *)

\* A plain request has one operation.
LEMMA OneOp ==
  ASSUME Visiting, NEW n \in Machines, Plain
  PROVE  Op(n) = req.ops[1]
  <1>1. n.op \in 1 .. Len(req.ops) /\ Len(req.ops) = 1
    BY Members DEF Plain
  <1>2. n.op = 1
    BY <1>1
  <1> QED BY <1>2 DEF Op

LEMMA ShowsFulfils ==
  ASSUME Visiting, NEW n \in Machines, Shows(n, n.cur)
  PROVE  Fulfils(n)
  BY OneOp DEF Shows, Fulfils

LEMMA ConfirmedInv ==
  ASSUME World, NEW n \in Machines
  PROVE  MachineInv(Confirmed(n)) /\ Confirmed(n).st = "TEARDOWN"
  <1> DEFINE shows == Shows(n, n.cur)
             k == [n EXCEPT !.confirm = FALSE]
  <1>1. shows \in BOOLEAN
    BY Zenon DEF Shows
  <1>2. k \in Machines
    BY Literals, Updates, Zenon DEF World
  <1>3. Confirmed(n) = finish(k, shows)
    BY DEF Confirmed
  <1>4. k.cur = n.cur
    BY DEF Machines
  <1> HIDE DEF k
  <1>5. shows => Fulfils(k)
    BY <1>4, ShowsFulfils DEF World, Fulfils
  <1> HIDE DEF shows
  <1> QED BY <1>1, <1>2, <1>3, <1>5, FinishInv DEF World

\* From the first field's door.
LEMMA FocusInv ==
  ASSUME World, NEW n \in Machines, n.attempt < Attempts
  PROVE  /\ MachineInv([n EXCEPT !.op = 1, !.field = 0, !.st = "FOCUS"])
         /\ [n EXCEPT !.op = 1, !.field = 0, !.st = "FOCUS"].st = "FOCUS"
  <1> DEFINE k == [n EXCEPT !.op = 1, !.field = 0, !.st = "FOCUS"]
  <1>1. k \in Machines
    BY Words2, Literals, Updates, Zenon DEF World
  <1>2. k.st = "FOCUS" /\ k.attempt = n.attempt /\ k.field = 0
    BY DEF Machines
  <1> HIDE DEF k
  <1>3. Op(k).field \in Fields
    BY <1>1, Rows
  <1>4. k.field < Op(k).field
    BY <1>2, <1>3 DEF Fields
  <1>5. MachineInv(k)
    BY <1>1, <1>2, <1>4, InState
  <1> QED BY <1>2, <1>5 DEF k

LEMMA SingleInv ==
  ASSUME World, NEW n \in Machines, n.attempt < Attempts, n.cur = n.old
  PROVE  MachineInv(Single(n)) /\ Single(n).st \in {"TEARDOWN", "FOCUS"}
  <1> DEFINE focus == [n EXCEPT !.op = 1, !.field = 0, !.st = "FOCUS"]
  <1>1. CASE Op(n).target = NoRow \/ Shows(n, n.old)
    <2>1. Single(n) = finish(n, TRUE)
      BY <1>1 DEF Single
    <2>2. Fulfils(n)
      BY <1>1, OneOp, ShowsFulfils DEF World, Fulfils
    <2> QED BY <2>1, <2>2, FinishInv DEF World
  <1>2. CASE ~(Op(n).target = NoRow \/ Shows(n, n.old))
    <2>1. Single(n) \in {fail(n), focus}
      BY <1>2 DEF Single
    <2>2. /\ MachineInv(fail(n)) /\ fail(n).st = "TEARDOWN"
          /\ MachineInv(focus) /\ focus.st = "FOCUS"
      BY FailInv, FocusInv DEF World
    <2> HIDE DEF focus
    <2> QED BY <2>1, <2>2
  <1> QED BY <1>1, <1>2

LEMMA ReadPass ==
  ASSUME World, NEW n, MachineInv(n), n.st = "READ", NEW noise \in BOOLEAN
  PROVE  Fine(Read(n, noise))
  <1> DEFINE reads == Reads(n)
             look == Look(reads, noise)
             o == step(n.eng, NoKey, look, Verify, FALSE)
             page == IF dev.named THEN scr.page ELSE ""
             next == [n EXCEPT !.eng = o.n, !.cur = Row(n)]
             first == [next EXCEPT !.old = Row(n), !.page0 = page]
             focus == [first EXCEPT !.op = 1, !.field = 0, !.st = "FOCUS"]
             sweep == [first EXCEPT !.st = "SWEEP", !.swphase = 0]
             snap == [Nothing EXCEPT !.snap = TRUE]
             out == Read(n, noise)
  <1>1. n \in Machines /\ n.attempt < Attempts /\ n.press = 0
    BY DEF MachineInv
  <1>2. n.eng \in EngineStates /\ n.confirm \in BOOLEAN /\ Row(n) \in Readings /\ scr.page \in Pages
    BY <1>1, Members, Rows
  <1>3. reads \in BOOLEAN
    BY DEF Reads
  <1>4. look \in Looks
    <2> HIDE DEF reads
    <2> QED BY <1>3, LookTyped
  <1>5. o \in Outcomes
    BY <1>2, <1>4, StepOut, Words, EngineAssumption DEF StepResult
  <1>6. out = CASE o.r = "RUN"  -> Stays(n, o)
                [] o.r = "FAIL" -> Goes(fail(n))
                [] o.r = "OK" /\ n.confirm -> Res(Confirmed(next), NoKey, snap)
                [] o.r = "OK" /\ ~n.confirm /\ req.sweep -> Res(sweep, NoKey, snap)
                [] o.r = "OK" /\ ~n.confirm /\ ~req.sweep /\ Len(req.ops) = 1 ->
                     Res(Single(first), NoKey, snap)
                [] o.r = "OK" /\ ~n.confirm /\ ~req.sweep /\ Len(req.ops) > 1 ->
                     Res(focus, NoKey, snap)
    BY DEF Read
  <1> SUFFICES Fine(out)
    OBVIOUS
  <1> HIDE DEF o, out
  <1>7. o.r \in Results /\ o.n \in EngineStates /\ page \in Pages \cup {""}
    BY <1>2, <1>5, OutcomeFields
  <1> HIDE DEF page
  <1>8. next \in Machines
    BY <1>1, <1>2, <1>7, Updates, Zenon
  <1>9. next.st = "READ" /\ next.attempt = n.attempt /\ next.press = 0 /\ next.cur = Row(n)
    BY <1>1 DEF Machines
  <1> HIDE DEF next
  <1>10. first \in Machines
    BY <1>2, <1>7, <1>8, Updates, Zenon
  <1>11. /\ first.st = "READ" /\ first.attempt = n.attempt /\ first.press = 0
         /\ first.cur = first.old
    BY <1>8, <1>9 DEF Machines
  <1>12. sweep \in Machines /\ sweep.st = "SWEEP" /\ sweep.attempt = n.attempt /\ sweep.press = 0
    <2> HIDE DEF first
    <2>1. sweep \in Machines
      BY <1>10, Words2, Literals, Updates, Zenon DEF World
    <2> QED BY <1>10, <1>11, <2>1 DEF Machines
  <1> HIDE DEF first, sweep
  <1>13. /\ MachineInv(focus) /\ MachineInv(Single(first))
         /\ focus.st = "FOCUS" /\ Single(first).st \in {"TEARDOWN", "FOCUS"}
    BY <1>1, <1>10, <1>11, FocusInv, SingleInv
  <1>14. req.sweep => MachineInv(sweep)
    <2>1. 0 <= 2 * req.expected + 2
      BY Asking DEF World
    <2> QED BY <1>1, <1>12, <2>1, InState
  <1>15. /\ MachineInv(Confirmed(next)) /\ MachineInv(fail(n))
         /\ Confirmed(next).st = "TEARDOWN" /\ fail(n).st = "TEARDOWN"
    BY <1>1, <1>8, ConfirmedInv, FailInv DEF World
  <1> HIDE DEF focus
  <1>16. snap \in Calls /\ NoKey \in Pressed
    BY Silent, Words
  <1> HIDE DEF snap
  <1>17. Fine(Stays(n, o)) /\ Fine(Goes(fail(n))) /\ Fine(Res(Confirmed(next), NoKey, snap))
         /\ (req.sweep => Fine(Res(sweep, NoKey, snap))) /\ Fine(Res(Single(first), NoKey, snap))
         /\ Fine(Res(focus, NoKey, snap))
    BY <1>1, <1>5, <1>12, <1>13, <1>14, <1>15, <1>16, StaysGood, GoesGood, ResGood
  <1>18. req.sweep \in BOOLEAN /\ Len(req.ops) \in Nat \ {0}
    BY Asking DEF World
  <1>19. CASE o.r # "OK"
    BY <1>6, <1>7, <1>17, <1>19 DEF Results
  <1>20. CASE o.r = "OK"
    <2>1. CASE n.confirm
      BY <1>6, <1>17, <1>20, <2>1
    <2>2. CASE ~n.confirm /\ req.sweep
      BY <1>6, <1>17, <1>20, <2>2
    <2>3. CASE ~n.confirm /\ ~req.sweep
      <3>1. \A len \in Nat \ {0} : len = 1 \/ len > 1
        OBVIOUS
      <3>2. Len(req.ops) = 1 \/ Len(req.ops) > 1
        BY <1>18, <3>1, Zenon
      <3> QED BY <1>6, <1>17, <1>20, <2>3, <3>2
    <2> QED BY <1>2, <1>18, <2>1, <2>2, <2>3
  <1> QED BY <1>19, <1>20

\* The focus walk is at its field or before it.
LEMMA ArriveInv ==
  ASSUME World, NEW n \in Machines, n.attempt < Attempts, n.field <= Op(n).field
  PROVE  MachineInv(arrive(n)) /\ (n.cur = Row(n) => Aimed(arrive(n)))
  <1> DEFINE focus == [n EXCEPT !.st = "FOCUS"]
             commit == [n EXCEPT !.st = "COMMIT"]
             edit == [n EXCEPT !.press = 0, !.reversed = FALSE, !.estart = n.cur, !.st = "EDIT"]
             out == arrive(n)
  <1>1. n.field \in 0 .. 3 /\ Op(n).field \in Fields /\ n.cur \in Readings
    BY Members, Rows
  <1>2. focus \in Machines /\ commit \in Machines /\ edit \in Machines
    BY <1>1, Words2, Literals, Updates, Zenon DEF World
  <1>3. /\ focus.st = "FOCUS" /\ focus.attempt = n.attempt /\ focus.field = n.field /\ focus.op = n.op
        /\ commit.st = "COMMIT" /\ commit.attempt = n.attempt /\ commit.field = n.field
        /\ commit.op = n.op
        /\ edit.st = "EDIT" /\ edit.attempt = n.attempt /\ edit.field = n.field /\ edit.op = n.op
        /\ edit.press = 0
    BY DEF Machines
  <1>4. Op(focus) = Op(n) /\ Op(commit) = Op(n) /\ Op(edit) = Op(n) /\ Row(commit) = Row(n)
    BY <1>3 DEF Op, Row
  <1>5. out = CASE n.field # Op(n).field -> focus
                [] n.field = Op(n).field /\ Shows(n, n.cur) -> commit
                [] n.field = Op(n).field /\ ~Shows(n, n.cur) /\ Op(n).num # IsNum(n, n.cur) -> abort(n)
                [] OTHER -> edit
    BY DEF arrive
  <1> SUFFICES MachineInv(out) /\ (n.cur = Row(n) => Aimed(out))
    OBVIOUS
  <1> HIDE DEF focus, commit, edit, out
  <1>6. MachineInv(abort(n)) /\ Aimed(abort(n)) /\ Aimed(focus) /\ Aimed(edit)
    BY <1>3, AbortInv DEF World, Aimed
  <1>7. CASE n.field # Op(n).field
    <2>1. n.field < Op(n).field
      BY <1>1, <1>7 DEF Fields
    <2>2. MachineInv(focus)
      BY <1>2, <1>3, <1>4, <2>1, InState
    <2> QED BY <1>5, <1>6, <1>7, <2>2
  <1>8. CASE n.field = Op(n).field
    <2>1. out = abort(n) \/ out = edit \/ (out = commit /\ Shows(n, n.cur))
      BY <1>5, <1>8
    <2>2. MachineInv(commit)
      BY <1>2, <1>3, <1>4, <1>8, InState
    <2>3. 0 <= MaxPress
      BY Constants
    <2>4. MachineInv(edit)
      BY <1>2, <1>3, <1>4, <1>8, <2>3, InState
    <2>5. Shows(n, n.cur) /\ n.cur = Row(n) => Aimed(commit)
      BY <1>4 DEF Shows, Aimed
    <2> QED BY <1>6, <2>1, <2>2, <2>4, <2>5
  <1> QED BY <1>7, <1>8

\* The machine at the same operation of the same state.
Beside(n, k) ==
  /\ k \in Machines /\ k.st = n.st /\ k.attempt = n.attempt /\ k.press = n.press
  /\ k.field = n.field /\ k.op = n.op

LEMMA ReadBack ==
  ASSUME World, NEW n \in Machines, NEW e \in EngineStates
  PROVE  /\ Beside(n, [n EXCEPT !.eng = e, !.cur = Row(n)])
         /\ [n EXCEPT !.eng = e, !.cur = Row(n)].cur = Row(n)
  <1>1. Row(n) \in Readings
    BY Rows
  <1> DEFINE k == [n EXCEPT !.eng = e, !.cur = Row(n)]
  <1>2. k \in Machines
    BY <1>1, Updates, Zenon
  <1>3. /\ k.st = n.st /\ k.attempt = n.attempt /\ k.press = n.press
        /\ k.field = n.field /\ k.op = n.op /\ k.cur = Row(n)
    BY DEF Machines
  <1> HIDE DEF k
  <1>4. Beside(n, k)
    BY <1>2, <1>3 DEF Beside
  <1> QED BY <1>3, <1>4 DEF k

LEMMA EnteredOut ==
  ASSUME World, NEW n \in Machines, NEW noise \in BOOLEAN
  PROVE  Entered(n, noise) \in Outcomes
  <1> DEFINE reads == Reads(n)
             look == Look(reads, noise)
  <1>1. reads \in BOOLEAN
    BY DEF Reads
  <1>2. look \in Looks
    <2> HIDE DEF reads
    <2> QED BY <1>1, LookTyped
  <1>3. Entered(n, noise) = step(n.eng, "ENTER", look, Verify, TRUE)
    BY DEF Entered
  <1>4. n.eng \in EngineStates
    BY Members
  <1> HIDE DEF look
  <1>5. StepResult(n.eng, "ENTER", step(n.eng, "ENTER", look, Verify, TRUE))
    BY <1>2, <1>4, StepOut, Words, EngineAssumption
  <1> QED BY <1>3, <1>5 DEF StepResult

\* The focus moved on to the next field.
LEMMA NextField ==
  ASSUME World, NEW n \in Machines, n.field <= Op(n).field
  PROVE  /\ [n EXCEPT !.field = n.field + 1] \in Machines
         /\ [n EXCEPT !.field = n.field + 1].field = n.field + 1
         /\ [n EXCEPT !.field = n.field + 1].op = n.op
         /\ [n EXCEPT !.field = n.field + 1].attempt = n.attempt
         /\ [n EXCEPT !.field = n.field + 1].cur = n.cur
  <1> DEFINE k == [n EXCEPT !.field = n.field + 1]
  <1>1. n.field \in 0 .. 3 /\ Op(n).field \in Fields
    BY Members, Rows
  <1>2. n.field + 1 \in 0 .. 3
    BY <1>1 DEF Fields
  <1>3. k \in Machines
    BY <1>2, Updates, Zenon
  <1>4. k.field = n.field + 1 /\ k.op = n.op /\ k.attempt = n.attempt /\ k.cur = n.cur
    BY DEF Machines
  <1> QED BY <1>3, <1>4

LEMMA GoesAimed ==
  ASSUME NEW n, MachineInv(n), Aimed(n)
  PROVE  Good(Goes(n)) /\ Aimed(Goes(n).m)
  BY GoesGood DEF Goes, Res

LEMMA FineAimed ==
  ASSUME NEW p, Fine(p)
  PROVE  Good(p) /\ Aimed(p.m)
  BY DEF Fine, Aimed

LEMMA FocusPass ==
  ASSUME World, NEW n, MachineInv(n), n.st = "FOCUS", NEW noise \in BOOLEAN
  PROVE  Good(Focus(n, noise)) /\ Aimed(Focus(n, noise).m)
  <1> DEFINE o == Entered(n, noise)
             next == [n EXCEPT !.eng = o.n, !.cur = Row(n)]
             k == [next EXCEPT !.field = next.field + 1]
             lost2 == Row(n) # n.old \/ ~on_value_page(n)
             out == Focus(n, noise)
  <1>1. n \in Machines /\ n.attempt < Attempts /\ n.field < Op(n).field
    BY DEF MachineInv
  <1>2. o \in Outcomes
    BY <1>1, EnteredOut
  <1>3. out = CASE o.r = "RUN"  -> Stays(n, o)
                [] o.r = "FAIL" -> Goes(abort(n))
                [] o.r = "OK"   -> Goes(IF lost2 THEN abort(next) ELSE arrive(k))
    BY DEF Focus
  <1> SUFFICES Good(out) /\ Aimed(out.m)
    OBVIOUS
  <1> HIDE DEF o, out, lost2
  <1>4. o.r \in Results /\ o.n \in EngineStates
    BY <1>2, OutcomeFields
  <1>5. Beside(n, next) /\ next.cur = Row(n)
    BY <1>1, <1>4, ReadBack
  <1> HIDE DEF next
  <1>6. Op(next) = Op(n) /\ next \in Machines /\ next.attempt < Attempts /\ next.field = n.field
    BY <1>1, <1>5 DEF Beside, Op
  <1>7. /\ n.field \in 0 .. 3 /\ Op(n).field \in Fields
    BY <1>1, Members, Rows
  <1>8. next.field <= Op(next).field /\ n.field + 1 <= Op(n).field
    BY <1>1, <1>6, <1>7 DEF Fields
  <1>9. k \in Machines /\ k.field = n.field + 1 /\ k.op = next.op /\ k.attempt < Attempts
        /\ k.cur = Row(n)
    BY <1>5, <1>6, <1>8, NextField
  <1> HIDE DEF k
  <1>10. Op(k) = Op(n) /\ Row(k) = Row(n)
    BY <1>5, <1>6, <1>9 DEF Op, Row, Beside
  <1>11. MachineInv(arrive(k)) /\ Aimed(arrive(k))
    BY <1>8, <1>9, <1>10, ArriveInv
  <1>12. /\ MachineInv(abort(n)) /\ MachineInv(abort(next))
         /\ abort(n).st = "ABORT_ESC" /\ abort(next).st = "ABORT_ESC"
    BY <1>1, <1>6, AbortInv DEF World
  <1>13. Fine(Stays(n, o)) /\ Fine(Goes(abort(n))) /\ Fine(Goes(abort(next)))
    BY <1>2, <1>12, StaysGood, GoesGood
  <1>14. Good(Goes(arrive(k))) /\ Aimed(Goes(arrive(k)).m)
    BY <1>11, GoesAimed
  <1> QED BY <1>3, <1>4, <1>13, <1>14, FineAimed DEF Results

-----------------------------------------------------------------------------
(* Committing *)

LEMMA NextOpInv ==
  ASSUME World, NEW n \in Machines, n.attempt < Attempts, n.op < Len(req.ops),
         n.field = Op(n).field + 1
  PROVE  MachineInv(NextOp(n)) /\ Aimed(NextOp(n))
  <1> DEFINE next == [n EXCEPT !.op = n.op + 1]
             k == [next EXCEPT !.old = Row(next), !.cur = Row(next)]
  <1>1. n.op \in 1 .. Len(req.ops) /\ Len(req.ops) \in Nat /\ Op(n).field \in Fields
    BY Members, Asking, Rows DEF World
  <1>2. n.op + 1 \in 1 .. Len(req.ops) /\ n.op < n.op + 1
    BY <1>1
  <1>3. req.ops[n.op].field < req.ops[n.op + 1].field
    BY <1>1, <1>2, Asking DEF World
  <1>4. next \in Machines
    BY <1>2, Updates
  <1>5. next.op = n.op + 1 /\ next.field = n.field /\ next.attempt = n.attempt
    BY DEF Machines
  <1>6. NextOp(n) = IF Row(next) = NoRow THEN abort(next) ELSE arrive(k)
    BY DEF NextOp
  <1> HIDE DEF next
  <1>7. Row(next) \in Readings /\ Op(next).field \in Fields
    BY <1>4, Rows
  <1>8. k \in Machines
    BY <1>4, <1>7, Updates, Zenon
  <1>9. k.op = n.op + 1 /\ k.field = n.field /\ k.attempt = n.attempt
        /\ k.cur = Row(next) /\ k.op = next.op
    BY <1>4, <1>5 DEF Machines
  <1> HIDE DEF k
  <1>10. k.field <= Op(k).field
    <2>1. Op(k) = Op(next) /\ Op(n).field < Op(next).field
      BY <1>3, <1>5, <1>9 DEF Op
    <2> QED BY <1>1, <1>7, <1>9, <2>1 DEF Fields
  <1>11. k.cur = Row(k)
    BY <1>9 DEF Row, Op
  <1>12. /\ MachineInv(arrive(k)) /\ Aimed(arrive(k))
         /\ MachineInv(abort(next)) /\ Aimed(abort(next))
    BY <1>4, <1>5, <1>8, <1>9, <1>10, <1>11, ArriveInv, AbortInv DEF World, Aimed
  <1> QED BY <1>6, <1>12

LEMMA LandedInv ==
  ASSUME World, NEW n \in Machines, n.attempt < Attempts, n.field = Op(n).field + 1
  PROVE  MachineInv(Landed(n)) /\ Aimed(Landed(n))
  <1> DEFINE k == [n EXCEPT !.confirm = TRUE, !.op = 1, !.field = 0, !.st = "ANCHOR"]
  <1>1. n.op \in 1 .. Len(req.ops) /\ Len(req.ops) \in Nat
    BY Members, Asking DEF World
  <1>2. CASE n.op < Len(req.ops)
    <2>1. n.op < Len(req.ops) /\ n.op # Len(req.ops)
      BY <1>1, <1>2
    <2>2. Landed(n) = NextOp(n)
      BY <2>1 DEF Landed
    <2> QED BY <1>2, <2>2, NextOpInv
  <1>3. CASE n.op = Len(req.ops)
    <2>1. k \in Machines
      BY Words2, Literals, Updates, Zenon DEF World
    <2>2. k.st = "ANCHOR" /\ k.attempt = n.attempt /\ k.confirm
      BY DEF Machines
    <2>3. Landed(n) = k \/ (Landed(n) = finish(n, TRUE) /\ Len(req.ops) > 1)
      <3>0. \A a \in Nat : \A b \in 1 .. a : (b = a) => (~(b < a) /\ (b = 1 \/ b > 1))
        OBVIOUS
      <3>1. n.op = Len(req.ops) /\ ~(n.op < Len(req.ops)) /\ (n.op = 1 \/ n.op > 1)
        BY <1>1, <1>3, <3>0, Zenon
      <3> QED BY <1>3, <3>1 DEF Landed
    <2> HIDE DEF k
    <2>4. MachineInv(k) /\ Aimed(k)
      BY <2>1, <2>2, InState DEF Aimed
    <2>5. Len(req.ops) > 1 => MachineInv(finish(n, TRUE)) /\ Aimed(finish(n, TRUE))
      <3>1. Len(req.ops) > 1 => Fulfils(n)
        BY <1>1 DEF Fulfils, Plain
      <3> QED BY <3>1, FinishInv DEF World, Aimed
    <2> QED BY <2>3, <2>4, <2>5
  <1> QED BY <1>1, <1>2, <1>3

LEMMA CommitPass ==
  ASSUME World, NEW n, MachineInv(n), n.st = "COMMIT", NEW noise \in BOOLEAN
  PROVE  Good(Commit(n, noise)) /\ Aims(n, Commit(n, noise).m)
  <1> DEFINE o == Entered(n, noise)
             next == [n EXCEPT !.eng = o.n, !.cur = Row(n)]
             k == [next EXCEPT !.field = next.field + 1]
             missed == ~Shows(n, Row(n))
             out == Commit(n, noise)
  <1>1. n \in Machines /\ n.attempt < Attempts /\ n.field = Op(n).field
    BY DEF MachineInv
  <1>2. o \in Outcomes
    BY <1>1, EnteredOut
  <1>3. out = CASE o.r = "RUN"  -> Stays(n, o)
                [] o.r = "FAIL" -> Goes(fail(n))
                [] o.r = "OK"   -> Goes(IF missed THEN fail(next) ELSE Landed(k))
    BY DEF Commit
  <1> SUFFICES Good(out) /\ Aims(n, out.m)
    OBVIOUS
  <1> HIDE DEF o, out, missed
  <1>4. o.r \in Results /\ o.n \in EngineStates
    BY <1>2, OutcomeFields
  <1>5. Beside(n, next)
    BY <1>1, <1>4, ReadBack
  <1> HIDE DEF next
  <1>6. Op(next) = Op(n) /\ next \in Machines /\ next.attempt < Attempts /\ next.field = n.field
    BY <1>1, <1>5 DEF Beside, Op
  <1>7. Op(n).field \in Fields
    BY <1>1, Rows
  <1>8. next.field <= Op(next).field
    BY <1>1, <1>6, <1>7 DEF Fields
  <1>9. k \in Machines /\ k.field = n.field + 1 /\ k.op = next.op /\ k.attempt < Attempts
    BY <1>6, <1>8, NextField
  <1> HIDE DEF k
  <1>10. Op(k) = Op(n)
    BY <1>6, <1>9 DEF Op
  <1>11. MachineInv(Landed(k)) /\ Aimed(Landed(k))
    BY <1>1, <1>9, <1>10, LandedInv
  <1>12. /\ MachineInv(fail(n)) /\ MachineInv(fail(next))
         /\ Aimed(fail(n)) /\ Aimed(fail(next))
    BY <1>1, <1>6, FailInv DEF World, Aimed
  <1>13. Good(Stays(n, o)) /\ Aims(n, Stays(n, o).m)
    <2>1. Stays(n, o).m.op = n.op
      BY <1>1 DEF Stays, Res, Machines
    <2> QED BY <1>2, <2>1, StaysGood DEF Aims, SetsOut
  <1>14. \A k2 \in {fail(n), fail(next), Landed(k)} : Good(Goes(k2)) /\ Aims(n, Goes(k2).m)
    BY <1>11, <1>12, GoesAimed DEF Aims, SetsOut, Aimed
  <1> QED BY <1>3, <1>4, <1>13, <1>14 DEF Results

-----------------------------------------------------------------------------
(* wait_change_ *)

\* It goes on, or is over, and leaves the operation as it was.
Waiting(n, o) == o.r \in Results /\ o.press \in Pressed /\ Beside(n, o.n)

LEMMA WaitingOn ==
  ASSUME NEW n, NEW k, Beside(n, k)
  PROVE  Waiting(n, Run(k)) /\ Waiting(n, Ok(k)) /\ Waiting(n, Fail(k))
  BY Words DEF Waiting, Run, Ok, Fail, Out

LEMMA GlimpsedBeside ==
  ASSUME World, NEW n \in Machines
  PROVE  Beside(n, Glimpsed(n)) /\ Glimpsed(n).wq = 0
  <1> DEFINE k == [n EXCEPT !.wcand = Row(n), !.wq = 0, !.wphase = 1]
  <1>1. Row(n) \in Readings
    BY Rows
  <1>2. k \in Machines
    BY <1>1, Literals, Updates, Zenon DEF World
  <1>3. /\ k.st = n.st /\ k.attempt = n.attempt /\ k.press = n.press
        /\ k.field = n.field /\ k.op = n.op /\ k.wq = 0
    BY DEF Machines
  <1>4. Glimpsed(n) = k
    BY DEF Glimpsed
  <1> HIDE DEF k
  <1> QED BY <1>2, <1>3, <1>4 DEF Beside

\* Updates of what wait_change_ keeps for itself, and of the sub-state.
LEMMA BesidePhase ==
  ASSUME NEW n, NEW k \in Machines, Beside(n, k), NEW w \in 0 .. 2
  PROVE  Beside(n, [k EXCEPT !.wphase = w])
  <1>1. [k EXCEPT !.wphase = w] \in Machines
    BY Updates
  <1> QED BY <1>1 DEF Machines, Beside

LEMMA BesideEngine ==
  ASSUME NEW n \in Machines, NEW e \in EngineStates
  PROVE  Beside(n, [n EXCEPT !.eng = e])
  <1>1. [n EXCEPT !.eng = e] \in Machines
    BY Updates
  <1> QED BY <1>1 DEF Machines, Beside

LEMMA BesideWatch ==
  ASSUME Visiting, NEW n, NEW k \in Machines, Beside(n, k), NEW e \in EngineStates
  PROVE  Beside(n, [k EXCEPT !.eng = e, !.wdead = Deadline])
  <1>1. [k EXCEPT !.eng = e, !.wdead = Deadline] \in Machines
    BY Literals, Updates, Zenon
  <1> QED BY <1>1 DEF Machines, Beside

\* A row that can be read is the candidate.
Candid(k) == Row(k) \in {NoRow, k.wcand}

LEMMA WatchedCandid ==
  ASSUME World, NEW n \in Machines
  PROVE  Beside(n, Watched(n)) /\ Watched(n) \in Machines /\ Candid([Watched(n) EXCEPT !.wphase = 0])
  <1>1. CASE Reads(n) /\ Row(n) # n.wcand
    <2> DEFINE k == Glimpsed(n)
    <2>1. Watched(n) = k
      BY <1>1 DEF Watched
    <2>2. Beside(n, k) /\ k.wcand = Row(n)
      BY GlimpsedBeside DEF Glimpsed, Machines
    <2> HIDE DEF k
    <2>3. Row([k EXCEPT !.wphase = 0]) = Row(n) /\ [k EXCEPT !.wphase = 0].wcand = k.wcand
      BY <2>2 DEF Row, Op, Beside, Machines
    <2> QED BY <2>1, <2>2, <2>3 DEF Candid, Beside
  <1>2. CASE ~(Reads(n) /\ Row(n) # n.wcand)
    <2>1. Watched(n) = n
      BY <1>2 DEF Watched
    <2>2. Row([n EXCEPT !.wphase = 0]) = Row(n) /\ [n EXCEPT !.wphase = 0].wcand = n.wcand
      BY DEF Row, Op, Machines
    <2> QED BY <1>2, <2>1, <2>2 DEF Candid, Beside, Reads
  <1> QED BY <1>1, <1>2

LEMMA WaitOut ==
  ASSUME World, NEW n \in Machines, NEW key \in Pressed, NEW noise \in BOOLEAN
  PROVE  /\ Waiting(n, wait_change(n, key, noise))
         /\ wait_change(n, key, noise).r = "OK" => Candid(wait_change(n, key, noise).n)
  <1> DEFINE differs == Reads(n) /\ Row(n) # n.cur
             o == step(n.eng, key, Look(differs, noise), Verify, FALSE)
             c == Watched(n)
             over == [c EXCEPT !.wphase = 0]
             gone == [n EXCEPT !.wphase = 0]
             watch == [Glimpsed(n) EXCEPT !.eng = o.n, !.wdead = Deadline]
             still == [c EXCEPT !.wphase = 2]
             engine == [n EXCEPT !.eng = o.n]
             out == wait_change(n, key, noise)
  <1>1. n.eng \in EngineStates /\ n.wphase \in 0 .. 2 /\ n.wq \in 0 .. Quiet /\ Quiet \in Nat
    BY Members, Constants
  <1>2. differs \in BOOLEAN
    BY DEF Reads
  <1>3. Look(differs, noise) \in Looks
    <2> HIDE DEF differs
    <2> QED BY <1>2, LookTyped
  <1>4. o \in Outcomes
    <2> HIDE DEF differs
    <2> QED BY <1>1, <1>3, StepOut, EngineAssumption DEF StepResult
  <1>5. out = CASE n.wphase = 0 /\ o.r # "OK" -> Via(n, o)
                [] n.wphase = 0 /\ o.r = "OK" -> Run(watch)
                [] n.wphase = 1 /\ c.wq < Quiet -> IF c.wdead = 0 THEN Fail(over) ELSE Run(c)
                [] n.wphase = 1 /\ c.wq >= Quiet /\ c.wcand = n.cur -> Run(still)
                [] n.wphase = 1 /\ c.wq >= Quiet /\ c.wcand # n.cur -> Ok(over)
                [] n.wphase = 2 /\ differs -> Run(Glimpsed(n))
                [] n.wphase = 2 /\ ~differs -> IF n.wdead = 0 THEN Fail(gone) ELSE Run(n)
    BY DEF wait_change
  <1>6. Via(n, o) = Out(o.r, engine, o.press)
    BY DEF Via
  <1> SUFFICES Waiting(n, out) /\ (out.r = "OK" => Candid(out.n))
    OBVIOUS
  <1> HIDE DEF differs, o, c, out
  <1>7. o.n \in EngineStates /\ o.r \in Results /\ o.press \in Pressed
    BY <1>4, OutcomeFields
  <1>8. Beside(n, n) /\ Beside(n, Glimpsed(n)) /\ Glimpsed(n) \in Machines
    BY GlimpsedBeside DEF Beside
  <1>9. Beside(n, c) /\ c \in Machines /\ Candid(over)
    BY WatchedCandid DEF c
  <1>10. c.wq \in 0 .. Quiet
    BY <1>9, Members
  <1>11. 0 \in 0 .. 2 /\ 2 \in 0 .. 2
    OBVIOUS
  <1>12. /\ Beside(n, over) /\ Beside(n, gone) /\ Beside(n, still) /\ Beside(n, watch) /\ Beside(n, engine)
    BY <1>7, <1>8, <1>9, <1>11, BesidePhase, BesideEngine, BesideWatch DEF World
  <1> HIDE DEF over, gone, still, watch, engine
  <1>13. Waiting(n, Via(n, o))
    BY <1>6, <1>7, <1>12 DEF Waiting, Out
  <1>14. /\ Waiting(n, Run(watch)) /\ Waiting(n, Run(c)) /\ Waiting(n, Fail(over)) /\ Waiting(n, Ok(over))
         /\ Waiting(n, Run(still)) /\ Waiting(n, Run(Glimpsed(n))) /\ Waiting(n, Run(n))
         /\ Waiting(n, Fail(gone))
    BY <1>8, <1>9, <1>12, WaitingOn
  <1>15. Ok(over).n = over /\ \A k : Run(k).r # "OK" /\ Fail(k).r # "OK"
    BY DEF Ok, Run, Fail, Out
  <1>16. CASE n.wphase = 0
    <2>1. (out = Via(n, o) /\ o.r # "OK") \/ out = Run(watch)
      BY <1>5, <1>16
    <2>2. o.r # "OK" => Via(n, o).r # "OK"
      BY <1>6 DEF Out
    <2> QED BY <1>13, <1>14, <1>15, <2>1, <2>2
  <1>17. CASE n.wphase = 1
    <2>1. c.wq < Quiet \/ c.wq >= Quiet
      BY <1>1, <1>10
    <2>2. out \in {Run(c), Fail(over), Run(still), Ok(over)}
      BY <1>5, <1>17, <2>1
    <2> QED BY <1>9, <1>14, <1>15, <2>2
  <1>18. CASE n.wphase = 2
    <2>1. out \in {Run(Glimpsed(n)), Fail(gone), Run(n)}
      BY <1>5, <1>18
    <2> QED BY <1>14, <1>15, <2>1
  <1> QED BY <1>1, <1>16, <1>17, <1>18

-----------------------------------------------------------------------------
(* The edit loop *)

\* One more press counted.
LEMMA Pressing ==
  ASSUME NEW n \in Machines
  PROVE  /\ [n EXCEPT !.press = n.press + 1] \in Machines
         /\ [n EXCEPT !.press = n.press + 1].press = n.press + 1
         /\ [n EXCEPT !.press = n.press + 1].st = n.st
         /\ [n EXCEPT !.press = n.press + 1].attempt = n.attempt
         /\ [n EXCEPT !.press = n.press + 1].field = n.field
         /\ [n EXCEPT !.press = n.press + 1].op = n.op
  <1>0. n.press \in Nat
    BY Members
  <1>1. n.press + 1 \in Nat
    BY <1>0
  <1>2. [n EXCEPT !.press = n.press + 1] \in Machines
    BY <1>1, Updates
  <1> QED BY <1>2 DEF Machines

LEMMA EditPass ==
  ASSUME World, NEW n, MachineInv(n), n.st = "EDIT", NEW noise \in BOOLEAN
  PROVE  Good(Edit(n, noise)) /\ Aimed(Edit(n, noise).m)
  <1> DEFINE key == EditKey(n)
             o == wait_change(n, key, noise)
             k == o.n
             value == k.wcand
             next == [k EXCEPT !.press = k.press + 1]
             turn == [next EXCEPT !.reversed = TRUE]
             commit == [next EXCEPT !.st = "COMMIT"]
             on == [next EXCEPT !.cur = value]
             out == Edit(n, noise)
  <1>1. /\ n \in Machines /\ n.attempt < Attempts /\ n.press <= MaxPress
        /\ n.field = Op(n).field
    BY DEF MachineInv
  <1>2. key \in Pressed
    BY Words DEF EditKey
  <1>3. Waiting(n, o) /\ (o.r = "OK" => Candid(k))
    <2> HIDE DEF key
    <2> QED BY <1>1, <1>2, WaitOut
  <1>4. out =
         CASE n.press >= MaxPress -> Goes(abort(n))
           [] n.press < MaxPress /\ o.r = "RUN" -> Res(k, o.press, Nothing)
           [] n.press < MaxPress /\ o.r = "FAIL" ->
                Goes(IF ~Op(n).num /\ ~n.reversed THEN turn ELSE abort(next))
           [] n.press < MaxPress /\ o.r = "OK" ->
                Goes(CASE ~on_value_page(n) -> abort(next)
                       [] on_value_page(n) /\ Shows(n, value) -> commit
                       [] on_value_page(n) /\ ~Shows(n, value) /\ Diverged(n, value) -> abort(next)
                       [] OTHER -> on)
    BY DEF Edit
  <1> SUFFICES Good(out) /\ Aimed(out.m)
    OBVIOUS
  <1>5. o.r \in Results /\ o.press \in Pressed /\ Beside(n, k) /\ (o.r = "OK" => Candid(k))
    BY <1>3 DEF Waiting
  <1> HIDE DEF k, out
  <1>6. k \in Machines /\ k.wcand \in Readings /\ n.press \in Nat /\ MaxPress \in Nat
    BY <1>1, <1>5, Members, Constants DEF Beside
  <1>7. /\ next \in Machines /\ next.press = n.press + 1 /\ next.st = "EDIT"
        /\ next.attempt = n.attempt /\ next.field = n.field /\ next.op = n.op
    BY <1>5, <1>6, Pressing DEF Beside
  <1> HIDE DEF next
  <1>8. turn \in Machines /\ commit \in Machines /\ on \in Machines
    <2>1. TRUE \in BOOLEAN
      OBVIOUS
    <2> QED BY <1>6, <1>7, <2>1, Updates, Words2
  <1>9. /\ turn.st = "EDIT" /\ turn.attempt = n.attempt /\ turn.press = n.press + 1
        /\ turn.field = n.field /\ turn.op = n.op
        /\ on.st = "EDIT" /\ on.attempt = n.attempt /\ on.press = n.press + 1
        /\ on.field = n.field /\ on.op = n.op
        /\ commit.st = "COMMIT" /\ commit.attempt = n.attempt
        /\ commit.field = n.field /\ commit.op = n.op
    BY <1>7 DEF Machines
  <1> HIDE DEF turn, on, commit
  <1>10. /\ Op(turn) = Op(n) /\ Op(on) = Op(n) /\ Op(commit) = Op(n) /\ Op(k) = Op(n)
         /\ Row(commit) = Row(k)
    BY <1>5, <1>9 DEF Op, Beside, Row
  <1>11. /\ MachineInv(abort(n)) /\ MachineInv(abort(next)) /\ MachineInv(commit)
         /\ abort(n).st = "ABORT_ESC" /\ abort(next).st = "ABORT_ESC"
    BY <1>1, <1>7, <1>8, <1>9, <1>10, AbortInv, InState DEF World
  <1>12. o.r = "OK" /\ Shows(n, value) => Aimed(commit)
    BY <1>5, <1>10 DEF Candid, Shows, Aimed
  <1> HIDE DEF value
  <1>13. MachineInv(k) /\ k.st = "EDIT"
    BY <1>1, <1>5, <1>10, InState DEF Beside
  <1>14. CASE n.press >= MaxPress
    <2>0. n.press >= MaxPress /\ ~(n.press < MaxPress)
      BY <1>6, <1>14
    <2>1. out = Goes(abort(n))
      BY <1>4, <2>0
    <2> QED BY <1>11, <2>1, GoesGood, FineAimed
  <1>15. CASE n.press < MaxPress
    <2>1. n.press < MaxPress /\ ~(n.press >= MaxPress) /\ n.press + 1 <= MaxPress
      BY <1>6, <1>15
    <2>2. MachineInv(turn) /\ MachineInv(on)
      BY <1>1, <1>8, <1>9, <1>10, <2>1, InState
    <2>3. CASE o.r = "RUN"
      <3>1. out = Res(k, o.press, Nothing)
        BY <1>4, <2>1, <2>3
      <3> QED BY <1>5, <1>13, <3>1, ResGood, Silent, FineAimed
    <2>4. CASE o.r = "FAIL"
      <3>1. out \in {Goes(turn), Goes(abort(next))}
        BY <1>4, <2>1, <2>4
      <3> QED BY <1>9, <1>11, <2>2, <3>1, GoesGood, FineAimed
    <2>5. CASE o.r = "OK"
      <3>1. out \in {Goes(abort(next)), Goes(on)} \/ (out = Goes(commit) /\ Shows(n, value))
        BY <1>4, <2>1, <2>5
      <3>2. Fine(Goes(abort(next))) /\ Fine(Goes(on))
        BY <1>9, <1>11, <2>2, GoesGood
      <3>3. Shows(n, value) => Good(Goes(commit)) /\ Aimed(Goes(commit).m)
        BY <1>11, <1>12, <2>5, GoesAimed
      <3> QED BY <3>1, <3>2, <3>3, FineAimed
    <2> QED BY <1>5, <2>3, <2>4, <2>5 DEF Results
  <1> QED BY <1>6, <1>14, <1>15

-----------------------------------------------------------------------------
(* read_sweep *)

LEMMA SweepFocusPass ==
  ASSUME World, NEW n, MachineInv(n), n.st = "SWEEP", NEW noise \in BOOLEAN
  PROVE  Fine(sweep_focus(n, noise))
  <1> DEFINE o == Entered(n, noise)
             next == [n EXCEPT !.eng = o.n, !.cur = Row(n)]
             on == [next EXCEPT !.seen = {}, !.down = FALSE, !.press = 0, !.swphase = 1]
             out == sweep_focus(n, noise)
  <1>1. n \in Machines /\ n.attempt < Attempts /\ req.sweep
    BY DEF MachineInv
  <1>2. o \in Outcomes
    BY <1>1, EnteredOut
  <1>3. out = CASE o.r = "RUN"  -> Stays(n, o)
                [] o.r = "FAIL" -> Goes(abort(n))
                [] o.r = "OK"   -> Goes(IF Row(n) # n.old THEN abort(next) ELSE on)
    BY DEF sweep_focus
  <1> SUFFICES Fine(out)
    OBVIOUS
  <1> HIDE DEF o, out
  <1>4. o.r \in Results /\ o.n \in EngineStates
    BY <1>2, OutcomeFields
  <1>5. Beside(n, next)
    BY <1>1, <1>4, ReadBack
  <1> HIDE DEF next
  <1>6. next \in Machines /\ next.st = "SWEEP" /\ next.attempt = n.attempt
    BY <1>5 DEF Beside
  <1>7. on \in Machines
    BY <1>6, Literals, Updates, Zenon DEF World
  <1>8. on.st = "SWEEP" /\ on.attempt = n.attempt /\ on.press = 0
    BY <1>6 DEF Machines
  <1> HIDE DEF on
  <1>9. 0 <= 2 * req.expected + 2
    BY Asking DEF World
  <1>10. /\ MachineInv(on) /\ MachineInv(abort(n)) /\ MachineInv(abort(next))
         /\ abort(n).st = "ABORT_ESC" /\ abort(next).st = "ABORT_ESC"
    BY <1>1, <1>6, <1>7, <1>8, <1>9, InState, AbortInv DEF World
  <1>11. Fine(Stays(n, o)) /\ Fine(Goes(abort(n))) /\ Fine(Goes(abort(next))) /\ Fine(Goes(on))
    BY <1>2, <1>8, <1>10, StaysGood, GoesGood
  <1> QED BY <1>3, <1>4, <1>11 DEF Results

LEMMA SweepCapturePass ==
  ASSUME World, NEW n, MachineInv(n), n.st = "SWEEP"
  PROVE  Fine(sweep_capture(n))
  <1> DEFINE new == n.cur \notin n.seen /\ Cardinality(n.seen) < req.expected
             seen == IF new THEN n.seen \cup {n.cur} ELSE n.seen
             on == [n EXCEPT !.seen = seen, !.swphase = 2]
             value == IF new THEN n.cur ELSE NoRow
             calls == [Nothing EXCEPT !.sweep = value]
             k == IF Cardinality(seen) >= req.expected THEN finish(n, TRUE) ELSE on
  <1>1. n \in Machines /\ n.attempt < Attempts /\ n.press <= 2 * req.expected + 2 /\ req.sweep
    BY DEF MachineInv
  <1>2. sweep_capture(n) = Res(k, NoKey, calls)
    BY DEF sweep_capture
  <1>3. n.cur \in Readings /\ n.seen \subseteq Readings /\ NoRow \in Readings
    BY <1>1, Members, Constants
  <1> HIDE DEF new
  <1>4. seen \in SUBSET Readings /\ value \in Readings
    BY <1>3
  <1> HIDE DEF seen, value
  <1>5. calls \in Calls
    BY <1>4, Silent
  <1>6. on \in Machines
    BY <1>1, <1>4, Literals, Updates, Zenon DEF World
  <1>7. on.st = "SWEEP" /\ on.attempt = n.attempt /\ on.press = n.press
    BY <1>1 DEF Machines
  <1> HIDE DEF on, calls
  <1>8. MachineInv(k) /\ k.st \in {"SWEEP", "TEARDOWN"}
    BY <1>1, <1>6, <1>7, InState, FinishInv DEF World, Fulfils, Plain
  <1> HIDE DEF k
  <1> QED BY <1>2, <1>5, <1>8, ResGood, Words

LEMMA SweepMovePass ==
  ASSUME World, NEW n, MachineInv(n), n.st = "SWEEP", NEW noise \in BOOLEAN
  PROVE  Fine(sweep_move(n, noise))
  <1> DEFINE key == IF n.down THEN "DOWN" ELSE "UP"
             o == wait_change(n, key, noise)
             k == o.n
             next == [k EXCEPT !.press = k.press + 1]
             turn == [next EXCEPT !.down = TRUE]
             on == [next EXCEPT !.cur = k.wcand, !.swphase = 1]
             limit == 2 * req.expected + 2
             spent == n.press >= limit
             out == sweep_move(n, noise)
  <1>1. n \in Machines /\ n.attempt < Attempts /\ n.press <= limit /\ req.sweep
    BY DEF MachineInv
  <1>2. key \in Pressed
    BY Words
  <1>3. Waiting(n, o)
    <2> HIDE DEF key
    <2> QED BY <1>1, <1>2, WaitOut
  <1>4. out = CASE spent -> Goes(finish(n, TRUE))
                [] ~spent /\ o.r = "RUN"  -> Res(k, o.press, Nothing)
                [] ~spent /\ o.r = "FAIL" -> Goes(IF n.down THEN finish(next, TRUE) ELSE turn)
                [] ~spent /\ o.r = "OK"   -> Goes(on)
    BY DEF sweep_move
  <1> SUFFICES Fine(out)
    OBVIOUS
  <1>5. o.r \in Results /\ o.press \in Pressed /\ Beside(n, k)
    BY <1>3 DEF Waiting
  <1> HIDE DEF k, out
  <1>6. k \in Machines /\ k.wcand \in Readings /\ n.press \in Nat /\ limit \in Nat
    <2>1. req.expected \in Nat
      BY Asking DEF World
    <2>2. limit \in Nat
      BY <2>1
    <2> HIDE DEF limit
    <2> QED BY <1>1, <1>5, <2>2, Members DEF Beside
  <1>7. /\ next \in Machines /\ next.press = n.press + 1 /\ next.st = "SWEEP"
        /\ next.attempt = n.attempt
    BY <1>1, <1>5, <1>6, Pressing DEF Beside
  <1> HIDE DEF next
  <1>8. turn \in Machines /\ on \in Machines
    BY <1>6, <1>7, Literals, Updates, Zenon DEF World
  <1>9. /\ turn.st = "SWEEP" /\ turn.attempt = n.attempt /\ turn.press = n.press + 1
        /\ on.st = "SWEEP" /\ on.attempt = n.attempt /\ on.press = n.press + 1
    BY <1>7 DEF Machines
  <1> HIDE DEF turn, on
  <1>10. /\ MachineInv(finish(n, TRUE)) /\ MachineInv(finish(next, TRUE))
         /\ finish(n, TRUE).st = "TEARDOWN" /\ finish(next, TRUE).st = "TEARDOWN"
    BY <1>1, <1>7, FinishInv DEF World, Fulfils, Plain
  <1>11. MachineInv(k) /\ k.st = "SWEEP"
    BY <1>1, <1>5, InState DEF Beside
  <1>12. CASE spent
    <2>1. out = Goes(finish(n, TRUE))
      BY <1>4, <1>12
    <2> QED BY <1>10, <2>1, GoesGood
  <1>13. CASE ~spent
    <2>1. n.press + 1 <= limit
      BY <1>6, <1>13
    <2>2. MachineInv(turn) /\ MachineInv(on)
      BY <1>1, <1>8, <1>9, <2>1, InState
    <2> HIDE DEF spent
    <2>3. CASE o.r = "RUN"
      <3>1. out = Res(k, o.press, Nothing)
        BY <1>4, <1>13, <2>3
      <3> QED BY <1>5, <1>11, <3>1, ResGood, Silent
    <2>4. CASE o.r = "FAIL"
      <3>1. out \in {Goes(turn), Goes(finish(next, TRUE))}
        BY <1>4, <1>13, <2>4
      <3> QED BY <1>9, <1>10, <2>2, <3>1, GoesGood
    <2>5. CASE o.r = "OK"
      <3>1. out = Goes(on)
        BY <1>4, <1>13, <2>5
      <3> QED BY <1>9, <2>2, <3>1, GoesGood
    <2> QED BY <1>5, <2>3, <2>4, <2>5 DEF Results
  <1> QED BY <1>12, <1>13

LEMMA SweepPass ==
  ASSUME World, NEW n, MachineInv(n), n.st = "SWEEP", NEW noise \in BOOLEAN
  PROVE  Fine(Sweep(n, noise))
  <1>1. n.swphase \in 0 .. 2
    BY Members DEF MachineInv
  <1>2. Sweep(n, noise) \in {sweep_focus(n, noise), sweep_capture(n), sweep_move(n, noise)}
    <2>1. n.swphase = 0 \/ n.swphase = 1 \/ n.swphase = 2
      BY <1>1
    <2> QED BY <2>1 DEF Sweep
  <1> QED BY <1>2, SweepFocusPass, SweepCapturePass, SweepMovePass

-----------------------------------------------------------------------------
(* Teardown, and a pass *)

LEMMA AbortPass ==
  ASSUME World, NEW n, MachineInv(n), n.st = "ABORT_ESC", NEW noise \in BOOLEAN
  PROVE  Fine(AbortEsc(n, noise))
  <1> DEFINE o == step(n.eng, "ESC", Look(TRUE, noise), 0, TRUE)
             k == [n EXCEPT !.eng = o.n]
  <1>1. n \in Machines
    BY DEF MachineInv
  <1>2. n.eng \in EngineStates /\ Look(TRUE, noise) \in Looks
    BY <1>1, Members, LookTyped
  <1>3. o \in Outcomes
    BY <1>2, StepOut, Words DEF StepResult
  <1>4. AbortEsc(n, noise) \in {Goes(finish(k, FALSE)), Stays(n, o)}
    BY DEF AbortEsc
  <1> HIDE DEF o
  <1>5. o.n \in EngineStates
    BY <1>3, OutcomeFields
  <1>6. k \in Machines
    BY <1>1, <1>5, Updates
  <1> HIDE DEF k
  <1>7. Fine(Goes(finish(k, FALSE))) /\ Fine(Stays(n, o))
    BY <1>3, <1>6, FinishInv, GoesGood, StaysGood DEF World
  <1> QED BY <1>4, <1>7

LEMMA TeardownPass ==
  ASSUME World, NEW n, MachineInv(n), n.st = "TEARDOWN", NEW noise \in BOOLEAN
  PROVE  Fine(Teardown(n, noise))
  <1> DEFINE at == scr.page = "anchor"
             look == Look(at, noise)
             o == esc_anchor(n.eng, look, FALSE)
             k == [n EXCEPT !.eng = o.n, !.st = "IDLE"]
             value == IF n.ok THEN n.cur ELSE n.old
             calls == [Nothing EXCEPT !.done = TRUE, !.ok = n.ok, !.value = value]
  <1>1. n \in Machines /\ (n.ok => Fulfils(n))
    BY DEF MachineInv
  <1>2. /\ n.eng \in EngineStates /\ n.ok \in BOOLEAN /\ n.cur \in Readings /\ n.old \in Readings
    BY <1>1, Members
  <1>3. at \in BOOLEAN
    OBVIOUS
  <1>4. look \in Looks
    <2> HIDE DEF at
    <2> QED BY <1>3, LookTyped
  <1>5. Teardown(n, noise) \in {Stays(n, o), Res(k, NoKey, calls)}
    BY DEF Teardown
  <1> HIDE DEF look
  <1>6. o \in Outcomes
    BY <1>2, <1>4, EscAnchorOut DEF AnchorOut, Verified
  <1> HIDE DEF o
  <1>7. /\ o.n \in EngineStates /\ value \in Readings
        /\ n.ok /\ Plain => req.ops[1].target \in {NoRow, value}
    BY <1>1, <1>2, <1>6, OutcomeFields DEF Fulfils
  <1> HIDE DEF value
  <1>8. k \in Machines
    BY <1>1, <1>7, Words2, Updates, Zenon
  <1>9. k.st = "IDLE"
    BY <1>1 DEF Machines
  <1> HIDE DEF k
  <1>10. MachineInv(k) /\ calls \in Calls
    BY <1>2, <1>7, <1>8, <1>9, InState, Silent
  <1> HIDE DEF calls
  <1>11. Fine(Stays(n, o)) /\ Fine(Res(k, NoKey, calls))
    BY <1>6, <1>9, <1>10, StaysGood, ResGood, Words
  <1> QED BY <1>5, <1>11

LEMMA PassGood ==
  ASSUME World, MachineInv(m), NEW noise \in BOOLEAN
  PROVE  Good(Pass(noise)) /\ Aims(m, Pass(noise).m)
  <1>1. m.st \in States
    BY Members DEF MachineInv
  <1>0. /\ \A p : Fine(p) => Good(p) /\ Aims(m, p.m)
        /\ \A p : Good(p) /\ Aimed(p.m) => Good(p) /\ Aims(m, p.m)
    BY DEF Fine, Aims, Aimed, SetsOut
  <1>2. CASE m.st = "IDLE"
    BY <1>0, <1>2, GoesGood DEF Pass
  <1>3. CASE m.st = "ANCHOR"
    BY <1>0, <1>3, AnchorPass DEF Pass
  <1>4. CASE m.st = "ROUTE"
    BY <1>0, <1>4, RoutePass DEF Pass
  <1>5. CASE m.st = "READ"
    BY <1>0, <1>5, ReadPass DEF Pass
  <1>6. CASE m.st = "FOCUS"
    BY <1>0, <1>6, FocusPass DEF Pass
  <1>7. CASE m.st = "EDIT"
    BY <1>0, <1>7, EditPass DEF Pass
  <1>8. CASE m.st = "COMMIT"
    BY <1>0, <1>8, CommitPass DEF Pass
  <1>9. CASE m.st = "SWEEP"
    BY <1>0, <1>9, SweepPass DEF Pass
  <1>10. CASE m.st = "ABORT_ESC"
    BY <1>0, <1>10, AbortPass DEF Pass
  <1>11. CASE m.st = "TEARDOWN"
    BY <1>0, <1>11, TeardownPass DEF Pass
  <1> QED BY <1>1, <1>2, <1>3, <1>4, <1>5, <1>6, <1>7, <1>8, <1>9, <1>10, <1>11 DEF States

-----------------------------------------------------------------------------
(* The controller *)

LEMMA DeviceUpdates ==
  ASSUME NEW d \in Devices
  PROVE  /\ \A v \in Pages : [d EXCEPT !.page = v] \in Devices
         /\ \A v \in Nat : [d EXCEPT !.at = v] \in Devices
         /\ \A v \in Readings : [d EXCEPT !.near = v] \in Devices
         /\ \A v \in 0 .. 2 : [d EXCEPT !.focus = v] \in Devices
         /\ \A v \in Values : [d EXCEPT !.sel = v] \in Devices
         /\ \A v \in Values : [d EXCEPT !.shown1 = v] \in Devices
         /\ \A v \in Values : [d EXCEPT !.shown2 = v] \in Devices
         /\ \A v \in [Values -> Values] : [d EXCEPT !.prog = v] \in Devices
  BY DEF Devices

LEMMA DeviceMembers ==
  ASSUME NEW d \in Devices
  PROVE  /\ d.page \in Pages /\ d.at \in Nat /\ d.near \in Readings /\ d.focus \in 0 .. 2
         /\ d.sel \in Values /\ d.shown1 \in Values /\ d.shown2 \in Values
         /\ d.prog \in [Values -> Values] /\ d.linked \in BOOLEAN /\ d.wraps \in BOOLEAN
         /\ d.grid \in Nat \ {0} /\ d.named \in BOOLEAN
  BY DEF Devices

\* A controller that the machine may find.
Sound(d) == d \in Devices /\ OnEntry(d)

LEMMA NumberTyped ==
  ASSUME NEW d \in Devices, NEW v \in Values
  PROVE  Number(d, v) \in Values
  BY DeviceMembers, Constants DEF Number

LEMMA ClosedSound ==
  ASSUME NEW d, Sound(d)
  PROVE  Sound(Closed(d)) /\ Closed(d) \in Devices
  <1> DEFINE k == [d EXCEPT !.focus = 0, !.shown1 = d.sel, !.shown2 = 0]
  <1>1. d \in Devices
    BY DEF Sound
  <1>2. 0 \in 0 .. 2 /\ 0 \in Values /\ d.sel \in Values
    BY <1>1, Constants, DeviceMembers
  <1>3. k \in Devices
    BY <1>1, <1>2, DeviceUpdates, Zenon
  <1>4. k.page = d.page /\ k.at = d.at
    BY <1>1 DEF Devices
  <1>5. Closed(d) = k
    BY DEF Closed
  <1> HIDE DEF k
  <1> QED BY <1>3, <1>4, <1>5 DEF Sound, OnEntry

LEMMA AtSound ==
  ASSUME NEW d, Sound(d), NEW pages \in SUBSET Pages, NEW e \in At(d, pages)
  PROVE  Sound(e)
  <1>1. PICK p \in pages :
          e \in {Opened(d, p, near, at) : near \in IF p = "else" THEN NearRows ELSE {NoRow},
                                          at \in IF p = "menu" THEN 1 .. MenuN ELSE {0}}
    BY DEF At
  <1>2. PICK near \in IF p = "else" THEN NearRows ELSE {NoRow},
             at \in IF p = "menu" THEN 1 .. MenuN ELSE {0} : e = Opened(d, p, near, at)
    BY <1>1
  <1> DEFINE c == Closed(d)
  <1>3. c \in Devices
    BY ClosedSound
  <1>4. p \in Pages /\ near \in Readings /\ at \in Nat /\ (p = "menu" => at \in 1 .. MenuN)
    BY Constants, EngineAssumption
  <1>5. e = [c EXCEPT !.page = p, !.near = near, !.at = at]
    BY <1>2 DEF Opened
  <1> HIDE DEF c
  <1>6. e \in Devices
    BY <1>3, <1>4, <1>5, DeviceUpdates, Zenon
  <1>7. e.page = p /\ e.at = at
    BY <1>3, <1>5 DEF Devices
  <1> QED BY <1>4, <1>6, <1>7 DEF Sound, OnEntry

LEMMA EntersSound ==
  ASSUME NEW d, Sound(d)
  PROVE  Sound(Enters(d))
  <1> DEFINE x == IF d.linked THEN d.sel ELSE 0
             prog == [d.prog EXCEPT ![x] = d.shown2]
             k0 == [d EXCEPT !.focus = 1]
             k1 == [d EXCEPT !.sel = d.shown1, !.focus = 2, !.shown2 = Number(d, d.shown1)]
             k2 == [d EXCEPT !.prog = prog]
  <1>1. d \in Devices
    BY DEF Sound
  <1>2. /\ d.focus \in 0 .. 2 /\ d.sel \in Values /\ d.shown1 \in Values /\ d.shown2 \in Values
        /\ d.prog \in [Values -> Values] /\ 0 \in Values
    BY <1>1, Constants, DeviceMembers
  <1>3. Number(d, d.shown1) \in Values /\ 1 \in 0 .. 2 /\ 2 \in 0 .. 2
    BY <1>1, <1>2, NumberTyped
  <1>4. prog \in [Values -> Values]
    BY <1>2
  <1>5. Enters(d) = CASE d.focus = 0 -> k0
                      [] d.focus = 1 -> k1
                      [] d.focus = 2 -> Closed(k2)
    BY DEF Enters
  <1> HIDE DEF prog
  <1>6. k0 \in Devices /\ k1 \in Devices /\ k2 \in Devices
    BY <1>1, <1>2, <1>3, <1>4, DeviceUpdates, Zenon
  <1>7. /\ k0.page = d.page /\ k0.at = d.at /\ k1.page = d.page /\ k1.at = d.at
        /\ k2.page = d.page /\ k2.at = d.at
    BY <1>1 DEF Devices
  <1> HIDE DEF k0, k1, k2
  <1>8. Sound(k0) /\ Sound(k1) /\ Sound(k2)
    BY <1>6, <1>7 DEF Sound, OnEntry
  <1>9. Sound(Closed(k2))
    BY <1>8, ClosedSound
  <1>10. d.focus = 0 \/ d.focus = 1 \/ d.focus = 2
    BY <1>2
  <1> QED BY <1>5, <1>8, <1>9, <1>10

LEMMA SteppedTyped ==
  ASSUME NEW v \in Values, NEW up \in BOOLEAN, NEW grid \in Nat \ {0}, NEW wraps \in BOOLEAN
  PROVE  Stepped(v, up, grid, wraps) \in Values
  <1>1. Top \in Nat
    BY Constants
  <1>2. CASE up
    <2>1. Stepped(v, up, grid, wraps) = IF v + grid <= Top THEN v + grid ELSE IF wraps THEN 0 ELSE v
      BY <1>2 DEF Stepped
    <2> QED BY <1>1, <2>1 DEF Values
  <1>3. CASE ~up
    <2>1. Stepped(v, up, grid, wraps) = IF v >= grid THEN v - grid ELSE IF wraps THEN Top ELSE v
      BY <1>3 DEF Stepped
    <2> QED BY <1>1, <2>1 DEF Values
  <1> QED BY <1>2, <1>3

LEMMA MovesSound ==
  ASSUME NEW d, Sound(d), NEW key
  PROVE  Sound(Moves(d, key))
  <1> DEFINE up == key = "UP"
             v1 == Stepped(d.shown1, up, 1, d.wraps)
             v2 == Stepped(d.shown2, up, d.grid, FALSE)
             k1 == [d EXCEPT !.shown1 = v1]
             k2 == [d EXCEPT !.shown2 = v2]
  <1>1. d \in Devices
    BY DEF Sound
  <1>2. up \in BOOLEAN
    OBVIOUS
  <1>3. v1 \in Values /\ v2 \in Values
    <2> HIDE DEF up
    <2>1. /\ d.shown1 \in Values /\ d.shown2 \in Values /\ d.wraps \in BOOLEAN
          /\ d.grid \in Nat \ {0} /\ 1 \in Nat \ {0} /\ FALSE \in BOOLEAN
      BY <1>1, DeviceMembers
    <2> QED BY <1>2, <2>1, SteppedTyped
  <1>4. Moves(d, key) \in {k1, k2}
    BY DEF Moves
  <1> HIDE DEF v1, v2
  <1>5. k1 \in Devices /\ k2 \in Devices
    BY <1>1, <1>3, DeviceUpdates
  <1>6. k1.page = d.page /\ k1.at = d.at /\ k2.page = d.page /\ k2.at = d.at
    BY <1>1 DEF Devices
  <1> HIDE DEF k1, k2
  <1> QED BY <1>4, <1>5, <1>6 DEF Sound, OnEntry

\* The cursor of a menu, or the Ups of the gate, moves.
LEMMA AtMoved ==
  ASSUME NEW d, Sound(d), NEW at \in Nat, d.page = "menu" => at \in 1 .. MenuN
  PROVE  Sound([d EXCEPT !.at = at])
  <1> DEFINE k == [d EXCEPT !.at = at]
  <1>1. k \in Devices
    BY DeviceUpdates DEF Sound
  <1>2. k.page = d.page /\ k.at = at
    BY DEF Sound, Devices
  <1> HIDE DEF k
  <1>3. Sound(k)
    BY <1>1, <1>2 DEF Sound, OnEntry
  <1> QED BY <1>3 DEF k

LEMMA PressSound ==
  ASSUME NEW d, Sound(d), NEW key, key \in Keys, NEW e \in Press(d, key)
  PROVE  Sound(e)
  <1>1. d \in Devices /\ d.page \in Pages /\ d.at \in Nat /\ d.focus \in 0 .. 2
    BY DeviceMembers DEF Sound
  <1>2. ASSUME NEW p \in SUBSET Pages, e \in At(d, p) PROVE Sound(e)
    BY <1>2, AtSound
  <1>3. /\ {"anchor", "else"} \in SUBSET Pages /\ {"else"} \in SUBSET Pages
        /\ {"gate", "value"} \in SUBSET Pages /\ {"else", "value"} \in SUBSET Pages
        /\ {"anchor"} \in SUBSET Pages /\ {"else", "menu"} \in SUBSET Pages
    BY DEF Pages
  <1>4. CASE d.page = "value" /\ key = "ENTER"
    <2>1. e = Enters(d)
      BY <1>4 DEF Press
    <2> QED BY <2>1, EntersSound
  <1>5. CASE d.page = "value" /\ key # "ENTER"
    <2>1. e \in OnValuePage(d, key)
      BY <1>5 DEF Press
    <2>2. CASE d.focus > 0
      <3>1. d.focus > 0 /\ d.focus # 0
        BY <1>1, <2>2
      <3>2. e \in {Closed(d), Moves(d, key)}
        BY <2>1, <3>1 DEF OnValuePage
      <3> QED BY <3>2, ClosedSound, MovesSound
    <2>3. CASE d.focus = 0
      <3>1. ~(d.focus > 0)
        BY <2>3
      <3>2. e \in At(d, {"anchor", "else"}) \/ e \in At(d, {"else"})
        BY <2>1, <2>3, <3>1 DEF OnValuePage
      <3> QED BY <1>2, <1>3, <3>2
    <2> QED BY <1>1, <2>2, <2>3
  <1>6. CASE d.page # "value" /\ key = "ESC"
    <2>1. e \in {Closed(d)} \cup At(d, {"anchor"})
      BY <1>6 DEF Press
    <2> QED BY <1>2, <1>3, <2>1, ClosedSound
  <1>7. CASE d.page = "menu" /\ key # "ESC"
    <2> DEFINE down == key = "DOWN"
               k == [d EXCEPT !.at = Beyond(d.at, down)]
    <2>1. e \in OnMenu(d, key)
      BY <1>7 DEF Press
    <2>2. e \in At(d, {"gate", "value"}) \/ e \in At(d, {"else"}) \/ e = k
      BY <2>1 DEF OnMenu
    <2>3. d.at \in 1 .. MenuN
      BY <1>7 DEF Sound, OnEntry
    <2>4. Beyond(d.at, down) \in 1 .. MenuN
      <3> HIDE DEF down
      <3> QED BY <2>3, BeyondTyped
    <2> HIDE DEF down
    <2>5. Beyond(d.at, down) \in Nat
      BY <2>4
    <2>6. Sound(k)
      BY <2>4, <2>5, AtMoved
    <2> HIDE DEF k
    <2> QED BY <1>2, <1>3, <2>2, <2>6
  <1>8. CASE d.page = "gate" /\ key # "ESC"
    <2> DEFINE at == Elapsed(d.at, TypedMax)
               k == [d EXCEPT !.at = at]
    <2>1. e \in OnGate(d, key)
      BY <1>8 DEF Press
    <2>2. e = d \/ e \in At(d, {"else", "value"}) \/ e = k
      BY <1>8, <2>1 DEF OnGate, Keys
    <2>3. at \in Nat
      BY <1>1 DEF Elapsed
    <2> HIDE DEF at
    <2>4. Sound(k)
      BY <1>8, <2>3, AtMoved
    <2> HIDE DEF k
    <2> QED BY <1>2, <1>3, <2>2, <2>4
  <1>9. CASE d.page \notin {"value", "menu", "gate"} /\ key # "ESC"
    <2>1. e \in At(d, {"else", IF Hidden THEN "menu" ELSE "value"})
      BY <1>9 DEF Press
    <2>2. e \in At(d, {"else", "menu"}) \/ e \in At(d, {"else", "value"})
      BY <2>1
    <2> QED BY <1>2, <1>3, <2>2
  <1> QED BY <1>4, <1>5, <1>6, <1>7, <1>8, <1>9

LEMMA ShownTyped ==
  ASSUME NEW d, Sound(d)
  PROVE  Shown(d) \in Screens /\ OnEntry(Shown(d))
  <1> DEFINE row == IF d.page = "value" THEN <<d.shown1, Row2(d)>> ELSE <<d.near, d.near>>
  <1>1. d \in Devices
    BY DEF Sound
  <1>2. /\ d.page \in Pages /\ d.at \in Nat /\ d.near \in Readings /\ d.shown1 \in Values
        /\ d.shown2 \in Values
    BY <1>1, DeviceMembers
  <1>3. Row2(d) \in Values
    BY <1>1, <1>2, NumberTyped DEF Row2
  <1>4. row \in [Fields -> Readings]
    <2>1. \A a \in Readings, b \in Readings : <<a, b>> \in [Fields -> Readings]
      BY DEF Fields
    <2>2. d.shown1 \in Readings /\ Row2(d) \in Readings
      BY <1>2, <1>3, Constants
    <2> QED BY <1>2, <2>1, <2>2
  <1>5. Shown(d) = [page |-> d.page, at |-> d.at, row |-> row]
    BY DEF Shown
  <1> HIDE DEF row
  <1>6. Shown(d) \in Screens
    BY <1>2, <1>4, <1>5 DEF Screens
  <1>7. Shown(d).page = d.page /\ Shown(d).at = d.at
    BY <1>5
  <1> QED BY <1>6, <1>7 DEF Sound, OnEntry

-----------------------------------------------------------------------------
(* The invariant is kept *)

LEMMA Carried ==
  ASSUME NEW n, MachineInv(n), m' = n, req' = req, route' = route
  PROVE  MachineInv(m)'
  <1>1. Machines' = Machines
    BY DEF Machines
  <1>2. Op(m)' = Op(n) /\ (StepInv(m)' <=> StepInv(n)) /\ (Fulfils(m)' <=> Fulfils(n))
    BY DEF Op, StepInv, Fulfils, Plain
  <1> QED BY <1>1, <1>2 DEF MachineInv

LEMMA Worldly == IInv => World
  BY DEF IInv, World, Around

LEMMA KeyAdded ==
  ASSUME keys \in InFlight, NEW key \in Keys
  PROVE  Append(keys, [key |-> key, age |-> 0]) \in InFlight
  <1>1. 0 \in 0 .. Ttl
    BY Constants
  <1>2. [key |-> key, age |-> 0] \in UnderWay
    BY <1>1 DEF UnderWay
  <1> QED BY <1>2 DEF InFlight

LEMMA TickInv == IInv /\ Tick => IInv'
  <1> SUFFICES ASSUME IInv, Tick PROVE IInv'
    OBVIOUS
  <1>1. PICK noise \in BOOLEAN :
          /\ m' = Pass(noise).m /\ did' = Pass(noise).did
          /\ keys' = IF Pass(noise).press = NoKey THEN keys
                     ELSE Append(keys, [key |-> Pass(noise).press, age |-> 0])
    BY DEF Tick
  <1>2. Good(Pass(noise))
    BY Worldly, PassGood DEF IInv
  <1> DEFINE p == Pass(noise)
  <1>3. /\ req' = req /\ route' = route /\ dev' = dev /\ scr' = scr /\ owed' = owed /\ calm' = calm
        /\ made' = made /\ lost' = lost /\ passes' \in 0 .. 2
    BY DEF Tick
  <1>4. MachineInv(m)' /\ (did \in Calls)'
    BY <1>1, <1>2, <1>3, Carried, Told DEF Good
  <1> HIDE DEF p
  <1>5. keys' \in InFlight
    <2>1. keys \in InFlight /\ p.press \in Pressed
      BY <1>2 DEF IInv, Around, Good, p
    <2>2. keys' = IF p.press = NoKey THEN keys ELSE Append(keys, [key |-> p.press, age |-> 0])
      BY <1>1 DEF p
    <2>3. CASE p.press = NoKey
      BY <2>1, <2>2, <2>3
    <2>4. CASE p.press # NoKey
      <3>1. p.press \in Keys
        BY <2>1, <2>4 DEF Pressed
      <3> QED BY <2>1, <2>2, <2>4, <3>1, KeyAdded
    <2> QED BY <2>3, <2>4
  <1> QED BY <1>3, <1>4, <1>5 DEF IInv, Around, Visiting, OnEntry, InFlight

LEMMA BeginInv == IInv /\ begin => IInv'
  <1> SUFFICES ASSUME IInv, begin PROVE IInv'
    OBVIOUS
  <1> DEFINE k == [Idle EXCEPT !.st = "ANCHOR", !.resync = m.resync]
  <1>1. Visiting /\ m \in Machines
    BY DEF IInv, MachineInv
  <1>2. m.resync \in BOOLEAN /\ Idle \in Machines
    BY <1>1, Members, IdleTyped DEF MachineInv
  <1>3. k \in Machines
    BY <1>2, Words2, Updates, Zenon
  <1>4. k.st = "ANCHOR" /\ k.attempt = 0 /\ k.press = 0
    BY DEF Idle
  <1> HIDE DEF k
  <1>5. MachineInv(k)
    <2>1. 0 < Attempts
      BY Constants
    <2> QED BY <1>3, <1>4, <2>1, InState
  <1>6. /\ m' = k /\ req' = req /\ route' = route /\ dev' = dev /\ scr' = scr /\ owed' = owed
        /\ calm' = calm /\ keys' = keys /\ passes' = passes /\ did' = Nothing /\ lost' = FALSE
        /\ made' = made + 1 /\ made < req.times
    BY DEF begin, k
  <1>7. MachineInv(m)'
    BY <1>5, <1>6, Carried
  <1>8. made' \in 0 .. req'.times
    <2>1. req.times \in Nat \ {0} /\ made \in 0 .. req.times
      BY <1>1, Asking DEF IInv, Around
    <2> QED BY <1>6, <2>1
  <1> QED BY <1>6, <1>7, <1>8, Silent, Told DEF IInv, Around, Visiting, OnEntry, InFlight

LEMMA ResyncInv == IInv /\ resync_anchor => IInv'
  <1> SUFFICES ASSUME IInv, resync_anchor PROVE IInv'
    OBVIOUS
  <1> DEFINE k == [m EXCEPT !.resync = TRUE]
  <1>1. /\ m' = k /\ m.st = "IDLE" /\ req' = req /\ route' = route /\ dev' = dev /\ scr' = scr
        /\ owed' = owed /\ calm' = calm /\ keys' = keys /\ passes' = passes /\ did' = Nothing
        /\ lost' = lost /\ made' = made
    BY DEF resync_anchor
  <1>2. m \in Machines
    BY DEF IInv, MachineInv
  <1>3. k \in Machines /\ k.st = "IDLE"
    <2>1. k \in Machines
      BY <1>2, Updates
    <2> QED BY <1>1, <1>2, <2>1 DEF Machines
  <1> HIDE DEF k
  <1>4. MachineInv(k)
    BY <1>3, InState
  <1>5. MachineInv(m)'
    BY <1>1, <1>4, Carried
  <1> QED BY <1>1, <1>5, Silent, Told DEF IInv, Around, Visiting, OnEntry, InFlight

\* The press at the head of the line leaves it.
LEMMA HeadTyped ==
  ASSUME keys \in InFlight, keys # <<>>
  PROVE  Head(keys).key \in Keys /\ Tail(keys) \in InFlight
  <1>1. Head(keys) \in UnderWay /\ Tail(keys) \in InFlight
    BY DEF InFlight
  <1> QED BY <1>1 DEF UnderWay

LEMMA TakesInv == IInv /\ Takes => IInv'
  <1> SUFFICES ASSUME IInv, Takes PROVE IInv'
    OBVIOUS
  <1>1. /\ keys # <<>> /\ dev' \in Press(dev, Head(keys).key) /\ keys' = Tail(keys) /\ did' = Nothing
        /\ owed' = Draws(Head(keys).key) /\ m' = m /\ req' = req /\ route' = route /\ scr' = scr
        /\ calm' = calm /\ passes' = passes /\ made' = made /\ lost' = lost
    BY DEF Takes
  <1>2. keys \in InFlight /\ Sound(dev) /\ owed \in {"nothing", "page", "field"} /\ MachineInv(m)
    BY DEF IInv, Around, Sound
  <1>3. Head(keys).key \in Keys /\ keys' \in InFlight
    BY <1>1, <1>2, HeadTyped
  <1>4. Sound(dev')
    BY <1>1, <1>2, <1>3, PressSound
  <1>5. owed' \in {"nothing", "page", "field"}
    BY <1>1, <1>2 DEF Draws
  <1>6. MachineInv(m)'
    BY <1>1, <1>2, Carried
  <1> QED BY <1>1, <1>3, <1>4, <1>5, <1>6, Silent, Told DEF IInv, Around, Visiting, OnEntry, InFlight, Sound

LEMMA DropsInv == IInv /\ Drops => IInv'
  <1> SUFFICES ASSUME IInv, Drops PROVE IInv'
    OBVIOUS
  <1> DEFINE e == [m.eng EXCEPT !.lost = TRUE]
             k == [m EXCEPT !.eng = e]
  <1>1. /\ keys # <<>> /\ keys' = Tail(keys) /\ did' = Nothing /\ req' = req /\ route' = route
        /\ dev' = dev /\ scr' = scr /\ owed' = owed /\ calm' = calm /\ passes' = passes
        /\ made' = made
    BY DEF Drops
  <1>2. m' \in {m, [m EXCEPT !.eng.lost = TRUE]} /\ lost' \in BOOLEAN
    <2>1. lost \in BOOLEAN
      BY DEF IInv, Around
    <2> QED BY <2>1 DEF Drops
  <1>3. keys \in InFlight /\ MachineInv(m) /\ m \in Machines /\ m.eng \in EngineStates
    BY Members DEF IInv, Around, MachineInv
  <1>4. [m EXCEPT !.eng.lost = TRUE] = k
    BY <1>3 DEF Machines
  <1>5. e \in EngineStates
    BY <1>3, Update
  <1>6. MachineInv(k)
    <2> HIDE DEF e
    <2> QED BY <1>3, <1>5, EngineInv
  <1> HIDE DEF k
  <1>7. MachineInv(m)'
    BY <1>1, <1>2, <1>3, <1>4, <1>6, Carried
  <1>8. keys' \in InFlight
    BY <1>1, <1>3, HeadTyped
  <1> QED BY <1>1, <1>2, <1>7, <1>8, Silent, Told DEF IInv, Around, Visiting, OnEntry, InFlight

LEMMA RepaintInv == IInv /\ Repaint => IInv'
  <1> SUFFICES ASSUME IInv, Repaint PROVE IInv'
    OBVIOUS
  <1>1. /\ owed' = "nothing" /\ scr' = Shown(dev) /\ calm' = FALSE /\ passes' = 0 /\ did' = Nothing
        /\ m' = m /\ req' = req /\ route' = route /\ keys' = keys /\ dev' = dev /\ made' = made
        /\ lost' = lost
    BY DEF Repaint
  <1>2. Sound(dev) /\ MachineInv(m)
    BY DEF IInv, Sound
  <1>3. scr' \in Screens /\ OnEntry(scr')
    BY <1>1, <1>2, ShownTyped
  <1>4. MachineInv(m)'
    BY <1>1, <1>2, Carried
  <1>5. Around'
    <2>1. calm' \in BOOLEAN /\ passes' \in 0 .. 2
      <3>1. 0 \in 0 .. 2
        OBVIOUS
      <3> QED BY <1>1, <3>1, Zenon
    <2> QED BY <1>1, <2>1 DEF IInv, Around
  <1> QED BY <1>1, <1>3, <1>4, <1>5, Silent, Told DEF IInv, Visiting, OnEntry

LEMMA TearInv == IInv /\ Tear => IInv'
  <1> SUFFICES ASSUME IInv, Tear PROVE IInv'
    OBVIOUS
  <1>1. PICK f \in Fields, glimpse \in Readings : scr' = [scr EXCEPT !.row[f] = glimpse]
    BY DEF Tear
  <1>2. /\ calm' = FALSE /\ passes' = 0 /\ did' = Nothing /\ m' = m /\ req' = req /\ route' = route
        /\ keys' = keys /\ dev' = dev /\ owed' = owed /\ made' = made /\ lost' = lost
    BY DEF Tear
  <1>3. scr \in Screens /\ OnEntry(scr) /\ MachineInv(m)
    BY DEF IInv
  <1> DEFINE row == [scr.row EXCEPT ![f] = glimpse]
  <1>4. row \in [Fields -> Readings]
    BY <1>3 DEF Screens
  <1>5. scr' = [scr EXCEPT !.row = row]
    BY <1>1, <1>3 DEF Screens
  <1> HIDE DEF row
  <1>6. scr' \in Screens /\ scr'.page = scr.page /\ scr'.at = scr.at
    BY <1>3, <1>4, <1>5 DEF Screens
  <1>7. OnEntry(scr')
    BY <1>3, <1>6 DEF OnEntry
  <1>8. MachineInv(m)'
    BY <1>2, <1>3, Carried
  <1>9. Around'
    <2>1. calm' \in BOOLEAN /\ passes' \in 0 .. 2
      <3>1. 0 \in 0 .. 2
        OBVIOUS
      <3> QED BY <1>2, <3>1, Zenon
    <2> QED BY <1>2, <2>1 DEF IInv, Around
  <1> QED BY <1>2, <1>6, <1>7, <1>8, <1>9, Silent, Told DEF IInv, Visiting, OnEntry

\* The clock moves the machine's ages and leaves the rest.
LEMMA ClockInv ==
  ASSUME NEW n, MachineInv(n), NEW e \in EngineStates, NEW w \in 0 .. Quiet, NEW d \in 0 .. Deadline
  PROVE  MachineInv([n EXCEPT !.eng = e, !.wq = w, !.wdead = d])
  <1> DEFINE k == [n EXCEPT !.eng = e, !.wq = w, !.wdead = d]
  <1>1. n \in Machines /\ k \in Machines
    BY Updates, Zenon DEF MachineInv
  <1>2. /\ k.st = n.st /\ k.attempt = n.attempt /\ k.press = n.press /\ k.confirm = n.confirm
        /\ k.step = n.step /\ k.rphase = n.rphase /\ k.field = n.field /\ k.op = n.op
        /\ k.cur = n.cur /\ k.ok = n.ok
    BY <1>1 DEF Machines
  <1>3. Op(k) = Op(n) /\ (StepInv(n) <=> StepInv(k)) /\ (Fulfils(n) <=> Fulfils(k))
    BY <1>2 DEF Op, StepInv, Fulfils
  <1> HIDE DEF k
  <1>4. MachineInv(k)
    BY <1>1, <1>2, <1>3 DEF MachineInv
  <1> QED BY <1>4 DEF k

LEMMA TimeInv == IInv /\ Time => IInv'
  <1> SUFFICES ASSUME IInv, Time PROVE IInv'
    OBVIOUS
  <1> DEFINE at == IF m.eng.phase = 0 THEN 0 ELSE Elapsed(m.eng.at, AgeCap)
             e == [m.eng EXCEPT !.at = at]
             w == IF m.wphase = 1 THEN Elapsed(m.wq, Quiet) ELSE 0
             d == IF m.wphase > 0 /\ m.wdead > 0 THEN m.wdead - 1 ELSE 0
             k == [m EXCEPT !.eng = e, !.wq = w, !.wdead = d]
  <1>1. /\ keys' = [i \in 1 .. Len(keys) |-> [keys[i] EXCEPT !.age = keys[i].age + 1]]
        /\ \A i \in 1 .. Len(keys) : keys[i].age < Ttl
        /\ calm' = TRUE /\ passes' = 0 /\ did' = Nothing /\ req' = req /\ route' = route /\ dev' = dev
        /\ scr' = scr /\ owed' = owed /\ made' = made /\ lost' = lost
    BY DEF Time, MayElapse
  <1>2. MachineInv(m) /\ m \in Machines
    BY DEF IInv, MachineInv
  <1>3. /\ m.eng \in EngineStates /\ m.wq \in 0 .. Quiet /\ m.wdead \in 0 .. Deadline
        /\ Quiet \in Nat /\ Deadline \in Nat
    BY <1>2, Members, Constants
  <1>4. m' = k
    <2>1. m' = [m EXCEPT !.eng.at = at, !.wq = w, !.wdead = d]
      BY DEF Time
    <2>2. [m EXCEPT !.eng.at = at] = [m EXCEPT !.eng = e]
      BY <1>2 DEF Machines
    <2> QED BY <2>1, <2>2, Zenon
  <1>5. m.eng.at \in 0 .. AgeCap /\ AgeCap \in Nat
    BY <1>3, SubFields, AgeCapNat
  <1>6. at \in 0 .. AgeCap
    BY <1>5 DEF Elapsed
  <1>7. w \in 0 .. Quiet /\ d \in 0 .. Deadline
    BY <1>3 DEF Elapsed
  <1> HIDE DEF at, w, d, k
  <1>8. e \in EngineStates
    BY <1>3, <1>6, Update
  <1> HIDE DEF e
  <1>9. MachineInv(k)
    BY <1>2, <1>7, <1>8, ClockInv DEF k
  <1>10. MachineInv(m)'
    BY <1>1, <1>4, <1>9, Carried
  <1>11. keys' \in InFlight
    <2>1. keys \in Seq(UnderWay)
      BY DEF IInv, Around, InFlight
    <2>2. Len(keys) \in Nat /\ \A i \in 1 .. Len(keys) : keys[i] \in UnderWay
      BY <2>1
    <2>3. ASSUME NEW x \in UnderWay, x.age < Ttl
          PROVE  [x EXCEPT !.age = x.age + 1] \in UnderWay
      <3>1. x.age \in 0 .. Ttl /\ Ttl \in Nat
        BY Constants DEF UnderWay
      <3>2. x.age + 1 \in 0 .. Ttl
        BY <2>3, <3>1
      <3> QED BY <3>2 DEF UnderWay
    <2>4. \A i \in 1 .. Len(keys) : [keys[i] EXCEPT !.age = keys[i].age + 1] \in UnderWay
      BY <1>1, <2>2, <2>3
    <2> QED BY <1>1, <2>2, <2>4 DEF InFlight
  <1>12. Around'
    BY <1>1, <1>11 DEF IInv, Around
  <1> QED BY <1>1, <1>10, <1>12, Silent, Told DEF IInv, Visiting, OnEntry

LEMMA InitInv == Init => IInv
  <1> SUFFICES ASSUME Init PROVE IInv
    OBVIOUS
  <1>1. PICK v \in Visits : req = v.req /\ route = v.route /\ dev = Arrived(v.page)
    BY DEF Init
  <1>2. Visiting
    BY <1>1 DEF Visiting
  <1>3. v.page \in Device
    BY EditAssumption DEF Visit
  <1>4. dev \in Devices /\ dev.page = "anchor"
    <2>1. /\ v.page.sel \in Values /\ v.page.prog \in [Values -> Values] /\ v.page.linked \in BOOLEAN
          /\ v.page.wraps \in BOOLEAN /\ v.page.grid \in Nat \ {0} /\ v.page.named \in BOOLEAN
      BY <1>3 DEF Device
    <2> QED BY <1>1, <2>1, Constants DEF Arrived, Devices, Pages
  <1>5. OnEntry(dev)
    BY <1>4 DEF OnEntry
  <1>6. scr \in Screens /\ OnEntry(scr)
    BY <1>4, <1>5, ShownTyped DEF Init, Sound
  <1>7. MachineInv(m)
    BY <1>2, IdleTyped DEF Init
  <1>8. req.times \in Nat \ {0}
    BY <1>2, Asking
  <1>9. did \in Calls
    BY Silent DEF Init
  <1>10. Around
    <2>1. keys = <<>> /\ owed = "nothing" /\ calm = TRUE /\ passes = 0 /\ made = 0 /\ lost = FALSE
      BY DEF Init
    <2>2. <<>> \in InFlight
      BY DEF InFlight
    <2>3. 0 \in 0 .. req.times
      BY <1>8
    <2>4. calm \in BOOLEAN /\ lost \in BOOLEAN
      BY <2>1, Zenon
    <2> QED BY <2>1, <2>2, <2>3, <2>4 DEF Around
  <1> QED BY <1>2, <1>4, <1>5, <1>6, <1>7, <1>9, <1>10 DEF IInv

LEMMA Invariance == Spec => []IInv
  <1>1. IInv /\ [Next]_vars => IInv'
    <2> SUFFICES ASSUME IInv, [Next]_vars PROVE IInv'
      OBVIOUS
    <2>1. CASE UNCHANGED vars
      <3>1. MachineInv(m)'
        BY <2>1, Carried DEF vars, IInv
      <3> QED BY <2>1, <3>1, Told DEF vars, IInv, Around, Visiting, OnEntry, InFlight
    <2> QED BY <2>1, TickInv, BeginInv, ResyncInv, TakesInv, DropsInv, RepaintInv, TearInv, TimeInv
            DEF Next
  <1> QED BY <1>1, InitInv, PTL DEF Spec

\* Whatever page, route and request, and whatever is lost, late or torn: an attempt
\* more than the budget, a focus past the page, an operation past the list, a step past
\* the route and a press past the bound of its state never happen.
THEOREM TypeCorrect == Spec => []TypeOK
  <1>1. IInv => TypeOK
    <2> SUFFICES ASSUME IInv PROVE TypeOK
      OBVIOUS
    <2>1. PressesBounded
      BY DEF IInv, MachineInv, PressesBounded, StepInv
    <2> QED BY <2>1 DEF TypeOK, IInv, MachineInv, Around, InFlight, UnderWay, Calls
  <1> QED BY <1>1, Invariance, PTL

\* Whatever is lost, late or torn, and whatever the waits: a set that is reported done
\* reports its target.  The visit that decides a plain set compares what it read
\* (plan_edit.h:291-304, 314-337), and nothing writes the value until the callback.
THEOREM TargetIsReported == Spec => []TargetReported
  <1>1. IInv => TargetReported
    BY DEF IInv, Calls, Tells, TargetReported
  <1> QED BY <1>1, Invariance, PTL

\* Only a pass sets out to commit; the clock and the pump's fates leave the state and
\* the operation of the machine as they are.
LEMMA NothingElseSetsOut ==
  ASSUME IInv, begin \/ resync_anchor \/ Takes \/ Drops \/ Repaint \/ Tear \/ Time
  PROVE  ~SetsOut(m, m')
  <1>1. m \in Machines
    BY DEF IInv, MachineInv
  <1>2. CASE begin
    <2>1. m' = [Idle EXCEPT !.st = "ANCHOR", !.resync = m.resync]
      BY <1>2 DEF begin
    <2>2. m'.st = "ANCHOR"
      BY <2>1 DEF Idle
    <2> QED BY <2>2 DEF SetsOut
  <1>3. CASE resync_anchor
    <2>1. m'.st = m.st /\ m.st = "IDLE"
      BY <1>1, <1>3 DEF resync_anchor, Machines
    <2> QED BY <2>1 DEF SetsOut
  <1>4. CASE Takes \/ Repaint \/ Tear
    <2>1. m' = m
      BY <1>4 DEF Takes, Repaint, Tear
    <2> QED BY <2>1 DEF SetsOut
  <1>5. CASE Drops
    <2>1. m' \in {m, [m EXCEPT !.eng.lost = TRUE]}
      BY <1>5 DEF Drops
    <2>2. m'.st = m.st /\ m'.op = m.op
      BY <1>1, <2>1 DEF Machines
    <2> QED BY <2>2 DEF SetsOut
  <1>6. CASE Time
    <2>1. m'.st = m.st /\ m'.op = m.op
      BY <1>1, <1>6 DEF Time, Machines
    <2> QED BY <2>1 DEF SetsOut
  <1> QED BY <1>2, <1>3, <1>4, <1>5, <1>6

\* For every page, route, request and choice of the waits (a quiet window of zero as
\* well), and however the rows are painted: the machine sets out to commit a field when
\* the row on the screen reads its target, or nothing can be read.  wait_change_ keeps
\* its candidate equal to the row through the quiet window, and every operation of a
\* list starts from the row as its predecessor left it.
THEOREM CommitsAreShown == Spec => CommitsWhatShows
  <1>1. IInv /\ [Next]_vars => [SeesTarget]_m
    <2> SUFFICES ASSUME IInv, [Next]_vars, SetsOut(m, m')
                 PROVE  Row(m') \in {NoRow, Op(m').target}
      BY DEF SeesTarget
    <2>1. CASE Tick
      <3>1. PICK noise \in BOOLEAN : m' = Pass(noise).m
        BY <2>1 DEF Tick
      <3>2. Aims(m, Pass(noise).m)
        BY Worldly, PassGood DEF IInv
      <3> QED BY <3>1, <3>2 DEF Aims
    <2>2. CASE UNCHANGED vars
      BY <2>2 DEF vars, SetsOut
    <2> QED BY <2>1, <2>2, NothingElseSetsOut DEF Next
  <1> QED BY <1>1, Invariance, PTL DEF Spec, CommitsWhatShows

-----------------------------------------------------------------------------
(* What each state presses *)

Arrows == {"UP", "DOWN"}

\* A route that ends with Enters that lead to the value page, no password asked for, and
\* before them has cursor menus, and seeks that press arrows.
Lands(r) ==
  /\ r[Len(r)].kind = "press" /\ r[Len(r)].key = "ENTER" /\ ~r[Len(r)].pin /\ r[Len(r)].exp = "value"
  /\ \A i \in 1 .. Len(r) - 1 : r[i].kind = "menu" \/ (r[i].kind = "seek" /\ r[i].key \in Arrows)
  /\ Len(r) > 1 => \E i \in 1 .. Len(r) : r[i].kind = "menu"

Homing == {"ANCHOR", "ABORT_ESC", "TEARDOWN", "IDLE"}
Working == {"FOCUS", "EDIT", "COMMIT", "SWEEP"}
WorkKeys == {"ENTER", "UP", "DOWN"}

\* The last step of the route presses Enter as often as it is told to, then waits.
LastStep(n) ==
  /\ n.rphase \in {0, 3}
  /\ n.rphase = 0 => Under(n.eng, {"ENTER"}) /\ (n.eng.phase # 0 => n.press < route[Len(route)].times)
  /\ n.rphase = 3 => Under(n.eng, {NoKey}) /\ n.eng.phase \in {0, 2}

\* The key under way is one that the state presses.
KeyOfState(n) ==
  /\ n.st \in Homing \ {"IDLE"} => Under(n.eng, {"ESC"})
  /\ n.st = "ROUTE" /\ n.step < Len(route) => Under(n.eng, MenuKeys)
  /\ n.st = "ROUTE" /\ n.step = Len(route) => LastStep(n)
  /\ n.st = "READ" => Under(n.eng, {NoKey})
  /\ n.st \in Working => Under(n.eng, WorkKeys)

\* No step is under way.
AtRest(n) == n.eng.phase = 0

LEMMA RestKeys ==
  ASSUME NEW n, AtRest(n)
  PROVE  /\ \A S : Under(n.eng, S)
         /\ n.st # "ROUTE" => KeyOfState(n)
         /\ n.st = "ROUTE" /\ n.rphase \in {0, 3} => KeyOfState(n)
  BY DEF Under, AtRest, KeyOfState, LastStep

\* The outcome paths start the engine afresh.
LEMMA ResetRest ==
  ASSUME NEW n \in Machines
  PROVE  AtRest(reset_edit(n)) /\ reset_edit(n).cur = n.cur
  BY DEF reset_edit, Machines, AtRest, Fresh

LEMMA Finishes ==
  ASSUME Visiting, NEW n \in Machines, NEW ok \in BOOLEAN
  PROVE  /\ finish(n, ok).st = "TEARDOWN" /\ finish(n, ok).ok = ok
         /\ finish(n, ok).cur = n.cur /\ AtRest(finish(n, ok))
  <1> DEFINE k == reset_edit(n)
  <1>1. k \in Machines /\ AtRest(k) /\ k.cur = n.cur
    BY ResetTyped, ResetRest
  <1>2. finish(n, ok) = [k EXCEPT !.st = "TEARDOWN", !.ok = ok]
    BY DEF finish
  <1> HIDE DEF k
  <1> QED BY <1>1, <1>2 DEF Machines, AtRest

LEMMA Aborts ==
  ASSUME Visiting, NEW n \in Machines
  PROVE  abort(n).st = "ABORT_ESC" /\ AtRest(abort(n))
  <1> DEFINE k == reset_edit(n)
  <1>1. k \in Machines /\ AtRest(k)
    BY ResetTyped, ResetRest
  <1>2. abort(n) = [k EXCEPT !.st = "ABORT_ESC"]
    BY DEF abort
  <1> HIDE DEF k
  <1> QED BY <1>1, <1>2 DEF Machines, AtRest

\* A route that failed is tried again, or the request has failed.
GivesUp(n) == n.st \in {"ANCHOR", "TEARDOWN"} /\ (n.st = "TEARDOWN" => ~n.ok) /\ AtRest(n)

LEMMA Retries ==
  ASSUME Visiting, NEW n \in Machines, n.attempt < Attempts
  PROVE  GivesUp(retry(n))
  <1> DEFINE k == [n EXCEPT !.attempt = n.attempt + 1]
             r == reset_edit(n)
  <1>0. n.attempt + 1 \in 0 .. Attempts
    <2>1. n.attempt \in 0 .. Attempts /\ Attempts \in Nat
      BY Members, Constants
    <2> QED BY <2>1
  <1>1. k \in Machines
    BY <1>0, Updates
  <1>2. r \in Machines /\ AtRest(r)
    BY ResetTyped, ResetRest
  <1>3. retry(n) = IF n.attempt + 1 >= Attempts THEN fail(k)
                   ELSE [r EXCEPT !.st = "ANCHOR", !.attempt = r.attempt + 1]
    BY DEF retry
  <1> HIDE DEF k, r
  <1>4. GivesUp(fail(k))
    BY <1>1, Finishes DEF fail, GivesUp
  <1>5. GivesUp([r EXCEPT !.st = "ANCHOR", !.attempt = r.attempt + 1])
    BY ZenonT(60), <1>2 DEF Machines, GivesUp, AtRest
  <1> QED BY <1>3, <1>4, <1>5

\* Nothing else than this is done while the machine is on its way.
Quietly(p) == p.did = Nothing

LEMMA AnchorKeys ==
  ASSUME World, NEW n, MachineInv(n), n.st = "ANCHOR", KeyOfState(n), NEW noise \in BOOLEAN
  PROVE  LET p == Anchor(n, noise)
         IN  /\ Quietly(p)
             /\ \/ p.m.st = "ANCHOR" /\ KeyOfState(p.m) /\ p.press \in {"ESC", NoKey}
                \/ GivesUp(p.m) /\ p.press = NoKey
                \/ /\ p.m.st = "ROUTE" /\ p.m.step = 1 /\ p.m.rphase = 0 /\ AtRest(p.m)
                   /\ p.press = NoKey /\ scr.page = "anchor"
  <1> DEFINE at == scr.page = "anchor"
             look == Look(at, noise)
             o == esc_anchor(n.eng, look, n.resync)
             again == n.resync /\ o.r = "RUN"
             next == [n EXCEPT !.eng = o.n, !.resync = again]
             on == [next EXCEPT !.st = "ROUTE", !.step = 1, !.rphase = 0]
             out == Anchor(n, noise)
             goal(p) == /\ Quietly(p)
                        /\ \/ p.m.st = "ANCHOR" /\ KeyOfState(p.m) /\ p.press \in {"ESC", NoKey}
                           \/ GivesUp(p.m) /\ p.press = NoKey
                           \/ /\ p.m.st = "ROUTE" /\ p.m.step = 1 /\ p.m.rphase = 0 /\ AtRest(p.m)
                              /\ p.press = NoKey /\ scr.page = "anchor"
  <1>1. n \in Machines /\ n.attempt < Attempts /\ Under(n.eng, {"ESC"})
    BY DEF MachineInv, KeyOfState, Homing
  <1>2. n.eng \in EngineStates /\ n.resync \in BOOLEAN
    BY <1>1, Members
  <1>3. at \in BOOLEAN
    OBVIOUS
  <1>4. look \in Looks /\ look.holds = at
    <2> HIDE DEF at
    <2> QED BY <1>3, LookTyped DEF Look
  <1>5. out = CASE o.r = "RUN"  -> Res(next, o.press, Nothing)
                [] o.r = "OK"   -> Goes(on)
                [] o.r = "FAIL" -> Goes(retry(next))
    BY DEF Anchor
  <1> SUFFICES goal(out)
    OBVIOUS
  <1> HIDE DEF look, out
  <1>6. o \in Outcomes /\ Within({"ESC"}, o) /\ (o.r = "OK" => look.holds)
    BY <1>1, <1>2, <1>4, EscAnchorOut, AnchorWithin DEF AnchorOut, Verified
  <1> HIDE DEF o
  <1>7. o.r \in Results /\ o.n \in EngineStates /\ o.press \in Pressed /\ again \in BOOLEAN
    BY <1>6, OutcomeFields
  <1> HIDE DEF again
  <1>8. next \in Machines
    BY <1>1, <1>7, Updates, Zenon
  <1>9. next.st = "ANCHOR" /\ next.attempt = n.attempt /\ next.eng = o.n
    BY <1>1 DEF Machines
  <1> HIDE DEF next
  <1>10. on.st = "ROUTE" /\ on.step = 1 /\ on.rphase = 0 /\ on.eng = o.n
    BY <1>8, <1>9 DEF Machines
  <1> HIDE DEF on
  <1>11. CASE o.r = "RUN"
    <2>1. out = Res(next, o.press, Nothing)
      BY <1>5, <1>11
    <2>2. KeyOfState(next)
      BY <1>6, <1>9 DEF KeyOfState, Within, Working
    <2> QED BY <1>6, <1>9, <2>1, <2>2 DEF Res, Within, Quietly
  <1>12. CASE o.r = "OK"
    <2>1. out = Goes(on)
      BY <1>5, <1>12
    <2>2. AtRest(on) /\ scr.page = "anchor"
      BY <1>4, <1>6, <1>10, <1>12 DEF Within, AtRest
    <2> QED BY <1>10, <2>1, <2>2 DEF Goes, Res, Quietly
  <1>13. CASE o.r = "FAIL"
    <2>1. out = Goes(retry(next))
      BY <1>5, <1>13
    <2>2. GivesUp(retry(next))
      BY <1>1, <1>8, <1>9, Retries DEF World
    <2> QED BY <2>1, <2>2 DEF Goes, Res, Quietly
  <1> QED BY <1>7, <1>11, <1>12, <1>13 DEF Results

\* The look of a step of the route.
LEMMA StepLook ==
  ASSUME World, NEW n \in Machines, NEW s, NEW noise \in BOOLEAN
  PROVE  LET look == Look(IF s.kind = "press" /\ n.rphase \in {1, 2} THEN GateShows(n) ELSE Expects(s), noise)
         IN  look \in Looks /\ (n.rphase \notin {1, 2} => look.holds = (scr.page = s.exp))
  <1> DEFINE holds == IF s.kind = "press" /\ n.rphase \in {1, 2} THEN GateShows(n) ELSE Expects(s)
             look == Look(holds, noise)
  <1>1. holds \in BOOLEAN /\ (n.rphase \notin {1, 2} => holds = (scr.page = s.exp))
    BY Zenon DEF GateShows, Expects
  <1> HIDE DEF holds
  <1>2. look \in Looks /\ look.holds = holds
    BY <1>1, LookTyped DEF Look
  <1>3. look \in Looks /\ (n.rphase \notin {1, 2} => look.holds = (scr.page = s.exp))
    BY <1>1, <1>2
  <1> QED BY <1>3 DEF holds

\* A step of the route that is not its last.
OnTheWay(n, o) ==
  /\ o.r \in Results /\ o.press \in MenuKeys
  /\ o.n \in Machines /\ o.n.st = n.st /\ o.n.step = n.step /\ o.n.attempt = n.attempt
  /\ Under(o.n.eng, MenuKeys) /\ (o.r = "OK" => AtRest(o.n))

LEMMA ViaOnTheWay ==
  ASSUME NEW n \in Machines, NEW o \in Outcomes, Inside(MenuKeys, o)
  PROVE  OnTheWay(n, Via(n, o)) /\ OnTheWay(n, [Via(n, o) EXCEPT !.r = "RUN"])
  <1> DEFINE k == [n EXCEPT !.eng = o.n]
  <1>1. o.r \in Results /\ o.n \in EngineStates
    BY OutcomeFields
  <1>2. k \in Machines
    BY <1>1, Updates, Zenon
  <1>3. k.st = n.st /\ k.step = n.step /\ k.attempt = n.attempt /\ k.eng = o.n
    BY DEF Machines
  <1>4. Via(n, o) = [r |-> o.r, n |-> k, press |-> o.press]
    BY DEF Via, Out
  <1> HIDE DEF k
  <1>5. o.press \in MenuKeys /\ Under(o.n, MenuKeys) /\ (o.r = "OK" => o.n.phase = 0)
    BY DEF Inside, MenuKeys
  <1> QED BY <1>1, <1>2, <1>3, <1>4, <1>5, Words DEF OnTheWay, AtRest

LEMMA SeekOnTheWay ==
  ASSUME World, NEW n \in Machines, StepInv(n), NEW s, s = route[n.step], s.kind = "seek",
         s.key \in Arrows, Under(n.eng, MenuKeys), NEW look \in Looks
  PROVE  OnTheWay(n, seek_run(n, s, look))
  <1> DEFINE check == step(n.eng, NoKey, look, SeekCheck, FALSE)
             move == step(n.eng, s.key, Sure(look), 0, TRUE)
             k1 == [n EXCEPT !.eng = check.n, !.rphase = 1]
             k2 == [n EXCEPT !.eng = move.n, !.press = n.press + 1, !.rphase = 0]
             out == seek_run(n, s, look)
  <1>1. n.eng \in EngineStates /\ n.press \in Nat /\ n.rphase \in {0, 1}
    BY Members DEF StepInv
  <1>2. MenuKeys \in SUBSET Pressed /\ NoKey \in MenuKeys /\ s.key \in MenuKeys
    BY DEF MenuKeys, Arrows, Pressed, Keys
  <1>3. /\ check \in Outcomes /\ Within(MenuKeys, check)
        /\ move \in Outcomes /\ Within(MenuKeys, move)
    BY <1>1, <1>2, StepOut, StepWithin, SureTyped, EngineAssumption DEF StepResult
  <1>4. out = CASE n.rphase = 0 /\ check.r = "FAIL" /\ n.press < s.times    -> Run(k1)
                [] n.rphase = 0 /\ ~(check.r = "FAIL" /\ n.press < s.times) -> Via(n, check)
                [] n.rphase = 1 /\ move.r = "OK" -> Run(k2)
                [] n.rphase = 1 /\ move.r # "OK" -> [Via(n, move) EXCEPT !.r = "RUN"]
    BY DEF seek_run
  <1> SUFFICES OnTheWay(n, out)
    OBVIOUS
  <1> HIDE DEF check, move, out
  <1>5. check.n \in EngineStates /\ move.n \in EngineStates /\ 0 \in 0 .. 3 /\ 1 \in 0 .. 3 /\ n.press + 1 \in Nat
    BY <1>1, <1>3, OutcomeFields
  <1>6. Moved(n, k1, 1, n.press) /\ Moved(n, k2, 0, n.press + 1)
    BY <1>5, MovesOn, MovesAll, Zenon
  <1>7. k1.eng = check.n /\ k2.eng = move.n
    BY DEF Machines
  <1> HIDE DEF k1, k2
  <1>8. OnTheWay(n, Run(k1)) /\ OnTheWay(n, Run(k2))
    BY <1>2, <1>3, <1>6, <1>7, Words DEF OnTheWay, Moved, Placed, Run, Out, Within
  <1>9. /\ OnTheWay(n, Via(n, check))
        /\ OnTheWay(n, [Via(n, move) EXCEPT !.r = "RUN"])
    <2>1. Inside(MenuKeys, check) /\ Inside(MenuKeys, move)
      BY <1>3 DEF Inside, Within
    <2> QED BY <1>3, <2>1, ViaOnTheWay
  <1>10. n.rphase = 0 \/ n.rphase = 1
    BY <1>1
  <1> QED BY <1>4, <1>8, <1>9, <1>10

LEMMA RouteKeys ==
  ASSUME World, NEW n, MachineInv(n), n.st = "ROUTE", n.step < Len(route), Lands(route),
         KeyOfState(n), NEW noise \in BOOLEAN
  PROVE  LET p == Route(n, noise)
         IN  /\ Quietly(p)
             /\ \/ p.m.st = "ROUTE" /\ p.m.step = n.step /\ Under(p.m.eng, MenuKeys) /\ p.press \in MenuKeys
                \/ /\ p.m.st = "ROUTE" /\ p.m.step = n.step + 1 /\ p.m.rphase = 0 /\ AtRest(p.m)
                   /\ p.press = NoKey
                \/ GivesUp(p.m) /\ p.press = NoKey
  <1> DEFINE s == route[n.step]
             o == step_run(n, s, noise)
             k == o.n
             next == [k EXCEPT !.step = k.step + 1, !.rphase = 0, !.press = 0]
             read == [next EXCEPT !.st = "READ"]
             out == Route(n, noise)
             goal(p) ==
               /\ Quietly(p)
               /\ \/ p.m.st = "ROUTE" /\ p.m.step = n.step /\ Under(p.m.eng, MenuKeys) /\ p.press \in MenuKeys
                  \/ /\ p.m.st = "ROUTE" /\ p.m.step = n.step + 1 /\ p.m.rphase = 0 /\ AtRest(p.m)
                     /\ p.press = NoKey
                  \/ GivesUp(p.m) /\ p.press = NoKey
  <1>1. n \in Machines /\ n.attempt < Attempts /\ StepInv(n) /\ Under(n.eng, MenuKeys)
    BY DEF MachineInv, KeyOfState
  <1>2. n.step \in 1 .. Len(route) /\ Len(route) \in Nat /\ n.eng \in EngineStates
        /\ s.target \in 0 .. MenuN
    BY <1>1, AtStep
  <1>3. s.kind = "menu" \/ (s.kind = "seek" /\ s.key \in Arrows)
    BY <1>2 DEF Lands
  <1>4. out = CASE o.r = "RUN"  -> Res(k, o.press, Nothing)
                [] o.r = "FAIL" -> Goes(retry(k))
                [] o.r = "OK"   -> Goes(IF n.step = Len(route) THEN read ELSE next)
    BY DEF Route
  <1> SUFFICES goal(out)
    OBVIOUS
  <1>5. OnTheWay(n, o)
    <2>1. CASE s.kind = "menu"
      <3> DEFINE menu == MenuShows(n.eng, s.target)
                 ms == menu_select(n.eng, Look(menu, noise), s.target, TRUE)
      <3>1. menu \in BOOLEAN
        BY Zenon DEF MenuShows
      <3>2. o = Via(n, ms)
        BY <2>1 DEF step_run
      <3> HIDE DEF menu, o, s
      <3>3. Look(menu, noise) \in Looks
        BY <3>1, LookTyped
      <3>4. ms \in Outcomes /\ Inside(MenuKeys, ms)
        BY <1>1, <1>2, <3>3, MenuSelectOut, MenuWithin DEF Verified
      <3> HIDE DEF ms
      <3> QED BY <1>1, <3>2, <3>4, ViaOnTheWay
    <2>2. CASE s.kind = "seek" /\ s.key \in Arrows
      <3> DEFINE look == Look(IF s.kind = "press" /\ n.rphase \in {1, 2} THEN GateShows(n) ELSE Expects(s), noise)
      <3>1. o = seek_run(n, s, look)
        BY <2>2 DEF step_run
      <3>2. look \in Looks
        <4> HIDE DEF s
        <4> QED BY <1>1, StepLook
      <3> HIDE DEF look
      <3>3. OnTheWay(n, seek_run(n, s, look))
        BY <1>1, <2>2, <3>2, SeekOnTheWay
      <3> QED BY <3>1, <3>3
    <2> QED BY <1>3, <2>1, <2>2
  <1>6. /\ o.r \in Results /\ o.press \in MenuKeys /\ k \in Machines /\ k.st = "ROUTE" /\ k.step = n.step
        /\ k.attempt = n.attempt /\ Under(k.eng, MenuKeys) /\ (o.r = "OK" => AtRest(k))
    BY <1>5 DEF OnTheWay
  <1> HIDE DEF k, out
  <1>7. next.st = "ROUTE" /\ next.step = n.step + 1 /\ next.rphase = 0 /\ next.eng = k.eng
    BY <1>6 DEF Machines
  <1> HIDE DEF next, o
  <1>8. CASE o.r = "RUN"
    <2>1. out = Res(k, o.press, Nothing)
      BY <1>4, <1>8
    <2> QED BY <1>6, <2>1 DEF Res, Quietly
  <1>9. CASE o.r = "OK"
    <2>1. out = Goes(next)
      BY <1>2, <1>4, <1>9
    <2> QED BY <1>6, <1>7, <1>9, <2>1 DEF Goes, Res, Quietly, AtRest
  <1>10. CASE o.r = "FAIL"
    <2>1. out = Goes(retry(k))
      BY <1>4, <1>10
    <2>2. GivesUp(retry(k))
      BY <1>1, <1>6, Retries DEF World
    <2> QED BY <2>1, <2>2 DEF Goes, Res, Quietly
  <1> QED BY <1>6, <1>8, <1>9, <1>10 DEF Results

\* What the last step of the route does: press Enter, or stop pressing, or wait for the
\* value page, or see it, or give it up when the wait is over.
LandingOut(n, p) ==
  \/ /\ n.rphase = 0 /\ p.m.st = "ROUTE" /\ p.m.step = n.step /\ p.m.rphase = 0 /\ LastStep(p.m)
     /\ p.press \in {"ENTER", NoKey}
  \/ /\ n.rphase = 0 /\ p.m.st = "ROUTE" /\ p.m.step = n.step /\ p.m.rphase = 3 /\ AtRest(p.m)
     /\ p.press = NoKey
  \/ /\ n.rphase = 3 /\ p.m.st = "ROUTE" /\ p.m.step = n.step /\ p.m.rphase = 3 /\ LastStep(p.m)
     /\ p.m.eng.phase = 2 /\ p.m.eng.at = (IF n.eng.phase = 0 THEN 0 ELSE n.eng.at) /\ p.press = NoKey
  \/ /\ n.rphase = 3 /\ p.m.st = "READ" /\ AtRest(p.m) /\ p.press = NoKey /\ scr.page = "value"
  \/ /\ n.rphase = 3 /\ GivesUp(p.m) /\ p.press = NoKey
     /\ n.eng.phase = 2 /\ n.eng.at >= Verify /\ scr.page # "value"

LEMMA LandingKeys ==
  ASSUME World, NEW n, MachineInv(n), n.st = "ROUTE", n.step = Len(route), Lands(route),
         KeyOfState(n), NEW noise \in BOOLEAN
  PROVE  LET p == Route(n, noise) IN Quietly(p) /\ LandingOut(n, p)
  <1> DEFINE s == route[n.step]
             look == Look(IF s.kind = "press" /\ n.rphase \in {1, 2} THEN GateShows(n) ELSE Expects(s), noise)
             move == step(n.eng, s.key, Sure(look), 0, TRUE)
             verify == step(n.eng, NoKey, look, Verify, FALSE)
             o == step_run(n, s, noise)
             k == o.n
             next == [k EXCEPT !.step = k.step + 1, !.rphase = 0, !.press = 0]
             read == [next EXCEPT !.st = "READ"]
             k0 == [n EXCEPT !.rphase = 3]
             k1 == [n EXCEPT !.eng = move.n, !.press = n.press + 1]
             km == [n EXCEPT !.eng = move.n]
             kv == [n EXCEPT !.eng = verify.n]
             out == Route(n, noise)
             goal(p) == Quietly(p) /\ LandingOut(n, p)
  <1>1. n \in Machines /\ n.attempt < Attempts /\ StepInv(n) /\ LastStep(n)
    <2>1. n.step \in 1 .. Len(route) + 1 /\ n.step = Len(route)
      BY Members DEF MachineInv
    <2> QED BY <2>1 DEF MachineInv, KeyOfState
  <1>2. n.eng \in EngineStates /\ n.press \in Nat /\ s.times \in Nat /\ s.times = route[Len(route)].times
    BY <1>1, AtStep
  <1>3. s.kind = "press" /\ s.key = "ENTER" /\ ~s.pin /\ s.exp = "value"
    BY DEF Lands
  <1>4. out = CASE o.r = "RUN"  -> Res(k, o.press, Nothing)
                [] o.r = "FAIL" -> Goes(retry(k))
                [] o.r = "OK"   -> Goes(IF n.step = Len(route) THEN read ELSE next)
    BY DEF Route
  <1> SUFFICES goal(out)
    OBVIOUS
  <1> HIDE DEF out
  <1>5. look \in Looks /\ (n.rphase = 3 => look.holds = (scr.page = "value"))
    <2> HIDE DEF s
    <2>1. look \in Looks /\ (n.rphase \notin {1, 2} => look.holds = (scr.page = s.exp))
      BY <1>1, StepLook
    <2> QED BY <1>3, <2>1
  <1>6. o = press_run(n, s, look)
    BY <1>3 DEF step_run
  <1>7. CASE n.rphase = 0 /\ n.press >= s.times
    <2>1. ~(n.press < s.times)
      BY <1>2, <1>7
    <2>2. o = Run(k0)
      BY <1>3, <1>6, <1>7, <2>1 DEF press_run
    <2>3. AtRest(n)
      BY <1>1, <1>2, <1>7, <2>1 DEF LastStep, AtRest
    <2>4. k0.st = "ROUTE" /\ k0.step = n.step /\ k0.rphase = 3 /\ k0.eng = n.eng
      BY <1>1 DEF Machines
    <2> HIDE DEF k0
    <2>5. out = Res(k0, NoKey, Nothing)
      BY <1>4, <2>2 DEF Run, Out
    <2> QED BY <1>7, <2>3, <2>4, <2>5 DEF Res, Quietly, LandingOut, AtRest
  <1>8. CASE n.rphase = 0 /\ n.press < s.times
    <2>1. ~(n.press >= s.times) /\ Under(n.eng, {"ENTER"})
      BY <1>1, <1>2, <1>8 DEF LastStep
    <2>2. o = IF move.r = "OK" THEN Run(k1) ELSE [Via(n, move) EXCEPT !.r = "RUN"]
      BY <1>6, <1>8, <2>1 DEF press_run
    <2>3. Within({"ENTER"}, move) /\ move \in Outcomes
      <3> HIDE DEF look, s
      <3>1. {"ENTER"} \in SUBSET Pressed /\ "ENTER" \in {"ENTER"} /\ TRUE \in BOOLEAN /\ 0 \in Nat
            /\ Sure(look) \in Looks
        BY <1>5, Words, SureTyped
      <3>2. Within({"ENTER"}, move)
        BY <1>2, <1>3, <2>1, <3>1, StepWithin
      <3>3. StepResult(n.eng, "ENTER", move)
        BY <1>2, <1>3, <3>1, StepOut, Words
      <3> QED BY <3>2, <3>3 DEF StepResult
    <2>4. Via(n, move) = [r |-> move.r, n |-> km, press |-> move.press]
      BY DEF Via, Out
    <2> HIDE DEF move, o
    <2>5. move.n \in EngineStates
      BY <2>3, OutcomeFields
    <2>6. /\ km.st = "ROUTE" /\ km.step = n.step /\ km.rphase = 0 /\ km.press = n.press /\ km.eng = move.n
          /\ k1.st = "ROUTE" /\ k1.step = n.step /\ k1.rphase = 0 /\ k1.eng = move.n
      BY <1>1, <1>8 DEF Machines
    <2> HIDE DEF km, k1
    <2>7. CASE move.r = "OK"
      <3>1. out = Res(k1, NoKey, Nothing)
        BY <1>4, <2>2, <2>7 DEF Run, Out
      <3>2. LastStep(k1)
        BY <2>3, <2>6, <2>7 DEF LastStep, Within
      <3> QED BY <1>8, <2>6, <3>1, <3>2 DEF Res, Quietly, LandingOut
    <2>8. CASE move.r # "OK"
      <3>1. o = [r |-> "RUN", n |-> km, press |-> move.press]
        BY <2>2, <2>4, <2>8
      <3>2. out = Res(km, move.press, Nothing)
        BY <1>4, <3>1
      <3>3. LastStep(km)
        BY <1>2, <1>8, <2>3, <2>6 DEF LastStep, Within
      <3> QED BY <1>8, <2>3, <2>6, <3>2, <3>3 DEF Res, Quietly, LandingOut, Within
    <2> QED BY <2>7, <2>8
  <1>9. CASE n.rphase = 3
    <2>1. Under(n.eng, {NoKey}) /\ n.eng.phase \in {0, 2}
      BY <1>1, <1>9 DEF LastStep
    <2>2. o = Via(n, verify)
      BY <1>6, <1>9 DEF press_run
    <2>3. /\ Within({NoKey}, verify) /\ verify \in Outcomes /\ (verify.r = "OK" => look.holds)
          /\ verify.press = NoKey
          /\ verify.r = "RUN" => verify.n.phase = 2 /\ verify.n.at = IF n.eng.phase = 0 THEN 0 ELSE n.eng.at
          /\ verify.r = "FAIL" => ~look.holds /\ n.eng.phase = 2 /\ n.eng.at >= Verify
      <3> HIDE DEF look, s
      <3>1. {NoKey} \in SUBSET Pressed /\ NoKey \in {NoKey} /\ FALSE \in BOOLEAN /\ Verify \in Nat
        BY Words, EngineAssumption
      <3>2. Within({NoKey}, verify) /\ (verify.r = "OK" => look.holds)
        BY <1>2, <1>5, <2>1, <3>1, StepWithin
      <3>3. StepResult(n.eng, NoKey, verify)
        BY <1>2, <1>5, <3>1, StepOut, Words
      <3>4. /\ verify.press = NoKey
            /\ verify.r = "RUN" => verify.n.phase = 2 /\ verify.n.at = IF n.eng.phase = 0 THEN 0 ELSE n.eng.at
            /\ verify.r = "FAIL" => ~look.holds /\ n.eng.phase = 2 /\ n.eng.at >= Verify
        BY <1>2, <1>5, <2>1, <3>1, WaitStep
      <3> QED BY <3>2, <3>3, <3>4 DEF StepResult
    <2>4. Via(n, verify) = [r |-> verify.r, n |-> kv, press |-> verify.press]
      BY DEF Via, Out
    <2> HIDE DEF verify, look
    <2>5. verify.n \in EngineStates /\ verify.r \in Results
      BY <2>3, OutcomeFields
    <2>6. /\ kv \in Machines /\ kv.st = "ROUTE" /\ kv.step = n.step /\ kv.rphase = 3
          /\ kv.eng = verify.n /\ kv.attempt = n.attempt
      <3>1. kv \in Machines
        BY <1>1, <2>5, Updates
      <3> QED BY <1>1, <1>9, <3>1 DEF Machines
    <2>7. k = kv /\ o.r = verify.r /\ o.press = NoKey
      BY <2>2, <2>3, <2>4
    <2> HIDE DEF o, k, kv
    <2>8. CASE verify.r = "RUN"
      <3>1. out = Res(kv, NoKey, Nothing)
        BY <1>4, <2>7, <2>8
      <3>2. LastStep(kv)
        BY <2>3, <2>6, <2>8 DEF LastStep, Within
      <3> QED BY <1>9, <2>3, <2>6, <2>8, <3>1, <3>2 DEF Res, Quietly, LandingOut
    <2>9. CASE verify.r = "OK"
      <3>1. out = Goes(read)
        BY <1>4, <2>7, <2>9
      <3>2. read.st = "READ" /\ read.eng = verify.n
        BY <2>6, <2>7 DEF Machines
      <3>3. AtRest(read) /\ scr.page = "value"
        BY <1>5, <1>9, <2>3, <2>9, <3>2 DEF AtRest, Within
      <3> HIDE DEF read
      <3> QED BY <1>9, <3>1, <3>2, <3>3 DEF Goes, Res, Quietly, LandingOut
    <2>10. CASE verify.r = "FAIL"
      <3>1. out = Goes(retry(kv))
        BY <1>4, <2>7, <2>10
      <3>2. GivesUp(retry(kv))
        BY <1>1, <2>6, Retries DEF World
      <3> QED BY <1>5, <1>9, <2>3, <2>10, <3>1, <3>2 DEF Goes, Res, Quietly, LandingOut
    <2> QED BY <2>5, <2>8, <2>9, <2>10 DEF Results
  <1>10. n.rphase \in {0, 3} /\ (n.press >= s.times \/ n.press < s.times)
    BY <1>1, <1>2 DEF LastStep
  <1> QED BY <1>7, <1>8, <1>9, <1>10

\* The value is the row on the screen, where the request is plain.
LEMMA ReadKeys ==
  ASSUME World, NEW n, MachineInv(n), n.st = "READ", KeyOfState(n), NEW noise \in BOOLEAN
  PROVE  LET p == Read(n, noise)
         IN  \/ Quietly(p) /\ p.m.st = "READ" /\ Under(p.m.eng, {NoKey}) /\ p.press = NoKey
             \/ Quietly(p) /\ p.m.st = "TEARDOWN" /\ ~p.m.ok /\ AtRest(p.m) /\ p.press = NoKey
             \/ /\ p.did = [Nothing EXCEPT !.snap = TRUE] /\ p.press = NoKey /\ AtRest(p.m)
                /\ p.m.st \in {"TEARDOWN", "FOCUS", "SWEEP"}
                /\ p.m.st = "TEARDOWN" /\ Plain => p.m.cur = scr.row[req.ops[1].field]
  <1> DEFINE reads == Reads(n)
             look == Look(reads, noise)
             o == step(n.eng, NoKey, look, Verify, FALSE)
             page == IF dev.named THEN scr.page ELSE ""
             next == [n EXCEPT !.eng = o.n, !.cur = Row(n)]
             first == [next EXCEPT !.old = Row(n), !.page0 = page]
             focus == [first EXCEPT !.op = 1, !.field = 0, !.st = "FOCUS"]
             sweep == [first EXCEPT !.st = "SWEEP", !.swphase = 0]
             snap == [Nothing EXCEPT !.snap = TRUE]
             engine == [n EXCEPT !.eng = o.n]
             out == Read(n, noise)
             seen(k) == /\ AtRest(k) /\ k.st \in {"TEARDOWN", "FOCUS", "SWEEP"}
                        /\ k.st = "TEARDOWN" /\ Plain => k.cur = scr.row[req.ops[1].field]
             goal(p) == \/ Quietly(p) /\ p.m.st = "READ" /\ Under(p.m.eng, {NoKey}) /\ p.press = NoKey
                        \/ Quietly(p) /\ p.m.st = "TEARDOWN" /\ ~p.m.ok /\ AtRest(p.m) /\ p.press = NoKey
                        \/ p.did = snap /\ p.press = NoKey /\ seen(p.m)
  <1>1. n \in Machines /\ Under(n.eng, {NoKey})
    BY DEF MachineInv, KeyOfState
  <1>2. n.eng \in EngineStates /\ n.confirm \in BOOLEAN /\ Row(n) \in Readings /\ scr.page \in Pages
    BY <1>1, Members, Rows
  <1>3. look \in Looks
    <2>1. reads \in BOOLEAN
      BY DEF Reads
    <2> HIDE DEF reads
    <2> QED BY <2>1, LookTyped
  <1>4. o \in Outcomes /\ Within({NoKey}, o)
    <2>1. {NoKey} \in SUBSET Pressed /\ NoKey \in {NoKey} /\ FALSE \in BOOLEAN /\ Verify \in Nat
      BY Words, EngineAssumption
    <2> HIDE DEF look
    <2>2. StepResult(n.eng, NoKey, o)
      BY <1>2, <1>3, <2>1, StepOut, Words
    <2>3. Within({NoKey}, o)
      BY <1>1, <1>2, <1>3, <2>1, StepWithin
    <2> QED BY <2>2, <2>3 DEF StepResult
  <1>5. out = CASE o.r = "RUN"  -> Stays(n, o)
                [] o.r = "FAIL" -> Goes(fail(n))
                [] o.r = "OK" /\ n.confirm -> Res(Confirmed(next), NoKey, snap)
                [] o.r = "OK" /\ ~n.confirm /\ req.sweep -> Res(sweep, NoKey, snap)
                [] o.r = "OK" /\ ~n.confirm /\ ~req.sweep /\ Len(req.ops) = 1 ->
                     Res(Single(first), NoKey, snap)
                [] o.r = "OK" /\ ~n.confirm /\ ~req.sweep /\ Len(req.ops) > 1 ->
                     Res(focus, NoKey, snap)
    BY DEF Read
  <1> SUFFICES goal(out)
    OBVIOUS
  <1> HIDE DEF o, out, look
  <1>6. o.r \in Results /\ o.n \in EngineStates /\ page \in Pages \cup {""}
    BY <1>2, <1>4, OutcomeFields
  <1> HIDE DEF page
  <1>7. engine.st = "READ" /\ engine.eng = o.n
    BY <1>1 DEF Machines
  <1>8. next \in Machines
    BY <1>1, <1>2, <1>6, Updates, Zenon
  <1>9. next.eng = o.n /\ next.cur = Row(n) /\ next.op = n.op
    BY <1>1 DEF Machines
  <1> HIDE DEF engine, next
  <1>10. first \in Machines
    BY <1>2, <1>6, <1>8, Updates, Zenon
  <1>11. first.eng = o.n /\ first.cur = Row(n)
    BY <1>8, <1>9 DEF Machines
  <1> HIDE DEF first
  <1>12. /\ focus.st = "FOCUS" /\ focus.eng = o.n /\ sweep.st = "SWEEP" /\ sweep.eng = o.n
    BY <1>10, <1>11 DEF Machines
  <1> HIDE DEF focus, sweep
  <1>13. Plain => Row(n) = scr.row[req.ops[1].field]
    BY <1>1, OneOp DEF World, Row
  <1>14. CASE o.r = "RUN"
    <2>1. out = Res(engine, o.press, Nothing)
      BY <1>5, <1>14 DEF Stays, engine
    <2>2. o.press = NoKey /\ Under(o.n, {NoKey})
      BY <1>4 DEF Within
    <2> QED BY <1>7, <2>1, <2>2 DEF Res, Quietly
  <1>15. CASE o.r = "FAIL"
    <2>1. out = Goes(finish(n, FALSE))
      BY <1>5, <1>15 DEF fail
    <2>2. LET k == finish(n, FALSE) IN k.st = "TEARDOWN" /\ ~k.ok /\ AtRest(k)
      BY <1>1, Finishes DEF World
    <2> QED BY <2>1, <2>2 DEF Goes, Res, Quietly
  <1>16. CASE o.r = "OK"
    <2>1. o.n.phase = 0
      BY <1>4, <1>16 DEF Within
    <2>2. seen(focus) /\ seen(sweep)
      BY <1>12, <2>1 DEF AtRest
    <2>3. \A k \in Machines, ok \in BOOLEAN : k.cur = Row(n) => seen(finish(k, ok))
      BY <1>13, Finishes DEF World
    <2>4. seen(Confirmed(next))
      <3> DEFINE k == [next EXCEPT !.confirm = FALSE]
                 shows == Shows(next, next.cur)
      <3>1. k \in Machines /\ shows \in BOOLEAN
        BY <1>8, Updates, Zenon DEF Shows
      <3>2. k.cur = Row(n)
        BY <1>8, <1>9 DEF Machines
      <3>3. Confirmed(next) = finish(k, shows)
        BY DEF Confirmed
      <3> HIDE DEF k, shows
      <3> QED BY <2>3, <3>1, <3>2, <3>3
    <2>5. seen(Single(first))
      <3> DEFINE k == [first EXCEPT !.op = 1, !.field = 0, !.st = "FOCUS"]
      <3>1. Single(first) \in {finish(first, TRUE), finish(first, FALSE), k}
        BY DEF Single, fail
      <3>2. seen(finish(first, TRUE)) /\ seen(finish(first, FALSE))
        BY <1>10, <1>11, <2>3
      <3>3. k.st = "FOCUS" /\ k.eng = o.n
        BY <1>10, <1>11 DEF Machines
      <3> HIDE DEF k
      <3>4. seen(k)
        BY <2>1, <3>3 DEF AtRest
      <3> QED BY <3>1, <3>2, <3>4
    <2>6. req.sweep \in BOOLEAN /\ Len(req.ops) \in Nat \ {0}
      BY Asking DEF World
    <2>7. Len(req.ops) = 1 \/ Len(req.ops) > 1
      <3>1. \A len \in Nat \ {0} : len = 1 \/ len > 1
        OBVIOUS
      <3> QED BY <2>6, <3>1, Zenon
    <2>8. \E k \in {Confirmed(next), sweep, Single(first), focus} : out = Res(k, NoKey, snap)
      BY <1>2, <1>5, <1>16, <2>6, <2>7
    <2> HIDE DEF snap, seen
    <2> QED BY <2>2, <2>4, <2>5, <2>8 DEF Res
  <1> QED BY <1>6, <1>14, <1>15, <1>16 DEF Results

\* The work on a field: no Esc is pressed, and the request is not done by it.
Works(k) ==
  /\ k.st \in Working => Under(k.eng, WorkKeys)
  /\ k.st \notin Working => k.st \in {"ANCHOR", "ABORT_ESC", "TEARDOWN"} /\ AtRest(k)
                            /\ (k.st = "TEARDOWN" /\ Plain => ~k.ok)

WorkOut(p) == p.press \in WorkKeys \cup {NoKey} /\ ~p.did.snap /\ ~p.did.done /\ Works(p.m)

LEMMA GoesWork ==
  ASSUME NEW k, Works(k)
  PROVE  /\ WorkOut(Goes(k)) /\ WorkOut(Res(k, NoKey, Nothing))
         /\ \A press \in WorkKeys \cup {NoKey} : WorkOut(Res(k, press, Nothing))
         /\ \A v : WorkOut(Res(k, NoKey, [Nothing EXCEPT !.sweep = v]))
  BY DEF WorkOut, Goes, Res, Nothing

LEMMA EndsWork ==
  ASSUME Visiting, NEW n \in Machines
  PROVE  /\ Works(abort(n)) /\ Works(fail(n)) /\ (~Plain => Works(finish(n, TRUE)))
  BY Finishes, Aborts DEF Works, Working, fail

LEMMA StaysWork ==
  ASSUME NEW n \in Machines, n.st \in Working, NEW o \in Outcomes, Within(WorkKeys, o)
  PROVE  WorkOut(Stays(n, o))
  <1> DEFINE k == [n EXCEPT !.eng = o.n]
  <1>1. k.st = n.st /\ k.eng = o.n
    BY DEF Machines
  <1>2. Stays(n, o) = Res(k, o.press, Nothing)
    BY DEF Stays
  <1> HIDE DEF k
  <1>3. Works(k) /\ o.press \in WorkKeys \cup {NoKey}
    BY <1>1 DEF Works, Within
  <1> QED BY <1>2, <1>3, GoesWork

LEMMA ArriveWorks ==
  ASSUME Visiting, NEW n \in Machines, AtRest(n)
  PROVE  Works(arrive(n))
  <1> DEFINE focus == [n EXCEPT !.st = "FOCUS"]
             commit == [n EXCEPT !.st = "COMMIT"]
             edit == [n EXCEPT !.press = 0, !.reversed = FALSE, !.estart = n.cur, !.st = "EDIT"]
  <1>1. arrive(n) \in {focus, commit, abort(n), edit}
    BY DEF arrive
  <1>2. /\ focus.st = "FOCUS" /\ focus.eng = n.eng /\ commit.st = "COMMIT" /\ commit.eng = n.eng
        /\ edit.st = "EDIT" /\ edit.eng = n.eng
    BY DEF Machines
  <1> HIDE DEF focus, commit, edit
  <1>3. Works(focus) /\ Works(commit) /\ Works(edit)
    BY <1>2 DEF Works, Working, AtRest, Under
  <1> QED BY <1>1, <1>3, EndsWork

LEMMA EnteredWithin ==
  ASSUME World, NEW n \in Machines, Under(n.eng, WorkKeys), NEW noise \in BOOLEAN
  PROVE  Entered(n, noise) \in Outcomes /\ Within(WorkKeys, Entered(n, noise))
  <1> DEFINE reads == Reads(n)
             look == Look(reads, noise)
  <1>1. reads \in BOOLEAN
    BY DEF Reads
  <1>2. look \in Looks
    <2> HIDE DEF reads
    <2> QED BY <1>1, LookTyped
  <1>3. Entered(n, noise) = step(n.eng, "ENTER", look, Verify, TRUE)
    BY DEF Entered
  <1>4. n.eng \in EngineStates
    BY Members
  <1> HIDE DEF look
  <1>5. WorkKeys \in SUBSET Pressed /\ "ENTER" \in WorkKeys /\ TRUE \in BOOLEAN /\ Verify \in Nat
    BY EngineAssumption DEF WorkKeys, Pressed, Keys
  <1>6. Within(WorkKeys, step(n.eng, "ENTER", look, Verify, TRUE))
    BY <1>2, <1>4, <1>5, StepWithin
  <1> QED BY <1>3, <1>6, EnteredOut

LEMMA FocusKeys ==
  ASSUME World, NEW n, MachineInv(n), n.st = "FOCUS", KeyOfState(n), NEW noise \in BOOLEAN
  PROVE  WorkOut(Focus(n, noise))
  <1> DEFINE o == Entered(n, noise)
             next == [n EXCEPT !.eng = o.n, !.cur = Row(n)]
             k == [next EXCEPT !.field = next.field + 1]
             lost2 == Row(n) # n.old \/ ~on_value_page(n)
             out == Focus(n, noise)
  <1>1. n \in Machines /\ n.attempt < Attempts /\ n.field < Op(n).field /\ Under(n.eng, WorkKeys)
    BY DEF MachineInv, KeyOfState, Working
  <1>2. o \in Outcomes /\ Within(WorkKeys, o)
    BY <1>1, EnteredWithin
  <1>3. out = CASE o.r = "RUN"  -> Stays(n, o)
                [] o.r = "FAIL" -> Goes(abort(n))
                [] o.r = "OK"   -> Goes(IF lost2 THEN abort(next) ELSE arrive(k))
    BY DEF Focus
  <1> SUFFICES WorkOut(out)
    OBVIOUS
  <1> HIDE DEF o, out, lost2
  <1>4. o.r \in Results /\ o.n \in EngineStates
    BY <1>2, OutcomeFields
  <1>5. Beside(n, next) /\ next.eng = o.n
    BY <1>1, <1>4, ReadBack DEF Machines
  <1> HIDE DEF next
  <1>6. next \in Machines /\ next.field = n.field /\ Op(next) = Op(n)
    BY <1>5 DEF Beside, Op
  <1>7. n.field \in 0 .. 3 /\ Op(n).field \in Fields
    BY <1>1, Members, Rows
  <1>8. next.field <= Op(next).field
    BY <1>1, <1>6, <1>7 DEF Fields
  <1>9. k \in Machines /\ k.eng = o.n
    BY <1>5, <1>6, <1>8, NextField DEF Machines
  <1> HIDE DEF k
  <1>10. CASE o.r = "RUN"
    BY <1>1, <1>2, <1>3, <1>10, StaysWork DEF Working
  <1>11. CASE o.r = "FAIL"
    BY <1>1, <1>3, <1>11, EndsWork, GoesWork DEF World
  <1>12. CASE o.r = "OK"
    <2>1. AtRest(k)
      BY <1>2, <1>9, <1>12 DEF AtRest, Within
    <2>2. Works(arrive(k)) /\ Works(abort(next))
      BY <1>6, <1>9, <2>1, ArriveWorks, EndsWork DEF World
    <2>3. out = Goes(IF lost2 THEN abort(next) ELSE arrive(k))
      BY <1>3, <1>12
    <2> QED BY <2>2, <2>3, GoesWork
  <1> QED BY <1>4, <1>10, <1>11, <1>12 DEF Results

LEMMA NextOpWorks ==
  ASSUME World, NEW n \in Machines, AtRest(n), n.op < Len(req.ops)
  PROVE  Works(NextOp(n))
  <1> DEFINE next == [n EXCEPT !.op = n.op + 1]
             k == [next EXCEPT !.old = Row(next), !.cur = Row(next)]
  <1>1. n.op \in 1 .. Len(req.ops) /\ Len(req.ops) \in Nat
    BY Members, Asking DEF World
  <1>2. n.op + 1 \in 1 .. Len(req.ops)
    BY <1>1
  <1>3. next \in Machines
    BY <1>2, Updates
  <1>4. next.eng = n.eng
    BY DEF Machines
  <1>5. NextOp(n) = IF Row(next) = NoRow THEN abort(next) ELSE arrive(k)
    BY DEF NextOp
  <1> HIDE DEF next
  <1>6. Row(next) \in Readings
    BY <1>3, Rows
  <1>7. k \in Machines
    BY <1>3, <1>6, Updates, Zenon
  <1>8. k.eng = n.eng
    BY <1>3, <1>4 DEF Machines
  <1> HIDE DEF k
  <1> QED BY <1>3, <1>5, <1>7, <1>8, ArriveWorks, EndsWork DEF World, AtRest

LEMMA LandedWorks ==
  ASSUME World, NEW n \in Machines, AtRest(n)
  PROVE  Works(Landed(n))
  <1> DEFINE k == [n EXCEPT !.confirm = TRUE, !.op = 1, !.field = 0, !.st = "ANCHOR"]
  <1>1. n.op \in 1 .. Len(req.ops) /\ Len(req.ops) \in Nat
    BY Members, Asking DEF World
  <1>2. CASE n.op < Len(req.ops)
    <2>1. n.op < Len(req.ops) /\ n.op # Len(req.ops)
      BY <1>1, <1>2
    <2>2. Landed(n) = NextOp(n)
      BY <2>1 DEF Landed
    <2> QED BY <1>2, <2>2, NextOpWorks
  <1>3. CASE n.op = Len(req.ops)
    <2>1. k.st = "ANCHOR" /\ k.eng = n.eng
      BY DEF Machines
    <2>2. Landed(n) = k \/ (Landed(n) = finish(n, TRUE) /\ ~Plain)
      <3>0. \A a \in Nat : \A b \in 1 .. a : (b = a) => (~(b < a) /\ (b = 1 \/ (b > 1 /\ a # 1)))
        OBVIOUS
      <3>1. n.op = Len(req.ops) /\ ~(n.op < Len(req.ops)) /\ (n.op = 1 \/ (n.op > 1 /\ Len(req.ops) # 1))
        BY <1>1, <1>3, <3>0, Zenon
      <3> QED BY <1>3, <3>1 DEF Landed, Plain
    <2> HIDE DEF k
    <2>3. Works(k)
      BY <2>1 DEF Works, Working, AtRest
    <2> QED BY <2>2, <2>3, EndsWork DEF World
  <1> QED BY <1>1, <1>2, <1>3

LEMMA CommitKeys ==
  ASSUME World, NEW n, MachineInv(n), n.st = "COMMIT", KeyOfState(n), NEW noise \in BOOLEAN
  PROVE  WorkOut(Commit(n, noise))
  <1> DEFINE o == Entered(n, noise)
             next == [n EXCEPT !.eng = o.n, !.cur = Row(n)]
             k == [next EXCEPT !.field = next.field + 1]
             missed == ~Shows(n, Row(n))
             out == Commit(n, noise)
  <1>1. n \in Machines /\ n.attempt < Attempts /\ n.field = Op(n).field /\ Under(n.eng, WorkKeys)
    BY DEF MachineInv, KeyOfState, Working
  <1>2. o \in Outcomes /\ Within(WorkKeys, o)
    BY <1>1, EnteredWithin
  <1>3. out = CASE o.r = "RUN"  -> Stays(n, o)
                [] o.r = "FAIL" -> Goes(fail(n))
                [] o.r = "OK"   -> Goes(IF missed THEN fail(next) ELSE Landed(k))
    BY DEF Commit
  <1> SUFFICES WorkOut(out)
    OBVIOUS
  <1> HIDE DEF o, out, missed
  <1>4. o.r \in Results /\ o.n \in EngineStates
    BY <1>2, OutcomeFields
  <1>5. Beside(n, next) /\ next.eng = o.n
    BY <1>1, <1>4, ReadBack DEF Machines
  <1> HIDE DEF next
  <1>6. next \in Machines /\ next.field = n.field /\ Op(next) = Op(n)
    BY <1>5 DEF Beside, Op
  <1>7. Op(n).field \in Fields
    BY <1>1, Rows
  <1>8. next.field <= Op(next).field
    BY <1>1, <1>6, <1>7 DEF Fields
  <1>9. k \in Machines /\ k.eng = o.n
    BY <1>5, <1>6, <1>8, NextField DEF Machines
  <1> HIDE DEF k
  <1>10. CASE o.r = "RUN"
    BY <1>1, <1>2, <1>3, <1>10, StaysWork DEF Working
  <1>11. CASE o.r = "FAIL"
    BY <1>1, <1>3, <1>11, EndsWork, GoesWork DEF World
  <1>12. CASE o.r = "OK"
    <2>1. AtRest(k)
      BY <1>2, <1>9, <1>12 DEF AtRest, Within
    <2>2. Works(Landed(k)) /\ Works(fail(next))
      BY <1>6, <1>9, <2>1, LandedWorks, EndsWork DEF World
    <2>3. out = Goes(IF missed THEN fail(next) ELSE Landed(k))
      BY <1>3, <1>12
    <2> QED BY <2>2, <2>3, GoesWork
  <1> QED BY <1>4, <1>10, <1>11, <1>12 DEF Results

\* wait_change_ presses the key it is given.
Watches(n, o) ==
  /\ o.r \in Results /\ o.n \in Machines /\ o.n.st = n.st
  /\ Under(o.n.eng, WorkKeys) /\ o.press \in WorkKeys \cup {NoKey}

LEMMA WaitKeys ==
  ASSUME World, NEW n \in Machines, Under(n.eng, WorkKeys), NEW key \in Arrows, NEW noise \in BOOLEAN
  PROVE  Watches(n, wait_change(n, key, noise))
  <1> DEFINE differs == Reads(n) /\ Row(n) # n.cur
             look == Look(differs, noise)
             o == step(n.eng, key, look, Verify, FALSE)
             c == Watched(n)
             over == [c EXCEPT !.wphase = 0]
             gone == [n EXCEPT !.wphase = 0]
             watch == [Glimpsed(n) EXCEPT !.eng = o.n, !.wdead = Deadline]
             still == [c EXCEPT !.wphase = 2]
             engine == [n EXCEPT !.eng = o.n]
             out == wait_change(n, key, noise)
  <1>1. n.eng \in EngineStates
    BY Members
  <1>2. look \in Looks
    <2>1. differs \in BOOLEAN
      BY DEF Reads
    <2> HIDE DEF differs
    <2> QED BY <2>1, LookTyped
  <1>3. o \in Outcomes /\ Within(WorkKeys, o)
    <2> HIDE DEF look
    <2>1. WorkKeys \in SUBSET Pressed /\ key \in WorkKeys /\ key \in Pressed /\ FALSE \in BOOLEAN /\ Verify \in Nat
      BY EngineAssumption DEF WorkKeys, Arrows, Pressed, Keys
    <2>2. StepResult(n.eng, key, o)
      BY <1>1, <1>2, <2>1, StepOut
    <2>3. Within(WorkKeys, o)
      BY <1>1, <1>2, <2>1, StepWithin
    <2> QED BY <2>2, <2>3 DEF StepResult
  <1>4. Waiting(n, out)
    <2>1. key \in Pressed
      BY DEF Arrows, Pressed, Keys
    <2> QED BY <2>1, WaitOut
  <1>5. /\ c.eng = n.eng /\ over.eng = n.eng /\ still.eng = n.eng /\ gone.eng = n.eng
        /\ Glimpsed(n).eng = n.eng /\ engine.eng = o.n /\ watch.eng = o.n
    <2>1. c \in Machines /\ Glimpsed(n) \in Machines
      BY WatchedCandid, GlimpsedBeside DEF Beside
    <2>2. Glimpsed(n).eng = n.eng
      BY DEF Glimpsed, Machines
    <2>3. c.eng = n.eng
      BY <2>2 DEF Watched
    <2> HIDE DEF c, o
    <2> QED BY <2>1, <2>2, <2>3 DEF Machines
  <1>6. Via(n, o) = Out(o.r, engine, o.press)
    BY DEF Via
  <1>7. \/ out = Via(n, o)
        \/ \E k \in {watch, over, c, still, Glimpsed(n), gone, n} : out = Run(k) \/ out = Ok(k) \/ out = Fail(k)
    <2> HIDE DEF differs, o, c, over, gone, watch, still, engine, look
    <2>0. n.wphase \in 0 .. 2 /\ n.wq \in 0 .. Quiet /\ Quiet \in Nat
      BY Members, Constants
    <2>1. out = CASE n.wphase = 0 /\ o.r # "OK" -> Via(n, o)
                [] n.wphase = 0 /\ o.r = "OK" -> Run(watch)
                [] n.wphase = 1 /\ c.wq < Quiet -> IF c.wdead = 0 THEN Fail(over) ELSE Run(c)
                [] n.wphase = 1 /\ c.wq >= Quiet /\ c.wcand = n.cur -> Run(still)
                [] n.wphase = 1 /\ c.wq >= Quiet /\ c.wcand # n.cur -> Ok(over)
                [] n.wphase = 2 /\ differs -> Run(Glimpsed(n))
                [] n.wphase = 2 /\ ~differs -> IF n.wdead = 0 THEN Fail(gone) ELSE Run(n)
      BY DEF wait_change, differs, look, o, c, over, gone, watch, still
    <2>2. c \in Machines
      BY WatchedCandid DEF c
    <2>3. c.wq \in 0 .. Quiet
      BY <2>2, Members
    <2>4. c.wq < Quiet \/ c.wq >= Quiet
      BY <2>0, <2>3
    <2> HIDE DEF out
    <2>5. CASE n.wphase = 0
      BY <2>1, <2>5
    <2>6. CASE n.wphase = 1
      BY <2>1, <2>4, <2>6
    <2>7. CASE n.wphase = 2
      BY <2>1, <2>7
    <2> QED BY <2>0, <2>5, <2>6, <2>7
  <1>8. /\ out.r \in Results /\ out.n \in Machines /\ out.n.st = n.st
    BY <1>4 DEF Waiting, Beside
  <1> SUFFICES Watches(n, out)
    OBVIOUS
  <1> HIDE DEF o, c, over, gone, watch, still, engine, out
  <1>9. Under(o.n, WorkKeys) /\ o.press \in WorkKeys \cup {NoKey}
    BY <1>3 DEF Within
  <1>10. \A k : Run(k).n = k /\ Ok(k).n = k /\ Fail(k).n = k
                /\ Run(k).press = NoKey /\ Ok(k).press = NoKey /\ Fail(k).press = NoKey
    BY DEF Run, Ok, Fail, Out
  <1>11. Via(n, o).n = engine /\ Via(n, o).press = o.press
    BY <1>6 DEF Out
  <1>12. out.n.eng \in {n.eng, o.n} /\ out.press \in {NoKey, o.press}
    BY <1>5, <1>7, <1>10, <1>11
  <1> QED BY <1>8, <1>9, <1>12 DEF Watches

\* A machine that stays at work with what wait_change_ left of the engine.
LEMMA StillWorks ==
  ASSUME NEW n, Under(n.eng, WorkKeys), NEW k, k.st \in Working, k.eng = n.eng
  PROVE  Works(k)
  BY DEF Works

LEMMA EditKeys ==
  ASSUME World, NEW n, MachineInv(n), n.st = "EDIT", KeyOfState(n), NEW noise \in BOOLEAN
  PROVE  WorkOut(Edit(n, noise))
  <1> DEFINE key == EditKey(n)
             o == wait_change(n, key, noise)
             k == o.n
             value == k.wcand
             next == [k EXCEPT !.press = k.press + 1]
             turn == [next EXCEPT !.reversed = TRUE]
             commit == [next EXCEPT !.st = "COMMIT"]
             on == [next EXCEPT !.cur = value]
             out == Edit(n, noise)
  <1>1. n \in Machines /\ Under(n.eng, WorkKeys)
    BY DEF MachineInv, KeyOfState, Working
  <1>2. key \in Arrows
    BY DEF EditKey, Arrows
  <1>3. Watches(n, o)
    <2> HIDE DEF key
    <2> QED BY <1>1, <1>2, WaitKeys
  <1>4. out =
         CASE n.press >= MaxPress -> Goes(abort(n))
           [] n.press < MaxPress /\ o.r = "RUN" -> Res(k, o.press, Nothing)
           [] n.press < MaxPress /\ o.r = "FAIL" ->
                Goes(IF ~Op(n).num /\ ~n.reversed THEN turn ELSE abort(next))
           [] n.press < MaxPress /\ o.r = "OK" ->
                Goes(CASE ~on_value_page(n) -> abort(next)
                       [] on_value_page(n) /\ Shows(n, value) -> commit
                       [] on_value_page(n) /\ ~Shows(n, value) /\ Diverged(n, value) -> abort(next)
                       [] OTHER -> on)
    BY DEF Edit
  <1> SUFFICES WorkOut(out)
    OBVIOUS
  <1>5. /\ o.r \in Results /\ o.press \in WorkKeys \cup {NoKey} /\ k \in Machines /\ k.st = "EDIT"
        /\ Under(k.eng, WorkKeys)
    BY <1>3 DEF Watches
  <1> HIDE DEF k, out, value
  <1>6. next \in Machines /\ next.st = "EDIT" /\ next.eng = k.eng
    BY <1>5, Pressing DEF Machines
  <1> HIDE DEF next
  <1>7. /\ turn.st = "EDIT" /\ turn.eng = k.eng /\ commit.st = "COMMIT" /\ commit.eng = k.eng
        /\ on.st = "EDIT" /\ on.eng = k.eng
    BY <1>6 DEF Machines
  <1> HIDE DEF turn, on, commit, o, key
  <1>8. Works(k) /\ Works(turn) /\ Works(commit) /\ Works(on)
    BY <1>5, <1>7, StillWorks DEF Working
  <1>9. Works(abort(n)) /\ Works(abort(next))
    BY <1>1, <1>6, EndsWork DEF World
  <1>10. \/ out = Res(k, o.press, Nothing)
         \/ \E x \in {abort(n), abort(next), turn, commit, on} : out = Goes(x)
    <2>0. n.press \in Nat /\ MaxPress \in Nat
      BY <1>1, Members, Constants
    <2>1. n.press >= MaxPress \/ n.press < MaxPress
      BY <2>0
    <2> QED BY <1>4, <1>5, <2>1 DEF Results
  <1> QED BY <1>5, <1>8, <1>9, <1>10, GoesWork

LEMMA SweepFocusKeys ==
  ASSUME World, NEW n, MachineInv(n), n.st = "SWEEP", KeyOfState(n), NEW noise \in BOOLEAN
  PROVE  WorkOut(sweep_focus(n, noise))
  <1> DEFINE o == Entered(n, noise)
             next == [n EXCEPT !.eng = o.n, !.cur = Row(n)]
             on == [next EXCEPT !.seen = {}, !.down = FALSE, !.press = 0, !.swphase = 1]
             out == sweep_focus(n, noise)
  <1>1. n \in Machines /\ Under(n.eng, WorkKeys)
    BY DEF MachineInv, KeyOfState, Working
  <1>2. o \in Outcomes /\ Within(WorkKeys, o)
    BY <1>1, EnteredWithin
  <1>3. out = CASE o.r = "RUN"  -> Stays(n, o)
                [] o.r = "FAIL" -> Goes(abort(n))
                [] o.r = "OK"   -> Goes(IF Row(n) # n.old THEN abort(next) ELSE on)
    BY DEF sweep_focus
  <1> SUFFICES WorkOut(out)
    OBVIOUS
  <1> HIDE DEF o, out
  <1>4. o.r \in Results /\ o.n \in EngineStates
    BY <1>2, OutcomeFields
  <1>5. Beside(n, next) /\ next.eng = o.n
    BY <1>1, <1>4, ReadBack DEF Machines
  <1> HIDE DEF next
  <1>6. next \in Machines /\ next.st = "SWEEP"
    BY <1>5 DEF Beside
  <1>7. on.st = "SWEEP" /\ on.eng = o.n
    BY <1>5, <1>6 DEF Machines
  <1> HIDE DEF on
  <1>8. Works(on) /\ Works(abort(n)) /\ Works(abort(next))
    BY <1>1, <1>2, <1>6, <1>7, EndsWork DEF World, Works, Working, Within
  <1>9. WorkOut(Stays(n, o))
    BY <1>1, <1>2, StaysWork DEF Working
  <1> QED BY <1>3, <1>4, <1>8, <1>9, GoesWork DEF Results

LEMMA SweepCaptureKeys ==
  ASSUME World, NEW n, MachineInv(n), n.st = "SWEEP", KeyOfState(n)
  PROVE  WorkOut(sweep_capture(n))
  <1> DEFINE new == n.cur \notin n.seen /\ Cardinality(n.seen) < req.expected
             seen == IF new THEN n.seen \cup {n.cur} ELSE n.seen
             on == [n EXCEPT !.seen = seen, !.swphase = 2]
             value == IF new THEN n.cur ELSE NoRow
             k == IF Cardinality(seen) >= req.expected THEN finish(n, TRUE) ELSE on
  <1>1. n \in Machines /\ Under(n.eng, WorkKeys) /\ req.sweep
    BY DEF MachineInv, KeyOfState, Working
  <1>2. sweep_capture(n) = Res(k, NoKey, [Nothing EXCEPT !.sweep = value])
    BY DEF sweep_capture
  <1> HIDE DEF seen, value
  <1>3. on.st = "SWEEP" /\ on.eng = n.eng
    BY <1>1 DEF Machines
  <1> HIDE DEF on
  <1>4. Works(on) /\ Works(finish(n, TRUE))
    <2>1. Works(on)
      BY <1>1, <1>3, StillWorks DEF Working
    <2>2. ~Plain
      BY <1>1 DEF Plain
    <2> QED BY <1>1, <2>1, <2>2, EndsWork DEF World
  <1>5. Works(k)
    BY <1>4
  <1> HIDE DEF k
  <1> QED BY <1>2, <1>5, GoesWork

LEMMA SweepMoveKeys ==
  ASSUME World, NEW n, MachineInv(n), n.st = "SWEEP", KeyOfState(n), NEW noise \in BOOLEAN
  PROVE  WorkOut(sweep_move(n, noise))
  <1> DEFINE key == IF n.down THEN "DOWN" ELSE "UP"
             o == wait_change(n, key, noise)
             k == o.n
             next == [k EXCEPT !.press = k.press + 1]
             turn == [next EXCEPT !.down = TRUE]
             on == [next EXCEPT !.cur = k.wcand, !.swphase = 1]
             spent == n.press >= 2 * req.expected + 2
             out == sweep_move(n, noise)
  <1>1. n \in Machines /\ Under(n.eng, WorkKeys) /\ req.sweep
    BY DEF MachineInv, KeyOfState, Working
  <1>2. key \in Arrows
    BY DEF Arrows
  <1>3. Watches(n, o)
    <2> HIDE DEF key
    <2> QED BY <1>1, <1>2, WaitKeys
  <1>4. out = CASE spent -> Goes(finish(n, TRUE))
                [] ~spent /\ o.r = "RUN"  -> Res(k, o.press, Nothing)
                [] ~spent /\ o.r = "FAIL" -> Goes(IF n.down THEN finish(next, TRUE) ELSE turn)
                [] ~spent /\ o.r = "OK"   -> Goes(on)
    BY DEF sweep_move
  <1> SUFFICES WorkOut(out)
    OBVIOUS
  <1>5. /\ o.r \in Results /\ o.press \in WorkKeys \cup {NoKey} /\ k \in Machines /\ k.st = "SWEEP"
        /\ Under(k.eng, WorkKeys)
    BY <1>3 DEF Watches
  <1> HIDE DEF k, out
  <1>6. next \in Machines /\ next.st = "SWEEP" /\ next.eng = k.eng
    BY <1>5, Pressing DEF Machines
  <1> HIDE DEF next
  <1>7. turn.st = "SWEEP" /\ turn.eng = k.eng /\ on.st = "SWEEP" /\ on.eng = k.eng
    BY <1>6 DEF Machines
  <1> HIDE DEF turn, on, o, key, spent
  <1>8. Works(k) /\ Works(turn) /\ Works(on)
    BY <1>5, <1>7, StillWorks DEF Working
  <1>9. Works(finish(n, TRUE)) /\ Works(finish(next, TRUE))
    BY <1>1, <1>6, EndsWork DEF World, Plain
  <1>10. \/ out = Res(k, o.press, Nothing)
         \/ \E x \in {finish(n, TRUE), finish(next, TRUE), turn, on} : out = Goes(x)
    BY <1>4, <1>5 DEF Results
  <1> QED BY <1>5, <1>8, <1>9, <1>10, GoesWork

LEMMA WorkKeysPass ==
  ASSUME World, MachineInv(m), m.st \in Working, KeyOfState(m), NEW noise \in BOOLEAN
  PROVE  WorkOut(Pass(noise))
  <1>1. CASE m.st = "FOCUS"
    BY <1>1, FocusKeys DEF Pass
  <1>2. CASE m.st = "EDIT"
    BY <1>2, EditKeys DEF Pass
  <1>3. CASE m.st = "COMMIT"
    BY <1>3, CommitKeys DEF Pass
  <1>4. CASE m.st = "SWEEP"
    <2>1. m.swphase \in 0 .. 2
      BY Members DEF MachineInv
    <2>2. Sweep(m, noise) \in {sweep_focus(m, noise), sweep_capture(m), sweep_move(m, noise)}
      <3>1. m.swphase = 0 \/ m.swphase = 1 \/ m.swphase = 2
        BY <2>1
      <3> QED BY <3>1 DEF Sweep
    <2>3. Pass(noise) = Sweep(m, noise)
      BY <1>4 DEF Pass
    <2> QED BY <1>4, <2>2, <2>3, SweepFocusKeys, SweepCaptureKeys, SweepMoveKeys
  <1> QED BY <1>1, <1>2, <1>3, <1>4 DEF Working

LEMMA AbortKeys ==
  ASSUME World, NEW n, MachineInv(n), n.st = "ABORT_ESC", KeyOfState(n), NEW noise \in BOOLEAN
  PROVE  LET p == AbortEsc(n, noise)
         IN  /\ Quietly(p) /\ p.press \in {"ESC", NoKey}
             /\ \/ p.m.st = "ABORT_ESC" /\ KeyOfState(p.m)
                \/ p.m.st = "TEARDOWN" /\ ~p.m.ok /\ AtRest(p.m)
  <1> DEFINE o == step(n.eng, "ESC", Look(TRUE, noise), 0, TRUE)
             k == [n EXCEPT !.eng = o.n]
             out == AbortEsc(n, noise)
             goal(p) == /\ Quietly(p) /\ p.press \in {"ESC", NoKey}
                        /\ \/ p.m.st = "ABORT_ESC" /\ KeyOfState(p.m)
                           \/ p.m.st = "TEARDOWN" /\ ~p.m.ok /\ AtRest(p.m)
  <1>1. n \in Machines /\ Under(n.eng, {"ESC"})
    BY DEF MachineInv, KeyOfState, Homing
  <1>2. n.eng \in EngineStates /\ Look(TRUE, noise) \in Looks
    BY <1>1, Members, LookTyped
  <1>3. o \in Outcomes /\ Within({"ESC"}, o)
    <2>1. {"ESC"} \in SUBSET Pressed /\ "ESC" \in {"ESC"} /\ TRUE \in BOOLEAN /\ 0 \in Nat
      BY Words
    <2>2. StepResult(n.eng, "ESC", o)
      BY <1>2, StepOut, Words
    <2>3. Within({"ESC"}, o)
      BY <1>1, <1>2, <2>1, StepWithin
    <2> QED BY <2>2, <2>3 DEF StepResult
  <1>4. out \in {Goes(finish(k, FALSE)), Res(k, o.press, Nothing)}
    BY DEF AbortEsc, Stays
  <1> SUFFICES goal(out)
    OBVIOUS
  <1> HIDE DEF o, out
  <1>5. o.n \in EngineStates
    BY <1>3, OutcomeFields
  <1>6. k \in Machines /\ k.st = "ABORT_ESC" /\ k.eng = o.n
    <2>1. k \in Machines
      BY <1>1, <1>5, Updates
    <2> QED BY <1>1, <2>1 DEF Machines
  <1> HIDE DEF k
  <1>7. KeyOfState(k)
    BY <1>3, <1>6 DEF KeyOfState, Within, Working
  <1>8. LET f == finish(k, FALSE) IN f.st = "TEARDOWN" /\ ~f.ok /\ AtRest(f)
    BY <1>6, Finishes DEF World
  <1>9. goal(Goes(finish(k, FALSE)))
    BY <1>8 DEF Goes, Res, Quietly
  <1>10. goal(Res(k, o.press, Nothing))
    BY <1>3, <1>6, <1>7 DEF Res, Quietly, Within
  <1> HIDE DEF goal
  <1> QED BY <1>4, <1>9, <1>10

LEMMA TeardownKeys ==
  ASSUME World, NEW n, MachineInv(n), n.st = "TEARDOWN", KeyOfState(n), NEW noise \in BOOLEAN
  PROVE  LET p == Teardown(n, noise)
         IN  \/ /\ Quietly(p) /\ p.press \in {"ESC", NoKey} /\ p.m.st = "TEARDOWN" /\ KeyOfState(p.m)
                /\ p.m.ok = n.ok /\ p.m.cur = n.cur
             \/ /\ p.m.st = "IDLE" /\ p.press = NoKey
                /\ ~p.did.snap /\ p.did.ok = n.ok /\ (n.ok => p.did.value = n.cur)
  <1> DEFINE at == scr.page = "anchor"
             look == Look(at, noise)
             o == esc_anchor(n.eng, look, FALSE)
             k == [n EXCEPT !.eng = o.n, !.st = "IDLE"]
             e == [n EXCEPT !.eng = o.n]
             value == IF n.ok THEN n.cur ELSE n.old
             calls == [Nothing EXCEPT !.done = TRUE, !.ok = n.ok, !.value = value]
             out == Teardown(n, noise)
             goal(p) ==
               \/ /\ Quietly(p) /\ p.press \in {"ESC", NoKey} /\ p.m.st = "TEARDOWN" /\ KeyOfState(p.m)
                  /\ p.m.ok = n.ok /\ p.m.cur = n.cur
               \/ /\ p.m.st = "IDLE" /\ p.press = NoKey
                  /\ ~p.did.snap /\ p.did.ok = n.ok /\ (n.ok => p.did.value = n.cur)
  <1>1. n \in Machines /\ Under(n.eng, {"ESC"})
    BY DEF MachineInv, KeyOfState, Homing
  <1>2. n.eng \in EngineStates
    BY <1>1, Members
  <1>3. look \in Looks
    <2>1. at \in BOOLEAN
      OBVIOUS
    <2> HIDE DEF at
    <2> QED BY <2>1, LookTyped
  <1>4. out \in {Res(e, o.press, Nothing), Res(k, NoKey, calls)}
    BY DEF Teardown, Stays
  <1> SUFFICES goal(out)
    OBVIOUS
  <1> HIDE DEF look
  <1>5. o \in Outcomes /\ Within({"ESC"}, o)
    BY <1>1, <1>2, <1>3, EscAnchorOut, AnchorWithin DEF AnchorOut, Verified
  <1> HIDE DEF o, out
  <1>6. o.n \in EngineStates
    BY <1>5, OutcomeFields
  <1>7. e.st = "TEARDOWN" /\ e.eng = o.n /\ e.ok = n.ok /\ e.cur = n.cur /\ k.st = "IDLE"
    BY <1>1 DEF Machines
  <1> HIDE DEF e, k
  <1>8. KeyOfState(e)
    BY <1>5, <1>7 DEF KeyOfState, Within, Working
  <1>9. goal(Res(e, o.press, Nothing))
    BY <1>5, <1>7, <1>8 DEF Res, Quietly, Within
  <1>10. ~calls.snap /\ calls.ok = n.ok /\ (n.ok => calls.value = n.cur)
    BY DEF Nothing
  <1> HIDE DEF calls
  <1>11. goal(Res(k, NoKey, calls))
    BY <1>7, <1>10 DEF Res
  <1> HIDE DEF goal
  <1> QED BY <1>4, <1>9, <1>11

-----------------------------------------------------------------------------
(* Presses on their way *)

\* They are all of S; or from the first of S on they are.
Only(q, S) == \A i \in 1 .. Len(q) : q[i].key \in S
Ending(q, S) == \A i, j \in 1 .. Len(q) : i < j /\ q[i].key \in S => q[j].key \in S

LEMMA NotEnding ==
  ASSUME NEW q, NEW S, NEW R, Only(q, R), R \cap S = {}
  PROVE  Ending(q, S)
  BY DEF Only, Ending

LEMMA Added ==
  ASSUME NEW q \in InFlight, NEW key \in Keys
  PROVE  LET r == Append(q, [key |-> key, age |-> 0])
         IN  /\ \A S : Only(q, S) /\ key \in S => Only(r, S)
             /\ \A S : Ending(q, S) /\ key \in S => Ending(r, S)
  <1> DEFINE r == Append(q, [key |-> key, age |-> 0])
  <1>1. Len(q) \in Nat /\ Len(r) = Len(q) + 1 /\ \A i \in 1 .. Len(q) : r[i] = q[i]
    BY DEF InFlight
  <1>2. r[Len(q) + 1].key = key
    BY DEF InFlight
  <1> HIDE DEF r
  <1>3. \A i \in 1 .. Len(r) : i \in 1 .. Len(q) \/ i = Len(q) + 1
    BY <1>1
  <1>4. ASSUME NEW S, Only(q, S), key \in S PROVE Only(r, S)
    BY <1>1, <1>2, <1>3, <1>4 DEF Only
  <1>5. ASSUME NEW S, Ending(q, S), key \in S PROVE Ending(r, S)
    <2> SUFFICES ASSUME NEW i \in 1 .. Len(r), NEW j \in 1 .. Len(r), i < j, r[i].key \in S
                 PROVE  r[j].key \in S
      BY DEF Ending
    <2>1. CASE j = Len(q) + 1
      BY <1>2, <1>5, <2>1
    <2>2. CASE j \in 1 .. Len(q)
      <3>1. i \in 1 .. Len(q)
        BY <1>1, <1>3, <2>2
      <3> QED BY <1>1, <1>5, <2>2, <3>1 DEF Ending
    <2> QED BY <1>3, <2>1, <2>2
  <1>6. /\ \A S : Only(q, S) /\ key \in S => Only(r, S)
        /\ \A S : Ending(q, S) /\ key \in S => Ending(r, S)
    BY <1>4, <1>5
  <1> QED BY <1>6 DEF r

LEMMA Taken ==
  ASSUME NEW q \in InFlight, q # <<>>
  PROVE  /\ Len(q) >= 1
         /\ \A S : Only(q, S) => Only(Tail(q), S) /\ Head(q).key \in S
         /\ \A S : Ending(q, S) => Ending(Tail(q), S) /\ (Head(q).key \in S => Only(Tail(q), S))
  <1>1. /\ Len(q) \in Nat /\ Len(q) >= 1 /\ Len(Tail(q)) = Len(q) - 1 /\ Head(q) = q[1]
        /\ \A i \in 1 .. Len(Tail(q)) : Tail(q)[i] = q[i + 1]
    BY DEF InFlight
  <1>2. \A i \in 1 .. Len(Tail(q)) : i + 1 \in 1 .. Len(q) /\ 1 < i + 1
    BY <1>1
  <1>3. 1 \in 1 .. Len(q)
    BY <1>1
  <1>4. ASSUME NEW S, Only(q, S) PROVE Only(Tail(q), S) /\ Head(q).key \in S
    BY <1>1, <1>2, <1>3, <1>4 DEF Only
  <1>5. ASSUME NEW S, Ending(q, S)
        PROVE  Ending(Tail(q), S) /\ (Head(q).key \in S => Only(Tail(q), S))
    <2>1. Ending(Tail(q), S)
      <3> SUFFICES ASSUME NEW i \in 1 .. Len(Tail(q)), NEW j \in 1 .. Len(Tail(q)), i < j,
                          Tail(q)[i].key \in S
                   PROVE  Tail(q)[j].key \in S
        BY DEF Ending
      <3>1. i + 1 < j + 1
        BY <1>1
      <3> QED BY <1>1, <1>2, <1>5, <3>1 DEF Ending
    <2>2. Head(q).key \in S => Only(Tail(q), S)
      BY <1>1, <1>2, <1>3, <1>5 DEF Ending, Only
    <2> QED BY <2>1, <2>2
  <1> QED BY <1>1, <1>4, <1>5

\* The clock leaves the keys as they are.
Aged(q) == [i \in 1 .. Len(q) |-> [q[i] EXCEPT !.age = @ + 1]]

LEMMA AgedKeys ==
  ASSUME NEW q \in InFlight
  PROVE  /\ Len(Aged(q)) = Len(q)
         /\ \A i \in 1 .. Len(q) : Aged(q)[i].key = q[i].key /\ Aged(q)[i].age = q[i].age + 1
         /\ \A S : Only(q, S) => Only(Aged(q), S)
         /\ \A S : Ending(q, S) => Ending(Aged(q), S)
  <1>1. Len(q) \in Nat /\ \A i \in 1 .. Len(q) : q[i] \in UnderWay
    BY DEF InFlight
  <1>2. Len(Aged(q)) = Len(q)
    BY <1>1 DEF Aged
  <1>3. \A i \in 1 .. Len(q) : Aged(q)[i].key = q[i].key /\ Aged(q)[i].age = q[i].age + 1
    BY <1>1 DEF Aged, UnderWay
  <1> QED BY <1>2, <1>3 DEF Only, Ending

-----------------------------------------------------------------------------
(* What a press does to the values *)

\* The rows show what the controller keeps.
Clean(d) == d.shown1 = d.sel /\ (d.focus = 2 => d.shown2 = Number(d, d.sel))

\* Away from the value page no field is open.
Shut(d) == d.page # "value" => d.shown1 = d.sel /\ d.focus = 0

SameValues(d, e) == e.sel = d.sel /\ e.prog = d.prog /\ e.linked = d.linked

LEMMA ClosedIs ==
  ASSUME NEW d \in Devices
  PROVE  LET e == Closed(d)
         IN  e \in Devices /\ SameValues(d, e) /\ e.shown1 = e.sel /\ e.focus = 0 /\ e.page = d.page
  <1>1. d.sel \in Values /\ 0 \in Values /\ 0 \in 0 .. 2
    BY DeviceMembers, Constants
  <1>2. Closed(d) \in Devices
    BY <1>1, DeviceUpdates, Zenon DEF Closed
  <1>3. Closed(d) = [d EXCEPT !.focus = 0, !.shown1 = d.sel, !.shown2 = 0]
    BY DEF Closed
  <1> QED BY <1>2, <1>3 DEF Devices, SameValues

LEMMA AtIs ==
  ASSUME NEW d \in Devices, NEW pages, NEW e \in At(d, pages)
  PROVE  SameValues(d, e) /\ e.shown1 = e.sel /\ e.focus = 0 /\ e.page \in pages
  <1>1. PICK p \in pages :
          e \in {Opened(d, p, near, at) : near \in IF p = "else" THEN NearRows ELSE {NoRow},
                                          at \in IF p = "menu" THEN 1 .. MenuN ELSE {0}}
    BY DEF At
  <1>2. PICK near, at : e = Opened(d, p, near, at)
    BY <1>1
  <1> DEFINE c == Closed(d)
  <1>3. c \in Devices /\ SameValues(d, c) /\ c.shown1 = c.sel /\ c.focus = 0
    BY ClosedIs
  <1>4. e = [c EXCEPT !.page = p, !.near = near, !.at = at]
    BY <1>2 DEF Opened
  <1> HIDE DEF c
  <1> QED BY <1>3, <1>4 DEF Devices, SameValues

\* Away from the value page the values stay what they are, whatever is pressed; only an
\* Esc leads to the anchor, and it does not lead to the value page, nor does an arrow
\* where that is behind a menu.
LEMMA PressAway ==
  ASSUME NEW d \in Devices, Shut(d), d.page # "value", NEW key \in Keys, NEW e \in Press(d, key)
  PROVE  /\ SameValues(d, e) /\ e.shown1 = e.sel /\ e.focus = 0
         /\ e.page = "anchor" => key = "ESC" \/ d.page = "anchor"
         /\ key = "ESC" => e.page # "value" /\ (d.page = "anchor" => e.page = "anchor")
         /\ key # "ENTER" /\ Hidden => e.page # "value"
  <1>1. CASE key = "ESC"
    <2>1. e = Closed(d) \/ e \in At(d, {"anchor"})
      BY <1>1 DEF Press
    <2> QED BY <1>1, <2>1, ClosedIs, AtIs
  <1>2. CASE key # "ESC" /\ d.page = "menu"
    <2>1. Press(d, key) = OnMenu(d, key)
      BY <1>2 DEF Press
    <2>2. CASE key = "ENTER"
      <3>1. \E pages \in {{"gate", "value"}, {"else"}} : e \in At(d, pages)
        BY <2>1, <2>2 DEF OnMenu
      <3> QED BY <2>2, <3>1, AtIs
    <2>3. CASE key # "ENTER"
      <3>1. e = [d EXCEPT !.at = Beyond(d.at, key = "DOWN")]
        BY <2>1, <2>3 DEF OnMenu
      <3> QED BY <1>2, <2>3, <3>1 DEF Devices, SameValues, Shut
    <2> QED BY <2>2, <2>3
  <1>3. CASE key # "ESC" /\ d.page = "gate"
    <2>1. Press(d, key) = OnGate(d, key)
      BY <1>3 DEF Press
    <2>2. e = d \/ e = [d EXCEPT !.at = Elapsed(d.at, TypedMax)] \/ (key = "ENTER" /\ e \in At(d, {"else", "value"}))
      BY <1>3, <2>1 DEF OnGate, Keys
    <2>3. CASE e = d
      BY <1>3, <2>3 DEF SameValues, Shut
    <2>4. CASE e = [d EXCEPT !.at = Elapsed(d.at, TypedMax)]
      BY <1>3, <2>4 DEF Devices, SameValues, Shut
    <2>5. CASE key = "ENTER" /\ e \in At(d, {"else", "value"})
      BY <2>5, AtIs
    <2> QED BY <2>2, <2>3, <2>4, <2>5
  <1>4. CASE key # "ESC" /\ d.page \notin {"menu", "gate"}
    <2>1. e \in At(d, {"else", IF Hidden THEN "menu" ELSE "value"})
      BY <1>4 DEF Press
    <2> QED BY <1>4, <2>1, AtIs
  <1> QED BY <1>1, <1>2, <1>3, <1>4

\* Where the rows show what is kept, an Enter on the value page changes nothing of it.
LEMMA EnterClean ==
  ASSUME NEW d \in Devices, d.page = "value", Clean(d), NEW e \in Press(d, "ENTER")
  PROVE  /\ e.page = "value" /\ Clean(e) /\ e.sel = d.sel
         /\ Number(e, e.sel) = Number(d, d.sel)
  <1>1. e = Enters(d)
    BY DEF Press
  <1>2. /\ d.focus \in 0 .. 2 /\ d.sel \in Values /\ d.prog \in [Values -> Values] /\ d.linked \in BOOLEAN
        /\ 0 \in Values
    BY DeviceMembers, Constants
  <1>3. CASE d.focus = 0
    <2>1. e = [d EXCEPT !.focus = 1]
      BY <1>1, <1>3 DEF Enters
    <2>2. /\ e.focus = 1 /\ e.sel = d.sel /\ e.shown1 = d.shown1 /\ e.page = d.page
          /\ e.prog = d.prog /\ e.linked = d.linked
      BY <2>1 DEF Devices
    <2> QED BY <2>2 DEF Clean, Number
  <1>4. CASE d.focus = 1
    <2>1. e = [d EXCEPT !.sel = d.shown1, !.focus = 2, !.shown2 = Number(d, d.shown1)]
      BY <1>1, <1>4 DEF Enters
    <2>2. /\ e.focus = 2 /\ e.sel = d.shown1 /\ e.shown1 = d.shown1 /\ e.page = d.page
          /\ e.shown2 = Number(d, d.shown1) /\ e.prog = d.prog /\ e.linked = d.linked
      BY <2>1 DEF Devices
    <2> QED BY <2>2 DEF Clean, Number
  <1>5. CASE d.focus = 2
    <2> DEFINE x == IF d.linked THEN d.sel ELSE 0
               prog == [d.prog EXCEPT ![x] = d.shown2]
               k == [d EXCEPT !.prog = prog]
    <2>1. e = Closed(k)
      BY <1>1, <1>5 DEF Enters
    <2>2. x \in Values /\ d.shown2 = d.prog[x]
      BY <1>2, <1>5 DEF Clean, Number
    <2>3. prog = d.prog
      BY <1>2, <2>2
    <2> HIDE DEF x, prog
    <2>4. k \in Devices /\ k.prog = d.prog /\ k.sel = d.sel /\ k.linked = d.linked /\ k.page = d.page
      <3>1. k \in Devices
        BY <1>2, <2>3, DeviceUpdates
      <3> QED BY <2>3, <3>1 DEF Devices
    <2> HIDE DEF k
    <2>5. SameValues(k, e) /\ e.shown1 = e.sel /\ e.focus = 0 /\ e.page = k.page
      BY <2>1, <2>4, ClosedIs
    <2> QED BY <2>4, <2>5 DEF Clean, Number, SameValues
  <1> QED BY <1>2, <1>3, <1>4, <1>5

\* From the value page no press but Esc leads to the anchor; Esc keeps the values.
LEMMA PressOn ==
  ASSUME NEW d \in Devices, d.page = "value", NEW key \in Keys, NEW e \in Press(d, key)
  PROVE  /\ key # "ESC" => e.page # "anchor"
         /\ key = "ESC" => SameValues(d, e) /\ e.shown1 = e.sel /\ e.focus = 0
         /\ e.page # "value" => e.shown1 = e.sel /\ e.focus = 0
  <1>0. d.focus \in 0 .. 2
    BY DeviceMembers
  <1>1. CASE key = "ENTER"
    <2>1. e = Enters(d)
      BY <1>1 DEF Press
    <2>2. e.page = "value"
      <3>1. CASE d.focus = 0
        BY <2>1, <3>1 DEF Enters, Devices
      <3>2. CASE d.focus = 1
        <4>1. e = [d EXCEPT !.sel = d.shown1, !.focus = 2, !.shown2 = Number(d, d.shown1)]
          BY <2>1, <3>2 DEF Enters
        <4> QED BY <4>1 DEF Devices
      <3>3. CASE d.focus = 2
        <4> DEFINE k == [d EXCEPT !.prog[IF d.linked THEN d.sel ELSE 0] = d.shown2]
        <4>1. e = Closed(k)
          BY <2>1, <3>3 DEF Enters
        <4>2. k.page = d.page /\ Closed(k).page = k.page
          BY DEF Devices, Closed
        <4> QED BY <4>1, <4>2
      <3> QED BY <1>0, <3>1, <3>2, <3>3
    <2> QED BY <1>1, <2>2
  <1>2. CASE key = "ESC"
    <2>1. e = Closed(d) \/ e \in At(d, {"anchor", "else"})
      BY <1>0, <1>2 DEF Press, OnValuePage
    <2> QED BY <1>2, <2>1, ClosedIs, AtIs
  <1>3. CASE key \in {"UP", "DOWN"}
    <2>1. e = Moves(d, key) \/ e \in At(d, {"else"})
      BY <1>0, <1>3 DEF Press, OnValuePage
    <2>2. Moves(d, key).page = d.page
      BY DEF Moves, Devices
    <2> QED BY <1>3, <2>1, <2>2, AtIs
  <1> QED BY <1>1, <1>2, <1>3 DEF Keys

-----------------------------------------------------------------------------
(* What is reported is true: the invariant *)

\* On the way to a value and reading it: the presses under way are those that finish
\* the way home and then Enters; the value page is reached with Enters only, so that
\* its rows show what is kept, and the page on the screen is not one left behind.
OnVisit(n, q, d, s, o) ==
  n.st \in {"ROUTE", "READ"} =>
    /\ Ending(q, {"ENTER"}) /\ (Hidden \/ Only(q, {"ESC", "ENTER"}))
    /\ d.page = "value" => Only(q, {"ENTER"}) /\ Clean(d) /\ o # "field"
    /\ n.st = "ROUTE" /\ n.step < Len(route) => Only(q, {"ESC", "UP", "DOWN"}) /\ d.page # "value"
    /\ s.page = "value" => d.page = "value" /\ s.row = <<d.sel, Number(d, d.sel)>>
    /\ n.st = "READ" => s.page = "value"

\* When the wait for the value page is over every press was taken or dropped, and what
\* came of it is drawn.
Waited(n, q, o) ==
  n.st = "ROUTE" /\ n.step = Len(route) /\ n.rphase = 3 /\ n.eng.phase # 0 =>
    /\ \A i \in 1 .. Len(q) : q[i].age >= n.eng.at
    /\ n.eng.at > Ttl => q = <<>> /\ o = "nothing"

\* The work on a field leaves the anchor alone.
AtWork(n, q, d, s) ==
  n.st \in Working => Only(q, WorkKeys) /\ d.page # "anchor" /\ s.page # "anchor"

\* On the way home: the screen shows the anchor when nothing but Escs is under way, or
\* no press under way leads to the value page.
Returning(q, d, s) ==
  /\ Ending(q, {"ESC"}) /\ (s.page = "anchor" => d.page = "anchor")
  /\ d.page = "anchor" => Only(q, {"ESC"})
Elsewhere(q, d) ==
  Only(q, {"ESC", "UP", "DOWN"}) /\ (Hidden \/ Only(q, {"ESC"})) /\ d.page # "value"
OnWayHome(n, q, d, s) == n.st \in Homing => Returning(q, d, s) \/ Elsewhere(q, d)

\* What is about to be reported stays what is kept until it is reported.
Kept(n, q, d) ==
  n.st = "TEARDOWN" /\ n.ok /\ Plain =>
    Only(q, {"ENTER", "ESC"}) /\ Clean(d) /\ n.cur = Committed(d, req.ops[1].field)

Fits(n, q, d, s, o) ==
  /\ KeyOfState(n) /\ OnVisit(n, q, d, s, o) /\ Waited(n, q, o) /\ AtWork(n, q, d, s)
  /\ OnWayHome(n, q, d, s) /\ Kept(n, q, d)

Drawn(d, s, o) == Shut(d) /\ (o = "nothing" => s = Shown(d))

\* The callbacks of a step.
Truthful(c, d, s) ==
  /\ c.snap => s.row[req.ops[1].field] = Committed(d, req.ops[1].field)
  /\ c.done /\ c.ok /\ Plain => c.value = Committed(d, req.ops[1].field)

TruthInv ==
  /\ Lands(route) /\ Fits(m, keys, dev, scr, owed) /\ Drawn(dev, scr, owed) /\ Truthful(did, dev, scr)

LEMMA TruthCarried ==
  ASSUME TruthInv, req' = req, route' = route, Fits(m', keys', dev', scr', owed'),
         Drawn(dev', scr', owed'), Truthful(did', dev', scr')
  PROVE  TruthInv'
  <1>1. Lands(route)'
    BY DEF TruthInv
  <1>2. Drawn(dev, scr, owed)'
    OBVIOUS
  <1>3. Truthful(did, dev, scr)'
    BY DEF Truthful, Plain, Committed
  <1>4. Kept(m, keys, dev)'
    BY DEF Fits, Kept, Plain, Committed
  <1>5. KeyOfState(m)' /\ Waited(m, keys, owed)'
    BY DEF Fits, KeyOfState, LastStep, Waited
  <1>6. OnVisit(m, keys, dev, scr, owed)' /\ AtWork(m, keys, dev, scr)'
    BY DEF Fits, OnVisit, AtWork, Hidden
  <1>7. OnWayHome(m, keys, dev, scr)'
    BY DEF Fits, OnWayHome, Returning, Elsewhere, Hidden
  <1> QED BY <1>1, <1>2, <1>3, <1>4, <1>5, <1>6, <1>7 DEF TruthInv, Fits

LEMMA SaysNothing ==
  ASSUME NEW d, NEW s
  PROVE  Truthful(Nothing, d, s)
  BY DEF Truthful, Nothing

-----------------------------------------------------------------------------
(* The passes *)

Queued(q, press) ==
  q = IF press = NoKey THEN keys ELSE Append(keys, [key |-> press, age |-> 0])

LEMMA QueuedKeys ==
  ASSUME keys \in InFlight, NEW press \in Keys \cup {NoKey}, NEW q, Queued(q, press)
  PROVE  /\ \A S : Only(keys, S) /\ press \in S \cup {NoKey} => Only(q, S)
         /\ \A S : Ending(keys, S) /\ press \in S \cup {NoKey} => Ending(q, S)
         /\ press = NoKey => q = keys
  <1>1. CASE press = NoKey
    BY <1>1, Zenon DEF Queued
  <1>2. CASE press # NoKey
    <2>1. press \in Keys /\ q = Append(keys, [key |-> press, age |-> 0])
      BY <1>2 DEF Queued
    <2>2. \A S : press \in S \cup {NoKey} => press \in S
      BY <1>2
    <2> QED BY <1>2, <2>1, <2>2, Added, Zenon
  <1> QED BY <1>1, <1>2

\* The common premises of the passes.
Passing(st) == IInv /\ World /\ MachineInv(m) /\ keys \in InFlight /\ Lands(route)
               /\ Fits(m, keys, dev, scr, owed) /\ m.st = st

PassFits(p) ==
  \A q : Queued(q, p.press) => Fits(p.m, q, dev, scr, owed)
HoldsTrue(p) == PassFits(p) /\ Truthful(p.did, dev, scr)

\* A machine on its way home, or that has given up.
LEMMA HomeFits ==
  ASSUME NEW n, NEW q, n.st \in Homing, KeyOfState(n), Returning(q, dev, scr) \/ Elsewhere(q, dev),
         n.st = "TEARDOWN" /\ Plain => ~n.ok
  PROVE  Fits(n, q, dev, scr, owed)
  BY DEF Fits, OnVisit, Waited, AtWork, OnWayHome, Kept, Homing, Working

LEMMA EscKeeps ==
  ASSUME keys \in InFlight, Returning(keys, dev, scr) \/ Elsewhere(keys, dev),
         NEW press \in {"ESC", NoKey}, NEW q, Queued(q, press)
  PROVE  Returning(q, dev, scr) \/ Elsewhere(q, dev)
  <1>1. press \in Keys \cup {NoKey} /\ press \in {"ESC"} \cup {NoKey}
        /\ press \in {"ESC", "UP", "DOWN"} \cup {NoKey}
    BY DEF Keys
  <1> QED BY <1>1, QueuedKeys DEF Returning, Elsewhere

LEMMA AnchorTrue ==
  ASSUME Passing("ANCHOR"), NEW noise \in BOOLEAN
  PROVE  HoldsTrue(Anchor(m, noise))
  <1> DEFINE p == Anchor(m, noise)
  <1>1. /\ Quietly(p)
        /\ \/ p.m.st = "ANCHOR" /\ KeyOfState(p.m) /\ p.press \in {"ESC", NoKey}
           \/ GivesUp(p.m) /\ p.press = NoKey
           \/ /\ p.m.st = "ROUTE" /\ p.m.step = 1 /\ p.m.rphase = 0 /\ AtRest(p.m)
              /\ p.press = NoKey /\ scr.page = "anchor"
    BY AnchorKeys DEF Passing, Fits
  <1> SUFFICES HoldsTrue(p)
    OBVIOUS
  <1> HIDE DEF p
  <1>2. Returning(keys, dev, scr) \/ Elsewhere(keys, dev)
    BY DEF Passing, Fits, OnWayHome, Homing
  <1>3. Truthful(p.did, dev, scr)
    BY <1>1, SaysNothing DEF Quietly
  <1> SUFFICES ASSUME NEW q, Queued(q, p.press) PROVE Fits(p.m, q, dev, scr, owed)
    BY <1>3 DEF HoldsTrue, PassFits
  <1>4. CASE p.m.st = "ANCHOR" /\ KeyOfState(p.m) /\ p.press \in {"ESC", NoKey}
    <2>1. Returning(q, dev, scr) \/ Elsewhere(q, dev)
      BY <1>2, <1>4, EscKeeps DEF Passing
    <2> QED BY <1>4, <2>1, HomeFits DEF Homing
  <1>5. CASE GivesUp(p.m) /\ p.press = NoKey
    <2>1. q = keys /\ KeyOfState(p.m)
      BY <1>5, RestKeys DEF Queued, GivesUp
    <2> QED BY <1>2, <1>5, <2>1, HomeFits DEF GivesUp, Homing
  <1>6. CASE /\ p.m.st = "ROUTE" /\ p.m.step = 1 /\ p.m.rphase = 0 /\ AtRest(p.m)
             /\ p.press = NoKey /\ scr.page = "anchor"
    <2>1. q = keys /\ KeyOfState(p.m)
      BY <1>6, RestKeys DEF Queued
    <2>2. /\ Ending(q, {"ENTER"}) /\ (Hidden \/ Only(q, {"ESC", "ENTER"}))
          /\ Only(q, {"ESC", "UP", "DOWN"}) /\ dev.page # "value"
      BY <1>2, <1>6, <2>1, NotEnding DEF Returning, Elsewhere, Only, Ending
    <2> QED BY <1>6, <2>1, <2>2 DEF Fits, OnVisit, Waited, AtWork, OnWayHome, Kept, Homing, Working, AtRest
  <1> QED BY <1>1, <1>4, <1>5, <1>6

LEMMA RouteTrue ==
  ASSUME Passing("ROUTE"), m.step < Len(route), NEW noise \in BOOLEAN
  PROVE  HoldsTrue(Route(m, noise))
  <1> DEFINE p == Route(m, noise)
  <1>1. /\ Quietly(p)
        /\ \/ p.m.st = "ROUTE" /\ p.m.step = m.step /\ Under(p.m.eng, MenuKeys) /\ p.press \in MenuKeys
           \/ /\ p.m.st = "ROUTE" /\ p.m.step = m.step + 1 /\ p.m.rphase = 0 /\ AtRest(p.m)
              /\ p.press = NoKey
           \/ GivesUp(p.m) /\ p.press = NoKey
    BY RouteKeys DEF Passing, Fits
  <1> SUFFICES HoldsTrue(p)
    OBVIOUS
  <1> HIDE DEF p
  <1>2. /\ Only(keys, {"ESC", "UP", "DOWN"}) /\ dev.page # "value" /\ scr.page # "value"
    BY DEF Passing, Fits, OnVisit
  <1>3. Truthful(p.did, dev, scr)
    BY <1>1, SaysNothing DEF Quietly
  <1>4. Hidden
    <2>1. m.step \in 1 .. Len(route) + 1 /\ Len(route) \in Nat
      BY Members, Routing DEF Passing, MachineInv, IInv
    <2>2. Len(route) > 1
      BY <2>1
    <2> QED BY <2>2 DEF Passing, Lands, Hidden
  <1> SUFFICES ASSUME NEW q, Queued(q, p.press) PROVE Fits(p.m, q, dev, scr, owed)
    BY <1>3 DEF HoldsTrue, PassFits
  <1>5. CASE GivesUp(p.m) /\ p.press = NoKey
    <2>1. q = keys /\ KeyOfState(p.m)
      BY <1>5, RestKeys DEF Queued, GivesUp
    <2>2. Elsewhere(q, dev)
      BY <1>2, <1>4, <2>1 DEF Elsewhere
    <2> QED BY <1>5, <2>1, <2>2, HomeFits DEF GivesUp, Homing
  <1>6. ASSUME p.m.st = "ROUTE", KeyOfState(p.m), p.press \in MenuKeys,
               p.m.step = Len(route) => AtRest(p.m)
        PROVE  Fits(p.m, q, dev, scr, owed)
    <2>1. p.press \in Keys \cup {NoKey} /\ p.press \in {"ESC", "UP", "DOWN"} \cup {NoKey}
      BY <1>6 DEF MenuKeys, Keys
    <2>2. Only(q, {"ESC", "UP", "DOWN"})
      BY <1>2, <2>1, QueuedKeys DEF Passing
    <2>3. Ending(q, {"ENTER"})
      BY <2>2, NotEnding
    <2> QED BY <1>2, <1>4, <1>6, <2>2, <2>3 DEF Fits, OnVisit, Waited, AtWork, OnWayHome, Kept, Homing, Working, AtRest
  <1>7. CASE p.m.st = "ROUTE" /\ p.m.step = m.step /\ Under(p.m.eng, MenuKeys) /\ p.press \in MenuKeys
    <2>1. KeyOfState(p.m) /\ p.m.step # Len(route)
      <3>1. m.step \in 1 .. Len(route) + 1 /\ Len(route) \in Nat
        BY Members, Routing DEF Passing, MachineInv, IInv
      <3>2. p.m.step # Len(route)
        BY <1>7, <3>1
      <3> QED BY <1>7, <3>2 DEF KeyOfState, Homing, Working
    <2> QED BY <1>6, <1>7, <2>1
  <1>8. CASE /\ p.m.st = "ROUTE" /\ p.m.step = m.step + 1 /\ p.m.rphase = 0 /\ AtRest(p.m)
             /\ p.press = NoKey
    <2>1. KeyOfState(p.m)
      BY <1>8, RestKeys
    <2> QED BY <1>6, <1>8, <2>1 DEF MenuKeys
  <1> QED BY <1>1, <1>5, <1>7, <1>8

LEMMA LandingTrue ==
  ASSUME Passing("ROUTE"), m.step = Len(route), Drawn(dev, scr, owed), Ttl < Verify, NEW noise \in BOOLEAN
  PROVE  HoldsTrue(Route(m, noise))
  <1> DEFINE p == Route(m, noise)
  <1>1. Quietly(p) /\ LandingOut(m, p)
    BY LandingKeys DEF Passing, Fits
  <1> SUFFICES HoldsTrue(p)
    OBVIOUS
  <1> HIDE DEF p
  <1>2. /\ Ending(keys, {"ENTER"}) /\ (Hidden \/ Only(keys, {"ESC", "ENTER"}))
        /\ dev.page = "value" => Only(keys, {"ENTER"}) /\ Clean(dev) /\ owed # "field"
        /\ scr.page = "value" => dev.page = "value" /\ scr.row = <<dev.sel, Number(dev, dev.sel)>>
    BY DEF Passing, Fits, OnVisit
  <1>3. Truthful(p.did, dev, scr)
    BY <1>1, SaysNothing DEF Quietly
  <1>4. /\ m.eng.at \in Nat /\ Ttl \in Nat /\ Verify \in Nat
        /\ \A i \in 1 .. Len(keys) : keys[i].age \in Nat
    <2>1. m.eng \in EngineStates /\ keys \in Seq(UnderWay)
      BY Members DEF Passing, MachineInv, InFlight
    <2>2. m.eng.at \in 0 .. AgeCap /\ \A i \in 1 .. Len(keys) : keys[i] \in UnderWay
      BY <2>1 DEF EngineStates
    <2> QED BY <2>2, AgeCapNat, Constants DEF UnderWay
  <1> SUFFICES ASSUME NEW q, Queued(q, p.press) PROVE Fits(p.m, q, dev, scr, owed)
    BY <1>3 DEF HoldsTrue, PassFits
  <1>5. ASSUME p.m.st = "ROUTE", p.m.step = m.step, LastStep(p.m), p.press \in {"ENTER", NoKey},
               Waited(p.m, q, owed)
        PROVE  Fits(p.m, q, dev, scr, owed)
    <2>1. KeyOfState(p.m)
      <3>1. m.step \in 1 .. Len(route) + 1 /\ Len(route) \in Nat
        BY Members, Routing DEF Passing, MachineInv, IInv
      <3> QED BY <1>5, <3>1 DEF KeyOfState, Homing, Working
    <2>2. p.press \in Keys \cup {NoKey} /\ p.press \in {"ESC", "ENTER"} \cup {NoKey}
          /\ p.press \in {"ENTER"} \cup {NoKey}
      BY <1>5 DEF Keys
    <2>3. /\ Ending(q, {"ENTER"}) /\ (Hidden \/ Only(q, {"ESC", "ENTER"}))
          /\ dev.page = "value" => Only(q, {"ENTER"}) /\ Clean(dev) /\ owed # "field"
      BY <1>2, <2>2, QueuedKeys DEF Passing
    <2>4. m.step \in 1 .. Len(route) + 1 /\ Len(route) \in Nat
      BY Members, Routing DEF Passing, MachineInv, IInv
    <2> QED BY <1>2, <1>5, <2>1, <2>3, <2>4 DEF Fits, OnVisit, AtWork, OnWayHome, Kept, Homing, Working
  <1>6. CASE /\ m.rphase = 0 /\ p.m.st = "ROUTE" /\ p.m.step = m.step /\ p.m.rphase = 0 /\ LastStep(p.m)
             /\ p.press \in {"ENTER", NoKey}
    BY <1>5, <1>6 DEF Waited
  <1>7. CASE /\ m.rphase = 0 /\ p.m.st = "ROUTE" /\ p.m.step = m.step /\ p.m.rphase = 3 /\ AtRest(p.m)
             /\ p.press = NoKey
    BY <1>5, <1>7 DEF Waited, AtRest, LastStep, Under
  <1>8. CASE /\ m.rphase = 3 /\ p.m.st = "ROUTE" /\ p.m.step = m.step /\ p.m.rphase = 3 /\ LastStep(p.m)
             /\ p.m.eng.phase = 2 /\ p.m.eng.at = (IF m.eng.phase = 0 THEN 0 ELSE m.eng.at) /\ p.press = NoKey
    <2>1. q = keys
      BY <1>8 DEF Queued
    <2>2. CASE m.eng.phase = 0
      <3>1. Waited(p.m, q, owed)
        BY <1>4, <1>8, <2>1, <2>2 DEF Waited
      <3> QED BY <1>5, <1>8, <3>1
    <2>3. CASE m.eng.phase # 0
      <3>1. Waited(p.m, q, owed)
        BY <1>8, <2>1, <2>3 DEF Waited, Passing, Fits
      <3> QED BY <1>5, <1>8, <3>1
    <2> QED BY <2>2, <2>3
  <1>9. CASE m.rphase = 3 /\ p.m.st = "READ" /\ AtRest(p.m) /\ p.press = NoKey /\ scr.page = "value"
    <2>1. q = keys /\ KeyOfState(p.m)
      BY <1>9, RestKeys DEF Queued
    <2> QED BY <1>2, <1>9, <2>1 DEF Fits, OnVisit, Waited, AtWork, OnWayHome, Kept, Homing, Working
  <1>10. CASE /\ m.rphase = 3 /\ GivesUp(p.m) /\ p.press = NoKey
              /\ m.eng.phase = 2 /\ m.eng.at >= Verify /\ scr.page # "value"
    <2>1. q = keys /\ KeyOfState(p.m)
      BY <1>10, RestKeys DEF Queued, GivesUp
    <2>2. m.eng.at > Ttl
      BY <1>4, <1>10
    <2>3. keys = <<>> /\ owed = "nothing"
      BY <1>10, <2>2 DEF Passing, Fits, Waited
    <2>4. scr.page = dev.page
      BY <2>3 DEF Drawn, Shown
    <2>5. Returning(q, dev, scr)
      BY <2>1, <2>3, <2>4 DEF Returning, Ending, Only
    <2> QED BY <1>10, <2>1, <2>5, HomeFits DEF GivesUp, Homing
  <1> QED BY <1>1, <1>6, <1>7, <1>8, <1>9, <1>10 DEF LandingOut

LEMMA ReadTrue ==
  ASSUME Passing("READ"), NEW noise \in BOOLEAN
  PROVE  HoldsTrue(Read(m, noise))
  <1> DEFINE p == Read(m, noise)
             snap == [Nothing EXCEPT !.snap = TRUE]
             f == req.ops[1].field
  <1>1. \/ Quietly(p) /\ p.m.st = "READ" /\ Under(p.m.eng, {NoKey}) /\ p.press = NoKey
        \/ Quietly(p) /\ p.m.st = "TEARDOWN" /\ ~p.m.ok /\ AtRest(p.m) /\ p.press = NoKey
        \/ /\ p.did = snap /\ p.press = NoKey /\ AtRest(p.m)
           /\ p.m.st \in {"TEARDOWN", "FOCUS", "SWEEP"}
           /\ p.m.st = "TEARDOWN" /\ Plain => p.m.cur = scr.row[req.ops[1].field]
    BY ReadKeys DEF Passing, Fits
  <1> SUFFICES HoldsTrue(p)
    OBVIOUS
  <1> HIDE DEF p
  <1>2. /\ Only(keys, {"ENTER"}) /\ Clean(dev) /\ owed # "field" /\ dev.page = "value"
        /\ scr.page = "value" /\ scr.row = <<dev.sel, Number(dev, dev.sel)>>
        /\ Ending(keys, {"ENTER"}) /\ (Hidden \/ Only(keys, {"ESC", "ENTER"}))
    BY DEF Passing, Fits, OnVisit
  <1>3. scr.row[f] = Committed(dev, f)
    <2>1. f \in 1 .. 2
      BY Asking DEF Passing, IInv, Fields
    <2>2. f = 1 \/ f = 2
      BY <2>1
    <2> QED BY <1>2, <2>2 DEF Committed
  <1>4. Truthful(p.did, dev, scr)
    <2>1. Truthful(snap, dev, scr)
      BY <1>3 DEF Truthful, Nothing
    <2> QED BY <1>1, <2>1, SaysNothing DEF Quietly
  <1> SUFFICES ASSUME NEW q, Queued(q, p.press) PROVE Fits(p.m, q, dev, scr, owed)
    BY <1>4 DEF HoldsTrue, PassFits
  <1>5. q = keys
    BY <1>1 DEF Queued
  <1>6. Returning(q, dev, scr)
    BY <1>2, <1>5, NotEnding DEF Returning
  <1>7. CASE p.m.st = "READ" /\ Under(p.m.eng, {NoKey})
    <2>1. KeyOfState(p.m)
      BY <1>7 DEF KeyOfState, Homing, Working
    <2> QED BY <1>2, <1>5, <1>7, <2>1 DEF Fits, OnVisit, Waited, AtWork, OnWayHome, Kept, Homing, Working
  <1>8. CASE p.m.st = "TEARDOWN" /\ ~p.m.ok /\ AtRest(p.m)
    <2>1. KeyOfState(p.m)
      BY <1>8, RestKeys
    <2> QED BY <1>6, <1>8, <2>1, HomeFits DEF Homing
  <1>9. CASE /\ AtRest(p.m) /\ p.m.st \in {"TEARDOWN", "FOCUS", "SWEEP"}
             /\ p.m.st = "TEARDOWN" /\ Plain => p.m.cur = scr.row[f]
    <2>1. KeyOfState(p.m)
      BY <1>9, RestKeys
    <2>2. Only(q, WorkKeys) /\ Only(q, {"ENTER", "ESC"})
      BY <1>2, <1>5 DEF Only, WorkKeys
    <2> QED BY <1>2, <1>3, <1>6, <1>9, <2>1, <2>2 DEF Fits, OnVisit, Waited, AtWork, OnWayHome, Kept, Homing, Working
  <1> QED BY <1>1, <1>7, <1>8, <1>9

LEMMA WorkTrue ==
  ASSUME IInv, World, Lands(route), Fits(m, keys, dev, scr, owed), m.st \in Working, NEW noise \in BOOLEAN
  PROVE  HoldsTrue(Pass(noise))
  <1> DEFINE p == Pass(noise)
  <1>1. keys \in InFlight /\ MachineInv(m)
    BY DEF IInv, Around
  <1>2. WorkOut(p)
    BY <1>1, WorkKeysPass DEF Fits
  <1> SUFFICES HoldsTrue(p)
    OBVIOUS
  <1> HIDE DEF p
  <1>3. Only(keys, WorkKeys) /\ dev.page # "anchor" /\ scr.page # "anchor"
    BY DEF Fits, AtWork
  <1>4. Truthful(p.did, dev, scr)
    BY <1>2 DEF WorkOut, Truthful
  <1> SUFFICES ASSUME NEW q, Queued(q, p.press) PROVE Fits(p.m, q, dev, scr, owed)
    BY <1>4 DEF HoldsTrue, PassFits
  <1>5. Only(q, WorkKeys)
    <2>1. p.press \in Keys \cup {NoKey} /\ p.press \in WorkKeys \cup {NoKey}
      BY <1>2 DEF WorkOut, WorkKeys, Keys
    <2> QED BY <1>1, <1>3, <2>1, QueuedKeys
  <1>6. CASE p.m.st \in Working
    <2>1. KeyOfState(p.m)
      BY <1>2, <1>6 DEF KeyOfState, Homing, Working, WorkOut, Works
    <2> QED BY <1>3, <1>5, <1>6, <2>1 DEF Fits, OnVisit, Waited, AtWork, OnWayHome, Kept, Homing, Working
  <1>7. CASE p.m.st \notin Working
    <2>1. p.m.st \in {"ANCHOR", "ABORT_ESC", "TEARDOWN"} /\ AtRest(p.m) /\ (p.m.st = "TEARDOWN" /\ Plain => ~p.m.ok)
      BY <1>2, <1>7 DEF WorkOut, Works
    <2>2. KeyOfState(p.m)
      BY <2>1, RestKeys
    <2>3. Ending(q, {"ESC"})
      BY <1>5, NotEnding DEF WorkKeys
    <2>4. Returning(q, dev, scr)
      BY <1>3, <2>3 DEF Returning
    <2> QED BY <2>1, <2>2, <2>4, HomeFits DEF Homing
  <1> QED BY <1>6, <1>7

LEMMA AbortTrue ==
  ASSUME Passing("ABORT_ESC"), NEW noise \in BOOLEAN
  PROVE  HoldsTrue(AbortEsc(m, noise))
  <1> DEFINE p == AbortEsc(m, noise)
  <1>1. /\ Quietly(p) /\ p.press \in {"ESC", NoKey}
        /\ \/ p.m.st = "ABORT_ESC" /\ KeyOfState(p.m)
           \/ p.m.st = "TEARDOWN" /\ ~p.m.ok /\ AtRest(p.m)
    BY AbortKeys DEF Passing, Fits
  <1> SUFFICES HoldsTrue(p)
    OBVIOUS
  <1> HIDE DEF p
  <1>2. Returning(keys, dev, scr) \/ Elsewhere(keys, dev)
    BY DEF Passing, Fits, OnWayHome, Homing
  <1>3. Truthful(p.did, dev, scr)
    BY <1>1, SaysNothing DEF Quietly
  <1> SUFFICES ASSUME NEW q, Queued(q, p.press) PROVE Fits(p.m, q, dev, scr, owed)
    BY <1>3 DEF HoldsTrue, PassFits
  <1>4. Returning(q, dev, scr) \/ Elsewhere(q, dev)
    BY <1>1, <1>2, EscKeeps DEF Passing
  <1>5. p.m.st \in {"ABORT_ESC", "TEARDOWN"} /\ KeyOfState(p.m)
    BY <1>1, RestKeys
  <1> QED BY <1>1, <1>4, <1>5, HomeFits DEF Homing

LEMMA TeardownTrue ==
  ASSUME Passing("TEARDOWN"), NEW noise \in BOOLEAN
  PROVE  HoldsTrue(Teardown(m, noise))
  <1> DEFINE p == Teardown(m, noise)
  <1>1. \/ /\ Quietly(p) /\ p.press \in {"ESC", NoKey} /\ p.m.st = "TEARDOWN" /\ KeyOfState(p.m)
           /\ p.m.ok = m.ok /\ p.m.cur = m.cur
        \/ /\ p.m.st = "IDLE" /\ p.press = NoKey
           /\ ~p.did.snap /\ p.did.ok = m.ok /\ (m.ok => p.did.value = m.cur)
    BY TeardownKeys DEF Passing, Fits
  <1> SUFFICES HoldsTrue(p)
    OBVIOUS
  <1> HIDE DEF p
  <1>2. Returning(keys, dev, scr) \/ Elsewhere(keys, dev)
    BY DEF Passing, Fits, OnWayHome, Homing
  <1>3. m.ok /\ Plain => Only(keys, {"ENTER", "ESC"}) /\ Clean(dev) /\ m.cur = Committed(dev, req.ops[1].field)
    BY DEF Passing, Fits, Kept
  <1>4. Truthful(p.did, dev, scr)
    BY <1>1, <1>3, SaysNothing DEF Quietly, Truthful
  <1> SUFFICES ASSUME NEW q, Queued(q, p.press) PROVE Fits(p.m, q, dev, scr, owed)
    BY <1>4 DEF HoldsTrue, PassFits
  <1>5. Returning(q, dev, scr) \/ Elsewhere(q, dev)
    BY <1>1, <1>2, EscKeeps DEF Passing
  <1>6. CASE p.press \in {"ESC", NoKey} /\ p.m.st = "TEARDOWN" /\ KeyOfState(p.m) /\ p.m.ok = m.ok /\ p.m.cur = m.cur
    <2>1. p.press \in Keys \cup {NoKey} /\ p.press \in {"ENTER", "ESC"} \cup {NoKey}
      BY <1>6 DEF Keys
    <2>2. Only(keys, {"ENTER", "ESC"}) => Only(q, {"ENTER", "ESC"})
      BY <2>1, QueuedKeys DEF Passing
    <2> QED BY <1>3, <1>5, <1>6, <2>2 DEF Fits, OnVisit, Waited, AtWork, OnWayHome, Kept, Homing, Working
  <1>7. CASE p.m.st = "IDLE"
    <2>1. KeyOfState(p.m)
      BY <1>7 DEF KeyOfState, Homing, Working
    <2> QED BY <1>5, <1>7, <2>1, HomeFits DEF Homing
  <1> QED BY <1>1, <1>6, <1>7

LEMMA PassTrue ==
  ASSUME IInv, TruthInv, Ttl < Verify, NEW noise \in BOOLEAN
  PROVE  HoldsTrue(Pass(noise))
  <1>1. IInv /\ World /\ MachineInv(m) /\ keys \in InFlight /\ Lands(route) /\ Fits(m, keys, dev, scr, owed)
        /\ Drawn(dev, scr, owed)
    BY Worldly DEF TruthInv, IInv, Around
  <1>2. m.st \in States
    BY <1>1, Members DEF MachineInv
  <1>3. CASE m.st = "IDLE"
    <2> DEFINE p == Goes(m)
    <2>1. Pass(noise) = p
      BY <1>3 DEF Pass
    <2>2. p.m = m /\ p.press = NoKey /\ p.did = Nothing
      BY DEF Goes, Res
    <2> HIDE DEF p
    <2>3. \A q : Queued(q, p.press) => q = keys
      BY <2>2 DEF Queued
    <2> QED BY <1>1, <2>1, <2>2, <2>3, SaysNothing DEF HoldsTrue, PassFits
  <1>4. CASE m.st = "ANCHOR"
    BY <1>1, <1>4, AnchorTrue DEF Pass, Passing
  <1>5. CASE m.st = "ROUTE"
    <2>1. m.step \in 1 .. Len(route) + 1 /\ m.step <= Len(route) /\ Len(route) \in Nat
      BY <1>1, <1>5, Members, Routing DEF MachineInv, StepInv, IInv
    <2>2. m.step < Len(route) \/ m.step = Len(route)
      BY <2>1
    <2> QED BY <1>1, <1>5, <2>2, RouteTrue, LandingTrue DEF Pass, Passing
  <1>6. CASE m.st = "READ"
    BY <1>1, <1>6, ReadTrue DEF Pass, Passing
  <1>7. CASE m.st \in Working
    BY <1>1, <1>7, WorkTrue
  <1>8. CASE m.st = "ABORT_ESC"
    BY <1>1, <1>8, AbortTrue DEF Pass, Passing
  <1>9. CASE m.st = "TEARDOWN"
    BY <1>1, <1>9, TeardownTrue DEF Pass, Passing
  <1> QED BY <1>2, <1>3, <1>4, <1>5, <1>6, <1>7, <1>8, <1>9 DEF States, Working

LEMMA TickTrue ==
  ASSUME IInv, TruthInv, Ttl < Verify, Tick
  PROVE  TruthInv'
  <1>1. PICK noise \in BOOLEAN :
          /\ m' = Pass(noise).m /\ did' = Pass(noise).did /\ Queued(keys', Pass(noise).press)
    BY DEF Tick, Queued
  <1>2. UNCHANGED <<req, route, dev, scr, owed>>
    BY DEF Tick
  <1>3. HoldsTrue(Pass(noise))
    BY PassTrue
  <1>4. Fits(m', keys', dev', scr', owed') /\ Truthful(did', dev', scr')
    BY <1>1, <1>2, <1>3, Zenon DEF HoldsTrue, PassFits
  <1>5. Drawn(dev', scr', owed')
    BY <1>2 DEF TruthInv
  <1> QED BY <1>2, <1>4, <1>5, TruthCarried

-----------------------------------------------------------------------------
(* The owner, the pump and the screen *)

\* What the invariant says of the machine depends on its state, its step, its outcome
\* and the key under way; the reported fate of a key or the clock leaves that alone.
Likened(n, k) ==
  /\ k.st = n.st /\ k.step = n.step /\ k.rphase = n.rphase /\ k.press = n.press /\ k.ok = n.ok /\ k.cur = n.cur
  /\ k.eng.phase = n.eng.phase /\ k.eng.key = n.eng.key
  /\ k.eng.lost => n.eng.lost \/ k.eng.key # NoKey

LEMMA LikenedKeys ==
  ASSUME NEW n, KeyOfState(n), NEW k, Likened(n, k)
  PROVE  KeyOfState(k)
  <1>1. \A S : Under(n.eng, S) => Under(k.eng, S)
    BY DEF Under, Likened
  <1> QED BY <1>1 DEF KeyOfState, LastStep, Likened

\* Presses that went, or grew older, are no others.
NoOthers(q, r) ==
  /\ \A S : Only(q, S) => Only(r, S)
  /\ \A S : Ending(q, S) => Ending(r, S)

LEMMA LikenedFits ==
  ASSUME NEW n, NEW q, NEW d, NEW s, NEW o, Fits(n, q, d, s, o), NEW k, Likened(n, k),
         NEW r, NoOthers(q, r), Waited(k, r, o)
  PROVE  Fits(k, r, d, s, o)
  <1>1. KeyOfState(k)
    BY LikenedKeys DEF Fits
  <1>2. OnVisit(k, r, d, s, o)
    BY DEF Fits, OnVisit, Likened, NoOthers
  <1>3. AtWork(k, r, d, s)
    BY DEF Fits, AtWork, Likened, NoOthers
  <1>4. OnWayHome(k, r, d, s)
    <2>1. /\ Returning(q, d, s) => Returning(r, d, s)
          /\ Elsewhere(q, d) => Elsewhere(r, d)
      BY DEF Returning, Elsewhere, NoOthers
    <2> QED BY <2>1 DEF Fits, OnWayHome, Likened
  <1>5. Kept(k, r, d)
    BY DEF Fits, Kept, Likened, NoOthers
  <1> QED BY <1>1, <1>2, <1>3, <1>4, <1>5 DEF Fits

LEMMA BeginTrue ==
  ASSUME IInv, TruthInv, begin
  PROVE  TruthInv'
  <1>1. /\ m.st = "IDLE" /\ did' = Nothing /\ UNCHANGED <<req, route, keys, dev, scr, owed>>
        /\ m'.st = "ANCHOR" /\ AtRest(m')
    BY DEF begin, Idle, AtRest, Fresh
  <1>2. Returning(keys, dev, scr) \/ Elsewhere(keys, dev)
    BY <1>1 DEF TruthInv, Fits, OnWayHome, Homing
  <1>3. Fits(m', keys, dev, scr, owed)
    BY <1>1, <1>2, RestKeys, HomeFits DEF Homing
  <1> QED BY <1>1, <1>3, SaysNothing, TruthCarried DEF TruthInv

LEMMA ResyncTrue ==
  ASSUME IInv, TruthInv, resync_anchor
  PROVE  TruthInv'
  <1>1. m.st = "IDLE" /\ did' = Nothing /\ UNCHANGED <<req, route, keys, dev, scr, owed>> /\ m'.st = "IDLE"
    BY DEF resync_anchor, IInv, MachineInv, Machines
  <1>2. Returning(keys, dev, scr) \/ Elsewhere(keys, dev)
    BY <1>1 DEF TruthInv, Fits, OnWayHome, Homing
  <1>3. KeyOfState(m')
    BY <1>1 DEF KeyOfState, Homing, Working
  <1>4. Fits(m', keys, dev, scr, owed)
    BY <1>1, <1>2, <1>3, HomeFits DEF Homing
  <1> QED BY <1>1, <1>4, SaysNothing, TruthCarried DEF TruthInv

LEMMA TakesVisit ==
  ASSUME NEW d \in Devices, NEW q \in InFlight, q # <<>>, Head(q).key \in Keys, NEW e \in Press(d, Head(q).key),
         NEW n, NEW s, NEW o, NEW w, OnVisit(n, q, d, s, o), Shut(d),
         d.page # "value" /\ e # d => w = "page",
         d.page = "value" /\ Head(q).key = "ENTER" => w = "page" \/ w = o
  PROVE  OnVisit(n, Tail(q), e, s, w)
  <1> DEFINE key == Head(q).key
  <1> SUFFICES ASSUME n.st \in {"ROUTE", "READ"} PROVE OnVisit(n, Tail(q), e, s, w)
    BY DEF OnVisit
  <1>1. /\ Ending(q, {"ENTER"}) /\ (Hidden \/ Only(q, {"ESC", "ENTER"}))
        /\ d.page = "value" => Only(q, {"ENTER"}) /\ Clean(d) /\ o # "field"
        /\ n.st = "ROUTE" /\ n.step < Len(route) => Only(q, {"ESC", "UP", "DOWN"}) /\ d.page # "value"
        /\ s.page = "value" => d.page = "value" /\ s.row = <<d.sel, Number(d, d.sel)>>
        /\ n.st = "READ" => s.page = "value"
    BY DEF OnVisit
  <1>2. /\ \A S : Only(q, S) => Only(Tail(q), S) /\ key \in S
        /\ \A S : Ending(q, S) => Ending(Tail(q), S) /\ (key \in S => Only(Tail(q), S))
    BY Taken
  <1>3. CASE d.page = "value"
    <2>1. key = "ENTER"
      BY <1>1, <1>2, <1>3
    <2>2. e.page = "value" /\ Clean(e) /\ e.sel = d.sel /\ Number(e, e.sel) = Number(d, d.sel)
      BY <1>1, <1>3, <2>1, EnterClean
    <2> QED BY <1>1, <1>2, <1>3, <2>1, <2>2 DEF OnVisit
  <1>4. CASE d.page # "value"
    <2>1. /\ e.shown1 = e.sel /\ e.focus = 0
          /\ key = "ESC" => e.page # "value"
          /\ key # "ENTER" /\ Hidden => e.page # "value"
      BY <1>4, PressAway
    <2>2. key # "ENTER" => e.page # "value"
      BY <1>1, <1>2, <2>1
    <2>3. e.page = "value" => w = "page" /\ key = "ENTER" /\ Clean(e)
      BY <1>4, <2>1, <2>2 DEF Clean
    <2>4. e.page = "value" => Only(Tail(q), {"ENTER"})
      BY <1>1, <1>2, <2>3
    <2>5. n.st = "ROUTE" /\ n.step < Len(route) => key # "ENTER"
      BY <1>1, <1>2
    <2> QED BY <1>1, <1>2, <1>4, <2>2, <2>3, <2>4, <2>5 DEF OnVisit
  <1> QED BY <1>3, <1>4

LEMMA TakesTrue ==
  ASSUME IInv, TruthInv, Takes
  PROVE  TruthInv'
  <1> DEFINE key == Head(keys).key
  <1>1. /\ keys # <<>> /\ dev' \in Press(dev, key) /\ keys' = Tail(keys) /\ did' = Nothing
        /\ owed' = Draws(key) /\ UNCHANGED <<m, req, route, scr>>
    BY DEF Takes
  <1>2. dev \in Devices /\ keys \in InFlight /\ Shut(dev) /\ Fits(m, keys, dev, scr, owed)
    BY DEF IInv, Around, TruthInv, Drawn
  <1>3. key \in Keys
    BY <1>1, <1>2, HeadTyped DEF UnderWay
  <1>4. /\ \A S : Only(keys, S) => Only(Tail(keys), S) /\ key \in S
        /\ \A S : Ending(keys, S) => Ending(Tail(keys), S) /\ (key \in S => Only(Tail(keys), S))
    BY <1>1, <1>2, Taken
  <1>5. dev.page # "value" =>
          /\ SameValues(dev, dev') /\ dev'.shown1 = dev'.sel /\ dev'.focus = 0
          /\ dev'.page = "anchor" => key = "ESC" \/ dev.page = "anchor"
          /\ key = "ESC" => dev'.page # "value" /\ (dev.page = "anchor" => dev'.page = "anchor")
          /\ key # "ENTER" /\ Hidden => dev'.page # "value"
    BY <1>1, <1>2, <1>3, PressAway
  <1>6. dev.page = "value" =>
          /\ key # "ESC" => dev'.page # "anchor"
          /\ key = "ESC" => SameValues(dev, dev') /\ dev'.shown1 = dev'.sel /\ dev'.focus = 0
          /\ dev'.page # "value" => dev'.shown1 = dev'.sel /\ dev'.focus = 0
    BY <1>1, <1>2, <1>3, PressOn
  <1>7. Drawn(dev', scr', owed')
    <2>1. Shut(dev')
      BY <1>5, <1>6 DEF Shut
    <2>2. owed' = "nothing" => owed = "nothing" /\ dev' = dev
      BY <1>1 DEF Draws
    <2> QED BY <1>1, <2>1, <2>2 DEF Drawn, TruthInv
  <1>8. OnVisit(m, keys', dev', scr, owed')
    <2>1. dev.page # "value" /\ dev' # dev => owed' = "page"
      BY <1>1 DEF Draws
    <2>2. dev.page = "value" /\ key = "ENTER" => owed' = "page" \/ owed' = owed
      BY <1>1 DEF Draws
    <2> QED BY <1>1, <1>2, <1>3, <2>1, <2>2, TakesVisit DEF Fits
  <1>9. Waited(m, keys', owed')
    <2> SUFFICES ASSUME m.st = "ROUTE" /\ m.step = Len(route) /\ m.rphase = 3 /\ m.eng.phase # 0
                 PROVE  /\ \A i \in 1 .. Len(keys') : keys'[i].age >= m.eng.at
                        /\ ~(m.eng.at > Ttl)
      BY DEF Waited
    <2>1. (\A i \in 1 .. Len(keys) : keys[i].age >= m.eng.at) /\ ~(m.eng.at > Ttl)
      BY <1>1, <1>2 DEF Fits, Waited
    <2>2. \A i \in 1 .. Len(keys') : i + 1 \in 1 .. Len(keys) /\ keys'[i] = keys[i + 1]
      BY <1>1, <1>2 DEF InFlight
    <2> QED BY <2>1, <2>2
  <1>10. AtWork(m, keys', dev', scr)
    BY <1>1, <1>2, <1>4, <1>5, <1>6 DEF Fits, AtWork, WorkKeys
  <1>11. OnWayHome(m, keys', dev', scr)
    <2> SUFFICES ASSUME m.st \in Homing PROVE Returning(keys', dev', scr) \/ Elsewhere(keys', dev')
      BY DEF OnWayHome
    <2>1. CASE Returning(keys, dev, scr)
      BY <1>1, <1>4, <1>5, <1>6, <2>1 DEF Returning
    <2>2. CASE Elsewhere(keys, dev)
      <3>1. dev'.page # "value"
        BY <1>4, <1>5, <2>2 DEF Elsewhere
      <3> QED BY <1>1, <1>4, <2>2, <3>1 DEF Elsewhere
    <2> QED BY <1>2, <2>1, <2>2 DEF Fits, OnWayHome
  <1>12. Kept(m, keys', dev')
    <2> SUFFICES ASSUME m.st = "TEARDOWN", m.ok, Plain
                 PROVE  /\ Only(keys', {"ENTER", "ESC"}) /\ Clean(dev')
                        /\ Committed(dev', req.ops[1].field) = Committed(dev, req.ops[1].field)
      BY <1>2 DEF Fits, Kept
    <2>1. Only(keys, {"ENTER", "ESC"}) /\ Clean(dev)
      BY <1>2 DEF Fits, Kept
    <2>2. key = "ENTER" \/ key = "ESC"
      BY <1>4, <2>1
    <2>3. CASE dev.page = "value" /\ key = "ENTER"
      <3>1. Clean(dev') /\ dev'.sel = dev.sel /\ Number(dev', dev'.sel) = Number(dev, dev.sel)
        BY <1>1, <1>2, <2>1, <2>3, EnterClean
      <3> QED BY <1>1, <1>4, <2>1, <3>1 DEF Committed
    <2>4. CASE dev.page # "value" \/ key = "ESC"
      <3>1. SameValues(dev, dev') /\ dev'.shown1 = dev'.sel /\ dev'.focus = 0
        BY <1>5, <1>6, <2>4
      <3> QED BY <1>1, <1>4, <2>1, <3>1 DEF Committed, Clean, Number, SameValues
    <2> QED BY <2>2, <2>3, <2>4
  <1>13. Fits(m', keys', dev', scr', owed')
    BY <1>1, <1>2, <1>8, <1>9, <1>10, <1>11, <1>12 DEF Fits
  <1> QED BY <1>1, <1>7, <1>13, SaysNothing, TruthCarried

\* A press less, and what the pump says of it.
LEMMA DropsTrue ==
  ASSUME IInv, TruthInv, Drops
  PROVE  TruthInv'
  <1> DEFINE key == Head(keys).key
  <1>1. /\ keys # <<>> /\ keys' = Tail(keys) /\ did' = Nothing /\ UNCHANGED <<req, route, dev, scr, owed>>
        /\ m' \in {m, IF FateMatches(m.eng, key) THEN [m EXCEPT !.eng.lost = TRUE] ELSE m}
    BY DEF Drops
  <1>2. keys \in InFlight /\ m \in Machines /\ m.eng \in EngineStates /\ Fits(m, keys, dev, scr, owed)
    BY Members DEF IInv, Around, MachineInv, TruthInv
  <1>3. key # NoKey
    <2>1. key \in Keys
      BY <1>1, <1>2, HeadTyped DEF UnderWay
    <2> QED BY <2>1 DEF Keys, NoKey
  <1>4. Likened(m, m')
    <2>1. CASE m' = m
      BY <2>1 DEF Likened
    <2>2. CASE FateMatches(m.eng, key) /\ m' = [m EXCEPT !.eng.lost = TRUE]
      <3>1. m.eng.key = key
        BY <2>2 DEF FateMatches
      <3> QED BY <1>2, <1>3, <2>2, <3>1 DEF Likened, Machines, EngineStates
    <2> QED BY <1>1, <2>1, <2>2
  <1>5. NoOthers(keys, keys')
    BY <1>1, <1>2, Taken DEF NoOthers
  <1>6. m'.eng.at = m.eng.at
    <2>1. m' = m \/ m' = [m EXCEPT !.eng.lost = TRUE]
      BY <1>1
    <2>2. [m EXCEPT !.eng.lost = TRUE].eng = [m.eng EXCEPT !.lost = TRUE]
      BY <1>2 DEF Machines
    <2>3. [m.eng EXCEPT !.lost = TRUE].at = m.eng.at
      BY <1>2 DEF EngineStates
    <2> QED BY <2>1, <2>2, <2>3
  <1>7. Waited(m', keys', owed)
    <2>1. \A i \in 1 .. Len(keys') : i + 1 \in 1 .. Len(keys) /\ keys'[i] = keys[i + 1]
      BY <1>1, <1>2 DEF InFlight
    <2>2. Waited(m, keys, owed)
      BY <1>2 DEF Fits
    <2> QED BY <1>1, <1>4, <1>6, <2>1, <2>2 DEF Waited, Likened
  <1>8. Fits(m', keys', dev, scr, owed)
    BY <1>2, <1>4, <1>5, <1>7, LikenedFits
  <1> QED BY <1>1, <1>8, SaysNothing, TruthCarried DEF TruthInv

LEMMA RepaintTrue ==
  ASSUME IInv, TruthInv, Repaint
  PROVE  TruthInv'
  <1>1. owed' = "nothing" /\ scr' = Shown(dev) /\ did' = Nothing /\ UNCHANGED <<m, req, route, keys, dev>>
    BY DEF Repaint
  <1>2. dev \in Devices /\ Fits(m, keys, dev, scr, owed) /\ Shut(dev)
    BY DEF IInv, TruthInv, Drawn
  <1>3. scr'.page = dev.page /\ (dev.page = "value" => scr'.row = <<dev.shown1, Row2(dev)>>)
    BY <1>1 DEF Shown
  <1>4. OnVisit(m, keys, dev, scr', "nothing")
    <2> SUFFICES ASSUME m.st \in {"ROUTE", "READ"} PROVE OnVisit(m, keys, dev, scr', "nothing")
      BY DEF OnVisit
    <2>1. dev.page = "value" => dev.shown1 = dev.sel /\ Row2(dev) = Number(dev, dev.sel)
      BY <1>2 DEF Fits, OnVisit, Clean, Row2
    <2> QED BY <1>2, <1>3, <2>1 DEF Fits, OnVisit
  <1>5. Waited(m, keys, "nothing") /\ Kept(m, keys, dev) /\ KeyOfState(m)
    BY <1>2 DEF Fits, Waited
  <1>6. AtWork(m, keys, dev, scr')
    BY <1>2, <1>3 DEF Fits, AtWork
  <1>7. OnWayHome(m, keys, dev, scr')
    BY <1>2, <1>3 DEF Fits, OnWayHome, Returning
  <1>8. Fits(m', keys', dev', scr', owed') /\ Drawn(dev', scr', owed')
    BY <1>1, <1>2, <1>4, <1>5, <1>6, <1>7 DEF Fits, Drawn
  <1> QED BY <1>1, <1>8, SaysNothing, TruthCarried

\* On the way to a value nothing is half painted that shows another value.
LEMMA TearTrue ==
  ASSUME IInv, TruthInv, Tear
  PROVE  TruthInv'
  <1>1. owed # "nothing" /\ scr.page = "value" /\ did' = Nothing /\ UNCHANGED <<m, req, route, keys, dev, owed>>
    BY DEF Tear
  <1>2. dev \in Devices /\ scr \in Screens /\ Fits(m, keys, dev, scr, owed)
    BY DEF IInv, TruthInv
  <1>3. scr'.page = scr.page
    BY <1>2 DEF Tear, Screens
  <1>4. m.st \notin {"ROUTE", "READ"}
    <2> SUFFICES ASSUME m.st \in {"ROUTE", "READ"} PROVE FALSE
      OBVIOUS
    <2>1. dev.page = "value" /\ Clean(dev) /\ owed # "field" /\ scr.row = <<dev.sel, Number(dev, dev.sel)>>
      BY <1>1, <1>2 DEF Fits, OnVisit
    <2>2. Shown(dev).row = scr.row
      BY <2>1 DEF Shown, Row2, Clean
    <2> QED BY <2>1, <2>2 DEF Tear
  <1>5. Fits(m', keys', dev', scr', owed')
    BY <1>1, <1>2, <1>3, <1>4 DEF Fits, OnVisit, Waited, AtWork, OnWayHome, Returning
  <1>6. Drawn(dev', scr', owed')
    BY <1>1 DEF TruthInv, Drawn
  <1> QED BY <1>1, <1>5, <1>6, SaysNothing, TruthCarried

LEMMA TimeTrue ==
  ASSUME IInv, TruthInv, Time
  PROVE  TruthInv'
  <1> DEFINE at == IF m.eng.phase = 0 THEN 0 ELSE Elapsed(m.eng.at, AgeCap)
  <1>1. /\ keys' = Aged(keys) /\ owed = "nothing" /\ \A i \in 1 .. Len(keys) : keys[i].age < Ttl
        /\ did' = Nothing /\ UNCHANGED <<req, route, dev, scr, owed>>
    BY DEF Time, MayElapse, Aged
  <1>2. keys \in InFlight /\ m \in Machines /\ m.eng \in EngineStates /\ Fits(m, keys, dev, scr, owed)
    BY Members DEF IInv, Around, MachineInv, TruthInv
  <1>3. m'.eng.at = at /\ Likened(m, m')
    BY <1>2 DEF Time, Machines, EngineStates, Likened
  <1> HIDE DEF at
  <1>4. NoOthers(keys, keys')
    BY <1>1, <1>2, AgedKeys DEF NoOthers
  <1>5. Waited(m', keys', owed)
    <2> SUFFICES ASSUME m.st = "ROUTE", m.step = Len(route), m.rphase = 3, m.eng.phase # 0
                 PROVE  /\ \A i \in 1 .. Len(keys') : keys'[i].age >= at
                        /\ at > Ttl => keys' = <<>>
      BY <1>1, <1>3 DEF Waited, Likened
    <2>1. /\ m.eng.at \in 0 .. AgeCap /\ AgeCap \in Nat /\ Ttl \in Nat /\ Len(keys) \in Nat
          /\ \A i \in 1 .. Len(keys) : keys[i].age \in Nat
      <3>1. \A i \in 1 .. Len(keys) : keys[i] \in UnderWay
        BY <1>2 DEF InFlight
      <3>2. Len(keys) \in Nat
        BY <1>2 DEF InFlight
      <3>3. m.eng.at \in 0 .. AgeCap
        BY <1>2 DEF EngineStates
      <3> QED BY <3>1, <3>2, <3>3, AgeCapNat, Constants DEF UnderWay
    <2>2. at \in Nat /\ at <= m.eng.at + 1
      BY <2>1 DEF at, Elapsed
    <2>3. \A i \in 1 .. Len(keys) : keys[i].age >= m.eng.at
      BY <1>2 DEF Fits, Waited
    <2>4. Len(keys') = Len(keys) /\ \A i \in 1 .. Len(keys) : keys'[i].age = keys[i].age + 1
      BY <1>1, <1>2, AgedKeys
    <2>5. \A i \in 1 .. Len(keys') : keys'[i].age >= at
      BY <2>1, <2>2, <2>3, <2>4
    <2>6. at > Ttl => keys' = <<>>
      <3> SUFFICES ASSUME at > Ttl PROVE Len(keys) = 0
        BY <1>1, <2>1 DEF Aged
      <3>1. m.eng.at >= Ttl
        BY <2>1, <2>2
      <3>2. \A i \in 1 .. Len(keys) : FALSE
        BY <1>1, <2>1, <2>3, <3>1
      <3> QED BY <2>1, <3>2
    <2> QED BY <2>5, <2>6
  <1>6. Fits(m', keys', dev, scr, owed)
    BY <1>2, <1>3, <1>4, <1>5, LikenedFits
  <1> QED BY <1>1, <1>6, SaysNothing, TruthCarried DEF TruthInv

LEMMA InitTrue ==
  ASSUME Init, Lands(route)
  PROVE  TruthInv
  <1>1. PICK v \in Visits : req = v.req /\ route = v.route /\ dev = Arrived(v.page)
    BY DEF Init
  <1>2. m = Idle /\ keys = <<>> /\ scr = Shown(dev) /\ owed = "nothing" /\ did = Nothing
    BY DEF Init
  <1>3. dev.page = "anchor" /\ dev.shown1 = dev.sel /\ dev.focus = 0
    BY <1>1 DEF Arrived
  <1>4. Drawn(dev, scr, owed)
    BY <1>2, <1>3 DEF Drawn, Shut
  <1>5. m.st = "IDLE"
    BY <1>2 DEF Idle
  <1>6. KeyOfState(m)
    BY <1>5 DEF KeyOfState, Homing, Working
  <1>7. Returning(keys, dev, scr)
    BY <1>2, <1>3 DEF Returning, Ending, Only
  <1>8. Fits(m, keys, dev, scr, owed)
    BY <1>5, <1>6, <1>7, HomeFits DEF Homing
  <1> QED BY <1>2, <1>4, <1>8, SaysNothing DEF TruthInv

LEMMA TruthStep ==
  ASSUME Ttl < Verify, IInv, TruthInv, [Next]_vars
  PROVE  TruthInv'
  <1>1. CASE UNCHANGED vars
    <2>1. UNCHANGED <<m, req, route, keys, dev, scr, owed, did>>
      BY <1>1 DEF vars
    <2> QED BY <2>1, TruthCarried DEF TruthInv
  <1> QED BY <1>1, TickTrue, BeginTrue, ResyncTrue, TakesTrue, DropsTrue, RepaintTrue, TearTrue, TimeTrue DEF Next

\* A value that is reported is the value the controller keeps, for every page, request
\* and choice of the waits, whatever is lost, late or half painted: what the owner
\* snapshots when the machine has read the row, and what a plain get or set reports
\* done, which also is what was asked for.  Two things are assumed.  A press is taken
\* or dropped before a wait for the value page is over (KEY_TTL_MS,
\* NAV_VERIFY_MS): else a late Enter opens a field behind the machine's back.  And a
\* route leaves the anchor by arrows and cursor menus and ends with the Enters that
\* lead to the value page; behind a password gate the claim stays with TLC.
THEOREM TruthIsReported ==
  ASSUME Ttl < Verify
  PROVE  Spec /\ Lands(route) => []TruthReported
  <1>1. Init /\ Lands(route) => TruthInv
    BY InitTrue
  <1>2. IInv /\ TruthInv /\ [Next]_vars => TruthInv'
    BY TruthStep
  <1>3. IInv /\ TruthInv => TruthReported
    BY DEF IInv, Calls, Tells, TargetReported, TruthInv, Truthful, TruthReported
  <1> QED BY <1>1, <1>2, <1>3, Invariance, PTL DEF Spec

-----------------------------------------------------------------------------
(* What a sweep publishes: the waits on the way *)

\* The sweep has one field.
LEMMA OneField ==
  ASSUME World, Len(req.ops) = 1, NEW n \in Machines
  PROVE  Row(n) = scr.row[req.ops[1].field] /\ Op(n) = req.ops[1]
  <1>1. n.op = 1
    <2>1. n.op \in 1 .. Len(req.ops)
      BY Members
    <2> QED BY <2>1
  <1> QED BY <1>1 DEF Op, Row

LEMMA SweepsOne ==
  ASSUME World, req.sweep
  PROVE  Len(req.ops) = 1
  <1>1. PICK v \in Visits : req = v.req
    BY DEF World, Visiting
  <1> QED BY <1>1, EditAssumption DEF Walkable

\* The outcome paths leave wait_change_.
LEMMA ResetsWait ==
  ASSUME Visiting, NEW n \in Machines
  PROVE  /\ reset_edit(n).wphase = 0 /\ abort(n).wphase = 0 /\ abort(n).st = "ABORT_ESC"
         /\ \A ok \in BOOLEAN : finish(n, ok).wphase = 0 /\ finish(n, ok).st = "TEARDOWN"
         /\ n.attempt < Attempts => retry(n).wphase = 0 /\ retry(n).st \in {"ANCHOR", "TEARDOWN"}
  <1>1. \A k \in Machines : reset_edit(k).wphase = 0 /\ reset_edit(k) \in Machines
    BY ZenonT(60), ResetTyped DEF reset_edit, Machines
  <1>2. \A k \in Machines, ok \in BOOLEAN : finish(k, ok).wphase = 0 /\ finish(k, ok).st = "TEARDOWN"
    <2> TAKE k \in Machines, ok \in BOOLEAN
    <2> DEFINE r == reset_edit(k)
    <2>1. r.wphase = 0 /\ r \in Machines
      BY <1>1
    <2>2. finish(k, ok) = [r EXCEPT !.st = "TEARDOWN", !.ok = ok]
      BY DEF finish
    <2> HIDE DEF r
    <2> QED BY <2>1, <2>2 DEF Machines
  <1> DEFINE r == reset_edit(n)
             k == [n EXCEPT !.attempt = n.attempt + 1]
  <1>3. r.wphase = 0 /\ r \in Machines
    BY <1>1
  <1>4. abort(n) = [r EXCEPT !.st = "ABORT_ESC"]
    BY DEF abort
  <1>5. retry(n) = IF n.attempt + 1 >= Attempts THEN finish(k, FALSE)
                   ELSE [r EXCEPT !.st = "ANCHOR", !.attempt = r.attempt + 1]
    BY DEF retry, fail
  <1>6. n.attempt < Attempts => k \in Machines
    <2>1. n.attempt \in 0 .. Attempts /\ Attempts \in Nat
      BY Members, Constants
    <2>2. n.attempt < Attempts => n.attempt + 1 \in 0 .. Attempts
      BY <2>1
    <2> QED BY <2>2, Updates
  <1> HIDE DEF r, k
  <1>7. abort(n).wphase = 0 /\ abort(n).st = "ABORT_ESC"
    BY <1>3, <1>4 DEF Machines
  <1>8. [r EXCEPT !.st = "ANCHOR", !.attempt = r.attempt + 1].wphase = 0
        /\ [r EXCEPT !.st = "ANCHOR", !.attempt = r.attempt + 1].st = "ANCHOR"
    BY <1>3 DEF Machines
  <1> QED BY <1>1, <1>2, <1>5, <1>6, <1>7, <1>8

\* The way to a value leaves wait_change_ alone.
LEMMA ViaWait ==
  ASSUME NEW n \in Machines, NEW o
  PROVE  Via(n, o).n.wphase = n.wphase /\ [Via(n, o) EXCEPT !.r = "RUN"].n.wphase = n.wphase
  <1> DEFINE k == [n EXCEPT !.eng = o.n]
  <1>1. k.wphase = n.wphase
    BY DEF Machines
  <1>2. Via(n, o) = [r |-> o.r, n |-> k, press |-> o.press]
    BY DEF Via, Out
  <1> HIDE DEF k
  <1> QED BY <1>1, <1>2

\* Nor does a step of the route, the steps of the route, or the way to the anchor touch it.
LEMMA StepRunWait ==
  ASSUME World, NEW n \in Machines, NEW s, s.kind \in {"menu", "seek", "press"}, s.times \in Nat,
         s.kind = "seek" => n.rphase \in {0, 1}, s.kind = "press" => n.rphase \in {0, 3}, NEW noise
  PROVE  step_run(n, s, noise).n.wphase = n.wphase
  <1> DEFINE look == Look(IF s.kind = "press" /\ n.rphase \in {1, 2} THEN GateShows(n) ELSE Expects(s), noise)
             out == step_run(n, s, noise)
  <1> SUFFICES out.n.wphase = n.wphase
    OBVIOUS
  <1>1. CASE s.kind = "menu"
    <2>1. out = Via(n, menu_select(n.eng, Look(MenuShows(n.eng, s.target), noise), s.target, TRUE))
      BY <1>1 DEF step_run
    <2> HIDE DEF out
    <2> QED BY <2>1, ViaWait
  <1>2. CASE s.kind = "seek"
    <2> DEFINE check == step(n.eng, NoKey, look, SeekCheck, FALSE)
               move == step(n.eng, s.key, Sure(look), 0, TRUE)
               k1 == [n EXCEPT !.eng = check.n, !.rphase = 1]
               k2 == [n EXCEPT !.eng = move.n, !.press = n.press + 1, !.rphase = 0]
    <2>1. out = seek_run(n, s, look)
      BY <1>2 DEF step_run
    <2> HIDE DEF look
    <2>2. seek_run(n, s, look) =
            CASE n.rphase = 0 /\ check.r = "FAIL" /\ n.press < s.times    -> Run(k1)
              [] n.rphase = 0 /\ ~(check.r = "FAIL" /\ n.press < s.times) -> Via(n, check)
              [] n.rphase = 1 /\ move.r = "OK" -> Run(k2)
              [] n.rphase = 1 /\ move.r # "OK" -> [Via(n, move) EXCEPT !.r = "RUN"]
      BY DEF seek_run
    <2>3. k1.wphase = n.wphase /\ k2.wphase = n.wphase
      BY DEF Machines
    <2> HIDE DEF check, move, k1, k2, out
    <2>4. out \in {Run(k1), Via(n, check), Run(k2), [Via(n, move) EXCEPT !.r = "RUN"]}
      BY <1>2, <2>1, <2>2
    <2>5. Run(k1).n = k1 /\ Run(k2).n = k2
      BY DEF Run, Out
    <2>6. Via(n, check).n.wphase = n.wphase /\ [Via(n, move) EXCEPT !.r = "RUN"].n.wphase = n.wphase
      BY ViaWait
    <2> QED BY <2>3, <2>4, <2>5, <2>6
  <1>3. CASE s.kind = "press"
    <2> DEFINE move == step(n.eng, s.key, Sure(look), 0, TRUE)
               verify == step(n.eng, NoKey, look, Verify, FALSE)
               k0 == [n EXCEPT !.rphase = IF s.pin THEN 1 ELSE 3]
               k1 == [n EXCEPT !.eng = move.n, !.press = n.press + 1]
    <2>1. out = press_run(n, s, look)
      BY <1>3 DEF step_run
    <2> HIDE DEF look
    <2>0. n.press \in Nat /\ s.times \in Nat
      BY Members
    <2>2. /\ n.rphase = 0 /\ n.press >= s.times => press_run(n, s, look) = Run(k0)
          /\ n.rphase = 0 /\ n.press < s.times /\ ~(n.press >= s.times) =>
               press_run(n, s, look) = IF move.r = "OK" THEN Run(k1) ELSE [Via(n, move) EXCEPT !.r = "RUN"]
          /\ n.rphase = 3 => press_run(n, s, look) = Via(n, verify)
      <3>1. n.press >= s.times => ~(n.press < s.times)
        BY <2>0
      <3>2. n.rphase = 0 /\ n.press >= s.times /\ ~(n.press < s.times) => press_run(n, s, look) = Run(k0)
        BY DEF press_run
      <3>3. n.rphase = 0 /\ n.press < s.times /\ ~(n.press >= s.times) =>
               press_run(n, s, look) = IF move.r = "OK" THEN Run(k1) ELSE [Via(n, move) EXCEPT !.r = "RUN"]
        BY DEF press_run
      <3>4. n.rphase = 3 => press_run(n, s, look) = Via(n, verify)
        BY DEF press_run
      <3> QED BY <3>1, <3>2, <3>3, <3>4
    <2>3. k0.wphase = n.wphase /\ k1.wphase = n.wphase
      BY DEF Machines
    <2>4. n.rphase = 3 \/ (n.rphase = 0 /\ (n.press >= s.times \/ (n.press < s.times /\ ~(n.press >= s.times))))
      BY <1>3, <2>0
    <2> HIDE DEF move, verify, k0, k1, out
    <2>5. out \in {Run(k0), Run(k1), [Via(n, move) EXCEPT !.r = "RUN"], Via(n, verify)}
      BY <2>1, <2>2, <2>4
    <2>6. Run(k0).n = k0 /\ Run(k1).n = k1
      BY DEF Run, Out
    <2>7. Via(n, verify).n.wphase = n.wphase /\ [Via(n, move) EXCEPT !.r = "RUN"].n.wphase = n.wphase
      BY ViaWait
    <2> QED BY <2>3, <2>5, <2>6, <2>7
  <1> QED BY <1>1, <1>2, <1>3

LEMMA RouteWait ==
  ASSUME World, NEW n, MachineInv(n), n.st = "ROUTE", Lands(route), KeyOfState(n), n.wphase = 0, NEW noise \in BOOLEAN
  PROVE  Route(n, noise).m.wphase = 0
  <1> DEFINE s == route[n.step]
             o == step_run(n, s, noise)
             k == o.n
             next == [k EXCEPT !.step = k.step + 1, !.rphase = 0, !.press = 0]
             read == [next EXCEPT !.st = "READ"]
             out == Route(n, noise)
  <1>1. n \in Machines /\ n.attempt < Attempts /\ StepInv(n)
    BY DEF MachineInv
  <1>2. n.step \in 1 .. Len(route) /\ Len(route) \in Nat /\ s.times \in Nat /\ s.kind \in {"menu", "seek", "press"}
    BY <1>1, AtStep, Routing DEF World
  <1>3. s.kind = "seek" => n.rphase \in {0, 1}
    BY <1>1 DEF StepInv
  <1>4. s.kind = "press" => n.rphase \in {0, 3}
    <2>1. CASE n.step = Len(route)
      BY <2>1 DEF KeyOfState, LastStep
    <2>2. CASE n.step # Len(route)
      <3>1. n.step \in 1 .. Len(route) - 1
        BY <1>2, <2>2
      <3> QED BY <3>1 DEF Lands
    <2> QED BY <2>1, <2>2
  <1>5. k.wphase = 0 /\ o.r \in Results /\ k \in Machines /\ k.attempt = n.attempt
    <2>1. k.wphase = n.wphase
      <3> HIDE DEF s
      <3> QED BY <1>1, <1>2, <1>3, <1>4, StepRunWait
    <2>2. Runner(n, o)
      BY <1>1, <1>2, StepRunner
    <2> QED BY <2>1, <2>2 DEF Runner, Placed
  <1>6. out = CASE o.r = "RUN"  -> Res(k, o.press, Nothing)
                [] o.r = "FAIL" -> Goes(retry(k))
                [] o.r = "OK"   -> Goes(IF n.step = Len(route) THEN read ELSE next)
    BY DEF Route
  <1> SUFFICES out.m.wphase = 0
    OBVIOUS
  <1> HIDE DEF o, k, out
  <1>7. next.wphase = 0 /\ read.wphase = 0
    BY <1>5 DEF Machines
  <1> HIDE DEF next, read
  <1>8. retry(k).wphase = 0
    BY <1>1, <1>5, ResetsWait DEF World
  <1>9. out.m \in {k, retry(k), read, next}
    BY <1>5, <1>6 DEF Results, Goes, Res
  <1> QED BY <1>5, <1>7, <1>8, <1>9

LEMMA AnchorWait ==
  ASSUME World, NEW n, MachineInv(n), n.st = "ANCHOR", KeyOfState(n), n.wphase = 0, NEW noise \in BOOLEAN
  PROVE  Anchor(n, noise).m.wphase = 0
  <1> DEFINE look == Look(scr.page = "anchor", noise)
             o == esc_anchor(n.eng, look, n.resync)
             next == [n EXCEPT !.eng = o.n, !.resync = n.resync /\ o.r = "RUN"]
             on == [next EXCEPT !.st = "ROUTE", !.step = 1, !.rphase = 0]
             out == Anchor(n, noise)
  <1>1. n \in Machines /\ n.attempt < Attempts
    BY DEF MachineInv
  <1>2. out = CASE o.r = "RUN"  -> Res(next, o.press, Nothing)
                [] o.r = "OK"   -> Goes(on)
                [] o.r = "FAIL" -> Goes(retry(next))
    BY DEF Anchor
  <1>3. look \in Looks
    <2> DEFINE at == scr.page = "anchor"
    <2>1. at \in BOOLEAN
      OBVIOUS
    <2> HIDE DEF at
    <2>2. Look(at, noise) \in Looks
      BY <2>1, LookTyped
    <2> QED BY <2>2 DEF at
  <1> SUFFICES out.m.wphase = 0
    OBVIOUS
  <1> HIDE DEF look, out
  <1>4. o.r \in Results /\ o.n \in EngineStates
    <2>1. n.eng \in EngineStates /\ n.resync \in BOOLEAN
      BY <1>1, Members
    <2>2. o \in Outcomes
      BY <1>3, <2>1, EscAnchorOut DEF AnchorOut, Verified
    <2> QED BY <2>2, OutcomeFields
  <1> HIDE DEF o
  <1>5. next \in Machines /\ next.wphase = 0 /\ next.attempt < Attempts
    <2> DEFINE again == n.resync /\ o.r = "RUN"
    <2>1. again \in BOOLEAN
      BY <1>1, Members
    <2>2. next = [n EXCEPT !.eng = o.n, !.resync = again]
      OBVIOUS
    <2> HIDE DEF again, next
    <2>3. [n EXCEPT !.eng = o.n, !.resync = again] \in Machines
      BY <1>1, <1>4, <2>1, Updates, Zenon
    <2> QED BY <1>1, <2>2, <2>3 DEF Machines
  <1> HIDE DEF next
  <1>6. on.wphase = 0
    BY <1>5 DEF Machines
  <1> HIDE DEF on
  <1>7. retry(next).wphase = 0
    BY <1>5, ResetsWait DEF World
  <1>8. out.m \in {next, on, retry(next)}
    BY <1>2, <1>4 DEF Results, Goes, Res
  <1> QED BY <1>5, <1>6, <1>7, <1>8

\* The value read is the first to be swept, or its field is focused.
LEMMA ReadWait ==
  ASSUME World, NEW n, MachineInv(n), n.st = "READ", KeyOfState(n), n.wphase = 0, NEW noise \in BOOLEAN
  PROVE  LET k == Read(n, noise).m
         IN  /\ k.wphase = 0 /\ k.st \in {"READ", "TEARDOWN", "SWEEP", "FOCUS"}
             /\ k.st = "SWEEP" => req.sweep /\ k.swphase = 0 /\ AtRest(k)
             /\ k.st = "FOCUS" => ~req.sweep /\ AtRest(k)
  <1> DEFINE o == step(n.eng, NoKey, Look(Reads(n), noise), Verify, FALSE)
             page == IF dev.named THEN scr.page ELSE ""
             next == [n EXCEPT !.eng = o.n, !.cur = Row(n)]
             first == [next EXCEPT !.old = Row(n), !.page0 = page]
             sweep == [first EXCEPT !.st = "SWEEP", !.swphase = 0]
             focus == [first EXCEPT !.op = 1, !.field = 0, !.st = "FOCUS"]
             engine == [n EXCEPT !.eng = o.n]
             snap == [Nothing EXCEPT !.snap = TRUE]
             out == Read(n, noise)
             goal(k) == /\ k.wphase = 0 /\ k.st \in {"READ", "TEARDOWN", "SWEEP", "FOCUS"}
                        /\ k.st = "SWEEP" => req.sweep /\ k.swphase = 0 /\ AtRest(k)
                        /\ k.st = "FOCUS" => ~req.sweep /\ AtRest(k)
  <1>1. n \in Machines /\ Under(n.eng, {NoKey}) /\ n.confirm \in BOOLEAN
    BY Members DEF MachineInv, KeyOfState
  <1>0. o.r \in Results /\ o.n \in EngineStates
    <2> DEFINE reads == Reads(n)
    <2>1. reads \in BOOLEAN
      BY DEF Reads
    <2> HIDE DEF reads
    <2>2. Look(reads, noise) \in Looks
      BY <2>1, LookTyped
    <2>3. n.eng \in EngineStates /\ FALSE \in BOOLEAN /\ Verify \in Nat
      BY <1>1, Members, Constants
    <2>4. StepResult(n.eng, NoKey, step(n.eng, NoKey, Look(reads, noise), Verify, FALSE))
      BY <2>2, <2>3, StepOut, Words
    <2> QED BY <2>4, OutcomeFields DEF StepResult, reads
  <1>2. \/ Quietly(out) /\ out.m.st = "READ" /\ Under(out.m.eng, {NoKey}) /\ out.press = NoKey
        \/ Quietly(out) /\ out.m.st = "TEARDOWN" /\ ~out.m.ok /\ AtRest(out.m) /\ out.press = NoKey
        \/ /\ out.did = snap /\ out.press = NoKey /\ AtRest(out.m)
           /\ out.m.st \in {"TEARDOWN", "FOCUS", "SWEEP"}
           /\ out.m.st = "TEARDOWN" /\ Plain => out.m.cur = scr.row[req.ops[1].field]
    BY ReadKeys
  <1>3. \/ o.r = "RUN" /\ out.m = engine
        \/ o.r = "FAIL" /\ out.m = finish(n, FALSE)
        \/ o.r = "OK" /\ n.confirm /\ out.m = Confirmed(next)
        \/ o.r = "OK" /\ ~n.confirm /\ req.sweep /\ out.m = sweep
        \/ o.r = "OK" /\ ~n.confirm /\ ~req.sweep /\ out.m = Single(first)
        \/ o.r = "OK" /\ ~n.confirm /\ ~req.sweep /\ out.m = focus
    <2>1. o.r \in Results /\ req.sweep \in BOOLEAN /\ (Len(req.ops) = 1 \/ Len(req.ops) > 1)
      <3>1. req.sweep \in BOOLEAN /\ Len(req.ops) \in Nat \ {0}
        BY Asking DEF World
      <3>2. \A len \in Nat \ {0} : len = 1 \/ len > 1
        OBVIOUS
      <3> QED BY <1>0, <3>1, <3>2, Zenon
    <2> HIDE DEF o
    <2>2. out = CASE o.r = "RUN"  -> Stays(n, o)
                  [] o.r = "FAIL" -> Goes(fail(n))
                  [] o.r = "OK" /\ n.confirm -> Res(Confirmed(next), NoKey, snap)
                  [] o.r = "OK" /\ ~n.confirm /\ req.sweep -> Res(sweep, NoKey, snap)
                  [] o.r = "OK" /\ ~n.confirm /\ ~req.sweep /\ Len(req.ops) = 1 ->
                       Res(Single(first), NoKey, snap)
                  [] o.r = "OK" /\ ~n.confirm /\ ~req.sweep /\ Len(req.ops) > 1 ->
                       Res(focus, NoKey, snap)
      BY DEF Read, o
    <2>3. Stays(n, o) = Res(engine, o.press, Nothing) /\ Goes(fail(n)) = Res(finish(n, FALSE), NoKey, Nothing)
      BY DEF Stays, Goes, fail
    <2>4. \A k, press, calls : Res(k, press, calls).m = k
      BY DEF Res
    <2> HIDE DEF out, next, sweep, first, focus, engine, snap
    <2>5. CASE o.r = "RUN"
      BY <2>2, <2>3, <2>4, <2>5
    <2>6. CASE o.r = "FAIL"
      <3>1. out = Goes(fail(n))
        BY <2>2, <2>6
      <3>2. out = Res(finish(n, FALSE), NoKey, Nothing)
        BY <2>3, <3>1
      <3>3. out.m = finish(n, FALSE)
        BY <2>4, <3>2, Zenon
      <3> QED BY <2>6, <3>3
    <2>7. CASE o.r = "OK"
      <3>1. CASE n.confirm
        BY <2>2, <2>4, <2>7, <3>1
      <3>2. CASE ~n.confirm /\ req.sweep
        BY <2>2, <2>4, <2>7, <3>2
      <3>3. CASE ~n.confirm /\ ~req.sweep
        BY <2>1, <2>2, <2>4, <2>7, <3>3
      <3> QED BY <1>1, <2>1, <3>1, <3>2, <3>3
    <2> QED BY <2>1, <2>5, <2>6, <2>7 DEF Results
  <1> SUFFICES goal(out.m)
    OBVIOUS
  <1> HIDE DEF out, o, page
  <1>4. engine.wphase = 0 /\ engine.st = "READ" /\ next.wphase = 0
    BY <1>1 DEF Machines
  <1>5. sweep.st = "SWEEP" /\ sweep.swphase = 0 /\ sweep.wphase = 0 /\ focus.st = "FOCUS" /\ focus.wphase = 0
    BY <1>1 DEF Machines
  <1>6. Confirmed(next).wphase = 0 /\ Confirmed(next).st = "TEARDOWN"
    <2> DEFINE k == [next EXCEPT !.confirm = FALSE]
               shows == Shows(next, next.cur)
    <2>1. next \in Machines
      BY <1>0, <1>1, ReadBack DEF Beside
    <2> HIDE DEF next
    <2>2. k \in Machines /\ shows \in BOOLEAN
      BY <2>1, Updates, Zenon DEF Shows
    <2>3. Confirmed(next) = finish(k, shows)
      BY DEF Confirmed
    <2> HIDE DEF k, shows
    <2> QED BY <2>2, <2>3, ResetsWait DEF World
  <1>7. finish(n, FALSE).wphase = 0 /\ finish(n, FALSE).st = "TEARDOWN"
    BY <1>1, ResetsWait DEF World
  <1>8. out.m.st \in {"SWEEP", "FOCUS"} => AtRest(out.m)
    BY <1>2
  <1>9. Single(first).wphase = 0 /\ Single(first).st \in {"TEARDOWN", "FOCUS"}
    <2>1. first \in Machines /\ first.wphase = 0
      <3> DEFINE row == Row(n)
      <3>1. row \in Readings
        BY <1>1, Rows
      <3>2. page \in Pages \cup {""}
        <4>1. scr.page \in Pages
          BY DEF World, Screens
        <4> QED BY <4>1 DEF page
      <3>3. next \in Machines /\ next.wphase = 0
        BY <1>0, <1>1, <1>4, ReadBack DEF Beside
      <3> HIDE DEF next, row
      <3>4. [next EXCEPT !.old = row, !.page0 = page] \in Machines
        BY <3>1, <3>2, <3>3, Updates, Zenon
      <3>5. [next EXCEPT !.old = row, !.page0 = page].wphase = 0
        BY <3>3 DEF Machines
      <3> QED BY <3>4, <3>5 DEF row
    <2> HIDE DEF first
    <2>2. focus.st = "FOCUS" /\ focus.wphase = 0
      BY <1>5
    <2>3. Single(first) \in {finish(first, TRUE), fail(first), focus}
      BY DEF Single
    <2> HIDE DEF focus
    <2> QED BY <2>1, <2>2, <2>3, ResetsWait DEF World, fail
  <1> HIDE DEF engine, sweep, focus, next, first
  <1> QED BY <1>3, <1>4, <1>5, <1>6, <1>7, <1>8, <1>9

-----------------------------------------------------------------------------
(* One Enter leads to the value page *)

\* Of the route's last step the Enter is still to be pressed, or it was reported lost and is
\* pressed once more: the Enter that leads to the value page is due.
Unpressed(n) == n.step < Len(route) \/ (n.rphase = 0 /\ n.press = 0 /\ AtRest(n))
ToldLost(e) == e.phase # 0 /\ e.lost
Due(n) == Unpressed(n) \/ (n.step = Len(route) /\ n.rphase = 0 /\ ToldLost(n.eng))

\* The Enter of the last step is one (times 0 or 1 in the code).
SingleEnter == route[Len(route)].times = 1

\* While it is due none is under way, and none else comes behind it: the value page is met with
\* nothing under way and no field open, whatever was dropped.
OneEnter(n, q, d) ==
  n.st \in {"ROUTE", "READ"} =>
    /\ n.st = "ROUTE" /\ Due(n) => Only(q, {"ESC", "UP", "DOWN"}) /\ d.page # "value"
    /\ d.page # "value" => \A i \in 1 .. Len(q) : i < Len(q) => q[i].key # "ENTER"
    /\ d.page = "value" => q = <<>> /\ d.focus = 0

VisitInv == SingleEnter /\ OneEnter(m, keys, dev)

\* What press_run does before the password gate.
LEMMA PressDone ==
  ASSUME NEW n, NEW s, NEW look, n.press \in Nat, s.times \in Nat, n.rphase = 0, ~(n.press < s.times)
  PROVE  press_run(n, s, look) = Run([n EXCEPT !.rphase = IF s.pin THEN 1 ELSE 3])
  <1>1. n.press >= s.times
    OBVIOUS
  <1> QED BY <1>1 DEF press_run

LEMMA PressDue ==
  ASSUME NEW n, NEW s, NEW look, n.press \in Nat, s.times \in Nat, n.rphase = 0, n.press < s.times
  PROVE  LET move == step(n.eng, s.key, Sure(look), 0, TRUE)
         IN  press_run(n, s, look) = IF move.r = "OK" THEN Run([n EXCEPT !.eng = move.n, !.press = n.press + 1])
                                                      ELSE [Via(n, move) EXCEPT !.r = "RUN"]
  <1>1. ~(n.press >= s.times)
    OBVIOUS
  <1> QED BY <1>1 DEF press_run

\* The last step of the route presses once.
LEMMA LandingOpens ==
  ASSUME World, NEW n, MachineInv(n), n.st = "ROUTE", n.step = Len(route), Lands(route), KeyOfState(n),
         SingleEnter, NEW noise \in BOOLEAN
  PROVE  LET p == Route(n, noise)
         IN  /\ p.press = "ENTER" => Due(n)
             /\ p.m.st = "ROUTE" => ~Due(p.m)
  <1> DEFINE s == route[n.step]
             look == Look(IF s.kind = "press" /\ n.rphase \in {1, 2} THEN GateShows(n) ELSE Expects(s), noise)
             move == step(n.eng, s.key, Sure(look), 0, TRUE)
             o == step_run(n, s, noise)
             k1 == [n EXCEPT !.eng = move.n, !.press = n.press + 1]
             km == [n EXCEPT !.eng = move.n]
             out == Route(n, noise)
             goal(p) == /\ p.press = "ENTER" => Due(n)
                        /\ p.m.st = "ROUTE" => ~Due(p.m)
  <1>1. n \in Machines /\ n.attempt < Attempts /\ StepInv(n) /\ LastStep(n)
    <2>1. n.step \in 1 .. Len(route) + 1 /\ n.step = Len(route)
      BY Members DEF MachineInv
    <2> QED BY <2>1 DEF MachineInv, KeyOfState
  <1>2. n.eng \in EngineStates /\ n.press \in Nat /\ s.times = 1 /\ Len(route) \in Nat
    BY <1>1, AtStep DEF SingleEnter
  <1>3. s.kind = "press" /\ s.key = "ENTER" /\ ~s.pin /\ s.exp = "value"
    BY DEF Lands
  <1>4. LandingOut(n, out)
    BY LandingKeys
  <1>5. n.rphase = 0 /\ n.press < s.times =>
          out = IF move.r = "OK" THEN Res(k1, NoKey, Nothing) ELSE Res(km, move.press, Nothing)
    <2>0. SUFFICES ASSUME n.rphase = 0 /\ n.press < s.times
                   PROVE  out = IF move.r = "OK" THEN Res(k1, NoKey, Nothing) ELSE Res(km, move.press, Nothing)
      OBVIOUS
    <2>1. n.press \in Nat /\ s.times \in Nat
      BY <1>2
    <2>2. o = press_run(n, s, look)
      BY <1>3 DEF step_run
    <2>3. o = IF move.r = "OK" THEN Run(k1) ELSE [Via(n, move) EXCEPT !.r = "RUN"]
      <3> HIDE DEF s, look, o
      <3> QED BY <2>0, <2>1, <2>2, PressDue
    <2>4. Via(n, move) = [r |-> move.r, n |-> km, press |-> move.press]
      BY DEF Via, Out
    <2>5. o.r = "RUN" => out = Res(o.n, o.press, Nothing)
      BY DEF Route
    <2> HIDE DEF move, o, out, k1, km
    <2>6. move.r = "OK" => o.r = "RUN" /\ o.n = k1 /\ o.press = NoKey
      BY <2>3 DEF Run, Out
    <2>7. move.r # "OK" => o.r = "RUN" /\ o.n = km /\ o.press = move.press
      BY <2>3, <2>4
    <2> QED BY <2>5, <2>6, <2>7
  <1>6. StepGoes(n.eng, "ENTER", Sure(look), 0, move)
    <2> HIDE DEF s
    <2>1. look \in Looks
      BY <1>1, StepLook
    <2>2. Sure(look) \in Looks /\ TRUE \in BOOLEAN /\ 0 \in Nat /\ "ENTER" \in Pressed
      BY <2>1, SureTyped, Words DEF Pressed
    <2> HIDE DEF look
    <2> QED BY <1>2, <1>3, <2>2, StepCases
  <1>7. Sure(look).holds
    BY DEF Sure, Look
  <1> SUFFICES goal(out)
    OBVIOUS
  <1> HIDE DEF out, look
  <1>8. n.rphase = 0 /\ ~(n.press < s.times) => out.press = NoKey /\ out.m.rphase = 3
    <2>0. SUFFICES ASSUME n.rphase = 0 /\ ~(n.press < s.times)
                   PROVE  out.press = NoKey /\ out.m.rphase = 3
      OBVIOUS
    <2> DEFINE k0 == [n EXCEPT !.rphase = IF s.pin THEN 1 ELSE 3]
    <2>1. n.press \in Nat /\ s.times \in Nat
      BY <1>2
    <2>2. o = press_run(n, s, look)
      BY <1>3 DEF step_run, look
    <2>3. o = Run(k0)
      <3> HIDE DEF s, o
      <3>1. press_run(n, s, look) = Run(k0)
        BY <2>0, <2>1, PressDone
      <3> QED BY <2>2, <3>1
    <2>4. o.r = "RUN" => out = Res(o.n, o.press, Nothing)
      BY DEF Route, out
    <2>5. k0.rphase = 3
      BY <1>1, <1>3 DEF Machines
    <2> HIDE DEF k0, o
    <2> QED BY <2>3, <2>4, <2>5 DEF Run, Out, Res
  <1>9. CASE n.rphase = 0 /\ n.press < s.times
    <2>1. n.press = 0
      BY <1>2, <1>9
    <2>2. k1.eng = move.n /\ k1.press = 1 /\ km.eng = move.n /\ k1.step = Len(route) /\ km.step = Len(route)
      <3> DEFINE e == move.n
      <3>1. n.press + 1 = 1
        BY <2>1
      <3> HIDE DEF e
      <3> QED BY <1>1, <3>1 DEF Machines, e
    <2>3. move.r # "FAIL"
      BY <1>6, <1>7, <1>9 DEF StepGoes, StepMakes, StepWaits, StepOver, NoKey
    <2> HIDE DEF move, k1, km
    <2>4. \/ n.eng.phase = 0 /\ move.r = "RUN" /\ move.n.phase # 0 /\ move.n.lost = FALSE
          \/ ToldLost(n.eng) /\ move.r = "RUN" /\ move.n.phase # 0 /\ move.n.lost = FALSE
          \/ move.r = "RUN" /\ move.n.phase # 0 /\ move.n.lost = FALSE /\ move.press = NoKey
          \/ move.r = "OK" /\ move.n.phase = 0
      BY <1>6, <2>3 DEF StepGoes, StepMakes, StepWaits, StepOver, ToldLost
    <2>5. ~(Len(route) < Len(route)) /\ "ENTER" # NoKey
      BY <1>2 DEF NoKey
    <2>6. CASE move.r = "OK"
      <3>1. out = Res(k1, NoKey, Nothing)
        BY <1>5, <1>9, <2>6
      <3>2. out.m = k1 /\ out.press = NoKey
        BY <3>1 DEF Res
      <3>3. k1.eng.phase = 0 /\ k1.press = 1
        BY <2>2, <2>4, <2>6
      <3> QED BY <2>2, <2>5, <3>2, <3>3 DEF Due, Unpressed, ToldLost
    <2>7. CASE move.r # "OK"
      <3>1. out = Res(km, move.press, Nothing)
        BY <1>5, <1>9, <2>7
      <3>2. out.m = km /\ out.press = move.press
        BY <3>1 DEF Res
      <3>3. km.eng.phase # 0 /\ km.eng.lost = FALSE
        BY <2>2, <2>4, <2>7
      <3>4. n.eng.phase = 0 \/ ToldLost(n.eng) \/ move.press = NoKey
        BY <2>4, <2>7
      <3>5. n.step = Len(route)
        OBVIOUS
      <3> QED BY <1>9, <2>1, <2>2, <2>5, <3>2, <3>3, <3>4, <3>5 DEF Due, Unpressed, ToldLost, AtRest
    <2> QED BY <2>6, <2>7
  <1>10. CASE ~(n.rphase = 0 /\ n.press < s.times)
    <2>1. "ENTER" # NoKey /\ ~(n.step < Len(route))
      BY <1>2 DEF NoKey
    <2>2. out.press = NoKey /\ (out.m.st = "ROUTE" => out.m.rphase = 3 /\ out.m.step = n.step)
      <3>1. CASE n.rphase = 0
        BY <1>4, <1>8, <1>10, <3>1 DEF LandingOut, GivesUp
      <3>2. CASE n.rphase # 0
        BY <1>4, <3>2 DEF LandingOut, GivesUp
      <3> QED BY <3>1, <3>2
    <2> QED BY <2>1, <2>2 DEF Due, Unpressed
  <1> QED BY <1>9, <1>10

\* The presses on their way once one was added.
LEMMA QueuedAt ==
  ASSUME keys \in InFlight, NEW press \in Pressed, NEW q, Queued(q, press)
  PROVE  /\ press = NoKey => q = keys
         /\ press # NoKey => /\ Len(q) = Len(keys) + 1 /\ Len(keys) \in Nat
                             /\ q[Len(q)].key = press /\ q[Len(q)].age = 0
                             /\ \A i \in 1 .. Len(keys) : q[i] = keys[i]
  <1> DEFINE k == [key |-> press, age |-> 0]
  <1>1. CASE press = NoKey
    BY <1>1 DEF Queued
  <1>2. CASE press # NoKey
    <2>1. q = Append(keys, k) /\ k \in UnderWay /\ keys \in Seq(UnderWay)
      <3>1. press \in Keys /\ 0 \in 0 .. Ttl
        BY <1>2, Constants DEF Pressed
      <3> QED BY <1>2, <3>1 DEF Queued, UnderWay, InFlight
    <2>2. k.key = press /\ k.age = 0
      OBVIOUS
    <2> HIDE DEF k
    <2> QED BY <1>2, <2>1, <2>2
  <1> QED BY <1>1, <1>2

\* A pass of a visit; where the value page is not looked for nothing is asked of the presses.
VisitPassing(st) == Passing(st) /\ SingleEnter /\ OneEnter(m, keys, dev)
VisitOn(p) == \A q : Queued(q, p.press) => OneEnter(p.m, q, dev)

LEMMA NoVisit ==
  ASSUME NEW p, p.m.st \notin {"ROUTE", "READ"}
  PROVE  VisitOn(p)
  BY DEF VisitOn, OneEnter

LEMMA NotYetEntered ==
  ASSUME NEW n, n.st \in {"ROUTE", "READ"}, NEW q, Only(q, {"ESC", "UP", "DOWN"}), dev.page # "value"
  PROVE  OneEnter(n, q, dev)
  BY DEF OneEnter, Only

LEMMA AnchorVisit ==
  ASSUME VisitPassing("ANCHOR"), NEW noise \in BOOLEAN
  PROVE  VisitOn(Anchor(m, noise))
  <1> DEFINE p == Anchor(m, noise)
  <1>1. Passing("ANCHOR")
    BY DEF VisitPassing
  <1>2. /\ \/ p.m.st = "ANCHOR" /\ p.press \in {"ESC", NoKey}
           \/ GivesUp(p.m) /\ p.press = NoKey
           \/ p.m.st = "ROUTE" /\ AtRest(p.m) /\ p.press = NoKey /\ scr.page = "anchor"
    BY <1>1, AnchorKeys DEF Passing, Fits
  <1> SUFFICES VisitOn(p)
    OBVIOUS
  <1> HIDE DEF p
  <1>3. Returning(keys, dev, scr) \/ Elsewhere(keys, dev)
    BY <1>1 DEF Passing, Fits, OnWayHome, Homing
  <1>4. CASE p.m.st = "ROUTE" /\ p.press = NoKey /\ scr.page = "anchor"
    <2>1. Only(keys, {"ESC", "UP", "DOWN"}) /\ dev.page # "value"
      BY <1>3, <1>4 DEF Returning, Elsewhere, Only
    <2>2. OneEnter(p.m, keys, dev)
      BY <1>4, <2>1, NotYetEntered
    <2> QED BY <1>4, <2>2 DEF VisitOn, Queued
  <1>5. CASE p.m.st # "ROUTE"
    <2>1. p.m.st \notin {"ROUTE", "READ"}
      BY <1>2, <1>5 DEF GivesUp
    <2> QED BY <2>1, NoVisit
  <1> QED BY <1>2, <1>4, <1>5 DEF GivesUp

LEMMA RouteVisit ==
  ASSUME VisitPassing("ROUTE"), NEW noise \in BOOLEAN
  PROVE  VisitOn(Route(m, noise))
  <1> DEFINE p == Route(m, noise)
  <1>1. Passing("ROUTE") /\ SingleEnter /\ OneEnter(m, keys, dev) /\ m.st = "ROUTE"
    BY DEF VisitPassing, Passing
  <1>2. m.step \in 1 .. Len(route) /\ Len(route) \in Nat
    <2>1. m.step \in 1 .. Len(route) + 1 /\ m.step <= Len(route) /\ Len(route) \in Nat
      BY <1>1, Members, Routing DEF Passing, MachineInv, StepInv, IInv
    <2> QED BY <2>1
  <1>3. CASE m.step < Len(route)
    <2>1. \/ p.m.st = "ROUTE" /\ p.m.step = m.step /\ p.press \in MenuKeys
          \/ p.m.st = "ROUTE" /\ AtRest(p.m) /\ p.press = NoKey
          \/ GivesUp(p.m) /\ p.press = NoKey
      BY <1>1, <1>3, RouteKeys DEF Passing, Fits
    <2>2. Only(keys, {"ESC", "UP", "DOWN"}) /\ dev.page # "value"
      BY <1>1, <1>3 DEF Passing, Fits, OnVisit
    <2> SUFFICES VisitOn(p)
      OBVIOUS
    <2> HIDE DEF p
    <2>3. CASE GivesUp(p.m)
      <3>1. p.m.st \notin {"ROUTE", "READ"}
        BY <2>3 DEF GivesUp
      <3> QED BY <3>1, NoVisit
    <2>4. CASE ~GivesUp(p.m)
      <3>1. p.m.st = "ROUTE" /\ p.press \in MenuKeys
        BY <2>1, <2>4 DEF MenuKeys
      <3>2. p.press \in Keys \cup {NoKey} /\ p.press \in {"ESC", "UP", "DOWN"} \cup {NoKey}
        BY <3>1 DEF MenuKeys, Keys
      <3>3. ASSUME NEW q, Queued(q, p.press) PROVE Only(q, {"ESC", "UP", "DOWN"})
        BY <1>1, <2>2, <3>2, <3>3, QueuedKeys DEF Passing
      <3> QED BY <2>2, <3>1, <3>3, NotYetEntered DEF VisitOn
    <2> QED BY <2>3, <2>4
  <1>4. CASE m.step = Len(route)
    <2>1. LandingOut(m, p)
      BY <1>1, <1>4, LandingKeys DEF Passing, Fits
    <2>2. /\ p.press = "ENTER" => Due(m)
          /\ p.m.st = "ROUTE" => ~Due(p.m)
      BY <1>1, <1>4, LandingOpens DEF Passing, Fits
    <2> SUFFICES VisitOn(p)
      OBVIOUS
    <2> HIDE DEF p
    <2>3. p.press \in {"ENTER", NoKey}
      BY <2>1 DEF LandingOut, GivesUp
    <2>4. ASSUME NEW q, Queued(q, p.press)
          PROVE  OneEnter(p.m, q, dev)
      <3>1. /\ dev.page # "value" => \A i \in 1 .. Len(keys) : i < Len(keys) => keys[i].key # "ENTER"
            /\ dev.page = "value" => keys = <<>> /\ dev.focus = 0
            /\ Due(m) => Only(keys, {"ESC", "UP", "DOWN"}) /\ dev.page # "value"
        BY <1>1 DEF OneEnter
      <3>2. CASE p.press = NoKey
        BY <2>2, <2>4, <3>1, <3>2 DEF Queued, OneEnter
      <3>3. CASE p.press = "ENTER"
        <4>1. Only(keys, {"ESC", "UP", "DOWN"}) /\ dev.page # "value"
          BY <2>2, <3>1, <3>3
        <4>2. "ENTER" \in Pressed /\ "ENTER" # NoKey /\ keys \in InFlight
          BY <1>1, Words DEF NoKey, Passing
        <4>3. Len(q) = Len(keys) + 1 /\ Len(keys) \in Nat /\ \A i \in 1 .. Len(keys) : q[i] = keys[i]
          BY <2>4, <3>3, <4>2, QueuedAt
        <4>4. ASSUME NEW i \in 1 .. Len(q), i < Len(q) PROVE q[i].key # "ENTER"
          <5>1. i \in 1 .. Len(keys)
            BY <4>3, <4>4
          <5>2. keys[i].key \in {"ESC", "UP", "DOWN"}
            BY <4>1, <5>1 DEF Only
          <5> QED BY <4>3, <5>1, <5>2
        <4> QED BY <2>2, <4>1, <4>4 DEF OneEnter
      <3> QED BY <2>3, <3>2, <3>3
    <2> QED BY <2>4 DEF VisitOn
  <1> QED BY <1>2, <1>3, <1>4

LEMMA ReadVisit ==
  ASSUME VisitPassing("READ"), NEW noise \in BOOLEAN
  PROVE  VisitOn(Read(m, noise))
  <1> DEFINE p == Read(m, noise)
  <1>1. Passing("READ") /\ OneEnter(m, keys, dev) /\ m.st = "READ"
    BY DEF VisitPassing, Passing
  <1>2. p.press = NoKey /\ p.m.st # "ROUTE"
    BY <1>1, ReadKeys DEF Passing, Fits
  <1> HIDE DEF p
  <1>3. OneEnter(p.m, keys, dev)
    BY <1>1, <1>2 DEF OneEnter
  <1>4. VisitOn(p)
    BY <1>2, <1>3 DEF VisitOn, Queued
  <1> QED BY <1>4 DEF p

\* A pass of tick, in every state.
LEMMA PassVisit ==
  ASSUME IInv, TruthInv, VisitInv, NEW noise \in BOOLEAN
  PROVE  VisitOn(Pass(noise))
  <1> DEFINE p == Pass(noise)
  <1>1. IInv /\ World /\ MachineInv(m) /\ keys \in InFlight /\ Lands(route) /\ Fits(m, keys, dev, scr, owed)
        /\ m \in Machines
    BY Worldly DEF TruthInv, IInv, Around, MachineInv
  <1>2. m.st \in States
    BY <1>1, Members
  <1>3. \A st : m.st = st => VisitPassing(st)
    BY <1>1 DEF VisitInv, VisitPassing, Passing
  <1>4. CASE m.st \in {"ANCHOR", "ROUTE", "READ"}
    BY <1>3, <1>4, AnchorVisit, RouteVisit, ReadVisit DEF Pass
  <1>5. CASE m.st \notin {"ANCHOR", "ROUTE", "READ"}
    <2>1. p.m.st \notin {"ROUTE", "READ"}
      <3>1. CASE m.st \in Working
        <4>1. Works(p.m)
          BY <1>1, <3>1, WorkKeysPass DEF Fits, WorkOut
        <4> HIDE DEF p
        <4> QED BY <4>1 DEF Works, Working
      <3>2. CASE m.st = "ABORT_ESC"
        <4>1. p = AbortEsc(m, noise)
          BY <3>2 DEF Pass
        <4> QED BY <1>1, <3>2, <4>1, AbortKeys DEF Fits
      <3>3. CASE m.st = "TEARDOWN"
        <4>1. p = Teardown(m, noise)
          BY <3>3 DEF Pass
        <4> QED BY <1>1, <3>3, <4>1, TeardownKeys DEF Fits
      <3>4. CASE m.st = "IDLE"
        <4>1. p = Goes(m)
          BY <3>4 DEF Pass
        <4>2. Goes(m).m = m
          BY DEF Goes, Res
        <4> QED BY <3>4, <4>1, <4>2
      <3> QED BY <1>2, <1>5, <3>1, <3>2, <3>3, <3>4 DEF States, Working
    <2> QED BY <2>1, NoVisit
  <1> QED BY <1>4, <1>5

\* The invariant of the next state, from what it says of the next values.
LEMMA VisitNext ==
  ASSUME VisitInv, route' = route, OneEnter(m', keys', dev')
  PROVE  VisitInv'
  <1>1. OneEnter(m, keys, dev)'
    BY DEF OneEnter, Due, Unpressed
  <1> QED BY <1>1 DEF VisitInv, SingleEnter

LEMMA TickVisit ==
  ASSUME IInv, TruthInv, VisitInv, Tick
  PROVE  VisitInv'
  <1>1. PICK noise \in BOOLEAN : m' = Pass(noise).m /\ Queued(keys', Pass(noise).press)
    BY DEF Tick, Queued
  <1>2. route' = route /\ dev' = dev
    BY DEF Tick
  <1>3. OneEnter(Pass(noise).m, keys', dev)
    BY <1>1, PassVisit DEF VisitOn
  <1> QED BY <1>1, <1>2, <1>3, VisitNext

LEMMA CallsVisit ==
  ASSUME IInv, VisitInv, begin \/ resync_anchor
  PROVE  VisitInv'
  <1>1. route' = route
    BY DEF begin, resync_anchor
  <1>2. m'.st \in {"ANCHOR", "IDLE"}
    BY DEF begin, resync_anchor, Idle, IInv, MachineInv, Machines
  <1>3. OneEnter(m', keys', dev')
    BY <1>2 DEF OneEnter
  <1> QED BY <1>1, <1>3, VisitNext

\* The one Enter that leads to the value page is the last press when it is taken.
LEMMA TakesEnter ==
  ASSUME IInv, TruthInv, Takes, OneEnter(m, keys, dev)
  PROVE  OneEnter(m, keys', dev')
  <1> DEFINE key == Head(keys).key
  <1>1. keys # <<>> /\ dev' \in Press(dev, key) /\ keys' = Tail(keys)
    BY DEF Takes
  <1>2. dev \in Devices /\ keys \in InFlight /\ Shut(dev) /\ Fits(m, keys, dev, scr, owed)
    BY DEF IInv, Around, TruthInv, Drawn
  <1>3. key \in Keys
    BY <1>1, <1>2, HeadTyped DEF UnderWay
  <1>4. /\ Len(keys) \in Nat /\ Len(keys) >= 1 /\ Head(keys) = keys[1] /\ Len(Tail(keys)) = Len(keys) - 1
        /\ \A i \in 1 .. Len(keys) - 1 : Tail(keys)[i] = keys[i + 1]
    BY <1>1, <1>2 DEF InFlight
  <1> SUFFICES ASSUME m.st \in {"ROUTE", "READ"} PROVE OneEnter(m, keys', dev')
    BY DEF OneEnter
  <1>5. /\ m.st = "ROUTE" /\ Due(m) => Only(keys, {"ESC", "UP", "DOWN"}) /\ dev.page # "value"
        /\ dev.page # "value" /\ \A i \in 1 .. Len(keys) : i < Len(keys) => keys[i].key # "ENTER"
    BY <1>1 DEF OneEnter
  <1>6. /\ dev'.focus = 0
        /\ key = "ESC" => dev'.page # "value"
        /\ key # "ENTER" /\ Hidden => dev'.page # "value"
    BY <1>1, <1>2, <1>3, <1>5, PressAway
  <1>7. Hidden \/ Only(keys, {"ESC", "ENTER"})
    BY <1>2 DEF Fits, OnVisit
  <1>8. CASE key = "ENTER"
    <2>1. Len(keys) = 1
      <3> DEFINE k == Len(keys)
      <3>1. k \in Nat /\ k >= 1 /\ keys[1].key = "ENTER"
        BY <1>4, <1>8
      <3>2. 1 \in 1 .. k
        BY <3>1
      <3>3. ~(1 < k)
        BY <1>5, <3>1, <3>2
      <3> HIDE DEF k
      <3>4. k = 1
        BY <3>1, <3>3
      <3> QED BY <3>4 DEF k
    <2>2. keys' = <<>>
      BY <1>1, <1>2, <1>4, <2>1 DEF InFlight
    <2>3. ~(m.st = "ROUTE" /\ Due(m))
      BY <1>4, <1>5, <1>8 DEF Only
    <2> QED BY <1>5, <1>6, <2>2, <2>3 DEF OneEnter
  <1>9. CASE key # "ENTER"
    <2>1. dev'.page # "value"
      BY <1>4, <1>6, <1>7, <1>9 DEF Only
    <2>2. \A S : Only(keys, S) => Only(keys', S)
      BY <1>1, <1>2, Taken
    <2>3. \A i \in 1 .. Len(keys') : i < Len(keys') => keys'[i].key # "ENTER"
      BY <1>1, <1>4, <1>5
    <2> QED BY <1>5, <2>1, <2>2, <2>3 DEF OneEnter
  <1> QED BY <1>8, <1>9

\* What a dropped press leaves of the machine: its fate is fed to the engine, or lost.
LEMMA DropsLeave ==
  ASSUME IInv, Drops
  PROVE  LET key == Head(keys).key
         IN  /\ keys # <<>> /\ keys' = Tail(keys) /\ lost' = (lost \/ key = "ENTER") /\ key \in Keys
             /\ did' = Nothing /\ UNCHANGED <<req, route, dev, scr, owed, passes>>
             /\ m'.st = m.st /\ m'.step = m.step /\ m'.rphase = m.rphase /\ m'.press = m.press
             /\ m'.wphase = m.wphase /\ m'.swphase = m.swphase /\ m'.cur = m.cur
             /\ m'.eng.phase = m.eng.phase /\ m'.eng.key = m.eng.key /\ m'.eng.at = m.eng.at
             /\ m'.eng.lost = m.eng.lost \/ FateMatches(m.eng, key)
  <1> DEFINE key == Head(keys).key
  <1>1. /\ keys # <<>> /\ keys' = Tail(keys) /\ did' = Nothing /\ UNCHANGED <<req, route, dev, scr, owed, passes>>
        /\ m' = m \/ (FateMatches(m.eng, key) /\ m' = [m EXCEPT !.eng.lost = TRUE])
        /\ lost' = (lost \/ key = "ENTER")
    BY DEF Drops
  <1>2. m \in Machines /\ m.eng \in EngineStates /\ key \in Keys
    BY <1>1, Members, HeadTyped DEF IInv, Around, MachineInv
  <1>3. CASE m' = m
    BY <1>1, <1>2, <1>3
  <1>4. CASE FateMatches(m.eng, key) /\ m' = [m EXCEPT !.eng.lost = TRUE]
    <2> DEFINE e == [m.eng EXCEPT !.lost = TRUE]
    <2>1. m' = [m EXCEPT !.eng = e]
      BY <1>2, <1>4 DEF Machines
    <2>2. e.phase = m.eng.phase /\ e.key = m.eng.key /\ e.at = m.eng.at
      BY <1>2 DEF EngineStates
    <2> HIDE DEF e
    <2>3. /\ m'.st = m.st /\ m'.step = m.step /\ m'.rphase = m.rphase /\ m'.press = m.press
          /\ m'.wphase = m.wphase /\ m'.swphase = m.swphase /\ m'.cur = m.cur /\ m'.eng = e
      BY <1>2, <2>1 DEF Machines
    <2> QED BY <1>1, <1>2, <1>4, <2>2, <2>3
  <1> QED BY <1>1, <1>3, <1>4

\* What half a second changes of the machine.
LEMMA TimeLeaves ==
  ASSUME IInv, Time
  PROVE  /\ keys' = Aged(keys) /\ owed = "nothing" /\ passes > 0 /\ \A i \in 1 .. Len(keys) : keys[i].age < Ttl
         /\ did' = Nothing /\ passes' = 0 /\ UNCHANGED <<req, route, dev, scr, owed, lost>>
         /\ m'.st = m.st /\ m'.step = m.step /\ m'.rphase = m.rphase /\ m'.press = m.press
         /\ m'.wphase = m.wphase /\ m'.swphase = m.swphase /\ m'.cur = m.cur /\ m'.wcand = m.wcand
         /\ m'.eng.phase = m.eng.phase /\ m'.eng.key = m.eng.key /\ m'.eng.lost = m.eng.lost
         /\ m'.eng.at = IF m.eng.phase = 0 THEN 0 ELSE Elapsed(m.eng.at, AgeCap)
         /\ m'.wq = IF m.wphase = 1 THEN Elapsed(m.wq, Quiet) ELSE 0
         /\ m'.wdead = IF m.wphase > 0 /\ m.wdead > 0 THEN m.wdead - 1 ELSE 0
  <1> DEFINE at == IF m.eng.phase = 0 THEN 0 ELSE Elapsed(m.eng.at, AgeCap)
             wq == IF m.wphase = 1 THEN Elapsed(m.wq, Quiet) ELSE 0
             wdead == IF m.wphase > 0 /\ m.wdead > 0 THEN m.wdead - 1 ELSE 0
  <1>1. m \in Machines /\ m.eng \in EngineStates
    BY Members DEF IInv, MachineInv
  <1>2. /\ keys' = Aged(keys) /\ owed = "nothing" /\ passes > 0 /\ \A i \in 1 .. Len(keys) : keys[i].age < Ttl
        /\ did' = Nothing /\ passes' = 0 /\ UNCHANGED <<req, route, dev, scr, owed, lost>>
        /\ m' = [m EXCEPT !.eng.at = at, !.wq = wq, !.wdead = wdead]
    BY DEF Time, MayElapse, Aged
  <1> HIDE DEF at, wq, wdead
  <1>3. /\ m'.st = m.st /\ m'.step = m.step /\ m'.rphase = m.rphase /\ m'.press = m.press
        /\ m'.wphase = m.wphase /\ m'.swphase = m.swphase /\ m'.cur = m.cur /\ m'.wcand = m.wcand
        /\ m'.eng.phase = m.eng.phase /\ m'.eng.key = m.eng.key /\ m'.eng.lost = m.eng.lost
        /\ m'.eng.at = at /\ m'.wq = wq /\ m'.wdead = wdead
    BY <1>1, <1>2 DEF Machines, EngineStates
  <1> QED BY <1>2, <1>3 DEF at, wq, wdead

\* A press is dropped: of the Enter nothing is left under way.
LEMMA DropsEnter ==
  ASSUME IInv, TruthInv, Drops, OneEnter(m, keys, dev)
  PROVE  OneEnter(m', keys', dev)
  <1> DEFINE key == Head(keys).key
  <1>1. keys # <<>> /\ keys' = Tail(keys)
    BY DropsLeave
  <1>2. keys \in InFlight /\ m \in Machines /\ m.eng \in EngineStates /\ Fits(m, keys, dev, scr, owed)
    BY Members DEF IInv, Around, MachineInv, TruthInv
  <1>3. /\ m'.st = m.st /\ m'.step = m.step /\ m'.rphase = m.rphase /\ m'.press = m.press
        /\ m'.eng.phase = m.eng.phase
        /\ m'.eng.lost = m.eng.lost \/ FateMatches(m.eng, key)
    BY DropsLeave
  <1>4. /\ Len(keys) \in Nat /\ Len(keys) >= 1 /\ Head(keys) = keys[1] /\ Len(Tail(keys)) = Len(keys) - 1
        /\ \A i \in 1 .. Len(keys) - 1 : Tail(keys)[i] = keys[i + 1] /\ i + 1 \in 1 .. Len(keys)
    BY <1>1, <1>2 DEF InFlight
  <1>5. \A S : Only(keys, S) => Only(keys', S)
    BY <1>1, <1>2, Taken
  <1> SUFFICES ASSUME m.st \in {"ROUTE", "READ"} PROVE OneEnter(m', keys', dev)
    BY <1>3 DEF OneEnter
  <1>6. /\ m.st = "ROUTE" /\ Due(m) => Only(keys, {"ESC", "UP", "DOWN"}) /\ dev.page # "value"
        /\ dev.page # "value" /\ \A i \in 1 .. Len(keys) : i < Len(keys) => keys[i].key # "ENTER"
    BY <1>1 DEF OneEnter
  <1>7. \A i \in 1 .. Len(keys') : i < Len(keys') => keys'[i].key # "ENTER"
    BY <1>1, <1>4, <1>6
  <1>8. m.st = "ROUTE" /\ Due(m') => Only(keys', {"ESC", "UP", "DOWN"})
    <2> SUFFICES ASSUME m.st = "ROUTE", Due(m'), ~Due(m) PROVE Only(keys', {"ESC", "UP", "DOWN"})
      BY <1>5, <1>6
    <2>1. m.step = Len(route) /\ m.rphase = 0 /\ FateMatches(m.eng, key)
      BY <1>3 DEF Due, Unpressed, ToldLost, AtRest
    <2>2. Under(m.eng, {"ENTER"})
      BY <1>2, <2>1 DEF Fits, KeyOfState, LastStep
    <2>3. key = "ENTER"
      BY <2>1, <2>2 DEF FateMatches, Under
    <2>4. Len(keys) = 1
      <3> DEFINE k == Len(keys)
      <3>1. k \in Nat /\ k >= 1 /\ keys[1].key = "ENTER"
        BY <1>4, <2>3
      <3>2. ~(1 < k)
        BY <1>6, <3>1
      <3> HIDE DEF k
      <3>3. k = 1
        BY <3>1, <3>2
      <3> QED BY <3>3 DEF k
    <2>5. Len(keys') = 0
      BY <1>1, <1>4, <2>4
    <2> QED BY <2>5 DEF Only
  <1> QED BY <1>3, <1>6, <1>7, <1>8 DEF OneEnter

LEMMA TimeEnter ==
  ASSUME IInv, Time, OneEnter(m, keys, dev)
  PROVE  OneEnter(m', keys', dev)
  <1>1. keys' = Aged(keys) /\ keys \in InFlight
    BY TimeLeaves DEF IInv, Around
  <1>2. /\ m'.st = m.st /\ m'.step = m.step /\ m'.rphase = m.rphase /\ m'.press = m.press
        /\ m'.eng.phase = m.eng.phase /\ m'.eng.lost = m.eng.lost
    BY TimeLeaves
  <1>3. /\ Len(keys') = Len(keys) /\ \A i \in 1 .. Len(keys) : keys'[i].key = keys[i].key
        /\ \A S : Only(keys, S) => Only(keys', S)
    BY <1>1, AgedKeys
  <1>4. keys = <<>> => keys' = <<>>
    BY <1>1 DEF Aged
  <1>5. Due(m') <=> Due(m)
    BY <1>2 DEF Due, Unpressed, ToldLost, AtRest
  <1> QED BY <1>2, <1>3, <1>4, <1>5 DEF OneEnter

LEMMA VisitStep ==
  ASSUME IInv, TruthInv, VisitInv, [Next]_vars
  PROVE  VisitInv'
  <1>1. route' = route
    BY DEF Next, Tick, begin, resync_anchor, Takes, Drops, Repaint, Tear, Time, vars
  <1>2. CASE Takes
    <2>1. m' = m
      BY <1>2 DEF Takes
    <2> QED BY <1>1, <1>2, <2>1, TakesEnter, VisitNext DEF VisitInv
  <1>3. CASE Drops
    <2>1. dev' = dev
      BY <1>3 DEF Drops
    <2> QED BY <1>1, <1>3, <2>1, DropsEnter, VisitNext DEF VisitInv
  <1>4. CASE Time
    <2>1. dev' = dev
      BY <1>4 DEF Time
    <2> QED BY <1>1, <1>4, <2>1, TimeEnter, VisitNext DEF VisitInv
  <1>5. CASE Repaint \/ Tear \/ UNCHANGED vars
    <2>1. m' = m /\ keys' = keys /\ dev' = dev
      BY <1>5 DEF Repaint, Tear, vars
    <2> QED BY <1>1, <2>1, VisitNext DEF VisitInv
  <1> QED BY <1>2, <1>3, <1>4, <1>5, TickVisit, CallsVisit DEF Next

LEMMA InitVisit ==
  ASSUME Init, SingleEnter
  PROVE  VisitInv
  <1>1. m.st = "IDLE"
    BY DEF Init, Idle
  <1> QED BY <1>1 DEF VisitInv, OneEnter

-----------------------------------------------------------------------------
(* Which presses of a sweep are under way, and what they meet *)

\* The row of the value page is on the screen, and no arrow moved it since it was drawn.
Painted(d, s, o) == d.page = "value" /\ s.row = Shown(d).row /\ o # "field"

\* The selector is open when the presses are taken: the Enter is under way, or was taken; with
\* k = 1 an arrow comes behind.
Opens(q, d, k) ==
  \/ d.focus = 0 /\ Len(q) = k + 1 /\ q[1].key = "ENTER" /\ (k = 1 => q[2].key \in Arrows)
  \/ d.focus = 1 /\ Len(q) = k /\ (k = 1 => q[1].key \in Arrows)

\* The three steps of a sweep: open the selector, publish what it shows, page on.
Opening(n, q, d, s, o) ==
  /\ Painted(d, s, o) /\ n.wphase = 0 /\ Under(n.eng, {"ENTER"}) /\ ~ToldLost(n.eng)
  /\ IF AtRest(n) THEN q = <<>> /\ d.focus = 0 ELSE Opens(q, d, 0)

Capturing(n, q, d, s, o) ==
  /\ Painted(d, s, o) /\ n.wphase = 0 /\ AtRest(n) /\ n.cur = s.row[1] /\ Opens(q, d, 0)

\* Before the arrow was taken; after it, while the row is watched.  MovedOn says of the candidate
\* that it is the row drawn last (Fixed), once the clock has moved or the loop has passed over a
\* drawn row; and that the quiet window is over before the watch gives up.
Unmoved(n, q, d, s, o) ==
  /\ Painted(d, s, o) /\ n.wphase = 0 /\ n.cur = s.row[1]
  /\ Opens(q, d, 0) \/ (Opens(q, d, 1) /\ ~AtRest(n) /\ ~n.eng.lost)

Fixed(n, s, o) == o = "nothing" /\ n.wcand = s.row[1]
MovedOn(n, q, d, s, o, t) ==
  /\ q = <<>> /\ d.page = "value" /\ d.focus = 1
  /\ n.wphase = 0 => ~AtRest(n) /\ ~n.eng.lost
  /\ n.wphase # 0 => AtRest(n)
  /\ n.wphase = 1 => /\ n.wq > 0 \/ n.wdead < Deadline \/ (o = "nothing" /\ t > 0) => Fixed(n, s, o)
                     /\ n.wq = Quiet \/ n.wq + n.wdead >= Deadline
  /\ n.wphase = 2 => o = "nothing" /\ n.cur = s.row[1]

\* A step's presses are no older than the step, and it gives up when they were decided and drawn.
Timed(n, q, o) ==
  n.wphase = 0 /\ n.eng.phase # 0 =>
    /\ \A i \in 1 .. Len(q) : q[i].age >= n.eng.at
    /\ n.eng.at > Ttl => q = <<>> /\ o = "nothing"
Paging(n, q, d, s, o, t) ==
  /\ Unmoved(n, q, d, s, o) \/ MovedOn(n, q, d, s, o, t)
  /\ Timed(n, q, o) /\ Under(n.eng, Arrows)

InSweep(n, q, d, s, o, t) ==
  n.st = "SWEEP" =>
    /\ n.swphase = 0 => Opening(n, q, d, s, o)
    /\ n.swphase = 1 => Capturing(n, q, d, s, o)
    /\ n.swphase = 2 => Paging(n, q, d, s, o, t)

\* The rows of a page whose selector is not left.
LEMMA PaintedRow ==
  ASSUME dev \in Devices, Painted(dev, scr, owed), dev.focus # 2
  PROVE  /\ scr.row[1] = dev.shown1 /\ dev.shown1 \in Values /\ scr.row[1] # NoRow
         /\ scr.row = <<dev.shown1, Number(dev, dev.shown1)>>
  <1>1. dev.shown1 \in Values /\ NoRow \notin Values
    BY DeviceMembers, EditAssumption DEF Values
  <1>2. scr.row = <<dev.shown1, Number(dev, dev.shown1)>>
    BY DEF Painted, Shown, Row2
  <1> QED BY <1>1, <1>2

\* What a lemma about the selector may assume of the state; the row that is read.
SelectorWorld ==
  /\ World /\ keys \in InFlight /\ Drawn(dev, scr, owed) /\ Len(req.ops) = 1 /\ req.ops[1].field = 1

LEMMA SelectorRow ==
  ASSUME SelectorWorld, NEW n \in Machines
  PROVE  Row(n) = scr.row[1]
  BY OneField DEF SelectorWorld

\* What a pass of the sweep publishes and where it leads; what it leaves under way.
SweepStays(p) == p.did = Nothing /\ p.m.st \in {"SWEEP", "ABORT_ESC", "TEARDOWN"}
SweepAfter(p) == \A q, t : Queued(q, p.press) /\ t > 0 => InSweep(p.m, q, dev, scr, owed, t)

\* What is over is no longer a sweep.
LEMMA NoSweep ==
  ASSUME NEW p, p.m.st # "SWEEP"
  PROVE  SweepAfter(p)
  BY DEF SweepAfter, InSweep

\* sweep_focus: the selector is opened by one Enter.
LEMMA FocusStays ==
  ASSUME World, NEW n, MachineInv(n), n.st = "SWEEP", NEW noise \in BOOLEAN
  PROVE  SweepStays(sweep_focus(n, noise))
  <1> DEFINE o == Entered(n, noise)
             next == [n EXCEPT !.eng = o.n, !.cur = Row(n)]
             on == [next EXCEPT !.seen = {}, !.down = FALSE, !.press = 0, !.swphase = 1]
             k == [n EXCEPT !.eng = o.n]
             out == sweep_focus(n, noise)
  <1>1. n \in Machines
    BY DEF MachineInv
  <1>2. o \in Outcomes
    BY <1>1, EnteredOut
  <1>3. out = CASE o.r = "RUN"  -> Res(k, o.press, Nothing)
                [] o.r = "FAIL" -> Goes(abort(n))
                [] o.r = "OK"   -> Goes(IF Row(n) # n.old THEN abort(next) ELSE on)
    BY DEF sweep_focus, Stays
  <1>4. o.r \in Results /\ o.n \in EngineStates
    BY <1>2, OutcomeFields
  <1> SUFFICES SweepStays(out)
    OBVIOUS
  <1> HIDE DEF o, out
  <1>5. k.st = "SWEEP" /\ on.st = "SWEEP"
    BY <1>1 DEF Machines
  <1>6. next \in Machines
    BY <1>1, <1>4, ReadBack DEF Beside
  <1> HIDE DEF k, on, next
  <1>7. abort(n).st = "ABORT_ESC" /\ abort(next).st = "ABORT_ESC"
    BY <1>1, <1>6, ResetsWait DEF World
  <1>8. \/ out = Res(k, o.press, Nothing)
        \/ out \in {Goes(abort(n)), Goes(abort(next)), Goes(on)}
    BY <1>3, <1>4 DEF Results
  <1> QED BY <1>5, <1>7, <1>8 DEF Goes, Res, SweepStays

LEMMA OpeningStep ==
  ASSUME SelectorWorld, NEW n, MachineInv(n), n.st = "SWEEP", n.swphase = 0, Opening(n, keys, dev, scr, owed),
         NEW noise \in BOOLEAN
  PROVE  SweepAfter(sweep_focus(n, noise))
  <1> DEFINE o == Entered(n, noise)
             next == [n EXCEPT !.eng = o.n, !.cur = Row(n)]
             on == [next EXCEPT !.seen = {}, !.down = FALSE, !.press = 0, !.swphase = 1]
             k == [n EXCEPT !.eng = o.n]
             out == sweep_focus(n, noise)
  <1>1. n \in Machines /\ World
    BY DEF MachineInv, SelectorWorld
  <1>2. o \in Outcomes /\ StepGoes(n.eng, "ENTER", Look(Reads(n), noise), Verify, o)
    <2> DEFINE reads == Reads(n)
    <2>1. reads \in BOOLEAN
      BY DEF Reads
    <2>2. n.eng \in EngineStates /\ Verify \in Nat /\ "ENTER" \in Pressed /\ TRUE \in BOOLEAN
      BY <1>1, Members, Constants, Words
    <2> HIDE DEF reads
    <2>3. Look(reads, noise) \in Looks
      BY <1>1, <2>1, LookTyped
    <2>4. StepGoes(n.eng, "ENTER", Look(reads, noise), Verify, step(n.eng, "ENTER", Look(reads, noise), Verify, TRUE))
      BY <2>2, <2>3, StepCases
    <2>5. Entered(n, noise) \in Outcomes
      BY <1>1, EnteredOut
    <2> QED BY <2>4, <2>5 DEF Entered, reads
  <1>3. out = CASE o.r = "RUN"  -> Res(k, o.press, Nothing)
                [] o.r = "FAIL" -> Goes(abort(n))
                [] o.r = "OK"   -> Goes(IF Row(n) # n.old THEN abort(next) ELSE on)
    BY DEF sweep_focus, Stays
  <1>4. o.r \in Results /\ o.n \in EngineStates /\ o.press \in Pressed
    BY <1>2, OutcomeFields
  <1>5. Row(n) = scr.row[1]
    BY <1>1, SelectorRow
  <1> SUFFICES SweepAfter(out)
    OBVIOUS
  <1> HIDE DEF o, out
  <1>6. k.eng = o.n /\ k.swphase = 0 /\ k.wphase = n.wphase
    BY <1>1 DEF Machines
  <1>7. on.eng = o.n /\ on.swphase = 1 /\ on.wphase = n.wphase /\ on.cur = Row(n)
    <2> DEFINE row == Row(n)
    <2> HIDE DEF row
    <2> QED BY <1>1 DEF Machines, row
  <1>8. next \in Machines
    BY <1>1, <1>4, ReadBack DEF Beside
  <1> HIDE DEF k, on, next
  <1>9. abort(n).st = "ABORT_ESC" /\ abort(next).st = "ABORT_ESC"
    BY <1>1, <1>8, ResetsWait DEF World
  <1>10. Opening(n, keys, dev, scr, owed)
    OBVIOUS
  <1>11. CASE n.eng.phase = 0 /\ StepMakes("ENTER", o)
    <2>1. out = Res(k, "ENTER", Nothing)
      BY <1>3, <1>11 DEF StepMakes
    <2>2. out.m = k /\ out.press = "ENTER"
      BY <2>1 DEF Res
    <2>3. SUFFICES ASSUME NEW q, Queued(q, "ENTER"), NEW t
                   PROVE  Opening(k, q, dev, scr, owed)
      BY <1>6, <2>2 DEF SweepAfter, InSweep
    <2>4. keys = <<>> /\ dev.focus = 0
      BY <1>10, <1>11 DEF Opening, AtRest
    <2>5. Len(q) = 1 /\ q[1].key = "ENTER"
      <3>1. "ENTER" \in Pressed /\ "ENTER" # NoKey /\ keys \in InFlight
        BY Words DEF NoKey, SelectorWorld
      <3>2. Len(keys) = 0
        BY <2>4
      <3>3. Len(q) = 1 /\ q[Len(q)].key = "ENTER"
        BY <2>3, <3>1, <3>2, QueuedAt
      <3> QED BY <3>3
    <2>6. Opens(q, dev, 0)
      BY <2>4, <2>5 DEF Opens
    <2>7. k.eng.phase # 0 /\ k.eng.key = "ENTER" /\ k.eng.lost = FALSE
      BY <1>6, <1>11 DEF StepMakes
    <2> QED BY <1>6, <1>10, <2>6, <2>7 DEF Opening, AtRest, Under, ToldLost
  <1>12. CASE n.eng.phase # 0 /\ StepWaits(n.eng, o)
    <2>1. out = Res(k, NoKey, Nothing)
      BY <1>3, <1>12 DEF StepWaits
    <2>2. out.m = k /\ out.press = NoKey
      BY <2>1 DEF Res
    <2>3. SUFFICES Opening(k, keys, dev, scr, owed)
      BY <1>6, <2>2 DEF SweepAfter, InSweep, Queued
    <2>4. Opens(keys, dev, 0) /\ n.eng.key = "ENTER"
      BY <1>10, <1>12 DEF Opening, AtRest, Under
    <2>7. k.eng.phase # 0 /\ k.eng.key = "ENTER" /\ k.eng.lost = FALSE
      BY <1>6, <1>12, <2>4 DEF StepWaits
    <2> QED BY <1>6, <1>10, <2>4, <2>7 DEF Opening, AtRest, Under, ToldLost
  <1>13. CASE n.eng.phase # 0 /\ StepOver(o) /\ o.r = "OK"
    <2>1. CASE Row(n) # n.old
      <3>1. out = Goes(abort(next))
        BY <1>3, <1>13, <2>1
      <3> QED BY <1>9, <3>1, NoSweep DEF Goes, Res
    <2>2. CASE Row(n) = n.old
      <3>1. out = Goes(on)
        BY <1>3, <1>13, <2>2
      <3>2. out.m = on /\ out.press = NoKey
        BY <3>1 DEF Goes, Res
      <3>3. SUFFICES Capturing(on, keys, dev, scr, owed)
        BY <1>7, <3>2 DEF SweepAfter, InSweep, Queued
      <3>4. Opens(keys, dev, 0)
        BY <1>10, <1>13 DEF Opening, AtRest
      <3>5. AtRest(on)
        BY <1>7, <1>13 DEF AtRest, StepOver
      <3> QED BY <1>5, <1>7, <1>10, <3>4, <3>5 DEF Opening, Capturing
    <2> QED BY <2>1, <2>2
  <1>14. CASE o.r = "FAIL"
    <2>1. out = Goes(abort(n))
      BY <1>3, <1>14
    <2> QED BY <1>9, <2>1, NoSweep DEF Goes, Res
  <1>15. ~(n.eng.phase # 0 /\ n.eng.lost)
    BY <1>10 DEF Opening, ToldLost
  <1> QED BY <1>2, <1>11, <1>12, <1>13, <1>14, <1>15 DEF StepGoes

\* A value published is the row on the screen, with the number that belongs to it.
SaysShown(c) == c.sweep # NoRow => c.sweep \in Values /\ scr.row = <<c.sweep, Number(dev, c.sweep)>>

\* sweep_capture: the value held is the selector's on the screen.
LEMMA CapturingStep ==
  ASSUME World, NEW n, MachineInv(n), n.st = "SWEEP"
  PROVE  /\ sweep_capture(n).m.st \in {"SWEEP", "TEARDOWN"}
         /\ Capturing(n, keys, dev, scr, owed) => SweepAfter(sweep_capture(n)) /\ SaysShown(sweep_capture(n).did)
  <1> DEFINE new == n.cur \notin n.seen /\ Cardinality(n.seen) < req.expected
             seen == IF new THEN n.seen \cup {n.cur} ELSE n.seen
             full == Cardinality(seen) >= req.expected
             on == [n EXCEPT !.seen = seen, !.swphase = 2]
             says == IF new THEN n.cur ELSE NoRow
             calls == [Nothing EXCEPT !.sweep = says]
             out == sweep_capture(n)
             goal(p) == /\ p.m.st \in {"SWEEP", "TEARDOWN"}
                        /\ Capturing(n, keys, dev, scr, owed) => SweepAfter(p) /\ SaysShown(p.did)
  <1> SUFFICES goal(out)
    OBVIOUS
  <1>1. n \in Machines
    BY DEF MachineInv
  <1>2. out = Res(IF full THEN finish(n, TRUE) ELSE on, NoKey, calls)
    BY DEF sweep_capture
  <1>3. says \in {n.cur, NoRow}
    OBVIOUS
  <1> HIDE DEF full, says
  <1>4. calls.sweep = says
    BY DEF Nothing
  <1>5. on.st = "SWEEP" /\ on.swphase = 2 /\ on.wphase = n.wphase /\ on.eng = n.eng /\ on.cur = n.cur
    <2> HIDE DEF seen
    <2> QED BY <1>1 DEF Machines
  <1> HIDE DEF on, calls, out
  <1>6. finish(n, TRUE).st = "TEARDOWN"
    BY <1>1, ResetsWait DEF World
  <1>7. out.m \in {finish(n, TRUE), on} /\ out.press = NoKey /\ out.did = calls
    BY <1>2 DEF Res
  <1>8. ASSUME Capturing(n, keys, dev, scr, owed)
        PROVE  SweepAfter(out) /\ SaysShown(out.did)
    <2>1. SaysShown(out.did)
      <3>1. dev.focus # 2 /\ dev \in Devices
        BY <1>8 DEF Capturing, Opens, World
      <3>2. scr.row = <<n.cur, Number(dev, n.cur)>> /\ n.cur \in Values
        BY <1>8, <3>1, PaintedRow DEF Capturing
      <3> QED BY <1>3, <1>4, <1>7, <3>2 DEF SaysShown
    <2>2. CASE out.m = on
      <3>1. on.eng.phase = 0
        BY <1>5, <1>8 DEF Capturing, AtRest
      <3>2. Unmoved(on, keys, dev, scr, owed)
        BY <1>5, <1>8 DEF Capturing, Unmoved
      <3>3. \A t : Paging(on, keys, dev, scr, owed, t)
        BY <3>1, <3>2 DEF Paging, Timed, Under
      <3>4. \A t : InSweep(on, keys, dev, scr, owed, t)
        BY <1>5, <3>3 DEF InSweep
      <3> QED BY <1>7, <2>1, <2>2, <3>4 DEF SweepAfter, Queued
    <2>3. CASE out.m = finish(n, TRUE)
      <3>1. out.m.st # "SWEEP"
        BY <1>6, <2>3
      <3> QED BY <2>1, <3>1, NoSweep
    <2> QED BY <1>7, <2>1, <2>2, <2>3
  <1> QED BY <1>5, <1>6, <1>7, <1>8

\* sweep_move publishes nothing.
LEMMA MoveStays ==
  ASSUME World, NEW n, MachineInv(n), n.st = "SWEEP", NEW noise \in BOOLEAN
  PROVE  SweepStays(sweep_move(n, noise))
  <1> DEFINE o == wait_change(n, IF n.down THEN "DOWN" ELSE "UP", noise)
             k == o.n
             next == [k EXCEPT !.press = k.press + 1]
             back == [next EXCEPT !.down = TRUE]
             on == [next EXCEPT !.cur = k.wcand, !.swphase = 1]
             spent == n.press >= 2 * req.expected + 2
             out == sweep_move(n, noise)
  <1>1. n \in Machines
    BY DEF MachineInv
  <1>2. Waiting(n, o)
    <2> DEFINE key == IF n.down THEN "DOWN" ELSE "UP"
    <2>1. key \in Pressed
      BY Words
    <2> HIDE DEF key
    <2>2. Waiting(n, wait_change(n, key, noise))
      BY <1>1, <2>1, WaitOut
    <2> QED BY <2>2 DEF key
  <1>3. out = CASE spent -> Goes(finish(n, TRUE))
                [] ~spent /\ o.r = "RUN"  -> Res(k, o.press, Nothing)
                [] ~spent /\ o.r = "FAIL" -> Goes(IF n.down THEN finish(next, TRUE) ELSE back)
                [] ~spent /\ o.r = "OK"   -> Goes(on)
    BY DEF sweep_move
  <1> SUFFICES SweepStays(out)
    OBVIOUS
  <1> HIDE DEF o, out, spent
  <1>4. k \in Machines /\ k.st = "SWEEP" /\ o.r \in Results
    BY <1>2 DEF Waiting, Beside
  <1> HIDE DEF k
  <1>5. next \in Machines /\ next.st = "SWEEP"
    BY <1>4, Pressing
  <1>6. back.st = "SWEEP" /\ on.st = "SWEEP"
    <2> HIDE DEF next
    <2> QED BY <1>5 DEF Machines
  <1> HIDE DEF next, back, on
  <1>7. finish(n, TRUE).st = "TEARDOWN" /\ finish(next, TRUE).st = "TEARDOWN"
    BY <1>1, <1>5, ResetsWait DEF World
  <1>8. \/ out = Res(k, o.press, Nothing)
        \/ out = Goes(finish(n, TRUE)) \/ out = Goes(finish(next, TRUE)) \/ out = Goes(back) \/ out = Goes(on)
    BY <1>3, <1>4 DEF Results
  <1>9. out.did = Nothing /\ out.m \in {k, finish(n, TRUE), finish(next, TRUE), back, on}
    <2> DEFINE fin == finish(n, TRUE)
               end == finish(next, TRUE)
    <2> HIDE DEF fin, end
    <2>1. ASSUME NEW x, out = Goes(x)
          PROVE  out.did = Nothing /\ out.m = x
      BY <2>1 DEF Goes, Res
    <2>2. out = Res(k, o.press, Nothing) => out.did = Nothing /\ out.m = k
      BY DEF Res
    <2>3. out = Goes(fin) \/ out = Goes(end) \/ out = Goes(back) \/ out = Goes(on) \/ out = Res(k, o.press, Nothing)
      BY <1>8 DEF fin, end
    <2>4. out.did = Nothing /\ out.m \in {k, fin, end, back, on}
      BY <2>1, <2>2, <2>3
    <2> QED BY <2>4 DEF fin, end
  <1> QED BY <1>4, <1>6, <1>7, <1>9 DEF SweepStays

-----------------------------------------------------------------------------
(* Paging: wait_change_ on the selector *)

\* A press is decided before a verify window is over; the quiet window is one, and fits the watch.
Bounds == Ttl < Verify /\ Quiet >= 1 /\ Quiet <= Deadline

\* What a wait for a changed row may come to while the sweep pages.
PagingOut(o) ==
  /\ o.r \in Results
  /\ o.r = "RUN" => \A q, t : Queued(q, o.press) /\ t > 0 => Paging(o.n, q, dev, scr, owed, t)
  /\ o.r = "FAIL" => AtRest(o.n) /\ Unmoved(o.n, keys, dev, scr, owed)
  /\ o.r = "OK" => /\ AtRest(o.n) /\ o.n.wphase = 0 /\ o.n.wcand = scr.row[1]
                   /\ Painted(dev, scr, owed) /\ Opens(keys, dev, 0)

\* The first phase of a wait is a step whose look is that the row differs.
LEMMA DiffersStep ==
  ASSUME World, NEW n \in Machines, NEW key \in Pressed, NEW noise \in BOOLEAN
  PROVE  LET differs == Reads(n) /\ Row(n) # n.cur
             look == Look(differs, noise)
             o == step(n.eng, key, look, Verify, FALSE)
         IN  o \in Outcomes /\ StepGoes(n.eng, key, look, Verify, o) /\ look.holds = differs
  <1> DEFINE differs == Reads(n) /\ Row(n) # n.cur
  <1>1. differs \in BOOLEAN
    OBVIOUS
  <1> HIDE DEF differs
  <1>2. n.eng \in EngineStates /\ Verify \in Nat /\ FALSE \in BOOLEAN
    BY Members, Constants
  <1>3. Look(differs, noise) \in Looks
    BY <1>1, LookTyped
  <1>4. StepGoes(n.eng, key, Look(differs, noise), Verify, step(n.eng, key, Look(differs, noise), Verify, FALSE))
    BY <1>2, <1>3, StepCases
  <1>5. step(n.eng, key, Look(differs, noise), Verify, FALSE) \in Outcomes
    BY <1>2, <1>3, StepOut DEF StepResult
  <1>6. Look(differs, noise).holds = differs
    BY DEF Look
  <1> QED BY <1>4, <1>5, <1>6 DEF differs

\* The three phases of a wait.
LEMMA WaitFirst ==
  ASSUME NEW n, NEW key, NEW noise, n.wphase = 0
  PROVE  LET o == step(n.eng, key, Look(Reads(n) /\ Row(n) # n.cur, noise), Verify, FALSE)
             k == [n EXCEPT !.eng = o.n]
         IN  wait_change(n, key, noise) =
               IF o.r # "OK" THEN [r |-> o.r, n |-> k, press |-> o.press]
                             ELSE Run([Glimpsed(n) EXCEPT !.eng = o.n, !.wdead = Deadline])
  <1> DEFINE differs == Reads(n) /\ Row(n) # n.cur
             o == step(n.eng, key, Look(differs, noise), Verify, FALSE)
             k == [n EXCEPT !.eng = o.n]
             watch == [Glimpsed(n) EXCEPT !.eng = o.n, !.wdead = Deadline]
             out == wait_change(n, key, noise)
  <1>1. /\ n.wphase = 0 /\ o.r # "OK" => out = Via(n, o)
        /\ n.wphase = 0 /\ o.r = "OK" => out = Run(watch)
    <2> DEFINE c == Watched(n)
               over == [c EXCEPT !.wphase = 0]
               gone == [n EXCEPT !.wphase = 0]
               still == [c EXCEPT !.wphase = 2]
    <2>1. out = CASE n.wphase = 0 /\ o.r # "OK" -> Via(n, o)
                  [] n.wphase = 0 /\ o.r = "OK" -> Run(watch)
                  [] n.wphase = 1 /\ c.wq < Quiet -> IF c.wdead = 0 THEN Fail(over) ELSE Run(c)
                  [] n.wphase = 1 /\ c.wq >= Quiet /\ c.wcand = n.cur -> Run(still)
                  [] n.wphase = 1 /\ c.wq >= Quiet /\ c.wcand # n.cur -> Ok(over)
                  [] n.wphase = 2 /\ differs -> Run(Glimpsed(n))
                  [] n.wphase = 2 /\ ~differs -> IF n.wdead = 0 THEN Fail(gone) ELSE Run(n)
      BY DEF wait_change
    <2> HIDE DEF differs, o, c, over, gone, watch, still, out
    <2> QED BY <2>1
  <1>2. Via(n, o) = [r |-> o.r, n |-> k, press |-> o.press]
    BY DEF Via, Out
  <1> HIDE DEF o, k, watch, out
  <1>3. out = IF o.r # "OK" THEN [r |-> o.r, n |-> k, press |-> o.press] ELSE Run(watch)
    BY <1>1, <1>2
  <1> QED BY <1>3 DEF o, k, watch, out

LEMMA WaitNext ==
  ASSUME NEW n, NEW key, NEW noise, Watched(n).wq \in Nat, Quiet \in Nat
  PROVE  LET c == Watched(n)
             differs == Reads(n) /\ Row(n) # n.cur
         IN  /\ n.wphase = 1 =>
                  wait_change(n, key, noise) =
                    IF c.wq < Quiet THEN IF c.wdead = 0 THEN Fail([c EXCEPT !.wphase = 0]) ELSE Run(c)
                    ELSE IF c.wcand = n.cur THEN Run([c EXCEPT !.wphase = 2]) ELSE Ok([c EXCEPT !.wphase = 0])
             /\ n.wphase = 2 =>
                  wait_change(n, key, noise) =
                    IF differs THEN Run(Glimpsed(n))
                    ELSE IF n.wdead = 0 THEN Fail([n EXCEPT !.wphase = 0]) ELSE Run(n)
  <1> DEFINE differs == Reads(n) /\ Row(n) # n.cur
             o == step(n.eng, key, Look(differs, noise), Verify, FALSE)
             c == Watched(n)
             over == [c EXCEPT !.wphase = 0]
             gone == [n EXCEPT !.wphase = 0]
             watch == [Glimpsed(n) EXCEPT !.eng = o.n, !.wdead = Deadline]
             still == [c EXCEPT !.wphase = 2]
             out == wait_change(n, key, noise)
  <1>1. out = CASE n.wphase = 0 /\ o.r # "OK" -> Via(n, o)
                [] n.wphase = 0 /\ o.r = "OK" -> Run(watch)
                [] n.wphase = 1 /\ c.wq < Quiet -> IF c.wdead = 0 THEN Fail(over) ELSE Run(c)
                [] n.wphase = 1 /\ c.wq >= Quiet /\ c.wcand = n.cur -> Run(still)
                [] n.wphase = 1 /\ c.wq >= Quiet /\ c.wcand # n.cur -> Ok(over)
                [] n.wphase = 2 /\ differs -> Run(Glimpsed(n))
                [] n.wphase = 2 /\ ~differs -> IF n.wdead = 0 THEN Fail(gone) ELSE Run(n)
    BY DEF wait_change
  <1>2. c.wq < Quiet \/ (c.wq >= Quiet /\ ~(c.wq < Quiet))
    OBVIOUS
  <1>3. c.wq < Quiet => ~(c.wq >= Quiet)
    OBVIOUS
  <1> HIDE DEF differs, o, c, over, gone, watch, still, out
  <1>4. n.wphase = 1 => out = IF c.wq < Quiet THEN IF c.wdead = 0 THEN Fail(over) ELSE Run(c)
                              ELSE IF c.wcand = n.cur THEN Run(still) ELSE Ok(over)
    BY <1>1, <1>2, <1>3
  <1>5. n.wphase = 2 => out = IF differs THEN Run(Glimpsed(n)) ELSE IF n.wdead = 0 THEN Fail(gone) ELSE Run(n)
    BY <1>1
  <1> QED BY <1>4, <1>5 DEF differs, c, over, gone, still, out

\* Before the field moved: the press that moves it is still to be made or to arrive.
LEMMA UnmovedWait ==
  ASSUME SelectorWorld, Bounds, NEW n \in Machines, Unmoved(n, keys, dev, scr, owed),
         Timed(n, keys, owed), Under(n.eng, Arrows), NEW key \in Arrows, NEW noise \in BOOLEAN
  PROVE  PagingOut(wait_change(n, key, noise))
  <1> DEFINE differs == Reads(n) /\ Row(n) # n.cur
             look == Look(differs, noise)
             o == step(n.eng, key, look, Verify, FALSE)
             k == [n EXCEPT !.eng = o.n]
             out == wait_change(n, key, noise)
  <1>1. World /\ n.wphase = 0 /\ ~differs /\ keys \in InFlight
    <2>1. Row(n) = n.cur
      BY SelectorRow DEF Unmoved
    <2> QED BY <2>1 DEF Unmoved, SelectorWorld
  <1>2. o \in Outcomes /\ StepGoes(n.eng, key, look, Verify, o) /\ look.holds = differs
    <2>1. key \in Pressed
      BY Words DEF Arrows
    <2> QED BY <1>1, <2>1, DiffersStep
  <1>3. o.r # "OK" => out = [r |-> o.r, n |-> k, press |-> o.press]
    <2> HIDE DEF out
    <2>1. out = IF o.r # "OK" THEN [r |-> o.r, n |-> k, press |-> o.press]
                              ELSE Run([Glimpsed(n) EXCEPT !.eng = o.n, !.wdead = Deadline])
      BY <1>1, WaitFirst DEF out
    <2> QED BY <2>1
  <1> SUFFICES PagingOut(out)
    OBVIOUS
  <1> HIDE DEF out, o, look, differs
  <1>4. o.r \in Results /\ o.r # "OK" /\ key # NoKey /\ key \in Pressed
    <2>1. key # NoKey /\ key \in Pressed
      BY Words DEF Arrows, NoKey
    <2>2. o.r \in Results
      BY <1>2, OutcomeFields
    <2> QED BY <1>1, <1>2, <2>1, <2>2 DEF StepGoes, StepMakes, StepWaits, StepOver
  <1>5. out.r = o.r /\ out.n = k /\ out.press = o.press
    BY <1>3, <1>4
  <1>6. k.eng = o.n /\ k.wphase = 0 /\ k.cur = n.cur
    BY <1>1 DEF Machines
  <1> HIDE DEF k
  <1>7. Unmoved(n, keys, dev, scr, owed) /\ Timed(n, keys, owed) /\ Ttl \in Nat /\ n.eng.at \in Nat
    <2>1. n.eng \in EngineStates
      BY Members
    <2> QED BY <2>1, Constants, AgeCapNat DEF EngineStates
  <1>8. ASSUME NEW p, p \in Arrows, StepMakes(p, o), Opens(keys, dev, 0)
        PROVE  PagingOut(out)
    <2>1. SUFFICES ASSUME NEW q, NEW t, Queued(q, p)
                   PROVE  Paging(k, q, dev, scr, owed, t)
      BY <1>4, <1>5, <1>8 DEF PagingOut, StepMakes
    <2>2. p \in Pressed /\ p # NoKey
      BY <1>8, Words DEF Arrows, NoKey
    <2>3. /\ Len(q) = Len(keys) + 1 /\ Len(keys) \in Nat /\ q[Len(q)].key = p /\ q[Len(q)].age = 0
          /\ \A i \in 1 .. Len(keys) : q[i] = keys[i]
      BY <1>1, <2>1, <2>2, QueuedAt
    <2>4. Opens(q, dev, 1)
      <3>1. CASE dev.focus = 0
        <4>1. Len(keys) = 1 /\ keys[1].key = "ENTER"
          BY <1>8, <3>1 DEF Opens
        <4>2. Len(q) = 2 /\ q[1] = keys[1] /\ q[2].key = p
          BY <2>3, <4>1
        <4> QED BY <1>8, <3>1, <4>1, <4>2 DEF Opens
      <3>2. CASE dev.focus # 0
        <4>1. dev.focus = 1 /\ Len(keys) = 0
          BY <1>8, <3>2 DEF Opens
        <4>2. Len(q) = 1 /\ q[1].key = p
          BY <2>3, <4>1
        <4> QED BY <1>8, <4>1, <4>2 DEF Opens
      <3> QED BY <3>1, <3>2
    <2>5. k.eng.phase # 0 /\ k.eng.lost = FALSE /\ k.eng.at = 0 /\ k.eng.key = p
      BY <1>6, <1>8 DEF StepMakes
    <2>6. Unmoved(k, q, dev, scr, owed)
      BY <1>6, <1>7, <2>4, <2>5 DEF Unmoved, AtRest
    <2>7. Timed(k, q, owed)
      <3>1. \A i \in 1 .. Len(q) : q[i].age >= 0
        <4> TAKE i \in 1 .. Len(q)
        <4>1. CASE i \in 1 .. Len(keys)
          <5>1. keys[i] \in UnderWay
            BY <1>1, <4>1 DEF InFlight
          <5>2. keys[i].age \in 0 .. Ttl
            BY <5>1 DEF UnderWay
          <5> QED BY <1>7, <2>3, <4>1, <5>2
        <4>2. CASE i \notin 1 .. Len(keys)
          <5>1. i = Len(q)
            BY <2>3, <4>2
          <5> QED BY <2>3, <5>1
        <4> QED BY <4>1, <4>2
      <3> QED BY <1>7, <2>5, <3>1 DEF Timed
    <2> QED BY <1>8, <2>5, <2>6, <2>7, <2>2 DEF Paging, Under
  <1>9. CASE n.eng.phase = 0 /\ StepMakes(key, o)
    <2>1. Opens(keys, dev, 0)
      BY <1>7, <1>9 DEF Unmoved, AtRest
    <2> QED BY <1>8, <1>9, <2>1
  <1>10. CASE n.eng.phase # 0 /\ n.eng.lost /\ StepMakes(n.eng.key, o)
    <2>1. Opens(keys, dev, 0) /\ n.eng.key \in Arrows
      BY <1>7, <1>10 DEF Unmoved, Under
    <2> QED BY <1>8, <1>10, <2>1
  <1>11. CASE n.eng.phase # 0 /\ StepWaits(n.eng, o)
    <2>1. SUFFICES ASSUME NEW t PROVE Paging(k, keys, dev, scr, owed, t)
      BY <1>4, <1>5, <1>11 DEF PagingOut, StepWaits, Queued
    <2>2. k.eng.phase # 0 /\ k.eng.lost = FALSE /\ k.eng.at <= n.eng.at /\ k.eng.key = n.eng.key /\ n.eng.key \in Arrows
      BY <1>6, <1>11 DEF StepWaits, Under
    <2>3. Unmoved(k, keys, dev, scr, owed)
      BY <1>6, <1>7, <2>2 DEF Unmoved, AtRest
    <2>4. Timed(k, keys, owed)
      <3>1. k.eng.at \in Nat
        <4>1. o.n \in EngineStates
          BY <1>2, OutcomeFields
        <4> QED BY <1>6, <4>1, AgeCapNat DEF EngineStates
      <3>2. \A i \in 1 .. Len(keys) : keys[i].age >= n.eng.at /\ keys[i].age \in Nat
        <4> TAKE i \in 1 .. Len(keys)
        <4>1. keys[i].age >= n.eng.at
          BY <1>1, <1>7, <1>11 DEF Timed
        <4>2. keys[i] \in UnderWay
          BY <1>1 DEF InFlight
        <4>3. keys[i].age \in 0 .. Ttl
          BY <4>2 DEF UnderWay
        <4> QED BY <1>7, <4>1, <4>3
      <3>3. \A i \in 1 .. Len(keys) : keys[i].age >= k.eng.at
        BY <1>7, <2>2, <3>1, <3>2
      <3>4. k.eng.at > Ttl => keys = <<>> /\ owed = "nothing"
        BY <1>1, <1>7, <1>11, <2>2, <3>1 DEF Timed
      <3> QED BY <3>3, <3>4 DEF Timed
    <2> QED BY <2>2, <2>3, <2>4 DEF Paging, Under
  <1>12. CASE n.eng.phase # 0 /\ StepOver(o) /\ o.r = "FAIL" /\ (Verify > 0 => n.eng.at >= Verify)
    <2>1. n.eng.at > Ttl
      BY <1>7, <1>12, Constants DEF Bounds
    <2>2. keys = <<>> /\ owed = "nothing"
      BY <1>1, <1>7, <1>12, <2>1 DEF Timed
    <2>3. Opens(keys, dev, 0)
      <3>1. Len(keys) = 0
        BY <2>2
      <3>2. ~Opens(keys, dev, 1)
        BY <3>1 DEF Opens
      <3> QED BY <1>7, <3>2 DEF Unmoved
    <2>4. AtRest(k)
      BY <1>6, <1>12 DEF AtRest, StepOver
    <2>5. Unmoved(k, keys, dev, scr, owed)
      BY <1>6, <1>7, <2>3 DEF Unmoved
    <2> QED BY <1>4, <1>5, <1>12, <2>4, <2>5 DEF PagingOut
  <1> QED BY <1>2, <1>4, <1>9, <1>10, <1>11, <1>12 DEF StepGoes

\* What is drawn is on the screen.
LEMMA DrawnRow ==
  ASSUME SelectorWorld, owed = "nothing", dev.page = "value", dev.focus = 1
  PROVE  Painted(dev, scr, owed) /\ scr.row[1] # NoRow
  <1>1. Painted(dev, scr, owed) /\ dev \in Devices
    BY DEF Painted, SelectorWorld, World, Drawn
  <1> QED BY <1>1, PaintedRow

\* Once the arrow was taken: the row changes, or the list is at its end.
LEMMA MovedFirst ==
  ASSUME SelectorWorld, Bounds, NEW n \in Machines, MovedOn(n, keys, dev, scr, owed, passes), n.wphase = 0,
         Timed(n, keys, owed), Under(n.eng, Arrows), NEW key \in Arrows, NEW noise \in BOOLEAN
  PROVE  PagingOut(wait_change(n, key, noise))
  <1> DEFINE differs == Reads(n) /\ Row(n) # n.cur
             look == Look(differs, noise)
             o == step(n.eng, key, look, Verify, FALSE)
             k == [n EXCEPT !.eng = o.n]
             watch == [Glimpsed(n) EXCEPT !.eng = o.n, !.wdead = Deadline]
             out == wait_change(n, key, noise)
  <1>1. World /\ keys \in InFlight /\ Row(n) = scr.row[1]
    BY SelectorRow DEF SelectorWorld
  <1>2. o \in Outcomes /\ StepGoes(n.eng, key, look, Verify, o) /\ look.holds = differs
    <2>1. key \in Pressed
      BY Words DEF Arrows
    <2> QED BY <1>1, <2>1, DiffersStep
  <1>3. out = IF o.r # "OK" THEN [r |-> o.r, n |-> k, press |-> o.press] ELSE Run(watch)
    <2> HIDE DEF out
    <2> QED BY WaitFirst DEF out
  <1> SUFFICES PagingOut(out)
    OBVIOUS
  <1>4. ~differs => Row(n) = NoRow \/ Row(n) = n.cur
    BY DEF Reads
  <1> HIDE DEF out, o, look, differs
  <1>5. o.r \in Results /\ o.n \in EngineStates
    BY <1>2, OutcomeFields
  <1>6. k.eng = o.n /\ k.wphase = 0 /\ k.cur = n.cur
    BY DEF Machines
  <1>7. watch.eng = o.n /\ watch.wphase = 1 /\ watch.wcand = scr.row[1] /\ watch.wq = 0 /\ watch.wdead = Deadline
    <2> DEFINE row == Row(n)
               g == [n EXCEPT !.wcand = row, !.wq = 0, !.wphase = 1]
    <2>1. Glimpsed(n) = g
      BY DEF Glimpsed
    <2>2. g.wphase = 1 /\ g.wcand = row /\ g.wq = 0
      <3> HIDE DEF row
      <3> QED BY DEF Machines
    <2>3. g \in Machines
      BY <1>1, <2>1, GlimpsedBeside DEF Beside
    <2> HIDE DEF g
    <2>4. watch = [g EXCEPT !.eng = o.n, !.wdead = Deadline]
      BY <2>1
    <2> HIDE DEF watch
    <2> QED BY <1>1, <2>2, <2>3, <2>4 DEF Machines
  <1> HIDE DEF k, watch
  <1>8. /\ keys = <<>> /\ dev.page = "value" /\ dev.focus = 1 /\ n.eng.phase # 0 /\ n.eng.lost = FALSE
        /\ n.eng.key \in Arrows /\ n.eng.at \in Nat /\ Ttl \in Nat /\ n.wphase = 0
    <2>1. n.eng \in EngineStates /\ n.eng.lost \in BOOLEAN
      BY Members DEF EngineStates
    <2> QED BY <2>1, Constants, AgeCapNat DEF MovedOn, AtRest, Under, EngineStates
  <1>9. Timed(n, keys, owed)
    OBVIOUS
  <1>10. CASE StepWaits(n.eng, o)
    <2>1. out.r = "RUN" /\ out.n = k /\ out.press = NoKey
      BY <1>3, <1>10 DEF StepWaits
    <2>2. SUFFICES \A t : Paging(k, keys, dev, scr, owed, t)
      BY <2>1, Words DEF PagingOut, Queued
    <2>3. k.eng.phase # 0 /\ k.eng.lost = FALSE /\ k.eng.at <= n.eng.at /\ k.eng.key = n.eng.key
      BY <1>6, <1>10 DEF StepWaits
    <2>4. \A t : MovedOn(k, keys, dev, scr, owed, t)
      BY <1>6, <1>8, <2>3 DEF MovedOn, AtRest
    <2>5. Timed(k, keys, owed)
      <3>1. k.eng.at \in Nat
        BY <1>5, <1>6, AgeCapNat DEF EngineStates
      <3>2. Len(keys) = 0 /\ \A i \in 1 .. Len(keys) : keys[i].age >= k.eng.at
        BY <1>8
      <3>3. k.eng.at > Ttl => keys = <<>> /\ owed = "nothing"
        BY <1>8, <1>9, <2>3, <3>1 DEF Timed
      <3> QED BY <3>2, <3>3 DEF Timed
    <2> QED BY <1>8, <2>3, <2>4, <2>5 DEF Paging, Under
  <1>11. CASE StepOver(o) /\ o.r = "OK"
    <2>1. out = Run(watch)
      BY <1>3, <1>11
    <2>2. out.r = "RUN" /\ out.n = watch /\ out.press = NoKey
      BY <2>1 DEF Run, Out
    <2>3. SUFFICES \A t : Paging(watch, keys, dev, scr, owed, t)
      BY <2>2, Words DEF PagingOut, Queued
    <2>4. watch.eng.phase = 0
      BY <1>7, <1>11 DEF StepOver
    <2>5. Deadline \in Nat /\ 0 + Deadline >= Deadline /\ ~(Deadline < Deadline) /\ ~(0 > 0)
      BY Constants
    <2>6. \A t : MovedOn(watch, keys, dev, scr, owed, t)
      BY <1>7, <1>8, <2>4, <2>5 DEF MovedOn, AtRest, Fixed
    <2> QED BY <1>7, <2>4, <2>6 DEF Paging, Under, Timed
  <1>12. CASE StepOver(o) /\ o.r = "FAIL" /\ ~look.holds /\ (Verify > 0 => n.eng.at >= Verify)
    <2>1. out.r = "FAIL" /\ out.n = k
      BY <1>3, <1>12
    <2>2. n.eng.at > Ttl
      BY <1>8, <1>12, Constants DEF Bounds
    <2>3. owed = "nothing"
      BY <1>8, <1>9, <2>2 DEF Timed
    <2>4. Painted(dev, scr, owed) /\ scr.row[1] # NoRow
      BY <1>8, <2>3, DrawnRow
    <2>5. k.cur = scr.row[1]
      BY <1>1, <1>2, <1>4, <1>6, <1>12, <2>4
    <2>6. Opens(keys, dev, 0)
      BY <1>8 DEF Opens
    <2>7. AtRest(k) /\ Unmoved(k, keys, dev, scr, owed)
      BY <1>6, <1>12, <2>4, <2>5, <2>6 DEF AtRest, Unmoved, StepOver
    <2> QED BY <2>1, <2>7, Words DEF PagingOut
  <1>13. key # NoKey
    BY DEF Arrows, NoKey
  <1> QED BY <1>2, <1>8, <1>10, <1>11, <1>12, <1>13 DEF StepGoes

\* While the row is watched the candidate is what the controller shows.
LEMMA MovedWatch ==
  ASSUME SelectorWorld, Bounds, NEW n \in Machines, MovedOn(n, keys, dev, scr, owed, passes), n.wphase = 1,
         Under(n.eng, Arrows), NEW key \in Arrows, NEW noise \in BOOLEAN
  PROVE  PagingOut(wait_change(n, key, noise))
  <1> DEFINE c == Watched(n)
             over == [c EXCEPT !.wphase = 0]
             still == [c EXCEPT !.wphase = 2]
             out == wait_change(n, key, noise)
  <1>1. World /\ keys \in InFlight /\ Row(n) = scr.row[1]
    BY SelectorRow DEF SelectorWorld
  <1>2. /\ n.wq \in Nat /\ n.wdead \in Nat /\ Quiet \in Nat /\ Deadline \in Nat /\ n.wq <= Quiet
        /\ Quiet >= 1 /\ Quiet <= Deadline
    <2>1. n.wq \in 0 .. Quiet /\ n.wdead \in 0 .. Deadline
      BY Members
    <2> QED BY <2>1, Constants DEF Bounds
  <1>3. MovedOn(n, keys, dev, scr, owed, passes)
    OBVIOUS
  <1>4. keys = <<>> /\ dev.page = "value" /\ dev.focus = 1 /\ n.eng.phase = 0
    BY <1>3 DEF MovedOn, AtRest
  <1>5. /\ n.wq > 0 \/ n.wdead < Deadline => Fixed(n, scr, owed)
        /\ n.wq = Quiet \/ n.wq + n.wdead >= Deadline
    BY <1>3 DEF MovedOn
  <1>6. Fixed(n, scr, owed) => Painted(dev, scr, owed) /\ n.wcand = scr.row[1] /\ owed = "nothing"
    BY <1>4, DrawnRow DEF Fixed
  <1>7. \/ c = n /\ (Row(n) = NoRow \/ Row(n) = n.wcand)
        \/ /\ Row(n) # n.wcand /\ c \in Machines /\ c.eng = n.eng /\ c.wphase = 1 /\ c.wcand = scr.row[1] /\ c.wq = 0
           /\ c.wdead = n.wdead /\ c.cur = n.cur
    <2> DEFINE row == Row(n)
               g == [n EXCEPT !.wcand = row, !.wq = 0, !.wphase = 1]
    <2>1. Glimpsed(n) = g
      BY DEF Glimpsed
    <2>2. g.wphase = 1 /\ g.wcand = row /\ g.wq = 0 /\ g.wdead = n.wdead /\ g.eng = n.eng /\ g.cur = n.cur
      <3> HIDE DEF row
      <3> QED BY DEF Machines
    <2>3. g \in Machines
      BY <1>1, <2>1, GlimpsedBeside DEF Beside
    <2> HIDE DEF g
    <2>4. c = IF Row(n) # NoRow /\ Row(n) # n.wcand THEN g ELSE n
      BY <2>1 DEF Watched, Reads
    <2> HIDE DEF c
    <2> QED BY <1>1, <2>2, <2>3, <2>4
  <1>8. out = IF c.wq < Quiet THEN IF c.wdead = 0 THEN Fail(over) ELSE Run(c)
              ELSE IF c.wcand = n.cur THEN Run(still) ELSE Ok(over)
    <2> HIDE DEF out
    <2>1. Watched(n).wq \in Nat /\ Quiet \in Nat
      BY <1>2, <1>7
    <2> QED BY <2>1, WaitNext DEF out
  <1> SUFFICES PagingOut(out)
    OBVIOUS
  <1> HIDE DEF out, c
  <1>9. c \in Machines /\ c.eng = n.eng /\ c.wphase = 1 /\ c.cur = n.cur /\ c.wdead = n.wdead /\ c.wq \in Nat
    BY <1>2, <1>7
  <1>10. /\ over.wphase = 0 /\ over.eng = n.eng /\ over.cur = n.cur /\ over.wcand = c.wcand
         /\ still.wphase = 2 /\ still.eng = n.eng /\ still.cur = n.cur
    BY <1>9 DEF Machines
  <1> HIDE DEF over, still
  <1>11. CASE c.wq < Quiet
    <2>1. c.wdead # 0
      <3>1. CASE c = n
        BY <1>2, <1>5, <1>11, <3>1
      <3>2. CASE c # n
        <4>1. Row(n) # n.wcand
          BY <1>7, <3>2
        <4>2. ~Fixed(n, scr, owed)
          BY <1>1, <4>1 DEF Fixed
        <4> QED BY <1>2, <1>5, <1>9, <4>2
      <3> QED BY <3>1, <3>2
    <2>2. out = Run(c)
      BY <1>8, <1>11, <2>1
    <2>3. out.r = "RUN" /\ out.n = c /\ out.press = NoKey
      BY <2>2 DEF Run, Out
    <2>4. SUFFICES \A t : Paging(c, keys, dev, scr, owed, t)
      BY <2>3, Words DEF PagingOut, Queued
    <2>5. c.wq > 0 \/ c.wdead < Deadline \/ owed = "nothing" => Fixed(c, scr, owed)
      <3>1. CASE c = n
        <4>1. owed = "nothing" => Fixed(n, scr, owed)
          <5>1. owed = "nothing" => Row(n) # NoRow
            BY <1>1, <1>4, DrawnRow
          <5>2. n = c => Row(n) = NoRow \/ Row(n) = n.wcand
            BY <1>1, <1>7
          <5> QED BY <1>1, <3>1, <5>1, <5>2 DEF Fixed
        <4> QED BY <1>5, <3>1, <4>1
      <3>2. CASE c # n
        <4>1. Row(n) # n.wcand /\ c.wq = 0 /\ c.wcand = scr.row[1]
          BY <1>7, <3>2
        <4>2. ~Fixed(n, scr, owed)
          BY <1>1, <4>1 DEF Fixed
        <4>3. ~(c.wq > 0 \/ c.wdead < Deadline)
          BY <1>2, <1>5, <1>9, <4>1, <4>2
        <4> QED BY <4>1, <4>3 DEF Fixed
      <3> QED BY <3>1, <3>2
    <2>6. c.wq = Quiet \/ c.wq + c.wdead >= Deadline
      <3>1. CASE c = n
        BY <1>5, <3>1
      <3>2. CASE c # n
        <4>1. Row(n) # n.wcand /\ c.wq = 0
          BY <1>7, <3>2
        <4>2. ~Fixed(n, scr, owed)
          BY <1>1, <4>1 DEF Fixed
        <4> QED BY <1>2, <1>5, <1>9, <4>1, <4>2
      <3> QED BY <3>1, <3>2
    <2>7. \A t : MovedOn(c, keys, dev, scr, owed, t)
      BY <1>4, <1>9, <2>5, <2>6 DEF MovedOn, AtRest
    <2> QED BY <1>4, <1>9, <2>7 DEF Paging, Under, Timed
  <1>12. CASE ~(c.wq < Quiet)
    <2>1. c = n /\ n.wq > 0
      BY <1>2, <1>7, <1>12
    <2>2. Painted(dev, scr, owed) /\ n.wcand = scr.row[1] /\ owed = "nothing"
      BY <1>5, <1>6, <2>1
    <2>3. CASE c.wcand = n.cur
      <3>1. out = Run(still)
        BY <1>8, <1>12, <2>3
      <3>2. out.r = "RUN" /\ out.n = still /\ out.press = NoKey
        BY <3>1 DEF Run, Out
      <3>3. SUFFICES \A t : Paging(still, keys, dev, scr, owed, t)
        BY <3>2, Words DEF PagingOut, Queued
      <3>4. \A t : MovedOn(still, keys, dev, scr, owed, t)
        BY <1>4, <1>10, <2>1, <2>2, <2>3 DEF MovedOn, AtRest
      <3> QED BY <1>4, <1>10, <3>4 DEF Paging, Under, Timed
    <2>4. CASE c.wcand # n.cur
      <3>1. out = Ok(over)
        BY <1>8, <1>12, <2>4
      <3>2. out.r = "OK" /\ out.n = over
        BY <3>1 DEF Ok, Out
      <3>3. Opens(keys, dev, 0)
        BY <1>4 DEF Opens
      <3> QED BY <1>4, <1>10, <2>1, <2>2, <3>2, <3>3, Words DEF PagingOut, AtRest
    <2> QED BY <2>3, <2>4
  <1> QED BY <1>11, <1>12

\* A row that came back to what it was: it differs no more, and the list is at its end.
LEMMA MovedStill ==
  ASSUME SelectorWorld, Bounds, NEW n \in Machines, MovedOn(n, keys, dev, scr, owed, passes), n.wphase = 2,
         NEW key \in Arrows, NEW noise \in BOOLEAN
  PROVE  PagingOut(wait_change(n, key, noise))
  <1> DEFINE gone == [n EXCEPT !.wphase = 0]
             out == wait_change(n, key, noise)
  <1>1. World /\ Row(n) = scr.row[1]
    BY SelectorRow DEF SelectorWorld
  <1>2. /\ keys = <<>> /\ dev.page = "value" /\ dev.focus = 1 /\ n.eng.phase = 0
        /\ owed = "nothing" /\ n.cur = scr.row[1]
    BY DEF MovedOn, AtRest
  <1>3. ~(Reads(n) /\ Row(n) # n.cur)
    BY <1>1, <1>2
  <1>4. out = IF n.wdead = 0 THEN Fail(gone) ELSE Run(n)
    <2>1. Watched(n).wq \in Nat /\ Quiet \in Nat
      <3>1. Watched(n) \in Machines
        BY <1>1, WatchedCandid
      <3>2. Watched(n).wq \in 0 .. Quiet
        BY <3>1, Members
      <3> QED BY <3>2, Constants
    <2> HIDE DEF out
    <2> QED BY <1>3, <2>1, WaitNext DEF out
  <1> SUFFICES PagingOut(out)
    OBVIOUS
  <1> HIDE DEF out
  <1>5. gone.wphase = 0 /\ gone.eng = n.eng /\ gone.cur = n.cur
    BY DEF Machines
  <1> HIDE DEF gone
  <1>6. CASE n.wdead = 0
    <2>1. out.r = "FAIL" /\ out.n = gone
      BY <1>4, <1>6 DEF Fail, Out
    <2>2. Painted(dev, scr, owed)
      BY <1>2, DrawnRow
    <2>3. Opens(keys, dev, 0)
      BY <1>2 DEF Opens
    <2> QED BY <1>2, <1>5, <2>1, <2>2, <2>3, Words DEF PagingOut, AtRest, Unmoved
  <1>7. CASE n.wdead # 0
    <2>1. out.r = "RUN" /\ out.n = n /\ out.press = NoKey
      BY <1>4, <1>7 DEF Run, Out
    <2>2. SUFFICES \A t : Paging(n, keys, dev, scr, owed, t)
      BY <2>1, Words DEF PagingOut, Queued
    <2>3. \A t : MovedOn(n, keys, dev, scr, owed, t)
      BY <1>2 DEF MovedOn, AtRest
    <2> QED BY <1>2, <2>3 DEF Paging, Under, Timed
  <1> QED BY <1>6, <1>7

\* A wait does not leave the page walk.
LEMMA WaitSame ==
  ASSUME World, NEW n \in Machines, NEW key \in Pressed, NEW noise \in BOOLEAN
  PROVE  wait_change(n, key, noise).n.swphase = n.swphase
  <1> DEFINE o == step(n.eng, key, Look(Reads(n) /\ Row(n) # n.cur, noise), Verify, FALSE)
             k == [n EXCEPT !.eng = o.n]
             watch == [Glimpsed(n) EXCEPT !.eng = o.n, !.wdead = Deadline]
             c == Watched(n)
             over == [c EXCEPT !.wphase = 0]
             still == [c EXCEPT !.wphase = 2]
             gone == [n EXCEPT !.wphase = 0]
             out == wait_change(n, key, noise)
  <1>1. Glimpsed(n) \in Machines /\ c \in Machines
    BY GlimpsedBeside, WatchedCandid DEF Beside
  <1>2. Glimpsed(n).swphase = n.swphase
    <2> DEFINE row == Row(n)
    <2>1. Glimpsed(n) = [n EXCEPT !.wcand = row, !.wq = 0, !.wphase = 1]
      BY DEF Glimpsed
    <2> HIDE DEF row
    <2> QED BY <2>1 DEF Machines
  <1>3. c.swphase = n.swphase
    BY <1>2 DEF Watched
  <1>4. c.wq \in Nat /\ Quiet \in Nat /\ n.wphase \in 0 .. 2
    <2>1. c.wq \in 0 .. Quiet
      BY <1>1, Members
    <2>2. n.wphase \in 0 .. 2
      BY Members
    <2> QED BY <2>1, <2>2, Constants
  <1> HIDE DEF o, c
  <1>5. /\ k.swphase = n.swphase /\ watch.swphase = n.swphase /\ over.swphase = n.swphase
        /\ still.swphase = n.swphase /\ gone.swphase = n.swphase
    BY <1>1, <1>2, <1>3 DEF Machines
  <1>6. \A x : Run(x).n = x /\ Ok(x).n = x /\ Fail(x).n = x
    BY DEF Run, Ok, Fail, Out
  <1> SUFFICES out.n.swphase = n.swphase
    OBVIOUS
  <1>7. CASE n.wphase = 0
    <2>1. out = IF o.r # "OK" THEN [r |-> o.r, n |-> k, press |-> o.press] ELSE Run(watch)
      BY <1>7, WaitFirst DEF o
    <2> HIDE DEF out, k, watch
    <2> QED BY <1>5, <1>6, <2>1
  <1>8. CASE n.wphase # 0
    <2> DEFINE differs == Reads(n) /\ Row(n) # n.cur
    <2>1. /\ n.wphase = 1 => out = IF c.wq < Quiet THEN IF c.wdead = 0 THEN Fail(over) ELSE Run(c)
                                   ELSE IF c.wcand = n.cur THEN Run(still) ELSE Ok(over)
          /\ n.wphase = 2 => out = IF differs THEN Run(Glimpsed(n)) ELSE IF n.wdead = 0 THEN Fail(gone) ELSE Run(n)
      <3> HIDE DEF out
      <3> QED BY <1>4, WaitNext DEF c, out
    <2> HIDE DEF out, over, still, gone, differs
    <2>2. n.wphase = 1 \/ n.wphase = 2
      BY <1>4, <1>8
    <2> QED BY <1>2, <1>3, <1>5, <1>6, <2>1, <2>2
  <1> QED BY <1>7, <1>8

\* sweep_move: either the next value is on the screen, or the selector did not move.
LEMMA MoveStep ==
  ASSUME SelectorWorld, Bounds, NEW n, MachineInv(n), n.st = "SWEEP", n.swphase = 2,
         Paging(n, keys, dev, scr, owed, passes), NEW noise \in BOOLEAN
  PROVE  SweepAfter(sweep_move(n, noise))
  <1> DEFINE key == IF n.down THEN "DOWN" ELSE "UP"
             o == wait_change(n, key, noise)
             k == o.n
             next == [k EXCEPT !.press = k.press + 1]
             back == [next EXCEPT !.down = TRUE]
             on == [next EXCEPT !.cur = k.wcand, !.swphase = 1]
             spent == n.press >= 2 * req.expected + 2
             out == sweep_move(n, noise)
  <1>1. n \in Machines /\ World
    BY DEF MachineInv, SelectorWorld
  <1>2. key \in Arrows
    BY DEF Arrows
  <1>3. out = CASE spent -> Goes(finish(n, TRUE))
                [] ~spent /\ o.r = "RUN"  -> Res(k, o.press, Nothing)
                [] ~spent /\ o.r = "FAIL" -> Goes(IF n.down THEN finish(next, TRUE) ELSE back)
                [] ~spent /\ o.r = "OK"   -> Goes(on)
    BY DEF sweep_move
  <1> SUFFICES SweepAfter(out)
    OBVIOUS
  <1> HIDE DEF out, key, spent
  <1>4. PagingOut(o)
    <2>1. CASE Unmoved(n, keys, dev, scr, owed)
      BY <1>1, <1>2, <2>1, UnmovedWait DEF Paging
    <2>2. CASE MovedOn(n, keys, dev, scr, owed, passes)
      <3>1. n.wphase \in 0 .. 2
        BY <1>1, Members
      <3>2. CASE n.wphase = 0
        BY <1>1, <1>2, <2>2, <3>2, MovedFirst DEF Paging
      <3>3. CASE n.wphase = 1
        BY <1>1, <1>2, <2>2, <3>3, MovedWatch DEF Paging
      <3>4. CASE n.wphase = 2
        BY <1>1, <1>2, <2>2, <3>4, MovedStill
      <3> QED BY <3>1, <3>2, <3>3, <3>4
    <2> QED BY <2>1, <2>2 DEF Paging
  <1>5. k \in Machines /\ k.swphase = 2 /\ o.r \in Results
    <2>1. key \in Pressed
      BY <1>2, Words DEF Arrows
    <2>2. Beside(n, k)
      BY <1>1, <2>1, WaitOut DEF Waiting
    <2>3. k.swphase = n.swphase
      BY <1>1, <2>1, WaitSame
    <2> QED BY <1>4, <2>2, <2>3 DEF Beside, PagingOut
  <1> HIDE DEF o, k
  <1>6. next \in Machines /\ next.eng = k.eng /\ next.cur = k.cur /\ next.wphase = k.wphase /\ next.swphase = 2
    <2>1. next \in Machines
      BY <1>5, Pressing
    <2> QED BY <1>5, <2>1 DEF Machines
  <1> HIDE DEF next
  <1>7. /\ back.eng = k.eng /\ back.cur = k.cur /\ back.wphase = k.wphase /\ back.swphase = 2
        /\ on.eng = k.eng /\ on.cur = k.wcand /\ on.wphase = k.wphase /\ on.swphase = 1
    <2> DEFINE cand == k.wcand
    <2> HIDE DEF cand
    <2> QED BY <1>6 DEF Machines, cand
  <1> HIDE DEF back, on
  <1>8. finish(n, TRUE).st = "TEARDOWN" /\ finish(next, TRUE).st = "TEARDOWN"
    BY <1>1, <1>6, ResetsWait DEF World
  <1>9. CASE spent
    <2>1. out = Goes(finish(n, TRUE))
      BY <1>3, <1>9
    <2> QED BY <1>8, <2>1, NoSweep DEF Goes, Res
  <1>10. CASE ~spent /\ o.r = "RUN"
    <2>1. out.m = k /\ out.press = o.press
      BY <1>3, <1>10 DEF Res
    <2>2. \A q, t : Queued(q, o.press) /\ t > 0 => Paging(k, q, dev, scr, owed, t)
      BY <1>4, <1>10 DEF PagingOut, k
    <2> QED BY <1>5, <2>1, <2>2 DEF SweepAfter, InSweep
  <1>11. CASE ~spent /\ o.r = "FAIL"
    <2>1. out = Goes(IF n.down THEN finish(next, TRUE) ELSE back)
      BY <1>3, <1>11
    <2>2. CASE n.down
      BY <1>8, <2>1, <2>2, NoSweep DEF Goes, Res
    <2>3. CASE ~n.down
      <3>1. out.m = back /\ out.press = NoKey
        BY <2>1, <2>3 DEF Goes, Res
      <3>2. AtRest(k) /\ Unmoved(k, keys, dev, scr, owed)
        BY <1>4, <1>11 DEF PagingOut, k
      <3>3. Unmoved(back, keys, dev, scr, owed) /\ back.eng.phase = 0
        BY <1>7, <3>2 DEF Unmoved, AtRest
      <3>4. \A t : Paging(back, keys, dev, scr, owed, t)
        BY <3>3 DEF Paging, Timed, Under
      <3> QED BY <1>7, <3>1, <3>4 DEF SweepAfter, InSweep, Queued
    <2> QED BY <2>2, <2>3
  <1>12. CASE ~spent /\ o.r = "OK"
    <2>1. out = Goes(on)
      BY <1>3, <1>12
    <2>2. out.m = on /\ out.press = NoKey
      BY <2>1 DEF Goes, Res
    <2>3. /\ AtRest(k) /\ k.wphase = 0 /\ k.wcand = scr.row[1]
          /\ Painted(dev, scr, owed) /\ Opens(keys, dev, 0)
      BY <1>4, <1>12 DEF PagingOut, k
    <2>4. Capturing(on, keys, dev, scr, owed)
      BY <1>7, <2>3 DEF Capturing, AtRest
    <2> QED BY <1>7, <2>2, <2>4 DEF SweepAfter, InSweep, Queued
  <1> QED BY <1>5, <1>9, <1>10, <1>11, <1>12 DEF Results

-----------------------------------------------------------------------------
(* The passes of a sweep *)

\* A sweep neither focuses a field to edit it nor edits, and watches no row on its way.
NoWork(n) ==
  n.st \notin {"FOCUS", "EDIT", "COMMIT"} /\ (n.st \in {"ANCHOR", "ROUTE", "READ"} => n.wphase = 0)

\* What is under way fits a sweep, before a pass and after it.
SweepFits(n, q, t) == InSweep(n, q, dev, scr, owed, t)
SweepOn(p) == \A q, t : Queued(q, p.press) /\ t > 0 => SweepFits(p.m, q, t)

\* The sweep pages the selector, the field that other rows depend on.
OfSelector == req.sweep => req.ops[1].field = 1

\* While no Enter of the request was dropped the presses fit, and what was published is on
\* the screen.
SweepInv ==
  /\ OfSelector
  /\ req.sweep => NoWork(m) /\ (~lost => SweepFits(m, keys, passes))
  /\ ~lost => SaysShown(did)

\* Outside the sweep nothing is asked of the presses.
LEMMA OtherStates ==
  ASSUME NEW n, n.st # "SWEEP", NEW q, NEW t
  PROVE  SweepFits(n, q, t)
  BY DEF SweepFits, InSweep

\* A step that publishes no value.
LEMMA SaysNone ==
  ASSUME NEW c, c.sweep = NoRow
  PROVE  SaysShown(c)
  BY DEF SaysShown

LEMMA NothingSaid == Nothing.sweep = NoRow
  BY DEF Nothing

\* A pass of a sweep in state st; what it comes to.
SweepPassing(st) ==
  /\ VisitPassing(st) /\ Drawn(dev, scr, owed) /\ req.sweep
  /\ req.ops[1].field = 1 /\ NoWork(m)

AnchorSwept(p) == NoWork(p.m) /\ (~lost /\ SweepFits(m, keys, passes) => SweepOn(p))

\* The way to the value page watches no row.
LEMMA AnchorSweep ==
  ASSUME SweepPassing("ANCHOR"), NEW noise \in BOOLEAN
  PROVE  AnchorSwept(Anchor(m, noise))
  <1> DEFINE p == Anchor(m, noise)
  <1>1. Passing("ANCHOR") /\ m.wphase = 0
    BY DEF SweepPassing, VisitPassing, Passing, NoWork
  <1>2. p.m.st \in {"ANCHOR", "ROUTE", "TEARDOWN"}
    BY <1>1, AnchorKeys DEF Passing, Fits, GivesUp
  <1>3. p.m.wphase = 0
    BY <1>1, AnchorWait DEF Passing, Fits
  <1> HIDE DEF p
  <1>4. AnchorSwept(p)
    BY <1>2, <1>3, OtherStates DEF AnchorSwept, NoWork, SweepOn
  <1> QED BY <1>4 DEF p

LEMMA RouteSweep ==
  ASSUME SweepPassing("ROUTE"), NEW noise \in BOOLEAN
  PROVE  AnchorSwept(Route(m, noise))
  <1> DEFINE p == Route(m, noise)
  <1>1. Passing("ROUTE") /\ m.wphase = 0
    BY DEF SweepPassing, VisitPassing, Passing, NoWork
  <1>2. p.m.wphase = 0
    BY <1>1, RouteWait DEF Passing, Fits
  <1>3. m.step < Len(route) \/ m.step = Len(route)
    <2>1. m.step \in 1 .. Len(route) + 1 /\ m.step <= Len(route) /\ Len(route) \in Nat
      BY <1>1, Members, Routing DEF Passing, MachineInv, StepInv, IInv
    <2> QED BY <2>1
  <1>4. p.m.st \in {"ROUTE", "READ", "ANCHOR", "TEARDOWN"}
    <2>1. m.step = Len(route) => LandingOut(m, p)
      BY <1>1, LandingKeys DEF Passing, Fits
    <2>2. m.step < Len(route) => p.m.st = "ROUTE" \/ GivesUp(p.m)
      BY <1>1, RouteKeys DEF Passing, Fits
    <2> HIDE DEF p
    <2> QED BY <1>3, <2>1, <2>2 DEF LandingOut, GivesUp
  <1> HIDE DEF p
  <1>5. AnchorSwept(p)
    BY <1>2, <1>4, OtherStates DEF AnchorSwept, NoWork, SweepOn
  <1> QED BY <1>5 DEF p

\* The value page is read with no field open and nothing under way.
LEMMA ReadSweep ==
  ASSUME SweepPassing("READ"), NEW noise \in BOOLEAN
  PROVE  AnchorSwept(Read(m, noise))
  <1> DEFINE p == Read(m, noise)
  <1>1. Passing("READ") /\ m.wphase = 0 /\ req.sweep /\ OneEnter(m, keys, dev) /\ m.st = "READ"
    BY DEF SweepPassing, VisitPassing, Passing, NoWork
  <1>2. /\ p.m.wphase = 0 /\ p.m.st \in {"READ", "TEARDOWN", "SWEEP"}
        /\ p.m.st = "SWEEP" => p.m.swphase = 0 /\ AtRest(p.m)
    BY <1>1, ReadWait DEF Passing, Fits
  <1>3. p.press = NoKey
    BY <1>1, ReadKeys DEF Passing, Fits
  <1> SUFFICES AnchorSwept(p)
    OBVIOUS
  <1> HIDE DEF p
  <1>4. NoWork(p.m)
    BY <1>2 DEF NoWork
  <1>5. ASSUME NEW t PROVE SweepFits(p.m, keys, t)
    <2> SUFFICES ASSUME p.m.st = "SWEEP" PROVE Opening(p.m, keys, dev, scr, owed)
      BY <1>2 DEF SweepFits, InSweep
    <2>1. /\ dev.page = "value" /\ Clean(dev) /\ owed # "field"
          /\ scr.row = <<dev.sel, Number(dev, dev.sel)>>
      BY <1>1 DEF Passing, Fits, OnVisit
    <2>2. keys = <<>> /\ dev.focus = 0
      BY <1>1, <2>1 DEF OneEnter
    <2>3. Painted(dev, scr, owed)
      BY <2>1, <2>2 DEF Painted, Shown, Row2, Clean
    <2> QED BY <1>2, <2>2, <2>3 DEF Opening, AtRest, Under, ToldLost
  <1> QED BY <1>3, <1>4, <1>5 DEF AnchorSwept, SweepOn, Queued

\* The sweep itself, from its three steps.
LEMMA SweepSweep ==
  ASSUME SweepPassing("SWEEP"), Bounds, NEW noise \in BOOLEAN
  PROVE  /\ AnchorSwept(Sweep(m, noise))
         /\ SweepFits(m, keys, passes) => SaysShown(Sweep(m, noise).did)
  <1> DEFINE p == Sweep(m, noise)
  <1>1. World /\ MachineInv(m) /\ m.st = "SWEEP" /\ SelectorWorld
    BY SweepsOne DEF SweepPassing, VisitPassing, Passing, SelectorWorld
  <1>2. m.swphase \in 0 .. 2
    BY <1>1, Members DEF MachineInv
  <1>3. SweepFits(m, keys, passes) => InSweep(m, keys, dev, scr, owed, passes)
    BY DEF SweepFits
  <1>4. ASSUME NEW c, c.m.st \in {"SWEEP", "ABORT_ESC", "TEARDOWN"},
               SweepFits(m, keys, passes) => SweepAfter(c)
        PROVE  AnchorSwept(c)
    BY <1>4 DEF AnchorSwept, NoWork, SweepOn, SweepFits, SweepAfter
  <1>5. CASE m.swphase = 0
    <2> DEFINE c == sweep_focus(m, noise)
    <2>1. p = c
      BY <1>5 DEF Sweep
    <2>2. SweepStays(c)
      BY <1>1, FocusStays
    <2>3. SweepFits(m, keys, passes) => SweepAfter(c)
      BY <1>1, <1>3, <1>5, OpeningStep DEF InSweep
    <2> HIDE DEF c, p
    <2>4. AnchorSwept(c) /\ SaysShown(c.did)
      BY <1>4, <2>2, <2>3, SaysNone, NothingSaid DEF SweepStays
    <2> QED BY <2>1, <2>4 DEF p
  <1>6. CASE m.swphase = 1
    <2> DEFINE c == sweep_capture(m)
    <2>1. p = c
      BY <1>6 DEF Sweep
    <2>2. c.m.st \in {"SWEEP", "TEARDOWN"}
      BY <1>1, CapturingStep
    <2>3. SweepFits(m, keys, passes) => SweepAfter(c) /\ SaysShown(c.did)
      BY <1>1, <1>3, <1>6, CapturingStep DEF InSweep
    <2> HIDE DEF c, p
    <2>4. AnchorSwept(c)
      BY <1>4, <2>2, <2>3
    <2> QED BY <2>1, <2>3, <2>4 DEF p
  <1>7. CASE m.swphase = 2
    <2> DEFINE c == sweep_move(m, noise)
    <2>1. p = c
      BY <1>7 DEF Sweep
    <2>2. SweepStays(c)
      BY <1>1, MoveStays
    <2>3. SweepFits(m, keys, passes) => SweepAfter(c)
      BY <1>1, <1>3, <1>7, MoveStep DEF InSweep
    <2> HIDE DEF c, p
    <2>4. AnchorSwept(c) /\ SaysShown(c.did)
      BY <1>4, <2>2, <2>3, SaysNone, NothingSaid DEF SweepStays
    <2> QED BY <2>1, <2>4 DEF p
  <1> QED BY <1>2, <1>5, <1>6, <1>7

\* The other passes publish nothing.
LEMMA FocusSilent ==
  ASSUME World, NEW n \in Machines, NEW noise \in BOOLEAN
  PROVE  Focus(n, noise).did = Nothing /\ Commit(n, noise).did = Nothing
  <1> DEFINE o == Entered(n, noise)
             next == [n EXCEPT !.eng = o.n, !.cur = Row(n)]
             k == [n EXCEPT !.eng = o.n]
             f == IF Row(n) # n.old \/ ~on_value_page(n) THEN abort(next) ELSE arrive([next EXCEPT !.field = next.field + 1])
             c == IF ~Shows(n, Row(n)) THEN fail(next) ELSE Landed([next EXCEPT !.field = next.field + 1])
  <1>1. o.r \in Results
    <2>1. o \in Outcomes
      BY EnteredOut
    <2> QED BY <2>1, OutcomeFields
  <1>2. Focus(n, noise) = CASE o.r = "RUN"  -> Res(k, o.press, Nothing)
                            [] o.r = "FAIL" -> Goes(abort(n))
                            [] o.r = "OK"   -> Goes(f)
    BY DEF Focus, Stays
  <1>3. Commit(n, noise) = CASE o.r = "RUN"  -> Res(k, o.press, Nothing)
                             [] o.r = "FAIL" -> Goes(fail(n))
                             [] o.r = "OK"   -> Goes(c)
    BY DEF Commit, Stays
  <1> HIDE DEF o, k, f, c
  <1>4. \A x, y : Res(x, y, Nothing).did = Nothing /\ Goes(x).did = Nothing
    BY DEF Goes, Res
  <1> QED BY <1>1, <1>2, <1>3, <1>4 DEF Results

LEMMA EditSilent ==
  ASSUME World, NEW n \in Machines, NEW noise \in BOOLEAN
  PROVE  Edit(n, noise).did = Nothing
  <1> DEFINE key == EditKey(n)
             o == wait_change(n, key, noise)
             next == [o.n EXCEPT !.press = o.n.press + 1]
             value == o.n.wcand
             fails == IF ~Op(n).num /\ ~n.reversed THEN [next EXCEPT !.reversed = TRUE] ELSE abort(next)
             oks == CASE ~on_value_page(n) -> abort(next)
                      [] on_value_page(n) /\ Shows(n, value) -> [next EXCEPT !.st = "COMMIT"]
                      [] on_value_page(n) /\ ~Shows(n, value) /\ Diverged(n, value) -> abort(next)
                      [] OTHER -> [next EXCEPT !.cur = value]
             out == Edit(n, noise)
  <1>1. o.r \in Results
    <2>1. key \in Pressed
      BY Words DEF EditKey
    <2> HIDE DEF key
    <2> QED BY <2>1, WaitOut DEF Waiting
  <1>2. out = CASE n.press >= MaxPress -> Goes(abort(n))
                [] n.press < MaxPress /\ o.r = "RUN" -> Res(o.n, o.press, Nothing)
                [] n.press < MaxPress /\ o.r = "FAIL" -> Goes(fails)
                [] n.press < MaxPress /\ o.r = "OK" -> Goes(oks)
    BY DEF Edit
  <1>3. n.press >= MaxPress \/ n.press < MaxPress
    <2>1. n.press \in Nat /\ MaxPress \in Nat
      BY Members, Constants
    <2> QED BY <2>1
  <1> HIDE DEF o, fails, oks, out
  <1>4. \A x, y : Res(x, y, Nothing).did = Nothing /\ Goes(x).did = Nothing
    BY DEF Goes, Res
  <1>5. out.did = Nothing
    BY <1>1, <1>2, <1>3, <1>4 DEF Results
  <1> QED BY <1>5 DEF out

LEMMA TeardownSilent ==
  ASSUME NEW n, NEW noise
  PROVE  Teardown(n, noise).did.sweep = NoRow
  <1> DEFINE o == esc_anchor(n.eng, Look(scr.page = "anchor", noise), FALSE)
             k == [n EXCEPT !.eng = o.n]
             end == [n EXCEPT !.eng = o.n, !.st = "IDLE"]
             value == IF n.ok THEN n.cur ELSE n.old
             calls == [Nothing EXCEPT !.done = TRUE, !.ok = n.ok, !.value = value]
             out == Teardown(n, noise)
  <1>1. out = IF o.r = "RUN" THEN Res(k, o.press, Nothing) ELSE Res(end, NoKey, calls)
    BY DEF Teardown, Stays
  <1>2. calls.sweep = NoRow /\ Nothing.sweep = NoRow
    <2> HIDE DEF value
    <2> QED BY DEF Nothing
  <1> HIDE DEF o, k, end, calls, out
  <1>3. out.did \in {calls, Nothing}
    BY <1>1 DEF Res
  <1> QED BY <1>2, <1>3 DEF out

\* What a pass publishes is on the screen; in a sweep what is under way fits.
PassSwept(p) ==
  /\ ~lost => SaysShown(p.did)
  /\ req.sweep => NoWork(p.m) /\ (~lost => SweepOn(p))

\* A pass of tick, in every state.
LEMMA PassSweep ==
  ASSUME IInv, TruthInv, VisitInv, SweepInv, Bounds, NEW noise \in BOOLEAN
  PROVE  PassSwept(Pass(noise))
  <1> DEFINE p == Pass(noise)
  <1>1. IInv /\ World /\ MachineInv(m) /\ keys \in InFlight /\ Lands(route) /\ Fits(m, keys, dev, scr, owed)
        /\ Drawn(dev, scr, owed) /\ m \in Machines
    BY Worldly DEF TruthInv, IInv, Around, MachineInv
  <1>2. m.st \in States
    BY <1>1, Members
  <1>3. /\ req.sweep => req.ops[1].field = 1
        /\ req.sweep => NoWork(m) /\ (~lost => SweepFits(m, keys, passes))
        /\ SingleEnter /\ OneEnter(m, keys, dev)
    BY DEF SweepInv, OfSelector, VisitInv
  <1>4. \A st : req.sweep /\ m.st = st => SweepPassing(st)
    BY <1>1, <1>3 DEF SweepPassing, VisitPassing, Passing
  <1>5. ASSUME NEW c, c.did.sweep = NoRow, req.sweep => AnchorSwept(c)
        PROVE  PassSwept(c)
    BY <1>3, <1>5, SaysNone DEF PassSwept, AnchorSwept
  <1>6. ASSUME NEW c, c.did.sweep = NoRow, c.m.st \in {"IDLE", "TEARDOWN", "ABORT_ESC"}
        PROVE  PassSwept(c)
    BY <1>6, SaysNone, OtherStates DEF PassSwept, NoWork, SweepOn
  <1>7. CASE m.st = "IDLE"
    <2>1. p = Goes(m)
      BY <1>7 DEF Pass
    <2>2. Goes(m).m = m /\ Goes(m).did = Nothing
      BY DEF Goes, Res
    <2> HIDE DEF p
    <2>3. PassSwept(p)
      BY <1>6, <1>7, <2>1, <2>2, NothingSaid
    <2> QED BY <2>3 DEF p
  <1>8. CASE m.st = "ANCHOR"
    <2> DEFINE c == Anchor(m, noise)
    <2>1. p = c
      BY <1>8 DEF Pass
    <2>2. c.did = Nothing
      BY <1>1, <1>8, AnchorKeys DEF Fits, Quietly
    <2>3. req.sweep => AnchorSwept(c)
      BY <1>4, <1>8, AnchorSweep
    <2> HIDE DEF c, p
    <2>4. PassSwept(c)
      BY <1>5, <2>2, <2>3, NothingSaid
    <2> QED BY <2>1, <2>4 DEF p
  <1>9. CASE m.st = "ROUTE"
    <2> DEFINE c == Route(m, noise)
    <2>1. p = c
      BY <1>9 DEF Pass
    <2>2. c.did = Nothing
      <3>1. m.step \in 1 .. Len(route) + 1 /\ m.step <= Len(route) /\ Len(route) \in Nat
        BY <1>1, <1>9, Members, Routing DEF MachineInv, StepInv, IInv
      <3>2. m.step < Len(route) \/ m.step = Len(route)
        BY <3>1
      <3> QED BY <1>1, <1>9, <3>2, RouteKeys, LandingKeys DEF Fits, Quietly
    <2>3. req.sweep => AnchorSwept(c)
      BY <1>4, <1>9, RouteSweep
    <2> HIDE DEF c, p
    <2>4. PassSwept(c)
      BY <1>5, <2>2, <2>3, NothingSaid
    <2> QED BY <2>1, <2>4 DEF p
  <1>10. CASE m.st = "READ"
    <2> DEFINE c == Read(m, noise)
    <2>1. p = c
      BY <1>10 DEF Pass
    <2>2. c.did.sweep = NoRow
      <3>1. c.did \in {Nothing, [Nothing EXCEPT !.snap = TRUE]}
        BY <1>1, <1>10, ReadKeys DEF Fits, Quietly
      <3>2. [Nothing EXCEPT !.snap = TRUE].sweep = NoRow
        BY DEF Nothing
      <3> QED BY <3>1, <3>2, NothingSaid
    <2>3. req.sweep => AnchorSwept(c)
      BY <1>4, <1>10, ReadSweep
    <2> HIDE DEF c, p
    <2>4. PassSwept(c)
      BY <1>5, <2>2, <2>3
    <2> QED BY <2>1, <2>4 DEF p
  <1>11. CASE m.st \in {"FOCUS", "EDIT", "COMMIT"}
    <2>1. ~req.sweep
      BY <1>3, <1>11 DEF NoWork
    <2>2. p.did = Nothing
      BY <1>1, <1>11, FocusSilent, EditSilent DEF Pass
    <2> HIDE DEF p
    <2>3. PassSwept(p)
      BY <1>5, <2>1, <2>2, NothingSaid
    <2> QED BY <2>3 DEF p
  <1>12. CASE m.st = "SWEEP"
    <2> DEFINE c == Sweep(m, noise)
    <2>1. p = c
      BY <1>12 DEF Pass
    <2>2. req.sweep /\ SweepPassing("SWEEP")
      BY <1>1, <1>4, <1>12 DEF MachineInv
    <2>3. AnchorSwept(c) /\ (SweepFits(m, keys, passes) => SaysShown(c.did))
      BY <2>2, SweepSweep
    <2> HIDE DEF c, p
    <2>4. PassSwept(c)
      BY <1>3, <2>2, <2>3 DEF PassSwept, AnchorSwept
    <2> QED BY <2>1, <2>4 DEF p
  <1>13. CASE m.st = "ABORT_ESC"
    <2>1. p = AbortEsc(m, noise)
      BY <1>13 DEF Pass
    <2>2. p.did = Nothing /\ p.m.st \in {"ABORT_ESC", "TEARDOWN"}
      BY <1>1, <1>13, <2>1, AbortKeys DEF Fits, Quietly
    <2> HIDE DEF p
    <2>3. PassSwept(p)
      BY <1>6, <2>2, NothingSaid
    <2> QED BY <2>3 DEF p
  <1>14. CASE m.st = "TEARDOWN"
    <2>1. p = Teardown(m, noise)
      BY <1>14 DEF Pass
    <2>2. p.did.sweep = NoRow /\ p.m.st \in {"IDLE", "TEARDOWN"}
      BY <1>1, <1>14, <2>1, TeardownKeys, TeardownSilent DEF Fits
    <2> HIDE DEF p
    <2>3. PassSwept(p)
      BY <1>6, <2>2
    <2> QED BY <2>3 DEF p
  <1> QED BY <1>2, <1>7, <1>8, <1>9, <1>10, <1>11, <1>12, <1>13, <1>14 DEF States

\* The invariant of the next state, from what it says of the next values.
LEMMA FitsNext ==
  ASSUME InSweep(m', keys', dev', scr', owed', passes')
  PROVE  SweepFits(m, keys, passes)'
  <1>1. InSweep(m, keys, dev, scr, owed, passes)'
    BY DEF InSweep
  <1> QED BY <1>1 DEF SweepFits

\* The actions that publish nothing.
LEMMA SweepCarried ==
  ASSUME SweepInv, req' = req, did' = Nothing, req.sweep => NoWork(m'),
         req.sweep /\ ~lost' => InSweep(m', keys', dev', scr', owed', passes')
  PROVE  SweepInv'
  <1>1. SaysShown(did)'
    BY NothingSaid DEF SaysShown
  <1>2. req.sweep' => NoWork(m)'
    BY DEF NoWork
  <1>3. req.sweep' /\ ~lost' => SweepFits(m, keys, passes)'
    BY FitsNext
  <1>4. OfSelector'
    BY DEF SweepInv, OfSelector
  <1> QED BY <1>1, <1>2, <1>3, <1>4 DEF SweepInv

\* Tick keeps the invariant, and so do the owner's calls, the controller, the pump, the screen
\* and the clock.
LEMMA TickSwept ==
  ASSUME IInv, TruthInv, VisitInv, SweepInv, Bounds, Tick
  PROVE  SweepInv'
  <1>1. PICK noise \in BOOLEAN :
          /\ m' = Pass(noise).m /\ did' = Pass(noise).did /\ Queued(keys', Pass(noise).press)
    BY DEF Tick, Queued
  <1>2. UNCHANGED <<req, route, dev, scr, owed, lost>> /\ passes' > 0
    BY DEF Tick
  <1>3. PassSwept(Pass(noise))
    BY PassSweep
  <1>4. ~lost' => SaysShown(did)'
    BY <1>1, <1>2, <1>3 DEF PassSwept, SaysShown, Number
  <1>5. req.sweep' => NoWork(m)'
    BY <1>1, <1>2, <1>3 DEF PassSwept, NoWork
  <1>6. req.sweep /\ ~lost => SweepFits(Pass(noise).m, keys', passes')
    BY <1>1, <1>2, <1>3 DEF PassSwept, SweepOn
  <1>7. req.sweep /\ ~lost => InSweep(m', keys', dev', scr', owed', passes')
    BY <1>1, <1>2, <1>6, Zenon DEF SweepFits
  <1>8. req.sweep' /\ ~lost' => SweepFits(m, keys, passes)'
    BY <1>2, <1>7, FitsNext
  <1>9. OfSelector'
    BY <1>2 DEF SweepInv, OfSelector
  <1> QED BY <1>4, <1>5, <1>8, <1>9 DEF SweepInv

-----------------------------------------------------------------------------
(* The other actions, and what is published *)

LEMMA BeginSwept ==
  ASSUME IInv, SweepInv, begin
  PROVE  SweepInv'
  <1>1. did' = Nothing /\ req' = req /\ route' = route /\ m' = [Idle EXCEPT !.st = "ANCHOR", !.resync = m.resync]
    BY DEF begin
  <1>2. m'.st = "ANCHOR" /\ m'.wphase = 0
    BY <1>1 DEF Idle
  <1>3. NoWork(m') /\ InSweep(m', keys', dev', scr', owed', passes')
    BY <1>2 DEF NoWork, InSweep
  <1> QED BY <1>1, <1>3, SweepCarried

LEMMA ResyncSwept ==
  ASSUME IInv, SweepInv, resync_anchor
  PROVE  SweepInv'
  <1>1. did' = Nothing /\ req' = req /\ route' = route /\ m'.st = "IDLE"
    BY DEF resync_anchor, IInv, MachineInv, Machines
  <1>2. NoWork(m') /\ InSweep(m', keys', dev', scr', owed', passes')
    BY <1>1 DEF NoWork, InSweep
  <1> QED BY <1>1, <1>2, SweepCarried

\* The controller takes the Enter that opens the selector, and after it the arrow.
LEMMA OpensTaken ==
  ASSUME NEW q \in InFlight, q # <<>>, NEW d \in Devices, d.page = "value", NEW k \in {0, 1}, Opens(q, d, k),
         NEW e \in Press(d, Head(q).key)
  PROVE  /\ d.focus = 0 => /\ Head(q).key = "ENTER" /\ e.page = "value" /\ Shown(e).row = Shown(d).row
                           /\ Opens(Tail(q), e, k)
         /\ d.focus # 0 => /\ k = 1 /\ Head(q).key \in Arrows /\ Tail(q) = <<>>
                           /\ e.page = "value" /\ e.focus = 1
  <1>1. /\ Len(q) \in Nat /\ Len(q) >= 1 /\ Head(q) = q[1] /\ Len(Tail(q)) = Len(q) - 1
        /\ \A i \in 1 .. Len(q) - 1 : Tail(q)[i] = q[i + 1]
    BY DEF InFlight
  <1>2. CASE d.focus = 0
    <2>1. Head(q).key = "ENTER" /\ Len(q) = k + 1 /\ (k = 1 => q[2].key \in Arrows)
      BY <1>1, <1>2 DEF Opens
    <2>2. e = [d EXCEPT !.focus = 1]
      BY <1>2, <2>1 DEF Press, Enters
    <2>3. e.focus = 1 /\ e.page = "value" /\ e.shown1 = d.shown1 /\ e.prog = d.prog /\ e.linked = d.linked /\ e.near = d.near
      BY <2>2 DEF Devices
    <2>4. Shown(e).row = Shown(d).row
      BY <1>2, <2>3 DEF Shown, Row2, Number
    <2>5. k = 1 => Tail(q)[1] = q[2]
      BY <1>1, <2>1
    <2>6. Len(Tail(q)) = k
      BY <1>1, <2>1
    <2> QED BY <1>2, <2>1, <2>3, <2>4, <2>5, <2>6 DEF Opens
  <1>3. CASE d.focus # 0
    <2>1. d.focus = 1 /\ Len(q) = k /\ (k = 1 => q[1].key \in Arrows)
      BY <1>3 DEF Opens
    <2>2. k = 1 /\ Head(q).key \in Arrows /\ Len(Tail(q)) = 0
      BY <1>1, <2>1
    <2>3. Tail(q) = <<>>
      <3> DEFINE rest == Tail(q)
      <3>1. rest \in Seq(UnderWay)
        BY DEF InFlight
      <3>2. Len(rest) = 0
        BY <2>2
      <3> HIDE DEF rest
      <3>3. rest = <<>>
        BY <3>1, <3>2
      <3> QED BY <3>3 DEF rest
    <2>4. e = Moves(d, Head(q).key)
      BY <2>1, <2>2 DEF Press, OnValuePage, Arrows
    <2>5. e.page = "value" /\ e.focus = 1
      <3> DEFINE v == Stepped(d.shown1, Head(q).key = "UP", 1, d.wraps)
      <3>1. e = [d EXCEPT !.shown1 = v]
        BY <2>1, <2>4 DEF Moves
      <3> HIDE DEF v
      <3> QED BY <2>1, <3>1 DEF Devices
    <2> QED BY <1>3, <2>2, <2>3, <2>5
  <1> QED BY <1>2, <1>3

\* The controller takes the Enter, which redraws no other row, and after it the arrow.
LEMMA OpeningTaken ==
  ASSUME IInv, Takes, NEW k \in {0, 1}, Opens(keys, dev, k), Painted(dev, scr, owed)
  PROVE  /\ dev.focus = 0 => Opens(keys', dev', k) /\ Painted(dev', scr, owed')
         /\ dev.focus # 0 => k = 1 /\ keys' = <<>> /\ dev'.page = "value" /\ dev'.focus = 1
  <1> DEFINE key == Head(keys).key
  <1>1. keys # <<>> /\ dev' \in Press(dev, key) /\ keys' = Tail(keys) /\ owed' = Draws(key)
    BY DEF Takes
  <1>2. dev \in Devices /\ keys \in InFlight
    BY DEF IInv, Around
  <1>3. key = "ENTER" /\ owed # "field" => owed' # "field"
    BY <1>1 DEF Draws
  <1>4. CASE dev.focus = 0
    <2>1. /\ key = "ENTER" /\ dev'.page = "value" /\ Shown(dev').row = Shown(dev).row /\ Opens(Tail(keys), dev', k)
      BY <1>1, <1>2, <1>4, OpensTaken DEF Painted
    <2> QED BY <1>1, <1>3, <1>4, <2>1 DEF Painted
  <1>5. CASE dev.focus # 0
    BY <1>1, <1>2, <1>5, OpensTaken DEF Painted
  <1> QED BY <1>4, <1>5

LEMMA PagingTaken ==
  ASSUME IInv, Takes, Paging(m, keys, dev, scr, owed, passes)
  PROVE  Paging(m, keys', dev', scr, owed', passes)
  <1>1. keys # <<>> /\ keys' = Tail(keys) /\ keys \in InFlight
    BY DEF Takes, IInv, Around
  <1>2. Unmoved(m, keys, dev, scr, owed)
    BY <1>1 DEF Paging, MovedOn
  <1>3. Timed(m, keys', owed')
    <2>1. \A i \in 1 .. Len(keys') : i + 1 \in 1 .. Len(keys) /\ keys'[i] = keys[i + 1]
      BY <1>1 DEF InFlight
    <2> QED BY <1>1, <2>1 DEF Paging, Timed
  <1>4. CASE dev.focus = 0
    <2>1. Unmoved(m, keys', dev', scr, owed')
      BY <1>2, <1>4, OpeningTaken DEF Unmoved
    <2> QED BY <1>3, <2>1 DEF Paging
  <1>5. CASE dev.focus # 0
    <2>1. ~Opens(keys, dev, 0)
      BY <1>2, <1>5, OpeningTaken DEF Unmoved
    <2>2. Opens(keys, dev, 1) /\ ~AtRest(m) /\ ~m.eng.lost /\ Painted(dev, scr, owed) /\ m.wphase = 0
      BY <1>2, <2>1 DEF Unmoved
    <2>3. keys' = <<>> /\ dev'.page = "value" /\ dev'.focus = 1
      BY <1>5, <2>2, OpeningTaken
    <2>4. MovedOn(m, keys', dev', scr, owed', passes)
      BY <2>2, <2>3 DEF MovedOn
    <2> QED BY <1>3, <2>4 DEF Paging
  <1> QED BY <1>4, <1>5

LEMMA TakesInSweep ==
  ASSUME IInv, Takes, InSweep(m, keys, dev, scr, owed, passes)
  PROVE  InSweep(m, keys', dev', scr, owed', passes)
  <1> SUFFICES ASSUME m.st = "SWEEP" PROVE InSweep(m, keys', dev', scr, owed', passes)
    BY DEF InSweep
  <1>1. keys # <<>>
    BY DEF Takes
  <1>2. m.swphase = 0 => Opening(m, keys', dev', scr, owed')
    BY <1>1, OpeningTaken DEF InSweep, Opening
  <1>3. m.swphase = 1 => Capturing(m, keys', dev', scr, owed')
    BY OpeningTaken DEF InSweep, Capturing
  <1>4. m.swphase = 2 => Paging(m, keys', dev', scr, owed', passes)
    BY PagingTaken DEF InSweep
  <1> QED BY <1>2, <1>3, <1>4 DEF InSweep

LEMMA TakesSwept ==
  ASSUME IInv, TruthInv, SweepInv, Takes
  PROVE  SweepInv'
  <1>1. did' = Nothing /\ UNCHANGED <<m, req, route, scr, passes, lost>>
    BY DEF Takes
  <1>2. req.sweep => NoWork(m')
    BY <1>1 DEF SweepInv
  <1>3. req.sweep /\ ~lost' => InSweep(m', keys', dev', scr', owed', passes')
    BY <1>1, TakesInSweep DEF SweepInv, SweepFits
  <1> QED BY <1>1, <1>2, <1>3, SweepCarried

\* A press is dropped that is not an Enter: an arrow, and the selector did not move.
LEMMA PagingDropped ==
  ASSUME IInv, Drops, Head(keys).key # "ENTER", Paging(m, keys, dev, scr, owed, passes)
  PROVE  Paging(m', keys', dev, scr, owed, passes)
  <1> DEFINE key == Head(keys).key
  <1>1. /\ keys # <<>> /\ keys' = Tail(keys) /\ key \in Keys /\ keys \in InFlight
        /\ m'.wphase = m.wphase /\ m'.cur = m.cur
        /\ m'.eng.phase = m.eng.phase /\ m'.eng.key = m.eng.key /\ m'.eng.at = m.eng.at
        /\ m'.eng.lost = m.eng.lost \/ FateMatches(m.eng, key)
    BY DropsLeave DEF IInv, Around
  <1>2. /\ Len(keys) \in Nat /\ Len(keys) >= 1 /\ Head(keys) = keys[1] /\ Len(Tail(keys)) = Len(keys) - 1
    BY <1>1 DEF InFlight
  <1>3. ~Opens(keys, dev, 0)
    BY <1>2 DEF Opens
  <1>4. Painted(dev, scr, owed) /\ m.wphase = 0 /\ m.cur = scr.row[1] /\ Opens(keys, dev, 1)
    BY <1>1, <1>3 DEF Paging, Unmoved, MovedOn
  <1>5. dev.focus = 1 /\ Len(keys') = 0
    BY <1>1, <1>2, <1>4 DEF Opens
  <1>6. keys' = <<>>
    <2>1. keys' \in Seq(UnderWay)
      BY <1>1 DEF InFlight
    <2> QED BY <1>5, <2>1
  <1>7. Unmoved(m', keys', dev, scr, owed)
    BY <1>1, <1>4, <1>5 DEF Unmoved, Opens
  <1>8. Timed(m', keys', owed)
    BY <1>1, <1>5, <1>6 DEF Paging, Timed
  <1>9. Under(m'.eng, Arrows)
    BY <1>1 DEF Paging, Under, Arrows, NoKey
  <1> QED BY <1>7, <1>8, <1>9 DEF Paging

LEMMA DropsSwept ==
  ASSUME IInv, TruthInv, SweepInv, Drops
  PROVE  SweepInv'
  <1> DEFINE key == Head(keys).key
  <1>1. /\ keys # <<>> /\ did' = Nothing /\ UNCHANGED <<req, route, dev, scr, owed, passes>>
        /\ lost' = (lost \/ key = "ENTER") /\ m'.st = m.st /\ m'.wphase = m.wphase /\ m'.swphase = m.swphase
    BY DropsLeave
  <1>2. req.sweep => NoWork(m')
    BY <1>1 DEF SweepInv, NoWork
  <1> SUFFICES ASSUME req.sweep, ~lost' PROVE InSweep(m', keys', dev', scr', owed', passes')
    BY <1>1, <1>2, SweepCarried
  <1>3. key # "ENTER" /\ InSweep(m, keys, dev, scr, owed, passes)
    BY <1>1 DEF SweepInv, SweepFits
  <1>4. InSweep(m', keys', dev, scr, owed, passes)
    <2> SUFFICES ASSUME m.st = "SWEEP" PROVE InSweep(m', keys', dev, scr, owed, passes)
      BY <1>1 DEF InSweep
    <2>1. ~Opens(keys, dev, 0)
      <3>1. Len(keys) >= 1 /\ Head(keys) = keys[1]
        BY <1>1 DEF IInv, Around, InFlight
      <3> QED BY <1>3, <3>1 DEF Opens
    <2>2. m.swphase # 0 /\ m.swphase # 1
      BY <1>1, <1>3, <2>1 DEF InSweep, Opening, Capturing
    <2>3. m.swphase = 2 => Paging(m', keys', dev, scr, owed, passes)
      BY <1>3, PagingDropped DEF InSweep
    <2> QED BY <1>1, <2>2, <2>3 DEF InSweep
  <1> QED BY <1>1, <1>4

\* A redraw, whole or in part, leaves the row of a painted selector.
LEMMA PagingDrawn ==
  ASSUME NEW s, NEW o, owed # "nothing", Paging(m, keys, dev, scr, owed, passes),
         o \in {"nothing", owed}, Painted(dev, scr, owed) => Painted(dev, s, o) /\ s.row[1] = scr.row[1]
  PROVE  Paging(m, keys, dev, s, o, 0)
  <1>1. Timed(m, keys, o)
    BY DEF Paging, Timed
  <1>2. Unmoved(m, keys, dev, scr, owed) => Unmoved(m, keys, dev, s, o)
    BY DEF Unmoved
  <1>3. MovedOn(m, keys, dev, scr, owed, passes) => MovedOn(m, keys, dev, s, o, 0)
    <2> SUFFICES ASSUME MovedOn(m, keys, dev, scr, owed, passes) PROVE MovedOn(m, keys, dev, s, o, 0)
      OBVIOUS
    <2>1. m.wphase = 1 => ~(m.wq > 0 \/ m.wdead < Deadline)
      BY DEF MovedOn, Fixed
    <2> QED BY <2>1 DEF MovedOn
  <1> QED BY <1>1, <1>2, <1>3 DEF Paging

LEMMA DrawnSwept ==
  ASSUME NEW s, NEW o, owed # "nothing", InSweep(m, keys, dev, scr, owed, passes),
         o \in {"nothing", owed}, Painted(dev, scr, owed) => Painted(dev, s, o) /\ s.row[1] = scr.row[1]
  PROVE  InSweep(m, keys, dev, s, o, 0)
  <1> SUFFICES ASSUME m.st = "SWEEP" PROVE InSweep(m, keys, dev, s, o, 0)
    BY DEF InSweep
  <1>1. m.swphase = 0 => Opening(m, keys, dev, s, o)
    BY DEF InSweep, Opening
  <1>2. m.swphase = 1 => Capturing(m, keys, dev, s, o)
    BY DEF InSweep, Capturing
  <1>3. m.swphase = 2 => Paging(m, keys, dev, s, o, 0)
    BY PagingDrawn DEF InSweep
  <1> QED BY <1>1, <1>2, <1>3 DEF InSweep

\* Nothing on a painted row is left to be torn.
LEMMA Redrawn ==
  ASSUME Repaint \/ Tear
  PROVE  /\ owed # "nothing" /\ owed' \in {"nothing", owed} /\ passes' = 0 /\ did' = Nothing
         /\ UNCHANGED <<m, req, route, keys, dev, lost>>
         /\ Painted(dev, scr, owed) => Painted(dev, scr', owed') /\ scr'.row[1] = scr.row[1]
  <1>1. CASE Repaint
    <2>1. /\ owed # "nothing" /\ owed' = "nothing" /\ scr' = Shown(dev) /\ passes' = 0 /\ did' = Nothing
          /\ UNCHANGED <<m, req, route, keys, dev, lost>>
      BY <1>1 DEF Repaint
    <2> QED BY <2>1 DEF Painted
  <1>2. CASE Tear
    <2>1. /\ owed # "nothing" /\ owed' = owed /\ passes' = 0 /\ did' = Nothing
          /\ UNCHANGED <<m, req, route, keys, dev, lost>>
      BY <1>2 DEF Tear
    <2>2. ~Painted(dev, scr, owed)
      BY <1>2 DEF Tear, Painted
    <2> QED BY <2>1, <2>2
  <1> QED BY <1>1, <1>2

\* Nothing on a painted row is left to be torn.
LEMMA DrawsSwept ==
  ASSUME SweepInv, Repaint \/ Tear
  PROVE  SweepInv'
  <1>1. /\ owed # "nothing" /\ owed' \in {"nothing", owed} /\ passes' = 0 /\ did' = Nothing
        /\ UNCHANGED <<m, req, route, keys, dev, lost>>
        /\ Painted(dev, scr, owed) => Painted(dev, scr', owed') /\ scr'.row[1] = scr.row[1]
    BY Redrawn
  <1>2. req.sweep => NoWork(m')
    BY <1>1 DEF SweepInv
  <1>3. ASSUME req.sweep, ~lost' PROVE InSweep(m', keys', dev', scr', owed', passes')
    <2>1. InSweep(m, keys, dev, scr, owed, passes)
      BY <1>1, <1>3 DEF SweepInv, SweepFits
    <2>2. InSweep(m, keys, dev, scr', owed', 0)
      BY <1>1, <2>1, DrawnSwept
    <2> QED BY <1>1, <2>2
  <1> QED BY <1>1, <1>2, <1>3, SweepCarried

\* Half a second brings the quiet window nearer than the end of the watch.
LEMMA WatchTime ==
  ASSUME NEW wq \in 0 .. Quiet, NEW wdead \in 0 .. Deadline, Bounds,
         wq = Quiet \/ wq + wdead >= Deadline
  PROVE  LET q == Elapsed(wq, Quiet)
             w == IF wdead > 0 THEN wdead - 1 ELSE 0
         IN  q = Quiet \/ q + w >= Deadline
  <1>1. Quiet \in Nat /\ Deadline \in Nat /\ Quiet <= Deadline
    BY Constants DEF Bounds
  <1> QED BY <1>1 DEF Elapsed

\* Presses that grow older are the same presses.
LEMMA OpensAged ==
  ASSUME keys \in InFlight, NEW d, NEW k \in {0, 1}, Opens(keys, d, k)
  PROVE  Opens(Aged(keys), d, k)
  <1> DEFINE q == Aged(keys)
  <1>1. /\ \A i \in 1 .. Len(keys) : q[i].key = keys[i].key
        /\ Len(q) = Len(keys) /\ Len(keys) \in Nat
    BY AgedKeys DEF InFlight
  <1> HIDE DEF q
  <1>2. CASE d.focus = 0 /\ Len(keys) = k + 1
    <2>1. 1 \in 1 .. Len(keys) /\ (k = 1 => 2 \in 1 .. Len(keys))
      BY <1>2
    <2>2. q[1].key = keys[1].key /\ (k = 1 => q[2].key = keys[2].key)
      BY <1>1, <2>1
    <2>3. Opens(q, d, k)
      BY <1>1, <1>2, <2>2 DEF Opens
    <2> QED BY <2>3 DEF q
  <1>3. CASE d.focus = 1 /\ Len(keys) = k
    <2>1. k = 1 => 1 \in 1 .. Len(keys)
      BY <1>3
    <2>2. k = 1 => q[1].key = keys[1].key
      BY <1>1, <2>1
    <2>3. Opens(q, d, k)
      BY <1>1, <1>3, <2>2 DEF Opens
    <2> QED BY <2>3 DEF q
  <1> QED BY <1>2, <1>3 DEF Opens

LEMMA PagingTime ==
  ASSUME IInv, Bounds, Time, Paging(m, keys, dev, scr, owed, passes)
  PROVE  Paging(m', keys', dev, scr, owed, 0)
  <1> DEFINE at == IF m.eng.phase = 0 THEN 0 ELSE Elapsed(m.eng.at, AgeCap)
             wq == IF m.wphase = 1 THEN Elapsed(m.wq, Quiet) ELSE 0
             wdead == IF m.wphase > 0 /\ m.wdead > 0 THEN m.wdead - 1 ELSE 0
  <1>1. /\ keys' = Aged(keys) /\ owed = "nothing" /\ passes > 0 /\ \A i \in 1 .. Len(keys) : keys[i].age < Ttl
        /\ m'.wphase = m.wphase /\ m'.cur = m.cur /\ m'.wcand = m.wcand
        /\ m'.eng.phase = m.eng.phase /\ m'.eng.key = m.eng.key /\ m'.eng.lost = m.eng.lost
        /\ m'.eng.at = at /\ m'.wq = wq /\ m'.wdead = wdead
    BY TimeLeaves
  <1>2. keys \in InFlight /\ m \in Machines /\ m.eng \in EngineStates
    BY Members DEF IInv, Around, MachineInv
  <1> HIDE DEF at, wq, wdead
  <1>3. Len(keys') = Len(keys) /\ \A i \in 1 .. Len(keys) : keys'[i].key = keys[i].key /\ keys'[i].age = keys[i].age + 1
    BY <1>1, <1>2, AgedKeys
  <1>4. /\ m.eng.at \in 0 .. AgeCap /\ AgeCap \in Nat /\ Ttl \in Nat /\ Len(keys) \in Nat
        /\ \A i \in 1 .. Len(keys) : keys[i].age \in Nat
    <2>1. \A i \in 1 .. Len(keys) : keys[i] \in UnderWay
      BY <1>2 DEF InFlight
    <2>2. Len(keys) \in Nat
      BY <1>2 DEF InFlight
    <2>3. m.eng.at \in 0 .. AgeCap
      BY <1>2 DEF EngineStates
    <2> QED BY <2>1, <2>2, <2>3, AgeCapNat, Constants DEF UnderWay
  <1>5. keys = <<>> => keys' = <<>>
    BY <1>1 DEF Aged
  <1>6. Timed(m', keys', owed)
    <2> SUFFICES ASSUME m.wphase = 0, m.eng.phase # 0,
                        \A i \in 1 .. Len(keys) : keys[i].age >= m.eng.at
                 PROVE  /\ \A i \in 1 .. Len(keys') : keys'[i].age >= at
                        /\ at > Ttl => keys' = <<>>
      BY <1>1 DEF Paging, Timed
    <2>1. at \in Nat /\ at <= m.eng.at + 1
      BY <1>4 DEF at, Elapsed
    <2>2. \A i \in 1 .. Len(keys') : keys'[i].age >= at
      BY <1>3, <1>4, <2>1
    <2>3. at > Ttl => keys' = <<>>
      <3> SUFFICES ASSUME at > Ttl PROVE Len(keys) = 0
        BY <1>1, <1>4 DEF Aged
      <3>1. m.eng.at >= Ttl
        BY <1>4, <2>1
      <3>2. \A i \in 1 .. Len(keys) : FALSE
        BY <1>1, <1>4, <3>1
      <3> QED BY <1>4, <3>2
    <2> QED BY <2>2, <2>3
  <1>7. Under(m'.eng, Arrows)
    BY <1>1 DEF Paging, Under
  <1>8. CASE Unmoved(m, keys, dev, scr, owed)
    <2>1. \A k \in {0, 1} : Opens(keys, dev, k) => Opens(keys', dev, k)
      BY <1>1, <1>2, OpensAged
    <2>2. Unmoved(m', keys', dev, scr, owed)
      BY <1>1, <1>8, <2>1 DEF Unmoved, AtRest
    <2> QED BY <1>6, <1>7, <2>2 DEF Paging
  <1>9. CASE MovedOn(m, keys, dev, scr, owed, passes)
    <2>1. m.wphase = 1 => Fixed(m', scr, owed)
      BY <1>1, <1>9 DEF MovedOn, Fixed
    <2>2. m.wphase = 1 => wq = Quiet \/ wq + wdead >= Deadline
      <3> SUFFICES ASSUME m.wphase = 1 PROVE wq = Quiet \/ wq + wdead >= Deadline
        OBVIOUS
      <3>1. m.wq \in 0 .. Quiet /\ m.wdead \in 0 .. Deadline
        BY <1>2 DEF Machines
      <3>2. m.wq = Quiet \/ m.wq + m.wdead >= Deadline
        BY <1>9 DEF MovedOn
      <3>3. wq = Elapsed(m.wq, Quiet) /\ wdead = IF m.wdead > 0 THEN m.wdead - 1 ELSE 0
        BY DEF wq, wdead
      <3> QED BY <3>1, <3>2, <3>3, WatchTime
    <2>3. MovedOn(m', keys', dev, scr, owed, 0)
      BY <1>1, <1>5, <1>9, <2>1, <2>2 DEF MovedOn, AtRest
    <2> QED BY <1>6, <1>7, <2>3 DEF Paging
  <1> QED BY <1>8, <1>9 DEF Paging

LEMMA TimeSwept ==
  ASSUME IInv, SweepInv, Bounds, Time
  PROVE  SweepInv'
  <1>1. /\ keys' = Aged(keys) /\ did' = Nothing /\ passes' = 0 /\ UNCHANGED <<req, route, dev, scr, owed, lost>>
        /\ m'.st = m.st /\ m'.wphase = m.wphase /\ m'.swphase = m.swphase /\ m'.cur = m.cur
        /\ m'.eng.phase = m.eng.phase /\ m'.eng.key = m.eng.key /\ m'.eng.lost = m.eng.lost
    BY TimeLeaves
  <1>2. keys \in InFlight
    BY DEF IInv, Around
  <1>3. req.sweep => NoWork(m')
    BY <1>1 DEF SweepInv, NoWork
  <1> SUFFICES ASSUME req.sweep, ~lost' PROVE InSweep(m', keys', dev', scr', owed', passes')
    BY <1>1, <1>3, SweepCarried
  <1>4. InSweep(m, keys, dev, scr, owed, passes)
    BY <1>1 DEF SweepInv, SweepFits
  <1>5. Opens(keys, dev, 0) => Opens(keys', dev, 0)
    BY <1>1, <1>2, OpensAged
  <1>6. keys = <<>> => keys' = <<>>
    BY <1>1 DEF Aged
  <1>7. InSweep(m', keys', dev, scr, owed, 0)
    <2> SUFFICES ASSUME m.st = "SWEEP" PROVE InSweep(m', keys', dev, scr, owed, 0)
      BY <1>1 DEF InSweep
    <2>1. m.swphase = 0 => Opening(m', keys', dev, scr, owed)
      BY <1>1, <1>4, <1>5, <1>6 DEF InSweep, Opening, AtRest, Under, ToldLost
    <2>2. m.swphase = 1 => Capturing(m', keys', dev, scr, owed)
      BY <1>1, <1>4, <1>5 DEF InSweep, Capturing, AtRest
    <2>3. m.swphase = 2 => Paging(m', keys', dev, scr, owed, 0)
      BY <1>4, PagingTime DEF InSweep
    <2> QED BY <1>1, <2>1, <2>2, <2>3 DEF InSweep
  <1> QED BY <1>1, <1>7

\* Nothing is published before the first request.
LEMMA InitSwept ==
  ASSUME Init, OfSelector
  PROVE  SweepInv
  <1>1. m.st = "IDLE" /\ did = Nothing
    BY DEF Init, Idle
  <1>2. NoWork(m) /\ SweepFits(m, keys, passes)
    BY <1>1, OtherStates DEF NoWork
  <1>3. SaysShown(did)
    BY <1>1, NothingSaid, SaysNone
  <1> QED BY <1>2, <1>3 DEF SweepInv

\* What a sweep publishes is on the screen: the selector's value and, beside it, the number
\* that belongs to that value, for every page, number of values and choice of the waits,
\* whatever arrow is lost, late or half painted, as long as no Enter of the request was
\* dropped.  wait_change_ takes a row that changed only when it stayed put, and by then the
\* controller has drawn it.  Assumed: a press is decided before a verify window is over, a
\* watched row has a quiet window and the time for it (KEY_TTL_MS, NAV_VERIFY_MS,
\* NAV_QUIET_MS), the route lands on the value page by a single Enter, and the field swept
\* is the selector.
THEOREM SweptValueIsShown ==
  ASSUME Ttl < Verify, Quiet >= 1, Quiet <= Deadline
  PROVE  Spec /\ Lands(route) /\ SingleEnter /\ OfSelector => []SweepShowsValue
  <1>0. Bounds
    BY DEF Bounds
  <1>1. Init /\ Lands(route) /\ SingleEnter /\ OfSelector => TruthInv /\ VisitInv /\ SweepInv
    BY InitTrue, InitVisit, InitSwept
  <1>2. IInv /\ TruthInv /\ VisitInv /\ SweepInv /\ [Next]_vars => TruthInv' /\ VisitInv' /\ SweepInv'
    <2> SUFFICES ASSUME IInv, TruthInv, VisitInv, SweepInv, [Next]_vars
                 PROVE  TruthInv' /\ VisitInv' /\ SweepInv'
      OBVIOUS
    <2>1. VisitInv'
      BY VisitStep
    <2>2. TruthInv'
      BY <1>0, TruthStep DEF Bounds
    <2>3. CASE UNCHANGED vars
      <3>1. UNCHANGED <<m, req, keys, dev, scr, owed, did, passes, lost>>
        BY <2>3 DEF vars
      <3>2. SaysShown(did)' <=> SaysShown(did)
        BY <3>1 DEF SaysShown, Number
      <3>3. NoWork(m)' <=> NoWork(m)
        BY <3>1 DEF NoWork
      <3>4. SweepFits(m, keys, passes) => SweepFits(m, keys, passes)'
        BY <3>1, FitsNext DEF SweepFits
      <3>5. OfSelector' <=> OfSelector
        BY <3>1 DEF OfSelector
      <3>6. SweepInv'
        BY <3>1, <3>2, <3>3, <3>4, <3>5 DEF SweepInv
      <3> QED BY <2>1, <2>2, <3>6
    <2>4. CASE Next
      <3>1. SweepInv'
        BY <1>0, <2>4, TickSwept, BeginSwept, ResyncSwept, TakesSwept, DropsSwept, DrawsSwept, TimeSwept
           DEF Next
      <3> QED BY <2>1, <2>2, <3>1
    <2> QED BY <2>3, <2>4
  <1>3. SweepInv => SweepShowsValue
    BY DEF SweepInv, SaysShown, SweepShowsValue
  <1> QED BY <1>1, <1>2, <1>3, Invariance, PTL DEF Spec

-----------------------------------------------------------------------------
(* What is committed: the order of the presses under way *)

\* No Enter comes behind an arrow; no arrow comes behind an Enter; no arrow comes between
\* two Enters.
Enterless == {"ESC", "UP", "DOWN"}
ArrowsLast(q) == \A i, j \in 1 .. Len(q) : i < j /\ q[i].key \in Arrows => q[j].key # "ENTER"
EntersLast(q) == \A i, j \in 1 .. Len(q) : i < j /\ q[i].key = "ENTER" => q[j].key \notin Arrows
Apart(q) ==
  \A i, j, k \in 1 .. Len(q) :
    i < j /\ j < k /\ q[i].key = "ENTER" /\ q[j].key \in Arrows => q[k].key # "ENTER"

LEMMA OrderTaken ==
  ASSUME NEW q \in InFlight, q # <<>>
  PROVE  LET key == Head(q).key
             r == Tail(q)
         IN  /\ ArrowsLast(q) => ArrowsLast(r) /\ (key \in Arrows => Only(r, Enterless))
             /\ EntersLast(q) => EntersLast(r) /\ (key = "ENTER" => Only(r, {"ENTER", "ESC"}))
             /\ Apart(q) => Apart(r) /\ (key = "ENTER" => ArrowsLast(r))
  <1> DEFINE key == Head(q).key
             r == Tail(q)
  <1>1. /\ Len(q) \in Nat /\ Len(q) >= 1 /\ Len(r) = Len(q) - 1 /\ key = q[1].key
        /\ \A i \in 1 .. Len(r) : r[i] = q[i + 1]
    BY DEF InFlight
  <1>2. \A i \in 1 .. Len(r) : i + 1 \in 1 .. Len(q) /\ 1 < i + 1 /\ r[i] = q[i + 1] /\ q[i + 1].key \in Keys
    <2>1. \A i \in 1 .. Len(r) : i + 1 \in 1 .. Len(q) /\ 1 < i + 1
      BY <1>1
    <2>2. \A i \in 1 .. Len(q) : q[i].key \in Keys
      <3>1. \A i \in 1 .. Len(q) : q[i] \in UnderWay
        BY DEF InFlight
      <3> QED BY <3>1 DEF UnderWay
    <2>3. \A i \in 1 .. Len(r) : q[i + 1].key \in Keys
      BY <2>1, <2>2
    <2>4. \A i \in 1 .. Len(r) : r[i] = q[i + 1]
      BY <1>1
    <2> HIDE DEF r, key
    <2> QED BY <2>1, <2>3, <2>4
  <1>3. 1 \in 1 .. Len(q)
    BY <1>1
  <1>4. \A i, j \in 1 .. Len(r) : i < j => i + 1 < j + 1
    BY <1>1
  <1> HIDE DEF r, key
  <1>5. ArrowsLast(q) => ArrowsLast(r)
    BY <1>2, <1>4 DEF ArrowsLast
  <1>6. EntersLast(q) => EntersLast(r)
    BY <1>2, <1>4 DEF EntersLast
  <1>7. Apart(q) => Apart(r)
    BY <1>2, <1>4 DEF Apart
  <1>8. ArrowsLast(q) /\ key \in Arrows => Only(r, Enterless)
    BY <1>1, <1>2, <1>3 DEF ArrowsLast, Only, Enterless, Keys
  <1>9. EntersLast(q) /\ key = "ENTER" => Only(r, {"ENTER", "ESC"})
    BY <1>1, <1>2, <1>3 DEF EntersLast, Only, Arrows, Keys
  <1>10. Apart(q) /\ key = "ENTER" => ArrowsLast(r)
    BY <1>1, <1>2, <1>3, <1>4 DEF Apart, ArrowsLast
  <1> QED BY <1>5, <1>6, <1>7, <1>8, <1>9, <1>10 DEF key, r

LEMMA OrderAged ==
  ASSUME NEW q \in InFlight
  PROVE  /\ ArrowsLast(q) => ArrowsLast(Aged(q))
         /\ EntersLast(q) => EntersLast(Aged(q))
         /\ Apart(q) => Apart(Aged(q))
  <1> DEFINE r == Aged(q)
  <1>1. Len(r) = Len(q) /\ \A i \in 1 .. Len(q) : r[i].key = q[i].key
    BY AgedKeys
  <1> HIDE DEF r
  <1>2. /\ ArrowsLast(q) => ArrowsLast(r)
        /\ EntersLast(q) => EntersLast(r)
        /\ Apart(q) => Apart(r)
    BY <1>1 DEF ArrowsLast, EntersLast, Apart
  <1> QED BY <1>2 DEF r

\* A press joins them: an Enter behind no arrow, or no Enter.
LEMMA OrderAdded ==
  ASSUME keys \in InFlight, NEW press \in Keys \cup {NoKey}, NEW q, Queued(q, press)
  PROVE  /\ press # "ENTER" /\ ArrowsLast(keys) => ArrowsLast(q)
         /\ press # "ENTER" /\ Apart(keys) => Apart(q)
         /\ press = "ENTER" /\ EntersLast(keys) => EntersLast(q) /\ Apart(q)
         /\ press = "ENTER" /\ Only(keys, {"ENTER", "ESC"}) => ArrowsLast(q)
  <1>1. press \in Pressed
    BY DEF Pressed
  <1>2. CASE press = NoKey
    <2>1. q = keys /\ press # "ENTER"
      BY <1>1, <1>2, QueuedAt, Words DEF NoKey
    <2> QED BY <2>1
  <1>3. CASE press # NoKey
    <2>1. /\ Len(q) = Len(keys) + 1 /\ Len(keys) \in Nat /\ q[Len(q)].key = press
          /\ \A i \in 1 .. Len(keys) : q[i] = keys[i]
      BY <1>1, <1>3, QueuedAt
    <2>2. \A i \in 1 .. Len(q) : i \in 1 .. Len(keys) \/ (i = Len(q) /\ q[i].key = press)
      BY <2>1
    <2>3. \A i, j \in 1 .. Len(q) : i < j => i \in 1 .. Len(keys) /\ i # Len(q)
      BY <2>1
    <2>4. press # "ENTER" /\ ArrowsLast(keys) => ArrowsLast(q)
      BY <2>1, <2>2, <2>3 DEF ArrowsLast
    <2>5. press # "ENTER" /\ Apart(keys) => Apart(q)
      BY <2>1, <2>2, <2>3 DEF Apart
    <2>6. press = "ENTER" /\ EntersLast(keys) => EntersLast(q)
      BY <2>1, <2>2, <2>3 DEF EntersLast, Arrows
    <2>7. press = "ENTER" /\ EntersLast(keys) => Apart(q)
      BY <2>1, <2>2, <2>3 DEF EntersLast, Apart
    <2>8. press = "ENTER" /\ Only(keys, {"ENTER", "ESC"}) => ArrowsLast(q)
      BY <2>1, <2>2, <2>3 DEF ArrowsLast, Only, Arrows
    <2> QED BY <2>4, <2>5, <2>6, <2>7, <2>8
  <1> QED BY <1>2, <1>3

-----------------------------------------------------------------------------
(* What is committed: what the presses do to the selector *)

\* What a press does on the value page, by the field that is open.
LEMMA PressEffect ==
  ASSUME NEW d \in Devices, d.page = "value", NEW key \in Keys, NEW e \in Press(d, key)
  PROVE  /\ key = "ENTER" /\ d.focus = 0 => SameValues(d, e) /\ e.focus = 1 /\ e.shown1 = d.shown1
         /\ key = "ENTER" /\ d.focus = 1 => e.sel = d.shown1 /\ e.prog = d.prog /\ Clean(e)
         /\ key = "ENTER" /\ d.focus = 2 /\ Clean(d) => SameValues(d, e) /\ e.focus = 0 /\ e.shown1 = e.sel
         /\ key \in Arrows /\ d.focus # 0 => SameValues(d, e) /\ e.focus = d.focus
         /\ key # "ENTER" /\ (d.focus = 0 \/ key = "ESC") => SameValues(d, e) /\ e.focus = 0 /\ e.shown1 = e.sel
  <1>1. /\ d.focus \in 0 .. 2 /\ d.sel \in Values /\ d.prog \in [Values -> Values] /\ d.linked \in BOOLEAN
        /\ 0 \in Values
    BY DeviceMembers, Constants
  <1>2. ASSUME key = "ENTER", d.focus = 0
        PROVE  SameValues(d, e) /\ e.focus = 1 /\ e.shown1 = d.shown1
    <2>1. e = [d EXCEPT !.focus = 1]
      BY <1>2 DEF Press, Enters
    <2> QED BY <2>1 DEF Devices, SameValues
  <1>3. ASSUME key = "ENTER", d.focus = 1
        PROVE  e.sel = d.shown1 /\ e.prog = d.prog /\ Clean(e)
    <2>1. e = [d EXCEPT !.sel = d.shown1, !.focus = 2, !.shown2 = Number(d, d.shown1)]
      BY <1>3 DEF Press, Enters
    <2>2. /\ e.focus = 2 /\ e.sel = d.shown1 /\ e.shown1 = d.shown1
          /\ e.shown2 = Number(d, d.shown1) /\ e.prog = d.prog /\ e.linked = d.linked
      BY <2>1 DEF Devices
    <2> QED BY <2>2 DEF Clean, Number
  <1>4. ASSUME key = "ENTER", d.focus = 2, Clean(d)
        PROVE  SameValues(d, e) /\ e.focus = 0 /\ e.shown1 = e.sel
    <2> DEFINE x == IF d.linked THEN d.sel ELSE 0
               prog == [d.prog EXCEPT ![x] = d.shown2]
               k == [d EXCEPT !.prog = prog]
    <2>1. e = Closed(k)
      BY <1>4 DEF Press, Enters
    <2>2. x \in Values /\ d.shown2 = d.prog[x]
      BY <1>1, <1>4 DEF Clean, Number
    <2>3. prog = d.prog
      BY <1>1, <2>2
    <2> HIDE DEF x, prog
    <2>4. k \in Devices /\ k.prog = d.prog /\ k.sel = d.sel /\ k.linked = d.linked
      <3>1. k \in Devices
        BY <1>1, <2>3, DeviceUpdates
      <3> QED BY <2>3, <3>1 DEF Devices
    <2> HIDE DEF k
    <2>5. SameValues(k, e) /\ e.shown1 = e.sel /\ e.focus = 0
      BY <2>1, <2>4, ClosedIs
    <2> QED BY <2>4, <2>5 DEF SameValues
  <1>5. ASSUME key \in Arrows, d.focus # 0
        PROVE  SameValues(d, e) /\ e.focus = d.focus
    <2>1. e = Moves(d, key)
      BY <1>1, <1>5 DEF Press, OnValuePage, Arrows
    <2> DEFINE s1 == Stepped(d.shown1, key = "UP", 1, d.wraps)
               s2 == Stepped(d.shown2, key = "UP", d.grid, FALSE)
    <2>2. e = [d EXCEPT !.shown1 = s1] \/ e = [d EXCEPT !.shown2 = s2]
      BY <2>1 DEF Moves
    <2> HIDE DEF s1, s2
    <2> QED BY <2>2 DEF Devices, SameValues
  <1>6. ASSUME key # "ENTER", d.focus = 0 \/ key = "ESC"
        PROVE  SameValues(d, e) /\ e.focus = 0 /\ e.shown1 = e.sel
    <2>1. e = Closed(d) \/ \E pages : e \in At(d, pages)
      BY <1>1, <1>6 DEF Press, OnValuePage
    <2> QED BY <2>1, ClosedIs, AtIs
  <1> QED BY <1>2, <1>3, <1>4, <1>5, <1>6

\* An Enter is harmless: the rows show what is kept, or the open selector shows the target.
Ready(d) == Clean(d) \/ (d.focus = 1 /\ Asked(1, d.shown1))

\* No Enter under way commits anything but the target; the machine may press an Enter.
Safe(q, d) ==
  /\ d.focus = 0 => d.shown1 = d.sel
  /\ Apart(q)
  /\ d.focus # 0 => ArrowsLast(q) /\ (Only(q, Enterless) \/ Ready(d))
Enterable(q, d) == EntersLast(q) /\ (d.focus # 0 => Only(q, {"ENTER", "ESC"}) /\ Ready(d))

\* A press is taken: the selector becomes the target if it changes, the numbers do not change.
LEMMA SafeTaken ==
  ASSUME NEW d \in Devices, Shut(d), NEW q \in InFlight, q # <<>>, NEW e \in Press(d, Head(q).key), Safe(q, d)
  PROVE  /\ Safe(Tail(q), e) /\ e.prog = d.prog
         /\ e.sel # d.sel => Asked(1, e.sel)
         /\ Enterable(q, d) => Enterable(Tail(q), e)
         /\ d.focus = 0 /\ Only(q, Arrows) => e.focus = 0
  <1> DEFINE key == Head(q).key
             r == Tail(q)
  <1>1. key \in Keys /\ d.focus \in 0 .. 2
    <2>1. Head(q) \in UnderWay
      BY DEF InFlight
    <2> QED BY <2>1, DeviceMembers DEF UnderWay
  <1>2. /\ ArrowsLast(q) => ArrowsLast(r) /\ (key \in Arrows => Only(r, Enterless))
        /\ EntersLast(q) => EntersLast(r) /\ (key = "ENTER" => Only(r, {"ENTER", "ESC"}))
        /\ Apart(q) => Apart(r) /\ (key = "ENTER" => ArrowsLast(r))
    BY OrderTaken
  <1>3. \A S : Only(q, S) => Only(r, S) /\ key \in S
    BY Taken
  <1>4. e \in Press(d, key)
    OBVIOUS
  <1> SUFFICES /\ Safe(r, e) /\ e.prog = d.prog
               /\ e.sel # d.sel => Asked(1, e.sel)
               /\ Enterable(q, d) => Enterable(r, e)
               /\ d.focus = 0 /\ Only(q, Arrows) => e.focus = 0
    OBVIOUS
  <1> HIDE DEF key, r
  <1>5. ASSUME SameValues(d, e), e.focus = 0, e.shown1 = e.sel
        PROVE  /\ Safe(r, e) /\ e.prog = d.prog /\ e.sel = d.sel
               /\ Enterable(q, d) => Enterable(r, e)
    BY <1>2, <1>5 DEF Safe, Enterable, SameValues
  <1>6. CASE d.page # "value"
    BY <1>1, <1>4, <1>5, <1>6, PressAway
  <1>7. CASE d.page = "value" /\ key = "ENTER"
    <2>1. key \notin Arrows /\ key \notin Enterless
      BY <1>7 DEF Arrows, Enterless
    <2>2. CASE d.focus = 0
      <3>1. SameValues(d, e) /\ e.focus = 1 /\ e.shown1 = d.shown1
        BY <1>1, <1>4, <1>7, <2>2, PressEffect
      <3>2. Ready(e)
        BY <2>2, <3>1 DEF Safe, SameValues, Ready, Clean
      <3> QED BY <1>2, <1>3, <1>7, <2>1, <2>2, <3>1, <3>2 DEF Safe, Enterable, SameValues
    <2>3. CASE d.focus = 1
      <3>1. e.sel = d.shown1 /\ e.prog = d.prog /\ Clean(e)
        BY <1>1, <1>4, <1>7, <2>3, PressEffect
      <3>2. Ready(d)
        BY <1>3, <2>1, <2>3 DEF Safe
      <3>3. e.sel # d.sel => Asked(1, e.sel)
        BY <3>1, <3>2 DEF Ready, Clean
      <3>4. Ready(e) /\ (e.focus = 0 => e.shown1 = e.sel)
        BY <3>1 DEF Ready, Clean
      <3> QED BY <1>2, <1>3, <1>7, <2>3, <3>1, <3>3, <3>4 DEF Safe, Enterable
    <2>4. CASE d.focus = 2
      <3>1. Clean(d)
        BY <1>3, <2>1, <2>4 DEF Safe, Ready
      <3>2. SameValues(d, e) /\ e.focus = 0 /\ e.shown1 = e.sel
        BY <1>1, <1>4, <1>7, <2>4, <3>1, PressEffect
      <3> QED BY <1>5, <3>2
    <2> QED BY <1>1, <2>2, <2>3, <2>4
  <1>8. CASE d.page = "value" /\ key # "ENTER"
    <2>1. CASE d.focus = 0 \/ key = "ESC"
      <3>1. SameValues(d, e) /\ e.focus = 0 /\ e.shown1 = e.sel
        BY <1>1, <1>4, <1>8, <2>1, PressEffect
      <3> QED BY <1>5, <3>1
    <2>2. CASE d.focus # 0 /\ key # "ESC"
      <3>1. key \in Arrows
        BY <1>1, <1>8, <2>2 DEF Keys, Arrows
      <3>2. SameValues(d, e) /\ e.focus = d.focus
        BY <1>1, <1>4, <1>8, <2>2, <3>1, PressEffect
      <3>3. ~Enterable(q, d)
        BY <1>3, <1>8, <2>2 DEF Enterable
      <3> QED BY <1>2, <2>2, <3>1, <3>2, <3>3 DEF Safe, SameValues
    <2> QED BY <2>1, <2>2
  <1> QED BY <1>6, <1>7, <1>8

-----------------------------------------------------------------------------
(* What is committed: the invariant *)

\* The presses of a wait are arrows, and there is no step under way while a row is watched.
Arrowed(n) == Under(n.eng, Arrows) /\ (n.wphase # 0 => AtRest(n))

\* The Enter that opens the field was lost: the arrows page away, and no Enter is behind them.
Astray(n, q, d) == d.focus = 0 /\ Only(q, Arrows) /\ Arrowed(n)

\* The Enter that opens the selector is due, or under way, or was taken.
Focusing(n, q, d, s, o) ==
  /\ Painted(d, s, o) /\ n.wphase = 0 /\ Under(n.eng, {"ENTER"})
  /\ (Opens(q, d, 0) /\ ~AtRest(n) /\ ~ToldLost(n.eng)) \/ (q = <<>> /\ d.focus = 0)

\* An Enter may be pressed.
Entering(n, q, d) == n.wphase = 0 /\ Under(n.eng, {"ENTER"}) /\ Enterable(q, d)

CommitFits(n, q, d, s, o, t) ==
  /\ n.st \in {"ANCHOR", "ROUTE", "READ"} => n.wphase = 0
  /\ n.st = "FOCUS" => Focusing(n, q, d, s, o)
  /\ n.st = "EDIT" => Paging(n, q, d, s, o, t) \/ Astray(n, q, d)
  /\ n.st = "COMMIT" => Entering(n, q, d)
  /\ n.st = "SWEEP" => /\ n.swphase = 0 => Entering(n, q, d)
                       /\ n.swphase = 1 => AtRest(n) /\ n.wphase = 0
                       /\ n.swphase = 2 => Arrowed(n)

\* The request is about the selector alone.
OfOne == Len(req.ops) = 1 /\ req.ops[1].field = 1
CommitInv == OfOne /\ Safe(keys, dev) /\ CommitFits(m, keys, dev, scr, owed, passes)

\* What is asked of a pass: an Enter meets the presses it may meet, and what is under way fits.
CommitAfter(p) == \A q, t : Queued(q, p.press) /\ t > 0 => CommitFits(p.m, q, dev, scr, owed, t)
CommitOn(p) == (p.press = "ENTER" => Enterable(keys, dev)) /\ CommitAfter(p)

LEMMA NoCommit ==
  ASSUME NEW p, p.m.st \in {"ABORT_ESC", "TEARDOWN", "IDLE"} \/ (p.m.st \in {"ANCHOR", "ROUTE", "READ"} /\ p.m.wphase = 0)
  PROVE  CommitAfter(p)
  BY DEF CommitAfter, CommitFits

\* A pass that presses nothing.
LEMMA NoPress ==
  ASSUME NEW p, p.press = NoKey, \A t : t > 0 => CommitFits(p.m, keys, dev, scr, owed, t)
  PROVE  CommitOn(p)
  BY Words DEF CommitOn, CommitAfter, Queued, NoKey

-----------------------------------------------------------------------------
(* What is committed: the passes of the work on a field *)

\* A step that presses Enter.
LEMMA EnteredStep ==
  ASSUME World, NEW n \in Machines, Under(n.eng, {"ENTER"}), NEW noise \in BOOLEAN
  PROVE  LET o == Entered(n, noise)
         IN  /\ o.r \in Results /\ o.n \in EngineStates /\ Under(o.n, {"ENTER"}) /\ o.press \in {"ENTER", NoKey}
             /\ o.r # "RUN" => o.n.phase = 0 /\ o.press = NoKey
             /\ StepGoes(n.eng, "ENTER", Look(Reads(n), noise), Verify, o)
  <1> DEFINE reads == Reads(n)
             look == Look(reads, noise)
             o == step(n.eng, "ENTER", look, Verify, TRUE)
  <1>1. reads \in BOOLEAN
    BY DEF Reads
  <1>2. look \in Looks
    <2> HIDE DEF reads
    <2> QED BY <1>1, LookTyped
  <1>3. n.eng \in EngineStates
    BY Members
  <1>4. {"ENTER"} \in SUBSET Pressed /\ "ENTER" \in {"ENTER"} /\ "ENTER" \in Pressed /\ TRUE \in BOOLEAN /\ Verify \in Nat
    BY Constants, Words
  <1>5. Entered(n, noise) = o
    BY DEF Entered
  <1>6. Entered(n, noise) \in Outcomes
    BY EnteredOut
  <1> HIDE DEF look
  <1>7. Within({"ENTER"}, o)
    BY <1>2, <1>3, <1>4, StepWithin
  <1>8. StepGoes(n.eng, "ENTER", look, Verify, o)
    BY <1>2, <1>3, <1>4, StepCases
  <1> HIDE DEF o
  <1>9. o.r \in Results /\ o.n \in EngineStates
    BY <1>5, <1>6, OutcomeFields
  <1>10. Under(o.n, {"ENTER"}) /\ o.press \in {"ENTER", NoKey} /\ (o.r # "RUN" => o.n.phase = 0 /\ o.press = NoKey)
    BY <1>7 DEF Within
  <1> QED BY <1>5, <1>8, <1>9, <1>10 DEF look

LEMMA EnterQueued ==
  ASSUME keys \in InFlight, Enterable(keys, dev), NEW press \in {"ENTER", NoKey}, NEW q, Queued(q, press)
  PROVE  Enterable(q, dev)
  <1>1. press \in Keys \cup {NoKey}
    BY DEF Keys
  <1>2. press = NoKey => q = keys
    BY DEF Queued
  <1>3. press = "ENTER" => EntersLast(q)
    BY <1>1, OrderAdded DEF Enterable
  <1>4. press = "ENTER" /\ Only(keys, {"ENTER", "ESC"}) => Only(q, {"ENTER", "ESC"})
    BY <1>1, QueuedKeys
  <1> QED BY <1>2, <1>3, <1>4 DEF Enterable

LEMMA WaitArrowed ==
  ASSUME World, NEW n \in Machines, Arrowed(n), NEW key \in Arrows, NEW noise \in BOOLEAN
  PROVE  LET o == wait_change(n, key, noise)
         IN  /\ o.r \in Results /\ o.n \in Machines /\ o.n.st = n.st /\ o.n.swphase = n.swphase
             /\ Arrowed(o.n) /\ o.press \in Arrows \cup {NoKey}
             /\ o.r # "RUN" => AtRest(o.n) /\ o.n.wphase = 0
  <1> DEFINE differs == Reads(n) /\ Row(n) # n.cur
             look == Look(differs, noise)
             o == step(n.eng, key, look, Verify, FALSE)
             k == [n EXCEPT !.eng = o.n]
             watch == [Glimpsed(n) EXCEPT !.eng = o.n, !.wdead = Deadline]
             c == Watched(n)
             over == [c EXCEPT !.wphase = 0]
             still == [c EXCEPT !.wphase = 2]
             gone == [n EXCEPT !.wphase = 0]
             out == wait_change(n, key, noise)
             goal(x) == /\ Arrowed(x.n) /\ x.press \in Arrows \cup {NoKey}
                        /\ x.r # "RUN" => AtRest(x.n) /\ x.n.wphase = 0
  <1>1. key \in Pressed /\ Under(n.eng, Arrows)
    BY Words DEF Arrows, Arrowed
  <1>2. out.r \in Results /\ out.n \in Machines /\ out.n.st = n.st /\ out.n.swphase = n.swphase
    <2>1. Waiting(n, out)
      BY <1>1, WaitOut
    <2>2. out.n.swphase = n.swphase
      BY <1>1, WaitSame
    <2> HIDE DEF out
    <2> QED BY <2>1, <2>2 DEF Waiting, Beside
  <1>3. o.r \in Results /\ o.n \in EngineStates /\ Within(Arrows, o)
    <2>1. o \in Outcomes
      BY <1>1, DiffersStep
    <2>2. differs \in BOOLEAN
      BY DEF Reads
    <2>3. look \in Looks
      <3> HIDE DEF differs
      <3> QED BY <2>2, LookTyped
    <2> HIDE DEF look
    <2>4. Arrows \in SUBSET Pressed /\ FALSE \in BOOLEAN /\ Verify \in Nat /\ n.eng \in EngineStates
      BY Constants, Members DEF Arrows, Pressed, Keys
    <2>5. Within(Arrows, o)
      BY <1>1, <2>3, <2>4, StepWithin
    <2> QED BY <2>1, <2>5, OutcomeFields
  <1>4. Glimpsed(n) \in Machines /\ c \in Machines
    BY GlimpsedBeside, WatchedCandid DEF Beside
  <1>5. Glimpsed(n).eng = n.eng /\ c.eng = n.eng
    <2>1. Glimpsed(n).eng = n.eng
      BY DEF Glimpsed, Machines
    <2> QED BY <2>1 DEF Watched
  <1> SUFFICES goal(out)
    BY <1>2
  <1> HIDE DEF o, c
  <1>6. /\ k.eng = o.n /\ k.wphase = n.wphase /\ watch.eng = o.n
        /\ over.eng = n.eng /\ over.wphase = 0 /\ still.eng = n.eng /\ gone.eng = n.eng /\ gone.wphase = 0
    BY <1>4, <1>5 DEF Machines
  <1>7. \A x : /\ Run(x).r = "RUN" /\ Run(x).n = x /\ Run(x).press = NoKey
               /\ Ok(x).n = x /\ Ok(x).press = NoKey /\ Fail(x).n = x /\ Fail(x).press = NoKey
    BY DEF Run, Ok, Fail, Out
  <1>8. ASSUME NEW x, x.eng = n.eng, AtRest(n)
        PROVE  goal(Run(x)) /\ (x.wphase = 0 => goal(Ok(x)) /\ goal(Fail(x)))
    <2>1. AtRest(x) /\ Arrowed(x)
      BY <1>8 DEF AtRest, Arrowed, Under
    <2> QED BY <1>7, <2>1
  <1>9. CASE n.wphase = 0
    <2>1. out = IF o.r # "OK" THEN [r |-> o.r, n |-> k, press |-> o.press] ELSE Run(watch)
      BY <1>9, WaitFirst DEF o
    <2> HIDE DEF out, k, watch
    <2>2. CASE o.r # "OK"
      <3>1. out.r = o.r /\ out.n = k /\ out.press = o.press
        BY <2>1, <2>2
      <3>2. Arrowed(k) /\ k.wphase = 0
        BY <1>3, <1>6, <1>9 DEF Arrowed, Within
      <3>3. o.r # "RUN" => AtRest(k)
        BY <1>3, <1>6 DEF Within, AtRest
      <3> QED BY <1>3, <3>1, <3>2, <3>3 DEF Within
    <2>3. CASE o.r = "OK"
      <3>1. out.r = "RUN" /\ out.n = watch /\ out.press = NoKey
        BY <1>7, <2>1, <2>3
      <3>2. Arrowed(watch)
        BY <1>3, <1>6, <2>3 DEF Arrowed, AtRest, Under, Within
      <3> QED BY <3>1, <3>2
    <2> QED BY <2>2, <2>3
  <1>10. CASE n.wphase # 0
    <2>1. AtRest(n)
      BY <1>10 DEF Arrowed
    <2>2. c.wq \in Nat /\ Quiet \in Nat /\ (n.wphase = 1 \/ n.wphase = 2)
      <3>1. c.wq \in 0 .. Quiet /\ n.wphase \in 0 .. 2
        BY <1>4, Members
      <3> QED BY <1>10, <3>1, Constants
    <2>3. /\ n.wphase = 1 => out = IF c.wq < Quiet THEN IF c.wdead = 0 THEN Fail(over) ELSE Run(c)
                                   ELSE IF c.wcand = n.cur THEN Run(still) ELSE Ok(over)
          /\ n.wphase = 2 => out = IF differs THEN Run(Glimpsed(n)) ELSE IF n.wdead = 0 THEN Fail(gone) ELSE Run(n)
      <3> HIDE DEF out
      <3> QED BY <2>2, WaitNext DEF c, out
    <2> HIDE DEF out, over, still, gone, differs
    <2>4. /\ goal(Run(c)) /\ goal(Run(still)) /\ goal(Run(Glimpsed(n))) /\ goal(Run(n))
          /\ goal(Fail(over)) /\ goal(Ok(over)) /\ goal(Fail(gone))
      BY <1>5, <1>6, <1>8, <2>1
    <2>5. \/ out = Run(c) \/ out = Run(still) \/ out = Run(Glimpsed(n)) \/ out = Run(n)
          \/ out = Fail(over) \/ out = Ok(over) \/ out = Fail(gone)
      BY <2>2, <2>3
    <2> HIDE DEF goal
    <2> QED BY <2>4, <2>5
  <1> QED BY <1>9, <1>10

\* What an Enter that is waited for leaves: the step under way, or none.
LEMMA EnterStays ==
  ASSUME World, keys \in InFlight, NEW n \in Machines, Entering(n, keys, dev), NEW noise \in BOOLEAN
  PROVE  LET o == Entered(n, noise)
             k == [n EXCEPT !.eng = o.n]
         IN  /\ o.press = "ENTER" => Enterable(keys, dev)
             /\ k.st = n.st /\ k.swphase = n.swphase
             /\ \A q : Queued(q, o.press) => Entering(k, q, dev)
  <1> DEFINE o == Entered(n, noise)
             k == [n EXCEPT !.eng = o.n]
  <1>1. n.wphase = 0 /\ Under(n.eng, {"ENTER"}) /\ Enterable(keys, dev)
    BY DEF Entering
  <1>2. o.n \in EngineStates /\ Under(o.n, {"ENTER"}) /\ o.press \in {"ENTER", NoKey}
    BY <1>1, EnteredStep
  <1> HIDE DEF o
  <1>3. k.st = n.st /\ k.swphase = n.swphase /\ k.wphase = 0 /\ k.eng = o.n
    BY <1>1 DEF Machines
  <1> HIDE DEF k
  <1>4. \A q : Queued(q, o.press) => Entering(k, q, dev)
    <2>1. ASSUME NEW q, Queued(q, o.press) PROVE Enterable(q, dev)
      <3> DEFINE press == o.press
      <3>1. press \in {"ENTER", NoKey} /\ Queued(q, press)
        BY <1>2, <2>1
      <3> HIDE DEF press
      <3> QED BY <1>1, <3>1, EnterQueued
    <2> QED BY <1>2, <1>3, <2>1 DEF Entering
  <1> QED BY <1>1, <1>3, <1>4 DEF o, k

LEMMA CommitCommits ==
  ASSUME SelectorWorld, NEW n, MachineInv(n), n.st = "COMMIT", Entering(n, keys, dev), NEW noise \in BOOLEAN
  PROVE  CommitOn(Commit(n, noise))
  <1> DEFINE o == Entered(n, noise)
             k == [n EXCEPT !.eng = o.n]
             next == [n EXCEPT !.eng = o.n, !.cur = Row(n)]
             on == [next EXCEPT !.field = next.field + 1]
             home == [on EXCEPT !.confirm = TRUE, !.op = 1, !.field = 0, !.st = "ANCHOR"]
             missed == ~Shows(n, Row(n))
             out == Commit(n, noise)
  <1>1. n \in Machines /\ World /\ keys \in InFlight /\ n.wphase = 0 /\ n.field = Op(n).field
    BY DEF MachineInv, SelectorWorld, Entering
  <1>2. o.r \in Results /\ o.n \in EngineStates /\ (o.r # "RUN" => o.press = NoKey)
    BY <1>1, EnteredStep DEF Entering
  <1>3. /\ o.press = "ENTER" => Enterable(keys, dev)
        /\ k.st = "COMMIT" /\ \A q : Queued(q, o.press) => Entering(k, q, dev)
    BY <1>1, EnterStays
  <1>4. out = CASE o.r = "RUN"  -> Res(k, o.press, Nothing)
                [] o.r = "FAIL" -> Goes(fail(n))
                [] o.r = "OK"   -> Goes(IF missed THEN fail(next) ELSE Landed(on))
    BY DEF Commit, Stays
  <1> SUFFICES CommitOn(out)
    OBVIOUS
  <1> HIDE DEF o, out, missed
  <1>5. Beside(n, next) /\ next \in Machines /\ next.wphase = 0
    <2>1. Beside(n, next)
      BY <1>1, <1>2, ReadBack
    <2>2. next.wphase = n.wphase
      BY <1>1 DEF Machines
    <2> QED BY <1>1, <2>1, <2>2 DEF Beside
  <1> HIDE DEF next
  <1>6. on \in Machines /\ on.wphase = 0
    <2>1. next.field = n.field /\ Op(next) = Op(n)
      BY <1>5 DEF Beside, Op
    <2>2. Op(n).field \in Fields
      BY <1>1, Rows
    <2>3. next.field <= Op(next).field
      BY <1>1, <2>1, <2>2 DEF Fields
    <2>4. on \in Machines
      BY <1>1, <1>5, <2>3, NextField
    <2> QED BY <1>5, <2>4 DEF Machines
  <1> HIDE DEF on
  <1>7. Landed(on) = home
    <2>1. on.op \in 1 .. Len(req.ops) /\ Len(req.ops) = 1
      BY <1>6, Members DEF SelectorWorld
    <2>2. on.op = 1 /\ ~(on.op < Len(req.ops)) /\ on.op = Len(req.ops)
      BY <2>1
    <2> QED BY <2>2 DEF Landed
  <1>8. home.st = "ANCHOR" /\ home.wphase = 0
    BY <1>6 DEF Machines
  <1>9. fail(n).st = "TEARDOWN" /\ fail(next).st = "TEARDOWN"
    BY <1>1, <1>5, ResetsWait DEF World, fail
  <1> HIDE DEF home, k
  <1>10. CASE o.r = "RUN"
    <2>1. out.m = k /\ out.press = o.press
      BY <1>4, <1>10 DEF Res
    <2> QED BY <1>3, <2>1 DEF CommitOn, CommitAfter, CommitFits
  <1>11. CASE o.r # "RUN"
    <2>1. out = Goes(fail(n)) \/ out = Goes(fail(next)) \/ out = Goes(home)
      BY <1>2, <1>4, <1>7, <1>11 DEF Results
    <2>2. ASSUME NEW x, out = Goes(x) PROVE out.m = x /\ out.press = NoKey
      BY <2>2 DEF Goes, Res
    <2>3. out.press = NoKey /\ (out.m = fail(n) \/ out.m = fail(next) \/ out.m = home)
      BY <2>1, <2>2
    <2>4. out.m.st = "TEARDOWN" \/ (out.m.st = "ANCHOR" /\ out.m.wphase = 0)
      BY <1>8, <1>9, <2>3
    <2> QED BY <2>3, <2>4, NoCommit, Words DEF CommitOn, NoKey
  <1> QED BY <1>10, <1>11

LEMMA SweepFocusCommits ==
  ASSUME World, keys \in InFlight, NEW n, MachineInv(n), n.st = "SWEEP", n.swphase = 0, Entering(n, keys, dev),
         NEW noise \in BOOLEAN
  PROVE  CommitOn(sweep_focus(n, noise))
  <1> DEFINE o == Entered(n, noise)
             k == [n EXCEPT !.eng = o.n]
             next == [n EXCEPT !.eng = o.n, !.cur = Row(n)]
             on == [next EXCEPT !.seen = {}, !.down = FALSE, !.press = 0, !.swphase = 1]
             out == sweep_focus(n, noise)
  <1>1. n \in Machines /\ n.wphase = 0
    BY DEF MachineInv, Entering
  <1>2. o.r \in Results /\ o.n \in EngineStates /\ (o.r # "RUN" => o.n.phase = 0 /\ o.press = NoKey)
    BY <1>1, EnteredStep DEF Entering
  <1>3. /\ o.press = "ENTER" => Enterable(keys, dev)
        /\ k.st = "SWEEP" /\ k.swphase = 0 /\ \A q : Queued(q, o.press) => Entering(k, q, dev)
    BY <1>1, EnterStays
  <1>4. out = CASE o.r = "RUN"  -> Res(k, o.press, Nothing)
                [] o.r = "FAIL" -> Goes(abort(n))
                [] o.r = "OK"   -> Goes(IF Row(n) # n.old THEN abort(next) ELSE on)
    BY DEF sweep_focus, Stays
  <1> SUFFICES CommitOn(out)
    OBVIOUS
  <1> HIDE DEF o, out
  <1>5. next \in Machines
    BY <1>1, <1>2, ReadBack DEF Beside
  <1>6. on.st = "SWEEP" /\ on.swphase = 1 /\ on.wphase = 0 /\ on.eng = o.n
    <2> DEFINE row == Row(n)
    <2> HIDE DEF row
    <2> QED BY <1>1 DEF Machines, row
  <1>7. abort(n).st = "ABORT_ESC" /\ abort(next).st = "ABORT_ESC"
    BY <1>1, <1>5, ResetsWait DEF World
  <1> HIDE DEF on, next, k
  <1>8. CASE o.r = "RUN"
    <2>1. out.m = k /\ out.press = o.press
      BY <1>4, <1>8 DEF Res
    <2> QED BY <1>3, <2>1 DEF CommitOn, CommitAfter, CommitFits
  <1>9. CASE o.r # "RUN"
    <2>1. out = Goes(abort(n)) \/ out = Goes(abort(next)) \/ (out = Goes(on) /\ o.r = "OK")
      BY <1>2, <1>4, <1>9 DEF Results
    <2>2. ASSUME NEW x, out = Goes(x) PROVE out.m = x /\ out.press = NoKey
      BY <2>2 DEF Goes, Res
    <2>3. out.press = NoKey /\ (out.m = abort(n) \/ out.m = abort(next) \/ out.m = on)
      BY <2>1, <2>2
    <2>4. CASE out.m = on
      <3>1. \A t : CommitFits(on, keys, dev, scr, owed, t)
        BY <1>2, <1>6, <1>9 DEF CommitFits, AtRest
      <3> QED BY <2>3, <2>4, <3>1, NoPress
    <2>5. CASE out.m # on
      <3>1. out.m.st = "ABORT_ESC"
        BY <1>7, <2>3, <2>5
      <3> QED BY <2>3, <3>1, NoCommit, Words DEF CommitOn, NoKey
    <2> QED BY <2>4, <2>5
  <1> QED BY <1>8, <1>9

LEMMA CaptureCommits ==
  ASSUME World, NEW n, MachineInv(n), n.st = "SWEEP", n.swphase = 1, AtRest(n), n.wphase = 0
  PROVE  CommitOn(sweep_capture(n))
  <1> DEFINE new == n.cur \notin n.seen /\ Cardinality(n.seen) < req.expected
             seen == IF new THEN n.seen \cup {n.cur} ELSE n.seen
             full == Cardinality(seen) >= req.expected
             on == [n EXCEPT !.seen = seen, !.swphase = 2]
             says == IF new THEN n.cur ELSE NoRow
             calls == [Nothing EXCEPT !.sweep = says]
             out == sweep_capture(n)
  <1> SUFFICES CommitOn(out)
    OBVIOUS
  <1>1. n \in Machines
    BY DEF MachineInv
  <1>2. out = Res(IF full THEN finish(n, TRUE) ELSE on, NoKey, calls)
    BY DEF sweep_capture
  <1> HIDE DEF full, says
  <1>3. on.st = "SWEEP" /\ on.swphase = 2 /\ on.wphase = n.wphase /\ on.eng = n.eng
    <2> HIDE DEF seen
    <2> QED BY <1>1 DEF Machines
  <1> HIDE DEF on, calls, out
  <1>4. finish(n, TRUE).st = "TEARDOWN"
    BY <1>1, ResetsWait DEF World
  <1>5. (out.m = finish(n, TRUE) \/ out.m = on) /\ out.press = NoKey
    BY <1>2 DEF Res
  <1>6. \A t : CommitFits(on, keys, dev, scr, owed, t)
    BY <1>3 DEF CommitFits, Arrowed, AtRest, Under
  <1>7. CASE out.m = on
    BY <1>5, <1>6, <1>7, NoPress
  <1>8. CASE out.m = finish(n, TRUE)
    BY <1>4, <1>5, <1>8, NoCommit, Words DEF CommitOn, NoKey
  <1> QED BY <1>5, <1>7, <1>8

LEMMA MoveCommits ==
  ASSUME World, NEW n, MachineInv(n), n.st = "SWEEP", n.swphase = 2, Arrowed(n), NEW noise \in BOOLEAN
  PROVE  CommitOn(sweep_move(n, noise))
  <1> DEFINE key == IF n.down THEN "DOWN" ELSE "UP"
             o == wait_change(n, key, noise)
             k == o.n
             next == [k EXCEPT !.press = k.press + 1]
             back == [next EXCEPT !.down = TRUE]
             on == [next EXCEPT !.cur = k.wcand, !.swphase = 1]
             spent == n.press >= 2 * req.expected + 2
             out == sweep_move(n, noise)
  <1>1. n \in Machines
    BY DEF MachineInv
  <1>2. key \in Arrows
    BY DEF Arrows
  <1>3. out = CASE spent -> Goes(finish(n, TRUE))
                [] ~spent /\ o.r = "RUN"  -> Res(k, o.press, Nothing)
                [] ~spent /\ o.r = "FAIL" -> Goes(IF n.down THEN finish(next, TRUE) ELSE back)
                [] ~spent /\ o.r = "OK"   -> Goes(on)
    BY DEF sweep_move
  <1> SUFFICES CommitOn(out)
    OBVIOUS
  <1> HIDE DEF out, key, spent
  <1>4. /\ o.r \in Results /\ k \in Machines /\ k.st = "SWEEP" /\ k.swphase = 2
        /\ Arrowed(k) /\ o.press \in Arrows \cup {NoKey}
        /\ o.r # "RUN" => AtRest(k) /\ k.wphase = 0
    BY <1>1, <1>2, WaitArrowed
  <1> HIDE DEF o, k
  <1>5. next \in Machines /\ next.eng = k.eng /\ next.wphase = k.wphase /\ next.swphase = 2 /\ next.st = "SWEEP"
    <2>1. next \in Machines
      BY <1>4, Pressing
    <2> QED BY <1>4, <2>1 DEF Machines
  <1> HIDE DEF next
  <1>6. /\ back.eng = k.eng /\ back.wphase = k.wphase /\ back.swphase = 2 /\ back.st = "SWEEP"
        /\ on.eng = k.eng /\ on.wphase = k.wphase /\ on.swphase = 1 /\ on.st = "SWEEP"
    <2> DEFINE cand == k.wcand
    <2> HIDE DEF cand
    <2> QED BY <1>5 DEF Machines, cand
  <1> HIDE DEF back, on
  <1>7. finish(n, TRUE).st = "TEARDOWN" /\ finish(next, TRUE).st = "TEARDOWN"
    BY <1>1, <1>5, ResetsWait DEF World
  <1>8. "ENTER" \notin Arrows \cup {NoKey}
    BY DEF Arrows, NoKey
  <1>9. CASE ~spent /\ o.r = "RUN"
    <2>1. out.m = k /\ out.press = o.press
      BY <1>3, <1>9 DEF Res
    <2>2. out.press # "ENTER"
      BY <1>4, <1>8, <2>1
    <2> QED BY <1>4, <2>1, <2>2 DEF CommitOn, CommitAfter, CommitFits
  <1>10. CASE ~(~spent /\ o.r = "RUN")
    <2>1. \/ out = Goes(finish(n, TRUE)) \/ out = Goes(finish(next, TRUE))
          \/ (out = Goes(back) /\ o.r = "FAIL") \/ (out = Goes(on) /\ o.r = "OK")
      BY <1>3, <1>4, <1>10 DEF Results
    <2>2. ASSUME NEW x, out = Goes(x) PROVE out.m = x /\ out.press = NoKey
      BY <2>2 DEF Goes, Res
    <2>3. CASE out = Goes(finish(n, TRUE)) \/ out = Goes(finish(next, TRUE))
      <3>1. out.press = NoKey /\ out.m.st = "TEARDOWN"
        BY <1>7, <2>2, <2>3
      <3> QED BY <3>1, NoCommit, Words DEF CommitOn, NoKey
    <2>4. CASE out = Goes(back) /\ o.r = "FAIL"
      <3>1. \A t : CommitFits(back, keys, dev, scr, owed, t)
        BY <1>4, <1>6, <2>4 DEF CommitFits, Arrowed, AtRest, Under
      <3> QED BY <2>2, <2>4, <3>1, NoPress
    <2>5. CASE out = Goes(on) /\ o.r = "OK"
      <3>1. \A t : CommitFits(on, keys, dev, scr, owed, t)
        BY <1>4, <1>6, <2>5 DEF CommitFits, AtRest
      <3> QED BY <2>2, <2>5, <3>1, NoPress
    <2> QED BY <2>1, <2>3, <2>4, <2>5
  <1> QED BY <1>9, <1>10

\* The row shows the target: the Enter that commits it may be pressed.
LEMMA TargetEnterable ==
  ASSUME SelectorWorld, Painted(dev, scr, owed), scr.row[1] = req.ops[1].target,
         Opens(keys, dev, 0) \/ (keys = <<>> /\ dev.focus = 0)
  PROVE  Enterable(keys, dev)
  <1>1. Len(keys) <= 1 /\ Len(keys) \in Nat
    <2>1. keys = <<>> => Len(keys) = 0
      OBVIOUS
    <2>2. Len(keys) \in Nat
      BY DEF SelectorWorld, InFlight
    <2>3. Opens(keys, dev, 0) => Len(keys) = 0 + 1 \/ Len(keys) = 0
      BY DEF Opens
    <2>4. \A len \in Nat : len = 0 \/ len = 0 + 1 => len <= 1
      OBVIOUS
    <2>5. Len(keys) = 0 \/ Len(keys) = 0 + 1
      BY <2>1, <2>3
    <2> QED BY <2>2, <2>4, <2>5, Zenon
  <1>2. \A i, j \in 1 .. Len(keys) : ~(i < j)
    BY <1>1
  <1>3. EntersLast(keys)
    BY <1>2 DEF EntersLast
  <1>4. ASSUME dev.focus # 0
        PROVE  Only(keys, {"ENTER", "ESC"}) /\ Ready(dev)
    <2>1. dev.focus = 1 /\ Len(keys) = 0
      BY <1>4 DEF Opens
    <2>2. dev.shown1 = req.ops[1].target
      <3>1. dev \in Devices /\ dev.focus # 2
        BY <2>1 DEF SelectorWorld, World
      <3> QED BY <3>1, PaintedRow
    <2>3. 1 \in 1 .. Len(req.ops)
      BY DEF SelectorWorld
    <2>4. Asked(1, dev.shown1)
      BY <2>2, <2>3 DEF Asked, SelectorWorld
    <2> QED BY <2>1, <2>4 DEF Ready, Only
  <1> QED BY <1>3, <1>4 DEF Enterable

\* The selector is reached: commit it as it is, or edit it.
LEMMA ArriveCommits ==
  ASSUME SelectorWorld, NEW n \in Machines, n.field = 1, AtRest(n), n.wphase = 0, n.cur = scr.row[1],
         Painted(dev, scr, owed), Opens(keys, dev, 0) \/ (keys = <<>> /\ dev.focus = 0), NEW t
  PROVE  CommitFits(arrive(n), keys, dev, scr, owed, t)
  <1> DEFINE commit == [n EXCEPT !.st = "COMMIT"]
             edit == [n EXCEPT !.press = 0, !.reversed = FALSE, !.estart = n.cur, !.st = "EDIT"]
             out == arrive(n)
  <1>1. Op(n) = req.ops[1] /\ req.ops[1].field = 1
    BY OneField DEF SelectorWorld
  <1>2. \/ out = commit /\ n.cur = req.ops[1].target
        \/ out = abort(n)
        \/ out = edit
    BY <1>1 DEF arrive, Shows
  <1> SUFFICES CommitFits(out, keys, dev, scr, owed, t)
    OBVIOUS
  <1>3. commit.st = "COMMIT" /\ commit.eng = n.eng /\ commit.wphase = 0
    BY DEF Machines
  <1>4. edit.st = "EDIT" /\ edit.eng = n.eng /\ edit.wphase = 0 /\ edit.cur = n.cur
    BY DEF Machines
  <1>5. abort(n).st = "ABORT_ESC"
    BY ResetsWait DEF SelectorWorld, World
  <1> HIDE DEF out, commit, edit
  <1>6. CASE out = commit /\ n.cur = req.ops[1].target
    <2>1. Enterable(keys, dev)
      BY <1>6, TargetEnterable
    <2>2. Entering(commit, keys, dev)
      BY <1>3, <2>1 DEF Entering, AtRest, Under
    <2> QED BY <1>3, <1>6, <2>2 DEF CommitFits
  <1>7. CASE out = edit
    <2>1. AtRest(edit) /\ Under(edit.eng, Arrows)
      BY <1>4 DEF AtRest, Under
    <2>2. CASE Opens(keys, dev, 0)
      <3>1. Unmoved(edit, keys, dev, scr, owed)
        BY <1>4, <2>2 DEF Unmoved
      <3>2. Paging(edit, keys, dev, scr, owed, t)
        BY <2>1, <3>1 DEF Paging, Timed, AtRest
      <3> QED BY <1>4, <1>7, <3>2 DEF CommitFits
    <2>3. CASE keys = <<>> /\ dev.focus = 0
      <3>1. Astray(edit, keys, dev)
        BY <1>4, <2>1, <2>3 DEF Astray, Arrowed, Only
      <3> QED BY <1>4, <1>7, <3>1 DEF CommitFits
    <2> QED BY <2>2, <2>3
  <1>8. CASE out = abort(n)
    BY <1>5, <1>8 DEF CommitFits
  <1> QED BY <1>2, <1>6, <1>7, <1>8

LEMMA FocusCommits ==
  ASSUME SelectorWorld, NEW n, MachineInv(n), n.st = "FOCUS", Focusing(n, keys, dev, scr, owed), NEW noise \in BOOLEAN
  PROVE  CommitOn(Focus(n, noise))
  <1> DEFINE o == Entered(n, noise)
             k == [n EXCEPT !.eng = o.n]
             next == [n EXCEPT !.eng = o.n, !.cur = Row(n)]
             on == [next EXCEPT !.field = next.field + 1]
             lost2 == Row(n) # n.old \/ ~on_value_page(n)
             out == Focus(n, noise)
  <1>1. n \in Machines /\ World /\ keys \in InFlight /\ n.field < Op(n).field /\ Op(n) = req.ops[1] /\ Row(n) = scr.row[1]
    BY OneField, SelectorRow DEF MachineInv, SelectorWorld
  <1>2. /\ Painted(dev, scr, owed) /\ n.wphase = 0 /\ Under(n.eng, {"ENTER"})
        /\ (Opens(keys, dev, 0) /\ ~AtRest(n) /\ ~ToldLost(n.eng)) \/ (keys = <<>> /\ dev.focus = 0)
    BY DEF Focusing
  <1>3. /\ o.r \in Results /\ o.n \in EngineStates /\ Under(o.n, {"ENTER"}) /\ o.press \in {"ENTER", NoKey}
        /\ o.r # "RUN" => o.n.phase = 0 /\ o.press = NoKey
        /\ StepGoes(n.eng, "ENTER", Look(Reads(n), noise), Verify, o)
    BY <1>1, <1>2, EnteredStep
  <1>4. out = CASE o.r = "RUN"  -> Res(k, o.press, Nothing)
                [] o.r = "FAIL" -> Goes(abort(n))
                [] o.r = "OK"   -> Goes(IF lost2 THEN abort(next) ELSE arrive(on))
    BY DEF Focus, Stays
  <1> SUFFICES CommitOn(out)
    OBVIOUS
  <1> HIDE DEF o, out, lost2
  <1>5. k.st = "FOCUS" /\ k.eng = o.n /\ k.wphase = 0
    BY <1>1, <1>2 DEF Machines
  <1>6. Beside(n, next) /\ next \in Machines /\ next.wphase = 0 /\ next.eng = o.n /\ next.cur = scr.row[1]
    <2> DEFINE row == Row(n)
    <2>1. Beside(n, next)
      BY <1>1, <1>3, ReadBack
    <2>2. row = scr.row[1]
      BY <1>1
    <2> HIDE DEF row
    <2>3. next.wphase = n.wphase /\ next.eng = o.n /\ next.cur = scr.row[1]
      BY <1>1, <2>2 DEF Machines, row
    <2> QED BY <1>2, <2>1, <2>3 DEF Beside
  <1> HIDE DEF next
  <1>7. on \in Machines /\ on.wphase = 0 /\ on.eng = o.n /\ on.cur = scr.row[1] /\ on.field = 1
    <2>1. next.field = n.field /\ Op(next) = Op(n)
      BY <1>6 DEF Beside, Op
    <2>2. n.field = 0 /\ Op(n).field = 1
      <3>1. n.field \in 0 .. 3 /\ Op(n).field = 1
        BY <1>1, Members DEF SelectorWorld
      <3> QED BY <1>1, <3>1
    <2>3. next.field <= Op(next).field
      BY <2>1, <2>2
    <2>4. on \in Machines /\ on.field = next.field + 1
      BY <1>1, <1>6, <2>3, NextField
    <2>5. on.wphase = next.wphase /\ on.eng = next.eng /\ on.cur = next.cur
      BY <1>6 DEF Machines
    <2> QED BY <1>6, <2>1, <2>2, <2>4, <2>5
  <1>8. abort(n).st = "ABORT_ESC" /\ abort(next).st = "ABORT_ESC"
    BY <1>1, <1>6, ResetsWait DEF World
  <1> HIDE DEF on, k
  <1>9. CASE StepMakes("ENTER", o) /\ (n.eng.phase = 0 \/ n.eng.lost)
    <2>1. keys = <<>> /\ dev.focus = 0
      BY <1>2, <1>9 DEF AtRest, ToldLost
    <2>2. out.m = k /\ out.press = "ENTER"
      BY <1>4, <1>9 DEF Res, StepMakes
    <2>3. Enterable(keys, dev)
      BY <2>1 DEF Enterable, EntersLast
    <2>4. ASSUME NEW q, Queued(q, "ENTER") PROVE Focusing(k, q, dev, scr, owed)
      <3>1. "ENTER" \in Pressed /\ "ENTER" # NoKey /\ Len(keys) = 0
        BY <2>1, Words DEF NoKey
      <3>2. Len(q) = 1 /\ q[Len(q)].key = "ENTER"
        BY <1>1, <2>4, <3>1, QueuedAt
      <3>3. Opens(q, dev, 0)
        BY <2>1, <3>2 DEF Opens
      <3>4. ~AtRest(k) /\ ~ToldLost(k.eng) /\ Under(k.eng, {"ENTER"})
        BY <1>3, <1>5, <1>9 DEF AtRest, ToldLost, StepMakes
      <3> QED BY <1>2, <1>5, <3>3, <3>4 DEF Focusing
    <2> QED BY <1>5, <2>2, <2>3, <2>4 DEF CommitOn, CommitAfter, CommitFits
  <1>10. CASE StepWaits(n.eng, o)
    <2>1. out.m = k /\ out.press = NoKey
      BY <1>4, <1>10 DEF Res, StepWaits
    <2>2. ~AtRest(k) /\ ~ToldLost(k.eng) /\ Under(k.eng, {"ENTER"})
      BY <1>3, <1>5, <1>10 DEF AtRest, ToldLost, StepWaits
    <2>3. Focusing(k, keys, dev, scr, owed)
      BY <1>2, <1>5, <2>2 DEF Focusing
    <2>4. \A t : CommitFits(k, keys, dev, scr, owed, t)
      BY <1>5, <2>3 DEF CommitFits
    <2> QED BY <2>1, <2>4, NoPress
  <1>11. CASE StepOver(o)
    <2>1. out = Goes(abort(n)) \/ out = Goes(abort(next)) \/ (out = Goes(arrive(on)) /\ o.n.phase = 0)
      BY <1>3, <1>4, <1>11 DEF Results, StepOver
    <2>2. ASSUME NEW x, out = Goes(x) PROVE out.m = x /\ out.press = NoKey
      BY <2>2 DEF Goes, Res
    <2>3. CASE out = Goes(abort(n)) \/ out = Goes(abort(next))
      <3>1. out.press = NoKey /\ out.m.st = "ABORT_ESC"
        BY <1>8, <2>2, <2>3
      <3> QED BY <3>1, NoCommit, Words DEF CommitOn, NoKey
    <2>4. CASE out = Goes(arrive(on)) /\ o.n.phase = 0
      <3>1. AtRest(on) /\ (Opens(keys, dev, 0) \/ (keys = <<>> /\ dev.focus = 0))
        BY <1>2, <1>7, <2>4 DEF AtRest
      <3>2. \A t : CommitFits(arrive(on), keys, dev, scr, owed, t)
        BY <1>2, <1>7, <3>1, ArriveCommits
      <3> QED BY <2>2, <2>4, <3>2, NoPress
    <2> QED BY <2>1, <2>3, <2>4
  <1>12. n.eng.phase # 0 /\ n.eng.lost => n.eng.key = "ENTER"
    BY <1>2 DEF Under
  <1> QED BY <1>3, <1>9, <1>10, <1>11, <1>12 DEF StepGoes

\* wait_change_ while the selector is edited.
LEMMA PagingWait ==
  ASSUME SelectorWorld, Bounds, NEW n \in Machines, Paging(n, keys, dev, scr, owed, passes), NEW key \in Arrows,
         NEW noise \in BOOLEAN
  PROVE  PagingOut(wait_change(n, key, noise)) /\ Arrowed(n)
  <1>1. CASE Unmoved(n, keys, dev, scr, owed)
    <2>1. PagingOut(wait_change(n, key, noise))
      BY <1>1, UnmovedWait DEF Paging
    <2> QED BY <1>1, <2>1 DEF Paging, Unmoved, Arrowed
  <1>2. CASE MovedOn(n, keys, dev, scr, owed, passes)
    <2>1. n.wphase \in 0 .. 2
      BY Members
    <2>2. Arrowed(n)
      BY <1>2 DEF Paging, MovedOn, Arrowed
    <2>3. CASE n.wphase = 0
      BY <1>2, <2>2, <2>3, MovedFirst DEF Paging
    <2>4. CASE n.wphase = 1
      BY <1>2, <2>2, <2>4, MovedWatch DEF Paging
    <2>5. CASE n.wphase = 2
      BY <1>2, <2>2, <2>5, MovedStill
    <2> QED BY <2>1, <2>3, <2>4, <2>5
  <1> QED BY <1>1, <1>2 DEF Paging

LEMMA EditCommits ==
  ASSUME SelectorWorld, Bounds, NEW n, MachineInv(n), n.st = "EDIT",
         Paging(n, keys, dev, scr, owed, passes) \/ Astray(n, keys, dev), NEW noise \in BOOLEAN
  PROVE  CommitOn(Edit(n, noise))
  <1> DEFINE key == EditKey(n)
             o == wait_change(n, key, noise)
             k == o.n
             value == k.wcand
             next == [k EXCEPT !.press = k.press + 1]
             turn == [next EXCEPT !.reversed = TRUE]
             commit == [next EXCEPT !.st = "COMMIT"]
             on == [next EXCEPT !.cur = value]
             out == Edit(n, noise)
  <1>1. n \in Machines /\ World /\ keys \in InFlight /\ Op(n) = req.ops[1]
    BY OneField DEF MachineInv, SelectorWorld
  <1>2. key \in Arrows
    BY DEF EditKey, Arrows
  <1>3. out =
         CASE n.press >= MaxPress -> Goes(abort(n))
           [] n.press < MaxPress /\ o.r = "RUN" -> Res(k, o.press, Nothing)
           [] n.press < MaxPress /\ o.r = "FAIL" ->
                Goes(IF ~Op(n).num /\ ~n.reversed THEN turn ELSE abort(next))
           [] n.press < MaxPress /\ o.r = "OK" ->
                Goes(CASE ~on_value_page(n) -> abort(next)
                       [] on_value_page(n) /\ Shows(n, value) -> commit
                       [] on_value_page(n) /\ ~Shows(n, value) /\ Diverged(n, value) -> abort(next)
                       [] OTHER -> on)
    BY DEF Edit
  <1> SUFFICES CommitOn(out)
    OBVIOUS
  <1> HIDE DEF out, key
  <1>4. /\ Arrowed(n)
        /\ Paging(n, keys, dev, scr, owed, passes) => PagingOut(o)
    BY <1>1, <1>2, PagingWait DEF Astray
  <1>5. /\ o.r \in Results /\ k \in Machines /\ k.st = "EDIT"
        /\ Arrowed(k) /\ o.press \in Arrows \cup {NoKey}
        /\ o.r # "RUN" => AtRest(k) /\ k.wphase = 0
    BY <1>1, <1>2, <1>4, WaitArrowed
  <1>6. /\ Paging(n, keys, dev, scr, owed, passes) =>
             /\ o.r = "RUN" => \A q, t : Queued(q, o.press) /\ t > 0 => Paging(k, q, dev, scr, owed, t)
             /\ o.r = "FAIL" => Unmoved(k, keys, dev, scr, owed)
             /\ o.r = "OK" => value = scr.row[1] /\ Painted(dev, scr, owed) /\ Opens(keys, dev, 0)
    BY <1>4 DEF PagingOut
  <1> HIDE DEF o, k, value
  <1>7. next \in Machines /\ next.eng = k.eng /\ next.cur = k.cur /\ next.wphase = k.wphase /\ next.st = "EDIT"
    <2>1. next \in Machines
      BY <1>5, Pressing
    <2> QED BY <1>5, <2>1 DEF Machines
  <1> HIDE DEF next
  <1>8. /\ turn.eng = k.eng /\ turn.cur = k.cur /\ turn.wphase = k.wphase /\ turn.st = "EDIT"
        /\ commit.eng = k.eng /\ commit.wphase = k.wphase /\ commit.st = "COMMIT"
        /\ on.eng = k.eng /\ on.cur = value /\ on.wphase = k.wphase /\ on.st = "EDIT"
    BY <1>7 DEF Machines
  <1> HIDE DEF turn, commit, on
  <1>9. abort(n).st = "ABORT_ESC" /\ abort(next).st = "ABORT_ESC"
    BY <1>1, <1>7, ResetsWait DEF World
  <1>10. \/ out = Goes(abort(n)) \/ out = Goes(abort(next))
         \/ out = Res(k, o.press, Nothing) /\ o.r = "RUN"
         \/ out = Goes(turn) /\ o.r = "FAIL"
         \/ out = Goes(commit) /\ o.r = "OK" /\ value = req.ops[1].target
         \/ out = Goes(on) /\ o.r = "OK"
    <2>1. n.press \in Nat /\ MaxPress \in Nat
      BY <1>1, Members, Constants
    <2>2. n.press >= MaxPress \/ n.press < MaxPress
      BY <2>1
    <2>3. Shows(n, value) => value = req.ops[1].target
      BY <1>1 DEF Shows
    <2>4. CASE n.press >= MaxPress
      BY <1>3, <2>1, <2>4
    <2>5. CASE n.press < MaxPress /\ o.r = "RUN"
      BY <1>3, <2>1, <2>5
    <2>6. CASE n.press < MaxPress /\ o.r = "FAIL"
      <3>1. out = Goes(IF ~Op(n).num /\ ~n.reversed THEN turn ELSE abort(next))
        BY <1>3, <2>1, <2>6
      <3> QED BY <2>6, <3>1
    <2>7. CASE n.press < MaxPress /\ o.r = "OK"
      <3>1. out = Goes(CASE ~on_value_page(n) -> abort(next)
                         [] on_value_page(n) /\ Shows(n, value) -> commit
                         [] on_value_page(n) /\ ~Shows(n, value) /\ Diverged(n, value) -> abort(next)
                         [] OTHER -> on)
        BY <1>3, <2>1, <2>7
      <3> QED BY <2>3, <2>7, <3>1
    <2> QED BY <1>5, <2>2, <2>4, <2>5, <2>6, <2>7 DEF Results
  <1>11. ASSUME NEW x, out = Goes(x) PROVE out.m = x /\ out.press = NoKey
    BY <1>11 DEF Goes, Res
  <1>12. CASE out = Goes(abort(n)) \/ out = Goes(abort(next))
    <2>1. out.press = NoKey /\ out.m.st = "ABORT_ESC"
      BY <1>9, <1>11, <1>12
    <2> QED BY <2>1, NoCommit, Words DEF CommitOn, NoKey
  <1>13. CASE out = Res(k, o.press, Nothing) /\ o.r = "RUN"
    <2>1. out.m = k /\ out.press = o.press /\ out.press # "ENTER"
      <3>1. "ENTER" \notin Arrows \cup {NoKey}
        BY DEF Arrows, NoKey
      <3> QED BY <1>5, <1>13, <3>1 DEF Res
    <2>2. CASE Paging(n, keys, dev, scr, owed, passes)
      BY <1>5, <1>6, <1>13, <2>1, <2>2 DEF CommitOn, CommitAfter, CommitFits
    <2>3. CASE Astray(n, keys, dev)
      <3>1. ASSUME NEW q, Queued(q, o.press) PROVE Astray(k, q, dev)
        <4>1. o.press \in Keys \cup {NoKey}
          BY <1>5 DEF Arrows, Keys
        <4>2. Only(q, Arrows)
          BY <1>1, <1>5, <2>3, <3>1, <4>1, QueuedKeys DEF Astray
        <4> QED BY <1>5, <2>3, <4>2 DEF Astray
      <3> QED BY <1>5, <2>1, <3>1 DEF CommitOn, CommitAfter, CommitFits
    <2> QED BY <2>2, <2>3
  <1>14. CASE out = Goes(turn) /\ o.r = "FAIL"
    <2>1. AtRest(turn) /\ Arrowed(turn)
      BY <1>5, <1>8, <1>14 DEF AtRest, Arrowed, Under
    <2>2. ASSUME Paging(n, keys, dev, scr, owed, passes), NEW t
          PROVE  Paging(turn, keys, dev, scr, owed, t)
      <3>1. Unmoved(turn, keys, dev, scr, owed)
        BY <1>6, <1>8, <1>14, <2>1, <2>2 DEF Unmoved, AtRest
      <3> QED BY <2>1, <3>1 DEF Paging, Timed, AtRest, Under
    <2>3. Astray(n, keys, dev) => Astray(turn, keys, dev)
      BY <2>1 DEF Astray
    <2>4. \A t : CommitFits(turn, keys, dev, scr, owed, t)
      BY <1>8, <2>2, <2>3 DEF CommitFits
    <2> QED BY <1>11, <1>14, <2>4, NoPress
  <1>15. CASE out = Goes(on) /\ o.r = "OK"
    <2>1. AtRest(on) /\ Arrowed(on) /\ on.wphase = 0
      BY <1>5, <1>8, <1>15 DEF AtRest, Arrowed, Under
    <2>2. ASSUME Paging(n, keys, dev, scr, owed, passes), NEW t
          PROVE  Paging(on, keys, dev, scr, owed, t)
      <3>1. Unmoved(on, keys, dev, scr, owed)
        BY <1>6, <1>8, <1>15, <2>1, <2>2 DEF Unmoved
      <3> QED BY <2>1, <3>1 DEF Paging, Timed, AtRest, Under
    <2>3. Astray(n, keys, dev) => Astray(on, keys, dev)
      BY <2>1 DEF Astray
    <2>4. \A t : CommitFits(on, keys, dev, scr, owed, t)
      BY <1>8, <2>2, <2>3 DEF CommitFits
    <2> QED BY <1>11, <1>15, <2>4, NoPress
  <1>16. CASE out = Goes(commit) /\ o.r = "OK" /\ value = req.ops[1].target
    <2>1. AtRest(commit) /\ commit.wphase = 0
      BY <1>5, <1>8, <1>16 DEF AtRest
    <2>2. Enterable(keys, dev)
      <3>1. CASE Paging(n, keys, dev, scr, owed, passes)
        BY <1>6, <1>16, <3>1, TargetEnterable
      <3>2. CASE Astray(n, keys, dev)
        BY <3>2 DEF Astray, Enterable, EntersLast, Only, Arrows
      <3> QED BY <3>1, <3>2
    <2>3. Entering(commit, keys, dev)
      BY <2>1, <2>2 DEF Entering, AtRest, Under
    <2>4. \A t : CommitFits(commit, keys, dev, scr, owed, t)
      BY <1>8, <2>3 DEF CommitFits
    <2> QED BY <1>11, <1>16, <2>4, NoPress
  <1> QED BY <1>10, <1>12, <1>13, <1>14, <1>15, <1>16

-----------------------------------------------------------------------------
(* What is committed: the other passes *)

\* A pass in state st.
CommitPassing(st) == VisitPassing(st) /\ Drawn(dev, scr, owed) /\ CommitInv

\* The way to the value page watches no row.
LEMMA AnchorCommits ==
  ASSUME CommitPassing("ANCHOR"), NEW noise \in BOOLEAN
  PROVE  CommitOn(Anchor(m, noise))
  <1> DEFINE p == Anchor(m, noise)
  <1>1. Passing("ANCHOR") /\ m.st = "ANCHOR" /\ m.wphase = 0
    BY DEF CommitPassing, VisitPassing, Passing, CommitInv, CommitFits
  <1>2. p.m.st \in {"ANCHOR", "ROUTE", "TEARDOWN"} /\ p.press \in {"ESC", NoKey}
    BY <1>1, AnchorKeys DEF Passing, Fits, GivesUp
  <1>3. p.m.wphase = 0
    BY <1>1, AnchorWait DEF Passing, Fits
  <1> HIDE DEF p
  <1>4. CommitOn(p)
    BY <1>2, <1>3, NoCommit DEF CommitOn, NoKey
  <1> QED BY <1>4 DEF p

\* Where the route enters the value page no field is open, and no Enter is under way.
LEMMA RouteCommits ==
  ASSUME CommitPassing("ROUTE"), NEW noise \in BOOLEAN
  PROVE  CommitOn(Route(m, noise))
  <1> DEFINE p == Route(m, noise)
  <1>1. Passing("ROUTE") /\ m.st = "ROUTE" /\ m.wphase = 0 /\ SingleEnter /\ OneEnter(m, keys, dev) /\ Shut(dev)
    BY DEF CommitPassing, VisitPassing, Passing, CommitInv, CommitFits, Drawn
  <1>2. p.m.wphase = 0
    BY <1>1, RouteWait DEF Passing, Fits
  <1>3. m.step < Len(route) \/ m.step = Len(route)
    <2>1. m.step \in 1 .. Len(route) + 1 /\ m.step <= Len(route) /\ Len(route) \in Nat
      BY <1>1, Members, Routing DEF Passing, MachineInv, StepInv, IInv
    <2> QED BY <2>1
  <1>4. /\ p.m.st \in {"ROUTE", "READ", "ANCHOR", "TEARDOWN"}
        /\ p.press = "ENTER" => Due(m)
    <2>1. m.step = Len(route) => LandingOut(m, p) /\ (p.press = "ENTER" => Due(m))
      BY <1>1, LandingKeys, LandingOpens DEF Passing, Fits
    <2>2. m.step < Len(route) => p.m.st = "ROUTE" \/ GivesUp(p.m)
      BY <1>1, RouteKeys DEF Passing, Fits
    <2>3. m.step < Len(route) => Due(m)
      BY DEF Due, Unpressed
    <2> HIDE DEF p
    <2> QED BY <1>3, <2>1, <2>2, <2>3 DEF LandingOut, GivesUp
  <1> HIDE DEF p
  <1>5. Due(m) => Enterable(keys, dev)
    <2> SUFFICES ASSUME Due(m) PROVE Enterable(keys, dev)
      OBVIOUS
    <2>1. Only(keys, {"ESC", "UP", "DOWN"}) /\ dev.focus = 0
      BY <1>1 DEF OneEnter, Shut
    <2> QED BY <2>1 DEF Enterable, EntersLast, Only
  <1>6. CommitOn(p)
    BY <1>2, <1>4, <1>5, NoCommit DEF CommitOn
  <1> QED BY <1>6 DEF p

\* The value page is read with no field open and nothing under way.
LEMMA ReadCommits ==
  ASSUME CommitPassing("READ"), NEW noise \in BOOLEAN
  PROVE  CommitOn(Read(m, noise))
  <1> DEFINE p == Read(m, noise)
  <1>1. Passing("READ") /\ m.wphase = 0 /\ OneEnter(m, keys, dev) /\ m.st = "READ"
    BY DEF CommitPassing, VisitPassing, Passing, CommitInv, CommitFits
  <1>2. /\ p.m.wphase = 0 /\ p.m.st \in {"READ", "TEARDOWN", "SWEEP", "FOCUS"}
        /\ p.m.st = "SWEEP" => p.m.swphase = 0 /\ AtRest(p.m)
        /\ p.m.st = "FOCUS" => AtRest(p.m)
    BY <1>1, ReadWait DEF Passing, Fits
  <1>3. p.press = NoKey
    BY <1>1, ReadKeys DEF Passing, Fits
  <1> SUFFICES CommitOn(p)
    OBVIOUS
  <1> HIDE DEF p
  <1>4. /\ dev.page = "value" /\ Clean(dev) /\ owed # "field"
        /\ scr.row = <<dev.sel, Number(dev, dev.sel)>>
    BY <1>1 DEF Passing, Fits, OnVisit
  <1>5. keys = <<>> /\ dev.focus = 0
    BY <1>1, <1>4 DEF OneEnter
  <1>6. Painted(dev, scr, owed)
    BY <1>4, <1>5 DEF Painted, Shown, Row2, Clean
  <1>7. Enterable(keys, dev)
    BY <1>5 DEF Enterable, EntersLast
  <1>8. ASSUME NEW t PROVE CommitFits(p.m, keys, dev, scr, owed, t)
    BY <1>2, <1>5, <1>6, <1>7 DEF CommitFits, Focusing, Entering, AtRest, Under
  <1> QED BY <1>3, <1>8, NoPress

\* The sweep, from its three steps.
LEMMA SweepCommits ==
  ASSUME CommitPassing("SWEEP"), NEW noise \in BOOLEAN
  PROVE  CommitOn(Sweep(m, noise))
  <1> DEFINE p == Sweep(m, noise)
  <1>1. World /\ keys \in InFlight /\ MachineInv(m) /\ m.st = "SWEEP" /\ CommitFits(m, keys, dev, scr, owed, passes)
    BY DEF CommitPassing, VisitPassing, Passing, CommitInv
  <1>2. m.swphase \in 0 .. 2
    BY <1>1, Members DEF MachineInv
  <1>3. CASE m.swphase = 0
    <2>1. CommitOn(sweep_focus(m, noise))
      BY <1>1, <1>3, SweepFocusCommits DEF CommitFits
    <2> QED BY <1>3, <2>1 DEF Sweep
  <1>4. CASE m.swphase = 1
    <2>1. CommitOn(sweep_capture(m))
      BY <1>1, <1>4, CaptureCommits DEF CommitFits
    <2> QED BY <1>4, <2>1 DEF Sweep
  <1>5. CASE m.swphase = 2
    <2>1. CommitOn(sweep_move(m, noise))
      BY <1>1, <1>5, MoveCommits DEF CommitFits
    <2> QED BY <1>5, <2>1 DEF Sweep
  <1> QED BY <1>2, <1>3, <1>4, <1>5

\* A pass of tick, in every state.
LEMMA PassCommits ==
  ASSUME IInv, TruthInv, VisitInv, CommitInv, Bounds, NEW noise \in BOOLEAN
  PROVE  CommitOn(Pass(noise))
  <1> DEFINE p == Pass(noise)
  <1>1. IInv /\ World /\ MachineInv(m) /\ keys \in InFlight /\ Lands(route) /\ Fits(m, keys, dev, scr, owed)
        /\ Drawn(dev, scr, owed) /\ m \in Machines
    BY Worldly DEF TruthInv, IInv, Around, MachineInv
  <1>2. m.st \in States
    BY <1>1, Members
  <1>3. SelectorWorld /\ CommitFits(m, keys, dev, scr, owed, passes)
    BY <1>1 DEF SelectorWorld, CommitInv, OfOne
  <1>4. \A st : m.st = st => CommitPassing(st)
    BY <1>1 DEF CommitPassing, VisitPassing, Passing, VisitInv
  <1>5. ASSUME NEW c, c.press \in {"ESC", NoKey}, c.m.st \in {"ABORT_ESC", "TEARDOWN", "IDLE"}
        PROVE  CommitOn(c)
    BY <1>5, NoCommit DEF CommitOn, NoKey
  <1>6. CASE m.st = "IDLE"
    <2>1. p = Goes(m)
      BY <1>6 DEF Pass
    <2>2. Goes(m).m = m /\ Goes(m).press = NoKey
      BY DEF Goes, Res
    <2> HIDE DEF p
    <2>3. CommitOn(p)
      BY <1>5, <1>6, <2>1, <2>2
    <2> QED BY <2>3 DEF p
  <1>7. CASE m.st \in {"ANCHOR", "ROUTE", "READ", "SWEEP"}
    <2>1. CASE m.st = "ANCHOR"
      <3>1. CommitOn(Anchor(m, noise))
        BY <1>4, <2>1, AnchorCommits
      <3> QED BY <2>1, <3>1 DEF Pass
    <2>2. CASE m.st = "ROUTE"
      <3>1. CommitOn(Route(m, noise))
        BY <1>4, <2>2, RouteCommits
      <3> QED BY <2>2, <3>1 DEF Pass
    <2>3. CASE m.st = "READ"
      <3>1. CommitOn(Read(m, noise))
        BY <1>4, <2>3, ReadCommits
      <3> QED BY <2>3, <3>1 DEF Pass
    <2>4. CASE m.st = "SWEEP"
      <3>1. CommitOn(Sweep(m, noise))
        BY <1>4, <2>4, SweepCommits
      <3> QED BY <2>4, <3>1 DEF Pass
    <2> QED BY <1>7, <2>1, <2>2, <2>3, <2>4
  <1>8. CASE m.st \in {"FOCUS", "EDIT", "COMMIT"}
    <2>1. CASE m.st = "FOCUS"
      <3>1. CommitOn(Focus(m, noise))
        BY <1>1, <1>3, <2>1, FocusCommits DEF CommitFits
      <3> QED BY <2>1, <3>1 DEF Pass
    <2>2. CASE m.st = "EDIT"
      <3>1. CommitOn(Edit(m, noise))
        BY <1>1, <1>3, <2>2, EditCommits DEF CommitFits
      <3> QED BY <2>2, <3>1 DEF Pass
    <2>3. CASE m.st = "COMMIT"
      <3>1. CommitOn(Commit(m, noise))
        BY <1>1, <1>3, <2>3, CommitCommits DEF CommitFits
      <3> QED BY <2>3, <3>1 DEF Pass
    <2> QED BY <1>8, <2>1, <2>2, <2>3
  <1>9. CASE m.st = "ABORT_ESC"
    <2> DEFINE c == AbortEsc(m, noise)
    <2>1. p = c
      BY <1>9 DEF Pass
    <2>2. c.press \in {"ESC", NoKey} /\ c.m.st \in {"ABORT_ESC", "TEARDOWN"}
      BY <1>1, <1>9, AbortKeys DEF Fits
    <2> HIDE DEF c, p
    <2>3. CommitOn(c)
      BY <1>5, <2>2
    <2> QED BY <2>1, <2>3 DEF p
  <1>10. CASE m.st = "TEARDOWN"
    <2> DEFINE c == Teardown(m, noise)
    <2>1. p = c
      BY <1>10 DEF Pass
    <2>2. c.press \in {"ESC", NoKey} /\ c.m.st \in {"IDLE", "TEARDOWN"}
      BY <1>1, <1>10, TeardownKeys DEF Fits
    <2> HIDE DEF c, p
    <2>3. CommitOn(c)
      BY <1>5, <2>2
    <2> QED BY <2>1, <2>3 DEF p
  <1> QED BY <1>2, <1>6, <1>7, <1>8, <1>9, <1>10 DEF States

-----------------------------------------------------------------------------
(* What is committed: the actions *)

\* The invariant of the next state, from what it says of the next values.
LEMMA CommitCarried ==
  ASSUME OfOne, req' = req, Safe(keys', dev'), CommitFits(m', keys', dev', scr', owed', passes')
  PROVE  CommitInv'
  <1>1. OfOne'
    BY DEF OfOne
  <1>2. Ready(dev') => Ready(dev)'
    BY DEF Ready, Asked
  <1>3. Safe(keys, dev)'
    BY <1>2 DEF Safe
  <1>4. Entering(m', keys', dev') => Entering(m, keys, dev)'
    BY <1>2 DEF Entering, Enterable
  <1>5. CommitFits(m, keys, dev, scr, owed, passes)'
    BY <1>4 DEF CommitFits
  <1> QED BY <1>1, <1>3, <1>5 DEF CommitInv

\* An Enter is pressed behind no arrow, and where a field is open it is harmless; no other
\* press does harm.
LEMMA TickCommits ==
  ASSUME IInv, TruthInv, VisitInv, CommitInv, Bounds, Tick
  PROVE  CommitInv'
  <1>1. PICK noise \in BOOLEAN :
          /\ m' = Pass(noise).m /\ did' = Pass(noise).did /\ Queued(keys', Pass(noise).press)
    BY DEF Tick, Queued
  <1>2. UNCHANGED <<req, route, dev, scr, owed, lost>> /\ passes' > 0
    BY DEF Tick
  <1> DEFINE press == Pass(noise).press
  <1>3. /\ press = "ENTER" => Enterable(keys, dev)
        /\ CommitFits(m', keys', dev, scr, owed, passes')
    <2>1. CommitOn(Pass(noise))
      BY PassCommits
    <2> QED BY <1>1, <1>2, <2>1 DEF CommitOn, CommitAfter
  <1>4. press \in Keys \cup {NoKey}
    <2>1. World /\ MachineInv(m)
      BY Worldly DEF IInv
    <2>2. Good(Pass(noise))
      BY <2>1, PassGood
    <2> QED BY <2>2 DEF Good, Pressed
  <1>5. keys \in InFlight /\ Safe(keys, dev) /\ OfOne /\ Queued(keys', press)
    BY <1>1 DEF IInv, Around, CommitInv
  <1> HIDE DEF press
  <1>6. /\ press # "ENTER" /\ ArrowsLast(keys) => ArrowsLast(keys')
        /\ press # "ENTER" /\ Apart(keys) => Apart(keys')
        /\ press = "ENTER" /\ EntersLast(keys) => EntersLast(keys') /\ Apart(keys')
        /\ press = "ENTER" /\ Only(keys, {"ENTER", "ESC"}) => ArrowsLast(keys')
    BY <1>4, <1>5, OrderAdded
  <1>7. press # "ENTER" /\ Only(keys, Enterless) => Only(keys', Enterless)
    <2>1. press # "ENTER" => press \in Enterless \cup {NoKey}
      BY <1>4 DEF Keys, Enterless
    <2> QED BY <1>4, <1>5, <2>1, QueuedKeys
  <1>8. Safe(keys', dev)
    <2>1. CASE press = "ENTER"
      BY <1>3, <1>5, <1>6, <2>1 DEF Safe, Enterable
    <2>2. CASE press # "ENTER"
      BY <1>5, <1>6, <1>7, <2>2 DEF Safe
    <2> QED BY <2>1, <2>2
  <1> QED BY <1>2, <1>3, <1>5, <1>8, CommitCarried

LEMMA CallsCommit ==
  ASSUME CommitInv, IInv, begin \/ resync_anchor
  PROVE  CommitInv'
  <1>1. UNCHANGED <<req, keys, dev>>
    BY DEF begin, resync_anchor
  <1>2. m'.st = "IDLE" \/ (m'.st = "ANCHOR" /\ m'.wphase = 0)
    BY DEF begin, resync_anchor, Idle, IInv, MachineInv, Machines
  <1>3. CommitFits(m', keys', dev', scr', owed', passes')
    BY <1>2 DEF CommitFits
  <1> QED BY <1>1, <1>3, CommitCarried DEF CommitInv

\* A press is taken.
LEMMA TakesCommit ==
  ASSUME IInv, TruthInv, CommitInv, Takes
  PROVE  /\ CommitInv' /\ dev'.prog = dev.prog
         /\ dev'.sel # dev.sel => Asked(1, dev'.sel)
  <1>1. /\ keys # <<>> /\ dev' \in Press(dev, Head(keys).key) /\ keys' = Tail(keys)
        /\ UNCHANGED <<m, req, scr, passes>>
    BY DEF Takes
  <1>2. /\ dev \in Devices /\ Shut(dev) /\ keys \in InFlight /\ Safe(keys, dev) /\ OfOne
        /\ CommitFits(m, keys, dev, scr, owed, passes)
    BY DEF IInv, Around, TruthInv, Drawn, CommitInv
  <1>3. /\ Safe(keys', dev') /\ dev'.prog = dev.prog
        /\ dev'.sel # dev.sel => Asked(1, dev'.sel)
        /\ Enterable(keys, dev) => Enterable(keys', dev')
        /\ dev.focus = 0 /\ Only(keys, Arrows) => dev'.focus = 0
    BY <1>1, <1>2, SafeTaken
  <1>4. Entering(m, keys, dev) => Entering(m, keys', dev')
    BY <1>3 DEF Entering
  <1>5. Focusing(m, keys, dev, scr, owed) => Focusing(m, keys', dev', scr, owed')
    <2> SUFFICES ASSUME Focusing(m, keys, dev, scr, owed) PROVE Focusing(m, keys', dev', scr, owed')
      OBVIOUS
    <2>1. Opens(keys, dev, 0) /\ Painted(dev, scr, owed)
      BY <1>1 DEF Focusing
    <2>2. Opens(keys', dev', 0) /\ Painted(dev', scr, owed')
      BY <2>1, OpeningTaken
    <2> QED BY <1>1, <2>2 DEF Focusing
  <1>6. Astray(m, keys, dev) => Astray(m, keys', dev')
    <2>1. Only(keys, Arrows) => Only(keys', Arrows)
      BY <1>1, <1>2, Taken
    <2> QED BY <1>3, <2>1 DEF Astray
  <1>7. Paging(m, keys, dev, scr, owed, passes) => Paging(m, keys', dev', scr, owed', passes)
    BY PagingTaken
  <1>8. CommitFits(m, keys', dev', scr, owed', passes)
    BY <1>2, <1>4, <1>5, <1>6, <1>7 DEF CommitFits
  <1>9. CommitInv'
    BY <1>1, <1>2, <1>3, <1>8, CommitCarried
  <1> QED BY <1>3, <1>9

\* The clock moves.
LEMMA TimeCommit ==
  ASSUME IInv, CommitInv, Bounds, Time
  PROVE  CommitInv'
  <1>1. /\ keys' = Aged(keys) /\ passes' = 0 /\ UNCHANGED <<req, dev, scr, owed>>
        /\ m'.st = m.st /\ m'.wphase = m.wphase /\ m'.swphase = m.swphase
        /\ m'.eng.phase = m.eng.phase /\ m'.eng.key = m.eng.key /\ m'.eng.lost = m.eng.lost
    BY TimeLeaves
  <1>2. keys \in InFlight /\ Safe(keys, dev) /\ OfOne /\ CommitFits(m, keys, dev, scr, owed, passes)
    BY DEF IInv, Around, CommitInv
  <1>3. /\ ArrowsLast(keys) => ArrowsLast(keys')
        /\ EntersLast(keys) => EntersLast(keys')
        /\ Apart(keys) => Apart(keys')
        /\ \A S : Only(keys, S) => Only(keys', S)
    BY <1>1, <1>2, OrderAged, AgedKeys
  <1>4. Safe(keys', dev) /\ (Enterable(keys, dev) => Enterable(keys', dev))
    BY <1>2, <1>3 DEF Safe, Enterable
  <1>5. keys = <<>> => keys' = <<>>
    BY <1>1 DEF Aged
  <1>6. \A S : Under(m.eng, S) => Under(m'.eng, S)
    BY <1>1 DEF Under
  <1>7. (AtRest(m') <=> AtRest(m)) /\ (Arrowed(m) => Arrowed(m')) /\ (ToldLost(m'.eng) <=> ToldLost(m.eng))
    BY <1>1, <1>6 DEF AtRest, Arrowed, ToldLost
  <1>8. Entering(m, keys, dev) => Entering(m', keys', dev)
    BY <1>1, <1>4, <1>6 DEF Entering
  <1>9. Focusing(m, keys, dev, scr, owed) => Focusing(m', keys', dev, scr, owed)
    <2>1. Opens(keys, dev, 0) => Opens(keys', dev, 0)
      BY <1>1, <1>2, OpensAged
    <2> QED BY <1>1, <1>5, <1>6, <1>7, <2>1 DEF Focusing
  <1>10. Astray(m, keys, dev) => Astray(m', keys', dev)
    BY <1>3, <1>7 DEF Astray
  <1>11. Paging(m, keys, dev, scr, owed, passes) => Paging(m', keys', dev, scr, owed, 0)
    BY PagingTime
  <1>12. CommitFits(m', keys', dev, scr, owed, 0)
    BY <1>1, <1>2, <1>7, <1>8, <1>9, <1>10, <1>11 DEF CommitFits
  <1> QED BY <1>1, <1>2, <1>4, <1>12, CommitCarried

\* Nothing on a painted row is left to be torn.
LEMMA DrawsCommit ==
  ASSUME CommitInv, Repaint \/ Tear
  PROVE  CommitInv'
  <1>1. /\ owed # "nothing" /\ owed' \in {"nothing", owed} /\ passes' = 0
        /\ UNCHANGED <<m, req, keys, dev>>
        /\ Painted(dev, scr, owed) => Painted(dev, scr', owed') /\ scr'.row[1] = scr.row[1]
    BY Redrawn
  <1>2. Safe(keys, dev) /\ OfOne /\ CommitFits(m, keys, dev, scr, owed, passes)
    BY DEF CommitInv
  <1>3. Focusing(m, keys, dev, scr, owed) => Focusing(m, keys, dev, scr', owed')
    BY <1>1 DEF Focusing
  <1>4. Paging(m, keys, dev, scr, owed, passes) => Paging(m, keys, dev, scr', owed', 0)
    BY <1>1, PagingDrawn
  <1>5. CommitFits(m, keys, dev, scr', owed', 0)
    BY <1>2, <1>3, <1>4 DEF CommitFits
  <1> QED BY <1>1, <1>2, <1>5, CommitCarried

\* A press is dropped: without the Enter no field is opened, and the arrows behind it page away.
LEMMA DropsCommit ==
  ASSUME IInv, CommitInv, Drops
  PROVE  CommitInv'
  <1> DEFINE key == Head(keys).key
  <1>1. /\ keys # <<>> /\ keys' = Tail(keys) /\ key \in Keys /\ UNCHANGED <<req, dev, scr, owed, passes>>
        /\ m'.st = m.st /\ m'.wphase = m.wphase /\ m'.swphase = m.swphase
        /\ m'.eng.phase = m.eng.phase /\ m'.eng.key = m.eng.key
        /\ m'.eng.lost = m.eng.lost \/ FateMatches(m.eng, key)
    BY DropsLeave
  <1>2. keys \in InFlight /\ Safe(keys, dev) /\ OfOne /\ CommitFits(m, keys, dev, scr, owed, passes)
    BY DEF IInv, Around, CommitInv
  <1>3. /\ ArrowsLast(keys) => ArrowsLast(keys')
        /\ EntersLast(keys) => EntersLast(keys')
        /\ Apart(keys) => Apart(keys')
        /\ \A S : Only(keys, S) => Only(keys', S)
    BY <1>1, <1>2, OrderTaken, Taken
  <1>4. Safe(keys', dev) /\ (Enterable(keys, dev) => Enterable(keys', dev))
    BY <1>2, <1>3 DEF Safe, Enterable
  <1>5. \A S : Under(m.eng, S) => Under(m'.eng, S)
    <2>1. key # NoKey /\ (FateMatches(m.eng, key) => m.eng.key = key)
      BY <1>1 DEF FateMatches, Keys, NoKey
    <2> HIDE DEF key
    <2> QED BY <1>1, <2>1 DEF Under
  <1>6. (AtRest(m') <=> AtRest(m)) /\ (Arrowed(m) => Arrowed(m'))
    BY <1>1, <1>5 DEF AtRest, Arrowed
  <1>7. Entering(m, keys, dev) => Entering(m', keys', dev)
    BY <1>1, <1>4, <1>5 DEF Entering
  <1>8. Astray(m, keys, dev) => Astray(m', keys', dev)
    BY <1>3, <1>6 DEF Astray
  <1>9. /\ Len(keys) \in Nat /\ Len(keys) >= 1 /\ Head(keys) = keys[1] /\ Len(keys') = Len(keys) - 1
        /\ \A i \in 1 .. Len(keys') : keys'[i] = keys[i + 1]
        /\ Len(keys') = 0 => keys' = <<>>
    <2>1. keys' \in Seq(UnderWay)
      BY <1>1, <1>2 DEF InFlight
    <2>2. Len(keys') = 0 => keys' = <<>>
      BY <2>1
    <2> QED BY <1>1, <1>2, <2>2 DEF InFlight
  <1>10. Focusing(m, keys, dev, scr, owed) => Focusing(m', keys', dev, scr, owed)
    <2> SUFFICES ASSUME Focusing(m, keys, dev, scr, owed) PROVE Focusing(m', keys', dev, scr, owed)
      OBVIOUS
    <2>1. Opens(keys, dev, 0)
      BY <1>1 DEF Focusing
    <2>2. dev.focus = 0 /\ Len(keys) = 0 + 1
      BY <1>9, <2>1 DEF Opens
    <2>3. keys' = <<>>
      BY <1>9, <2>2
    <2> QED BY <1>1, <1>5, <2>2, <2>3 DEF Focusing
  <1>11. Paging(m, keys, dev, scr, owed, passes) => Paging(m', keys', dev, scr, owed, passes) \/ Astray(m', keys', dev)
    <2> SUFFICES ASSUME Paging(m, keys, dev, scr, owed, passes), key = "ENTER" PROVE Astray(m', keys', dev)
      BY PagingDropped
    <2>1. Unmoved(m, keys, dev, scr, owed)
      BY <1>1 DEF Paging, MovedOn
    <2>2. m.wphase = 0 /\ (Opens(keys, dev, 0) \/ Opens(keys, dev, 1))
      BY <2>1 DEF Unmoved
    <2>3. keys[1].key = "ENTER" /\ "ENTER" \notin Arrows
      BY <1>9 DEF Arrows
    <2>4. /\ dev.focus = 0 /\ (Len(keys) = 0 + 1 \/ (Len(keys) = 1 + 1 /\ keys[2].key \in Arrows))
      BY <1>9, <2>2, <2>3 DEF Opens
    <2>5. Only(keys', Arrows)
      BY <1>9, <2>4 DEF Only
    <2>6. Arrowed(m)
      BY <2>2 DEF Arrowed, Paging
    <2> QED BY <1>6, <2>4, <2>5, <2>6 DEF Astray
  <1>12. CommitFits(m', keys', dev, scr, owed, passes)
    BY <1>1, <1>2, <1>6, <1>7, <1>8, <1>10, <1>11 DEF CommitFits
  <1> QED BY <1>1, <1>2, <1>4, <1>12, CommitCarried

LEMMA InitCommit ==
  ASSUME Init, OfOne
  PROVE  CommitInv
  <1>1. m.st = "IDLE" /\ keys = <<>> /\ dev.shown1 = dev.sel /\ dev.focus = 0
    <2>1. PICK v \in Visits : dev = Arrived(v.page)
      BY DEF Init
    <2> QED BY <2>1 DEF Init, Idle, Arrived
  <1>2. Safe(keys, dev)
    BY <1>1 DEF Safe, Apart
  <1>3. CommitFits(m, keys, dev, scr, owed, passes)
    BY <1>1 DEF CommitFits
  <1> QED BY <1>2, <1>3 DEF CommitInv

\* The machine sets out to commit only what it sees, and of all the values that the selector
\* can take the controller commits the target only, for every page, number of values and
\* choice of the waits, whatever press is lost, late or half painted, the Enters as well, and
\* though the Enters that follow go on to the number: no number changes.  An Enter that was
\* reported lost is pressed again.  What keeps it from committing another value: where a field
\* is open no Enter comes behind an arrow, and none is pressed there unless the open field
\* shows the target, or the page what is kept (Safe, Enterable).  Assumed: a press is decided
\* before a verify window is over, a watched row has a quiet window and the time for it
\* (KEY_TTL_MS, NAV_VERIFY_MS, NAV_QUIET_MS), the route lands on the value page by a single
\* Enter, and the request is a get, a set or a sweep of the selector.
THEOREM OnlyTargetIsCommitted ==
  ASSUME Ttl < Verify, Quiet >= 1, Quiet <= Deadline
  PROVE  Spec /\ Lands(route) /\ SingleEnter /\ OfOne => OnlyTargetCommitted
  <1> DEFINE Step == /\ SeesTarget
                     /\ OwnRow \/ ~lost =>
                          /\ dev'.sel # dev.sel => Asked(1, dev'.sel)
                          /\ dev'.prog # dev.prog => Asked(2, Committed(dev', 2))
  <1>0. Bounds
    BY DEF Bounds
  <1>1. Init /\ Lands(route) /\ SingleEnter /\ OfOne => TruthInv /\ VisitInv /\ CommitInv
    BY InitTrue, InitVisit, InitCommit
  <1>2. IInv /\ TruthInv /\ VisitInv /\ CommitInv /\ [Next]_vars => TruthInv' /\ VisitInv' /\ CommitInv'
    <2> SUFFICES ASSUME IInv, TruthInv, VisitInv, CommitInv, [Next]_vars
                 PROVE  TruthInv' /\ VisitInv' /\ CommitInv'
      OBVIOUS
    <2>1. VisitInv'
      BY VisitStep
    <2>2. TruthInv'
      BY <1>0, TruthStep DEF Bounds
    <2>3. CASE UNCHANGED vars
      <3>1. UNCHANGED <<m, req, keys, dev, scr, owed, passes>>
        BY <2>3 DEF vars
      <3>2. CommitInv'
        BY <3>1, CommitCarried DEF CommitInv
      <3> QED BY <2>1, <2>2, <3>2
    <2>4. CASE Next
      <3>1. CommitInv'
        BY <1>0, <2>4, TickCommits, CallsCommit, TakesCommit, DropsCommit, DrawsCommit, TimeCommit DEF Next
      <3> QED BY <2>1, <2>2, <3>1
    <2> QED BY <2>3, <2>4
  <1>3. IInv /\ TruthInv /\ CommitInv /\ [Next]_vars => [Step]_<<m, dev>>
    <2> SUFFICES ASSUME IInv, TruthInv, CommitInv, [Next]_vars PROVE [Step]_<<m, dev>>
      OBVIOUS
    <2>1. CASE Takes
      <3>1. /\ dev'.prog = dev.prog /\ m' = m
            /\ dev'.sel # dev.sel => Asked(1, dev'.sel)
        BY <2>1, TakesCommit DEF Takes
      <3>2. SeesTarget
        BY <3>1 DEF SeesTarget, SetsOut
      <3> QED BY <3>1, <3>2
    <2>2. CASE Tick
      <3>1. PICK noise \in BOOLEAN : m' = Pass(noise).m
        BY <2>2 DEF Tick
      <3>2. Aims(m, Pass(noise).m)
        BY Worldly, PassGood DEF IInv
      <3>3. SeesTarget /\ dev' = dev
        BY <2>2, <3>1, <3>2 DEF Aims, SeesTarget, Tick
      <3> QED BY <3>3
    <2>3. CASE begin \/ resync_anchor \/ Drops \/ Repaint \/ Tear \/ Time
      <3>1. dev' = dev
        BY <2>3 DEF begin, resync_anchor, Drops, Repaint, Tear, Time
      <3>2. SeesTarget
        BY <2>3, NothingElseSetsOut DEF SeesTarget
      <3> QED BY <3>1, <3>2
    <2>4. CASE UNCHANGED vars
      BY <2>4 DEF vars
    <2> QED BY <2>1, <2>2, <2>3, <2>4 DEF Next
  <1>4. Spec /\ Lands(route) /\ SingleEnter /\ OfOne => [][Step]_<<m, dev>>
    <2> HIDE DEF Step
    <2> QED BY <1>1, <1>2, <1>3, Invariance, PTL DEF Spec
  <1> QED BY <1>4 DEF OnlyTargetCommitted

=============================================================================
