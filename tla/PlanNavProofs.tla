--------------------------- MODULE PlanNavProofs ----------------------------
(***************************************************************************)
(* Proofs about the scrape machine, for every route, every set of views    *)
(* and every value of the waits and budgets.                               *)
(*                                                                         *)
(* From what the primitives return (NavEngineProofs): what the move of a   *)
(* route step returns, what each pass of tick does, and the invariant from *)
(* which the properties follow.                                            *)
(***************************************************************************)
EXTENDS PlanNav, NavEngineProofs, FiniteSetTheorems, WellFoundedInduction

-----------------------------------------------------------------------------
(* The bounds of the clocks *)

\* A set of numbers that is not empty has a least member.
LEMMA LeastExists ==
  ASSUME NEW S \in SUBSET Nat, S # {}
  PROVE  \E x \in S : \A y \in S : x <= y
  <1> DEFINE R == OpToRel(<, Nat)
  <1>1. PICK x \in S : \A y \in S : <<y, x>> \notin R
    <2> HIDE DEF R
    <2>1. IsWellFoundedOn(R, Nat)
      BY NatLessThanWellFounded DEF R
    <2> QED BY <2>1, WFMin
  <1>2. \A y \in S : x <= y
    <2> SUFFICES ASSUME NEW y \in S, y < x PROVE FALSE
      OBVIOUS
    <2>1. <<y, x>> \in R
      BY DEF OpToRel
    <2> QED BY <1>1, <2>1
  <1> QED BY <1>1, <1>2

\* The recursion of Backoff defines a function, on every initial segment.
DoublesTo(g, k) == g[0] = Interval /\ \A f \in 1 .. k : g[f] = 2 * g[f - 1]

LEMMA DoublingExists ==
  ASSUME NEW k \in Nat
  PROVE  \E g \in [0 .. k -> Nat] : DoublesTo(g, k)
  <1> DEFINE Bad == {j \in Nat : ~ \E g \in [0 .. j -> Nat] : DoublesTo(g, j)}
  <1> SUFFICES ASSUME Bad # {} PROVE FALSE
    OBVIOUS
  <1>1. PICK j \in Bad : \A i \in Bad : j <= i
    <2> HIDE DEF Bad
    <2>1. Bad \in SUBSET Nat
      BY DEF Bad
    <2> QED BY <2>1, LeastExists
  <1>2. CASE j = 0
    <2> DEFINE g == [f \in 0 .. 0 |-> Interval]
    <2>1. g \in [0 .. 0 -> Nat] /\ DoublesTo(g, 0)
      BY NavAssumption DEF DoublesTo
    <2> QED BY <1>1, <1>2, <2>1
  <1>3. CASE j # 0
    <2>1. j - 1 \in Nat /\ j - 1 \notin Bad
      BY <1>1, <1>3
    <2>2. PICK g \in [0 .. (j - 1) -> Nat] : DoublesTo(g, j - 1)
      BY <2>1
    <2> DEFINE h == [f \in 0 .. j |-> IF f = j THEN 2 * g[j - 1] ELSE g[f]]
    <2>3. h \in [0 .. j -> Nat]
      BY <2>1
    <2>4. h[0] = Interval
      BY <1>3, <2>1, <2>2 DEF DoublesTo
    <2>5. ASSUME NEW f \in 1 .. j PROVE h[f] = 2 * h[f - 1]
      <3>1. f - 1 \in 0 .. (j - 1) /\ f - 1 \in 0 .. j /\ f - 1 # j /\ f \in 0 .. j
        BY <2>1
      <3>2. h[f - 1] = g[f - 1]
        BY <3>1
      <3>3. CASE f = j
        <4>1. h[f] = 2 * g[f - 1]
          BY <3>1, <3>3
        <4> QED BY <3>2, <4>1
      <3>4. CASE f # j
        <4>1. f \in 1 .. (j - 1)
          BY <2>1, <3>4
        <4>2. h[f] = g[f]
          BY <3>1, <3>4
        <4>3. g[f] = 2 * g[f - 1]
          BY <2>2, <4>1 DEF DoublesTo
        <4> HIDE DEF h
        <4> QED BY <3>2, <4>2, <4>3
      <3> QED BY <3>3, <3>4
    <2>6. DoublesTo(h, j)
      <3> HIDE DEF h
      <3> QED BY <2>4, <2>5 DEF DoublesTo
    <2> QED BY <1>1, <2>3, <2>6
  <1> QED BY <1>2, <1>3

LEMMA BackoffDoubles ==
  Backoff \in [0 .. BackoffCap -> Nat] /\ DoublesTo(Backoff, BackoffCap)
  <1> DEFINE D(g) == [f \in 0 .. BackoffCap |-> IF f = 0 THEN Interval ELSE 2 * g[f - 1]]
  <1>1. PICK g \in [0 .. BackoffCap -> Nat] : DoublesTo(g, BackoffCap)
    BY DoublingExists, NavAssumption
  <1>2. g = D(g)
    BY <1>1, NavAssumption DEF DoublesTo
  <1>3. Backoff = CHOOSE h : h = D(h)
    BY DEF Backoff
  <1>4. Backoff = D(Backoff)
    BY <1>2, <1>3
  <1>5. Backoff[0] = Interval /\ \A f \in 1 .. BackoffCap : Backoff[f] = 2 * Backoff[f - 1]
    BY <1>4, NavAssumption
  <1>6. \A f \in 0 .. BackoffCap : Backoff[f] = g[f]
    <2> DEFINE Bad == {f \in 0 .. BackoffCap : Backoff[f] # g[f]}
    <2> SUFFICES ASSUME Bad # {} PROVE FALSE
      OBVIOUS
    <2>1. PICK f \in Bad : \A i \in Bad : f <= i
      <3> HIDE DEF Bad
      <3>1. Bad \in SUBSET Nat
        BY NavAssumption DEF Bad
      <3> QED BY <3>1, LeastExists
    <2>2. CASE f = 0
      BY <1>1, <1>5, <2>1, <2>2 DEF DoublesTo
    <2>3. CASE f # 0
      <3>1. f - 1 \in 0 .. BackoffCap /\ f - 1 \notin Bad /\ f \in 1 .. BackoffCap
        BY <2>1, <2>3, NavAssumption
      <3> QED BY <1>1, <1>5, <2>1, <3>1 DEF DoublesTo
    <2> QED BY <2>2, <2>3
  <1>7. Backoff = g
    BY <1>1, <1>4, <1>6
  <1> QED BY <1>1, <1>7

\* No wait is longer than the one after BackoffCap failures.
LEMMA WaitsCapped ==
  /\ Cap \in Nat /\ Interval \in 0 .. Cap
  /\ \A f \in 0 .. BackoffCap : Backoff[f] \in 0 .. Cap
  <1>1. /\ BackoffCap \in Nat /\ Backoff \in [0 .. BackoffCap -> Nat]
        /\ DoublesTo(Backoff, BackoffCap)
    BY BackoffDoubles, NavAssumption
  <1>2. \A f \in 0 .. BackoffCap : Backoff[f] <= Cap
    <2> DEFINE Low == {d \in 0 .. BackoffCap : Backoff[BackoffCap - d] > Cap}
    <2> SUFFICES ASSUME NEW f \in 0 .. BackoffCap, ~(Backoff[f] <= Cap) PROVE FALSE
      OBVIOUS
    <2>1. BackoffCap - f \in Low
      <3>1. BackoffCap - f \in 0 .. BackoffCap /\ BackoffCap - (BackoffCap - f) = f
        BY <1>1
      <3>2. Backoff[f] \in Nat /\ Cap \in Nat
        BY <1>1 DEF Cap
      <3> QED BY <3>1, <3>2
    <2>2. PICK d \in Low : \A i \in Low : d <= i
      <3> HIDE DEF Low
      <3>1. Low \in SUBSET Nat
        BY DEF Low
      <3> QED BY <2>1, <3>1, LeastExists
    <2>3. CASE d = 0
      BY <1>1, <2>2, <2>3 DEF Cap
    <2>4. CASE d # 0
      <3>1. d \in 0 .. BackoffCap /\ d - 1 \in 0 .. BackoffCap /\ ~(d <= d - 1)
        BY <1>1, <2>2, <2>4
      <3>6. d - 1 \notin Low
        <4> HIDE DEF Low
        <4> QED BY <2>2, <3>1
      <3> DEFINE e == BackoffCap - d
      <3>2. e \in 0 .. BackoffCap /\ e + 1 \in 1 .. BackoffCap /\ BackoffCap - (d - 1) = e + 1
            /\ (e + 1) - 1 = e
        BY <1>1, <2>2, <2>4
      <3>3. Backoff[e] > Cap
        BY <2>2
      <3> HIDE DEF e
      <3>4. Backoff[e + 1] = 2 * Backoff[e] /\ ~(Backoff[e + 1] > Cap)
        BY <1>1, <3>1, <3>6, <3>2 DEF DoublesTo
      <3>5. Backoff[e] \in Nat /\ Cap \in Nat
        BY <1>1, <3>2 DEF Cap
      <3> QED BY <3>3, <3>4, <3>5
    <2> QED BY <2>3, <2>4
  <1>3. Cap \in Nat /\ Backoff[0] = Interval /\ Interval \in Nat
    BY <1>1, NavAssumption DEF Cap, DoublesTo
  <1> QED BY <1>1, <1>2, <1>3

-----------------------------------------------------------------------------
(* The move of a route step *)

LEMMA ExpectStep ==
  ASSUME NEW n \in EngineStates, NEW s \in ScrapeStep, NEW key \in Pressed, NEW look \in Looks,
         NEW settle \in BOOLEAN
  PROVE  StepResult(n, key, Expect(n, s, key, look, settle))
  BY StepOut, SureTyped, EngineAssumption DEF Expect

LEMMA GateOut ==
  ASSUME NEW n \in EngineStates, NEW s \in ScrapeStep, NEW look \in Looks
  PROVE  Verified(n, gate_step(n, s, look))
  <1> DEFINE out == gate_step(n, s, look)
  <1> SUFFICES Verified(n, out)
    OBVIOUS
  <1>1. /\ n.gate \in 0 .. 3 /\ s.key \in Pressed
        /\ 0 \in 0 .. 3 /\ 1 \in 0 .. 3 /\ 3 \in 0 .. 3
    BY SubFields DEF ScrapeStep, Pressed
  <1>2. ASSUME NEW m \in EngineStates, NEW g \in 0 .. 3
        PROVE  [m EXCEPT !.gate = g] \in EngineStates /\ [m EXCEPT !.gate = g].phase = m.phase
    <2>1. [m EXCEPT !.gate = g] \in EngineStates
      BY Update
    <2>2. [m EXCEPT !.gate = g].phase = m.phase
      BY DEF EngineStates
    <2> QED BY <2>1, <2>2
  <1>3. CASE n.gate = 0
    <2> DEFINE o == step(n, s.key, Sure(look), 0, TRUE)
               m == [o.n EXCEPT !.gate = 1]
    <2>1. StepResult(n, s.key, o)
      BY <1>1, StepOut, SureTyped
    <2>2. out \in {Run(m), [o EXCEPT !.r = "RUN"]}
      BY <1>3 DEF gate_step, gate_press
    <2> HIDE DEF o, out
    <2>3. Verified(n, o) /\ o.n \in EngineStates
      BY <1>1, <2>1, StepTyped
    <2>4. m \in EngineStates
      BY <1>1, <1>2, <2>3
    <2> HIDE DEF m
    <2> QED BY <2>2, <2>3, <2>4, KeylessVerified, GoesOn
  <1>4. CASE n.gate = 1
    <2> DEFINE o == step(n, NoKey, look, PinGate, FALSE)
               m1 == [o.n EXCEPT !.gate = 3]
               m2 == [o.n EXCEPT !.pin = 0, !.gate = 2]
    <2>1. StepResult(n, NoKey, o)
      BY StepOut, Words, EngineAssumption
    <2>2. out = CASE o.r = "RUN"                  -> o
                  [] o.r = "FAIL"                 -> Run(m1)
                  [] o.r = "OK" /\ Configured     -> Run(m2)
                  [] o.r = "OK" /\ ~Configured    -> Fail(o.n)
      <3>1. out = gate_shows(n, look)
        BY <1>4 DEF gate_step
      <3> QED BY <3>1, Zenon DEF gate_shows
    <2> HIDE DEF o, out
    <2>3. Verified(n, o) /\ o.r \in Results /\ o.n \in EngineStates
      BY <2>1, StepTyped, Words
    <2>4. m1 \in EngineStates /\ m2 \in EngineStates
      <3>1. 0 \in 0 .. 2 /\ 2 \in 0 .. 3 /\ 3 \in 0 .. 3
        OBVIOUS
      <3> QED BY <2>3, <3>1, Update, Zenon
    <2> HIDE DEF m1, m2
    <2>5. out \in {o, Run(m1), Run(m2), Fail(o.n)}
      BY <2>2, <2>3 DEF Results
    <2> QED BY <2>3, <2>4, <2>5, KeylessVerified
  <1>5. CASE n.gate = 2
    <2> DEFINE o == pin_tick(n, look)
               m == [o.n EXCEPT !.gate = 3]
    <2>1. Verified(n, o)
      BY PinTickOut
    <2>2. out \in {Run(m), o}
      BY <1>5 DEF gate_step
    <2> HIDE DEF o, out
    <2>3. m \in EngineStates
      BY <1>1, <1>2, <2>1, OutcomeFields DEF Verified
    <2> HIDE DEF m
    <2> QED BY <2>1, <2>2, <2>3, KeylessVerified
  <1>6. CASE n.gate = 3
    <2> DEFINE o == Expect(n, s, NoKey, look, FALSE)
               m == [o.n EXCEPT !.gate = 0]
    <2>1. StepResult(n, NoKey, o)
      BY ExpectStep, Words
    <2>2. out \in {o, [o EXCEPT !.n.gate = 0]}
      BY <1>6 DEF gate_step
    <2> HIDE DEF o, out
    <2>3. Verified(n, o) /\ o \in Outcomes /\ o.n \in EngineStates
      BY <2>1, StepTyped, Words
    <2>4. m \in EngineStates /\ m.phase = o.n.phase
      BY <1>1, <1>2, <2>3
    <2>5. [o EXCEPT !.n.gate = 0] = [o EXCEPT !.n = m]
      BY <2>3 DEF Outcomes
    <2> HIDE DEF m
    <2>6. Verified(n, [o EXCEPT !.n = m])
      BY <2>1, <2>4, Tidied, Words
    <2> QED BY <2>2, <2>3, <2>5, <2>6
  <1> QED BY <1>1, <1>3, <1>4, <1>5, <1>6

LEMMA MoveOut ==
  ASSUME NEW n \in EngineStates, NEW s \in ScrapeStep, NEW look \in Looks
  PROVE  Verified(n, Move(n, s, look))
  <1>1. /\ s.kind \in {"menu", "band", "seek", "emit", "gate", "press"} /\ s.key \in Pressed
        /\ s.span \in Nat /\ s.target \in 0 .. MenuN /\ s.wraps \in BOOLEAN
    BY DEF ScrapeStep, Pressed
  <1>2. CASE s.kind = "menu"
    <2>1. Move(n, s, look) = menu_select(n, look, s.target, s.wraps)
      BY <1>2 DEF Move
    <2> QED BY <1>1, <2>1, MenuSelectOut
  <1>3. CASE s.kind = "band"
    <2>1. Move(n, s, look) = seek_selected(n, look, s.span)
      BY <1>3 DEF Move
    <2> QED BY <1>1, <2>1, SeekSelectedOut
  <1>4. CASE s.kind = "seek"
    <2>1. Move(n, s, look) = seek_press(n, look, s.key, s.span)
      BY <1>4 DEF Move
    <2> QED BY <1>1, <2>1, SeekPressOut
  <1>5. CASE s.kind = "emit"
    <2>1. Move(n, s, look) = Ok(n)
      BY <1>5 DEF Move
    <2> QED BY <2>1, KeylessVerified
  <1>6. CASE s.kind = "gate"
    <2>1. Move(n, s, look) = gate_step(n, s, look)
      BY <1>6 DEF Move
    <2> QED BY <2>1, GateOut
  <1>7. CASE s.kind = "press"
    <2>1. Move(n, s, look) = Expect(n, s, s.key, look, TRUE)
      BY <1>7 DEF Move
    <2> QED BY <1>1, <2>1, ExpectStep, StepVerified
  <1> QED BY <1>1, <1>2, <1>3, <1>4, <1>5, <1>6, <1>7

-----------------------------------------------------------------------------
(* The invariant *)

\* A walk that can be remembered remembers all it published and where it began.
WalkInv ==
  st = "ROUTE" /\ pos.w > 0 /\ route[pos.i].emit /\ route[pos.i].walk \in 2 .. SeenMax
    => seen = shown /\ Cardinality(seen) <= pos.w + 1

\* A cycle begins with nothing under way, at the first step.
BeginInv ==
  /\ st = "IDLE" => eng.phase = 0 /\ eng.esc = 0
  /\ st \in {"IDLE", "ANCHOR"} => pos = Start

\* As long as the Esc is owed, the request stands and no anchor phase is under way:
\* one begins with that Esc.
OwedInv == owed => resync /\ st # "ANCHOR"

IInv == TypeOK /\ IsFiniteSet(seen) /\ WalkInv /\ BeginInv /\ OwedInv

\* What the three properties say of a step.
Disciplined ==
  /\ parking /\ did'.press \notin {NoKey, "ESC"} => eng.phase # 0 /\ did'.press = eng.key
  /\ st = "ROUTE" /\ did'.emit # NoView /\ route[pos.i].walk \in 2 .. SeenMax
       => did'.emit \notin (IF pos.w = 0 THEN {last} ELSE shown)
  /\ TrustsScreen => ~owed'

-----------------------------------------------------------------------------
(* The passes of tick *)

\* What every pass does besides its mode.
Around ==
  /\ pass' = ~pass /\ owed' = (owed /\ ~(Mode = "ANCHOR" /\ did'.press = "ESC"))
  /\ UNCHANGED owner

Dids == [press : Pressed, emit : Views \cup {NoView}]

LEMMA DidTyped ==
  /\ Nothing \in Dids /\ Nothing.press = NoKey /\ Nothing.emit = NoView
  /\ \A key \in Pressed : Pressing(key) \in Dids /\ Pressing(key).press = key
                          /\ Pressing(key).emit = NoView
  /\ \A view \in Views : [Nothing EXCEPT !.emit = view] \in Dids
                         /\ [Nothing EXCEPT !.emit = view].press = NoKey
                         /\ [Nothing EXCEPT !.emit = view].emit = view
  BY Words DEF Dids, Nothing, Pressing

LEMMA RouteTyped ==
  ASSUME TypeOK
  PROVE  /\ Len(route) \in Nat /\ \A i \in 1 .. Len(route) : route[i] \in ScrapeStep
         /\ route # <<>> => 1 <= Len(route)
         /\ route \in Seq(ScrapeStep)
  <1>1. route \in Seq(ScrapeStep)
    BY NavAssumption DEF TypeOK
  <1> QED BY <1>1

LEMMA StartTyped ==
  ASSUME NEW len \in Nat
  PROVE  Start \in [i : 1 .. len + 1, e : 0 .. 1, w : Nat] /\ Start.i = 1 /\ Start.w = 0
  BY DEF Start

\* The sub-state is put back.
LEMMA Resets ==
  ASSUME TypeOK, reset_sub, UNCHANGED owner
  PROVE  /\ eng' \in EngineStates /\ eng'.phase = 0 /\ eng'.esc = 0
         /\ pos' = Start /\ pos' \in [i : 1 .. Len(route') + 1, e : 0 .. 1, w : Nat] /\ pos'.w = 0
         /\ seen' \subseteq Views \cup {NoView} /\ IsFiniteSet(seen') /\ Cardinality(seen') <= SeenMax
         /\ last' \in Views \cup {NoView} /\ shown' \subseteq Views \cup {NoView}
  <1>1. pos' = Start /\ seen' = {} /\ last' = NoView /\ shown' = {} /\ eng' = Fresh /\ route' = route
    BY DEF reset_sub, owner
  <1>2. IsFiniteSet({}) /\ Cardinality({}) <= SeenMax
    BY FS_EmptySet, NavAssumption
  <1> QED BY <1>1, <1>2, FreshTyped, RouteTyped, StartTyped

\* What the mode left alone keeps its part of the invariant.
LEMMA OwnerKept ==
  ASSUME TypeOK, Around
  PROVE  /\ enabled' \in BOOLEAN /\ route' \in Routes /\ enrolled' \in BOOLEAN /\ pass' \in BOOLEAN
         /\ owed' \in BOOLEAN /\ route' = route
  BY DEF Around, owner, TypeOK

LEMMA ScheduleKept ==
  ASSUME TypeOK, UNCHANGED schedule
  PROVE  fails' \in 0 .. BackoffCap /\ wait' \in 0 .. Cap
  BY DEF TypeOK, schedule

LEMMA ParkKept ==
  ASSUME TypeOK, UNCHANGED park_vars
  PROVE  park_req' \in BOOLEAN /\ parked_ok' \in BOOLEAN /\ park_t' \in 0 .. ParkCap
  BY DEF TypeOK, park_vars

LEMMA SubKept ==
  ASSUME IInv, UNCHANGED <<sub, shown>>, route' = route
  PROVE  /\ pos' = pos /\ pos' \in [i : 1 .. Len(route') + 1, e : 0 .. 1, w : Nat]
         /\ seen' \subseteq Views \cup {NoView} /\ IsFiniteSet(seen') /\ Cardinality(seen') <= SeenMax
         /\ last' \in Views \cup {NoView} /\ shown' \subseteq Views \cup {NoView}
  BY DEF IInv, TypeOK, sub

\* A failed cycle recovers; a finished one waits for the next.
LEMMA Fails ==
  ASSUME IInv, Around, fail_, UNCHANGED park_vars, did' \in Dids, resync' \in BOOLEAN,
         owed' => resync'
  PROVE  IInv' /\ st' = "RECOVER"
  <1>1. TypeOK /\ reset_sub /\ UNCHANGED <<owner, schedule>> /\ st' = "RECOVER"
    BY DEF IInv, fail_, Around
  <1>2. TypeOK' /\ IsFiniteSet(seen)'
    BY <1>1, Resets, OwnerKept, ScheduleKept, ParkKept DEF TypeOK, Dids, Pressed
  <1>3. WalkInv' /\ BeginInv' /\ OwedInv'
    BY <1>1 DEF WalkInv, BeginInv, OwedInv
  <1> QED BY <1>1, <1>2, <1>3 DEF IInv

LEMMA Finishes ==
  ASSUME IInv, Around, NEW ok \in BOOLEAN, finish_(ok), UNCHANGED <<resync, park_vars>>,
         did' \in Dids, owed' => resync'
  PROVE  IInv' /\ st' = "IDLE"
  <1>1. TypeOK /\ reset_sub /\ UNCHANGED owner /\ UNCHANGED park_vars /\ st' = "IDLE"
    BY DEF IInv, finish_, Around
  <1>2. fails' \in 0 .. BackoffCap /\ wait' \in 0 .. Cap
    <2>1. fails' \in 0 .. BackoffCap /\ wait' = Backoff[fails']
      BY <1>1, NavAssumption DEF finish_, TypeOK
    <2> QED BY <2>1, WaitsCapped
  <1>3. resync' \in BOOLEAN
    BY <1>1 DEF TypeOK
  <1>4. TypeOK' /\ IsFiniteSet(seen)'
    BY <1>1, <1>2, <1>3, Resets, OwnerKept, ParkKept DEF TypeOK, Dids, Pressed
  <1>5. WalkInv' /\ BeginInv' /\ OwedInv'
    BY <1>1, Resets DEF WalkInv, BeginInv, OwedInv
  <1> QED BY <1>1, <1>4, <1>5 DEF IInv

\* The primitive goes on, or hands over to the next mode.
LEMMA Continues ==
  ASSUME IInv, Around, NEW mode \in {"ANCHOR", "ROUTE", "ANCHOR_END", "RECOVER"},
         NEW n \in EngineStates, Continue(mode, n), UNCHANGED park_vars, did' \in Dids,
         resync' \in BOOLEAN, owed' => resync' /\ mode # "ANCHOR",
         mode \in {"ANCHOR", "ROUTE"} => pos = Start,
         mode = "ROUTE" => route # <<>>
  PROVE  IInv' /\ st' = mode
  <1>1. /\ TypeOK /\ UNCHANGED schedule /\ UNCHANGED <<sub, shown>> /\ route' = route
        /\ st' = mode /\ eng' = n /\ pos' = pos
    BY OwnerKept DEF IInv, Continue, sub
  <1>2. mode = "ROUTE" => pos'.i <= Len(route') /\ pos'.w = 0
    BY <1>1, RouteTyped, StartTyped
  <1>3. st' \in {"IDLE", "ANCHOR", "ROUTE", "ANCHOR_END", "RECOVER", "PARK"} /\ st' # "IDLE"
    BY <1>1
  <1>4. TypeOK' /\ IsFiniteSet(seen)'
    BY <1>1, <1>2, <1>3, OwnerKept, ScheduleKept, ParkKept, SubKept DEF TypeOK, Dids, Pressed
  <1>5. WalkInv' /\ BeginInv' /\ OwedInv'
    BY <1>1, <1>2, <1>3 DEF WalkInv, BeginInv, OwedInv
  <1> QED BY <1>1, <1>4, <1>5 DEF IInv

\* Neither an Esc nor a lost press repeated breaks the discipline.
LEMMA EscDisciplined ==
  ASSUME NEW first \in BOOLEAN, NEW n, n = eng \/ n.phase = 0, NEW o, AnchorOut(n, first, o),
         did' = Pressing(o.press), TrustsScreen => ~owed'
  PROVE  Disciplined /\ did' \in Dids /\ did'.press = o.press
  <1>1. /\ o.press \in Pressed /\ (n.phase # 0 => o.press \in {NoKey, n.key})
        /\ (n.phase = 0 => o.press \in {NoKey, "ESC"})
    BY OutcomeFields DEF AnchorOut, Verified
  <1>2. did' \in Dids /\ did'.press = o.press /\ did'.emit = NoView
    BY <1>1, DidTyped
  <1> QED BY <1>1, <1>2 DEF Disciplined

LEMMA ModeStates ==
  ASSUME IInv
  PROVE  /\ Mode = "IDLE" => st = "IDLE"
         /\ Mode = "ANCHOR" => st \in {"IDLE", "ANCHOR"} /\ pos = Start
         /\ Mode = "ROUTE" => st = "ROUTE" /\ (park_req => eng.phase # 0)
         /\ Mode = "ANCHOR_END" => st = "ANCHOR_END"
         /\ Mode = "RECOVER" => st = "RECOVER"
         /\ Mode = "PARK" => Parks \/ st = "PARK"
  <1>1. CASE Parks
    BY <1>1 DEF Mode
  <1>2. CASE ~Parks /\ Starts
    BY <1>2 DEF Mode, Starts, IInv, BeginInv
  <1>3. CASE ~Parks /\ ~Starts
    BY <1>3 DEF Mode, Parks, Live, IInv, BeginInv
  <1> QED BY <1>1, <1>2, <1>3

LEMMA IdlePass ==
  ASSUME IInv, Around, Mode = "IDLE", Idle
  PROVE  IInv' /\ Disciplined
  <1>1. /\ TypeOK /\ st = "IDLE" /\ did' = Nothing /\ UNCHANGED <<sub, shown>>
        /\ UNCHANGED <<st, eng, resync>> /\ UNCHANGED schedule /\ UNCHANGED park_vars
        /\ route' = route /\ pos' = pos /\ did' \in Dids
        /\ did'.press = NoKey /\ did'.emit = NoView
    BY ModeStates, DidTyped, OwnerKept DEF Idle, IInv, sub
  <1>2. TypeOK' /\ IsFiniteSet(seen)'
    BY <1>1, OwnerKept, ScheduleKept, ParkKept, SubKept DEF TypeOK, Dids, Pressed
  <1>3. WalkInv' /\ BeginInv' /\ OwedInv'
    BY <1>1 DEF WalkInv, IInv, BeginInv, OwedInv, Around
  <1>4. Disciplined
    BY <1>1 DEF Disciplined, TrustsScreen
  <1> QED BY <1>2, <1>3, <1>4 DEF IInv

LEMMA AnchorPass ==
  ASSUME IInv, Around, Mode = "ANCHOR", NEW look \in Looks, Anchor(eng, look)
  PROVE  IInv' /\ Disciplined
  <1> DEFINE o == esc_anchor(eng, look, resync)
  <1>1. /\ resync' = (resync /\ o.r = "RUN") /\ did' = Pressing(o.press) /\ UNCHANGED park_vars
        /\ o.r = "RUN" => Continue("ANCHOR", o.n)
        /\ o.r = "OK" => Continue(IF route = <<>> THEN "ANCHOR_END" ELSE "ROUTE", o.n)
        /\ o.r = "FAIL" => fail_
    BY DEF Anchor
  <1>2. eng \in EngineStates /\ resync \in BOOLEAN /\ st \in {"IDLE", "ANCHOR"} /\ pos = Start
    BY ModeStates DEF IInv, TypeOK
  <1>3. AnchorOut(eng, resync, o)
    BY <1>2, EscAnchorOut
  <1> HIDE DEF o
  <1>4. o.r \in Results /\ o.n \in EngineStates /\ o.press \in Pressed
    BY <1>3, OutcomeFields DEF AnchorOut, Verified
  <1>5. did' \in Dids /\ did'.press = o.press /\ resync' \in BOOLEAN
    BY <1>1, <1>2, <1>4, DidTyped
  <1>6. ~owed'
    <2> SUFFICES ASSUME owed PROVE did'.press = "ESC"
      BY DEF Around
    <2>1. st = "IDLE" /\ resync /\ eng.phase = 0 /\ eng.esc = 0
      BY <1>2 DEF IInv, OwedInv, BeginInv
    <2> QED BY <1>3, <1>5, <2>1 DEF AnchorOut
  <1>7. Disciplined
    BY <1>1, <1>2, <1>3, <1>6, EscDisciplined
  <1>8. IInv'
    <2>1. CASE o.r = "RUN"
      BY <1>1, <1>2, <1>4, <1>5, <1>6, <2>1, Continues
    <2>2. CASE o.r = "OK"
      <3>1. CASE route = <<>>
        BY <1>1, <1>2, <1>4, <1>5, <1>6, <2>2, <3>1, Continues
      <3>2. CASE route # <<>>
        BY <1>1, <1>2, <1>4, <1>5, <1>6, <2>2, <3>2, Continues
      <3> QED BY <3>1, <3>2
    <2>3. CASE o.r = "FAIL"
      BY <1>1, <1>5, <1>6, <2>3, Fails
    <2> QED BY <1>4, <2>1, <2>2, <2>3 DEF Results
  <1> QED BY <1>7, <1>8

\* The Esc back to the anchor, at the end of the route or after a failure.
LEMMA ReturnPass ==
  ASSUME IInv, Around, NEW look \in Looks,
         \/ Mode = "ANCHOR_END" /\ AnchorEnd(look)
         \/ Mode = "RECOVER" /\ Recover(look)
  PROVE  IInv' /\ Disciplined
  <1> DEFINE o == esc_anchor(eng, look, FALSE)
  <1>1. /\ did' = Pressing(o.press) /\ UNCHANGED <<resync, park_vars>>
        /\ st \in {"ANCHOR_END", "RECOVER"}
        /\ \/ Continue(st, o.n)
           \/ fail_
           \/ \E ok \in BOOLEAN : finish_(ok)
    <2>1. CASE Mode = "ANCHOR_END" /\ AnchorEnd(look)
      <3>1. st = "ANCHOR_END" /\ eng \in EngineStates
        BY <2>1, ModeStates DEF IInv, TypeOK
      <3>2. o.r \in Results
        BY <3>1, EscAnchorOut, OutcomeFields DEF AnchorOut, Verified
      <3>3. /\ did' = Pressing(o.press) /\ UNCHANGED <<resync, park_vars>>
            /\ o.r = "RUN" => Continue("ANCHOR_END", o.n)
            /\ o.r = "OK" => finish_(TRUE)
            /\ o.r = "FAIL" => fail_
        BY <2>1 DEF AnchorEnd
      <3> HIDE DEF o
      <3> QED BY <3>1, <3>2, <3>3 DEF Results
    <2>2. CASE Mode = "RECOVER" /\ Recover(look)
      <3>1. st = "RECOVER"
        BY <2>2, ModeStates
      <3>2. /\ did' = Pressing(o.press) /\ UNCHANGED <<resync, park_vars>>
            /\ Continue("RECOVER", o.n) \/ finish_(FALSE)
        BY <2>2 DEF Recover
      <3> HIDE DEF o
      <3> QED BY <3>1, <3>2
    <2> QED BY <2>1, <2>2
  <1>2. eng \in EngineStates /\ AnchorOut(eng, FALSE, o)
    BY EscAnchorOut DEF IInv, TypeOK
  <1> HIDE DEF o
  <1>3. o.n \in EngineStates /\ o.press \in Pressed
    BY <1>2, OutcomeFields DEF AnchorOut, Verified
  <1>4. resync' \in BOOLEAN /\ UNCHANGED park_vars
    BY <1>1 DEF IInv, TypeOK
  <1>5. owed' => resync'
    BY <1>1 DEF Around, IInv, OwedInv
  <1>6. Disciplined /\ did' \in Dids
    <2>1. ~TrustsScreen
      BY <1>1 DEF TrustsScreen
    <2> QED BY <1>1, <1>2, <2>1, EscDisciplined
  <1>7. IInv'
    <2>1. CASE Continue(st, o.n)
      BY <1>1, <1>3, <1>4, <1>5, <1>6, <2>1, Continues
    <2>2. CASE fail_
      BY <1>4, <1>5, <1>6, <2>2, Fails
    <2>3. ASSUME NEW ok \in BOOLEAN, finish_(ok) PROVE IInv'
      BY <1>1, <1>5, <1>6, <2>3, Finishes
    <2> QED BY <1>1, <2>1, <2>2, <2>3
  <1> QED BY <1>6, <1>7

LEMMA ParkPass ==
  ASSUME IInv, Around, Mode = "PARK", NEW look \in Looks,
         Park(IF Parks THEN Fresh ELSE eng, IF Parks THEN 0 ELSE park_t, look)
  PROVE  IInv' /\ Disciplined
  <1> DEFINE n == IF Parks THEN Fresh ELSE eng
             t == IF Parks THEN 0 ELSE park_t
             o == esc_anchor(n, look, FALSE)
             r == IF o.r = "RUN" /\ o.n.phase = 0 /\ t >= ParkCap THEN "FAIL" ELSE o.r
  <1>1. TypeOK /\ n \in EngineStates /\ (n = eng \/ n.phase = 0) /\ {t, 0} \subseteq 0 .. ParkCap
    <2>1. TypeOK /\ eng \in EngineStates /\ park_t \in 0 .. ParkCap /\ 0 \in 0 .. ParkCap
      BY NavAssumption DEF IInv, TypeOK
    <2> QED BY <2>1, FreshTyped
  <1>2. /\ did' = Pressing(o.press) /\ park_req' = FALSE
        /\ park_t' = (IF r = "RUN" THEN t ELSE 0) /\ parked_ok' = (r = "OK")
        /\ st' = (IF r = "RUN" THEN "PARK" ELSE "IDLE")
        /\ eng' = (IF r = "RUN" THEN o.n ELSE Fresh)
        /\ pos' = Start /\ seen' = {} /\ last' = NoView /\ shown' = {}
        /\ resync' = resync /\ UNCHANGED schedule
    BY DEF Park
  <1>3. owed' => resync
    BY DEF Around, IInv, OwedInv
  <1> HIDE DEF n, t
  <1>4. AnchorOut(n, FALSE, o)
    BY <1>1, EscAnchorOut
  <1> HIDE DEF o
  <1>5. o.r \in Results /\ o.n \in EngineStates /\ o.press \in Pressed
    BY <1>4, OutcomeFields DEF AnchorOut, Verified
  <1>6. Disciplined /\ did' \in Dids /\ did'.press = o.press
    <2>1. ~TrustsScreen
      BY <1>2 DEF TrustsScreen
    <2> QED BY <1>1, <1>2, <1>4, <2>1, EscDisciplined
  <1>7. eng' \in EngineStates /\ st' \in {"IDLE", "PARK"} /\ park_t' \in 0 .. ParkCap
    BY <1>1, <1>2, <1>5, FreshTyped
  <1>8. OwedInv'
    BY <1>2, <1>3, <1>7 DEF OwedInv
  <1>9. WalkInv' /\ BeginInv'
    BY <1>2, <1>7, FreshTyped DEF WalkInv, BeginInv
  <1>10. TypeOK' /\ IsFiniteSet(seen)'
    <2>1. IsFiniteSet({}) /\ Cardinality({}) <= SeenMax
      BY FS_EmptySet, NavAssumption
    <2>2. resync' \in BOOLEAN /\ parked_ok' \in BOOLEAN /\ route' = route
      BY <1>1, <1>2, OwnerKept DEF TypeOK
    <2>3. pos' \in [i : 1 .. Len(route') + 1, e : 0 .. 1, w : Nat]
      BY <1>1, <1>2, <2>2, RouteTyped, StartTyped
    <2> HIDE DEF r
    <2> QED BY <1>1, <1>2, <1>6, <1>7, <2>1, <2>2, <2>3, OwnerKept, ScheduleKept
            DEF TypeOK, Dids, Pressed
  <1> QED BY <1>6, <1>8, <1>9, <1>10 DEF IInv

\* A pass of the route presses nothing but the lost key of its step, once that step
\* is under way: the emit begins with no key, the move has no step left.
LEMMA RouteOut ==
  ASSUME IInv, st = "ROUTE", NEW look \in Looks
  PROVE  LET s == route[pos.i]
             m == IF pos.e = 0 THEN Move(eng, s, look) ELSE Ok(eng)
             o == IF s.emit /\ m.r = "OK" THEN step(m.n, NoKey, Sure(look), 0, TRUE) ELSE m
         IN  /\ s \in ScrapeStep /\ o \in Outcomes /\ o.r \in Results /\ o.n \in EngineStates
             /\ o.press \in Pressed /\ (eng.phase # 0 => o.press \in {NoKey, eng.key})
  <1> DEFINE s == route[pos.i]
             m == IF pos.e = 0 THEN Move(eng, s, look) ELSE Ok(eng)
             e == step(m.n, NoKey, Sure(look), 0, TRUE)
             o == IF s.emit /\ m.r = "OK" THEN e ELSE m
  <1>1. eng \in EngineStates /\ pos.i \in 1 .. Len(route) /\ TypeOK
    <2>1. TypeOK /\ eng \in EngineStates /\ pos.i \in 1 .. Len(route) + 1 /\ pos.i <= Len(route)
      BY DEF IInv, TypeOK
    <2> QED BY <2>1, RouteTyped
  <1>2. s \in ScrapeStep
    BY <1>1, RouteTyped
  <1> HIDE DEF s
  <1>3. Verified(eng, m)
    BY <1>1, <1>2, MoveOut, KeylessVerified
  <1> HIDE DEF m
  <1>4. m \in Outcomes /\ m.n \in EngineStates
    BY <1>3, OutcomeFields DEF Verified
  <1>5. StepResult(m.n, NoKey, e)
    BY <1>4, StepOut, SureTyped, Words
  <1> HIDE DEF e
  <1>6. o \in Outcomes
    BY <1>4, <1>5 DEF StepResult
  <1>7. eng.phase # 0 => o.press \in {NoKey, eng.key}
    <2>1. CASE s.emit /\ m.r = "OK"
      BY <1>3, <1>5, <2>1 DEF Verified, StepResult
    <2>2. CASE ~(s.emit /\ m.r = "OK")
      BY <1>3, <2>2 DEF Verified
    <2> QED BY <2>1, <2>2
  <1> HIDE DEF o
  <1>8. /\ s \in ScrapeStep /\ o \in Outcomes /\ o.r \in Results /\ o.n \in EngineStates
        /\ o.press \in Pressed /\ (eng.phase # 0 => o.press \in {NoKey, eng.key})
    BY <1>2, <1>6, <1>7, OutcomeFields
  <1> QED BY <1>8 DEF o, e, m, s

LEMMA Advances ==
  ASSUME IInv, st = "ROUTE", NEW s, s = route[pos.i], s \in ScrapeStep, NEW n \in EngineStates,
         NEW wrapped \in BOOLEAN, Advance(s, n, wrapped), route' = route
  PROVE  /\ UNCHANGED schedule /\ eng' = n /\ st' \in {"ROUTE", "ANCHOR_END"}
         /\ pos' \in [i : 1 .. Len(route') + 1, e : 0 .. 1, w : Nat]
         /\ st' = "ROUTE" => pos'.i <= Len(route')
         /\ \/ pos'.w = 0
            \/ ~wrapped /\ pos'.i = pos.i /\ pos'.w = pos.w + 1 /\ pos.w + 1 < s.walk
  <1> DEFINE done == wrapped \/ pos.w + 1 >= s.walk
  <1>1. /\ eng' = n /\ UNCHANGED schedule
        /\ pos' = IF done THEN [Start EXCEPT !.i = pos.i + 1] ELSE [pos EXCEPT !.e = 0, !.w = pos.w + 1]
        /\ st' = IF done /\ pos.i = Len(route) THEN "ANCHOR_END" ELSE "ROUTE"
    BY DEF Advance
  <1>2. /\ pos \in [i : 1 .. Len(route) + 1, e : 0 .. 1, w : Nat] /\ pos.i <= Len(route)
        /\ pos.w \in Nat /\ pos.i \in 1 .. Len(route) + 1 /\ Len(route) \in Nat /\ s.walk \in Nat
    BY RouteTyped DEF IInv, TypeOK, ScrapeStep
  <1>3. CASE done
    <2>1. /\ pos' = [Start EXCEPT !.i = pos.i + 1]
          /\ st' = IF pos.i = Len(route) THEN "ANCHOR_END" ELSE "ROUTE"
      BY <1>1, <1>3
    <2>2. pos' = [i |-> pos.i + 1, e |-> 0, w |-> 0]
      BY <2>1 DEF Start
    <2> HIDE DEF done
    <2>3. pos'.i = pos.i + 1 /\ pos'.w = 0 /\ pos'.e = 0
      BY <2>2
    <2>4. /\ pos.i + 1 \in 1 .. Len(route) + 1 /\ 0 \in 0 .. 1 /\ 0 \in Nat
          /\ pos.i # Len(route) => pos.i + 1 <= Len(route)
      BY <1>2
    <2>5. pos' \in [i : 1 .. Len(route) + 1, e : 0 .. 1, w : Nat]
      BY <2>2, <2>4
    <2>6. st' \in {"ROUTE", "ANCHOR_END"} /\ (st' = "ROUTE" => pos'.i <= Len(route))
      BY <2>1, <2>3, <2>4
    <2> QED BY <1>1, <2>3, <2>5, <2>6
  <1>4. CASE ~done
    <2>1. pos' = [pos EXCEPT !.e = 0, !.w = pos.w + 1] /\ st' = "ROUTE"
      BY <1>1, <1>4
    <2>2. ~wrapped /\ pos.w + 1 < s.walk
      BY <1>2, <1>4
    <2> HIDE DEF done
    <2>3. /\ pos'.i = pos.i /\ pos'.w = pos.w + 1
          /\ pos' \in [i : 1 .. Len(route) + 1, e : 0 .. 1, w : Nat]
      <3>1. 0 \in 0 .. 1 /\ pos.w + 1 \in Nat
        BY <1>2
      <3>2. pos' = [i |-> pos.i, e |-> 0, w |-> pos.w + 1]
        BY <1>2, <2>1
      <3> QED BY <1>2, <3>1, <3>2
    <2> QED BY <1>1, <1>2, <2>1, <2>2, <2>3
  <1> QED BY <1>3, <1>4

LEMMA Publishes ==
  ASSUME IInv, Around, st = "ROUTE", NEW s, s = route[pos.i], s \in ScrapeStep, s.emit,
         NEW n \in EngineStates, NEW look \in Looks, NEW view \in Views,
         Publish(s, n, look, view), UNCHANGED <<resync, park_vars>>
  PROVE  IInv' /\ Disciplined
  <1> DEFINE known == Remembered(s)
             wrapped == s.walk > 1 /\ view \in known
             before == IF pos.w = 0 THEN {last} ELSE shown
  <1>1. /\ Advance(s, n, wrapped)
        /\ seen' = (IF wrapped THEN known ELSE Noted(s, view))
        /\ last' = (IF wrapped THEN last ELSE view)
        /\ did' = (IF wrapped THEN Nothing ELSE [Nothing EXCEPT !.emit = view])
        /\ shown' = before \cup {view}
        /\ UNCHANGED park_vars /\ resync' = resync
    BY DEF Publish
  <1>2. /\ TypeOK /\ s.walk \in Nat /\ pos.w \in Nat /\ SeenMax \in Nat \ {0}
        /\ view \in Views \cup {NoView} /\ view # NoView
        /\ last \in Views \cup {NoView} /\ seen \subseteq Views \cup {NoView}
        /\ shown \subseteq Views \cup {NoView} /\ IsFiniteSet(seen) /\ Cardinality(seen) <= SeenMax
        /\ resync \in BOOLEAN
    BY NavAssumption DEF IInv, TypeOK, ScrapeStep
  <1>3. /\ known \subseteq Views \cup {NoView} /\ IsFiniteSet(known)
        /\ Cardinality(known) <= SeenMax /\ Cardinality(known) \in Nat
        /\ s.walk > 1 /\ pos.w = 0 => Cardinality(known) = 1
    <2>1. IsFiniteSet({last}) /\ Cardinality({last}) = 1
      BY FS_Singleton
    <2>2. known = {last} \/ (known = seen /\ ~(s.walk > 1 /\ pos.w = 0))
      BY DEF Remembered
    <2> HIDE DEF known
    <2>3. CASE known = {last}
      <3>1. Cardinality(known) = 1 /\ 1 <= SeenMax /\ 1 \in Nat
        BY <1>2, <2>1, <2>3
      <3> QED BY <1>2, <2>1, <2>3, <3>1
    <2>4. CASE known = seen /\ ~(s.walk > 1 /\ pos.w = 0)
      BY <1>2, <2>4, FS_CardinalityType
    <2> QED BY <2>2, <2>3, <2>4
  <1>4. s.walk \in 2 .. SeenMax => known = before /\ Cardinality(known) <= pos.w + 1
    <2> SUFFICES ASSUME s.walk \in 2 .. SeenMax PROVE known = before /\ Cardinality(known) <= pos.w + 1
      OBVIOUS
    <2>1. s.walk > 1
      BY <1>2
    <2>2. CASE pos.w = 0
      BY <1>3, <2>1, <2>2 DEF Remembered
    <2>3. CASE pos.w # 0
      <3>1. seen = shown /\ Cardinality(seen) <= pos.w + 1
        BY <1>2, <2>3 DEF IInv, WalkInv
      <3> QED BY <2>3, <3>1 DEF Remembered
    <2> QED BY <2>2, <2>3
  <1>5. Noted(s, view) = IF s.walk > 1 /\ Cardinality(known) < SeenMax THEN known \cup {view} ELSE known
    BY DEF Noted
  <1>6. wrapped \in BOOLEAN
    OBVIOUS
  <1>7. ~wrapped /\ s.walk > 1 => view \notin known
    OBVIOUS
  <1> HIDE DEF known, wrapped, before
  <1>8. /\ view \notin known => /\ IsFiniteSet(known \cup {view})
                                /\ Cardinality(known \cup {view}) = Cardinality(known) + 1
    BY <1>3, FS_AddElement
  <1>9. /\ UNCHANGED schedule /\ eng' = n /\ st' \in {"ROUTE", "ANCHOR_END"}
        /\ pos' \in [i : 1 .. Len(route') + 1, e : 0 .. 1, w : Nat]
        /\ st' = "ROUTE" => pos'.i <= Len(route')
        /\ \/ pos'.w = 0
           \/ ~wrapped /\ pos'.i = pos.i /\ pos'.w = pos.w + 1 /\ pos.w + 1 < s.walk
    BY <1>1, <1>2, <1>6, Advances, OwnerKept
  <1>10. seen' \subseteq Views \cup {NoView} /\ IsFiniteSet(seen') /\ Cardinality(seen') <= SeenMax
    <2>1. CASE wrapped
      BY <1>1, <1>3, <2>1
    <2>2. CASE ~wrapped
      <3>1. CASE s.walk > 1 /\ Cardinality(known) < SeenMax
        <4>1. seen' = known \cup {view} /\ view \notin known
          BY <1>1, <1>5, <1>7, <2>2, <3>1
        <4>2. IsFiniteSet(seen') /\ Cardinality(seen') = Cardinality(known) + 1
          BY <1>8, <4>1
        <4> QED BY <1>2, <1>3, <3>1, <4>1, <4>2
      <3>2. CASE ~(s.walk > 1 /\ Cardinality(known) < SeenMax)
        BY <1>1, <1>3, <1>5, <2>2, <3>2
      <3> QED BY <3>1, <3>2
    <2> QED BY <2>1, <2>2
  <1>11. /\ did' \in Dids /\ did'.press = NoKey
         /\ did'.emit = (IF wrapped THEN NoView ELSE view)
    BY <1>1, DidTyped
  <1>12. before \subseteq Views \cup {NoView}
    BY <1>2 DEF before
  <1>13. TypeOK' /\ IsFiniteSet(seen)'
    <2>1. last' \in Views \cup {NoView} /\ shown' \subseteq Views \cup {NoView}
      BY <1>1, <1>2, <1>12
    <2> QED BY <1>1, <1>2, <1>9, <1>10, <1>11, <2>1, OwnerKept, ScheduleKept, ParkKept
            DEF TypeOK, Dids, Pressed
  <1>14. WalkInv'
    <2> SUFFICES ASSUME st' = "ROUTE", pos'.w > 0, route'[pos'.i].walk \in 2 .. SeenMax
                 PROVE  seen' = shown' /\ Cardinality(seen') <= pos'.w + 1
      BY DEF WalkInv
    <2>1. ~wrapped /\ pos'.i = pos.i /\ pos'.w = pos.w + 1 /\ pos.w + 1 < s.walk
      BY <1>9
    <2>2. s.walk \in 2 .. SeenMax /\ s.walk > 1
      BY <1>2, <2>1, OwnerKept
    <2>3. known = before /\ Cardinality(known) <= pos.w + 1 /\ Cardinality(known) < SeenMax
      BY <1>2, <1>3, <1>4, <2>1, <2>2
    <2>4. seen' = known \cup {view} /\ view \notin known
      BY <1>1, <1>5, <1>7, <2>1, <2>2, <2>3
    <2>5. Cardinality(seen') = Cardinality(known) + 1
      BY <1>8, <2>4
    <2> QED BY <1>1, <1>2, <1>3, <2>1, <2>3, <2>4, <2>5
  <1>15. BeginInv' /\ OwedInv'
    BY <1>9 DEF BeginInv, OwedInv, Around, IInv
  <1>16. Disciplined
    <2>1. did'.emit # NoView /\ s.walk \in 2 .. SeenMax => did'.emit \notin before
      BY <1>2, <1>4, <1>7, <1>11
    <2> QED BY <1>11, <2>1 DEF Disciplined, TrustsScreen, before
  <1> QED BY <1>13, <1>14, <1>15, <1>16 DEF IInv

LEMMA RoutePass ==
  ASSUME IInv, Around, Mode = "ROUTE", NEW look \in Looks, NEW view \in Views, Route(look, view)
  PROVE  IInv' /\ Disciplined
  <1> DEFINE s == route[pos.i]
             m == IF pos.e = 0 THEN Move(eng, s, look) ELSE Ok(eng)
             o == IF s.emit /\ m.r = "OK" THEN step(m.n, NoKey, Sure(look), 0, TRUE) ELSE m
  <1>1. TypeOK /\ st = "ROUTE" /\ (park_req => eng.phase # 0) /\ resync \in BOOLEAN
    BY ModeStates DEF IInv, TypeOK
  <1>2. /\ s \in ScrapeStep /\ o \in Outcomes /\ o.r \in Results /\ o.n \in EngineStates
        /\ o.press \in Pressed /\ (eng.phase # 0 => o.press \in {NoKey, eng.key})
    BY <1>1, RouteOut
  <1>3. /\ UNCHANGED <<resync, park_vars>>
        /\ o.r = "FAIL" => fail_ /\ did' = Nothing
        /\ o.r = "OK" /\ s.emit => Publish(s, o.n, look, view)
        /\ o.r = "OK" /\ ~s.emit => /\ Advance(s, o.n, FALSE) /\ did' = Nothing
                                    /\ UNCHANGED <<seen, last, shown>>
        /\ o.r = "RUN" => /\ eng' = o.n /\ pos' = [pos EXCEPT !.e = IF m.r = "OK" THEN 1 ELSE 0]
                          /\ did' = Pressing(o.press)
                          /\ UNCHANGED <<st, seen, last, shown, schedule>>
    BY DEF Route
  <1>4. (owed' => resync') /\ resync' \in BOOLEAN /\ route' = route /\ ~TrustsScreen
    BY <1>1, <1>3, OwnerKept DEF Around, IInv, OwedInv, TrustsScreen
  <1>5. UNCHANGED park_vars /\ (parking => park_req)
    BY <1>1, <1>3 DEF parking
  <1> DEFINE e == IF m.r = "OK" THEN 1 ELSE 0
  <1>6. e \in 0 .. 1
    OBVIOUS
  <1> HIDE DEF s, m, o, e
  <1>7. CASE o.r = "FAIL"
    <2>1. fail_ /\ did' \in Dids /\ did'.press = NoKey /\ did'.emit = NoView
      BY <1>3, <1>7, DidTyped
    <2>2. IInv' /\ st' = "RECOVER"
      BY <1>4, <1>5, <2>1, Fails
    <2> QED BY <1>4, <2>1, <2>2 DEF Disciplined
  <1>8. CASE o.r = "OK" /\ s.emit
    BY <1>1, <1>2, <1>3, <1>8, Publishes DEF s
  <1>9. CASE o.r = "OK" /\ ~s.emit
    <2>1. did' \in Dids /\ did'.press = NoKey /\ did'.emit = NoView /\ UNCHANGED <<seen, last, shown>>
      BY <1>3, <1>9, DidTyped
    <2>2. /\ UNCHANGED schedule /\ eng' = o.n /\ st' \in {"ROUTE", "ANCHOR_END"}
          /\ pos' \in [i : 1 .. Len(route') + 1, e : 0 .. 1, w : Nat]
          /\ st' = "ROUTE" => pos'.i <= Len(route')
          /\ pos'.w = 0 \/ pos'.i = pos.i
      BY <1>1, <1>2, <1>3, <1>4, <1>9, Advances DEF s
    <2>3. TypeOK' /\ IsFiniteSet(seen)'
      BY <1>1, <1>2, <1>4, <1>5, <2>1, <2>2, OwnerKept, ScheduleKept, ParkKept
         DEF TypeOK, IInv, Dids, Pressed
    <2>4. WalkInv' /\ BeginInv' /\ OwedInv'
      BY <1>4, <1>9, <2>2 DEF WalkInv, BeginInv, OwedInv, s
    <2>5. Disciplined
      BY <1>1, <1>4, <2>1 DEF Disciplined
    <2> QED BY <2>3, <2>4, <2>5 DEF IInv
  <1>10. CASE o.r = "RUN"
    <2>1. /\ eng' = o.n /\ pos' = [pos EXCEPT !.e = e] /\ did' = Pressing(o.press)
          /\ UNCHANGED <<st, seen, last, shown>> /\ UNCHANGED schedule
      BY <1>3, <1>10 DEF e
    <2>2. did' \in Dids /\ did'.press = o.press /\ did'.emit = NoView
      BY <1>2, <2>1, DidTyped
    <2>3. /\ pos' \in [i : 1 .. Len(route') + 1, e : 0 .. 1, w : Nat] /\ pos'.i = pos.i
          /\ pos'.w = pos.w /\ pos'.i <= Len(route')
      BY <1>1, <1>4, <1>6, <2>1 DEF TypeOK
    <2>4. TypeOK' /\ IsFiniteSet(seen)'
      BY <1>1, <1>2, <1>4, <1>5, <2>1, <2>2, <2>3, OwnerKept, ScheduleKept, ParkKept
         DEF TypeOK, IInv, Dids, Pressed
    <2>5. WalkInv' /\ BeginInv' /\ OwedInv'
      BY <1>1, <1>4, <2>1, <2>3 DEF IInv, WalkInv, BeginInv, OwedInv
    <2>6. Disciplined
      BY <1>1, <1>2, <1>4, <1>5, <2>1, <2>2 DEF Disciplined
    <2> QED BY <2>4, <2>5, <2>6 DEF IInv
  <1> QED BY <1>2, <1>7, <1>8, <1>9, <1>10 DEF Results

LEMMA TickPass ==
  ASSUME IInv, Tick
  PROVE  IInv' /\ Disciplined
  <1>1. Around
    BY DEF Tick, Around
  <1>2. PICK look \in Looks, view \in Views :
          \/ Mode = "IDLE" /\ Idle
          \/ Mode = "ANCHOR" /\ Anchor(eng, look)
          \/ Mode = "ROUTE" /\ Route(look, view)
          \/ Mode = "ANCHOR_END" /\ AnchorEnd(look)
          \/ Mode = "RECOVER" /\ Recover(look)
          \/ Mode = "PARK" /\ Park(IF Parks THEN Fresh ELSE eng, IF Parks THEN 0 ELSE park_t, look)
    BY DEF Tick
  <1> QED BY <1>1, <1>2, IdlePass, AnchorPass, RoutePass, ReturnPass, ParkPass, Zenon

-----------------------------------------------------------------------------
(* The calls of the owner, the key pump, the clock *)

LEMMA CallKeeps ==
  ASSUME IInv, Calls
  PROVE  IInv' /\ Disciplined
  <1>1. TypeOK /\ IsFiniteSet(seen) /\ WalkInv /\ BeginInv /\ OwedInv
    BY DEF IInv
  <1>2. did' \in Dids /\ did'.press = NoKey /\ did'.emit = NoView /\ pass' = pass
    BY DidTyped DEF Calls
  <1>3. CASE park
    <2>1. /\ UNCHANGED <<eng, resync, owed, shown, pos, seen, last>> /\ UNCHANGED schedule
          /\ UNCHANGED owner
          /\ \/ st = "IDLE" /\ st' = "PARK" /\ park_t' = 0 /\ parked_ok' = FALSE /\ UNCHANGED park_req
             \/ st # "IDLE" /\ park_req' = TRUE /\ UNCHANGED <<st, park_t, parked_ok>>
      BY <1>3 DEF park, sub
    <2>2. 0 \in 0 .. ParkCap
      BY NavAssumption
    <2>3. st' \in {"IDLE", "ANCHOR", "ROUTE", "ANCHOR_END", "RECOVER", "PARK"}
          /\ (st' = st \/ (st = "IDLE" /\ st' = "PARK"))
      BY <1>1, <2>1 DEF TypeOK
    <2>4. TypeOK' /\ IsFiniteSet(seen)'
      BY <1>1, <1>2, <2>1, <2>2, <2>3 DEF TypeOK, Dids, Pressed, schedule, owner
    <2>5. WalkInv' /\ BeginInv' /\ OwedInv'
      BY <1>1, <2>1, <2>3 DEF WalkInv, BeginInv, OwedInv, owner
    <2>6. Disciplined
      BY <1>2, <2>3 DEF Disciplined, TrustsScreen
    <2> QED BY <2>4, <2>5, <2>6 DEF IInv
  <1>4. CASE resync_anchor
    <2>1. /\ UNCHANGED <<st, eng, shown, pos, seen, last>> /\ UNCHANGED park_vars
          /\ UNCHANGED schedule /\ UNCHANGED owner
          /\ resync' = TRUE /\ owed' = (owed \/ st # "ANCHOR")
      BY <1>4 DEF resync_anchor, sub
    <2>2. TypeOK' /\ IsFiniteSet(seen)'
      BY <1>1, <1>2, <2>1 DEF TypeOK, Dids, Pressed, schedule, owner, park_vars
    <2>3. WalkInv' /\ BeginInv' /\ OwedInv'
      BY <1>1, <2>1 DEF WalkInv, BeginInv, OwedInv, owner
    <2>4. Disciplined
      BY <1>2, <2>1 DEF Disciplined, TrustsScreen
    <2> QED BY <2>2, <2>3, <2>4 DEF IInv
  <1>5. CASE enable
    <2>1. /\ UNCHANGED <<st, eng, resync, fails, route, enrolled, owed, shown, pos, seen, last>>
          /\ UNCHANGED park_vars /\ enabled' = TRUE /\ wait' \in {0, Interval}
      BY <1>5 DEF enable, sub
    <2>2. wait' \in 0 .. Cap
      BY <2>1, WaitsCapped
    <2>3. TypeOK' /\ IsFiniteSet(seen)'
      BY <1>1, <1>2, <2>1, <2>2 DEF TypeOK, Dids, Pressed, park_vars
    <2>4. WalkInv' /\ BeginInv' /\ OwedInv'
      BY <1>1, <2>1 DEF WalkInv, BeginInv, OwedInv
    <2>5. Disciplined
      BY <1>2, <2>1 DEF Disciplined, TrustsScreen
    <2> QED BY <2>3, <2>4, <2>5 DEF IInv
  <1>6. CASE set_route
    <2>1. /\ UNCHANGED <<st, eng, resync, enabled, enrolled, owed, shown, pos, seen, last>>
          /\ UNCHANGED park_vars /\ UNCHANGED schedule /\ st = "IDLE" /\ route' \in Routes
      BY <1>6 DEF set_route, sub
    <2>2. pos' \in [i : 1 .. Len(route') + 1, e : 0 .. 1, w : Nat]
      <3>1. Len(route') \in Nat
        BY <2>1, NavAssumption
      <3>2. pos' = Start
        BY <1>1, <2>1 DEF BeginInv
      <3> QED BY <3>1, <3>2, StartTyped
    <2>3. TypeOK' /\ IsFiniteSet(seen)'
      BY <1>1, <1>2, <2>1, <2>2 DEF TypeOK, Dids, Pressed, park_vars, schedule
    <2>4. WalkInv' /\ BeginInv' /\ OwedInv'
      BY <1>1, <2>1 DEF WalkInv, BeginInv, OwedInv
    <2>5. Disciplined
      BY <1>2, <2>1 DEF Disciplined, TrustsScreen
    <2> QED BY <2>3, <2>4, <2>5 DEF IInv
  <1>7. CASE Enrolls
    <2>1. /\ UNCHANGED <<st, eng, resync, enabled, route, owed, shown, pos, seen, last>>
          /\ UNCHANGED park_vars /\ UNCHANGED schedule /\ enrolled' \in BOOLEAN
      BY <1>7 DEF Enrolls, sub
    <2>2. TypeOK' /\ IsFiniteSet(seen)'
      BY <1>1, <1>2, <2>1 DEF TypeOK, Dids, Pressed, park_vars, schedule
    <2>3. WalkInv' /\ BeginInv' /\ OwedInv'
      BY <1>1, <2>1 DEF WalkInv, BeginInv, OwedInv
    <2>4. Disciplined
      BY <1>2, <2>1 DEF Disciplined, TrustsScreen
    <2> QED BY <2>2, <2>3, <2>4 DEF IInv
  <1>8. CASE Lost
    <2>1. PICK key \in Keys : key_fate(key)
      BY <1>8 DEF Lost
    <2>2. /\ UNCHANGED <<st, resync, owed, shown, pos, seen, last>> /\ UNCHANGED park_vars
          /\ UNCHANGED schedule /\ UNCHANGED owner
          /\ eng.phase # 0 /\ eng' = [eng EXCEPT !.lost = TRUE]
      BY <2>1 DEF key_fate, FateMatches, sub
    <2>3. eng' \in EngineStates
      BY <1>1, <2>2, Update DEF TypeOK
    <2>4. TypeOK' /\ IsFiniteSet(seen)'
      BY <1>1, <1>2, <2>2, <2>3 DEF TypeOK, Dids, Pressed, park_vars, schedule, owner
    <2>5. WalkInv' /\ BeginInv' /\ OwedInv'
      BY <1>1, <2>2 DEF WalkInv, BeginInv, OwedInv, owner
    <2>6. Disciplined
      BY <1>2, <2>2 DEF Disciplined, TrustsScreen
    <2> QED BY <2>4, <2>5, <2>6 DEF IInv
  <1> QED BY <1>3, <1>4, <1>5, <1>6, <1>7, <1>8 DEF Calls

LEMMA TimeKeeps ==
  ASSUME IInv, Time
  PROVE  IInv' /\ Disciplined
  <1>1. TypeOK /\ IsFiniteSet(seen) /\ WalkInv /\ BeginInv /\ OwedInv /\ eng \in EngineStates
    BY DEF IInv, TypeOK
  <1>2. /\ eng' = (IF eng.phase = 0 THEN eng ELSE [eng EXCEPT !.at = Elapsed(eng.at, AgeCap)])
        /\ park_t' = (IF st = "PARK" THEN Elapsed(park_t, ParkCap) ELSE park_t)
        /\ wait' = (IF wait > 0 THEN wait - 1 ELSE 0)
        /\ UNCHANGED <<st, pos, seen, last, resync, park_req, parked_ok, fails, pass, shown, owed>>
        /\ UNCHANGED owner
    BY DEF Time, sub
  <1>3. did' \in Dids /\ did'.press = NoKey /\ did'.emit = NoView
    BY DidTyped DEF Time
  <1>4. ASSUME NEW cap \in Nat, NEW t \in 0 .. cap
        PROVE  Elapsed(t, cap) \in 0 .. cap
    BY DEF Elapsed
  <1>5. eng' \in EngineStates
    <2>1. Elapsed(eng.at, AgeCap) \in 0 .. AgeCap
      BY <1>1, <1>4, AgeCapNat, SubFields
    <2> QED BY <1>1, <1>2, <2>1, Update
  <1>6. park_t' \in 0 .. ParkCap /\ wait' \in 0 .. Cap
    <2>1. park_t \in 0 .. ParkCap /\ wait \in 0 .. Cap /\ ParkCap \in Nat /\ Cap \in Nat
      BY <1>1, NavAssumption, WaitsCapped DEF TypeOK
    <2>2. Elapsed(park_t, ParkCap) \in 0 .. ParkCap
      BY <1>4, <2>1
    <2> QED BY <1>2, <2>1, <2>2
  <1>7. TypeOK' /\ IsFiniteSet(seen)'
    BY <1>1, <1>2, <1>3, <1>5, <1>6 DEF TypeOK, Dids, Pressed, owner
  <1>8. WalkInv' /\ BeginInv' /\ OwedInv'
    BY <1>1, <1>2 DEF WalkInv, BeginInv, OwedInv, owner
  <1>9. Disciplined
    BY <1>2, <1>3 DEF Disciplined, TrustsScreen
  <1> QED BY <1>7, <1>8, <1>9 DEF IInv

LEMMA StutterKeeps ==
  ASSUME IInv, UNCHANGED vars
  PROVE  IInv'
  BY DEF IInv, TypeOK, WalkInv, BeginInv, OwedInv, vars, sub, park_vars, schedule, owner

-----------------------------------------------------------------------------
(* The theorems *)

LEMMA InitHolds ==
  ASSUME Init
  PROVE  IInv
  <1>1. IsFiniteSet({}) /\ Cardinality({}) <= SeenMax
    BY FS_EmptySet, NavAssumption
  <1>2. Len(route) \in Nat
    BY NavAssumption DEF Init
  <1>3. pos \in [i : 1 .. Len(route) + 1, e : 0 .. 1, w : Nat]
    BY <1>2, StartTyped DEF Init
  <1>4. did \in Dids
    BY DidTyped DEF Init
  <1>5. 0 \in 0 .. ParkCap /\ 0 \in 0 .. BackoffCap /\ 0 \in 0 .. Cap
    BY NavAssumption, WaitsCapped
  <1>6. TypeOK
    BY <1>1, <1>3, <1>4, <1>5, FreshTyped DEF TypeOK, Init, Dids, Pressed
  <1> QED BY <1>1, <1>6, FreshTyped DEF IInv, Init, WalkInv, BeginInv, OwedInv

LEMMA Invariance == Spec => []IInv
  <1>1. Init => IInv
    BY InitHolds
  <1>2. IInv /\ [Next]_vars => IInv'
    BY TickPass, CallKeeps, TimeKeeps, StutterKeeps DEF Next
  <1> QED BY <1>1, <1>2, PTL DEF Spec

\* The machine, its clocks and its schedule stay within their bounds: the sub-state the
\* primitives share is in range for each, and no view list outgrows WALK_SEEN_MAX.
THEOREM TypeCorrect == Spec => []TypeOK
  <1>1. IInv => TypeOK
    BY DEF IInv
  <1> QED BY <1>1, Invariance, PTL

LEMMA StepsDisciplined ==
  ASSUME IInv, [Next]_vars
  PROVE  Disciplined \/ UNCHANGED vars
  BY TickPass, CallKeeps, TimeKeeps DEF Next

\* park: once asked for, no pass of any route starts a move; a step under way may
\* repeat its own lost press, whatever primitive it belongs to.
THEOREM ParkIsQuiet == Spec => NoMoveAfterPark
  <1>1. IInv /\ [Next]_vars
          => [parking /\ did'.press \notin {NoKey, "ESC"} => eng.phase # 0 /\ did'.press = eng.key]_vars
    BY StepsDisciplined DEF Disciplined
  <1> QED BY <1>1, Invariance, PTL DEF Spec, NoMoveAfterPark

\* The walk of route_tick_: with no more passes than WALK_SEEN_MAX it publishes no view
\* twice, and not the landing view.
THEOREM WalksEmitOnce == Spec => WalkEmitsOnce
  <1>1. IInv /\ [Next]_vars
          => [st = "ROUTE" /\ did'.emit # NoView /\ route[pos.i].walk \in 2 .. SeenMax
                => did'.emit \notin (IF pos.w = 0 THEN {last} ELSE shown)]_vars
    BY StepsDisciplined DEF Disciplined
  <1> QED BY <1>1, Invariance, PTL DEF Spec, WalkEmitsOnce

\* resync_anchor: whenever it is called, no later anchor phase takes the anchor for
\* reached on the screen remembered from before.
THEOREM AnchorIsFresh == Spec => FreshAnchor
  <1>1. IInv /\ [Next]_vars => [TrustsScreen => ~owed']_vars
    BY StepsDisciplined DEF Disciplined
  <1> QED BY <1>1, Invariance, PTL DEF Spec, FreshAnchor
=============================================================================
