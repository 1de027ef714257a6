------------------------------ MODULE PlanNav ------------------------------
(***************************************************************************)
(* The scrape machine (plan::PlanNav): Esc to the status anchor, the route *)
(* step by step, Esc back, on a schedule with backoff.  The owner can park *)
(* it: the cycle stops at a step boundary and presses Esc until the anchor *)
(* shows.                                                                  *)
(*                                                                         *)
(* tick runs once per pass of the main loop.  What the screen shows, and   *)
(* when a press is reported lost, is the environment's choice in each pass.*)
(***************************************************************************)
EXTENDS NavEngine

CONSTANTS Routes,      \* the routes the owner may set: sequences of ScrapeStep
          Views,       \* settled bodies, told apart by their digit-blind hash
          SeenMax,     \* WALK_SEEN_MAX
          ParkCap,     \* NAV_PARK_MS
          Interval,    \* interval_ms_
          BackoffCap   \* NAV_BACKOFF_CAP

NoView == "no view"

\* kind says which of the exclusive move shapes the step has; exp whether a plain
\* press has an expectation; walk = 0 and walk = 1 are both a single pass.
ScrapeStep == [kind : {"menu", "band", "seek", "emit", "gate", "press"},
               key : Keys \cup {NoKey}, span : Nat, target : 0 .. MenuN, wraps : BOOLEAN,
               exp : BOOLEAN, emit : BOOLEAN, walk : Nat]

ASSUME NavAssumption ==
  /\ Routes \subseteq Seq(ScrapeStep)
  /\ NoView \notin Views /\ SeenMax \in Nat \ {0}
  /\ ParkCap \in Nat /\ Interval \in Nat \ {0} /\ BackoffCap \in Nat

VARIABLES st,         \* the phase of the cycle
          eng,        \* the primitives' sub-state
          pos,        \* step_i_, ephase_, walk_i_
          seen,       \* walk_seen_
          last,       \* last_emit_hash_
          resync,     \* resync_: press Esc before trusting the screen
          park_req,   \* park_req_: parking waits for the step boundary
          parked_ok,  \* parked_ok_
          park_t,     \* the time since park_t0_
          fails,      \* fails_, counted to the backoff cap
          wait,       \* the time left until next_run_ms_
          enabled, route, enrolled,
          pass,       \* alternates with every pass of the loop
          did,        \* the calls the last step made: the key, the view emitted
          owed,       \* history: resync_anchor asked an anchor phase for an Esc not pressed yet
          shown       \* history: views emitted in the running walk, and its landing view

sub == <<pos, seen, last>>
park_vars == <<park_req, parked_ok, park_t>>
schedule == <<fails, wait>>
owner == <<enabled, route, enrolled>>
vars == <<st, eng, sub, resync, park_vars, schedule, owner, pass, did, owed, shown>>

Start == [i |-> 1, e |-> 0, w |-> 0]
Nothing == [press |-> NoKey, emit |-> NoView]
Pressing(key) == [Nothing EXCEPT !.press = key]

\* interval_ms_ << fails: doubled for each failure counted.
Backoff[f \in 0 .. BackoffCap] == IF f = 0 THEN Interval ELSE 2 * Backoff[f - 1]

\* Bounds of the clocks: no wait is longer.
Cap == Backoff[BackoffCap]

Init ==
  /\ st = "IDLE" /\ eng = Fresh /\ pos = Start /\ seen = {} /\ last = NoView
  /\ resync = FALSE /\ park_req = FALSE /\ parked_ok = FALSE /\ park_t = 0
  /\ fails = 0 /\ wait = 0 /\ enabled = FALSE /\ route \in Routes /\ enrolled = FALSE
  /\ pass = FALSE /\ did = Nothing /\ owed = FALSE /\ shown = {}

-----------------------------------------------------------------------------
(* One route step: the move *)

\* gate_step_: press, give the password gate a moment to show, type the PIN if it
\* does, check what the step expects.
gate_press(n, s, look) ==
  LET o == step(n, s.key, Sure(look), 0, TRUE)
  IN IF o.r = "OK" THEN Run([o.n EXCEPT !.gate = 1]) ELSE [o EXCEPT !.r = "RUN"]

gate_shows(n, look) ==
  LET o == step(n, NoKey, look, PinGate, FALSE)
  IN CASE o.r = "RUN"                  -> o
       [] o.r = "FAIL"                 -> Run([o.n EXCEPT !.gate = 3])
       [] o.r = "OK" /\ Configured     -> Run([o.n EXCEPT !.pin = 0, !.gate = 2])
       [] o.r = "OK" /\ ~Configured    -> Fail(o.n)

Expect(n, s, key, look, settle) ==
  IF s.exp THEN step(n, key, look, Verify, settle) ELSE step(n, key, Sure(look), 0, settle)

gate_step(n, s, look) ==
  CASE n.gate = 0 -> gate_press(n, s, look)
    [] n.gate = 1 -> gate_shows(n, look)
    [] n.gate = 2 -> LET o == pin_tick(n, look)
                     IN IF o.r = "OK" THEN Run([o.n EXCEPT !.gate = 3]) ELSE o
    [] n.gate = 3 -> LET o == Expect(n, s, NoKey, look, FALSE)
                     IN IF o.r = "RUN" THEN o ELSE [o EXCEPT !.n.gate = 0]

Move(n, s, look) ==
  CASE s.kind = "menu"  -> menu_select(n, look, s.target, s.wraps)
    [] s.kind = "band"  -> seek_selected(n, look, s.span)
    [] s.kind = "seek"  -> seek_press(n, look, s.key, s.span)
    [] s.kind = "emit"  -> Ok(n)
    [] s.kind = "gate"  -> gate_step(n, s, look)
    [] s.kind = "press" -> Expect(n, s, s.key, look, TRUE)

-----------------------------------------------------------------------------
(* The modes of tick *)

reset_sub == eng' = Fresh /\ pos' = Start /\ seen' = {} /\ last' = NoView /\ shown' = {}

fail_ == st' = "RECOVER" /\ reset_sub /\ UNCHANGED schedule

\* Fault: the backoff goes on doubling.
finish_doubling(ok) ==
  /\ st' = "IDLE" /\ reset_sub
  /\ fails' = (IF ok THEN 0 ELSE fails + 1) /\ wait' = Interval * 2 ^ fails'

finish_(ok) ==
  /\ st' = "IDLE" /\ reset_sub
  /\ fails' = IF ok THEN 0 ELSE IF fails < BackoffCap THEN fails + 1 ELSE fails
  /\ wait' = Backoff[fails']

\* The primitive goes on, or the cycle moves to its next mode.
Continue(mode, n) == st' = mode /\ eng' = n /\ UNCHANGED <<sub, shown, schedule>>

Anchor(n, look) ==
  LET o == esc_anchor(n, look, resync)
  IN /\ resync' = (resync /\ o.r = "RUN")
     /\ did' = Pressing(o.press)
     /\ CASE o.r = "RUN"  -> Continue("ANCHOR", o.n)
          [] o.r = "OK"   -> Continue(IF route = <<>> THEN "ANCHOR_END" ELSE "ROUTE", o.n)
          [] o.r = "FAIL" -> fail_
     /\ UNCHANGED park_vars

AnchorEnd(look) ==
  LET o == esc_anchor(eng, look, FALSE)
  IN /\ did' = Pressing(o.press)
     /\ CASE o.r = "RUN"  -> Continue("ANCHOR_END", o.n)
          [] o.r = "OK"   -> finish_(TRUE)
          [] o.r = "FAIL" -> fail_
     /\ UNCHANGED <<resync, park_vars>>

Recover(look) ==
  LET o == esc_anchor(eng, look, FALSE)
  IN /\ did' = Pressing(o.press)
     /\ IF o.r = "RUN" THEN Continue("RECOVER", o.n) ELSE finish_(FALSE)
     /\ UNCHANGED <<resync, park_vars>>

\* The wall clock ends a park between presses only.
Park(n, t, look) ==
  LET o == esc_anchor(n, look, FALSE)
      r == IF o.r = "RUN" /\ o.n.phase = 0 /\ t >= ParkCap THEN "FAIL" ELSE o.r
  IN /\ did' = Pressing(o.press)
     /\ park_req' = FALSE /\ park_t' = (IF r = "RUN" THEN t ELSE 0)
     /\ parked_ok' = (r = "OK")
     /\ st' = IF r = "RUN" THEN "PARK" ELSE "IDLE"
     /\ eng' = IF r = "RUN" THEN o.n ELSE Fresh
     /\ pos' = Start /\ seen' = {} /\ last' = NoView /\ shown' = {}
     /\ UNCHANGED <<resync, schedule>>

\* One pass of the walk is done: again, or on to the next step of the route.
Advance(s, n, wrapped) ==
  LET done == wrapped \/ pos.w + 1 >= s.walk
  IN /\ eng' = n
     /\ pos' = IF done THEN [Start EXCEPT !.i = pos.i + 1] ELSE [pos EXCEPT !.e = 0, !.w = @ + 1]
     /\ st' = IF done /\ pos.i = Len(route) THEN "ANCHOR_END" ELSE "ROUTE"
     /\ UNCHANGED schedule

\* The settled page is published; a walk ends at the first view it already saw.
Remembered(s) == IF s.walk > 1 /\ pos.w = 0 THEN {last} ELSE seen
\* Fault: the list of seen views is taken for full one view early.
NotedShort(s, view) ==
  LET known == Remembered(s)
  IN IF s.walk > 1 /\ Cardinality(known) + 1 < SeenMax THEN known \cup {view} ELSE known

Noted(s, view) ==
  LET known == Remembered(s)
  IN IF s.walk > 1 /\ Cardinality(known) < SeenMax THEN known \cup {view} ELSE known

Publish(s, n, look, view) ==
  LET wrapped == s.walk > 1 /\ view \in Remembered(s)
  IN /\ Advance(s, n, wrapped)
     /\ seen' = IF wrapped THEN Remembered(s) ELSE Noted(s, view)
     /\ last' = IF wrapped THEN last ELSE view
     /\ did' = IF wrapped THEN Nothing ELSE [Nothing EXCEPT !.emit = view]
     /\ shown' = (IF pos.w = 0 THEN {last} ELSE shown) \cup {view}

\* route_tick_: the move and, in the pass that verified it, the start of the emit.
Route(look, view) ==
  LET s == route[pos.i]
      m == IF pos.e = 0 THEN Move(eng, s, look) ELSE Ok(eng)
      o == IF s.emit /\ m.r = "OK" THEN step(m.n, NoKey, Sure(look), 0, TRUE) ELSE m
  IN /\ CASE o.r = "FAIL" -> fail_ /\ did' = Nothing
          [] o.r = "OK" /\ s.emit  -> Publish(s, o.n, look, view)
          [] o.r = "OK" /\ ~s.emit -> Advance(s, o.n, FALSE) /\ did' = Nothing
                                      /\ UNCHANGED <<seen, last, shown>>
          [] o.r = "RUN" -> /\ eng' = o.n /\ pos' = [pos EXCEPT !.e = IF m.r = "OK" THEN 1 ELSE 0]
                            /\ did' = Pressing(o.press)
                            /\ UNCHANGED <<st, seen, last, shown, schedule>>
     /\ UNCHANGED <<resync, park_vars>>

-----------------------------------------------------------------------------
(* tick *)

\* A cycle starts when it is due; a pending park takes over between two steps.
Starts == st = "IDLE" /\ enabled /\ enrolled /\ wait = 0
Live == st # "IDLE" \/ Starts
\* Fault: a pending park waits for the end of the cycle's phase.
ParksLate == Live /\ park_req /\ eng.phase = 0 /\ st # "ROUTE"

Parks == Live /\ park_req /\ eng.phase = 0
Mode == CASE Parks -> "PARK" [] ~Parks /\ Starts -> "ANCHOR" [] ~Parks /\ ~Starts -> st

Idle == did' = Nothing /\ UNCHANGED <<st, eng, sub, resync, park_vars, schedule, shown>>

Tick ==
  /\ pass' = ~pass
  /\ \E look \in Looks, view \in Views :
       \/ Mode = "IDLE" /\ Idle
       \/ Mode = "ANCHOR" /\ Anchor(eng, look)
       \/ Mode = "ROUTE" /\ Route(look, view)
       \/ Mode = "ANCHOR_END" /\ AnchorEnd(look)
       \/ Mode = "RECOVER" /\ Recover(look)
       \/ Mode = "PARK" /\ Park(IF Parks THEN Fresh ELSE eng, IF Parks THEN 0 ELSE park_t, look)
  /\ owed' = (owed /\ ~(Mode = "ANCHOR" /\ did'.press = "ESC"))
  /\ UNCHANGED owner

-----------------------------------------------------------------------------
(* The owner, the clock and the key pump *)

\* park: from idle at once, otherwise at the next step boundary.
parking == park_req \/ st = "PARK"
park ==
  /\ ~parking
  /\ IF st = "IDLE" THEN st' = "PARK" /\ park_t' = 0 /\ parked_ok' = FALSE /\ UNCHANGED park_req
                    ELSE park_req' = TRUE /\ UNCHANGED <<st, park_t, parked_ok>>
  /\ UNCHANGED <<eng, sub, resync, schedule, owner, shown, owed>>

\* resync_anchor: the owner calls it when it resumes after a yield, or at any other
\* time.  An anchor phase under way has pressed its Esc and takes the call for itself.
resync_anchor ==
  /\ resync' = TRUE /\ owed' = (owed \/ st # "ANCHOR")
  /\ UNCHANGED <<st, eng, sub, park_vars, schedule, owner, shown>>

\* enable sets the time of the first run.
enable ==
  /\ enabled' = TRUE /\ wait' \in {0, Interval}
  /\ UNCHANGED <<st, eng, sub, resync, park_vars, fails, route, enrolled, shown, owed>>

set_route ==
  /\ st = "IDLE" /\ route' \in Routes
  /\ UNCHANGED <<st, eng, sub, resync, park_vars, schedule, enabled, enrolled, shown, owed>>

Enrolls ==
  /\ enrolled' = ~enrolled
  /\ UNCHANGED <<st, eng, sub, resync, park_vars, schedule, enabled, route, shown, owed>>

key_fate(key) ==
  /\ FateMatches(eng, key) /\ eng' = [eng EXCEPT !.lost = TRUE]
  /\ UNCHANGED <<st, sub, resync, park_vars, schedule, owner, shown, owed>>

Lost == \E key \in Keys : key_fate(key)

Calls ==
  /\ park \/ resync_anchor \/ enable \/ set_route \/ Enrolls \/ Lost
  /\ did' = Nothing /\ UNCHANGED pass

\* The clock moves; no clock is kept beyond the longest time anything waits for it.
Elapsed(t, cap) == IF t < cap THEN t + 1 ELSE t
Time ==
  /\ eng' = IF eng.phase = 0 THEN eng ELSE [eng EXCEPT !.at = Elapsed(@, AgeCap)]
  /\ park_t' = IF st = "PARK" THEN Elapsed(park_t, ParkCap) ELSE park_t
  /\ wait' = IF wait > 0 THEN wait - 1 ELSE 0
  /\ did' = Nothing
  /\ UNCHANGED <<st, sub, resync, park_req, parked_ok, fails, owner, pass, shown, owed>>

Next == Tick \/ Calls \/ Time

Spec == Init /\ [][Next]_vars

\* The main loop passes over tick for ever and the clock does not stop.
FairSpec == Spec /\ WF_vars(Tick) /\ WF_vars(Time)

-----------------------------------------------------------------------------
(* Properties *)

\* Type invariant of the machine, its schedule and the park state.
TypeOK ==
  /\ st \in {"IDLE", "ANCHOR", "ROUTE", "ANCHOR_END", "RECOVER", "PARK"}
  /\ eng \in EngineStates
  /\ pos \in [i : 1 .. Len(route) + 1, e : 0 .. 1, w : Nat] /\ (st = "ROUTE" => pos.i <= Len(route))
  /\ seen \subseteq Views \cup {NoView} /\ Cardinality(seen) <= SeenMax /\ last \in Views \cup {NoView}
  /\ resync \in BOOLEAN /\ park_req \in BOOLEAN /\ parked_ok \in BOOLEAN /\ park_t \in 0 .. ParkCap
  /\ fails \in 0 .. BackoffCap /\ wait \in 0 .. Cap
  /\ enabled \in BOOLEAN /\ route \in Routes /\ enrolled \in BOOLEAN /\ pass \in BOOLEAN
  /\ did \in [press : Keys \cup {NoKey}, emit : Views \cup {NoView}]
  /\ owed \in BOOLEAN /\ shown \subseteq Views \cup {NoView}

\* From the request to park on no new move starts: the step under way may repeat its
\* own lost press, and every other key is Esc (park, the step boundary in tick).
NoMoveAfterPark ==
  [][parking /\ did'.press \notin {NoKey, "ESC"} => eng.phase # 0 /\ did'.press = eng.key]_vars

\* A walk no longer than the list of views it remembers publishes no view twice and
\* not the view it started from.
WalkEmitsOnce ==
  [][st = "ROUTE" /\ did'.emit # NoView /\ route[pos.i].walk \in 2 .. SeenMax
       => did'.emit \notin (IF pos.w = 0 THEN {last} ELSE shown)]_vars

\* The anchor phase takes the anchor for reached.
TrustsScreen == st \in {"IDLE", "ANCHOR"} /\ st' \in {"ROUTE", "ANCHOR_END"}

\* After resync_anchor, whenever it is called, the screen model is not trusted: the
\* next anchor phase takes the anchor for reached, and goes on to the route or to the
\* end of an empty one, only once it has pressed Esc.
FreshAnchor == [][TrustsScreen => ~owed']_vars

\* Every cycle and every park ends, whatever the screen shows and however often its
\* presses are reported lost: all waits are capped, all presses budgeted.
CycleEnds == st # "IDLE" ~> st = "IDLE"

\* parking() holds until the outcome is in, and the outcome comes within the press
\* budget and the wall clock of a park.
ParkEnds == parking ~> ~parking
=============================================================================
