------------------------------ MODULE PlanEdit ------------------------------
(***************************************************************************)
(* The edit machine (plan::PlanEdit): navigate to a page, read a value,    *)
(* focus its field, press towards the target and read back after every     *)
(* press, commit, and visit the page again before a set is reported.       *)
(*                                                                         *)
(* The machine presses keys and reads a screen; neither is the controller. *)
(* A press travels through the key pump and is taken in order, or dropped; *)
(* what the controller then shows is painted later.  dev is the controller,*)
(* keys the presses on their way to it, scr the screen model the machine   *)
(* reads.  The page of the request has two fields, a selector (field 1) and*)
(* a number (field 2).  On a linked page there is a number for every value *)
(* of the selector, as on the scheduler page that set_ops and read_sweep   *)
(* were written for.                                                       *)
(***************************************************************************)
EXTENDS NavEngine

CONSTANTS Top,          \* values are 0 .. Top
          Visits,       \* what the owner may ask for, where and by which route, see Visit
          Attempts,     \* EDIT_NAV_ATTEMPTS
          MaxPress,     \* EDIT_MAX_PRESS
          Deadline,     \* NAV_VERIFY_MS + 10 * NAV_QUIET_MS
          Ttl,          \* the pump takes a press within this time or drops it
          Torn,         \* a half-painted value
          NearRows,     \* what the value's extractor makes of other pages
          NoRow         \* a row the extractor does not match, or no value

Values == 0 .. Top
Fields == 1 .. 2
Readings == Values \cup {Torn, NoRow}

MacroStep == [kind : {"menu", "seek", "press"}, key : Keys \cup {NoKey}, times : Nat \ {0},
              pin : BOOLEAN, target : 0 .. MenuN, exp : {"menu", "value"}]
Device == [sel : Values, prog : [Values -> Values], linked : BOOLEAN, wraps : BOOLEAN,
           grid : Nat \ {0}, named : BOOLEAN]
EditOp == [field : Fields, num : BOOLEAN, target : Readings]
Request == [times : Nat \ {0}, sweep : BOOLEAN, expected : Nat, clamp : SUBSET Values, ops : Seq(EditOp) \ {<<>>}]
\* The focus walk only goes forward, and a sweep has one field.
Walkable(r) == /\ \A i, j \in 1 .. Len(r.ops) : i < j => r.ops[i].field < r.ops[j].field
               /\ r.sweep => Len(r.ops) = 1 /\ r.expected >= 1
Visit == [page : Device, route : Seq(MacroStep) \ {<<>>}, req : Request]

ASSUME EditAssumption ==
  /\ Top \in Nat /\ Torn \notin Nat /\ NoRow \notin Nat /\ Torn # NoRow /\ NearRows \subseteq Readings
  /\ \A v \in Visits : v \in Visit /\ Walkable(v.req)
  /\ Attempts \in Nat \ {0} /\ MaxPress \in Nat /\ Deadline \in Nat /\ Ttl \in Nat

VARIABLES m,       \* the machine: the members of PlanEdit, see Idle
          req,     \* ops_, nops_, sweep_, and the clamp of def_
          route,   \* def_->route
          keys,    \* presses the controller has not taken yet
          dev,     \* the controller
          scr,     \* PlanScreen: the page shown and the rows as painted
          owed,    \* what the controller has yet to draw: nothing, the page, a field
          calm,    \* nothing was painted since the clock moved
          passes,  \* of the main loop since the clock or the screen moved: 0, then alternately 1 and 2
          made,    \* requests made
          did,     \* the callbacks of the last step
          lost     \* history: an Enter of this request was dropped

vars == <<m, req, route, keys, dev, scr, owed, calm, passes, made, did, lost>>

Nothing == [done |-> FALSE, ok |-> FALSE, value |-> NoRow, snap |-> FALSE, sweep |-> NoRow]

Idle == [st |-> "IDLE", eng |-> Fresh, attempt |-> 0, step |-> 1, rphase |-> 0, press |-> 0,
         op |-> 1, field |-> 0, confirm |-> FALSE, reversed |-> FALSE, ok |-> FALSE, page0 |-> "",
         old |-> NoRow, cur |-> NoRow, estart |-> NoRow,
         wphase |-> 0, wcand |-> NoRow, wq |-> 0, wdead |-> 0,
         swphase |-> 0, down |-> FALSE, seen |-> {}, resync |-> FALSE]

\* The outcome of a pass: the machine, the key it presses, the callbacks it makes.
Res(n, press, calls) == [m |-> n, press |-> press, did |-> calls]
Goes(n) == Res(n, NoKey, Nothing)
Stays(n, o) == Res([n EXCEPT !.eng = o.n], o.press, Nothing)

-----------------------------------------------------------------------------
(* Reading the screen *)

Op(n) == req.ops[n.op]
Row(n) == scr.row[Op(n).field]
Reads(n) == Row(n) # NoRow
on_value_page(n) == n.page0 = "" \/ scr.page = n.page0

\* edit_num and edit_eq: field 2 shows numbers, field 1 options.
IsNum(n, text) == Op(n).field = 2 /\ text \in Values
Shows(n, text) == text = Op(n).target /\ Op(n).num = IsNum(n, text)

-----------------------------------------------------------------------------
(* Outcome paths *)

reset_edit(n) ==
  [n EXCEPT !.eng = Fresh, !.step = 1, !.rphase = 0, !.press = 0, !.op = 1, !.field = 0,
            !.reversed = FALSE, !.swphase = 0, !.down = FALSE, !.seen = {}, !.wphase = 0]

finish(n, ok) == [reset_edit(n) EXCEPT !.st = "TEARDOWN", !.ok = ok]
fail(n) == finish(n, FALSE)
abort(n) == [reset_edit(n) EXCEPT !.st = "ABORT_ESC"]

\* Fault: a failed route is tried again for ever.
retries_on(n) == [reset_edit(n) EXCEPT !.st = "ANCHOR"]

\* Fault: one attempt too many.
retries_late(n) == IF n.attempt >= Attempts THEN fail([n EXCEPT !.attempt = @ + 1])
                   ELSE [reset_edit(n) EXCEPT !.st = "ANCHOR", !.attempt = @ + 1]

retry(n) == IF n.attempt + 1 >= Attempts THEN fail([n EXCEPT !.attempt = @ + 1])
            ELSE [reset_edit(n) EXCEPT !.st = "ANCHOR", !.attempt = @ + 1]

-----------------------------------------------------------------------------
(* The route *)

\* Of the pages between anchor and value page the model keeps the cursor menu and the
\* password gate; scr.at is the entry under the band, or how many Ups the gate shows.
Look(holds, noise) ==
  [holds |-> holds, quiet |-> calm /\ ~noise, cursor |-> IF scr.page = "menu" THEN scr.at ELSE 1]
Expects(s) == scr.page = s.exp

\* What menu_select waits for: the header, the next entry, the entry sought.
MenuShows(n, target) ==
  /\ scr.page = "menu"
  /\ n.menu > 0 => scr.at = IF n.menu = 2 THEN target ELSE Beyond(n.pos, Forward(n.pos, target, TRUE))

\* The gate, and while the PIN is typed the Ups it should show with the one under way.
GateShows(n) ==
  /\ scr.page = "gate"
  /\ n.rphase = 2 => scr.at = FoldSet(LAMBDA i, sum : sum + Pin[i], 0, 1 .. n.eng.stage) - n.eng.ups + 1

Via(n, o) == Out(o.r, [n EXCEPT !.eng = o.n], o.press)

seek_run(n, s, look) ==
  LET check == step(n.eng, NoKey, look, SeekCheck, FALSE)
      move == step(n.eng, s.key, Sure(look), 0, TRUE)
  IN CASE n.rphase = 0 /\ check.r = "FAIL" /\ n.press < s.times ->
            Run([n EXCEPT !.eng = check.n, !.rphase = 1])
       [] n.rphase = 0 /\ ~(check.r = "FAIL" /\ n.press < s.times) -> Via(n, check)
       [] n.rphase = 1 /\ move.r = "OK" ->
            Run([n EXCEPT !.eng = move.n, !.press = @ + 1, !.rphase = 0])
       [] n.rphase = 1 /\ move.r # "OK" -> [Via(n, move) EXCEPT !.r = "RUN"]

\* The step's presses, the password gate if it shows, the expectation.
press_run(n, s, look) ==
  LET move == step(n.eng, s.key, Sure(look), 0, TRUE)
      gate == step(n.eng, NoKey, look, PinGate, FALSE)
      pin == pin_tick(n.eng, look)
  IN CASE n.rphase = 0 /\ n.press >= s.times -> Run([n EXCEPT !.rphase = IF s.pin THEN 1 ELSE 3])
       [] n.rphase = 0 /\ n.press < s.times ->
            IF move.r = "OK" THEN Run([n EXCEPT !.eng = move.n, !.press = @ + 1])
                             ELSE [Via(n, move) EXCEPT !.r = "RUN"]
       [] n.rphase = 1 /\ gate.r = "RUN"  -> Via(n, gate)
       [] n.rphase = 1 /\ gate.r = "OK" /\ Configured  -> Run([n EXCEPT !.eng = gate.n, !.rphase = 2])
       [] n.rphase = 1 /\ gate.r = "OK" /\ ~Configured -> Fail([n EXCEPT !.eng = gate.n])
       [] n.rphase = 1 /\ gate.r = "FAIL" -> Run([n EXCEPT !.eng = gate.n, !.rphase = 3])
       [] n.rphase = 2 -> IF pin.r = "OK" THEN Run([n EXCEPT !.eng = pin.n, !.rphase = 3])
                                          ELSE Via(n, pin)
       [] n.rphase = 3 -> Via(n, step(n.eng, NoKey, look, Verify, FALSE))

step_run(n, s, noise) ==
  LET look == Look(IF s.kind = "press" /\ n.rphase \in {1, 2} THEN GateShows(n) ELSE Expects(s), noise)
  IN CASE s.kind = "menu"  -> Via(n, menu_select(n.eng, Look(MenuShows(n.eng, s.target), noise), s.target, TRUE))
       [] s.kind = "seek"  -> seek_run(n, s, look)
       [] s.kind = "press" -> press_run(n, s, look)

Route(n, noise) ==
  LET o == step_run(n, route[n.step], noise)
      next == [o.n EXCEPT !.step = @ + 1, !.rphase = 0, !.press = 0]
  IN CASE o.r = "RUN"  -> Res(o.n, o.press, Nothing)
       [] o.r = "FAIL" -> Goes(retry(o.n))
       [] o.r = "OK"   -> Goes(IF n.step = Len(route) THEN [next EXCEPT !.st = "READ"] ELSE next)

Anchor(n, noise) ==
  LET o == esc_anchor(n.eng, Look(scr.page = "anchor", noise), n.resync)
      next == [n EXCEPT !.eng = o.n, !.resync = @ /\ o.r = "RUN"]
  IN CASE o.r = "RUN"  -> Res(next, o.press, Nothing)
       [] o.r = "OK"   -> Goes([next EXCEPT !.st = "ROUTE", !.step = 1, !.rphase = 0])
       [] o.r = "FAIL" -> Goes(retry(next))

-----------------------------------------------------------------------------
(* Reading the value, focusing the field *)

\* The confirming visit of a set decides it.
Confirmed(n) == finish([n EXCEPT !.confirm = FALSE], Shows(n, n.cur))

\* What a single get or set makes of the value read; the target is checked before
\* the device is touched.
Single(n) ==
  CASE Op(n).target = NoRow \/ Shows(n, n.old) -> finish(n, TRUE)
    [] Op(n).target # NoRow /\ ~Shows(n, n.old)
         /\ (Op(n).num # IsNum(n, n.old) \/ (Op(n).num /\ Op(n).target \notin req.clamp)) -> fail(n)
    [] OTHER -> [n EXCEPT !.op = 1, !.field = 0, !.st = "FOCUS"]

Read(n, noise) ==
  LET o == step(n.eng, NoKey, Look(Reads(n), noise), Verify, FALSE)
      next == [n EXCEPT !.eng = o.n, !.cur = Row(n)]
      first == [next EXCEPT !.old = Row(n), !.page0 = IF dev.named THEN scr.page ELSE ""]
      snap == [Nothing EXCEPT !.snap = TRUE]
  IN CASE o.r = "RUN"  -> Stays(n, o)
       [] o.r = "FAIL" -> Goes(fail(n))
       [] o.r = "OK" /\ n.confirm -> Res(Confirmed(next), NoKey, snap)
       [] o.r = "OK" /\ ~n.confirm /\ req.sweep ->
            Res([first EXCEPT !.st = "SWEEP", !.swphase = 0], NoKey, snap)
       [] o.r = "OK" /\ ~n.confirm /\ ~req.sweep /\ Len(req.ops) = 1 -> Res(Single(first), NoKey, snap)
       [] o.r = "OK" /\ ~n.confirm /\ ~req.sweep /\ Len(req.ops) > 1 ->
            Res([first EXCEPT !.op = 1, !.field = 0, !.st = "FOCUS"], NoKey, snap)

\* The focus walk reached a field: hop on, commit it as it is, or edit it.
arrive(n) ==
  CASE n.field # Op(n).field -> [n EXCEPT !.st = "FOCUS"]
    [] n.field = Op(n).field /\ Shows(n, n.cur) -> [n EXCEPT !.st = "COMMIT"]
    [] n.field = Op(n).field /\ ~Shows(n, n.cur) /\ Op(n).num # IsNum(n, n.cur) -> abort(n)
    [] OTHER -> [n EXCEPT !.press = 0, !.reversed = FALSE, !.estart = n.cur, !.st = "EDIT"]

\* An Enter and a read-back of the row.
Entered(n, noise) == step(n.eng, "ENTER", Look(Reads(n), noise), Verify, TRUE)

Focus(n, noise) ==
  LET o == Entered(n, noise)
      next == [n EXCEPT !.eng = o.n, !.cur = Row(n)]
  IN CASE o.r = "RUN"  -> Stays(n, o)
       [] o.r = "FAIL" -> Goes(abort(n))
       [] o.r = "OK"   -> Goes(IF Row(n) # n.old \/ ~on_value_page(n) THEN abort(next)
                               ELSE arrive([next EXCEPT !.field = @ + 1]))

-----------------------------------------------------------------------------
(* wait_change_: press once, trust a changed row once it stayed put *)

Glimpsed(n) == [n EXCEPT !.wcand = Row(n), !.wq = 0, !.wphase = 1]

\* A row painted over the candidate takes its place; one that cannot be read does not.
Watched(n) == IF Reads(n) /\ Row(n) # n.wcand THEN Glimpsed(n) ELSE n

\* Fault: the first differing reading is taken.
takes_glimpse(n, key, noise) ==
  LET o == step(n.eng, key, Look(Reads(n) /\ Row(n) # n.cur, noise), Verify, FALSE)
  IN Out(o.r, [n EXCEPT !.eng = o.n, !.wcand = Row(n)], o.press)

wait_change(n, key, noise) ==
  LET differs == Reads(n) /\ Row(n) # n.cur
      o == step(n.eng, key, Look(differs, noise), Verify, FALSE)
      c == Watched(n)
      over(k) == [k EXCEPT !.wphase = 0]
  IN CASE n.wphase = 0 /\ o.r # "OK" -> Via(n, o)
       [] n.wphase = 0 /\ o.r = "OK" -> Run([Glimpsed(n) EXCEPT !.eng = o.n, !.wdead = Deadline])
       [] n.wphase = 1 /\ c.wq < Quiet -> IF c.wdead = 0 THEN Fail(over(c)) ELSE Run(c)
       [] n.wphase = 1 /\ c.wq >= Quiet /\ c.wcand = n.cur -> Run([c EXCEPT !.wphase = 2])
       [] n.wphase = 1 /\ c.wq >= Quiet /\ c.wcand # n.cur -> Ok(over(c))
       [] n.wphase = 2 /\ differs -> Run(Glimpsed(n))
       [] n.wphase = 2 /\ ~differs -> IF n.wdead = 0 THEN Fail(over(n)) ELSE Run(n)

-----------------------------------------------------------------------------
(* The edit loop: one press, read back *)

\* The direction of the next press.
EditKey(n) ==
  IF Op(n).num THEN IF Op(n).target < n.cur THEN "DOWN" ELSE "UP"
  ELSE IF n.reversed THEN "DOWN" ELSE "UP"

Distance(a, b) == IF a > b THEN a - b ELSE b - a

\* A number stepped past the target or away from it, an option list came round.
Diverged(n, next) ==
  IF Op(n).num
  THEN \/ ~IsNum(n, next)
       \/ (n.cur < Op(n).target) # (next < Op(n).target)
       \/ Distance(next, Op(n).target) > Distance(n.cur, Op(n).target)
  ELSE ~n.reversed /\ next = n.estart

Edit(n, noise) ==
  LET o == wait_change(n, EditKey(n), noise)
      next == [o.n EXCEPT !.press = @ + 1]
      value == o.n.wcand
  IN CASE n.press >= MaxPress -> Goes(abort(n))
       [] n.press < MaxPress /\ o.r = "RUN" -> Res(o.n, o.press, Nothing)
       [] n.press < MaxPress /\ o.r = "FAIL" ->
            Goes(IF ~Op(n).num /\ ~n.reversed THEN [next EXCEPT !.reversed = TRUE] ELSE abort(next))
       [] n.press < MaxPress /\ o.r = "OK" ->
            Goes(CASE ~on_value_page(n) -> abort(next)
                   [] on_value_page(n) /\ Shows(n, value) -> [next EXCEPT !.st = "COMMIT"]
                   [] on_value_page(n) /\ ~Shows(n, value) /\ Diverged(n, value) -> abort(next)
                   [] OTHER -> [next EXCEPT !.cur = value])

\* The next operation starts from the screen its predecessor's commit left.
NextOp(n) ==
  LET next == [n EXCEPT !.op = @ + 1]
      row == Row(next)
  IN IF row = NoRow THEN abort(next) ELSE arrive([next EXCEPT !.old = row, !.cur = row])

\* Fault: the read-back of the commit is believed.
believes_commit(n) ==
  IF n.op < Len(req.ops) THEN NextOp(n) ELSE finish(n, TRUE)

\* A single set visits the page again: only that read decides.
Landed(n) ==
  CASE n.op < Len(req.ops) -> NextOp(n)
    [] n.op = Len(req.ops) /\ n.op = 1 -> [n EXCEPT !.confirm = TRUE, !.op = 1, !.field = 0, !.st = "ANCHOR"]
    [] n.op = Len(req.ops) /\ n.op > 1 -> finish(n, TRUE)

Commit(n, noise) ==
  LET o == Entered(n, noise)
      next == [n EXCEPT !.eng = o.n, !.cur = Row(n)]
  IN CASE o.r = "RUN"  -> Stays(n, o)
       [] o.r = "FAIL" -> Goes(fail(n))
       [] o.r = "OK"   -> Goes(IF ~Shows(n, Row(n)) THEN fail(next)
                               ELSE Landed([next EXCEPT !.field = @ + 1]))

-----------------------------------------------------------------------------
(* read_sweep *)

sweep_focus(n, noise) ==
  LET o == Entered(n, noise)
      next == [n EXCEPT !.eng = o.n, !.cur = Row(n)]
  IN CASE o.r = "RUN"  -> Stays(n, o)
       [] o.r = "FAIL" -> Goes(abort(n))
       [] o.r = "OK"   -> Goes(IF Row(n) # n.old THEN abort(next)
                               ELSE [next EXCEPT !.seen = {}, !.down = FALSE, !.press = 0, !.swphase = 1])

\* Each value is published once.
sweep_capture(n) ==
  LET new == n.cur \notin n.seen /\ Cardinality(n.seen) < req.expected
      seen == IF new THEN n.seen \cup {n.cur} ELSE n.seen
  IN Res(IF Cardinality(seen) >= req.expected THEN finish(n, TRUE)
         ELSE [n EXCEPT !.seen = seen, !.swphase = 2],
         NoKey, [Nothing EXCEPT !.sweep = IF new THEN n.cur ELSE NoRow])

\* On to the next value; a bounded list turns around once.
sweep_move(n, noise) ==
  LET o == wait_change(n, IF n.down THEN "DOWN" ELSE "UP", noise)
      next == [o.n EXCEPT !.press = @ + 1]
      spent == n.press >= 2 * req.expected + 2
  IN CASE spent -> Goes(finish(n, TRUE))
       [] ~spent /\ o.r = "RUN"  -> Res(o.n, o.press, Nothing)
       [] ~spent /\ o.r = "FAIL" -> Goes(IF n.down THEN finish(next, TRUE) ELSE [next EXCEPT !.down = TRUE])
       [] ~spent /\ o.r = "OK"   -> Goes([next EXCEPT !.cur = o.n.wcand, !.swphase = 1])

Sweep(n, noise) ==
  CASE n.swphase = 0 -> sweep_focus(n, noise)
    [] n.swphase = 1 -> sweep_capture(n)
    [] n.swphase = 2 -> sweep_move(n, noise)

-----------------------------------------------------------------------------
(* Teardown *)

AbortEsc(n, noise) ==
  LET o == step(n.eng, "ESC", Look(TRUE, noise), 0, TRUE)
  IN IF o.r = "OK" THEN Goes(finish([n EXCEPT !.eng = o.n], FALSE)) ELSE Stays(n, o)

Teardown(n, noise) ==
  LET o == esc_anchor(n.eng, Look(scr.page = "anchor", noise), FALSE)
  IN IF o.r = "RUN" THEN Stays(n, o)
     ELSE Res([n EXCEPT !.eng = o.n, !.st = "IDLE"], NoKey,
              [Nothing EXCEPT !.done = TRUE, !.ok = n.ok, !.value = IF n.ok THEN n.cur ELSE n.old])

-----------------------------------------------------------------------------
(* tick, and the owner's calls *)

Pass(noise) ==
  CASE m.st = "IDLE"      -> Goes(m)
    [] m.st = "ANCHOR"    -> Anchor(m, noise)
    [] m.st = "ROUTE"     -> Route(m, noise)
    [] m.st = "READ"      -> Read(m, noise)
    [] m.st = "FOCUS"     -> Focus(m, noise)
    [] m.st = "EDIT"      -> Edit(m, noise)
    [] m.st = "COMMIT"    -> Commit(m, noise)
    [] m.st = "SWEEP"     -> Sweep(m, noise)
    [] m.st = "ABORT_ESC" -> AbortEsc(m, noise)
    [] m.st = "TEARDOWN"  -> Teardown(m, noise)

Tick ==
  /\ passes' = IF passes = 1 THEN 2 ELSE 1
  /\ \E noise \in BOOLEAN :
       LET p == Pass(noise)
       IN /\ m' = p.m /\ did' = p.did
          /\ keys' = IF p.press = NoKey THEN keys ELSE Append(keys, [key |-> p.press, age |-> 0])
  /\ UNCHANGED <<req, route, dev, scr, owed, calm, made, lost>>

\* begin_, from get, set, set_ops and read_sweep.
begin ==
  /\ m.st = "IDLE" /\ made < req.times
  /\ m' = [Idle EXCEPT !.st = "ANCHOR", !.resync = m.resync]
  /\ made' = made + 1 /\ lost' = FALSE /\ did' = Nothing
  /\ UNCHANGED <<req, route, keys, dev, scr, owed, calm, passes>>

resync_anchor ==
  /\ m.st = "IDLE" /\ ~m.resync /\ made < req.times
  /\ m' = [m EXCEPT !.resync = TRUE] /\ did' = Nothing
  /\ UNCHANGED <<req, route, keys, dev, scr, owed, calm, passes, made, lost>>

-----------------------------------------------------------------------------
(* The controller *)

Number(d, v) == d.prog[IF d.linked THEN v ELSE 0]
Row2(d) == IF d.focus = 2 THEN d.shown2 ELSE Number(d, d.shown1)
Committed(d, f) == IF f = 1 THEN d.sel ELSE Number(d, d.sel)
Closed(d) == [d EXCEPT !.focus = 0, !.shown1 = d.sel, !.shown2 = 0]

\* Leaving a page closes its focus.  A menu opens anywhere, the gate with no digit typed.
Opened(d, p, near, at) == [Closed(d) EXCEPT !.page = p, !.near = near, !.at = at]
At(d, pages) ==
  UNION {{Opened(d, p, near, at) : near \in IF p = "else" THEN NearRows ELSE {NoRow},
                                   at \in IF p = "menu" THEN 1 .. MenuN ELSE {0}} : p \in pages}

\* Enter opens the first field, commits a field and goes on to the next.
Enters(d) ==
  CASE d.focus = 0 -> [d EXCEPT !.focus = 1]
    [] d.focus = 1 -> [d EXCEPT !.sel = d.shown1, !.focus = 2, !.shown2 = Number(d, d.shown1)]
    [] d.focus = 2 -> Closed([d EXCEPT !.prog[IF d.linked THEN d.sel ELSE 0] = d.shown2])

\* An option list wraps or ends; a number ends.
Stepped(v, up, grid, wraps) ==
  CASE up  -> IF v + grid <= Top THEN v + grid ELSE IF wraps THEN 0 ELSE v
    [] ~up -> IF v >= grid THEN v - grid ELSE IF wraps THEN Top ELSE v

Moves(d, key) ==
  IF d.focus = 1 THEN [d EXCEPT !.shown1 = Stepped(@, key = "UP", 1, d.wraps)]
                 ELSE [d EXCEPT !.shown2 = Stepped(@, key = "UP", d.grid, FALSE)]

\* What a press does.  Without a focus the arrows leave the value page.  The last entry
\* of the menu leads to it, by the password gate unless that was passed; after which
\* Enter the gate opens is open, and it may miss an Up while it repaints.
Elapsed(t, cap) == IF t < cap THEN t + 1 ELSE t
TypedMax == FoldSet(LAMBDA i, sum : sum + Pin[i], 1, 1 .. 4)
Hidden == \E i \in 1 .. Len(route) : route[i].kind = "menu"

OnValuePage(d, key) ==
  CASE d.focus > 0 -> {IF key = "ESC" THEN Closed(d) ELSE Moves(d, key)}
    [] d.focus = 0 -> At(d, IF key = "ESC" THEN {"anchor", "else"} ELSE {"else"})
OnMenu(d, key) ==
  IF key = "ENTER" THEN At(d, IF d.at = MenuN THEN {"gate", "value"} ELSE {"else"})
                   ELSE {[d EXCEPT !.at = Beyond(@, key = "DOWN")]}
OnGate(d, key) ==
  CASE key = "ENTER" -> {d} \cup At(d, {"else", "value"})
    [] key = "UP"    -> {d, [d EXCEPT !.at = Elapsed(@, TypedMax)]}
    [] key = "DOWN"  -> {d}

Press(d, key) ==
  CASE d.page = "value" -> IF key = "ENTER" THEN {Enters(d)} ELSE OnValuePage(d, key)
    [] d.page # "value" /\ key = "ESC" -> {Closed(d)} \cup At(d, {"anchor"})
    [] d.page = "menu" /\ key # "ESC"  -> OnMenu(d, key)
    [] d.page = "gate" /\ key # "ESC"  -> OnGate(d, key)
    [] OTHER -> At(d, {"else", IF Hidden THEN "menu" ELSE "value"})

\* What is drawn for a press: the page, or the field again that an arrow moves or not.
Draws(key) ==
  CASE dev.page = "value" /\ dev.focus > 0 /\ key \in {"UP", "DOWN"} -> "field"
    [] ~(dev.page = "value" /\ dev.focus > 0 /\ key \in {"UP", "DOWN"}) -> IF dev' # dev THEN "page" ELSE owed

Takes ==
  /\ keys # <<>> /\ dev' \in Press(dev, Head(keys).key) /\ keys' = Tail(keys) /\ did' = Nothing
  /\ owed' = Draws(Head(keys).key)
  /\ UNCHANGED <<m, req, route, scr, calm, passes, made, lost>>

\* The pump drops a press; its fate is fed to the machine, or lost on the way.
Drops ==
  /\ keys # <<>> /\ keys' = Tail(keys) /\ did' = Nothing
  /\ LET key == Head(keys).key
     IN /\ m' \in {m, IF FateMatches(m.eng, key) THEN [m EXCEPT !.eng.lost = TRUE] ELSE m}
        /\ lost' = (lost \/ key = "ENTER")
  /\ UNCHANGED <<req, route, dev, scr, owed, calm, passes, made>>

Shown(d) ==
  [page |-> d.page, at |-> d.at, row |-> IF d.page = "value" THEN <<d.shown1, Row2(d)>> ELSE <<d.near, d.near>>]

\* A page is painted as a whole, the fields of an open focus cell by cell.
Repaint ==
  /\ owed # "nothing" /\ owed' = "nothing"
  /\ scr' = Shown(dev) /\ calm' = FALSE /\ passes' = 0 /\ did' = Nothing
  /\ UNCHANGED <<m, req, route, keys, dev, made, lost>>

Tear ==
  /\ owed # "nothing" /\ scr.page = "value" /\ dev.page = "value"
  /\ \E f \in Fields, glimpse \in Readings :
       /\ scr.row[f] # Shown(dev).row[f] \/ (owed = "field" /\ f = dev.focus /\ glimpse = Torn)
       /\ scr' = [scr EXCEPT !.row[f] = glimpse]
  /\ calm' = FALSE /\ passes' = 0 /\ did' = Nothing
  /\ UNCHANGED <<m, req, route, keys, dev, owed, made, lost>>

\* The clock moves by half a second: a redraw takes less, and the main loop passes
\* before and after it.
MayElapse == passes > 0 /\ owed = "nothing" /\ \A i \in 1 .. Len(keys) : keys[i].age < Ttl
Time ==
  /\ MayElapse
  /\ keys' = [i \in 1 .. Len(keys) |-> [keys[i] EXCEPT !.age = @ + 1]]
  /\ calm' = TRUE /\ passes' = 0 /\ did' = Nothing
  /\ m' = [m EXCEPT !.eng.at = IF m.eng.phase = 0 THEN 0 ELSE Elapsed(@, AgeCap),
                    !.wq = IF m.wphase = 1 THEN Elapsed(@, Quiet) ELSE 0,
                    !.wdead = IF m.wphase > 0 /\ @ > 0 THEN @ - 1 ELSE 0]
  /\ UNCHANGED <<req, route, dev, scr, owed, made, lost>>

\* Every request of a behaviour asks for the same; it meets what the one before left.
Arrived(d) == [page |-> "anchor", at |-> 0, near |-> NoRow, focus |-> 0, sel |-> d.sel, shown1 |-> d.sel, shown2 |-> 0,
               prog |-> d.prog, linked |-> d.linked, wraps |-> d.wraps, grid |-> d.grid, named |-> d.named]

Init ==
  /\ \E v \in Visits : req = v.req /\ route = v.route /\ dev = Arrived(v.page)
  /\ m = Idle /\ keys = <<>>
  /\ scr = Shown(dev) /\ owed = "nothing" /\ calm = TRUE /\ passes = 0 /\ made = 0 /\ did = Nothing /\ lost = FALSE

Next == Tick \/ begin \/ resync_anchor \/ Takes \/ Drops \/ Repaint \/ Tear \/ Time

Spec == Init /\ [][Next]_vars

\* The main loop passes over tick for ever, the clock does not stop, and the pump
\* decides every press before its time is up.  Each is stated on the variables that
\* only Tick, Takes and Drops, Repaint, Time change in this way.
Looping == passes' = IF passes = 1 THEN 2 ELSE 1
Deciding == keys # <<>> /\ keys' = Tail(keys)
Drawing == owed # "nothing" /\ owed' = "nothing"
Elapsing == MayElapse /\ passes' = 0 /\ calm' = TRUE

FairSpec ==
  Spec /\ WF_passes(Looping) /\ WF_keys(Deciding) /\ WF_owed(Drawing) /\ WF_<<passes, calm>>(Elapsing)

-----------------------------------------------------------------------------
(* Properties *)

States == {"IDLE", "ANCHOR", "ROUTE", "READ", "FOCUS", "EDIT", "COMMIT", "SWEEP", "ABORT_ESC", "TEARDOWN"}
Pages == {"anchor", "else", "menu", "gate", "value"}

Machines ==
  [st : States, eng : EngineStates, attempt : 0 .. Attempts, step : 1 .. Len(route) + 1, rphase : 0 .. 3,
   press : Nat, op : 1 .. Len(req.ops), field : 0 .. 3, confirm : BOOLEAN, reversed : BOOLEAN, ok : BOOLEAN,
   page0 : Pages \cup {""}, old : Readings, cur : Readings, estart : Readings, wphase : 0 .. 2, wcand : Readings,
   wq : 0 .. Quiet, wdead : 0 .. Deadline, swphase : 0 .. 2, down : BOOLEAN, seen : SUBSET Readings, resync : BOOLEAN]
Devices ==
  [page : Pages, at : Nat, near : Readings, focus : 0 .. 2, sel : Values, shown1 : Values, shown2 : Values,
   prog : [Values -> Values], linked : BOOLEAN, wraps : BOOLEAN, grid : Nat \ {0}, named : BOOLEAN]
Screens == [page : Pages, at : Nat, row : [Fields -> Readings]]
Callbacks == [done : BOOLEAN, ok : BOOLEAN, value : Readings, snap : BOOLEAN, sweep : Readings]

\* No more presses than a step, an edit or a sweep allows: but the confirming visit
\* still counts those of the edit against the first step of its route.
PressesBounded ==
  /\ m.st = "EDIT" => m.press <= MaxPress
  /\ m.st = "SWEEP" => m.press <= 2 * req.expected + 2
  /\ m.st = "ROUTE" => /\ m.step <= Len(route)
                       /\ m.press <= route[m.step].times \/ (m.confirm /\ m.step = 1)

\* Type invariant.  An attempt too many, a focus walked past the page, an operation
\* past the list, an index past the route break it.
TypeOK ==
  /\ m \in Machines /\ PressesBounded
  /\ dev \in Devices /\ scr \in Screens /\ did \in Callbacks /\ owed \in {"nothing", "page", "field"}
  /\ keys \in Seq([key : Keys, age : 0 .. Ttl])
  /\ calm \in BOOLEAN /\ lost \in BOOLEAN /\ passes \in 0 .. 2 /\ made \in 0 .. req.times

\* A set that found, on the visit that decides it, another value than its target is
\* not reported done.
Plain == Len(req.ops) = 1 /\ ~req.sweep
Fulfils(n) == Plain => req.ops[1].target \in {NoRow, n.cur}
TargetReported == did.done /\ did.ok /\ Plain => req.ops[1].target \in {NoRow, did.value}

\* A set or a get that is reported done holds: the value reported is what was asked
\* for and what the controller keeps, although presses and their fates may be lost or
\* late and the row shows the candidate during the edit (the confirming visit, F-13).
\* What the owner snapshots on the way is committed too.
TruthReported ==
  LET f == req.ops[1].field
  IN /\ did.snap => scr.row[f] = Committed(dev, f)
     /\ did.done /\ did.ok /\ Plain => did.value = Committed(dev, f)
     /\ TargetReported

\* The machine sets out to commit a field when the row on the screen reads its target,
\* or nothing can be read: not on a glimpse that was painted over while it was timed
\* (wait_change_), nor on the row of the operation before.
SetsOut(n, k) == k.st = "COMMIT" /\ (n.st # "COMMIT" \/ k.op # n.op)
SeesTarget == SetsOut(m, m') => Row(m') \in {NoRow, Op(m').target}
CommitsWhatShows == [][SeesTarget]_m

\* Of all the values a page can take the machine commits the target only, whatever
\* is lost, and it sees the target when it sets out to.  Where an earlier field repaints the edited one this holds as long as no
\* Enter of the request is lost.
Asked(f, v) == \E i \in 1 .. Len(req.ops) : req.ops[i].field = f /\ req.ops[i].target = v
OwnRow == Len(req.ops) = 1 /\ (req.ops[1].field = 1 \/ ~dev.linked)
OnlyTargetCommitted ==
  [][/\ SeesTarget
     /\ OwnRow \/ ~lost =>
          /\ dev'.sel # dev.sel => Asked(1, dev'.sel)
          /\ dev'.prog # dev.prog => Asked(2, Committed(dev', 2))]_<<m, dev>>

\* When the sweep publishes a value the owner finds that value on the screen, and the
\* rows the controller keeps for it: not a torn text, not the rows of the value before.
\* The Enter that opens the selector has to arrive for this: the sweep does not ask
\* whether it is still on_value_page, and without a focus its presses page away.
SweepShowsValue ==
  did.sweep # NoRow /\ ~lost => did.sweep \in Values /\ scr.row = <<did.sweep, Number(dev, did.sweep)>>

\* The walk never follows a neighbouring page whose extractor happens to match
\* (plan_edit.h:35-38): of a page that has a name the sweep publishes no values but
\* its own.  Violated: where the focus Enter was lost, the sweep pages away.
SweepOnPage == did.sweep # NoRow /\ dev.named => scr.page = "value"

\* Every request ends with its callback, whatever is lost and whatever the screen
\* shows: the edit queue goes on.
EditEnds == m.st # "IDLE" ~> did.done
=============================================================================
