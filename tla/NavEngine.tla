----------------------------- MODULE NavEngine -----------------------------
(***************************************************************************)
(* The verified navigation primitives (plan::NavEngine): press a key, wait *)
(* for the screen to settle, check what it shows.  Each primitive is       *)
(* advanced once per pass of the main loop, and all share one sub-state,   *)
(* the record n of the operators below: step_ uses phase (aphase_), at     *)
(* (the time since at0_), key, lost and again (step_repressed_); the       *)
(* fields after them are the others'; gate is gate_step_'s (PlanNav).      *)
(*                                                                         *)
(* A primitive maps its sub-state and a look at the screen to an outcome:  *)
(* RUN, OK or FAIL, the new sub-state and the key it presses, if any.      *)
(* What the screen shows is left open: a look says whether the predicate   *)
(* the running primitive asks about holds, and whether the screen settled. *)
(***************************************************************************)
EXTENDS Naturals, Sequences, FiniteSetsExt

CONSTANTS Quiet,       \* NAV_QUIET_MS: no press and no repaint for this long
          SettleCap,   \* NAV_SETTLE_CAP_MS: give up waiting for that
          Verify,      \* NAV_VERIFY_MS
          SeekCheck,   \* NAV_SEEK_CHECK_MS
          PinGate,     \* EDIT_PIN_GATE_MS
          EscMax,      \* NAV_ESC_MAX
          MenuN,       \* entries of a cursor menu
          Pin          \* the digits of the configured PIN in stage order

ASSUME EngineAssumption ==
  /\ Quiet \in Nat /\ SettleCap \in Nat /\ Verify \in Nat /\ SeekCheck \in Nat /\ PinGate \in Nat
  /\ EscMax \in Nat \ {0} /\ MenuN \in Nat \ {0} /\ Pin \in [1 .. 4 -> 0 .. 9]

Keys == {"ESC", "ENTER", "UP", "DOWN"}
NoKey == "none"

Looks == [holds : BOOLEAN, quiet : BOOLEAN, cursor : 1 .. MenuN]

\* A predicate that always holds: the step only waits for its key to settle.
Sure(look) == [look EXCEPT !.holds = TRUE]

Fresh == [phase |-> 0, at |-> 0, key |-> NoKey, lost |-> FALSE, again |-> FALSE, esc |-> 0,
          menu |-> 0, pos |-> 1, sweep |-> 0, check |-> TRUE, seek |-> 0,
          pin |-> 0, stage |-> 1, ups |-> 0, gate |-> 0]

\* The clock of a step stops where no comparison tells its values apart any more.
AgeCap == Max({Quiet, SettleCap, Verify, SeekCheck, PinGate})

EngineStates ==
  [phase : 0 .. 2, at : 0 .. AgeCap, key : Keys \cup {NoKey}, lost : BOOLEAN, again : BOOLEAN,
   esc : 0 .. EscMax, menu : 0 .. 2, pos : 1 .. MenuN, sweep : 0 .. 2, check : BOOLEAN,
   seek : Nat, pin : 0 .. 2, stage : 1 .. 4, ups : 0 .. 9, gate : 0 .. 3]

Out(r, n, press) == [r |-> r, n |-> n, press |-> press]
Run(n) == Out("RUN", n, NoKey)
Ok(n) == Out("OK", n, NoKey)
Fail(n) == Out("FAIL", n, NoKey)

-----------------------------------------------------------------------------
(* step_: press, settle, verify *)

Begun(n, settle) == [n EXCEPT !.phase = IF settle THEN 1 ELSE 2, !.at = 0]

\* A keyless settle has no press to outwait.
SettledFor(n, key, look) == look.quiet /\ (key = NoKey \/ n.at >= Quiet)

\* The verify window, opened when the screen settled; a screen that never settles
\* is not read by a step without a key.
Checked(n, key, look, verify) ==
  LET waits == n.phase = 1 /\ ~SettledFor(n, key, look)
      at == IF n.phase = 1 THEN 0 ELSE n.at
  IN CASE waits /\ n.at < SettleCap          -> Run(n)
       [] waits /\ n.at >= SettleCap /\ key = NoKey -> Fail([n EXCEPT !.phase = 0])
       [] OTHER ->
            CASE look.holds                  -> Ok([n EXCEPT !.phase = 0, !.at = 0])
              [] ~look.holds /\ at >= verify -> Fail([n EXCEPT !.phase = 0, !.at = 0])
              [] OTHER                       -> Run([n EXCEPT !.phase = 2, !.at = at])

Presses(n, key, settle) ==
  Out("RUN", [Begun(n, settle) EXCEPT !.key = key, !.lost = FALSE, !.again = FALSE], key)

\* Fault: a lost press is repeated as often as it is reported lost.
RepressesAgain(n, settle) == Out("RUN", [Begun(n, settle) EXCEPT !.lost = FALSE], n.key)

\* The press was reported lost: it is made once more, with a fresh settle.
Represses(n, settle) ==
  Out("RUN", [Begun(n, settle) EXCEPT !.lost = FALSE, !.again = TRUE], n.key)

step(n, key, look, verify, settle) ==
  CASE n.phase = 0                          -> Presses(n, key, settle)
    [] n.phase # 0 /\ n.lost /\ ~n.again    -> Represses(n, settle)
    [] n.phase # 0 /\ ~(n.lost /\ ~n.again) -> Checked([n EXCEPT !.lost = FALSE], key, look, verify)

\* key_fate: the pump reported a press of this key rejected or expired.  The fate
\* of an earlier press of the same key is taken for the running step's own.
FateMatches(n, key) == n.phase # 0 /\ n.key = key

-----------------------------------------------------------------------------
(* esc_anchor_: Esc until the clock row shows *)

\* Fault: the remembered screen is trusted.
TrustsAnchor(n, look, first) == n.phase = 0 /\ look.holds

\* With first, one Esc is pressed before the screen is trusted.
AtAnchor(n, look, first) == n.phase = 0 /\ look.holds /\ ~(first /\ n.esc = 0)

esc_anchor(n, look, first) ==
  LET arrived == AtAnchor(n, look, first)
      o == step([n EXCEPT !.esc = IF n.phase = 0 THEN @ + 1 ELSE @], "ESC", look, 0, TRUE)
  IN CASE arrived -> Ok([n EXCEPT !.esc = 0])
       [] ~arrived /\ n.phase = 0 /\ n.esc >= EscMax -> Fail([n EXCEPT !.esc = 0])
       [] OTHER -> IF o.r = "OK" THEN Ok([o.n EXCEPT !.esc = 0]) ELSE [o EXCEPT !.r = "RUN"]

-----------------------------------------------------------------------------
(* menu_select_in_: pin a cursor menu onto an entry, each move verified *)

\* The next cursor position: towards the target, or round the end if shorter.
Forward(pos, target, wraps) ==
  IF wraps THEN 2 * ((target + MenuN - pos) % MenuN) <= MenuN ELSE pos < target
Beyond(pos, fwd) ==
  CASE fwd  -> IF pos = MenuN THEN 1 ELSE pos + 1
    [] ~fwd -> IF pos = 1 THEN MenuN ELSE pos - 1

\* The header tells where the cursor is; a label that is not in the menu (0) fails.
menu_header(n, look, target) ==
  LET o == step(n, NoKey, look, Verify, FALSE)
  IN CASE o.r # "OK"               -> o
       [] o.r = "OK" /\ target = 0 -> Fail([o.n EXCEPT !.pos = look.cursor])
       [] o.r = "OK" /\ target # 0 -> Run([o.n EXCEPT !.pos = look.cursor, !.menu = 1])

menu_move(n, look, target, wraps) ==
  LET fwd == Forward(n.pos, target, wraps)
      o == step(n, IF fwd THEN "DOWN" ELSE "UP", look, Verify, FALSE)
  IN CASE o.r = "OK"   -> Run([o.n EXCEPT !.pos = Beyond(n.pos, fwd)])
       [] o.r = "FAIL" -> Fail([o.n EXCEPT !.menu = 0])
       [] o.r = "RUN"  -> o

menu_select(n, look, target, wraps) ==
  CASE n.menu = 0                     -> menu_header(n, look, target)
    [] n.menu = 1 /\ n.pos = target   -> Run([n EXCEPT !.menu = 2])
    [] n.menu = 1 /\ n.pos # target   -> menu_move(n, look, target, wraps)
    [] n.menu = 2 ->
         LET o == step(n, NoKey, look, Verify, FALSE)
         IN IF o.r = "RUN" THEN o ELSE [o EXCEPT !.n.menu = 0]

-----------------------------------------------------------------------------
(* Seeking: press on until the wanted entry shows *)

Sought(o) == [o EXCEPT !.n.sweep = 0, !.n.check = TRUE, !.n.seek = 0]

\* One position: check it, then press on.
seek_press_on(n, look, key) ==
  LET o == step(n, key, Sure(look), 0, TRUE)
  IN IF o.r = "OK" THEN Run([o.n EXCEPT !.seek = @ + 1, !.check = TRUE])
     ELSE [o EXCEPT !.r = "RUN"]

\* seek_selected_: Down across the span, Up across twice the span, a last look.
seek_selected(n, look, span) ==
  LET budget == IF n.sweep = 0 THEN span ELSE 2 * span
      o == step(n, NoKey, look, SeekCheck, FALSE)
  IN CASE n.sweep = 2 -> IF o.r = "RUN" THEN o ELSE Sought(o)
       [] n.sweep < 2 /\ ~n.check ->
            seek_press_on(n, look, IF n.sweep = 0 THEN "DOWN" ELSE "UP")
       [] n.sweep < 2 /\ n.check ->
            CASE o.r = "OK"   -> Sought(o)
              [] o.r = "RUN"  -> o
              [] o.r = "FAIL" -> Run(IF n.seek >= budget
                                     THEN [o.n EXCEPT !.sweep = @ + 1, !.seek = 0]
                                     ELSE [o.n EXCEPT !.check = FALSE])

\* seek_press_: one key, at most span times, until the expectation holds.
seek_press(n, look, key, span) ==
  LET o == step(n, NoKey, look, SeekCheck, FALSE)
  IN CASE ~n.check -> seek_press_on(n, look, key)
       [] n.check  ->
            CASE o.r = "OK"   -> Sought(o)
              [] o.r = "RUN"  -> o
              [] o.r = "FAIL" -> IF n.seek >= span THEN Sought(o)
                                 ELSE Run([o.n EXCEPT !.check = FALSE])

-----------------------------------------------------------------------------
(* pin_tick_: type the PIN, hundreds, tens, units, thousands *)

\* A PIN of 0 is not configured.
Configured == \E digit \in 1 .. 4 : Pin[digit] # 0

\* The thousands stage is skipped when its digit is 0.
PinDone(stage) == stage = 4 \/ (stage = 3 /\ Pin[4] = 0)

pin_tick(n, look) ==
  LET enter == step(n, "ENTER", Sure(look), 0, TRUE)
      up == step(n, "UP", look, Verify, TRUE)
  IN CASE n.pin = 0 -> IF enter.r = "OK"
                       THEN Run([enter.n EXCEPT !.pin = 1, !.stage = 1, !.ups = Pin[1]])
                       ELSE [enter EXCEPT !.r = "RUN"]
       [] n.pin = 1 /\ n.ups = 0 -> Run([n EXCEPT !.pin = 2])
       [] n.pin = 1 /\ n.ups > 0 -> IF up.r = "OK" THEN Run([up.n EXCEPT !.ups = @ - 1]) ELSE up
       [] n.pin = 2 /\ enter.r # "OK" -> [enter EXCEPT !.r = "RUN"]
       [] n.pin = 2 /\ enter.r = "OK" /\ PinDone(n.stage) -> enter
       [] n.pin = 2 /\ enter.r = "OK" /\ ~PinDone(n.stage) ->
            Run([enter.n EXCEPT !.pin = 1, !.stage = @ + 1, !.ups = Pin[n.stage + 1]])
=============================================================================
