-------------------------- MODULE NavEngineProofs --------------------------
(***************************************************************************)
(* What the navigation primitives return, for every screen, PIN, menu and  *)
(* choice of the waits: typed outcomes that press nothing but their own    *)
(* lost key while a step is under way; and which keys a step and a menu    *)
(* press, and how a step goes on.  Both machines build on these.           *)
(***************************************************************************)
EXTENDS NavEngine, TLAPS

Results == {"RUN", "OK", "FAIL"}
Pressed == Keys \cup {NoKey}
Outcomes == [r : Results, n : EngineStates, press : Pressed]

LEMMA AgeCapNat == AgeCap \in Nat
  <1> USE EngineAssumption
  <1> DEFINE S == {Quiet, SettleCap, Verify, SeekCheck, PinGate}
  <1>1. ASSUME NEW a \in Nat, NEW b \in Nat
        PROVE  \E m \in {a, b} : m >= a /\ m >= b
    BY SMT
  <1>2. PICK m1 \in {Quiet, SettleCap} : m1 >= Quiet /\ m1 >= SettleCap
    BY <1>1
  <1>3. PICK m2 \in {m1, Verify} : m2 >= m1 /\ m2 >= Verify
    BY <1>1
  <1>4. PICK m3 \in {m2, SeekCheck} : m3 >= m2 /\ m3 >= SeekCheck
    BY <1>1
  <1>5. PICK m4 \in {m3, PinGate} : m4 >= m3 /\ m4 >= PinGate
    BY <1>1
  <1>6. m4 \in S /\ \A y \in S : m4 >= y
    BY <1>2, <1>3, <1>4, <1>5
  <1>7. AgeCap \in S
    BY <1>6 DEF AgeCap, Max
  <1> QED BY <1>7

-----------------------------------------------------------------------------
(* The sub-state and the outcomes *)

\* An update of any field leaves a sub-state.
LEMMA Update ==
  ASSUME NEW n \in EngineStates
  PROVE  /\ \A v \in 0 .. 2 : [n EXCEPT !.phase = v] \in EngineStates
         /\ \A v \in 0 .. AgeCap : [n EXCEPT !.at = v] \in EngineStates
         /\ \A v \in Pressed : [n EXCEPT !.key = v] \in EngineStates
         /\ \A v \in BOOLEAN : [n EXCEPT !.lost = v] \in EngineStates
         /\ \A v \in BOOLEAN : [n EXCEPT !.again = v] \in EngineStates
         /\ \A v \in 0 .. EscMax : [n EXCEPT !.esc = v] \in EngineStates
         /\ \A v \in 0 .. 2 : [n EXCEPT !.menu = v] \in EngineStates
         /\ \A v \in 1 .. MenuN : [n EXCEPT !.pos = v] \in EngineStates
         /\ \A v \in 0 .. 2 : [n EXCEPT !.sweep = v] \in EngineStates
         /\ \A v \in BOOLEAN : [n EXCEPT !.check = v] \in EngineStates
         /\ \A v \in Nat : [n EXCEPT !.seek = v] \in EngineStates
         /\ \A v \in 0 .. 2 : [n EXCEPT !.pin = v] \in EngineStates
         /\ \A v \in 1 .. 4 : [n EXCEPT !.stage = v] \in EngineStates
         /\ \A v \in 0 .. 9 : [n EXCEPT !.ups = v] \in EngineStates
         /\ \A v \in 0 .. 3 : [n EXCEPT !.gate = v] \in EngineStates
  BY DEF EngineStates, Pressed

LEMMA SubFields ==
  ASSUME NEW n \in EngineStates
  PROVE  /\ n.phase \in 0 .. 2 /\ n.at \in 0 .. AgeCap /\ n.key \in Pressed /\ n.lost \in BOOLEAN
         /\ n.again \in BOOLEAN /\ n.esc \in 0 .. EscMax /\ n.menu \in 0 .. 2
         /\ n.pos \in 1 .. MenuN /\ n.sweep \in 0 .. 2 /\ n.check \in BOOLEAN /\ n.seek \in Nat
         /\ n.pin \in 0 .. 2 /\ n.stage \in 1 .. 4 /\ n.ups \in 0 .. 9 /\ n.gate \in 0 .. 3
  BY DEF EngineStates, Pressed

LEMMA FreshTyped == Fresh \in EngineStates /\ Fresh.phase = 0 /\ Fresh.esc = 0
  BY AgeCapNat, EngineAssumption DEF Fresh, EngineStates

LEMMA Words ==
  /\ "RUN" \in Results /\ "OK" \in Results /\ "FAIL" \in Results
  /\ NoKey \in Pressed /\ "ESC" \in Pressed /\ "ENTER" \in Pressed /\ "UP" \in Pressed
  /\ "DOWN" \in Pressed
  BY DEF Results, Pressed, Keys

LEMMA OutTyped ==
  ASSUME NEW r \in Results, NEW n \in EngineStates, NEW press \in Pressed
  PROVE  /\ Out(r, n, press) \in Outcomes
         /\ Out(r, n, press).r = r /\ Out(r, n, press).n = n /\ Out(r, n, press).press = press
  BY DEF Out, Outcomes

LEMMA SureTyped == \A look \in Looks : Sure(look) \in Looks
  BY DEF Sure, Looks

-----------------------------------------------------------------------------
(* step_ *)

\* What step_ leaves alone of the primitives' own fields.
Untouched(n, m) ==
  /\ m.esc = n.esc /\ m.sweep = n.sweep /\ m.stage = n.stage /\ m.ups = n.ups

\* A step begins with its key and ends at phase 0; under way it presses nothing but
\* the key it began with.
StepResult(n, key, o) ==
  /\ o \in Outcomes
  /\ n.phase = 0 => o.r = "RUN" /\ o.press = key
  /\ n.phase # 0 => o.press \in {NoKey, n.key}
  /\ o.r = "OK" => o.n.phase = 0
  /\ Untouched(n, o.n)

LEMMA BegunTyped ==
  ASSUME NEW n \in EngineStates, NEW settle \in BOOLEAN
  PROVE  Begun(n, settle) \in EngineStates /\ Untouched(n, Begun(n, settle))
  <1> DEFINE p == IF settle THEN 1 ELSE 2
             m == [n EXCEPT !.phase = p, !.at = 0]
  <1>1. p \in 0 .. 2 /\ 0 \in 0 .. AgeCap
    BY AgeCapNat
  <1>2. m \in EngineStates
    BY <1>1, Update, Zenon
  <1>3. Untouched(n, m)
    BY DEF EngineStates, Untouched
  <1> QED BY <1>2, <1>3 DEF Begun

LEMMA PressesStep ==
  ASSUME NEW n \in EngineStates, NEW key \in Pressed, NEW settle \in BOOLEAN, n.phase = 0
  PROVE  StepResult(n, key, Presses(n, key, settle))
  <1> DEFINE m == [Begun(n, settle) EXCEPT !.key = key, !.lost = FALSE, !.again = FALSE]
  <1>1. Begun(n, settle) \in EngineStates /\ Untouched(n, Begun(n, settle))
    BY BegunTyped
  <1>2. m \in EngineStates
    BY <1>1, Update, Zenon
  <1>3. Untouched(n, m)
    BY <1>1 DEF EngineStates, Untouched
  <1>4. Presses(n, key, settle) = Out("RUN", m, key)
    BY DEF Presses
  <1> HIDE DEF m
  <1> QED BY <1>2, <1>3, <1>4, OutTyped, Words DEF StepResult

LEMMA RepressesStep ==
  ASSUME NEW n \in EngineStates, NEW key \in Pressed, NEW settle \in BOOLEAN, n.phase # 0
  PROVE  StepResult(n, key, Represses(n, settle))
  <1> DEFINE m == [Begun(n, settle) EXCEPT !.lost = FALSE, !.again = TRUE]
  <1>1. Begun(n, settle) \in EngineStates /\ Untouched(n, Begun(n, settle))
    BY BegunTyped
  <1>2. m \in EngineStates
    BY <1>1, Update, Zenon
  <1>3. Untouched(n, m)
    BY <1>1 DEF EngineStates, Untouched
  <1>4. Represses(n, settle) = Out("RUN", m, n.key) /\ n.key \in Pressed
    BY SubFields DEF Represses
  <1> HIDE DEF m
  <1> QED BY <1>2, <1>3, <1>4, OutTyped, Words DEF StepResult

LEMMA CheckedStep ==
  ASSUME NEW n \in EngineStates, NEW key \in Pressed, NEW look \in Looks, NEW verify \in Nat,
         n.phase # 0
  PROVE  LET m == [n EXCEPT !.lost = FALSE]
         IN  StepResult(n, key, Checked(m, key, look, verify))
  <1> DEFINE m == [n EXCEPT !.lost = FALSE]
             at == IF m.phase = 1 THEN 0 ELSE m.at
             waits == m.phase = 1 /\ ~SettledFor(m, key, look)
             m1 == [m EXCEPT !.phase = 0]
             m2 == [m EXCEPT !.phase = 0, !.at = 0]
             m3 == [m EXCEPT !.phase = 2, !.at = at]
  <1>1. m \in EngineStates /\ Untouched(n, m)
    <2>1. m \in EngineStates
      BY Update
    <2>2. Untouched(n, m)
      BY DEF EngineStates, Untouched
    <2> QED BY <2>1, <2>2
  <1>2. Checked(m, key, look, verify) \in {Run(m), Fail(m1), Ok(m2), Fail(m2), Run(m3)}
    <2> HIDE DEF m
    <2>1. CASE waits /\ m.at < SettleCap
      BY <2>1 DEF Checked
    <2>2. CASE waits /\ m.at >= SettleCap /\ key = NoKey /\ ~(waits /\ m.at < SettleCap)
      BY <2>2 DEF Checked
    <2>3. CASE ~(waits /\ m.at < SettleCap) /\ ~(waits /\ m.at >= SettleCap /\ key = NoKey)
      <3> DEFINE rest == CASE look.holds                  -> Ok(m2)
                           [] ~look.holds /\ at >= verify -> Fail(m2)
                           [] OTHER                       -> Run(m3)
      <3>1. Checked(m, key, look, verify) = rest
        BY <2>3 DEF Checked
      <3> HIDE DEF waits, at, m2, m3
      <3>2. rest \in {Ok(m2), Fail(m2), Run(m3)}
        <4>1. CASE look.holds
          BY <4>1
        <4>2. CASE ~look.holds /\ at >= verify
          BY <4>2
        <4>3. CASE ~look.holds /\ ~(at >= verify)
          BY <4>3
        <4> QED BY <4>1, <4>2, <4>3
      <3> QED BY <3>1, <3>2
    <2> QED BY <2>1, <2>2, <2>3
  <1>3. m1 \in EngineStates /\ m2 \in EngineStates /\ m3 \in EngineStates
    <2> HIDE DEF m
    <2>1. 0 \in 0 .. 2 /\ 2 \in 0 .. 2 /\ 0 \in 0 .. AgeCap /\ at \in 0 .. AgeCap
      BY <1>1, SubFields, AgeCapNat
    <2> HIDE DEF at
    <2> QED BY <1>1, <2>1, Update, Zenon
  <1>4. Untouched(n, m1) /\ Untouched(n, m2) /\ Untouched(n, m3)
    <2> HIDE DEF m, at
    <2> QED BY <1>1 DEF EngineStates, Untouched
  <1>5. m1.phase = 0 /\ m2.phase = 0
    <2> HIDE DEF m
    <2> QED BY <1>1 DEF EngineStates
  <1> HIDE DEF m, m1, m2, m3
  <1>6. ASSUME NEW r \in Results, NEW k \in EngineStates, Untouched(n, k), r = "OK" => k.phase = 0
        PROVE  StepResult(n, key, Out(r, k, NoKey))
    BY <1>6, OutTyped, Words DEF StepResult
  <1>7. \A k : Run(k) = Out("RUN", k, NoKey) /\ Ok(k) = Out("OK", k, NoKey)
               /\ Fail(k) = Out("FAIL", k, NoKey)
    BY DEF Run, Ok, Fail
  <1>8. /\ StepResult(n, key, Run(m)) /\ StepResult(n, key, Fail(m1)) /\ StepResult(n, key, Ok(m2))
        /\ StepResult(n, key, Fail(m2)) /\ StepResult(n, key, Run(m3))
    BY <1>1, <1>3, <1>4, <1>5, <1>6, <1>7, Words
  <1>9. StepResult(n, key, Checked(m, key, look, verify))
    BY <1>2, <1>8
  <1> QED BY <1>9 DEF m

LEMMA StepOut ==
  ASSUME NEW n \in EngineStates, NEW key \in Pressed, NEW look \in Looks,
         NEW verify \in Nat, NEW settle \in BOOLEAN
  PROVE  StepResult(n, key, step(n, key, look, verify, settle))
  <1>1. CASE n.phase = 0
    BY <1>1, PressesStep DEF step
  <1>2. CASE n.phase # 0 /\ n.lost /\ ~n.again
    BY <1>2, RepressesStep DEF step
  <1>3. CASE n.phase # 0 /\ ~(n.lost /\ ~n.again)
    BY <1>3, CheckedStep DEF step
  <1> QED BY <1>1, <1>2, <1>3

-----------------------------------------------------------------------------
(* The primitives *)

\* A primitive under way presses nothing but the key of its running step; success
\* leaves no step under way, or the sub-state as it was.
Verified(n, o) ==
  /\ o \in Outcomes
  /\ n.phase # 0 => o.press \in {NoKey, n.key}
  /\ o.r = "OK" => o.n.phase = 0 \/ o.n = n

LEMMA OutcomeFields ==
  ASSUME NEW o \in Outcomes
  PROVE  o.r \in Results /\ o.n \in EngineStates /\ o.press \in Pressed
  BY DEF Outcomes

LEMMA StepVerified ==
  ASSUME NEW n \in EngineStates, NEW key \in Pressed, NEW o, StepResult(n, key, o)
  PROVE  Verified(n, o)
  BY DEF StepResult, Verified

\* Outcomes without a key.
LEMMA KeylessVerified ==
  ASSUME NEW n \in EngineStates, NEW m \in EngineStates
  PROVE  /\ Verified(n, Run(m)) /\ Verified(n, Fail(m))
         /\ m.phase = 0 \/ m = n => Verified(n, Ok(m))
         /\ Run(m).press = NoKey /\ Fail(m).press = NoKey /\ Ok(m).press = NoKey
         /\ Run(m).r = "RUN" /\ Fail(m).r = "FAIL" /\ Ok(m).r = "OK"
         /\ Run(m).n = m /\ Fail(m).n = m /\ Ok(m).n = m
  BY OutTyped, Words DEF Verified, Run, Fail, Ok

\* A step's failure, or its success, that the primitive does not let end it.
LEMMA GoesOn ==
  ASSUME NEW n \in EngineStates, NEW o, Verified(n, o)
  PROVE  /\ Verified(n, [o EXCEPT !.r = "RUN"])
         /\ [o EXCEPT !.r = "RUN"].press = o.press /\ [o EXCEPT !.r = "RUN"].n = o.n
         /\ [o EXCEPT !.r = "RUN"].r = "RUN"
  BY Words DEF Verified, Outcomes

\* An outcome whose sub-state is tidied up.
LEMMA Tidied ==
  ASSUME NEW n \in EngineStates, NEW key \in Pressed, NEW o, StepResult(n, key, o),
         NEW m \in EngineStates, m.phase = o.n.phase
  PROVE  Verified(n, [o EXCEPT !.n = m])
  BY Words DEF Verified, Outcomes, StepResult

LEMMA SoughtVerified ==
  ASSUME NEW n \in EngineStates, NEW key \in Pressed, NEW o, StepResult(n, key, o)
  PROVE  Verified(n, Sought(o))
  <1> DEFINE m == [o.n EXCEPT !.sweep = 0, !.check = TRUE, !.seek = 0]
  <1>1. o \in Outcomes /\ o.n \in EngineStates
    BY OutcomeFields DEF StepResult
  <1>2. m \in EngineStates
    <2>1. 0 \in 0 .. 2 /\ TRUE \in BOOLEAN /\ 0 \in Nat
      OBVIOUS
    <2> QED BY <1>1, <2>1, Update, Zenon
  <1>3. m.phase = o.n.phase
    BY <1>1 DEF EngineStates
  <1>4. Sought(o) = [o EXCEPT !.n = m]
    BY <1>1 DEF Sought, Outcomes
  <1> HIDE DEF m
  <1> QED BY <1>2, <1>3, <1>4, Tidied

\* Esc until the anchor shows.  Between two steps nothing but Esc is pressed; with
\* the screen not trusted, or the budget fresh, an outcome that stands for
\* progress has pressed it.
AnchorOut(n, first, o) ==
  /\ Verified(n, o)
  /\ n.phase = 0 => o.press \in {NoKey, "ESC"}
  /\ n.phase = 0 /\ n.esc = 0 => o.press = "ESC" \/ o.r = "OK"
  /\ n.phase = 0 /\ n.esc = 0 /\ first => o.press = "ESC"
  /\ o.r = "OK" => o.n.phase = 0 /\ o.n.esc = 0
  /\ o.press = "ESC" /\ n.phase = 0 => o.r = "RUN"

LEMMA EscAnchorOut ==
  ASSUME NEW n \in EngineStates, NEW look \in Looks, NEW first \in BOOLEAN
  PROVE  AnchorOut(n, first, esc_anchor(n, look, first))
  <1> DEFINE m == [n EXCEPT !.esc = IF n.phase = 0 THEN n.esc + 1 ELSE n.esc]
             o == step(m, "ESC", look, 0, TRUE)
             z == [n EXCEPT !.esc = 0]
             out == esc_anchor(n, look, first)
  <1> SUFFICES AnchorOut(n, first, out)
    OBVIOUS
  <1>1. z \in EngineStates /\ z.phase = n.phase /\ z.esc = 0
    <2>1. 0 \in 0 .. EscMax
      BY EngineAssumption
    <2>2. z \in EngineStates
      BY <2>1, Update
    <2>3. z.phase = n.phase /\ z.esc = 0
      BY DEF EngineStates
    <2> QED BY <2>2, <2>3
  <1>2. CASE AtAnchor(n, look, first)
    <2>1. out = Ok(z)
      BY <1>2 DEF esc_anchor
    <2>2. n.phase = 0 /\ ~(first /\ n.esc = 0)
      BY <1>2 DEF AtAnchor
    <2> HIDE DEF z, out
    <2> QED BY <1>1, <2>1, <2>2, KeylessVerified DEF AnchorOut, NoKey
  <1>3. CASE ~AtAnchor(n, look, first) /\ n.phase = 0 /\ n.esc >= EscMax
    <2>1. out = Fail(z)
      BY <1>3 DEF esc_anchor
    <2>2. n.esc # 0
      BY <1>3, EngineAssumption
    <2> HIDE DEF z, out
    <2> QED BY <1>1, <1>3, <2>1, <2>2, KeylessVerified, Words DEF AnchorOut, NoKey
  <1>4. CASE ~AtAnchor(n, look, first) /\ ~(n.phase = 0 /\ n.esc >= EscMax)
    <2>1. m \in EngineStates /\ m.phase = n.phase /\ m.key = n.key
      <3>1. (IF n.phase = 0 THEN n.esc + 1 ELSE n.esc) \in 0 .. EscMax
        BY <1>4, SubFields, EngineAssumption
      <3>2. m \in EngineStates
        BY <3>1, Update
      <3>3. m.phase = n.phase /\ m.key = n.key
        BY DEF EngineStates
      <3> QED BY <3>2, <3>3
    <2> HIDE DEF m
    <2>2. StepResult(m, "ESC", o)
      BY <2>1, StepOut, Words
    <2>3. out = IF o.r = "OK" THEN Ok([o.n EXCEPT !.esc = 0]) ELSE [o EXCEPT !.r = "RUN"]
      BY <1>4 DEF esc_anchor, m
    <2> HIDE DEF o, out
    <2>4. Verified(n, o) /\ o.n \in EngineStates /\ o \in Outcomes
      BY <2>1, <2>2, OutcomeFields DEF StepResult, Verified
    <2>5. CASE o.r = "OK"
      <3> DEFINE k == [o.n EXCEPT !.esc = 0]
      <3>1. k \in EngineStates /\ k.phase = o.n.phase /\ k.esc = 0
        <4>1. 0 \in 0 .. EscMax
          BY EngineAssumption
        <4>2. k \in EngineStates
          BY <2>4, <4>1, Update
        <4>3. k.phase = o.n.phase /\ k.esc = 0
          BY <2>4 DEF EngineStates
        <4> QED BY <4>2, <4>3
      <3>2. out = Ok(k) /\ o.n.phase = 0 /\ n.phase # 0
        BY <2>1, <2>2, <2>3, <2>5 DEF StepResult
      <3> HIDE DEF k
      <3> QED BY <3>1, <3>2, KeylessVerified DEF AnchorOut, NoKey
    <2>6. CASE o.r # "OK"
      <3>1. out = [o EXCEPT !.r = "RUN"]
        BY <2>3, <2>6
      <3>2. Verified(n, out) /\ out.press = o.press /\ out.n = o.n /\ out.r = "RUN"
        BY <2>4, <3>1, GoesOn
      <3>3. n.phase = 0 => o.press = "ESC"
        BY <2>1, <2>2 DEF StepResult
      <3> QED BY <3>2, <3>3 DEF AnchorOut, NoKey
    <2> QED BY <2>5, <2>6
  <1> QED BY <1>2, <1>3, <1>4

\* The sub-state of a step's outcome, updated.
LEMMA StepTyped ==
  ASSUME NEW n \in EngineStates, NEW key \in Pressed, NEW o, StepResult(n, key, o)
  PROVE  Verified(n, o) /\ o \in Outcomes /\ o.r \in Results /\ o.n \in EngineStates
  BY StepVerified, OutcomeFields DEF StepResult

LEMMA MenuHeaderOut ==
  ASSUME NEW n \in EngineStates, NEW look \in Looks, NEW target \in 0 .. MenuN
  PROVE  Verified(n, menu_header(n, look, target))
  <1> DEFINE o == step(n, NoKey, look, Verify, FALSE)
             p == [o.n EXCEPT !.pos = look.cursor]
             m == [o.n EXCEPT !.pos = look.cursor, !.menu = 1]
  <1>1. StepResult(n, NoKey, o)
    BY StepOut, Words, EngineAssumption
  <1>2. menu_header(n, look, target) \in {o, Fail(p), Run(m)}
    <2>1. CASE o.r # "OK"
      BY <2>1 DEF menu_header
    <2>2. CASE o.r = "OK" /\ target = 0
      BY <2>2 DEF menu_header
    <2>3. CASE o.r = "OK" /\ target # 0
      BY <2>3 DEF menu_header
    <2> QED BY <2>1, <2>2, <2>3
  <1> HIDE DEF o
  <1>3. p \in EngineStates /\ m \in EngineStates
    <2>1. look.cursor \in 1 .. MenuN /\ 1 \in 0 .. 2
      BY DEF Looks
    <2>2. o.n \in EngineStates
      BY <1>1, StepTyped, Words
    <2> QED BY <2>1, <2>2, Update, Zenon
  <1> HIDE DEF p, m
  <1> QED BY <1>1, <1>2, <1>3, StepTyped, KeylessVerified, Words

LEMMA BeyondTyped ==
  ASSUME NEW pos \in 1 .. MenuN, NEW fwd
  PROVE  Beyond(pos, fwd) \in 1 .. MenuN
  <1>1. MenuN \in Nat \ {0}
    BY EngineAssumption
  <1>2. CASE fwd
    <2>1. Beyond(pos, fwd) = IF pos = MenuN THEN 1 ELSE pos + 1
      BY <1>2 DEF Beyond
    <2> QED BY <1>1, <2>1
  <1>3. CASE ~fwd
    <2>1. Beyond(pos, fwd) = IF pos = 1 THEN MenuN ELSE pos - 1
      BY <1>3 DEF Beyond
    <2> QED BY <1>1, <2>1
  <1> QED BY <1>2, <1>3

LEMMA MenuMoveOut ==
  ASSUME NEW n \in EngineStates, NEW look \in Looks, NEW target \in 0 .. MenuN,
         NEW wraps \in BOOLEAN
  PROVE  Verified(n, menu_move(n, look, target, wraps))
  <1> DEFINE fwd == Forward(n.pos, target, wraps)
             key == IF fwd THEN "DOWN" ELSE "UP"
             o == step(n, key, look, Verify, FALSE)
             p == [o.n EXCEPT !.pos = Beyond(n.pos, fwd)]
             m == [o.n EXCEPT !.menu = 0]
  <1>1. Beyond(n.pos, fwd) \in 1 .. MenuN
    <2> HIDE DEF fwd
    <2> QED BY SubFields, BeyondTyped
  <1>2. key \in Pressed
    <2> HIDE DEF fwd
    <2> QED BY Words
  <1>3. menu_move(n, look, target, wraps) =
          CASE o.r = "OK"   -> Run(p)
            [] o.r = "FAIL" -> Fail(m)
            [] o.r = "RUN"  -> o
    BY DEF menu_move
  <1> HIDE DEF fwd, key
  <1>4. StepResult(n, key, o)
    BY <1>2, StepOut, Words, EngineAssumption
  <1> HIDE DEF o
  <1>5. Verified(n, o) /\ o.r \in Results /\ o.n \in EngineStates
    BY <1>2, <1>4, StepTyped
  <1>6. p \in EngineStates /\ m \in EngineStates
    <2>1. 0 \in 0 .. 2
      OBVIOUS
    <2> QED BY <1>1, <1>5, <2>1, Update, Zenon
  <1> HIDE DEF p, m
  <1>7. menu_move(n, look, target, wraps) \in {Run(p), Fail(m), o}
    BY <1>3, <1>5 DEF Results
  <1> QED BY <1>5, <1>6, <1>7, KeylessVerified

LEMMA MenuSelectOut ==
  ASSUME NEW n \in EngineStates, NEW look \in Looks, NEW target \in 0 .. MenuN,
         NEW wraps \in BOOLEAN
  PROVE  Verified(n, menu_select(n, look, target, wraps))
  <1> DEFINE out == menu_select(n, look, target, wraps)
  <1>1. CASE n.menu = 0
    BY <1>1, MenuHeaderOut DEF menu_select
  <1>2. CASE n.menu = 1 /\ n.pos = target
    <2> DEFINE m == [n EXCEPT !.menu = 2]
    <2>1. out = Run(m)
      BY <1>2 DEF menu_select
    <2>2. 2 \in 0 .. 2
      OBVIOUS
    <2>3. m \in EngineStates
      BY <2>2, Update
    <2> HIDE DEF m
    <2>4. Verified(n, Run(m))
      BY <2>3, KeylessVerified
    <2> QED BY <2>1, <2>4
  <1>3. CASE n.menu = 1 /\ n.pos # target
    BY <1>3, MenuMoveOut DEF menu_select
  <1>4. CASE n.menu = 2
    <2> DEFINE o == step(n, NoKey, look, Verify, FALSE)
               m == [o.n EXCEPT !.menu = 0]
    <2>1. StepResult(n, NoKey, o)
      BY StepOut, Words, EngineAssumption
    <2>2. out = IF o.r = "RUN" THEN o ELSE [o EXCEPT !.n.menu = 0]
      BY <1>4 DEF menu_select
    <2> HIDE DEF o, out
    <2>3. Verified(n, o) /\ o \in Outcomes /\ o.n \in EngineStates
      BY <2>1, StepTyped, Words
    <2>4. m \in EngineStates
      <3>1. 0 \in 0 .. 2
        OBVIOUS
      <3> QED BY <2>3, <3>1, Update
    <2>5. m.phase = o.n.phase
      BY <2>3 DEF EngineStates
    <2>6. [o EXCEPT !.n.menu = 0] = [o EXCEPT !.n = m]
      BY <2>3 DEF Outcomes
    <2> HIDE DEF m
    <2>7. Verified(n, [o EXCEPT !.n = m])
      BY <2>1, <2>4, <2>5, Tidied, Words
    <2>8. Verified(n, out)
      BY <2>2, <2>3, <2>6, <2>7
    <2> QED BY <2>8 DEF out
  <1> QED BY <1>1, <1>2, <1>3, <1>4, SubFields

LEMMA SeekPressOnOut ==
  ASSUME NEW n \in EngineStates, NEW look \in Looks, NEW key \in Pressed
  PROVE  Verified(n, seek_press_on(n, look, key))
  <1> DEFINE o == step(n, key, Sure(look), 0, TRUE)
             m == [o.n EXCEPT !.seek = o.n.seek + 1, !.check = TRUE]
  <1>1. StepResult(n, key, o)
    BY StepOut, SureTyped
  <1>2. seek_press_on(n, look, key) \in {Run(m), [o EXCEPT !.r = "RUN"]}
    BY DEF seek_press_on
  <1> HIDE DEF o
  <1>3. Verified(n, o) /\ o.n \in EngineStates
    BY <1>1, StepTyped
  <1>4. m \in EngineStates
    <2>1. o.n.seek + 1 \in Nat /\ TRUE \in BOOLEAN
      BY <1>3, SubFields
    <2> QED BY <1>3, <2>1, Update, Zenon
  <1> HIDE DEF m
  <1>5. Verified(n, Run(m)) /\ Verified(n, [o EXCEPT !.r = "RUN"])
    BY <1>3, <1>4, KeylessVerified, GoesOn
  <1> QED BY <1>2, <1>5

LEMMA SeekSelectedOut ==
  ASSUME NEW n \in EngineStates, NEW look \in Looks, NEW span \in Nat
  PROVE  Verified(n, seek_selected(n, look, span))
  <1> DEFINE budget == IF n.sweep = 0 THEN span ELSE 2 * span
             o == step(n, NoKey, look, SeekCheck, FALSE)
             next == [o.n EXCEPT !.sweep = o.n.sweep + 1, !.seek = 0]
             on == [o.n EXCEPT !.check = FALSE]
             out == seek_selected(n, look, span)
  <1> SUFFICES Verified(n, out)
    OBVIOUS
  <1>1. StepResult(n, NoKey, o)
    BY StepOut, Words, EngineAssumption
  <1>2. CASE n.sweep = 2
    <2>1. out \in {o, Sought(o)}
      BY <1>2 DEF seek_selected
    <2> HIDE DEF o, out
    <2> QED BY <1>1, <2>1, StepTyped, SoughtVerified, Words
  <1>3. CASE n.sweep < 2 /\ ~n.check
    <2> DEFINE key == IF n.sweep = 0 THEN "DOWN" ELSE "UP"
    <2>0. n.sweep # 2
      BY <1>3
    <2>1. out = seek_press_on(n, look, key)
      BY <1>3, <2>0 DEF seek_selected
    <2>2. key \in Pressed
      BY Words
    <2> HIDE DEF key, out
    <2> QED BY <2>1, <2>2, SeekPressOnOut
  <1>4. CASE n.sweep < 2 /\ n.check
    <2>0. n.sweep # 2
      BY <1>4
    <2>1. out = CASE o.r = "OK"   -> Sought(o)
                  [] o.r = "RUN"  -> o
                  [] o.r = "FAIL" -> Run(IF n.seek >= budget THEN next ELSE on)
      BY <1>4, <2>0 DEF seek_selected
    <2> HIDE DEF o, out, budget
    <2>2. Verified(n, o) /\ o.r \in Results /\ o.n \in EngineStates
      BY <1>1, StepTyped, Words
    <2>3. next \in EngineStates /\ on \in EngineStates
      <3>1. o.n.sweep + 1 \in 0 .. 2 /\ 0 \in Nat /\ FALSE \in BOOLEAN
        <4>1. o.n.sweep = n.sweep
          BY <1>1 DEF StepResult, Untouched
        <4> QED BY <1>4, <4>1, SubFields
      <3> QED BY <2>2, <3>1, Update, Zenon
    <2> HIDE DEF next, on
    <2>4. out \in {Sought(o), o, Run(next), Run(on)}
      BY <2>1, <2>2 DEF Results
    <2> QED BY <1>1, <2>2, <2>3, <2>4, SoughtVerified, KeylessVerified, Words
  <1> QED BY <1>2, <1>3, <1>4, SubFields

LEMMA SeekPressOut ==
  ASSUME NEW n \in EngineStates, NEW look \in Looks, NEW key \in Pressed, NEW span \in Nat
  PROVE  Verified(n, seek_press(n, look, key, span))
  <1> DEFINE o == step(n, NoKey, look, SeekCheck, FALSE)
             on == [o.n EXCEPT !.check = FALSE]
             out == seek_press(n, look, key, span)
  <1> SUFFICES Verified(n, out)
    OBVIOUS
  <1>1. StepResult(n, NoKey, o)
    BY StepOut, Words, EngineAssumption
  <1>2. CASE ~n.check
    BY <1>2, SeekPressOnOut DEF seek_press
  <1>3. CASE n.check
    <2>1. out = CASE o.r = "OK"   -> Sought(o)
                  [] o.r = "RUN"  -> o
                  [] o.r = "FAIL" -> IF n.seek >= span THEN Sought(o) ELSE Run(on)
      BY <1>3 DEF seek_press
    <2> HIDE DEF o, out
    <2>2. Verified(n, o) /\ o.r \in Results /\ o.n \in EngineStates
      BY <1>1, StepTyped, Words
    <2>3. on \in EngineStates
      BY <2>2, Update
    <2> HIDE DEF on
    <2>4. out \in {Sought(o), o, Run(on)}
      BY <2>1, <2>2 DEF Results
    <2> QED BY <1>1, <2>2, <2>3, <2>4, SoughtVerified, KeylessVerified, Words
  <1> QED BY <1>2, <1>3

LEMMA PinTickOut ==
  ASSUME NEW n \in EngineStates, NEW look \in Looks
  PROVE  Verified(n, pin_tick(n, look))
  <1> DEFINE enter == step(n, "ENTER", Sure(look), 0, TRUE)
             up == step(n, "UP", look, Verify, TRUE)
             m1 == [enter.n EXCEPT !.pin = 1, !.stage = 1, !.ups = Pin[1]]
             m2 == [n EXCEPT !.pin = 2]
             m3 == [up.n EXCEPT !.ups = up.n.ups - 1]
             m4 == [enter.n EXCEPT !.pin = 1, !.stage = enter.n.stage + 1,
                                   !.ups = Pin[n.stage + 1]]
             out == pin_tick(n, look)
  <1> SUFFICES Verified(n, out)
    OBVIOUS
  <1>1. StepResult(n, "ENTER", enter) /\ StepResult(n, "UP", up)
    BY StepOut, SureTyped, Words, EngineAssumption
  <1>2. /\ Verified(n, enter) /\ enter \in Outcomes /\ enter.n \in EngineStates
        /\ Verified(n, up) /\ up.n \in EngineStates
    <2> HIDE DEF enter, up
    <2> QED BY <1>1, StepTyped, Words
  <1>3. Verified(n, [enter EXCEPT !.r = "RUN"])
    <2> HIDE DEF enter
    <2> QED BY <1>2, GoesOn
  <1>4. /\ n.pin \in 0 .. 2 /\ n.stage \in 1 .. 4 /\ n.ups \in 0 .. 9 /\ Pin \in [1 .. 4 -> 0 .. 9]
        /\ 1 \in 0 .. 2 /\ 2 \in 0 .. 2 /\ 1 \in 1 .. 4 /\ Pin[1] \in 0 .. 9
    BY SubFields, EngineAssumption
  <1>5. CASE n.pin = 0
    <2>1. m1 \in EngineStates
      <3> HIDE DEF enter
      <3> QED BY <1>2, <1>4, Update, Zenon
    <2>2. out \in {Run(m1), [enter EXCEPT !.r = "RUN"]}
      BY <1>5 DEF pin_tick
    <2> HIDE DEF m1, enter, out
    <2> QED BY <1>3, <2>1, <2>2, KeylessVerified
  <1>6. CASE n.pin = 1 /\ n.ups = 0
    <2>1. out = Run(m2)
      BY <1>6 DEF pin_tick
    <2>2. m2 \in EngineStates
      BY <1>4, Update
    <2> HIDE DEF m2, out
    <2> QED BY <2>1, <2>2, KeylessVerified
  <1>7. CASE n.pin = 1 /\ n.ups > 0
    <2>1. out = IF up.r = "OK" THEN Run(m3) ELSE up
      <3>1. n.pin = 1 /\ n.pin # 0 /\ n.pin # 2 /\ n.ups > 0 /\ ~(n.ups = 0)
        BY <1>4, <1>7
      <3> QED BY <3>1 DEF pin_tick
    <2> HIDE DEF up, out
    <2>2. up.n.ups - 1 \in 0 .. 9
      <3>1. up.n.ups = n.ups
        BY <1>1 DEF StepResult, Untouched
      <3> QED BY <1>4, <1>7, <3>1
    <2>3. m3 \in EngineStates
      BY <1>2, <2>2, Update
    <2> HIDE DEF m3
    <2> QED BY <1>2, <2>1, <2>3, KeylessVerified
  <1>8. CASE n.pin = 2
    <2>1. CASE enter.r # "OK" \/ PinDone(n.stage)
      <3>1. out \in {[enter EXCEPT !.r = "RUN"], enter}
        <4>1. n.pin = 2 /\ n.pin # 0 /\ n.pin # 1
          BY <1>8
        <4> QED BY <2>1, <4>1 DEF pin_tick
      <3> HIDE DEF enter, out
      <3> QED BY <1>2, <1>3, <3>1
    <2>2. CASE enter.r = "OK" /\ ~PinDone(n.stage)
      <3>1. out = Run(m4)
        <4>1. n.pin = 2 /\ n.pin # 0 /\ n.pin # 1
          BY <1>8
        <4> QED BY <2>2, <4>1 DEF pin_tick
      <3> HIDE DEF enter, out
      <3>2. enter.n.stage + 1 \in 1 .. 4 /\ Pin[n.stage + 1] \in 0 .. 9
        <4>1. enter.n.stage = n.stage
          BY <1>1 DEF StepResult, Untouched
        <4>2. n.stage + 1 \in 1 .. 4
          BY <1>4, <2>2 DEF PinDone
        <4> QED BY <1>4, <4>1, <4>2
      <3>3. m4 \in EngineStates
        BY <1>2, <1>4, <3>2, Update, Zenon
      <3> HIDE DEF m4
      <3> QED BY <3>1, <3>3, KeylessVerified
    <2> QED BY <2>1, <2>2
  <1> QED BY <1>4, <1>5, <1>6, <1>7, <1>8
-----------------------------------------------------------------------------
(* What the steps press *)

\* The key of a step under way is of S, and a step without a key is told of no loss.
Under(e, S) == e.phase # 0 => e.key \in S /\ (e.lost => e.key # NoKey)

\* An outcome that presses keys of S only, and is over with no step under way.
Within(S, o) ==
  /\ Under(o.n, S) /\ o.press \in S \cup {NoKey}
  /\ o.r # "RUN" => o.n.phase = 0 /\ o.press = NoKey

LEMMA CheckedWithin ==
  ASSUME NEW n \in EngineStates, NEW S \in SUBSET Pressed, Under(n, S), n.phase # 0,
         NEW key, NEW look \in Looks, NEW verify
  PROVE  LET k == [n EXCEPT !.lost = FALSE]
             o == Checked(k, key, look, verify)
         IN  Within(S, o) /\ (o.r = "OK" => look.holds)
  <1> DEFINE k == [n EXCEPT !.lost = FALSE]
             at == IF k.phase = 1 THEN 0 ELSE k.at
             waits == k.phase = 1 /\ ~SettledFor(k, key, look)
             k1 == [k EXCEPT !.phase = 0]
             k2 == [k EXCEPT !.phase = 0, !.at = 0]
             k3 == [k EXCEPT !.phase = 2, !.at = at]
             out == Checked(k, key, look, verify)
  <1>1. /\ Under(k, S) /\ Under(k1, S) /\ Under(k2, S) /\ Under(k3, S)
        /\ k1.phase = 0 /\ k2.phase = 0
    BY DEF Under, EngineStates
  <1>2. out = CASE waits /\ k.at < SettleCap -> Run(k)
                [] waits /\ k.at >= SettleCap /\ key = NoKey -> Fail(k1)
                [] OTHER -> CASE look.holds -> Ok(k2)
                              [] ~look.holds /\ at >= verify -> Fail(k2)
                              [] OTHER -> Run(k3)
    BY DEF Checked
  <1> HIDE DEF k, at, waits, k1, k2, k3
  <1>3. \/ out \in {Run(k), Fail(k1), Fail(k2), Run(k3)}
        \/ out = Ok(k2) /\ look.holds
    BY <1>2
  <1>4. Within(S, out) /\ (out.r = "OK" => look.holds)
    BY <1>1, <1>3 DEF Within, Run, Ok, Fail, Out, NoKey
  <1> QED BY <1>4 DEF k

LEMMA StepWithin ==
  ASSUME NEW n \in EngineStates, NEW S \in SUBSET Pressed, Under(n, S), NEW key \in S,
         NEW look \in Looks, NEW verify \in Nat, NEW settle \in BOOLEAN
  PROVE  LET o == step(n, key, look, verify, settle)
         IN  Within(S, o) /\ (o.r = "OK" => look.holds) /\ (n.phase = 0 => o.r = "RUN")
  <1>1. CASE n.phase = 0
    <2> DEFINE k == [Begun(n, settle) EXCEPT !.key = key, !.lost = FALSE, !.again = FALSE]
    <2>1. k.key = key /\ k.lost = FALSE
      BY DEF Begun, EngineStates
    <2>2. step(n, key, look, verify, settle) = Out("RUN", k, key)
      BY <1>1 DEF step, Presses
    <2> HIDE DEF k
    <2> QED BY <2>1, <2>2 DEF Within, Under, Out
  <1>2. CASE n.phase # 0 /\ n.lost /\ ~n.again
    <2> DEFINE k == [Begun(n, settle) EXCEPT !.lost = FALSE, !.again = TRUE]
    <2>1. k.key = n.key /\ k.lost = FALSE
      BY DEF Begun, EngineStates
    <2>2. step(n, key, look, verify, settle) = Out("RUN", k, n.key)
      BY <1>2 DEF step, Represses
    <2> HIDE DEF k
    <2> QED BY <1>2, <2>1, <2>2 DEF Within, Under, Out
  <1>3. CASE n.phase # 0 /\ ~(n.lost /\ ~n.again)
    BY <1>3, CheckedWithin DEF step
  <1> QED BY <1>1, <1>2, <1>3

\* Waiting for a look, nothing pressed: the clock of the step started with it, and it
\* fails only when the wait is over.
LEMMA WaitStep ==
  ASSUME NEW n \in EngineStates, Under(n, {NoKey}), n.phase \in {0, 2}, NEW look \in Looks, NEW verify \in Nat
  PROVE  LET o == step(n, NoKey, look, verify, FALSE)
         IN  /\ o.press = NoKey
             /\ o.r = "RUN" => o.n.phase = 2 /\ o.n.at = IF n.phase = 0 THEN 0 ELSE n.at
             /\ o.r = "FAIL" => ~look.holds /\ n.phase = 2 /\ n.at >= verify
  <1> DEFINE o == step(n, NoKey, look, verify, FALSE)
             goal == /\ o.press = NoKey
                     /\ o.r = "RUN" => o.n.phase = 2 /\ o.n.at = IF n.phase = 0 THEN 0 ELSE n.at
                     /\ o.r = "FAIL" => ~look.holds /\ n.phase = 2 /\ n.at >= verify
  <1> SUFFICES goal
    OBVIOUS
  <1>1. CASE n.phase = 0
    <2> DEFINE k == [Begun(n, FALSE) EXCEPT !.key = NoKey, !.lost = FALSE, !.again = FALSE]
    <2>1. k.phase = 2 /\ k.at = 0
      BY DEF Begun, EngineStates
    <2>2. o = Out("RUN", k, NoKey)
      BY <1>1 DEF step, Presses
    <2> HIDE DEF k, o
    <2> QED BY <1>1, <2>1, <2>2 DEF Out
  <1>2. CASE n.phase = 2
    <2> DEFINE k == [n EXCEPT !.lost = FALSE]
               at == IF k.phase = 1 THEN 0 ELSE k.at
               waits == k.phase = 1 /\ ~SettledFor(k, NoKey, look)
               k1 == [k EXCEPT !.phase = 0]
               k2 == [k EXCEPT !.phase = 0, !.at = 0]
               k3 == [k EXCEPT !.phase = 2, !.at = at]
    <2>1. ~n.lost
      BY <1>2 DEF Under
    <2>2. ~waits /\ at = n.at /\ k3.phase = 2 /\ k3.at = n.at
      BY <1>2 DEF EngineStates
    <2>3. o = Checked(k, NoKey, look, verify)
      BY <1>2, <2>1 DEF step
    <2> HIDE DEF o
    <2>4. o = CASE waits /\ k.at < SettleCap -> Run(k)
                [] waits /\ k.at >= SettleCap /\ NoKey = NoKey -> Fail(k1)
                [] OTHER -> CASE look.holds -> Ok(k2)
                              [] ~look.holds /\ at >= verify -> Fail(k2)
                              [] OTHER -> Run(k3)
      BY <2>3 DEF Checked
    <2> HIDE DEF k, at, waits, k1, k2, k3
    <2>5. \/ o \in {Ok(k2), Run(k3)}
          \/ o = Fail(k2) /\ ~look.holds /\ n.at >= verify
      BY <2>2, <2>4
    <2> QED BY <1>2, <2>2, <2>5 DEF Run, Ok, Fail, Out
  <1> QED BY <1>1, <1>2

\* Under looks at three members only.
LEMMA UnderSame ==
  ASSUME NEW n, NEW k, NEW S, Under(n, S), k.phase = n.phase, k.key = n.key, k.lost = n.lost
  PROVE  Under(k, S)
  BY DEF Under

LEMMA AnchorWithin ==
  ASSUME NEW n \in EngineStates, Under(n, {"ESC"}), NEW look \in Looks, NEW first \in BOOLEAN
  PROVE  LET o == esc_anchor(n, look, first)
         IN  Within({"ESC"}, o) /\ (o.r = "OK" => look.holds)
  <1> DEFINE esc == IF n.phase = 0 THEN n.esc + 1 ELSE n.esc
             k == [n EXCEPT !.esc = esc]
             z == [n EXCEPT !.esc = 0]
             o == step(k, "ESC", look, 0, TRUE)
             y == [o.n EXCEPT !.esc = 0]
             x == [o EXCEPT !.r = "RUN"]
             out == esc_anchor(n, look, first)
  <1>1. out = CASE AtAnchor(n, look, first) -> Ok(z)
                [] ~AtAnchor(n, look, first) /\ n.phase = 0 /\ n.esc >= EscMax -> Fail(z)
                [] OTHER -> IF o.r = "OK" THEN Ok(y) ELSE x
    BY DEF esc_anchor
  <1> SUFFICES Within({"ESC"}, out) /\ (out.r = "OK" => look.holds)
    OBVIOUS
  <1> HIDE DEF out
  <1>2. Under(z, {"ESC"}) /\ z.phase = n.phase
    BY DEF Under, EngineStates
  <1>3. CASE AtAnchor(n, look, first)
    <2>1. out = Ok(z)
      BY <1>1, <1>3
    <2>2. n.phase = 0 /\ look.holds
      BY <1>3 DEF AtAnchor
    <2> HIDE DEF z
    <2> QED BY <1>2, <2>1, <2>2 DEF Within, Ok, Out
  <1>4. CASE ~AtAnchor(n, look, first) /\ n.phase = 0 /\ n.esc >= EscMax
    <2>1. out = Fail(z)
      BY <1>1, <1>4
    <2> HIDE DEF z
    <2> QED BY <1>2, <1>4, <2>1 DEF Within, Fail, Out
  <1>5. CASE ~AtAnchor(n, look, first) /\ ~(n.phase = 0 /\ n.esc >= EscMax)
    <2>1. esc \in 0 .. EscMax
      BY <1>5, SubFields, EngineAssumption
    <2>2. k \in EngineStates
      <3> HIDE DEF esc
      <3> QED BY <2>1, Update
    <2>3. Under(k, {"ESC"})
      BY DEF Under, EngineStates
    <2> HIDE DEF k
    <2>4. Within({"ESC"}, o) /\ (o.r = "OK" => look.holds) /\ o \in Outcomes
      <3>1. {"ESC"} \in SUBSET Pressed /\ "ESC" \in {"ESC"} /\ TRUE \in BOOLEAN /\ 0 \in Nat
        BY Words
      <3>2. Within({"ESC"}, o) /\ (o.r = "OK" => look.holds)
        BY <2>2, <2>3, <3>1, StepWithin
      <3>3. StepResult(k, "ESC", o)
        BY <2>2, StepOut, Words
      <3> QED BY <3>2, <3>3 DEF StepResult
    <2>5. out = IF o.r = "OK" THEN Ok(y) ELSE x
      BY <1>1, <1>5
    <2> HIDE DEF o
    <2>6. o.n \in EngineStates
      BY <2>4, OutcomeFields
    <2>7. y.phase = o.n.phase /\ y.key = o.n.key /\ y.lost = o.n.lost
      BY <2>6 DEF EngineStates
    <2>8. x.r = "RUN" /\ x.n = o.n /\ x.press = o.press
      BY <2>4 DEF Outcomes
    <2> HIDE DEF x, y
    <2>9. CASE o.r = "OK"
      <3>1. Under(y, {"ESC"}) /\ y.phase = 0
        BY <2>4, <2>7, <2>9, UnderSame DEF Within
      <3> QED BY <2>4, <2>5, <2>9, <3>1 DEF Within, Ok, Out
    <2>10. CASE o.r # "OK"
      BY <2>4, <2>5, <2>8, <2>10 DEF Within
    <2> QED BY <2>9, <2>10
  <1> QED BY <1>3, <1>4, <1>5

\* What a cursor menu presses: arrows, one at a time.
MenuKeys == {"UP", "DOWN", NoKey}

\* An outcome that may fail, or go on, with a step under way, but is not over with one.
Inside(S, o) == Under(o.n, S) /\ o.press \in S \cup {NoKey} /\ (o.r = "OK" => o.n.phase = 0)

LEMMA InsideRun ==
  ASSUME NEW n, NEW k, NEW S, Under(n, S), k.phase = n.phase, k.key = n.key, k.lost = n.lost
  PROVE  Inside(S, Run(k)) /\ Inside(S, Fail(k)) /\ (n.phase = 0 => Inside(S, Ok(k)))
  <1>1. Under(k, S)
    BY UnderSame
  <1> QED BY <1>1 DEF Inside, Run, Fail, Ok, Out

LEMMA MenuWithin ==
  ASSUME NEW n \in EngineStates, Under(n, MenuKeys), NEW look \in Looks, NEW target \in 0 .. MenuN
  PROVE  Inside(MenuKeys, menu_select(n, look, target, TRUE))
  <1> DEFINE o == step(n, NoKey, look, Verify, FALSE)
             fwd == Forward(n.pos, target, TRUE)
             key == IF fwd THEN "DOWN" ELSE "UP"
             mv == step(n, key, look, Verify, FALSE)
             out == menu_select(n, look, target, TRUE)
  <1>0. MenuKeys \in SUBSET Pressed /\ NoKey \in MenuKeys /\ key \in MenuKeys
    BY DEF MenuKeys, Pressed, Keys
  <1> HIDE DEF key
  <1>1. /\ Within(MenuKeys, o) /\ o \in Outcomes /\ Within(MenuKeys, mv) /\ mv \in Outcomes
    BY <1>0, StepWithin, StepOut, EngineAssumption DEF StepResult
  <1>2. CASE n.menu = 0
    <2> DEFINE k1 == [o.n EXCEPT !.pos = look.cursor]
               k2 == [o.n EXCEPT !.pos = look.cursor, !.menu = 1]
    <2>1. out = CASE o.r # "OK"               -> o
                  [] o.r = "OK" /\ target = 0 -> Fail(k1)
                  [] o.r = "OK" /\ target # 0 -> Run(k2)
      <3>1. out = menu_header(n, look, target)
        BY <1>2 DEF menu_select
      <3> HIDE DEF out
      <3>2. menu_header(n, look, target) = CASE o.r # "OK"               -> o
                  [] o.r = "OK" /\ target = 0 -> Fail(k1)
                  [] o.r = "OK" /\ target # 0 -> Run(k2)
        BY DEF menu_header
      <3> QED BY <3>1, <3>2
    <2> HIDE DEF o, out
    <2>2. o.n \in EngineStates
      BY <1>1, OutcomeFields
    <2>3. /\ k1.phase = o.n.phase /\ k1.key = o.n.key /\ k1.lost = o.n.lost
          /\ k2.phase = o.n.phase /\ k2.key = o.n.key /\ k2.lost = o.n.lost
      BY <2>2 DEF EngineStates
    <2> HIDE DEF k1, k2
    <2>4. Inside(MenuKeys, o) /\ Inside(MenuKeys, Fail(k1)) /\ Inside(MenuKeys, Run(k2))
      BY <1>1, <2>3, InsideRun DEF Inside, Within
    <2>5. Inside(MenuKeys, out)
      BY <2>1, <2>4
    <2> QED BY <2>5 DEF out
  <1>3. CASE n.menu = 1 /\ n.pos = target
    <2> DEFINE k == [n EXCEPT !.menu = 2]
    <2>1. out = Run(k)
      BY <1>3 DEF menu_select
    <2>2. k.phase = n.phase /\ k.key = n.key /\ k.lost = n.lost
      BY DEF EngineStates
    <2> HIDE DEF k
    <2> QED BY <2>1, <2>2, InsideRun
  <1>4. CASE n.menu = 1 /\ n.pos # target
    <2> DEFINE k1 == [mv.n EXCEPT !.pos = Beyond(n.pos, fwd)]
               k2 == [mv.n EXCEPT !.menu = 0]
    <2>1. out = CASE mv.r = "OK"   -> Run(k1)
                  [] mv.r = "FAIL" -> Fail(k2)
                  [] mv.r = "RUN"  -> mv
      <3>1. out = menu_move(n, look, target, TRUE)
        BY <1>4 DEF menu_select
      <3> HIDE DEF out
      <3>2. menu_move(n, look, target, TRUE) = CASE mv.r = "OK"   -> Run(k1)
                  [] mv.r = "FAIL" -> Fail(k2)
                  [] mv.r = "RUN"  -> mv
        BY DEF menu_move, key
      <3> QED BY <3>1, <3>2
    <2> HIDE DEF mv, out
    <2>2. mv.n \in EngineStates /\ mv.r \in Results
      BY <1>1, OutcomeFields
    <2>3. /\ k1.phase = mv.n.phase /\ k1.key = mv.n.key /\ k1.lost = mv.n.lost
          /\ k2.phase = mv.n.phase /\ k2.key = mv.n.key /\ k2.lost = mv.n.lost
      BY <2>2 DEF EngineStates
    <2> HIDE DEF k1, k2
    <2>4. Inside(MenuKeys, mv) /\ Inside(MenuKeys, Run(k1)) /\ Inside(MenuKeys, Fail(k2))
      BY <1>1, <2>3, InsideRun DEF Inside, Within
    <2>5. Inside(MenuKeys, out)
      BY <2>1, <2>2, <2>4 DEF Results
    <2> QED BY <2>5 DEF out
  <1>5. CASE n.menu = 2
    <2> DEFINE k == [o.n EXCEPT !.menu = 0]
               x == [o EXCEPT !.n.menu = 0]
    <2>1. out = IF o.r = "RUN" THEN o ELSE x
      BY <1>5 DEF menu_select
    <2> HIDE DEF o, out
    <2>2. o.n \in EngineStates
      BY <1>1, OutcomeFields
    <2>3. x.n = k /\ x.r = o.r /\ x.press = o.press
      BY <1>1 DEF Outcomes
    <2>4. k.phase = o.n.phase /\ k.key = o.n.key /\ k.lost = o.n.lost
      BY <2>2 DEF EngineStates
    <2> HIDE DEF k, x
    <2>5. Under(k, MenuKeys)
      BY <1>1, <2>4, UnderSame DEF Within
    <2>6. Inside(MenuKeys, out)
      BY <1>1, <2>1, <2>3, <2>4, <2>5 DEF Inside, Within
    <2> QED BY <2>6 DEF out
  <1>6. n.menu \in 0 .. 2
    BY SubFields
  <1> HIDE DEF out
  <1>7. n.menu = 0 \/ (n.menu = 1 /\ n.pos = target) \/ (n.menu = 1 /\ n.pos # target) \/ n.menu = 2
    BY <1>6
  <1>8. Inside(MenuKeys, out)
    BY <1>2, <1>3, <1>4, <1>5, <1>7 DEF out
  <1> QED BY <1>8 DEF out

\* A step makes its press, or once more the press that was lost, or waits, or is over:
\* its look held, or its time is up.
StepMakes(key, o) ==
  o.r = "RUN" /\ o.press = key /\ o.n.phase # 0 /\ o.n.key = key /\ o.n.lost = FALSE /\ o.n.at = 0
StepWaits(n, o) ==
  o.r = "RUN" /\ o.press = NoKey /\ o.n.phase # 0 /\ o.n.key = n.key /\ o.n.lost = FALSE /\ o.n.at <= n.at
StepOver(o) == o.r # "RUN" /\ o.press = NoKey /\ o.n.phase = 0
StepGoes(n, key, look, verify, o) ==
  \/ n.phase = 0 /\ StepMakes(key, o)
  \/ n.phase # 0 /\ n.lost /\ StepMakes(n.key, o)
  \/ n.phase # 0 /\ StepWaits(n, o)
  \/ n.phase # 0 /\ StepOver(o) /\ o.r = "OK" /\ look.holds
  \/ n.phase # 0 /\ StepOver(o) /\ o.r = "FAIL" /\ (key = NoKey \/ (~look.holds /\ (verify > 0 => n.at >= verify)))

LEMMA StepCases ==
  ASSUME NEW n \in EngineStates, NEW key \in Pressed, NEW look \in Looks, NEW verify \in Nat, NEW settle \in BOOLEAN
  PROVE  StepGoes(n, key, look, verify, step(n, key, look, verify, settle))
  <1> DEFINE b == Begun(n, settle)
             k == [n EXCEPT !.lost = FALSE]
             out == step(n, key, look, verify, settle)
  <1>0. b.phase # 0 /\ b.at = 0 /\ b.key = n.key /\ b \in EngineStates
    <2>1. b \in EngineStates
      BY BegunTyped
    <2>2. b.at = 0 /\ b.key = n.key
      BY DEF Begun, EngineStates
    <2>3. b.phase = IF settle THEN 1 ELSE 2
      BY DEF Begun, EngineStates
    <2> QED BY <2>1, <2>2, <2>3
  <1> SUFFICES StepGoes(n, key, look, verify, out)
    OBVIOUS
  <1> HIDE DEF b
  <1>1. CASE n.phase = 0
    <2> DEFINE e == [b EXCEPT !.key = key, !.lost = FALSE, !.again = FALSE]
    <2>1. e.phase # 0 /\ e.at = 0 /\ e.key = key /\ e.lost = FALSE
      BY <1>0 DEF EngineStates
    <2>2. out = Out("RUN", e, key)
      BY <1>1 DEF step, Presses, b
    <2> HIDE DEF e, out
    <2> QED BY <1>1, <2>1, <2>2 DEF StepGoes, StepMakes, Out
  <1>2. CASE n.phase # 0 /\ n.lost /\ ~n.again
    <2> DEFINE e == [b EXCEPT !.lost = FALSE, !.again = TRUE]
    <2>1. e.phase # 0 /\ e.at = 0 /\ e.key = n.key /\ e.lost = FALSE
      BY <1>0 DEF EngineStates
    <2>2. out = Out("RUN", e, n.key)
      BY <1>2 DEF step, Represses, b
    <2> HIDE DEF e, out
    <2> QED BY <1>2, <2>1, <2>2 DEF StepGoes, StepMakes, Out
  <1>3. CASE n.phase # 0 /\ ~(n.lost /\ ~n.again)
    <2> DEFINE at == IF k.phase = 1 THEN 0 ELSE k.at
               waits == k.phase = 1 /\ ~SettledFor(k, key, look)
               k1 == [k EXCEPT !.phase = 0]
               k2 == [k EXCEPT !.phase = 0, !.at = 0]
               k3 == [k EXCEPT !.phase = 2, !.at = at]
    <2>1. out = CASE waits /\ k.at < SettleCap -> Run(k)
                  [] waits /\ k.at >= SettleCap /\ key = NoKey -> Fail(k1)
                  [] OTHER -> CASE look.holds -> Ok(k2)
                                [] ~look.holds /\ at >= verify -> Fail(k2)
                                [] OTHER -> Run(k3)
      BY <1>3 DEF step, Checked
    <2>2. n.at \in Nat /\ n.key \in Pressed
      BY AgeCapNat DEF EngineStates, Pressed
    <2>3. /\ k.phase = n.phase /\ k.key = n.key /\ k.lost = FALSE /\ k.at = n.at
          /\ k1.phase = 0 /\ k2.phase = 0
          /\ k3.phase = 2 /\ k3.key = n.key /\ k3.lost = FALSE /\ k3.at = at
      BY DEF EngineStates
    <2>4. at <= n.at /\ (verify > 0 /\ at >= verify => n.at >= verify)
      BY <2>2, <2>3
    <2> HIDE DEF k, k1, k2, k3, at, waits, out
    <2>5. \/ out \in {Run(k), Run(k3)}
          \/ out = Fail(k1) /\ key = NoKey
          \/ out = Ok(k2) /\ look.holds
          \/ out = Fail(k2) /\ ~look.holds /\ at >= verify
      BY <2>1
    <2>6. k.at <= n.at /\ k3.at <= n.at
      BY <2>2, <2>3, <2>4
    <2> QED BY <1>3, <2>3, <2>4, <2>5, <2>6 DEF StepGoes, StepWaits, StepOver, Run, Ok, Fail, Out
  <1> QED BY <1>1, <1>2, <1>3
=============================================================================
