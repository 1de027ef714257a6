--------------------------- MODULE TerminalProofs ---------------------------
(***************************************************************************)
(* Machine-checked proofs about Terminal, for every set of frames on the   *)
(* bus and every choice of the durations; any answer may find its slot     *)
(* taken.                                                                  *)
(***************************************************************************)
EXTENDS Terminal, TLAPS

(* The inductive invariant.  What connects the bytes on the wire with the  *)
(* flags of the code is the moment a frame is read: an acknowledgement of  *)
(* our link reply is prev, with lr_ack_wait = 2, until the next frame      *)
(* closes it, and a join can only be opened behind a roll-call.            *)

\* Answers are the ones their frames call for.
ActInv ==
  /\ act.kind = "ROLLCALL_REPLY" => prev # NoRun /\ prev.type = "rollcall"
  /\ act # NoAct => lr_ack_wait # 1

\* While a join is unacknowledged on the wire it is open, and the frame being read
\* is no acknowledgement of our reply.
AckInv ==
  /\ lr_ack_wait = 1 => answered
  /\ lr_ack_wait = 2 /\ BareAck(prev) => ~unacked
  /\ UnackedIsOpen

\* The code's clock of the pGD runs behind by at most the frame being read.
ClockInv == prev = NoRun \/ FromPgd(prev) \/ t_pgd_tx <= t_pgd_heard

\* The key gate is open only on a session that shows a row.
GateInv == enroll /\ sess_ready => row

\* A draining terminal keeps its bit out of the masks.
MaskInv == drain => ~claim_mask

IInv ==
  /\ TypeOK /\ JoinAccounting /\ ActInv /\ AckInv /\ ClockInv /\ GateInv /\ MaskInv
  /\ NoForwardBeforeAck /\ FfProbeLeftToPgd /\ KeyNeedsRow /\ DrainRenounces

-----------------------------------------------------------------------------
LEMMA FrameFacts ==
  ASSUME NEW f \in Frames
  PROVE  /\ f.masks \in Masks /\ f.masks.map \subseteq Members
         /\ f.masks.claims \subseteq Members
  BY FramesAssumption DEF AllFrames, Masks

LEMMA BackoffFacts ==
  /\ MaxBackoff \in Nat
  /\ \A n \in Nat : n >= BackoffAfter => ShiftedBackoff(n) \in GapWalk .. MaxBackoff
  <1>1. MaxShift \in {0, 1, 2, 3, 4}
    BY BoundsAssumption
  <1>2. MaxBackoff \in Nat
    BY <1>1, TimingAssumption DEF MaxBackoff, Doublings
  <1>3. ASSUME NEW n \in Nat, n >= BackoffAfter
        PROVE  ShiftedBackoff(n) \in GapWalk .. MaxBackoff
    <2> DEFINE k == IF n - BackoffAfter > MaxShift THEN MaxShift ELSE n - BackoffAfter
    <2>1. k \in 0 .. MaxShift
      BY <1>1, <1>3, BoundsAssumption
    <2>2. ShiftedBackoff(n) = GapWalk * Doublings[k + 1]
      BY DEF ShiftedBackoff
    <2>3. ASSUME NEW i \in 0 .. MaxShift
          PROVE  GapWalk * Doublings[i + 1] \in GapWalk .. MaxBackoff
      BY <1>1, TimingAssumption DEF MaxBackoff, Doublings
    <2> QED BY <2>1, <2>2, <2>3
  <1> QED BY <1>2, <1>3

Acts == [kind : Kinds, masks : Masks, direct : BOOLEAN]

LEMMA NoActTyped == NoAct \in Acts
  BY DEF Acts, NoAct, Act, Kinds, Masks, Empty

LEMMA ActTyped ==
  ASSUME NEW k \in Kinds, NEW m \in Masks, NEW d \in BOOLEAN
  PROVE  Act(k, m, d) \in Acts
  BY DEF Act, Acts

LEMMA EmptyTyped == Empty \in Masks
  BY DEF Empty, Masks

LEMMA RepliesTyped ==
  ASSUME NEW f \in Frames, claim_mask \in BOOLEAN
  PROVE  ReplyMasks(f) \in Masks
  BY FrameFacts DEF ReplyMasks, Masks, Members

LEMMA FailedTyped ==
  ASSUME TypeOK, join_failed
  PROVE  /\ rc_join_streak' \in Nat /\ rc_backoff' \in 0 .. MaxBackoff
         /\ tel_joins_failed' \in Nat /\ t_fail' \in 0 .. GapWalk
  <1> USE BoundsAssumption, TimingAssumption
  <1>1. rc_join_streak' \in Nat
    BY DEF join_failed, TypeOK, JoinTypeOK
  <1>2. rc_backoff' \in 0 .. MaxBackoff
    <2>1. CASE rc_join_streak' >= BackoffAfter
      <3>1. rc_backoff' = ShiftedBackoff(rc_join_streak')
        BY <2>1 DEF join_failed
      <3>2. rc_backoff' \in GapWalk .. MaxBackoff
        BY <1>1, <2>1, <3>1, BackoffFacts
      <3> QED BY <3>2
    <2>2. CASE ~(rc_join_streak' >= BackoffAfter)
      BY <2>2 DEF join_failed, TypeOK, JoinTypeOK
    <2> QED BY <2>1, <2>2
  <1>3. tel_joins_failed' \in Nat /\ t_fail' \in 0 .. GapWalk
    BY DEF join_failed, TypeOK, JoinTypeOK
  <1> QED BY <1>1, <1>2, <1>3

LEMMA TypeInit == Init => TypeOK
  <1> SUFFICES ASSUME Init PROVE TypeOK
    OBVIOUS
  <1>1. /\ owed \in BOOLEAN /\ missed \in BOOLEAN
        /\ unacked \in BOOLEAN /\ answered \in BOOLEAN /\ row \in BOOLEAN
        /\ enroll \in BOOLEAN /\ drain \in BOOLEAN /\ claim_mask \in BOOLEAN
        /\ drain_replied \in BOOLEAN /\ sess_ready \in BOOLEAN /\ tx_pending \in BOOLEAN
    BY DEF Init
  <1>2. /\ rc_opens_join \in BOOLEAN /\ join_open \in BOOLEAN /\ rc20_open \in BOOLEAN
        /\ rc20_unans \in BOOLEAN /\ rc_claims32 \in BOOLEAN /\ pgd_sess \in BOOLEAN
        /\ fwd_awaiting \in BOOLEAN /\ fwd_just \in BOOLEAN
    BY DEF Init
  <1>3. t_pgd_heard = 0 /\ t_fail = GapWalk /\ drain_polls = 0 /\ rc_join_streak = 0
        /\ rc_backoff = 0 /\ tel_joins = 0 /\ tel_joins_ok = 0 /\ tel_joins_failed = 0
    BY DEF Init
  <1>4. lr_ack_wait = 0 /\ t_reset = 0 /\ t_pgd_tx = 0 /\ fwd_backoff = 0 /\ fwd_probe = 0
    BY DEF Init
  <1>5. prev = NoRun /\ act = NoAct /\ rc_last = NoMasks
    BY DEF Init
  <1>6. WireTypeOK
    <2>1. t_pgd_heard \in 0 .. AbsentAfter /\ t_fail \in 0 .. GapWalk
      BY <1>3, TimingAssumption
    <2> QED BY <1>1, <1>5, <2>1, NoActTyped DEF Acts, WireTypeOK
  <1>7. TaskTypeOK
    <2>1. drain_polls \in 0 .. 3
      BY <1>3
    <2> QED BY <1>1, <2>1 DEF TaskTypeOK
  <1>8. JoinTypeOK
    <2>1. rc_join_streak \in Nat /\ rc_backoff \in 0 .. MaxBackoff
      BY <1>3, BackoffFacts
    <2>2. tel_joins \in Nat /\ tel_joins_ok \in Nat /\ tel_joins_failed \in Nat
      BY <1>3
    <2> QED BY <1>2, <1>5, <2>1, <2>2 DEF JoinTypeOK
  <1>9. RingTypeOK
    <2>1. lr_ack_wait \in {0, 1, 2} /\ t_reset \in 0 .. GapWalk + Fold
          /\ t_pgd_tx \in 0 .. AbsentAfter
      BY <1>4, TimingAssumption
    <2>2. fwd_backoff \in 0 .. FwdBackoff /\ fwd_probe \in 0 .. ProbePace
      BY <1>4, TimingAssumption
    <2> QED BY <1>2, <2>1, <2>2 DEF RingTypeOK
  <1> QED BY <1>6, <1>7, <1>8, <1>9 DEF TypeOK

LEMMA TypeHear ==
  ASSUME TypeOK, NEW f \in Frames, Hear(f)
  PROVE  TypeOK'
  <1> USE BoundsAssumption, TimingAssumption
  <1>1. WireTypeOK'
    <2>1. act' \in Acts
      <3>1. CASE AnswerRollcall(f)
        <4>1. Act("ROLLCALL_REPLY", ReplyMasks(f), FALSE) \in Acts
          BY RepliesTyped, ActTyped DEF TypeOK, TaskTypeOK, Kinds
        <4> QED BY <3>1, <4>1, NoActTyped DEF AnswerRollcall
      <3>2. CASE AnswerSession(f)
        BY <3>2, ActTyped, EmptyTyped DEF AnswerSession, Kinds
      <3>3. CASE AnswerPoll(f)
        <4>1. \/ act' = NoAct
              \/ act' = Act("FORWARD_POLL", Empty, TRUE)
              \/ \E d \in BOOLEAN : Reply(d)
          BY <3>3 DEF AnswerPoll
        <4>2. ASSUME NEW d \in BOOLEAN, Reply(d)
              PROVE  act' \in Acts
          <5>1. \/ act' = Act("ENROLL_KEY_REPLY", Empty, d)
                \/ act' = Act("ENROLL_LINK_REPLY", Empty, d)
            BY <4>2 DEF Reply
          <5>2. "ENROLL_KEY_REPLY" \in Kinds /\ "ENROLL_LINK_REPLY" \in Kinds
            BY DEF Kinds
          <5>3. /\ Act("ENROLL_KEY_REPLY", Empty, d) \in Acts
                /\ Act("ENROLL_LINK_REPLY", Empty, d) \in Acts
            BY <5>2, ActTyped, EmptyTyped
          <5> QED BY <5>1, <5>3
        <4>3. "FORWARD_POLL" \in Kinds /\ TRUE \in BOOLEAN
          BY DEF Kinds
        <4>4. Act("FORWARD_POLL", Empty, TRUE) \in Acts
          BY <4>3, ActTyped, EmptyTyped
        <4> QED BY <4>1, <4>2, <4>4, NoActTyped
      <3>4. CASE Overhear(f)
        BY <3>4, NoActTyped DEF Overhear
      <3> QED BY <3>1, <3>2, <3>3, <3>4 DEF Hear
    <2>2. t_fail' \in 0 .. GapWalk
      <3>1. CASE FailsJoin(f)
        BY <3>1, FailedTyped DEF Hear, HearWalk
      <3>2. CASE ~FailsJoin(f)
        BY <3>2 DEF Hear, HearWalk, TypeOK, WireTypeOK
      <3> QED BY <3>1, <3>2
    <2>3. prev' \in Frames \cup {NoRun} /\ owed' \in BOOLEAN /\ missed' \in BOOLEAN /\ unacked' \in BOOLEAN
          /\ answered' \in BOOLEAN /\ row' \in BOOLEAN
      BY DEF Hear, TypeOK, WireTypeOK
    <2>4. t_pgd_heard' \in 0 .. AbsentAfter
      BY DEF Hear, TypeOK, WireTypeOK
    <2> QED BY <2>1, <2>2, <2>3, <2>4 DEF Acts, WireTypeOK
  <1>2. TaskTypeOK'
    <2>1. drain_polls' \in 0 .. 3
      <3>1. drain_polls' = drain_polls \/ drain_polls' = Later(drain_polls, 3)
        BY DEF Hear, AnswerRollcall, AnswerSession, AnswerPoll, Overhear
      <3>2. drain_polls \in 0 .. 3
        BY DEF TypeOK, TaskTypeOK
      <3> QED BY <3>1, <3>2 DEF Later
    <2>2. sess_ready' \in BOOLEAN
      BY DEF Hear, HearSession, TypeOK, TaskTypeOK
    <2>3. drain_replied' \in BOOLEAN
      BY DEF Hear, rc_run_end, TypeOK, TaskTypeOK
    <2>4. UNCHANGED <<enroll, drain, claim_mask, tx_pending>>
      BY DEF Hear, taskVars
    <2> QED BY <2>1, <2>2, <2>3, <2>4 DEF TaskTypeOK, TypeOK
  <1>3. JoinTypeOK'
    <2>1. rc_join_streak' \in Nat /\ rc_backoff' \in 0 .. MaxBackoff
          /\ tel_joins_failed' \in Nat
      <3>1. CASE FailsJoin(f)
        BY <3>1, FailedTyped DEF Hear, HearWalk
      <3>2. CASE ~FailsJoin(f)
        BY <3>2, BackoffFacts DEF Hear, HearWalk, TypeOK, JoinTypeOK
      <3> QED BY <3>1, <3>2
    <2>2. rc_last' \in Masks \cup {NoMasks} /\ join_open' \in BOOLEAN
      BY DEF Hear, HearWalk, TypeOK, JoinTypeOK
    <2>3. rc_opens_join' \in BOOLEAN
      BY DEF Hear, AnswerRollcall, AnswerSession, AnswerPoll, Overhear, TypeOK, JoinTypeOK
    <2>4. tel_joins' \in Nat /\ tel_joins_ok' \in Nat
      BY DEF Hear, rc_run_end, TypeOK, JoinTypeOK
    <2> QED BY <2>1, <2>2, <2>3, <2>4 DEF JoinTypeOK
  <1>4. RingTypeOK'
    <2>1. lr_ack_wait' \in {0, 1, 2} /\ t_pgd_tx' \in 0 .. AbsentAfter
          /\ rc20_open' \in BOOLEAN /\ rc20_unans' \in BOOLEAN
      BY DEF Hear, rc_run_end, TypeOK, RingTypeOK
    <2>2. rc_claims32' \in BOOLEAN
      <3>1. rc_claims32 \in BOOLEAN
        BY DEF TypeOK, RingTypeOK
      <3>2. rc_claims32' = rc_claims32 \/ rc_claims32' = ("pgd" \in prev.masks.claims)
        BY DEF Hear, rc_run_end
      <3>3. ("pgd" \in prev.masks.claims) \in BOOLEAN
        OBVIOUS
      <3> QED BY <3>1, <3>2, <3>3
    <2>3. t_reset' \in 0 .. GapWalk + Fold /\ pgd_sess' \in BOOLEAN
      BY DEF Hear, HearWalk, TypeOK, RingTypeOK
    <2>4. fwd_awaiting' \in BOOLEAN /\ fwd_just' \in BOOLEAN
          /\ fwd_backoff' \in 0 .. FwdBackoff /\ fwd_probe' \in 0 .. ProbePace
      <3>1. fwd_awaiting \in BOOLEAN /\ fwd_just \in BOOLEAN
            /\ fwd_backoff \in 0 .. FwdBackoff /\ fwd_probe \in 0 .. ProbePace
        BY DEF TypeOK, RingTypeOK
      <3>2. \/ UNCHANGED fwdVars \/ AnswerPoll(f) \/ Overhear(f)
        BY DEF Hear, AnswerRollcall, AnswerSession
      <3>3. fwd_just' \in BOOLEAN
        BY <3>1, <3>2 DEF AnswerPoll, Overhear, fwdVars
      <3>4. fwd_awaiting' \in BOOLEAN
        BY <3>1, <3>2 DEF AnswerPoll, Overhear, fwdVars
      <3>5. fwd_backoff' \in {fwd_backoff, FwdBackoff} /\ fwd_probe' \in {fwd_probe, ProbePace}
        BY <3>2 DEF AnswerPoll, Overhear, fwdVars
      <3> QED BY <3>1, <3>3, <3>4, <3>5
    <2> QED BY <2>1, <2>2, <2>3, <2>4 DEF RingTypeOK
  <1> QED BY <1>1, <1>2, <1>3, <1>4 DEF TypeOK

LEMMA TypeSent == TypeOK /\ tx_sent => TypeOK'
  <1> SUFFICES ASSUME TypeOK, tx_sent PROVE TypeOK'
    OBVIOUS
  <1> USE BoundsAssumption, TimingAssumption
  <1>1. \/ UNCHANGED <<tel_joins, join_open, pgd_sess, unacked, joinVars>>
        \/ OpenJoin
    BY DEF tx_sent
  <1>2. /\ rc_join_streak' \in Nat /\ rc_backoff' \in 0 .. MaxBackoff
        /\ tel_joins_failed' \in Nat /\ t_fail' \in 0 .. GapWalk
    <2>1. CASE OpenJoin /\ join_open
      BY <2>1, FailedTyped DEF OpenJoin
    <2>2. CASE ~(OpenJoin /\ join_open)
      <3>1. UNCHANGED joinVars
        BY <1>1, <2>2 DEF OpenJoin
      <3> QED BY <3>1 DEF joinVars, TypeOK, JoinTypeOK, WireTypeOK
    <2> QED BY <2>1, <2>2
  <1>3. /\ tel_joins' \in Nat /\ join_open' \in BOOLEAN /\ pgd_sess' \in BOOLEAN
        /\ unacked' \in BOOLEAN
    <2>1. tel_joins \in Nat /\ join_open \in BOOLEAN /\ pgd_sess \in BOOLEAN /\ unacked \in BOOLEAN
      BY DEF TypeOK, JoinTypeOK, WireTypeOK, RingTypeOK
    <2>2. CASE OpenJoin
      <3>1. tel_joins' = tel_joins + 1 /\ join_open' = TRUE /\ pgd_sess' = FALSE /\ unacked' = TRUE
        BY <2>2 DEF OpenJoin
      <3>2. tel_joins' \in Nat
        BY <2>1, <3>1
      <3> QED BY <3>1, <3>2
    <2> QED BY <1>1, <2>1, <2>2
  <1>4. act.masks \in Masks /\ act.direct \in BOOLEAN
    BY DEF TypeOK, WireTypeOK
  <1>5. WireTypeOK'
    BY <1>2, <1>3, <1>4, NoActTyped DEF Acts, tx_sent, TypeOK, WireTypeOK
  <1>6. TaskTypeOK'
    BY DEF tx_sent, taskVars, TypeOK, TaskTypeOK
  <1>7. JoinTypeOK'
    BY <1>2, <1>3, <1>4 DEF tx_sent, TypeOK, JoinTypeOK
  <1>8. RingTypeOK'
    BY <1>3 DEF tx_sent, TypeOK, RingTypeOK
  <1> QED BY <1>5, <1>6, <1>7, <1>8 DEF TypeOK

LEMMA TypeStep == TypeOK /\ [Next]_vars => TypeOK'
  <1> SUFFICES ASSUME TypeOK, [Next]_vars PROVE TypeOK'
    OBVIOUS
  <1> USE BoundsAssumption, TimingAssumption
  <1>1. ASSUME NEW f \in Frames, Hear(f) PROVE TypeOK'
    BY <1>1, TypeHear
  <1>2. CASE tx_sent
    BY <1>2, TypeSent
  <1>3. CASE tx_not_sent \/ UNCHANGED vars
    <2>1. WireTypeOK' /\ TaskTypeOK'
      BY <1>3, NoActTyped DEF Acts, tx_not_sent, vars, taskVars, joinVars, wireVars, TypeOK,
                              WireTypeOK, TaskTypeOK
    <2>2. JoinTypeOK' /\ RingTypeOK'
      BY <1>3 DEF tx_not_sent, vars, joinVars, ringVars, fwdVars, TypeOK, JoinTypeOK, RingTypeOK
    <2> QED BY <2>1, <2>2 DEF TypeOK
  <1>4. CASE Join \/ Leave \/ Stop \/ FinishDrain \/ SetKey
    <2>1. TaskTypeOK'
      <3>1. enroll \in BOOLEAN /\ drain \in BOOLEAN /\ claim_mask \in BOOLEAN
            /\ drain_replied \in BOOLEAN
            /\ drain_polls \in 0 .. 3 /\ sess_ready \in BOOLEAN /\ tx_pending \in BOOLEAN
        BY DEF TypeOK, TaskTypeOK
      <3>2. drain_polls' = drain_polls \/ drain_polls' = 0
        BY <1>4 DEF Join, Leave, Stop, FinishDrain, SetKey
      <3>3. enroll' \in BOOLEAN /\ drain' \in BOOLEAN /\ claim_mask' \in BOOLEAN
        BY <1>4, <3>1 DEF Join, Leave, Stop, FinishDrain, SetKey
      <3>4. drain_replied' \in BOOLEAN /\ sess_ready' \in BOOLEAN /\ tx_pending' \in BOOLEAN
        BY <1>4, <3>1 DEF Join, Leave, Stop, FinishDrain, SetKey
      <3> QED BY <3>1, <3>2, <3>3, <3>4 DEF TaskTypeOK
    <2>2. TaskFrame /\ row' \in BOOLEAN
      BY <1>4 DEF Join, Leave, Stop, FinishDrain, SetKey, TypeOK, WireTypeOK
    <2>3. WireTypeOK'
      BY <2>2 DEF TaskFrame, joinVars, TypeOK, WireTypeOK
    <2>4. JoinTypeOK' /\ RingTypeOK'
      BY <2>2 DEF TaskFrame, joinVars, ringVars, fwdVars, TypeOK, JoinTypeOK, RingTypeOK
    <2> QED BY <2>1, <2>3, <2>4 DEF TypeOK
  <1>5. CASE Tick
    <2>1. WireTypeOK'
      BY <1>5 DEF Tick, Later, TypeOK, WireTypeOK
    <2>2. TaskTypeOK'
      BY <1>5 DEF Tick, taskVars, TypeOK, TaskTypeOK
    <2>3. JoinTypeOK'
      BY <1>5, BackoffFacts DEF Tick, Sooner, TypeOK, JoinTypeOK
    <2>4. RingTypeOK'
      BY <1>5 DEF Tick, Later, Sooner, TypeOK, RingTypeOK
    <2> QED BY <2>1, <2>2, <2>3, <2>4 DEF TypeOK
  <1> QED BY <1>1, <1>2, <1>3, <1>4, <1>5 DEF Next

-----------------------------------------------------------------------------
(* The invariant, initially and over a frame that is heard *)

LEMMA InvInit == Init => IInv
  <1> SUFFICES ASSUME Init PROVE IInv
    OBVIOUS
  <1>1. TypeOK
    BY TypeInit
  <1>2. /\ act = NoAct /\ prev = NoRun /\ lr_ack_wait = 0 /\ ~unacked /\ ~enroll /\ ~drain
        /\ ~join_open
    BY DEF Init
  <1>3. act.kind = "NONE" /\ act.masks = Empty
    BY <1>2 DEF NoAct, Act
  <1>4. JoinAccounting
    BY DEF Init, JoinAccounting
  <1>5. ActInv /\ AckInv /\ ClockInv /\ GateInv /\ MaskInv
    BY <1>2, <1>3 DEF ActInv, AckInv, UnackedIsOpen, ClockInv, GateInv, MaskInv
  <1>6. NoForwardBeforeAck /\ FfProbeLeftToPgd /\ KeyNeedsRow /\ DrainRenounces
    BY <1>2, <1>3 DEF NoForwardBeforeAck, FfProbeLeftToPgd, KeyNeedsRow, DrainRenounces
  <1> QED BY <1>1, <1>4, <1>5, <1>6 DEF IInv

\* Which frame an answer belongs to, and what had to hold for it.
LEMMA AnswerFacts ==
  ASSUME NEW f \in Frames, Hear(f)
  PROVE  /\ act'.kind = "ROLLCALL_REPLY" => /\ AnswerRollcall(f) /\ f.type = "rollcall"
                                            /\ f.from = "ctrl" /\ act'.masks = ReplyMasks(f)
         /\ act'.kind = "FORWARD_POLL" => MayForward /\ ~drain
         /\ act'.kind \in {"ENROLL_LINK_REPLY", "ENROLL_KEY_REPLY"} => ~drain
         /\ act'.kind = "ENROLL_KEY_REPLY" => enroll /\ tx_pending /\ sess_ready'
         /\ act'.kind # "ROLLCALL_REPLY" => act'.masks = Empty
  <1>1. CASE ForUs(f, {"rollcall"}) /\ f.from = "ctrl"
    <2>1. AnswerRollcall(f) /\ f.type = "rollcall" /\ f.from = "ctrl"
      BY <1>1 DEF Hear, ForUs
    <2>2. \/ act' = Act("ROLLCALL_REPLY", ReplyMasks(f), FALSE)
          \/ act' = NoAct
      BY <2>1 DEF AnswerRollcall
    <2> QED BY <2>1, <2>2 DEF Act, NoAct
  <1>2. CASE ~(ForUs(f, {"rollcall"}) /\ f.from = "ctrl") /\ AnswerSession(f)
    <2>1. \/ act' = Act("IDENT_REPLY", Empty, FALSE)
          \/ act' = Act("SESSION_ACK", Empty, FALSE)
      BY <1>2 DEF AnswerSession
    <2> QED BY <2>1 DEF Act
  <1>3. CASE ForUs(f, {"link"}) /\ AnswerPoll(f)
    <2>1. enroll
      BY <1>3 DEF ForUs
    <2>2. \/ act' = NoAct
          \/ act' = Act("FORWARD_POLL", Empty, TRUE) /\ MayForward /\ ~drain
          \/ ~drain /\ \E d \in BOOLEAN : Reply(d)
      BY <1>3 DEF AnswerPoll
    <2>3. ASSUME ~drain, NEW d \in BOOLEAN, Reply(d)
          PROVE  \/ act' = Act("ENROLL_KEY_REPLY", Empty, d) /\ tx_pending /\ sess_ready'
                 \/ act' = Act("ENROLL_LINK_REPLY", Empty, d)
      BY <2>3 DEF Reply
    <2> QED BY <2>1, <2>2, <2>3 DEF Act, NoAct
  <1>4. CASE Overhear(f)
    BY <1>4 DEF Overhear, NoAct, Act
  <1> QED BY <1>1, <1>2, <1>3, <1>4 DEF Hear

LEMMA InvHear ==
  ASSUME IInv, NEW f \in Frames, Hear(f)
  PROVE  IInv'
  <1>1. TypeOK'
    BY TypeHear DEF IInv
  <1>2. UNCHANGED <<enroll, drain, claim_mask, tx_pending, tel_joins>> /\ prev' = f
    BY DEF Hear, taskVars
  <1>3. f # NoRun
    BY FramesAssumption DEF AllFrames, NoRun
  <1>4. /\ join_open' = (join_open /\ ~ClosesJoin /\ ~FailsJoin(f))
        /\ tel_joins_ok' = IF ClosesJoin THEN tel_joins_ok + 1 ELSE tel_joins_ok
        /\ tel_joins_failed' = IF FailsJoin(f) THEN tel_joins_failed + 1 ELSE tel_joins_failed
    BY DEF Hear, HearWalk, rc_run_end, join_failed
  <1>5. JoinAccounting'
    <2>1. ClosesJoin => join_open
      BY DEF ClosesJoin
    <2>2. FailsJoin(f) => join_open /\ ~ClosesJoin
      BY DEF FailsJoin
    <2>3. tel_joins \in Nat /\ tel_joins_ok \in Nat /\ tel_joins_failed \in Nat /\ JoinAccounting
      BY DEF IInv, TypeOK, JoinTypeOK
    <2>4. CASE ClosesJoin
      <3>1. join_open /\ ~join_open' /\ tel_joins_ok' = tel_joins_ok + 1
            /\ tel_joins_failed' = tel_joins_failed /\ tel_joins' = tel_joins
        BY <1>2, <1>4, <2>1, <2>2, <2>4
      <3> QED BY <2>3, <3>1 DEF JoinAccounting
    <2>5. CASE FailsJoin(f)
      <3>1. join_open /\ ~join_open' /\ tel_joins_ok' = tel_joins_ok
            /\ tel_joins_failed' = tel_joins_failed + 1 /\ tel_joins' = tel_joins
        BY <1>2, <1>4, <2>2, <2>5
      <3> QED BY <2>3, <3>1 DEF JoinAccounting
    <2>6. CASE ~ClosesJoin /\ ~FailsJoin(f)
      <3>1. UNCHANGED <<tel_joins_ok, tel_joins_failed, tel_joins>> /\ (join_open' <=> join_open)
        BY <1>2, <1>4, <2>6
      <3> QED BY <2>3, <3>1 DEF JoinAccounting
    <2> QED BY <2>4, <2>5, <2>6
  <1>6. ActInv'
    <2>1. lr_ack_wait' # 1
      BY DEF Hear, rc_run_end
    <2> QED BY <1>2, <1>3, <2>1, AnswerFacts DEF ActInv
  <1>7. AckInv'
    <2>1. /\ lr_ack_wait' = IF lr_ack_wait = 1 THEN 2 ELSE 0
          /\ unacked' = (unacked /\ ~Opener(f) /\ ~(answered /\ BareAck(f)))
      BY DEF Hear, rc_run_end
    <2>2. lr_ack_wait' = 2 /\ BareAck(prev') => ~unacked'
      <3>1. lr_ack_wait' = 2 => answered
        BY <2>1 DEF IInv, AckInv
      <3> QED BY <1>2, <2>1, <3>1
    <2>3. unacked' => join_open'
      BY <1>4, <2>1 DEF IInv, AckInv, UnackedIsOpen, ClosesJoin, FailsJoin
    <2> QED BY <2>1, <2>2, <2>3 DEF AckInv, UnackedIsOpen, BareAck
  <1>8. ClockInv'
    <2>1. /\ t_pgd_tx' = IF prev = NoRun \/ FromPgd(prev) THEN 0 ELSE t_pgd_tx
          /\ t_pgd_heard' = IF FromPgd(f) THEN 0 ELSE t_pgd_heard
      BY DEF Hear, rc_run_end
    <2>2. t_pgd_tx \in Nat /\ t_pgd_heard \in Nat /\ ClockInv
      BY TimingAssumption DEF IInv, TypeOK, RingTypeOK, WireTypeOK
    <2>3. ~FromPgd(f) => t_pgd_tx' <= t_pgd_heard'
      BY <2>1, <2>2 DEF ClockInv
    <2> QED BY <1>2, <2>3 DEF ClockInv, FromPgd
  <1>9. GateInv' /\ MaskInv'
    <2>1. enroll /\ sess_ready' => row'
      BY DEF Hear, HearSession, ForUs, IInv, GateInv, Opener, CtrlRollcall
    <2> QED BY <1>2, <2>1 DEF GateInv, MaskInv, IInv
  <1>10. NoForwardBeforeAck'
    <2>1. MayForward => ~join_open'
      BY DEF MayForward
    <2> QED BY <1>7, <2>1, AnswerFacts DEF NoForwardBeforeAck, AckInv, UnackedIsOpen
  <1>11. FfProbeLeftToPgd'
    <2> SUFFICES ASSUME act'.kind = "ROLLCALL_REPLY", rc_opens_join', f.masks.map = Members
                 PROVE  t_pgd_heard' >= AbsentAfter
      BY <1>2 DEF FfProbeLeftToPgd
    <2>1. AnswerRollcall(f) /\ f.from = "ctrl"
      BY AnswerFacts
    <2>2. ~LeftToPgd(f)
      <3>1. act' # NoAct
        BY DEF NoAct, Act
      <3>2. rc_opens_join' = ~Confirms(f) /\ (Confirms(f) \/ ~(LeftToPgd(f) \/ BackingOff))
        BY <2>1, <3>1 DEF AnswerRollcall
      <3> QED BY <3>2
    <2>3. t_pgd_tx' >= AbsentAfter
      BY <2>2 DEF LeftToPgd, Absent
    <2>4. t_pgd_tx' <= t_pgd_heard'
      BY <1>2, <1>3, <1>8, <2>1 DEF ClockInv, FromPgd
    <2>5. t_pgd_tx' \in Nat /\ t_pgd_heard' \in Nat /\ AbsentAfter \in Nat
      BY <1>1, TimingAssumption DEF TypeOK, RingTypeOK, WireTypeOK
    <2> QED BY <2>3, <2>4, <2>5
  <1>12. KeyNeedsRow'
    BY <1>2, <1>9, AnswerFacts DEF KeyNeedsRow, GateInv
  <1>13. DrainRenounces'
    <2> SUFFICES ASSUME drain
                 PROVE  /\ act'.kind \notin {"ENROLL_LINK_REPLY", "ENROLL_KEY_REPLY",
                                             "FORWARD_POLL"}
                        /\ "us" \notin act'.masks.map \cup act'.masks.claims
      BY <1>2 DEF DrainRenounces
    <2>1. ~claim_mask
      BY DEF IInv, MaskInv
    <2>2. "us" \notin ReplyMasks(f).map \cup ReplyMasks(f).claims
      BY <2>1 DEF ReplyMasks
    <2>3. "us" \notin Empty.map \cup Empty.claims
      BY DEF Empty
    <2> QED BY <2>2, <2>3, AnswerFacts
  <1> QED BY <1>1, <1>5, <1>6, <1>7, <1>8, <1>9, <1>10, <1>11, <1>12, <1>13 DEF IInv

-----------------------------------------------------------------------------
(* The invariant over the other steps *)

\* With no answer pending, what an answer promises holds trivially.
LEMMA NoActPromises ==
  ASSUME act' = NoAct
  PROVE  /\ act'.kind = "NONE" /\ act'.masks = Empty
         /\ NoForwardBeforeAck' /\ FfProbeLeftToPgd' /\ KeyNeedsRow' /\ DrainRenounces'
  <1>1. act'.kind = "NONE" /\ act'.masks = Empty
    BY DEF NoAct, Act
  <1>2. "us" \notin Empty.map \cup Empty.claims
    BY DEF Empty
  <1> QED BY <1>1, <1>2 DEF NoForwardBeforeAck, FfProbeLeftToPgd, KeyNeedsRow, DrainRenounces

LEMMA InvSent == IInv /\ tx_sent => IInv'
  <1> SUFFICES ASSUME IInv, tx_sent PROVE IInv'
    OBVIOUS
  <1>1. TypeOK'
    BY TypeSent DEF IInv
  <1>2. act # NoAct /\ act' = NoAct
    BY DEF tx_sent
  <1>3. UNCHANGED <<prev, enroll, drain, claim_mask, sess_ready, row, t_pgd_tx, t_pgd_heard>>
    BY DEF tx_sent, taskVars
  <1>4. \/ UNCHANGED <<tel_joins, join_open, unacked, tel_joins_failed>>
        \/ OpenJoin /\ act.kind = "ROLLCALL_REPLY"
    BY DEF tx_sent, joinVars
  <1>5. JoinAccounting'
    <2>1. tel_joins \in Nat /\ tel_joins_ok \in Nat /\ tel_joins_failed \in Nat /\ JoinAccounting
      BY DEF IInv, TypeOK, JoinTypeOK
    <2>2. tel_joins_ok' = tel_joins_ok
      BY DEF tx_sent
    <2>3. CASE UNCHANGED <<tel_joins, join_open, unacked, tel_joins_failed>>
      BY <2>1, <2>2, <2>3 DEF JoinAccounting
    <2>4. CASE OpenJoin /\ join_open
      <3>1. tel_joins' = tel_joins + 1 /\ join_open' /\ tel_joins_failed' = tel_joins_failed + 1
        BY <2>4 DEF OpenJoin, join_failed
      <3> QED BY <2>1, <2>2, <2>4, <3>1 DEF JoinAccounting
    <2>5. CASE OpenJoin /\ ~join_open
      <3>1. tel_joins' = tel_joins + 1 /\ join_open' /\ tel_joins_failed' = tel_joins_failed
        BY <2>5 DEF OpenJoin, joinVars
      <3> QED BY <2>1, <2>2, <2>5, <3>1 DEF JoinAccounting
    <2> QED BY <1>4, <2>3, <2>4, <2>5
  <1>6. ActInv'
    BY <1>2, NoActPromises DEF ActInv
  <1>7. AckInv'
    <2> DEFINE poll == act.kind \in {"ENROLL_LINK_REPLY", "ENROLL_KEY_REPLY"}
    <2>1. lr_ack_wait' = (IF poll THEN 1 ELSE lr_ack_wait) /\ answered' = poll
      BY DEF tx_sent
    <2>2. lr_ack_wait' = 1 => answered'
      BY <1>2, <2>1 DEF IInv, ActInv
    <2>3. lr_ack_wait' = 2 /\ BareAck(prev) => ~unacked'
      <3>1. act.kind = "ROLLCALL_REPLY" => ~BareAck(prev)
        BY DEF IInv, ActInv, BareAck
      <3>2. lr_ack_wait' = 2 => lr_ack_wait = 2
        BY <2>1
      <3> QED BY <1>4, <3>1, <3>2 DEF IInv, AckInv
    <2>4. unacked' => join_open'
      BY <1>4 DEF OpenJoin, IInv, AckInv, UnackedIsOpen
    <2> QED BY <1>3, <2>2, <2>3, <2>4 DEF AckInv, UnackedIsOpen, BareAck
  <1>8. ClockInv' /\ GateInv' /\ MaskInv'
    BY <1>3 DEF IInv, ClockInv, FromPgd, GateInv, MaskInv
  <1> QED BY <1>1, <1>2, <1>5, <1>6, <1>7, <1>8, NoActPromises DEF IInv

\* A skipped answer, a request to the task and the passing of time leave the join
\* and what is known of the wire alone.
LEMMA InvQuiet ==
  ASSUME IInv, TypeOK', act' = NoAct,
         UNCHANGED <<prev, lr_ack_wait, unacked, answered, join_open, tel_joins,
                     tel_joins_ok, tel_joins_failed>>,
         ClockInv', GateInv', MaskInv'
  PROVE  IInv'
  <1>1. JoinAccounting'
    BY DEF IInv, JoinAccounting
  <1>2. ActInv' /\ AckInv'
    BY NoActPromises DEF IInv, ActInv, AckInv, UnackedIsOpen, BareAck
  <1> QED BY <1>1, <1>2, NoActPromises DEF IInv

LEMMA InvStep == IInv /\ [Next]_vars => IInv'
  <1> SUFFICES ASSUME IInv, [Next]_vars PROVE IInv'
    OBVIOUS
  <1>1. TypeOK'
    BY TypeStep DEF IInv
  <1>2. ASSUME NEW f \in Frames, Hear(f) PROVE IInv'
    BY <1>2, InvHear
  <1>3. CASE tx_sent
    BY <1>3, InvSent
  <1>4. CASE tx_not_sent
    <2>1. /\ act' = NoAct
          /\ UNCHANGED <<prev, enroll, drain, claim_mask, sess_ready, row, t_pgd_tx, t_pgd_heard,
                         lr_ack_wait, unacked, answered, join_open, tel_joins, tel_joins_ok,
                         tel_joins_failed>>
      BY <1>4 DEF tx_not_sent, taskVars, joinVars, ringVars, wireVars
    <2>2. ClockInv' /\ GateInv' /\ MaskInv'
      BY <2>1 DEF IInv, ClockInv, FromPgd, GateInv, MaskInv
    <2> QED BY <1>1, <2>1, <2>2, InvQuiet
  <1>5. CASE Join \/ Leave \/ Stop \/ FinishDrain \/ SetKey
    <2>1. /\ act' = NoAct
          /\ UNCHANGED <<prev, t_pgd_tx, t_pgd_heard, lr_ack_wait, unacked, answered, join_open,
                         tel_joins, tel_joins_ok, tel_joins_failed>>
      BY <1>5 DEF Join, Leave, Stop, FinishDrain, SetKey, TaskFrame, ringVars, joinVars
    <2>2. ClockInv'
      BY <2>1 DEF IInv, ClockInv, FromPgd
    <2>3. GateInv' /\ MaskInv'
      BY <1>5 DEF Join, Leave, Stop, FinishDrain, SetKey, IInv, GateInv, MaskInv
    <2> QED BY <1>1, <2>1, <2>2, <2>3, InvQuiet
  <1>6. CASE Tick
    <2>1. /\ act' = NoAct
          /\ UNCHANGED <<prev, enroll, drain, claim_mask, sess_ready, row, lr_ack_wait, unacked,
                         answered, join_open, tel_joins, tel_joins_ok, tel_joins_failed>>
      BY <1>6 DEF Tick, taskVars
    <2>2. ClockInv'
      <3>1. t_pgd_tx \in 0 .. AbsentAfter /\ t_pgd_heard \in 0 .. AbsentAfter
        BY DEF IInv, TypeOK, RingTypeOK, WireTypeOK
      <3>2. t_pgd_tx <= t_pgd_heard => t_pgd_tx' <= t_pgd_heard'
        BY <1>6, <3>1, TimingAssumption DEF Tick, Later
      <3> QED BY <2>1, <3>2 DEF IInv, ClockInv, FromPgd
    <2>3. GateInv' /\ MaskInv'
      BY <2>1 DEF IInv, GateInv, MaskInv
    <2> QED BY <1>1, <2>1, <2>2, <2>3, InvQuiet
  <1>7. CASE UNCHANGED vars
    <2>1. UNCHANGED <<prev, act, enroll, drain, claim_mask, sess_ready, tx_pending, row, t_pgd_tx,
                      t_pgd_heard, lr_ack_wait, unacked, answered, join_open, tel_joins,
                      tel_joins_ok, tel_joins_failed, rc_opens_join>>
      BY <1>7 DEF vars, taskVars, joinVars, ringVars, wireVars
    <2>2. JoinAccounting' /\ ActInv' /\ AckInv'
      BY <2>1 DEF IInv, JoinAccounting, ActInv, AckInv, UnackedIsOpen, BareAck
    <2>3. ClockInv' /\ GateInv' /\ MaskInv'
      BY <2>1 DEF IInv, ClockInv, FromPgd, GateInv, MaskInv
    <2>4. NoForwardBeforeAck' /\ FfProbeLeftToPgd' /\ KeyNeedsRow' /\ DrainRenounces'
      BY <2>1 DEF IInv, NoForwardBeforeAck, FfProbeLeftToPgd, KeyNeedsRow, DrainRenounces
    <2> QED BY <1>1, <2>2, <2>3, <2>4 DEF IInv
  <1> QED BY <1>2, <1>3, <1>4, <1>5, <1>6, <1>7 DEF Next

LEMMA Invariance == Spec => []IInv
  BY InvInit, InvStep, PTL DEF Spec

-----------------------------------------------------------------------------
(* What follows for every run *)

\* The terminal's state keeps its types: timers stay within their periods, the
\* back-off within its capped doubling, every answer is one of the seven.
THEOREM TypeCorrect == Spec => []TypeOK
  <1>1. IInv => TypeOK
    BY DEF IInv
  <1> QED BY <1>1, Invariance, PTL

\* Every join the terminal opens is completed, failed or still open, whichever of
\* the walk, the re-probe and the acknowledgement is noticed first.
THEOREM JoinsAccounted == Spec => []JoinAccounting
  <1>1. IInv => JoinAccounting
    BY DEF IInv
  <1> QED BY <1>1, Invariance, PTL

\* The code never takes a join for closed that is unacknowledged on the wire.
THEOREM UnackedJoinsOpen == Spec => []UnackedIsOpen
  <1>1. IInv => UnackedIsOpen
    BY DEF IInv, AckInv
  <1> QED BY <1>1, Invariance, PTL

\* No poll is handed to the pGD before the controller acknowledged a link reply of
\* the terminal's own join.
THEOREM OwnJoinFirst == Spec => []NoForwardBeforeAck
  <1>1. IInv => NoForwardBeforeAck
    BY DEF IInv
  <1> QED BY <1>1, Invariance, PTL

\* The terminal opens a join on an FF-walk's probe only after the pGD has been
\* silent on the wire for the whole absence time.
THEOREM PgdComesFirst == Spec => []FfProbeLeftToPgd
  <1>1. IInv => FfProbeLeftToPgd
    BY DEF IInv
  <1> QED BY <1>1, Invariance, PTL

\* A key is only ever sent into a session that has shown a row since it (re)started.
THEOREM KeysNeedRows == Spec => []KeyNeedsRow
  <1>1. IInv => KeyNeedsRow
    BY DEF IInv
  <1> QED BY <1>1, Invariance, PTL

\* A draining terminal answers no poll and sets its bit in no mask.
THEOREM DrainsRenounce == Spec => []DrainRenounces
  <1>1. IInv => DrainRenounces
    BY DEF IInv
  <1> QED BY <1>1, Invariance, PTL

-----------------------------------------------------------------------------
(* Two promises about steps.  Each needs what a run of frames leaves behind:   *)
(* how long the back-off still runs, and whom the controller owes an answer.   *)

\* A streak of failures leaves a back-off that ends no sooner than a gap-walk after
\* the last failure, and an answer that opens a join was not held back by it.
DampInv ==
  /\ rc_join_streak >= BackoffAfter => rc_backoff + t_fail >= GapWalk
  /\ act.kind = "ROLLCALL_REPLY" /\ rc_opens_join => rc_backoff = 0 \/ t_reset >= GapWalk

\* Between a forward and the direct answer to a later poll, the code knows that it
\* has just forwarded; it forgets with the answer that is on its way, sent or not.
DirectReply == act.direct /\ act.kind \in {"ENROLL_LINK_REPLY", "ENROLL_KEY_REPLY"}

AlternateInv ==
  /\ owed => fwd_just \/ DirectReply \/ missed
  /\ act.kind = "FORWARD_POLL" => ~owed \/ missed
  /\ act.direct => DirectReply \/ act.kind = "FORWARD_POLL"

LEMMA FailedDamps ==
  ASSUME TypeOK, join_failed
  PROVE  rc_join_streak' >= BackoffAfter => rc_backoff' + t_fail' >= GapWalk
  <1> SUFFICES ASSUME rc_join_streak' >= BackoffAfter
               PROVE  rc_backoff' + t_fail' >= GapWalk
    OBVIOUS
  <1>1. rc_join_streak' \in Nat
    BY FailedTyped
  <1>2. rc_backoff' = ShiftedBackoff(rc_join_streak') /\ t_fail' = 0
    BY DEF join_failed
  <1>3. rc_backoff' \in GapWalk .. MaxBackoff
    BY <1>1, <1>2, BackoffFacts
  <1> QED BY <1>2, <1>3, TimingAssumption

LEMMA DampStep == TypeOK /\ DampInv /\ [Next]_vars => DampInv'
  <1> SUFFICES ASSUME TypeOK, DampInv, [Next]_vars PROVE DampInv'
    OBVIOUS
  <1> USE BoundsAssumption, TimingAssumption
  <1>1. /\ rc_join_streak \in Nat /\ rc_backoff \in Nat /\ t_fail \in 0 .. GapWalk
        /\ t_reset \in Nat
    BY BackoffFacts DEF TypeOK, JoinTypeOK, WireTypeOK, RingTypeOK
  <1>2. ASSUME NEW f \in Frames, Hear(f) PROVE DampInv'
    <2>1. rc_join_streak' >= BackoffAfter => rc_backoff' + t_fail' >= GapWalk
      <3>1. CASE FailsJoin(f)
        BY <1>2, <3>1, FailedDamps DEF Hear, HearWalk
      <3>2. CASE ~FailsJoin(f) /\ ClosesJoin
        BY <1>2, <3>2 DEF Hear, HearWalk
      <3>3. CASE ~FailsJoin(f) /\ ~ClosesJoin
        <4>1. UNCHANGED <<rc_join_streak, rc_backoff, t_fail>>
          BY <1>2, <3>3 DEF Hear, HearWalk
        <4> QED BY <4>1 DEF DampInv
      <3> QED BY <3>1, <3>2, <3>3
    <2>2. ASSUME act'.kind = "ROLLCALL_REPLY", rc_opens_join'
          PROVE  rc_backoff' = 0 \/ t_reset' >= GapWalk
      <3>1. AnswerRollcall(f) /\ act' # NoAct
        BY <1>2, <2>2, AnswerFacts DEF NoAct, Act
      <3>2. rc_opens_join' = ~Confirms(f) /\ (Confirms(f) \/ ~(LeftToPgd(f) \/ BackingOff))
        BY <3>1 DEF AnswerRollcall
      <3>3. ~(rc_backoff' > 0 /\ t_reset' < GapWalk)
        BY <2>2, <3>2 DEF BackingOff
      <3>4. rc_backoff' \in Nat /\ t_reset' \in Nat
        BY <1>2, TypeHear DEF TypeOK, JoinTypeOK, RingTypeOK
      <3> QED BY <3>3, <3>4
    <2> QED BY <2>1, <2>2 DEF DampInv
  <1>3. CASE tx_sent
    <2>1. act'.kind # "ROLLCALL_REPLY"
      BY <1>3 DEF tx_sent, NoAct, Act
    <2>2. CASE OpenJoin /\ join_open
      BY <2>1, <2>2, FailedDamps DEF OpenJoin, DampInv
    <2>3. CASE ~(OpenJoin /\ join_open)
      <3>1. UNCHANGED <<rc_join_streak, rc_backoff, t_fail>>
        BY <1>3, <2>3 DEF tx_sent, OpenJoin, joinVars
      <3> QED BY <2>1, <3>1 DEF DampInv
    <2> QED BY <2>2, <2>3
  <1>4. CASE tx_not_sent \/ Join \/ Leave \/ Stop \/ FinishDrain \/ SetKey
    <2>1. /\ act' = NoAct
          /\ UNCHANGED <<rc_join_streak, rc_backoff, t_fail>>
      BY <1>4 DEF tx_not_sent, Join, Leave, Stop, FinishDrain, SetKey, TaskFrame, joinVars
    <2> QED BY <2>1 DEF DampInv, NoAct, Act
  <1>5. CASE Tick
    <2>1. /\ act' = NoAct /\ rc_join_streak' = rc_join_streak
          /\ rc_backoff' = Sooner(rc_backoff) /\ t_fail' = Later(t_fail, GapWalk)
      BY <1>5 DEF Tick
    <2>2. rc_backoff + t_fail >= GapWalk => rc_backoff' + t_fail' >= GapWalk
      BY <1>1, <2>1 DEF Sooner, Later
    <2> QED BY <2>1, <2>2 DEF DampInv, NoAct, Act
  <1>6. CASE UNCHANGED vars
    <2>1. UNCHANGED <<act, rc_opens_join, rc_join_streak, rc_backoff, t_fail, t_reset>>
      BY <1>6 DEF vars, joinVars, ringVars
    <2> QED BY <2>1 DEF DampInv
  <1> QED BY <1>2, <1>3, <1>4, <1>5, <1>6 DEF Next

\* Joins that keep failing are damped: after BackoffAfter failures in a row no join
\* opens within a gap-walk of the last failure, unless the walks paused that long.
THEOREM StormsDamped == Spec => JoinStormDamped
  <1>1. Init => DampInv
    <2> SUFFICES ASSUME Init PROVE DampInv
      OBVIOUS
    <2>1. act = NoAct /\ rc_join_streak = 0
      BY DEF Init
    <2> QED BY <2>1, BoundsAssumption DEF DampInv, NoAct, Act
  <1>2. TypeOK /\ DampInv /\ [Next]_vars
          => [tel_joins' > tel_joins /\ rc_join_streak >= BackoffAfter
                => t_fail >= GapWalk \/ t_reset >= GapWalk]_tel_joins
    <2> SUFFICES ASSUME TypeOK, DampInv, [Next]_vars, tel_joins' # tel_joins,
                        rc_join_streak >= BackoffAfter
                 PROVE  t_fail >= GapWalk \/ t_reset >= GapWalk
      OBVIOUS
    <2>1. \A f \in Frames : ~Hear(f)
      BY DEF Hear
    <2>2. tx_sent
      BY <2>1 DEF Next, vars, tx_not_sent, Join, Leave, Stop, FinishDrain, SetKey, TaskFrame, Tick
    <2>3. act.kind = "ROLLCALL_REPLY" /\ rc_opens_join
      BY <2>2 DEF tx_sent
    <2>4. rc_backoff = 0 => t_fail >= GapWalk
      <3>1. t_fail \in Nat /\ GapWalk \in Nat
        BY TimingAssumption DEF TypeOK, WireTypeOK
      <3> QED BY <3>1 DEF DampInv
    <2> QED BY <2>3, <2>4 DEF DampInv
  <1> QED BY <1>1, <1>2, DampStep, TypeCorrect, PTL DEF Spec, JoinStormDamped

\* Only the answers to a poll of the controller are direct.
LEMMA AnswerDirect ==
  ASSUME NEW f \in Frames, Hear(f), act'.direct
  PROVE  act'.kind \in {"ENROLL_LINK_REPLY", "ENROLL_KEY_REPLY", "FORWARD_POLL"}
  <1>1. ~AnswerRollcall(f) /\ ~AnswerSession(f) /\ ~Overhear(f)
    BY DEF AnswerRollcall, AnswerSession, Overhear, NoAct, Act
  <1>2. AnswerPoll(f) /\ act' # NoAct
    BY <1>1 DEF Hear, NoAct, Act
  <1> QED BY <1>2 DEF AnswerPoll, Reply, Act

LEMMA AlternateStep == TypeOK /\ AlternateInv /\ [Next]_vars => AlternateInv'
  <1> SUFFICES ASSUME TypeOK, AlternateInv, [Next]_vars PROVE AlternateInv'
    OBVIOUS
  <1>1. ASSUME NEW f \in Frames, Hear(f) PROVE AlternateInv'
    <2>1. owed => fwd_just \/ missed
      BY <1>1 DEF AlternateInv, DirectReply, Hear, NoAct, Act
    <2>2. owed' = owed /\ missed' = missed
      BY <1>1 DEF Hear
    <2>3. fwd_just' = fwd_just \/ Reply(TRUE)
      BY <1>1 DEF Hear, AnswerRollcall, AnswerSession, AnswerPoll, Overhear, fwdVars
    <2>4. Reply(TRUE) => DirectReply'
      BY DEF Reply, DirectReply, Act
    <2>5. act'.kind = "FORWARD_POLL" => ~fwd_just
      BY <1>1, AnswerFacts DEF MayForward
    <2>6. act'.direct => DirectReply' \/ act'.kind = "FORWARD_POLL"
      BY <1>1, AnswerDirect DEF DirectReply
    <2> QED BY <2>1, <2>2, <2>3, <2>4, <2>5, <2>6 DEF AlternateInv
  <1>2. CASE tx_sent
    <2>1. act'.kind # "FORWARD_POLL" /\ ~act'.direct
      BY <1>2 DEF tx_sent, NoAct, Act
    <2>2. /\ fwd_just' <=> fwd_just \/ act.kind = "FORWARD_POLL"
          /\ owed' <=> (owed \/ act.kind = "FORWARD_POLL") /\ ~DirectReply
          /\ missed' <=> missed /\ ~act.direct
      BY <1>2 DEF tx_sent, DirectReply
    <2>3. /\ owed => fwd_just \/ DirectReply \/ missed
          /\ act.direct => DirectReply \/ act.kind = "FORWARD_POLL"
      BY DEF AlternateInv
    <2>4. owed' => fwd_just' \/ missed'
      BY <2>2, <2>3
    <2> QED BY <2>1, <2>4 DEF AlternateInv
  <1>3. CASE tx_not_sent
    <2>1. act'.kind # "FORWARD_POLL" /\ ~act'.direct
      BY <1>3 DEF tx_not_sent, NoAct, Act
    <2>2. /\ owed' <=> owed
          /\ fwd_just' <=> fwd_just
          /\ missed' <=> missed \/ (owed /\ act.direct /\ act.kind # "FORWARD_POLL")
      BY <1>3 DEF tx_not_sent, fwdVars
    <2>3. /\ owed => fwd_just \/ DirectReply \/ missed
          /\ DirectReply => act.direct /\ act.kind # "FORWARD_POLL"
      BY DEF AlternateInv, DirectReply
    <2>4. owed' => fwd_just' \/ missed'
      BY <2>2, <2>3
    <2> QED BY <2>1, <2>4 DEF AlternateInv
  <1>4. CASE Join \/ Leave \/ Stop \/ FinishDrain \/ SetKey \/ Tick \/ UNCHANGED vars
    <2>1. UNCHANGED <<act, owed, missed, fwd_just>>
      BY <1>4 DEF Join, Leave, Stop, FinishDrain, SetKey, TaskFrame, Tick, vars, fwdVars, wireVars
    <2> QED BY <2>1 DEF AlternateInv, DirectReply
  <1> QED BY <1>1, <1>2, <1>3, <1>4 DEF Next

\* Polls are forwarded alternately: a poll is handed to the pGD only if the
\* controller got a direct reply since the one before, or the reply that was due
\* found its slot taken; every such miss lets through one forward and no more.
THEOREM ForwardsOwedOnce == Spec => ForwardsAlternate
  <1>1. Init => AlternateInv
    BY DEF Init, AlternateInv, DirectReply, NoAct, Act
  <1>2. AlternateInv
          => [act.kind = "FORWARD_POLL" /\ fwd_awaiting' => ~owed \/ missed]_<<act, fwd_awaiting>>
    BY DEF AlternateInv
  <1> QED BY <1>1, <1>2, AlternateStep, TypeCorrect, PTL DEF Spec, ForwardsAlternate

=============================================================================
