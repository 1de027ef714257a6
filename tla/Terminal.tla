------------------------------ MODULE Terminal ------------------------------
(***************************************************************************)
(* The enrolled terminal at address 31 (plan::PlanTerminal), frame by      *)
(* frame: what the receive interrupt does with a frame it hears, and with  *)
(* the answer it then sends or skips.                                      *)
(*                                                                         *)
(* A frame is judged twice.  Its matchers act when its last byte arrives;  *)
(* what it says about the ring (who transmitted, who was probed, was our   *)
(* link reply acknowledged) is read only when the next frame's address     *)
(* byte closes it, before that frame's own matchers act.  prev is the      *)
(* frame that is still open in that sense.                                 *)
(*                                                                         *)
(* All behaviour knobs have their defaults, poll forwarding is a constant. *)
(* Time is counted in ticks; ages and remaining times saturate.            *)
(***************************************************************************)
EXTENDS Naturals

CONSTANTS Frames,        \* the frames the bus may carry in this instance
          FwdPolls,      \* fwd_polls_: hand the poll on to the pGD
          GapWalk,       \* the controller's gap-walk period, 12 s
          Fold,          \* an opener within 3 s of a lone opener restarts it
          AbsentAfter,   \* pgd_absent_us_
          FwdBackoff,    \* no forward for 1 s after a failed one
          ProbePace,     \* at most one bootstrap probe in 2 s
          BackoffAfter,  \* rc_backoff_after_: failed joins before the back-off
          MaxShift,      \* the back-off doubles at most this often (4 in the code)
          MaxJoins,      \* bound on the joins opened
          Tasks          \* what the bus task does here: "drain" a terminal, arm a "key"

ASSUME TimingAssumption ==
  /\ GapWalk \in Nat \ {0} /\ Fold \in Nat /\ AbsentAfter \in Nat \ {0}
  /\ FwdBackoff \in Nat /\ ProbePace \in Nat
ASSUME BoundsAssumption ==
  /\ BackoffAfter \in Nat \ {0} /\ MaxShift \in 0 .. 4 /\ MaxJoins \in Nat
  /\ FwdPolls \in BOOLEAN /\ Tasks \subseteq {"drain", "key"}

VARIABLES
  prev,          \* the last frame heard, still to be read as a run
  act,           \* the answer on_byte returned, not yet sent or skipped
  enroll, drain, drain_replied, claim_mask, drain_polls,
  sess_ready, tx_pending,
  rc_last,       \* the masks of our last roll-call reply, or NoMasks after a walk
  rc_opens_join, join_open, rc_join_streak,
  rc_backoff,    \* time left until rc_backoff_until_us_
  lr_ack_wait,
  t_reset,       \* time since t_link_reset_us_
  t_pgd_tx,      \* time since t_pgd_tx_us_
  rc20_open, rc20_unans, rc_claims32, pgd_sess,
  fwd_awaiting, fwd_just,
  fwd_backoff, fwd_probe,                      \* time left until the next forward, probe
  tel_joins, tel_joins_ok, tel_joins_failed,
  owed,          \* a controller poll was forwarded and none answered since
  missed,        \* ... although one was due: a direct answer found its slot taken
  unacked,       \* our join is open on the wire: no link reply acknowledged yet
  answered,      \* our last link reply was the last thing on the wire
  row,           \* the session has shown a row since its last (re)start
  t_pgd_heard,   \* time since a frame of the pGD was last on the wire
  t_fail         \* time since a join of ours last failed

taskVars == <<enroll, drain, claim_mask>>
joinVars == <<rc_join_streak, rc_backoff, tel_joins_failed, t_fail>>
ringVars == <<lr_ack_wait, t_reset, t_pgd_tx, rc20_open, rc20_unans, rc_claims32>>
fwdVars  == <<fwd_awaiting, fwd_just, fwd_backoff, fwd_probe>>
wireVars == <<owed, missed, unacked, answered, row, t_pgd_heard>>
vars == <<prev, act, taskVars, drain_replied, drain_polls, sess_ready, tx_pending, rc_last,
          rc_opens_join, join_open, joinVars, ringVars, pgd_sess, fwdVars,
          tel_joins, tel_joins_ok, wireVars>>

-----------------------------------------------------------------------------
(* Frames.  Of the addresses only those the code tells apart are named; of   *)
(* a roll-call's two masks only our bit and that of the pGD at 32.  from is  *)
(* the sender byte: a pGD that mirrors a forwarded poll writes ours.         *)

Members == {"us", "pgd"}
Masks == [map : SUBSET Members, claims : SUBSET Members]
Empty == [map |-> {}, claims |-> {}]
NoMasks == [none |-> TRUE]
Types == {"bareAck", "link", "rollcall", "sack", "init", "ident", "row", "session", "noise"}
SessionTypes == {"init", "ident", "row", "session"}

Frame(to, type, from, masks, ok) ==
  [to |-> to, type |-> type, from |-> from, masks |-> masks, ok |-> ok]

AllFrames ==
  [to : {"ctrl", "first", "us", "pgd", "other"}, type : Types,
   from : {"ctrl", "us", "pgd", "member"}, masks : Masks, ok : BOOLEAN]

NoRun == [to |-> "nobody"]

ASSUME FramesAssumption == Frames \subseteq AllFrames

\* A controller roll-call; the first one of an FF-walk (the opener, to address 02).
CtrlRollcall(f) == f # NoRun /\ f.type = "rollcall" /\ f.from = "ctrl"
Opener(f) == CtrlRollcall(f) /\ f.to = "first" /\ f.masks.map = Members
BareAck(f) == f # NoRun /\ f.type = "bareAck"
FromPgd(f) == f # NoRun /\ f.from = "pgd" /\ f.to # "pgd" /\ f.type \in {"link", "rollcall", "sack"}

Kinds == {"NONE", "ROLLCALL_REPLY", "SESSION_ACK", "IDENT_REPLY",
          "ENROLL_LINK_REPLY", "ENROLL_KEY_REPLY", "FORWARD_POLL"}
Act(k, m, direct) == [kind |-> k, masks |-> m, direct |-> direct]
NoAct == Act("NONE", Empty, FALSE)

Doublings == <<1, 2, 4, 8, 16>>
\* Fault: the doubling goes on with every failure.
ShiftedUncapped(streak) == GapWalk * Doublings[streak - BackoffAfter + 1]

\* A gap-walk period, doubled with every failure past BackoffAfter, MaxShift times
\* at most.
ShiftedBackoff(streak) ==
  LET k == IF streak - BackoffAfter > MaxShift THEN MaxShift ELSE streak - BackoffAfter
  IN GapWalk * Doublings[k + 1]

MaxBackoff == GapWalk * Doublings[MaxShift + 1]
Later(n, cap) == IF n < cap THEN n + 1 ELSE cap
Sooner(n) == IF n > 0 THEN n - 1 ELSE 0

WireTypeOK ==
  /\ prev \in Frames \cup {NoRun}
  /\ act \in [kind : Kinds, masks : Masks, direct : BOOLEAN]
  /\ owed \in BOOLEAN /\ missed \in BOOLEAN /\ unacked \in BOOLEAN
  /\ answered \in BOOLEAN /\ row \in BOOLEAN
  /\ t_pgd_heard \in 0 .. AbsentAfter /\ t_fail \in 0 .. GapWalk

TaskTypeOK ==
  /\ enroll \in BOOLEAN /\ drain \in BOOLEAN /\ claim_mask \in BOOLEAN
  /\ drain_replied \in BOOLEAN /\ drain_polls \in 0 .. 3
  /\ sess_ready \in BOOLEAN /\ tx_pending \in BOOLEAN

JoinTypeOK ==
  /\ rc_last \in Masks \cup {NoMasks}
  /\ rc_opens_join \in BOOLEAN /\ join_open \in BOOLEAN
  /\ rc_join_streak \in Nat
  /\ rc_backoff \in 0 .. MaxBackoff
  /\ tel_joins \in Nat /\ tel_joins_ok \in Nat /\ tel_joins_failed \in Nat

RingTypeOK ==
  /\ lr_ack_wait \in {0, 1, 2}
  /\ t_reset \in 0 .. GapWalk + Fold /\ t_pgd_tx \in 0 .. AbsentAfter
  /\ rc20_open \in BOOLEAN /\ rc20_unans \in BOOLEAN /\ rc_claims32 \in BOOLEAN
  /\ pgd_sess \in BOOLEAN /\ fwd_awaiting \in BOOLEAN /\ fwd_just \in BOOLEAN
  /\ fwd_backoff \in 0 .. FwdBackoff /\ fwd_probe \in 0 .. ProbePace

TypeOK == WireTypeOK /\ TaskTypeOK /\ JoinTypeOK /\ RingTypeOK

Init ==
  /\ prev = NoRun /\ act = NoAct
  /\ enroll = FALSE /\ drain = FALSE /\ drain_replied = FALSE /\ claim_mask = TRUE
  /\ drain_polls = 0
  /\ sess_ready = TRUE /\ tx_pending = FALSE
  /\ rc_last = NoMasks /\ rc_opens_join = FALSE /\ join_open = FALSE
  /\ rc_join_streak = 0 /\ rc_backoff = 0
  /\ lr_ack_wait = 0 /\ t_reset = 0 /\ t_pgd_tx = 0
  /\ rc20_open = FALSE /\ rc20_unans = FALSE /\ rc_claims32 = TRUE /\ pgd_sess = FALSE
  /\ fwd_awaiting = FALSE /\ fwd_just = FALSE /\ fwd_backoff = 0 /\ fwd_probe = 0
  /\ tel_joins = 0 /\ tel_joins_ok = 0 /\ tel_joins_failed = 0
  /\ owed = FALSE /\ missed = FALSE /\ unacked = FALSE /\ answered = FALSE /\ row = FALSE
  /\ t_pgd_heard = 0 /\ t_fail = GapWalk

-----------------------------------------------------------------------------
(* The end of a run: what the previous frame says about the ring *)

\* Fault: any acknowledgement on the bus completes our join.
ClosesJoinAnyAck == BareAck(prev) /\ join_open

\* Our first link reply was acknowledged: the join is complete.
ClosesJoin == lr_ack_wait = 2 /\ BareAck(prev) /\ join_open

rc_run_end(f) ==
  /\ t_pgd_tx' = IF prev = NoRun \/ FromPgd(prev) THEN 0 ELSE t_pgd_tx
  /\ rc20_unans' = (~FromPgd(prev) /\ (rc20_unans \/ rc20_open))
  /\ rc20_open' = (CtrlRollcall(prev) /\ prev.to = "pgd")
  /\ rc_claims32' = IF CtrlRollcall(prev) THEN "pgd" \in prev.masks.claims ELSE rc_claims32
  /\ lr_ack_wait' = IF lr_ack_wait = 1 THEN 2 ELSE 0
  /\ tel_joins_ok' = IF ClosesJoin THEN tel_joins_ok + 1 ELSE tel_joins_ok
  /\ drain_replied' = (drain_replied \/ (/\ drain /\ drain_polls >= 3
                                         /\ CtrlRollcall(prev) /\ prev.to # "us"))

\* Fault: one unanswered probe makes the pGD absent.
AbsentAtOnce(unans, t) == unans

\* pgd_absent_now_: the controller's own probe of 32 went unanswered, and 32 has
\* been silent for long enough.
Absent(unans, t) == unans /\ t >= AbsentAfter

(* The FF-walk detector.  An opener that follows a lone opener within the fold *)
(* window restarts the same recovery and does not count against our join.      *)
Restart == Opener(prev) /\ t_reset <= Fold
FailsJoin(f) == Opener(f) /\ ~Restart /\ join_open /\ ~ClosesJoin

\* rc_join_failed_: the streak of failed joins and the back-off it starts.
join_failed ==
  /\ tel_joins_failed' = tel_joins_failed + 1
  /\ rc_join_streak' = rc_join_streak + 1
  /\ rc_backoff' = IF rc_join_streak' >= BackoffAfter
                   THEN ShiftedBackoff(rc_join_streak') ELSE rc_backoff
  /\ t_fail' = 0

HearWalk(f) ==
  /\ join_open' = (join_open /\ ~ClosesJoin /\ ~FailsJoin(f))
  /\ IF FailsJoin(f) THEN join_failed
     ELSE /\ rc_join_streak' = IF ClosesJoin THEN 0 ELSE rc_join_streak
          /\ rc_backoff' = IF ClosesJoin THEN 0 ELSE rc_backoff
          /\ UNCHANGED <<tel_joins_failed, t_fail>>
  /\ t_reset' = IF Opener(f) THEN 0 ELSE t_reset
  /\ LET pgdAcks == FromPgd(prev) /\ prev.to = "ctrl" /\ prev.type = "sack"
     IN pgd_sess' = (~Opener(f) /\ (pgd_sess \/ pgdAcks))
  /\ rc_last' = IF Opener(f) THEN NoMasks ELSE rc_last

\* Fault: a row opens the gate although its checksum is wrong.
HearSessionUnchecked(f) ==
  LET ours == enroll /\ f.to = "us" /\ f.from = "ctrl"
  IN sess_ready' = IF Opener(f) \/ (ours /\ f.ok /\ f.type \in {"init", "ident"}) THEN FALSE
                   ELSE IF ours /\ f.type = "row" THEN TRUE
                   ELSE sess_ready

\* The session-ready gate: shut by any recovery walk and by the session's init
\* frames, opened by its first row.
HearSession(f) ==
  LET sound == enroll /\ f.to = "us" /\ f.ok /\ f.from = "ctrl"
  IN sess_ready' = IF Opener(f) \/ (sound /\ f.type \in {"init", "ident"}) THEN FALSE
                   ELSE IF sound /\ f.type = "row" THEN TRUE
                   ELSE sess_ready

-----------------------------------------------------------------------------
(* The answer to a frame *)

\* A probe that opens a join is left unanswered: an FF-walk's, while a pGD may
\* exist above us; any, while our joins keep failing and the walks go on.
LeftToPgd(f) == f.masks.map = Members /\ ~Absent(rc20_unans', t_pgd_tx')
\* Fault: the back-off ends one tick early.
BackingOffLess == rc_backoff' > 1 /\ t_reset' < GapWalk

BackingOff == rc_backoff' > 0 /\ t_reset' < GapWalk

Confirms(f) == rc_last' # NoMasks /\ rc_last' = f.masks

\* Fault: a draining terminal still claims its bit.
ReplyClaims(f) ==
  LET kept == IF Absent(rc20_unans', t_pgd_tx') THEN f.masks.map \ {"pgd"} ELSE f.masks.map
  IN [map |-> kept \cup {"us"}, claims |-> f.masks.claims \cup {"us"}]

ReplyMasks(f) ==
  LET kept == IF Absent(rc20_unans', t_pgd_tx') THEN f.masks.map \ {"pgd"} ELSE f.masks.map
      own == IF claim_mask THEN {"us"} ELSE {}
  IN [map |-> (kept \ {"us"}) \cup own, claims |-> (f.masks.claims \ {"us"}) \cup own]

AnswerRollcall(f) ==
  /\ IF Confirms(f) \/ ~(LeftToPgd(f) \/ BackingOff)
     THEN /\ act' = Act("ROLLCALL_REPLY", ReplyMasks(f), FALSE)
          /\ rc_opens_join' = ~Confirms(f)
     ELSE act' = NoAct /\ UNCHANGED rc_opens_join
  /\ UNCHANGED <<fwdVars, drain_polls>>

AnswerSession(f) ==
  /\ act' = Act(IF f.type = "ident" THEN "IDENT_REPLY" ELSE "SESSION_ACK", Empty, FALSE)
  /\ UNCHANGED <<fwdVars, drain_polls, rc_opens_join>>

\* A forward offers the pGD our poll: to a pGD that is served, or as a bootstrap
\* probe to one the walker proved absent; never while our own join is open.
Served == rc_claims32' /\ pgd_sess'
ProbeDue == ~Served /\ Absent(rc20_unans', t_pgd_tx') /\ fwd_probe = 0
\* Faults: the re-poll after a forward is forwarded too; the first poll after our
\* join is forwarded.
ForwardTwice ==
  FwdPolls /\ ~tx_pending /\ fwd_backoff = 0 /\ ~join_open' /\ (Served \/ ProbeDue)
ForwardInJoin ==
  FwdPolls /\ ~fwd_just /\ ~tx_pending /\ fwd_backoff = 0 /\ (Served \/ ProbeDue)

MayForward ==
  /\ FwdPolls /\ ~fwd_just /\ ~tx_pending /\ fwd_backoff = 0
  /\ ~join_open' /\ (Served \/ ProbeDue)

Reply(direct) ==
  act' = Act(IF tx_pending /\ sess_ready' THEN "ENROLL_KEY_REPLY" ELSE "ENROLL_LINK_REPLY",
             Empty, direct)

AnswerPoll(f) ==
  /\ \/ /\ drain
        /\ drain_polls' = Later(drain_polls, 3)
        /\ act' = NoAct /\ UNCHANGED fwdVars
     \/ /\ ~drain /\ f.from = "ctrl" /\ fwd_awaiting
        /\ fwd_awaiting' = FALSE /\ fwd_backoff' = FwdBackoff /\ fwd_just' = FALSE
        /\ Reply(TRUE) /\ UNCHANGED <<fwd_probe, drain_polls>>
     \/ /\ ~drain /\ f.from = "ctrl" /\ ~fwd_awaiting /\ MayForward
        /\ fwd_probe' = IF ProbeDue THEN ProbePace ELSE fwd_probe
        /\ act' = Act("FORWARD_POLL", Empty, TRUE)
        /\ UNCHANGED <<fwd_awaiting, fwd_just, fwd_backoff, drain_polls>>
     \/ /\ ~drain /\ f.from = "ctrl" /\ ~fwd_awaiting /\ ~MayForward
        /\ fwd_just' = FALSE
        /\ Reply(TRUE) /\ UNCHANGED <<fwd_awaiting, fwd_backoff, fwd_probe, drain_polls>>
     \/ /\ ~drain /\ f.from # "ctrl"
        /\ fwd_awaiting' = (fwd_awaiting /\ f.from # "pgd")
        /\ Reply(FALSE) /\ UNCHANGED <<fwd_just, fwd_backoff, fwd_probe, drain_polls>>
  /\ UNCHANGED rc_opens_join

\* Not for us: only a link reply of the pGD, as itself or mirroring the forwarded
\* poll, matters: it completes a forward.
PgdAnswers(f) == f.to = "ctrl" /\ f.type = "link" /\ f.from \in {"pgd", "us"} /\ f.ok

Overhear(f) ==
  /\ act' = NoAct
  /\ fwd_awaiting' = (fwd_awaiting /\ ~PgdAnswers(f))
  /\ UNCHANGED <<fwd_just, fwd_backoff, fwd_probe, drain_polls, rc_opens_join>>

ForUs(f, types) == enroll /\ f.to = "us" /\ f.ok /\ f.type \in types

Hear(f) ==
  /\ act = NoAct
  /\ rc_run_end(f) /\ HearWalk(f) /\ HearSession(f)
  /\ IF ForUs(f, {"rollcall"}) /\ f.from = "ctrl" THEN AnswerRollcall(f)
     ELSE IF ForUs(f, SessionTypes) /\ f.from = "ctrl" THEN AnswerSession(f)
     ELSE IF ForUs(f, {"link"}) THEN AnswerPoll(f)
     ELSE Overhear(f)
  /\ act'.kind = "ROLLCALL_REPLY" /\ rc_opens_join' => tel_joins < MaxJoins
  /\ prev' = f
  /\ answered' = FALSE
  /\ unacked' = (unacked /\ ~Opener(f) /\ ~(answered /\ BareAck(f)))
  /\ row' = (/\ ~Opener(f) /\ ~(ForUs(f, {"init", "ident"}) /\ f.from = "ctrl")
             /\ row \/ (ForUs(f, {"row"}) /\ f.from = "ctrl"))
  /\ t_pgd_heard' = IF FromPgd(f) THEN 0 ELSE t_pgd_heard
  /\ UNCHANGED <<taskVars, tx_pending, tel_joins, owed, missed>>

-----------------------------------------------------------------------------
(* The outcome of the answer *)

\* A reply that opens a join while the previous one is still open counts that one
\* as failed.
OpenJoin ==
  /\ tel_joins' = tel_joins + 1
  /\ join_open' = TRUE
  /\ pgd_sess' = FALSE
  /\ unacked' = TRUE
  /\ IF join_open THEN join_failed ELSE UNCHANGED joinVars

tx_sent ==
  /\ act # NoAct
  /\ act' = NoAct
  /\ IF act.kind = "ROLLCALL_REPLY"
     THEN /\ drain_replied' = (drain_replied \/ drain)
          /\ rc_last' = act.masks
          /\ IF rc_opens_join THEN OpenJoin
             ELSE UNCHANGED <<tel_joins, join_open, pgd_sess, unacked, joinVars>>
     ELSE UNCHANGED <<drain_replied, rc_last, tel_joins, join_open, pgd_sess, unacked, joinVars>>
  /\ LET poll == act.kind \in {"ENROLL_LINK_REPLY", "ENROLL_KEY_REPLY"}
     IN /\ lr_ack_wait' = IF poll THEN 1 ELSE lr_ack_wait
        /\ answered' = poll
        /\ owed' = ((owed \/ act.kind = "FORWARD_POLL") /\ ~(poll /\ act.direct))
        /\ missed' = (missed /\ ~act.direct)
  /\ tx_pending' = (tx_pending /\ act.kind # "ENROLL_KEY_REPLY")
  /\ fwd_awaiting' = (fwd_awaiting \/ act.kind = "FORWARD_POLL")
  /\ fwd_just' = (fwd_just \/ act.kind = "FORWARD_POLL")
  /\ UNCHANGED <<prev, taskVars, drain_polls, sess_ready, rc_opens_join, t_reset, t_pgd_tx,
                 rc20_open, rc20_unans, rc_claims32, fwd_backoff, fwd_probe, tel_joins_ok, row,
                 t_pgd_heard>>

\* The slot was taken: nothing is transmitted, and on_byte has already forgotten
\* what a direct reply would have made good.
tx_not_sent ==
  /\ act # NoAct
  /\ act' = NoAct
  /\ missed' = (missed \/ (owed /\ act.direct /\ act.kind # "FORWARD_POLL"))
  /\ UNCHANGED <<prev, taskVars, drain_replied, drain_polls, sess_ready, tx_pending, rc_last,
                 rc_opens_join, join_open, joinVars, ringVars, pgd_sess, fwdVars,
                 tel_joins, tel_joins_ok, owed, unacked, answered, row, t_pgd_heard>>

-----------------------------------------------------------------------------
(* The bus task.  Requests are whole here; EnrollControl takes them apart. *)

TaskFrame == UNCHANGED <<prev, act, rc_last, rc_opens_join, join_open, joinVars, ringVars,
                         pgd_sess, fwdVars, tel_joins, tel_joins_ok, owed, missed, unacked, answered,
                         t_pgd_heard>>

\* set_enroll: join; leave by a drain; stop at once when not enrolled or draining.
Join ==
  /\ act = NoAct
  /\ enroll' = TRUE /\ drain' = FALSE /\ drain_replied' = FALSE /\ claim_mask' = TRUE
  /\ sess_ready' = FALSE /\ row' = FALSE
  /\ UNCHANGED <<drain_polls, tx_pending>> /\ TaskFrame

Leave ==
  /\ act = NoAct /\ "drain" \in Tasks /\ enroll /\ ~drain
  /\ drain' = TRUE /\ drain_polls' = 0 /\ drain_replied' = FALSE /\ claim_mask' = FALSE
  /\ UNCHANGED <<enroll, sess_ready, tx_pending, row>> /\ TaskFrame

Stop ==
  /\ act = NoAct /\ (~enroll \/ drain)
  /\ enroll' = FALSE /\ drain' = FALSE /\ claim_mask' = TRUE
  /\ UNCHANGED <<drain_replied, drain_polls, sess_ready, tx_pending, row>> /\ TaskFrame

\* The task ends the drain: the controller let us go, or the deadline passed.
FinishDrain ==
  /\ act = NoAct /\ drain
  /\ enroll' = FALSE /\ drain' = FALSE
  /\ UNCHANGED <<drain_replied, drain_polls, claim_mask, sess_ready, tx_pending, row>> /\ TaskFrame

\* key_tick_ arms a key or withdraws it.
SetKey ==
  /\ act = NoAct /\ "key" \in Tasks
  /\ tx_pending' = ~tx_pending
  /\ UNCHANGED <<enroll, drain, drain_replied, drain_polls, claim_mask, sess_ready, row>>
  /\ TaskFrame

Tick ==
  /\ act = NoAct
  /\ t_reset' = Later(t_reset, GapWalk + Fold)
  /\ t_pgd_tx' = Later(t_pgd_tx, AbsentAfter)
  /\ rc_backoff' = Sooner(rc_backoff)
  /\ fwd_backoff' = Sooner(fwd_backoff)
  /\ fwd_probe' = Sooner(fwd_probe)
  /\ t_pgd_heard' = Later(t_pgd_heard, AbsentAfter)
  /\ t_fail' = Later(t_fail, GapWalk)
  /\ UNCHANGED <<prev, act, taskVars, drain_replied, drain_polls, sess_ready, tx_pending, rc_last,
                 rc_opens_join, join_open, rc_join_streak, tel_joins_failed, lr_ack_wait,
                 rc20_open, rc20_unans, rc_claims32, pgd_sess, fwd_awaiting, fwd_just,
                 tel_joins, tel_joins_ok, owed, missed, unacked, answered, row>>

Next ==
  \/ \E f \in Frames : Hear(f)
  \/ tx_sent \/ tx_not_sent
  \/ Join \/ Leave \/ Stop \/ FinishDrain \/ SetKey
  \/ Tick

Spec == Init /\ [][Next]_vars

-----------------------------------------------------------------------------
(* What the terminal promises *)

\* Every join opened is completed, failed, or still open: the walk that kills a
\* join, the re-probe that replaces it and the acknowledgement that closes it are
\* each counted once, although they are noticed at different bytes.
JoinAccounting ==
  tel_joins = tel_joins_ok + tel_joins_failed + IF join_open THEN 1 ELSE 0

\* While no link reply of our own join has been acknowledged on the wire, the code
\* knows that the join is open.
UnackedIsOpen == unacked => join_open

\* The first poll after our join is ours: no poll is forwarded before the
\* controller acknowledged a link reply of ours.
NoForwardBeforeAck == act.kind = "FORWARD_POLL" => ~unacked

\* Polls are forwarded alternately: between two forwards on the wire the controller
\* got a direct reply, or the reply that was due found its slot taken; one such miss
\* lets at most one more forward through.
ForwardsAlternate ==
  [][act.kind = "FORWARD_POLL" /\ fwd_awaiting' => ~owed \/ missed]_<<act, fwd_awaiting>>

\* An FF-walk never ends at 31 while a pGD exists: its probe is answered with a
\* join only after 32 has been silent for AbsentAfter.
FfProbeLeftToPgd ==
  act.kind = "ROLLCALL_REPLY" /\ rc_opens_join /\ prev.masks.map = Members
    => t_pgd_heard >= AbsentAfter

\* Joins that keep failing are damped: after BackoffAfter failures in a row the
\* next join opens no sooner than a gap-walk period after the last failure, or
\* after a gap-walk period without a walk.
JoinStormDamped ==
  [][tel_joins' > tel_joins /\ rc_join_streak >= BackoffAfter
       => t_fail >= GapWalk \/ t_reset >= GapWalk]_tel_joins

\* A key never rides a session that has not shown a row since its last restart.
KeyNeedsRow == act.kind = "ENROLL_KEY_REPLY" => tx_pending /\ row

\* A draining terminal leaves: it answers no poll and claims nothing in a walk.
DrainRenounces ==
  drain => /\ act.kind \notin {"ENROLL_LINK_REPLY", "ENROLL_KEY_REPLY", "FORWARD_POLL"}
           /\ "us" \notin act.masks.map \cup act.masks.claims
=============================================================================
