------------------------------ MODULE KeyPump ------------------------------
(***************************************************************************)
(* The key path of the bridge: a press is queued by the main loop or by a  *)
(* capture command, armed by the bus task (PlanBridge::key_tick_), carried *)
(* by the receive interrupt in the terminal's own poll slot, and judged    *)
(* from the first byte heard after the burst.                              *)
(*                                                                         *)
(* Three actors interleave: the requesters, the bus task, the interrupt.   *)
(* The interrupt's match and its tx_sent are two steps, because a burst    *)
(* takes time and the task may withdraw the key in between.  Time is       *)
(* counted in ticks; every clock is the age of an event and saturates at   *)
(* the largest bound the code compares it with.                            *)
(***************************************************************************)
EXTENDS Naturals, Sequences, FiniteSets

CONSTANTS Presses,          \* identities of the requested presses (the bound on requests)
          NoPress,          \* "no key"
          QueueDepth,       \* QUEUE_DEPTH
          Ttl,              \* KEY_TTL_MS
          DisarmWait,       \* KEY_DISARM_MS
          VerdictWait,      \* KEY_VERDICT_MS
          RepeatInterval,   \* repeat_interval_ms_
          Repeat,           \* repeat_: keypad reports per press
          AckWindow,        \* the 5 ms within which an acknowledgement counts
          MaxBurst,         \* turnaround and transmission of one burst
          TaskLag,          \* the longest time between two key_tick_ calls
          MemberGap,        \* another terminal's frame to the controller starts no
                            \* sooner than this after our burst
          AckLoss           \* may the controller's acknowledgement be garbled?

ASSUME NoPressAssumption == NoPress \notin Presses
ASSUME TimingAssumption ==
  /\ Ttl \in Nat \ {0} /\ DisarmWait \in Nat /\ VerdictWait \in Nat
  /\ RepeatInterval \in Nat /\ TaskLag \in Nat \ {0}
  /\ AckWindow \in Nat \ {0} /\ MaxBurst \in Nat
  /\ MemberGap \in Nat
  /\ MaxBurst < DisarmWait      \* a burst is over before a withdrawn key is expired
  /\ AckWindow <= VerdictWait
ASSUME SizeAssumption == QueueDepth \in Nat /\ Repeat \in Nat \ {0} /\ AckLoss \in BOOLEAN

VARIABLES
  kind,            \* who asked for the press ("none": not asked yet)
  age,             \* time since the request
  queue,           \* queue_: the FreeRTOS queue of requests
  armed,           \* armed_
  key_st,          \* key_st_
  pending_key,     \* pending_key_
  pending_frames,  \* pending_frames_
  left,            \* time left until inject_deadline_ms_
  key_t,           \* time since key_t_ms_
  lag,             \* time since the last key_tick_
  tx_pending, tx_frame, tx_fired, key_ack, key_await, sess_ready,
  burst, burst_t,  \* the frame the interrupt is transmitting, and for how long
  wire, wire_t,    \* the controller's answer to the last burst, time since the burst
  fate, fates,     \* the fate last published for a press, and how many were
  sent, took       \* reports of a press put on the wire, and taken by the controller

taskVars == <<key_st, pending_key, pending_frames, left, key_t>>
isrVars  == <<tx_pending, tx_frame, tx_fired, key_ack, key_await, sess_ready>>
busVars  == <<burst, burst_t, wire, wire_t>>
history  == <<fate, fates, sent, took>>
vars == <<kind, age, queue, armed, lag, taskVars, isrVars, busVars, history>>

Kinds == {"command", "service", "observe"}
KeyStates == {"IDLE", "ARMED", "DISARM", "VERDICT", "REPEAT"}
KeyFates == {"NONE", "ACCEPTED", "REJECTED", "EXPIRED"}

Pending(p) == key_st # "IDLE" /\ pending_key = p
Queued(p) == \E i \in DOMAIN queue : queue[i] = p

MaxOf(a, b) == IF a >= b THEN a ELSE b
AgeCap  == Ttl + TaskLag + 1
KeyTCap == MaxOf(DisarmWait, MaxOf(VerdictWait, RepeatInterval))

RequestTypeOK ==
  /\ kind \in [Presses -> Kinds \cup {"none"}]
  /\ age \in [Presses -> 0 .. AgeCap]
  /\ queue \in Seq(Presses)
  /\ armed \in BOOLEAN

TaskTypeOK ==
  /\ key_st \in KeyStates
  /\ pending_key \in Presses \cup {NoPress}
  /\ pending_frames \in 0 .. Repeat
  /\ left \in 0 .. Ttl
  /\ key_t \in 0 .. KeyTCap
  /\ lag \in 0 .. TaskLag

IsrTypeOK ==
  /\ tx_pending \in BOOLEAN /\ tx_fired \in BOOLEAN /\ key_await \in BOOLEAN
  /\ sess_ready \in BOOLEAN
  /\ tx_frame \in Presses \cup {NoPress}
  /\ key_ack \in {0, 1, 2}

BusTypeOK ==
  /\ burst \in Presses \cup {NoPress}
  /\ burst_t \in 0 .. MaxBurst
  /\ wire \in {"quiet", "ackDue"}
  /\ wire_t \in 0 .. AckWindow

HistoryTypeOK ==
  /\ fate \in [Presses -> KeyFates]
  /\ fates \in [Presses -> Nat]
  /\ sent \in [Presses -> Nat]
  /\ took \in [Presses -> Nat]

TypeOK == RequestTypeOK /\ TaskTypeOK /\ IsrTypeOK /\ BusTypeOK /\ HistoryTypeOK

Init ==
  /\ kind = [p \in Presses |-> "none"]
  /\ age = [p \in Presses |-> 0]
  /\ queue = <<>>
  /\ armed = FALSE
  /\ key_st = "IDLE" /\ pending_key = NoPress /\ pending_frames = 0
  /\ left = 0 /\ key_t = 0 /\ lag = 0
  /\ tx_pending = FALSE /\ tx_frame = NoPress /\ tx_fired = FALSE
  /\ key_ack = 0 /\ key_await = FALSE /\ sess_ready = TRUE
  /\ burst = NoPress /\ burst_t = 0 /\ wire = "quiet" /\ wire_t = 0
  /\ fate = [p \in Presses |-> "NONE"]
  /\ fates = [p \in Presses |-> 0]
  /\ sent = [p \in Presses |-> 0]
  /\ took = [p \in Presses |-> 0]

-----------------------------------------------------------------------------
(* Requesters *)

\* Fault: the request jumps the queue (xQueueSendToFront).
PressJumpsQueue(p, k) ==
  /\ kind[p] = "none" /\ (k = "command" => armed) /\ Len(queue) < QueueDepth
  /\ kind' = [kind EXCEPT ![p] = k] /\ age' = [age EXCEPT ![p] = 0]
  /\ queue' = <<p>> \o queue
  /\ UNCHANGED <<armed, lag, taskVars, isrVars, busVars, history>>

\* press_key, press_key_internal and the inject-key command.  A full queue, and
\* a command while disarmed, are refused at once and leave the pump alone.
press_key(p, k) ==
  /\ kind[p] = "none"
  /\ k = "command" => armed
  /\ Len(queue) < QueueDepth
  /\ kind' = [kind EXCEPT ![p] = k]
  /\ age' = [age EXCEPT ![p] = 0]
  /\ queue' = Append(queue, p)
  /\ UNCHANGED <<armed, lag, taskVars, isrVars, busVars, history>>

set_armed(a) ==
  /\ armed # a
  /\ armed' = a
  /\ UNCHANGED <<kind, age, queue, lag, taskVars, isrVars, busVars, history>>

-----------------------------------------------------------------------------
(* The bus task: key_tick_, one action per path through it. *)

\* Publish fate f for every press of S (publish_fate_ and its event record).
publish_fate(S, f) ==
  /\ fate' = [p \in Presses |-> IF p \in S THEN f ELSE fate[p]]
  /\ fates' = [p \in Presses |-> IF p \in S THEN fates[p] + 1 ELSE fates[p]]
  /\ UNCHANGED <<sent, took>>

arm_isr_tx(p) ==
  /\ tx_frame' = p
  /\ tx_fired' = FALSE
  /\ key_ack' = 0
  /\ tx_pending' = TRUE
  /\ UNCHANGED <<key_await, sess_ready>>

\* A press that is not armed and not internal leaves with a diagnostic only.
IgnoreUnarmed ==
  /\ key_st = "IDLE" /\ queue # <<>>
  /\ ~armed /\ kind[Head(queue)] # "observe"
  /\ queue' = Tail(queue)
  /\ UNCHANGED <<taskVars, isrVars, history>>

ExpireQueued ==
  /\ key_st = "IDLE" /\ queue # <<>>
  /\ armed \/ kind[Head(queue)] = "observe"
  /\ age[Head(queue)] >= Ttl
  /\ queue' = Tail(queue)
  /\ publish_fate({Head(queue)}, "EXPIRED")
  /\ UNCHANGED <<taskVars, isrVars>>

\* Fault: the age of the press is not looked at when it is armed.
ArmStale ==
  /\ key_st = "IDLE" /\ queue # <<>> /\ (armed \/ kind[Head(queue)] = "observe")
  /\ queue' = Tail(queue) /\ pending_key' = Head(queue) /\ pending_frames' = Repeat
  /\ left' = Ttl - age[Head(queue)] /\ key_st' = "ARMED" /\ arm_isr_tx(Head(queue))
  /\ UNCHANGED <<key_t, history>>

\* Fault: the TTL starts when the press is armed.
ArmFullTtl ==
  /\ key_st = "IDLE" /\ queue # <<>> /\ (armed \/ kind[Head(queue)] = "observe")
  /\ queue' = Tail(queue) /\ pending_key' = Head(queue) /\ pending_frames' = Repeat
  /\ left' = Ttl /\ key_st' = "ARMED" /\ arm_isr_tx(Head(queue))
  /\ UNCHANGED <<key_t, history>>

ArmKey ==
  /\ key_st = "IDLE" /\ queue # <<>>
  /\ armed \/ kind[Head(queue)] = "observe"
  /\ age[Head(queue)] < Ttl
  /\ queue' = Tail(queue)
  /\ pending_key' = Head(queue)
  /\ pending_frames' = Repeat
  /\ left' = Ttl - age[Head(queue)]
  /\ key_st' = "ARMED"
  /\ arm_isr_tx(Head(queue))
  /\ UNCHANGED <<key_t, history>>

\* The interrupt took the frame: ARMED, or DISARM when it was mid-burst.
key_fired ==
  /\ key_st \in {"ARMED", "DISARM"} /\ tx_fired
  /\ tx_fired' = FALSE
  /\ key_t' = 0
  /\ key_st' = "VERDICT"
  /\ UNCHANGED <<queue, pending_key, pending_frames, left, history,
                 tx_pending, tx_frame, key_ack, key_await, sess_ready>>

Withdraw ==
  /\ key_st = "ARMED" /\ ~tx_fired /\ left = 0
  /\ tx_pending' = FALSE
  /\ key_t' = 0
  /\ key_st' = "DISARM"
  /\ UNCHANGED <<queue, pending_key, pending_frames, left, history,
                 tx_frame, tx_fired, key_ack, key_await, sess_ready>>

\* Fault: a withdrawn key expires without waiting for a burst in flight.
ExpireAtOnce ==
  /\ key_st = "DISARM" /\ ~tx_fired
  /\ publish_fate({pending_key} \cup {queue[i] : i \in DOMAIN queue}, "EXPIRED")
  /\ queue' = <<>> /\ pending_frames' = 0 /\ key_st' = "IDLE"
  /\ UNCHANGED <<pending_key, left, key_t, isrVars>>

\* Fault: the queue is reported expired and left in place.
ExpireKeepsQueue ==
  /\ key_st = "DISARM" /\ ~tx_fired /\ key_t >= DisarmWait
  /\ publish_fate({pending_key} \cup {queue[i] : i \in DOMAIN queue}, "EXPIRED")
  /\ pending_frames' = 0 /\ key_st' = "IDLE"
  /\ UNCHANGED <<queue, pending_key, left, key_t, isrVars>>

\* No slot within the TTL: the key expires and takes the whole queue with it
\* (drop_queue_).
ExpireArmed ==
  /\ key_st = "DISARM" /\ ~tx_fired /\ key_t >= DisarmWait
  /\ publish_fate({pending_key} \cup {queue[i] : i \in DOMAIN queue}, "EXPIRED")
  /\ queue' = <<>>
  /\ pending_frames' = 0
  /\ key_st' = "IDLE"
  /\ UNCHANGED <<pending_key, left, key_t, isrVars>>

\* Faults: the verdict is not waited for; silence is waited for without end.
VerdictAtOnce == key_st = "VERDICT"
VerdictNeedsByte == key_st = "VERDICT" /\ key_ack # 0

VerdictDue == key_st = "VERDICT" /\ (key_ack # 0 \/ key_t >= VerdictWait)

Reject ==
  /\ VerdictDue /\ key_ack # 1
  /\ key_await' = FALSE
  /\ publish_fate({pending_key}, "REJECTED")
  /\ pending_frames' = 0
  /\ key_st' = "IDLE"
  /\ UNCHANGED <<queue, pending_key, left, key_t,
                 tx_pending, tx_frame, tx_fired, key_ack, sess_ready>>

\* Fault: a hold does not count its reports.
HoldForever ==
  /\ VerdictDue /\ key_ack = 1 /\ pending_frames > 1
  /\ key_await' = FALSE /\ key_t' = 0 /\ key_st' = "REPEAT"
  /\ UNCHANGED <<queue, pending_key, pending_frames, left, history,
                 tx_pending, tx_frame, tx_fired, key_ack, sess_ready>>

\* A configured hold: the next report follows after the spacing.
HoldOn ==
  /\ VerdictDue /\ key_ack = 1 /\ pending_frames > 1
  /\ key_await' = FALSE
  /\ pending_frames' = pending_frames - 1
  /\ key_t' = 0
  /\ key_st' = "REPEAT"
  /\ UNCHANGED <<queue, pending_key, left, history,
                 tx_pending, tx_frame, tx_fired, key_ack, sess_ready>>

\* Fault: the first acknowledged report decides the whole hold.
AcceptFirst ==
  /\ VerdictDue /\ key_ack = 1
  /\ key_await' = FALSE /\ pending_frames' = 0 /\ key_st' = "IDLE"
  /\ publish_fate({pending_key}, "ACCEPTED")
  /\ UNCHANGED <<queue, pending_key, left, key_t,
                 tx_pending, tx_frame, tx_fired, key_ack, sess_ready>>

Accept ==
  /\ VerdictDue /\ key_ack = 1 /\ pending_frames <= 1
  /\ key_await' = FALSE
  /\ pending_frames' = 0
  /\ publish_fate({pending_key}, "ACCEPTED")
  /\ key_st' = "IDLE"
  /\ UNCHANGED <<queue, pending_key, left, key_t,
                 tx_pending, tx_frame, tx_fired, key_ack, sess_ready>>

ArmRepeat ==
  /\ key_st = "REPEAT" /\ key_t >= RepeatInterval
  /\ left' = Ttl
  /\ key_st' = "ARMED"
  /\ arm_isr_tx(pending_key)
  /\ UNCHANGED <<queue, pending_key, pending_frames, key_t, history>>

\* A pass that finds nothing to do yet.
Wait ==
  /\ lag > 0
  /\ \/ key_st = "IDLE" /\ queue = <<>>
     \/ key_st = "ARMED" /\ ~tx_fired /\ left > 0
     \/ key_st = "DISARM" /\ ~tx_fired /\ key_t < DisarmWait
     \/ key_st = "VERDICT" /\ ~VerdictDue
     \/ key_st = "REPEAT" /\ key_t < RepeatInterval
  /\ UNCHANGED <<queue, taskVars, isrVars, history>>

key_tick ==
  /\ \/ IgnoreUnarmed \/ ExpireQueued \/ ArmKey
     \/ key_fired \/ Withdraw \/ ExpireArmed
     \/ Reject \/ HoldOn \/ Accept \/ ArmRepeat
     \/ Wait
  /\ lag' = 0
  /\ UNCHANGED <<kind, age, armed, busVars>>

-----------------------------------------------------------------------------
(* The receive interrupt and the bus *)

\* Our own poll while a key is pending and the session is ready: the frame is
\* copied into the action and the burst begins.
PollSlot ==
  /\ burst = NoPress /\ wire = "quiet"
  /\ tx_pending /\ sess_ready
  /\ burst' = tx_frame
  /\ burst_t' = 0
  /\ UNCHANGED <<kind, age, queue, armed, lag, taskVars, isrVars, wire, wire_t, history>>

\* tx_sent(ENROLL_KEY_REPLY); the controller takes the report or discards it.
tx_sent ==
  /\ burst # NoPress
  /\ burst' = NoPress
  /\ burst_t' = 0
  /\ tx_pending' = FALSE
  /\ key_ack' = 0
  /\ key_await' = TRUE
  /\ tx_fired' = TRUE
  /\ sent' = [sent EXCEPT ![burst] = @ + 1]
  /\ \/ wire' = "ackDue" /\ took' = [took EXCEPT ![burst] = @ + 1]
     \/ wire' = "quiet" /\ took' = took
  /\ wire_t' = 0
  /\ UNCHANGED <<kind, age, queue, armed, lag, taskVars, tx_frame, sess_ready, fate, fates>>

\* tx_not_sent: a byte arrived behind the poll, the slot is given up.
tx_not_sent ==
  /\ burst # NoPress
  /\ burst' = NoPress
  /\ burst_t' = 0
  /\ UNCHANGED <<kind, age, queue, armed, lag, taskVars, isrVars, wire, wire_t, history>>

\* The first byte after a burst decides it: 01' inside the window counts as the
\* controller's acknowledgement, anything else as none.  Not only the
\* acknowledgement starts with 01': so does every frame a terminal sends to the
\* controller.  Bytes cannot be heard mid-burst.
Bytes == {"ack", "toController", "other"}

HearByte(b) ==
  /\ burst = NoPress
  /\ b = "ack" <=> wire = "ackDue"
  /\ b = "ack" \/ key_await
  /\ b = "toController" => wire_t >= MemberGap
  /\ wire' = "quiet"
  /\ key_ack' = IF ~key_await THEN key_ack
                ELSE IF b # "other" /\ wire_t < AckWindow THEN 1 ELSE 2
  /\ key_await' = FALSE
  /\ UNCHANGED <<kind, age, queue, armed, lag, taskVars, tx_pending, tx_frame, tx_fired,
                 sess_ready, burst, burst_t, wire_t, history>>

\* The acknowledgement is lost on the wire.
LoseAck ==
  /\ AckLoss /\ wire = "ackDue"
  /\ wire' = "quiet"
  /\ UNCHANGED <<kind, age, queue, armed, lag, taskVars, isrVars, burst, burst_t, wire_t, history>>

\* A walk or session init closes the gate, the session's first row opens it.
SessionGate ==
  /\ sess_ready' = ~sess_ready
  /\ UNCHANGED <<kind, age, queue, armed, lag, taskVars, busVars, history,
                 tx_pending, tx_frame, tx_fired, key_ack, key_await>>

Older(t, cap) == IF t < cap THEN t + 1 ELSE cap

\* One tick of time: bounded by the task's period, the burst's length and the
\* controller's acknowledgement delay.  A clock that nobody reads stands still.
Tick ==
  /\ lag < TaskLag
  /\ burst # NoPress => burst_t < MaxBurst
  /\ wire = "ackDue" => wire_t + 1 < AckWindow
  /\ lag' = lag + 1
  /\ age' = [p \in Presses |-> IF Queued(p) \/ Pending(p) THEN Older(age[p], AgeCap) ELSE 0]
  /\ left' = IF key_st = "ARMED" /\ left > 0 THEN left - 1 ELSE left
  /\ key_t' = IF key_st \in {"DISARM", "VERDICT", "REPEAT"} THEN Older(key_t, KeyTCap) ELSE key_t
  /\ burst_t' = IF burst = NoPress THEN 0 ELSE burst_t + 1
  /\ wire_t' = IF wire = "ackDue" \/ key_await THEN Older(wire_t, AckWindow) ELSE wire_t
  /\ UNCHANGED <<kind, queue, armed, key_st, pending_key, pending_frames, isrVars,
                 burst, wire, history>>

Next ==
  \/ \E p \in Presses, k \in Kinds : press_key(p, k)
  \/ \E a \in BOOLEAN : set_armed(a)
  \/ key_tick
  \/ PollSlot \/ tx_sent \/ tx_not_sent
  \/ \E b \in Bytes : HearByte(b)
  \/ LoseAck \/ SessionGate \/ Tick

Spec == Init /\ [][Next]_vars

\* The bus task is scheduled, a started burst ends, a due acknowledgement is
\* heard or lost, and time goes on.  Nothing is assumed of the polls, of the
\* session gate or of the requesters.
Fairness ==
  /\ WF_vars(key_tick)
  /\ WF_vars(Tick)
  /\ WF_vars(tx_sent \/ tx_not_sent)
  /\ WF_vars(HearByte("ack") \/ LoseAck)

FairSpec == Spec /\ Fairness

-----------------------------------------------------------------------------
(* What the pump promises *)

\* A press gets at most one verdict, and none while it is still queued or in
\* hand: a press expired by drop_queue_ is not judged again by the pump.
SingleVerdict ==
  \A p \in Presses : fates[p] <= 1 /\ (fates[p] = 1 => ~Queued(p) /\ ~Pending(p))

\* ACCEPTED is the controller's word: every report of the press went out and the
\* controller took each one (the verdict of one burst is never read for another).
AcceptedWasTaken ==
  \A p \in Presses : fate[p] = "ACCEPTED" => sent[p] = Repeat /\ took[p] = Repeat

\* EXPIRED means never transmitted, even when the TTL ran out while the
\* interrupt was already sending the key.  Holds for one report per press.
ExpiredNeverSent ==
  \A p \in Presses : fate[p] = "EXPIRED" => sent[p] = 0

\* REJECTED means transmitted and not taken.  Holds when no acknowledgement is
\* lost on the wire.
RejectedNotTaken ==
  \A p \in Presses : fate[p] = "REJECTED" => sent[p] > took[p]

\* Once a press has its fate no report of it reaches the wire any more, and no
\* press gets more reports than configured: nothing is ever sent again.
NeverSentAgain ==
  [][\A p \in Presses :
       sent'[p] # sent[p] => fates[p] = 0 /\ fates'[p] = 0 /\ sent[p] < Repeat]_vars

\* The first report of a press starts no later than its TTL plus one period of
\* the bus task, which is how long the task may take to notice the deadline.
SentWhileFresh ==
  [][\A p \in Presses :
       (burst = NoPress /\ burst' = p /\ sent[p] = 0) => age[p] <= Ttl + TaskLag]_vars

\* The documented promise to clients: the events report every press the bridge
\* acknowledged, each with a verdict.  Violated when the bridge is disarmed
\* between the acknowledgement and the dequeue.
EveryAckedPressReported ==
  \A p \in Presses :
    kind[p] = "command" => Queued(p) \/ Pending(p) \/ fates[p] > 0

\* Every press leaves the pump in the end, on a dead bus too: no state waits for
\* a slot, a byte or a row that never comes.  The navigation's own presses always
\* get the verdict their step waits for.
EveryPressLeaves ==
  \A p \in Presses :
    Queued(p) \/ Pending(p)
      ~> ~Queued(p) /\ ~Pending(p) /\ (kind[p] = "observe" => fates[p] = 1)

\* With one report per press the pump implements the life cycle it promises.
line == IF key_st = "IDLE" THEN queue ELSE <<pending_key>> \o queue
status ==
  [p \in Presses |->
     IF fate[p] # "NONE" THEN fate[p]
     ELSE IF kind[p] = "none" THEN "idle"
     ELSE IF sent[p] > 0 THEN "onWire"
     ELSE IF Queued(p) \/ Pending(p) THEN "waiting"
     ELSE "ignored"]

Lifecycle == INSTANCE KeyLifecycle
ImplementsLifecycle == Lifecycle!Spec
=============================================================================
