--------------------------- MODULE KeyPumpProofs ---------------------------
(***************************************************************************)
(* Machine-checked proofs about KeyPump, for every number of presses, every *)
(* queue depth and every choice of the durations that satisfies            *)
(* TimingAssumption.                                                       *)
(***************************************************************************)
EXTENDS KeyPump, TLAPS

(* The inductive invariant.  Done is the number of reports of the press in *)
(* hand whose verdict the task has read; Judging says that one more is on  *)
(* the wire or was, and its verdict is still to be read.                   *)
Done == Repeat - pending_frames
Judging == tx_fired \/ key_st = "VERDICT"

\* Queued presses are distinct, untouched, and not the press in hand.
QueueInv ==
  /\ \A i, j \in 1 .. Len(queue) : queue[i] = queue[j] => i = j
  /\ \A i \in 1 .. Len(queue) :
       /\ kind[queue[i]] # "none" /\ fates[queue[i]] = 0 /\ sent[queue[i]] = 0
       /\ key_st # "IDLE" => queue[i] # pending_key

\* Presses nobody asked for are untouched; nobody is judged twice.
FateInv ==
  \A p \in Presses :
    /\ kind[p] = "none" => fates[p] = 0 /\ sent[p] = 0
    /\ fates[p] <= 1
    /\ fates[p] = 0 => fate[p] = "NONE"
    /\ took[p] <= sent[p]

\* The press in hand is unjudged, and the hand-over flags belong to it.
HandInv ==
  /\ key_st # "IDLE" => /\ pending_key \in Presses
                        /\ kind[pending_key] # "none" /\ fates[pending_key] = 0
                        /\ pending_frames >= 1
  /\ tx_pending => key_st = "ARMED" /\ ~tx_fired /\ tx_frame = pending_key
  /\ tx_fired => key_st \in {"ARMED", "DISARM"} /\ burst = NoPress
  /\ key_await => Judging

\* A burst belongs to the armed press, or to the one withdrawn no earlier than
\* the burst began.
BurstInv ==
  burst # NoPress =>
    /\ burst = pending_key /\ ~tx_fired
    /\ \/ key_st = "ARMED" /\ tx_pending
       \/ key_st = "DISARM" /\ key_t <= burst_t

\* The reports on the wire are the ones judged and the one being judged.
CountInv ==
  key_st # "IDLE" => sent[pending_key] = IF Judging THEN Done + 1 ELSE Done

SafeInv == QueueInv /\ FateInv /\ HandInv /\ BurstInv /\ CountInv

\* When no other terminal's frame can pass for the acknowledgement, a verdict of
\* 1 is the controller's.
TakenInv ==
  MemberGap >= AckWindow =>
    /\ key_st # "IDLE" /\ ~Judging => took[pending_key] = Done
    /\ Judging /\ (key_ack = 1 \/ (key_await /\ wire = "ackDue"))
         => took[pending_key] = Done + 1
    /\ AcceptedWasTaken

\* When no acknowledgement is lost, a taken report is acknowledged or its
\* acknowledgement is due, and it is due for less than the verdict window.
RejectInv ==
  ~AckLoss =>
    /\ wire = "ackDue" => wire_t < AckWindow
    /\ wire = "ackDue" /\ key_st = "VERDICT" => key_t <= wire_t
    /\ Judging => /\ key_await <=> key_ack = 0
                  /\ took[pending_key] = sent[pending_key] =>
                       key_ack = 1 \/ (key_await /\ wire = "ackDue")
    /\ RejectedNotTaken

\* With one report per press an expired press never went out.
ExpireInv == Repeat = 1 => ExpiredNeverSent

IInv == TypeOK /\ SafeInv /\ TakenInv /\ RejectInv /\ ExpireInv

-----------------------------------------------------------------------------
LEMMA CapFacts ==
  /\ AgeCap \in Nat /\ AgeCap > Ttl
  /\ KeyTCap \in Nat /\ KeyTCap >= DisarmWait /\ KeyTCap >= VerdictWait
  BY TimingAssumption DEF AgeCap, KeyTCap, MaxOf

LEMMA TypeInit == Init => TypeOK
  <1> SUFFICES ASSUME Init PROVE TypeOK
    OBVIOUS
  <1> USE SizeAssumption, TimingAssumption, CapFacts DEF Init
  <1>1. RequestTypeOK
    <2>1. queue \in Seq(Presses)
      OBVIOUS
    <2>2. age \in [Presses -> 0 .. AgeCap]
      OBVIOUS
    <2> QED BY <2>1, <2>2 DEF RequestTypeOK, Kinds
  <1>2. TaskTypeOK
    BY DEF TaskTypeOK, KeyStates
  <1>3. IsrTypeOK
    BY DEF IsrTypeOK
  <1>5. BusTypeOK
    BY DEF BusTypeOK
  <1>4. HistoryTypeOK
    BY DEF HistoryTypeOK, KeyFates
  <1> QED BY <1>1, <1>2, <1>3, <1>4, <1>5 DEF TypeOK

LEMMA TypeStep == TypeOK /\ [Next]_vars => TypeOK'
  <1> SUFFICES ASSUME TypeOK, [Next]_vars PROVE TypeOK'
    OBVIOUS
  <1> USE SizeAssumption, TimingAssumption, CapFacts
      DEF TypeOK, vars, taskVars, isrVars, busVars, history
  <1>1. ASSUME NEW p \in Presses, NEW k \in Kinds, press_key(p, k) PROVE TypeOK'
    <2>1. RequestTypeOK'
      BY <1>1 DEF press_key, RequestTypeOK, Kinds
    <2>2. TaskTypeOK' /\ IsrTypeOK' /\ BusTypeOK' /\ HistoryTypeOK'
      BY <1>1 DEF press_key, TaskTypeOK, IsrTypeOK, BusTypeOK, HistoryTypeOK
    <2> QED BY <2>1, <2>2 DEF TypeOK
  <1>2. ASSUME NEW a \in BOOLEAN, set_armed(a) PROVE TypeOK'
    <2>1. RequestTypeOK'
      BY <1>2 DEF set_armed, RequestTypeOK, Kinds
    <2>2. TaskTypeOK' /\ IsrTypeOK' /\ BusTypeOK' /\ HistoryTypeOK'
      BY <1>2 DEF set_armed, TaskTypeOK, IsrTypeOK, BusTypeOK, HistoryTypeOK
    <2> QED BY <2>1, <2>2 DEF TypeOK
  <1>3. CASE key_tick
    <2>0. lag' = 0 /\ UNCHANGED <<kind, age, armed, busVars>>
      BY <1>3 DEF key_tick
    <2>1. CASE IgnoreUnarmed
      <3>1. RequestTypeOK'
        BY <2>0, <2>1 DEF IgnoreUnarmed, RequestTypeOK, Kinds
      <3>2. TaskTypeOK'
        BY <2>0, <2>1 DEF IgnoreUnarmed, TaskTypeOK, KeyStates
      <3>3. IsrTypeOK' /\ BusTypeOK' /\ HistoryTypeOK'
        BY <2>0, <2>1 DEF IgnoreUnarmed, IsrTypeOK, BusTypeOK, HistoryTypeOK
      <3> QED BY <3>1, <3>2, <3>3 DEF TypeOK
    <2>2. CASE ExpireQueued
      <3>1. RequestTypeOK'
        BY <2>0, <2>2 DEF ExpireQueued, publish_fate, RequestTypeOK, Kinds
      <3>2. HistoryTypeOK'
        BY <2>0, <2>2 DEF ExpireQueued, publish_fate, HistoryTypeOK, KeyFates
      <3>3. TaskTypeOK'
        BY <2>0, <2>2 DEF ExpireQueued, publish_fate, TaskTypeOK, KeyStates
      <3>4. IsrTypeOK' /\ BusTypeOK'
        BY <2>0, <2>2 DEF ExpireQueued, publish_fate, IsrTypeOK, BusTypeOK
      <3> QED BY <3>1, <3>2, <3>3, <3>4 DEF TypeOK
    <2>3. CASE ArmKey
      <3>1. RequestTypeOK'
        BY <2>0, <2>3 DEF ArmKey, arm_isr_tx, RequestTypeOK, Kinds
      <3>2. TaskTypeOK'
        BY <2>0, <2>3 DEF ArmKey, RequestTypeOK, TaskTypeOK, KeyStates
      <3>3. IsrTypeOK'
        <4>1. Head(queue) \in Presses
          BY <2>3 DEF ArmKey, RequestTypeOK
        <4> QED BY <4>1, <2>3 DEF ArmKey, arm_isr_tx, IsrTypeOK
      <3>4. BusTypeOK' /\ HistoryTypeOK'
        BY <2>0, <2>3 DEF ArmKey, arm_isr_tx, BusTypeOK, HistoryTypeOK
      <3> QED BY <3>1, <3>2, <3>3, <3>4 DEF TypeOK
    <2>4. CASE key_fired
      <3>1. TaskTypeOK'
        BY <2>0, <2>4 DEF key_fired, TaskTypeOK, KeyStates
      <3>2. IsrTypeOK'
        BY <2>0, <2>4 DEF key_fired, IsrTypeOK
      <3>3. RequestTypeOK' /\ BusTypeOK' /\ HistoryTypeOK'
        BY <2>0, <2>4 DEF key_fired, RequestTypeOK, BusTypeOK, HistoryTypeOK
      <3> QED BY <3>1, <3>2, <3>3 DEF TypeOK
    <2>5. CASE Withdraw
      <3>1. TaskTypeOK'
        BY <2>0, <2>5 DEF Withdraw, TaskTypeOK, KeyStates
      <3>2. IsrTypeOK'
        BY <2>0, <2>5 DEF Withdraw, IsrTypeOK
      <3>3. RequestTypeOK' /\ BusTypeOK' /\ HistoryTypeOK'
        BY <2>0, <2>5 DEF Withdraw, RequestTypeOK, BusTypeOK, HistoryTypeOK
      <3> QED BY <3>1, <3>2, <3>3 DEF TypeOK
    <2>6. CASE ExpireArmed
      <3>1. RequestTypeOK'
        BY <2>0, <2>6 DEF ExpireArmed, publish_fate, RequestTypeOK, Kinds
      <3>2. TaskTypeOK'
        BY <2>0, <2>6 DEF ExpireArmed, publish_fate, TaskTypeOK, KeyStates
      <3>3. HistoryTypeOK'
        BY <2>0, <2>6 DEF ExpireArmed, publish_fate, HistoryTypeOK, KeyFates
      <3>4. IsrTypeOK' /\ BusTypeOK'
        BY <2>0, <2>6 DEF ExpireArmed, publish_fate, IsrTypeOK, BusTypeOK
      <3> QED BY <3>1, <3>2, <3>3, <3>4 DEF TypeOK
    <2>7. CASE Reject
      <3>1. TaskTypeOK'
        BY <2>0, <2>7 DEF Reject, publish_fate, TaskTypeOK, KeyStates
      <3>2. IsrTypeOK'
        BY <2>0, <2>7 DEF Reject, publish_fate, IsrTypeOK
      <3>3. HistoryTypeOK'
        BY <2>0, <2>7 DEF Reject, publish_fate, HistoryTypeOK, KeyFates
      <3>4. RequestTypeOK' /\ BusTypeOK'
        BY <2>0, <2>7 DEF Reject, publish_fate, RequestTypeOK, BusTypeOK
      <3> QED BY <3>1, <3>2, <3>3, <3>4 DEF TypeOK
    <2>8. CASE HoldOn
      <3>1. TaskTypeOK'
        BY <2>0, <2>8 DEF HoldOn, TaskTypeOK, KeyStates
      <3>2. IsrTypeOK'
        BY <2>0, <2>8 DEF HoldOn, IsrTypeOK
      <3>3. RequestTypeOK' /\ BusTypeOK' /\ HistoryTypeOK'
        BY <2>0, <2>8 DEF HoldOn, RequestTypeOK, BusTypeOK, HistoryTypeOK
      <3> QED BY <3>1, <3>2, <3>3 DEF TypeOK
    <2>9. CASE Accept
      <3>1. TaskTypeOK'
        BY <2>0, <2>9 DEF Accept, publish_fate, TaskTypeOK, KeyStates
      <3>2. IsrTypeOK'
        BY <2>0, <2>9 DEF Accept, publish_fate, IsrTypeOK
      <3>3. HistoryTypeOK'
        BY <2>0, <2>9 DEF Accept, publish_fate, HistoryTypeOK, KeyFates
      <3>4. RequestTypeOK' /\ BusTypeOK'
        BY <2>0, <2>9 DEF Accept, publish_fate, RequestTypeOK, BusTypeOK
      <3> QED BY <3>1, <3>2, <3>3, <3>4 DEF TypeOK
    <2>10. CASE ArmRepeat
      <3>1. TaskTypeOK'
        BY <2>0, <2>10 DEF ArmRepeat, arm_isr_tx, TaskTypeOK, KeyStates
      <3>2. IsrTypeOK'
        BY <2>0, <2>10 DEF ArmRepeat, arm_isr_tx, TaskTypeOK, IsrTypeOK
      <3>3. RequestTypeOK' /\ BusTypeOK' /\ HistoryTypeOK'
        BY <2>0, <2>10 DEF ArmRepeat, arm_isr_tx, RequestTypeOK, BusTypeOK, HistoryTypeOK
      <3> QED BY <3>1, <3>2, <3>3 DEF TypeOK
    <2>11. CASE Wait
      <3>1. TaskTypeOK'
        BY <2>0, <2>11 DEF Wait, TaskTypeOK, KeyStates
      <3>2. RequestTypeOK' /\ IsrTypeOK' /\ BusTypeOK' /\ HistoryTypeOK'
        BY <2>0, <2>11 DEF Wait, RequestTypeOK, IsrTypeOK, BusTypeOK, HistoryTypeOK
      <3> QED BY <3>1, <3>2 DEF TypeOK
    <2> QED
      BY <1>3, <2>1, <2>2, <2>3, <2>4, <2>5, <2>6, <2>7, <2>8, <2>9, <2>10, <2>11 DEF
             key_tick
  <1>4. CASE PollSlot
    <2>1. BusTypeOK'
      BY <1>4 DEF PollSlot, IsrTypeOK, BusTypeOK
    <2>2. RequestTypeOK' /\ TaskTypeOK' /\ IsrTypeOK' /\ HistoryTypeOK'
      BY <1>4 DEF PollSlot, RequestTypeOK, TaskTypeOK, IsrTypeOK, HistoryTypeOK
    <2> QED BY <2>1, <2>2 DEF TypeOK
  <1>5. CASE tx_sent
    <2>1. IsrTypeOK'
      BY <1>5 DEF tx_sent, IsrTypeOK
    <2>2. BusTypeOK'
      BY <1>5 DEF tx_sent, BusTypeOK
    <2>3. HistoryTypeOK'
      BY <1>5 DEF tx_sent, BusTypeOK, HistoryTypeOK, KeyFates
    <2>4. RequestTypeOK' /\ TaskTypeOK'
      BY <1>5 DEF tx_sent, RequestTypeOK, TaskTypeOK
    <2> QED BY <2>1, <2>2, <2>3, <2>4 DEF TypeOK
  <1>6. CASE tx_not_sent
    <2>1. BusTypeOK'
      BY <1>6 DEF tx_not_sent, BusTypeOK
    <2>2. RequestTypeOK' /\ TaskTypeOK' /\ IsrTypeOK' /\ HistoryTypeOK'
      BY <1>6 DEF tx_not_sent, RequestTypeOK, TaskTypeOK, IsrTypeOK, HistoryTypeOK
    <2> QED BY <2>1, <2>2 DEF TypeOK
  <1>7. ASSUME NEW b \in Bytes, HearByte(b) PROVE TypeOK'
    <2>1. IsrTypeOK'
      BY <1>7 DEF HearByte, IsrTypeOK
    <2>2. BusTypeOK'
      BY <1>7 DEF HearByte, Bytes, BusTypeOK
    <2>3. RequestTypeOK' /\ TaskTypeOK' /\ HistoryTypeOK'
      BY <1>7 DEF HearByte, Bytes, RequestTypeOK, TaskTypeOK, HistoryTypeOK
    <2> QED BY <2>1, <2>2, <2>3 DEF TypeOK
  <1>8. CASE LoseAck
    <2>1. BusTypeOK'
      BY <1>8 DEF LoseAck, BusTypeOK
    <2>2. RequestTypeOK' /\ TaskTypeOK' /\ IsrTypeOK' /\ HistoryTypeOK'
      BY <1>8 DEF LoseAck, RequestTypeOK, TaskTypeOK, IsrTypeOK, HistoryTypeOK
    <2> QED BY <2>1, <2>2 DEF TypeOK
  <1>9. CASE SessionGate
    <2>1. IsrTypeOK'
      BY <1>9 DEF SessionGate, IsrTypeOK
    <2>2. RequestTypeOK' /\ TaskTypeOK' /\ BusTypeOK' /\ HistoryTypeOK'
      BY <1>9 DEF SessionGate, RequestTypeOK, TaskTypeOK, BusTypeOK, HistoryTypeOK
    <2> QED BY <2>1, <2>2 DEF TypeOK
  <1>10. CASE Tick
    <2>1. RequestTypeOK'
      BY <1>10 DEF Tick, Older, RequestTypeOK, Kinds
    <2>2. TaskTypeOK'
      BY <1>10 DEF Tick, Older, TaskTypeOK, KeyStates
    <2>3. BusTypeOK'
      BY <1>10 DEF Tick, Older, BusTypeOK
    <2>4. IsrTypeOK' /\ HistoryTypeOK'
      BY <1>10 DEF Tick, IsrTypeOK, HistoryTypeOK
    <2> QED BY <2>1, <2>2, <2>3, <2>4 DEF TypeOK
  <1>11. CASE UNCHANGED vars
    <2>1. RequestTypeOK' /\ TaskTypeOK' /\ IsrTypeOK' /\ BusTypeOK' /\ HistoryTypeOK'
      BY <1>11 DEF RequestTypeOK, TaskTypeOK, IsrTypeOK, BusTypeOK, HistoryTypeOK
    <2> QED BY <2>1 DEF TypeOK
  <1> QED BY <1>1, <1>2, <1>3, <1>4, <1>5, <1>6, <1>7, <1>8, <1>9, <1>10, <1>11 DEF Next

LEMMA TailFacts ==
  ASSUME NEW S, NEW q \in Seq(S), q # <<>>
  PROVE  /\ Head(q) = q[1] /\ Head(q) \in S /\ 1 \in 1 .. Len(q)
         /\ Tail(q) \in Seq(S)
         /\ \A i \in 1 .. Len(Tail(q)) : i + 1 \in 1 .. Len(q) /\ Tail(q)[i] = q[i + 1]
  OBVIOUS

LEMMA AppendFacts ==
  ASSUME NEW S, NEW q \in Seq(S), NEW x \in S
  PROVE  /\ Append(q, x) \in Seq(S)
         /\ \A i \in 1 .. Len(Append(q, x)) :
              \/ i \in 1 .. Len(q) /\ Append(q, x)[i] = q[i]
              \/ i = Len(q) + 1 /\ Append(q, x)[i] = x
  OBVIOUS

\* What is left of the queue when its head leaves is as well kept as before, and
\* the head is not in it any more.
LEMMA TailQueue ==
  ASSUME TypeOK, QueueInv, queue # <<>>
  PROVE  /\ \A i, j \in 1 .. Len(Tail(queue)) : Tail(queue)[i] = Tail(queue)[j] => i = j
         /\ \A i \in 1 .. Len(Tail(queue)) :
              /\ Tail(queue)[i] # Head(queue)
              /\ Tail(queue)[i] \in Presses
              /\ kind[Tail(queue)[i]] # "none"
              /\ fates[Tail(queue)[i]] = 0 /\ sent[Tail(queue)[i]] = 0
         /\ Head(queue) \in Presses /\ kind[Head(queue)] # "none"
         /\ fates[Head(queue)] = 0 /\ sent[Head(queue)] = 0
  <1>1. queue \in Seq(Presses)
    BY DEF TypeOK, RequestTypeOK
  <1>2. /\ Head(queue) = queue[1] /\ 1 \in 1 .. Len(queue) /\ Head(queue) \in Presses
        /\ Tail(queue) \in Seq(Presses)
        /\ \A i \in 1 .. Len(Tail(queue)) :
             i + 1 \in 1 .. Len(queue) /\ Tail(queue)[i] = queue[i + 1]
    BY <1>1, TailFacts
  <1>3. \A i, j \in 1 .. Len(Tail(queue)) : Tail(queue)[i] = Tail(queue)[j] => i = j
    <2>1. TAKE i, j \in 1 .. Len(Tail(queue))
    <2>2. Tail(queue)[i] = Tail(queue)[j] => i + 1 = j + 1
      BY <1>2 DEF QueueInv
    <2>3. i \in Nat /\ j \in Nat
      BY <1>2
    <2> QED BY <2>2, <2>3
  <1>4. \A i \in 1 .. Len(Tail(queue)) :
          /\ Tail(queue)[i] # Head(queue)
          /\ Tail(queue)[i] \in Presses
          /\ kind[Tail(queue)[i]] # "none"
          /\ fates[Tail(queue)[i]] = 0 /\ sent[Tail(queue)[i]] = 0
    <2>1. TAKE i \in 1 .. Len(Tail(queue))
    <2>2. i + 1 # 1
      BY <1>2
    <2> QED BY <1>1, <1>2, <2>2 DEF QueueInv
  <1> QED BY <1>2, <1>3, <1>4 DEF QueueInv

LEMMA SafeInit == Init => SafeInv
  BY NoPressAssumption DEF Init, SafeInv, QueueInv, FateInv, HandInv, BurstInv, CountInv,
         Judging

LEMMA SafeStep == TypeOK /\ SafeInv /\ [Next]_vars => SafeInv'
  <1> SUFFICES ASSUME TypeOK, SafeInv, [Next]_vars PROVE SafeInv'
    OBVIOUS
  <1> USE NoPressAssumption, SizeAssumption, TimingAssumption
      DEF TypeOK, SafeInv, vars, taskVars, isrVars, busVars, history
  <1>1. ASSUME NEW p \in Presses, NEW k \in Kinds, press_key(p, k) PROVE SafeInv'
    <2>1. BurstInv' /\ CountInv'
      BY <1>1 DEF press_key, BurstInv, CountInv, Judging, Done
    <2>2. QueueInv'
      <3>1. \A i \in 1 .. Len(queue) : queue[i] \in Presses /\ queue[i] # p
        BY <1>1 DEF press_key, QueueInv, RequestTypeOK
      <3>2. /\ \A i \in 1 .. Len(queue') : \/ i \in 1 .. Len(queue) /\ queue'[i] = queue[i]
                                           \/ i = Len(queue) + 1 /\ queue'[i] = p
        BY <1>1, AppendFacts DEF press_key, RequestTypeOK
      <3>3. /\ kind'[p] # "none" /\ fates'[p] = 0 /\ sent'[p] = 0
            /\ key_st' # "IDLE" => p # pending_key'
        BY <1>1 DEF press_key, Kinds, FateInv, HandInv, RequestTypeOK
      <3>4. \A i \in 1 .. Len(queue) :
               /\ kind'[queue[i]] # "none" /\ fates'[queue[i]] = 0 /\ sent'[queue[i]] = 0
               /\ key_st' # "IDLE" => queue[i] # pending_key'
        BY <1>1, <3>1 DEF press_key, QueueInv, RequestTypeOK
      <3>5. \A i, j \in 1 .. Len(queue') : queue'[i] = queue'[j] => i = j
        BY SMTT(30), <3>1, <3>2 DEF QueueInv
      <3> QED BY <3>2, <3>3, <3>4, <3>5 DEF QueueInv
    <2>3. FateInv'
      BY <1>1 DEF press_key, FateInv, QueueInv, HandInv, BurstInv, RequestTypeOK,
             TaskTypeOK, HistoryTypeOK
    <2>4. HandInv'
      BY <1>1 DEF press_key, HandInv, QueueInv, BurstInv, Judging, RequestTypeOK,
             TaskTypeOK, IsrTypeOK, HistoryTypeOK
    <2> QED BY <2>1, <2>2, <2>3, <2>4 DEF SafeInv
  <1>2. ASSUME NEW a \in BOOLEAN, set_armed(a) PROVE SafeInv'
    <2>1. QueueInv' /\ FateInv' /\ HandInv' /\ BurstInv' /\ CountInv'
      BY <1>2 DEF set_armed, QueueInv, FateInv, HandInv, BurstInv, CountInv, Judging,
             Judging, Done
    <2> QED BY <2>1 DEF SafeInv
  <1>3. CASE key_tick
    <2>0. lag' = 0 /\ UNCHANGED <<kind, age, armed, busVars>>
      BY <1>3 DEF key_tick
    <2>1. CASE IgnoreUnarmed
      <3>1. FateInv' /\ HandInv' /\ BurstInv' /\ CountInv'
        BY <2>0, <2>1 DEF IgnoreUnarmed, FateInv, HandInv, BurstInv, CountInv, Judging,
               Judging, Done
      <3>2. QueueInv'
        BY SMTT(30), <2>0, <2>1 DEF IgnoreUnarmed, QueueInv, FateInv, HandInv, BurstInv,
               RequestTypeOK, TaskTypeOK, HistoryTypeOK
      <3> QED BY <3>1, <3>2 DEF SafeInv
    <2>2. CASE ExpireQueued
      <3>1. BurstInv' /\ CountInv'
        BY <2>0, <2>2 DEF ExpireQueued, BurstInv, CountInv, Judging, Done
      <3>2. QueueInv'
        BY <2>0, <2>2, TailQueue DEF ExpireQueued, publish_fate, QueueInv, HistoryTypeOK
      <3>3. FateInv'
        BY <2>0, <2>2, TailQueue DEF ExpireQueued, publish_fate, FateInv, HistoryTypeOK
      <3>4. HandInv'
        BY <2>0, <2>2 DEF ExpireQueued, publish_fate, HandInv, QueueInv, BurstInv,
               Judging, RequestTypeOK, TaskTypeOK, IsrTypeOK, HistoryTypeOK
      <3> QED BY <3>1, <3>2, <3>3, <3>4 DEF SafeInv
    <2>3. CASE ArmKey
      <3>1. FateInv'
        BY <2>0, <2>3 DEF ArmKey, FateInv
      <3>2. QueueInv'
        BY <2>0, <2>3, TailQueue DEF ArmKey, QueueInv
      <3>3. HandInv'
        BY <2>0, <2>3, TailQueue DEF ArmKey, arm_isr_tx, HandInv, Judging, TaskTypeOK,
               IsrTypeOK
      <3>4. BurstInv'
        BY <2>0, <2>3 DEF ArmKey, arm_isr_tx, BurstInv, HandInv, TaskTypeOK, BusTypeOK,
               KeyStates
      <3>5. CountInv'
        BY <2>0, <2>3 DEF ArmKey, arm_isr_tx, CountInv, HandInv, BurstInv, QueueInv,
               FateInv, Judging, Done, RequestTypeOK, TaskTypeOK, HistoryTypeOK
      <3> QED BY <3>1, <3>2, <3>3, <3>4, <3>5 DEF SafeInv
    <2>4. CASE key_fired
      <3>1. FateInv'
        BY <2>0, <2>4 DEF key_fired, FateInv
      <3>2. QueueInv'
        BY <2>0, <2>4 DEF key_fired, QueueInv, FateInv, HandInv, BurstInv, RequestTypeOK,
               TaskTypeOK, HistoryTypeOK
      <3>3. HandInv'
        BY <2>0, <2>4 DEF key_fired, HandInv, QueueInv, BurstInv, Judging, RequestTypeOK,
               TaskTypeOK, IsrTypeOK, HistoryTypeOK
      <3>4. BurstInv'
        BY <2>0, <2>4 DEF key_fired, BurstInv, HandInv, TaskTypeOK, BusTypeOK, KeyStates
      <3>5. CountInv'
        BY <2>0, <2>4 DEF key_fired, CountInv, HandInv, BurstInv, QueueInv, FateInv,
               Judging, Done, RequestTypeOK, TaskTypeOK, HistoryTypeOK
      <3> QED BY <3>1, <3>2, <3>3, <3>4, <3>5 DEF SafeInv
    <2>5. CASE Withdraw
      <3>1. FateInv'
        BY <2>0, <2>5 DEF Withdraw, FateInv
      <3>2. QueueInv'
        BY <2>0, <2>5 DEF Withdraw, QueueInv, FateInv, HandInv, BurstInv, RequestTypeOK,
               TaskTypeOK, HistoryTypeOK
      <3>3. HandInv'
        BY <2>0, <2>5 DEF Withdraw, HandInv, QueueInv, BurstInv, Judging, RequestTypeOK,
               TaskTypeOK, IsrTypeOK, HistoryTypeOK
      <3>4. BurstInv'
        BY <2>0, <2>5 DEF Withdraw, BurstInv, HandInv, TaskTypeOK, BusTypeOK, KeyStates
      <3>5. CountInv'
        BY <2>0, <2>5 DEF Withdraw, CountInv, HandInv, BurstInv, QueueInv, FateInv,
               Judging, Done, RequestTypeOK, TaskTypeOK, HistoryTypeOK
      <3> QED BY <3>1, <3>2, <3>3, <3>4, <3>5 DEF SafeInv
    <2>6. CASE ExpireArmed
      <3>1. QueueInv'
        BY <2>0, <2>6 DEF ExpireArmed, publish_fate, QueueInv, FateInv, HandInv, BurstInv,
               RequestTypeOK, TaskTypeOK, HistoryTypeOK
      <3>2. FateInv'
        BY <2>0, <2>6 DEF ExpireArmed, publish_fate, FateInv, QueueInv, HandInv, BurstInv,
               RequestTypeOK, TaskTypeOK, HistoryTypeOK
      <3>3. HandInv'
        BY <2>0, <2>6 DEF ExpireArmed, publish_fate, HandInv, QueueInv, BurstInv, Judging,
               RequestTypeOK, TaskTypeOK, IsrTypeOK, HistoryTypeOK
      <3>4. BurstInv'
        BY <2>0, <2>6 DEF ExpireArmed, publish_fate, BurstInv, HandInv, TaskTypeOK,
               BusTypeOK, KeyStates
      <3>5. CountInv'
        BY <2>0, <2>6 DEF ExpireArmed, publish_fate, CountInv, HandInv, BurstInv,
               QueueInv, FateInv, Judging, Done, RequestTypeOK, TaskTypeOK, HistoryTypeOK
      <3> QED BY <3>1, <3>2, <3>3, <3>4, <3>5 DEF SafeInv
    <2>7. CASE Reject
      <3>1. QueueInv'
        BY SMTT(30), <2>0, <2>7 DEF Reject, VerdictDue, publish_fate, QueueInv, FateInv, HandInv,
               BurstInv, RequestTypeOK, TaskTypeOK, HistoryTypeOK
      <3>2. FateInv'
        BY <2>0, <2>7 DEF Reject, VerdictDue, publish_fate, FateInv, QueueInv, HandInv,
               BurstInv, RequestTypeOK, TaskTypeOK, HistoryTypeOK
      <3>3. HandInv'
        BY <2>0, <2>7 DEF Reject, VerdictDue, publish_fate, HandInv, QueueInv, BurstInv,
               Judging, RequestTypeOK, TaskTypeOK, IsrTypeOK, HistoryTypeOK
      <3>4. BurstInv'
        BY <2>0, <2>7 DEF Reject, VerdictDue, publish_fate, BurstInv, HandInv, TaskTypeOK,
               BusTypeOK, KeyStates
      <3>5. CountInv'
        BY <2>0, <2>7 DEF Reject, VerdictDue, publish_fate, CountInv, HandInv, BurstInv,
               QueueInv, FateInv, Judging, Done, RequestTypeOK, TaskTypeOK, HistoryTypeOK
      <3> QED BY <3>1, <3>2, <3>3, <3>4, <3>5 DEF SafeInv
    <2>8. CASE HoldOn
      <3>1. FateInv'
        BY <2>0, <2>8 DEF HoldOn, FateInv
      <3>2. QueueInv'
        BY <2>0, <2>8 DEF HoldOn, VerdictDue, QueueInv, FateInv, HandInv, BurstInv,
               RequestTypeOK, TaskTypeOK, HistoryTypeOK
      <3>3. HandInv'
        BY <2>0, <2>8 DEF HoldOn, VerdictDue, HandInv, QueueInv, BurstInv, Judging,
               RequestTypeOK, TaskTypeOK, IsrTypeOK, HistoryTypeOK
      <3>4. BurstInv'
        BY <2>0, <2>8 DEF HoldOn, VerdictDue, BurstInv, HandInv, TaskTypeOK, BusTypeOK,
               KeyStates
      <3>5. CountInv'
        BY <2>0, <2>8 DEF HoldOn, VerdictDue, CountInv, HandInv, BurstInv, QueueInv,
               FateInv, Judging, Done, RequestTypeOK, TaskTypeOK, HistoryTypeOK
      <3> QED BY <3>1, <3>2, <3>3, <3>4, <3>5 DEF SafeInv
    <2>9. CASE Accept
      <3>1. QueueInv'
        BY SMTT(30), <2>0, <2>9 DEF Accept, VerdictDue, publish_fate, QueueInv, FateInv, HandInv,
               BurstInv, RequestTypeOK, TaskTypeOK, HistoryTypeOK
      <3>2. FateInv'
        BY <2>0, <2>9 DEF Accept, VerdictDue, publish_fate, FateInv, QueueInv, HandInv,
               BurstInv, RequestTypeOK, TaskTypeOK, HistoryTypeOK
      <3>3. HandInv'
        BY <2>0, <2>9 DEF Accept, VerdictDue, publish_fate, HandInv, QueueInv, BurstInv,
               Judging, RequestTypeOK, TaskTypeOK, IsrTypeOK, HistoryTypeOK
      <3>4. BurstInv'
        BY <2>0, <2>9 DEF Accept, VerdictDue, publish_fate, BurstInv, HandInv, TaskTypeOK,
               BusTypeOK, KeyStates
      <3>5. CountInv'
        BY <2>0, <2>9 DEF Accept, VerdictDue, publish_fate, CountInv, HandInv, BurstInv,
               QueueInv, FateInv, Judging, Done, RequestTypeOK, TaskTypeOK, HistoryTypeOK
      <3> QED BY <3>1, <3>2, <3>3, <3>4, <3>5 DEF SafeInv
    <2>10. CASE ArmRepeat
      <3>1. FateInv'
        BY <2>0, <2>10 DEF ArmRepeat, FateInv
      <3>2. QueueInv'
        BY <2>0, <2>10 DEF ArmRepeat, arm_isr_tx, QueueInv, FateInv, HandInv, BurstInv,
               RequestTypeOK, TaskTypeOK, HistoryTypeOK
      <3>3. HandInv'
        BY <2>0, <2>10 DEF ArmRepeat, arm_isr_tx, HandInv, QueueInv, BurstInv, Judging,
               RequestTypeOK, TaskTypeOK, IsrTypeOK, HistoryTypeOK
      <3>4. BurstInv'
        BY <2>0, <2>10 DEF ArmRepeat, arm_isr_tx, BurstInv, HandInv, TaskTypeOK,
               BusTypeOK, KeyStates
      <3>5. CountInv'
        BY <2>0, <2>10 DEF ArmRepeat, arm_isr_tx, CountInv, HandInv, BurstInv, QueueInv,
               FateInv, Judging, Done, RequestTypeOK, TaskTypeOK, HistoryTypeOK
      <3> QED BY <3>1, <3>2, <3>3, <3>4, <3>5 DEF SafeInv
    <2>11. CASE Wait
      <3>1. QueueInv' /\ FateInv' /\ HandInv' /\ BurstInv' /\ CountInv'
        BY <2>0, <2>11 DEF Wait, QueueInv, FateInv, HandInv, BurstInv, CountInv, Judging,
               Judging, Done
      <3> QED BY <3>1 DEF SafeInv
    <2> QED
      BY <1>3, <2>1, <2>2, <2>3, <2>4, <2>5, <2>6, <2>7, <2>8, <2>9, <2>10, <2>11 DEF
             key_tick
  <1>4. CASE PollSlot
    <2>1. QueueInv' /\ FateInv' /\ CountInv'
      BY <1>4 DEF PollSlot, QueueInv, FateInv, CountInv, Judging, Done
    <2>2. HandInv'
      BY <1>4 DEF PollSlot, HandInv, QueueInv, BurstInv, Judging, RequestTypeOK,
             TaskTypeOK, IsrTypeOK, HistoryTypeOK
    <2>3. BurstInv'
      BY <1>4 DEF PollSlot, BurstInv, HandInv, TaskTypeOK, BusTypeOK, KeyStates
    <2> QED BY <2>1, <2>2, <2>3 DEF SafeInv
  <1>5. CASE tx_sent
    <2>1. QueueInv'
      <3>1. burst = pending_key /\ key_st # "IDLE"
        BY <1>5 DEF tx_sent, BurstInv
      <3>2. \A i \in 1 .. Len(queue) : queue[i] \in Presses /\ queue[i] # burst
        BY <3>1 DEF QueueInv, RequestTypeOK
      <3>3. \A i \in 1 .. Len(queue) : sent'[queue[i]] = sent[queue[i]]
        BY <1>5, <3>2 DEF tx_sent, HistoryTypeOK
      <3> QED BY <1>5, <3>3 DEF tx_sent, QueueInv
    <2>2. FateInv'
      BY <1>5 DEF tx_sent, FateInv, QueueInv, HandInv, BurstInv, RequestTypeOK,
             TaskTypeOK, HistoryTypeOK
    <2>3. HandInv'
      BY <1>5 DEF tx_sent, HandInv, QueueInv, BurstInv, Judging, RequestTypeOK,
             TaskTypeOK, IsrTypeOK, HistoryTypeOK
    <2>4. BurstInv'
      BY <1>5 DEF tx_sent, BurstInv, HandInv, TaskTypeOK, BusTypeOK, KeyStates
    <2>5. CountInv'
      BY <1>5 DEF tx_sent, CountInv, HandInv, BurstInv, QueueInv, FateInv, Judging, Done,
             RequestTypeOK, TaskTypeOK, HistoryTypeOK
    <2> QED BY <2>1, <2>2, <2>3, <2>4, <2>5 DEF SafeInv
  <1>6. CASE tx_not_sent
    <2>1. QueueInv' /\ FateInv' /\ CountInv'
      BY <1>6 DEF tx_not_sent, QueueInv, FateInv, CountInv, Judging, Done
    <2>2. HandInv'
      BY <1>6 DEF tx_not_sent, HandInv, QueueInv, BurstInv, Judging, RequestTypeOK,
             TaskTypeOK, IsrTypeOK, HistoryTypeOK
    <2>3. BurstInv'
      BY <1>6 DEF tx_not_sent, BurstInv, HandInv, TaskTypeOK, BusTypeOK, KeyStates
    <2> QED BY <2>1, <2>2, <2>3 DEF SafeInv
  <1>7. ASSUME NEW b \in Bytes, HearByte(b) PROVE SafeInv'
    <2>1. QueueInv' /\ FateInv' /\ BurstInv' /\ CountInv'
      BY <1>7 DEF HearByte, QueueInv, FateInv, BurstInv, CountInv, Judging, Done
    <2>2. HandInv'
      BY <1>7 DEF HearByte, HandInv, QueueInv, BurstInv, Judging, RequestTypeOK,
             TaskTypeOK, IsrTypeOK, HistoryTypeOK
    <2> QED BY <2>1, <2>2 DEF SafeInv
  <1>8. CASE LoseAck
    <2>1. QueueInv' /\ FateInv' /\ HandInv' /\ BurstInv' /\ CountInv'
      BY <1>8 DEF LoseAck, QueueInv, FateInv, HandInv, BurstInv, CountInv, Judging,
             Judging, Done
    <2> QED BY <2>1 DEF SafeInv
  <1>9. CASE SessionGate
    <2>1. QueueInv' /\ FateInv' /\ HandInv' /\ BurstInv' /\ CountInv'
      BY <1>9 DEF SessionGate, QueueInv, FateInv, HandInv, BurstInv, CountInv, Judging,
             Judging, Done
    <2> QED BY <2>1 DEF SafeInv
  <1>10. CASE Tick
    <2>1. QueueInv' /\ FateInv' /\ HandInv' /\ CountInv'
      BY <1>10 DEF Tick, QueueInv, FateInv, HandInv, CountInv, Judging, Judging, Done
    <2>2. BurstInv'
      <3>1. burst # NoPress => burst_t' = burst_t + 1
        BY <1>10 DEF Tick
      <3>2. key_t' <= key_t + 1
        BY <1>10, CapFacts DEF Tick, Older, TaskTypeOK
      <3>3. key_t \in Nat /\ key_t' \in Nat /\ burst_t \in Nat
        BY <1>10, CapFacts DEF Tick, Older, TaskTypeOK, BusTypeOK
      <3> QED BY <1>10, <3>1, <3>2, <3>3 DEF Tick, BurstInv
    <2> QED BY <2>1, <2>2 DEF SafeInv
  <1>11. CASE UNCHANGED vars
    <2>1. QueueInv' /\ FateInv' /\ HandInv' /\ BurstInv' /\ CountInv'
      BY <1>11 DEF QueueInv, FateInv, HandInv, BurstInv, CountInv, Judging, Judging, Done
    <2> QED BY <2>1 DEF SafeInv
  <1> QED BY <1>1, <1>2, <1>3, <1>4, <1>5, <1>6, <1>7, <1>8, <1>9, <1>10, <1>11 DEF Next
LEMMA TakenStep == TypeOK /\ SafeInv /\ TakenInv /\ [Next]_vars => TakenInv'
  <1> SUFFICES ASSUME TypeOK, SafeInv, TakenInv, [Next]_vars PROVE TakenInv'
    OBVIOUS
  <1> USE NoPressAssumption, SizeAssumption, TimingAssumption
      DEF TypeOK, SafeInv, vars, taskVars, isrVars, busVars, history
  <1>1. ASSUME NEW p \in Presses, NEW k \in Kinds, press_key(p, k) PROVE TakenInv'
    BY <1>1 DEF press_key, TakenInv, AcceptedWasTaken, Judging, Done
  <1>2. ASSUME NEW a \in BOOLEAN, set_armed(a) PROVE TakenInv'
    BY <1>2 DEF set_armed, TakenInv, AcceptedWasTaken, Judging, Done
  <1>3. CASE key_tick
    <2>0. lag' = 0 /\ UNCHANGED <<kind, age, armed, busVars>>
      BY <1>3 DEF key_tick
    <2>1. CASE IgnoreUnarmed
      BY <2>0, <2>1 DEF IgnoreUnarmed, TakenInv, AcceptedWasTaken, Judging, Done
    <2>2. CASE ExpireQueued
      BY <2>0, <2>2 DEF ExpireQueued, publish_fate, TakenInv, AcceptedWasTaken, HandInv,
             BurstInv, CountInv, QueueInv, FateInv, Judging, Done, RequestTypeOK,
             TaskTypeOK, IsrTypeOK, BusTypeOK, HistoryTypeOK
    <2>3. CASE ArmKey
      <3>1. /\ pending_key' = Head(queue) /\ key_st' = "ARMED" /\ ~tx_fired'
            /\ pending_frames' = Repeat /\ took' = took /\ sent' = sent /\ fate' = fate
        BY <2>3 DEF ArmKey, arm_isr_tx
      <3>2. took[Head(queue)] = 0
        BY <2>3, TailQueue DEF ArmKey, FateInv, HistoryTypeOK
      <3> QED BY <3>1, <3>2 DEF TakenInv, AcceptedWasTaken, Judging, Done
    <2>4. CASE key_fired
      BY <2>0, <2>4 DEF key_fired, TakenInv, AcceptedWasTaken, HandInv, BurstInv,
             CountInv, QueueInv, FateInv, Judging, Done, RequestTypeOK, TaskTypeOK,
             IsrTypeOK, BusTypeOK, HistoryTypeOK
    <2>5. CASE Withdraw
      BY <2>0, <2>5 DEF Withdraw, TakenInv, AcceptedWasTaken, HandInv, BurstInv, CountInv,
             QueueInv, FateInv, Judging, Done, RequestTypeOK, TaskTypeOK, IsrTypeOK,
             BusTypeOK, HistoryTypeOK
    <2>6. CASE ExpireArmed
      BY <2>0, <2>6 DEF ExpireArmed, publish_fate, TakenInv, AcceptedWasTaken, HandInv,
             BurstInv, CountInv, QueueInv, FateInv, Judging, Done, RequestTypeOK,
             TaskTypeOK, IsrTypeOK, BusTypeOK, HistoryTypeOK
    <2>7. CASE Reject
      BY <2>0, <2>7 DEF Reject, VerdictDue, publish_fate, TakenInv, AcceptedWasTaken,
             HandInv, BurstInv, CountInv, QueueInv, FateInv, Judging, Done, RequestTypeOK,
             TaskTypeOK, IsrTypeOK, BusTypeOK, HistoryTypeOK
    <2>8. CASE HoldOn
      BY <2>0, <2>8 DEF HoldOn, VerdictDue, TakenInv, AcceptedWasTaken, HandInv, BurstInv,
             CountInv, QueueInv, FateInv, Judging, Done, RequestTypeOK, TaskTypeOK,
             IsrTypeOK, BusTypeOK, HistoryTypeOK
    <2>9. CASE Accept
      BY <2>0, <2>9 DEF Accept, VerdictDue, publish_fate, TakenInv, AcceptedWasTaken,
             HandInv, BurstInv, CountInv, QueueInv, FateInv, Judging, Done, RequestTypeOK,
             TaskTypeOK, IsrTypeOK, BusTypeOK, HistoryTypeOK
    <2>10. CASE ArmRepeat
      BY <2>0, <2>10 DEF ArmRepeat, arm_isr_tx, TakenInv, AcceptedWasTaken, HandInv,
             BurstInv, CountInv, QueueInv, FateInv, Judging, Done, RequestTypeOK,
             TaskTypeOK, IsrTypeOK, BusTypeOK, HistoryTypeOK
    <2>11. CASE Wait
      BY <2>0, <2>11 DEF Wait, TakenInv, AcceptedWasTaken, Judging, Done
    <2> QED
      BY <1>3, <2>1, <2>2, <2>3, <2>4, <2>5, <2>6, <2>7, <2>8, <2>9, <2>10, <2>11 DEF
             key_tick
  <1>4. CASE PollSlot
    BY <1>4 DEF PollSlot, TakenInv, AcceptedWasTaken, Judging, Done
  <1>5. CASE tx_sent
    BY <1>5 DEF tx_sent, TakenInv, AcceptedWasTaken, HandInv, BurstInv, CountInv,
           QueueInv, FateInv, Judging, Done, RequestTypeOK, TaskTypeOK, IsrTypeOK,
           BusTypeOK, HistoryTypeOK
  <1>6. CASE tx_not_sent
    BY <1>6 DEF tx_not_sent, TakenInv, AcceptedWasTaken, Judging, Done
  <1>7. ASSUME NEW b \in Bytes, HearByte(b) PROVE TakenInv'
    <2>1. UNCHANGED <<key_st, pending_key, pending_frames, tx_fired, fate, sent, took>>
      BY <1>7 DEF HearByte
    <2>2. ~key_await' /\ wire' = "quiet"
      BY <1>7 DEF HearByte
    <2>3. ASSUME MemberGap >= AckWindow, key_ack' = 1
          PROVE  key_ack = 1 \/ (key_await /\ wire = "ackDue")
      <3>1. CASE ~key_await
        BY <1>7, <2>3, <3>1 DEF HearByte
      <3>2. CASE key_await
        <4>1. b # "other" /\ wire_t < AckWindow
          BY <1>7, <2>3, <3>2 DEF HearByte
        <4>2. b # "toController"
          BY <1>7, <2>3, <4>1 DEF HearByte, BusTypeOK
        <4> QED BY <1>7, <3>2, <4>1, <4>2 DEF HearByte, Bytes
      <3> QED BY <3>1, <3>2
    <2> QED BY <2>1, <2>2, <2>3 DEF TakenInv, AcceptedWasTaken, Judging, Done
  <1>8. CASE LoseAck
    BY <1>8 DEF LoseAck, TakenInv, AcceptedWasTaken, HandInv, BurstInv, CountInv,
           QueueInv, FateInv, Judging, Done, RequestTypeOK, TaskTypeOK, IsrTypeOK,
           BusTypeOK, HistoryTypeOK
  <1>9. CASE SessionGate
    BY <1>9 DEF SessionGate, TakenInv, AcceptedWasTaken, Judging, Done
  <1>10. CASE Tick
    BY <1>10 DEF Tick, TakenInv, AcceptedWasTaken, Judging, Done
  <1>11. CASE UNCHANGED vars
    BY <1>11 DEF TakenInv, AcceptedWasTaken, Judging, Done
  <1> QED BY <1>1, <1>2, <1>3, <1>4, <1>5, <1>6, <1>7, <1>8, <1>9, <1>10, <1>11 DEF Next

LEMMA RejectStep == TypeOK /\ SafeInv /\ RejectInv /\ [Next]_vars => RejectInv'
  <1> SUFFICES ASSUME TypeOK, SafeInv, RejectInv, [Next]_vars PROVE RejectInv'
    OBVIOUS
  <1> USE NoPressAssumption, SizeAssumption, TimingAssumption
      DEF TypeOK, SafeInv, vars, taskVars, isrVars, busVars, history
  <1>1. ASSUME NEW p \in Presses, NEW k \in Kinds, press_key(p, k) PROVE RejectInv'
    BY <1>1 DEF press_key, RejectInv, RejectedNotTaken, Judging
  <1>2. ASSUME NEW a \in BOOLEAN, set_armed(a) PROVE RejectInv'
    BY <1>2 DEF set_armed, RejectInv, RejectedNotTaken, Judging
  <1>3. CASE key_tick
    <2>0. lag' = 0 /\ UNCHANGED <<kind, age, armed, busVars>>
      BY <1>3 DEF key_tick
    <2>1. CASE IgnoreUnarmed
      BY <2>0, <2>1 DEF IgnoreUnarmed, RejectInv, RejectedNotTaken, Judging
    <2>2. CASE ExpireQueued
      BY <2>0, <2>2 DEF ExpireQueued, publish_fate, RejectInv, RejectedNotTaken, HandInv,
             BurstInv, CountInv, QueueInv, FateInv, Judging, Done, RequestTypeOK,
             TaskTypeOK, IsrTypeOK, BusTypeOK, HistoryTypeOK
    <2>3. CASE ArmKey
      BY <2>0, <2>3 DEF ArmKey, arm_isr_tx, RejectInv, RejectedNotTaken, HandInv,
             BurstInv, CountInv, QueueInv, FateInv, Judging, Done, RequestTypeOK,
             TaskTypeOK, IsrTypeOK, BusTypeOK, HistoryTypeOK
    <2>4. CASE key_fired
      BY <2>0, <2>4 DEF key_fired, RejectInv, RejectedNotTaken, HandInv, BurstInv,
             CountInv, QueueInv, FateInv, Judging, Done, RequestTypeOK, TaskTypeOK,
             IsrTypeOK, BusTypeOK, HistoryTypeOK
    <2>5. CASE Withdraw
      BY <2>0, <2>5 DEF Withdraw, RejectInv, RejectedNotTaken, HandInv, BurstInv,
             CountInv, QueueInv, FateInv, Judging, Done, RequestTypeOK, TaskTypeOK,
             IsrTypeOK, BusTypeOK, HistoryTypeOK
    <2>6. CASE ExpireArmed
      BY <2>0, <2>6 DEF ExpireArmed, publish_fate, RejectInv, RejectedNotTaken, HandInv,
             BurstInv, CountInv, QueueInv, FateInv, Judging, Done, RequestTypeOK,
             TaskTypeOK, IsrTypeOK, BusTypeOK, HistoryTypeOK
    <2>7. CASE Reject
      BY <2>0, <2>7 DEF Reject, VerdictDue, publish_fate, RejectInv, RejectedNotTaken,
             HandInv, BurstInv, CountInv, QueueInv, FateInv, Judging, Done, RequestTypeOK,
             TaskTypeOK, IsrTypeOK, BusTypeOK, HistoryTypeOK
    <2>8. CASE HoldOn
      BY <2>0, <2>8 DEF HoldOn, VerdictDue, RejectInv, RejectedNotTaken, HandInv,
             BurstInv, CountInv, QueueInv, FateInv, Judging, Done, RequestTypeOK,
             TaskTypeOK, IsrTypeOK, BusTypeOK, HistoryTypeOK
    <2>9. CASE Accept
      BY <2>0, <2>9 DEF Accept, VerdictDue, publish_fate, RejectInv, RejectedNotTaken,
             HandInv, BurstInv, CountInv, QueueInv, FateInv, Judging, Done, RequestTypeOK,
             TaskTypeOK, IsrTypeOK, BusTypeOK, HistoryTypeOK
    <2>10. CASE ArmRepeat
      BY <2>0, <2>10 DEF ArmRepeat, arm_isr_tx, RejectInv, RejectedNotTaken, HandInv,
             BurstInv, CountInv, QueueInv, FateInv, Judging, Done, RequestTypeOK,
             TaskTypeOK, IsrTypeOK, BusTypeOK, HistoryTypeOK
    <2>11. CASE Wait
      BY <2>0, <2>11 DEF Wait, RejectInv, RejectedNotTaken, Judging
    <2> QED
      BY <1>3, <2>1, <2>2, <2>3, <2>4, <2>5, <2>6, <2>7, <2>8, <2>9, <2>10, <2>11 DEF
             key_tick
  <1>4. CASE PollSlot
    BY <1>4 DEF PollSlot, RejectInv, RejectedNotTaken, Judging
  <1>5. CASE tx_sent
    BY <1>5 DEF tx_sent, RejectInv, RejectedNotTaken, HandInv, BurstInv, CountInv,
           QueueInv, FateInv, Judging, Done, RequestTypeOK, TaskTypeOK, IsrTypeOK,
           BusTypeOK, HistoryTypeOK
  <1>6. CASE tx_not_sent
    BY <1>6 DEF tx_not_sent, RejectInv, RejectedNotTaken, Judging
  <1>7. ASSUME NEW b \in Bytes, HearByte(b) PROVE RejectInv'
    BY <1>7 DEF HearByte, RejectInv, RejectedNotTaken, HandInv, BurstInv, CountInv,
           QueueInv, FateInv, Judging, Done, RequestTypeOK, TaskTypeOK, IsrTypeOK,
           BusTypeOK, HistoryTypeOK
  <1>8. CASE LoseAck
    BY <1>8 DEF LoseAck, RejectInv, RejectedNotTaken, HandInv, BurstInv, CountInv,
           QueueInv, FateInv, Judging, Done, RequestTypeOK, TaskTypeOK, IsrTypeOK,
           BusTypeOK, HistoryTypeOK
  <1>9. CASE SessionGate
    BY <1>9 DEF SessionGate, RejectInv, RejectedNotTaken, Judging
  <1>10. CASE Tick
    <2>1. UNCHANGED <<key_st, pending_key, tx_fired, key_ack, key_await, wire, fate, sent, took>>
      BY <1>10 DEF Tick
    <2>2. wire = "ackDue" => wire_t' = wire_t + 1 /\ wire_t' < AckWindow
      BY <1>10 DEF Tick, Older, BusTypeOK
    <2>3. key_t' <= key_t + 1 /\ key_t \in Nat /\ key_t' \in Nat /\ wire_t \in Nat
      BY <1>10, CapFacts DEF Tick, Older, TaskTypeOK, BusTypeOK
    <2> QED BY <2>1, <2>2, <2>3 DEF RejectInv, RejectedNotTaken, Judging
  <1>11. CASE UNCHANGED vars
    BY <1>11 DEF RejectInv, RejectedNotTaken, Judging
  <1> QED BY <1>1, <1>2, <1>3, <1>4, <1>5, <1>6, <1>7, <1>8, <1>9, <1>10, <1>11 DEF Next

LEMMA ExpireStep == TypeOK /\ SafeInv /\ ExpireInv /\ [Next]_vars => ExpireInv'
  <1> SUFFICES ASSUME TypeOK, SafeInv, ExpireInv, [Next]_vars PROVE ExpireInv'
    OBVIOUS
  <1> USE NoPressAssumption, SizeAssumption, TimingAssumption
      DEF TypeOK, SafeInv, vars, taskVars, isrVars, busVars, history
  <1>1. ASSUME NEW p \in Presses, NEW k \in Kinds, press_key(p, k) PROVE ExpireInv'
    BY <1>1 DEF press_key, ExpireInv, ExpiredNeverSent
  <1>2. ASSUME NEW a \in BOOLEAN, set_armed(a) PROVE ExpireInv'
    BY <1>2 DEF set_armed, ExpireInv, ExpiredNeverSent
  <1>3. CASE key_tick
    <2>0. lag' = 0 /\ UNCHANGED <<kind, age, armed, busVars>>
      BY <1>3 DEF key_tick
    <2>1. CASE IgnoreUnarmed
      BY <2>0, <2>1 DEF IgnoreUnarmed, ExpireInv, ExpiredNeverSent
    <2>2. CASE ExpireQueued
      BY <2>0, <2>2 DEF ExpireQueued, publish_fate, ExpireInv, ExpiredNeverSent, HandInv,
             BurstInv, CountInv, QueueInv, FateInv, Judging, Done, RequestTypeOK,
             TaskTypeOK, IsrTypeOK, BusTypeOK, HistoryTypeOK
    <2>3. CASE ArmKey
      BY <2>0, <2>3 DEF ArmKey, ExpireInv, ExpiredNeverSent
    <2>4. CASE key_fired
      BY <2>0, <2>4 DEF key_fired, ExpireInv, ExpiredNeverSent
    <2>5. CASE Withdraw
      BY <2>0, <2>5 DEF Withdraw, ExpireInv, ExpiredNeverSent
    <2>6. CASE ExpireArmed
      BY <2>0, <2>6 DEF ExpireArmed, publish_fate, ExpireInv, ExpiredNeverSent, HandInv,
             BurstInv, CountInv, QueueInv, FateInv, Judging, Done, RequestTypeOK,
             TaskTypeOK, IsrTypeOK, BusTypeOK, HistoryTypeOK
    <2>7. CASE Reject
      BY <2>0, <2>7 DEF Reject, VerdictDue, publish_fate, ExpireInv, ExpiredNeverSent,
             HandInv, BurstInv, CountInv, QueueInv, FateInv, Judging, Done, RequestTypeOK,
             TaskTypeOK, IsrTypeOK, BusTypeOK, HistoryTypeOK
    <2>8. CASE HoldOn
      BY <2>0, <2>8 DEF HoldOn, ExpireInv, ExpiredNeverSent
    <2>9. CASE Accept
      BY <2>0, <2>9 DEF Accept, VerdictDue, publish_fate, ExpireInv, ExpiredNeverSent,
             HandInv, BurstInv, CountInv, QueueInv, FateInv, Judging, Done, RequestTypeOK,
             TaskTypeOK, IsrTypeOK, BusTypeOK, HistoryTypeOK
    <2>10. CASE ArmRepeat
      BY <2>0, <2>10 DEF ArmRepeat, ExpireInv, ExpiredNeverSent
    <2>11. CASE Wait
      BY <2>0, <2>11 DEF Wait, ExpireInv, ExpiredNeverSent
    <2> QED
      BY <1>3, <2>1, <2>2, <2>3, <2>4, <2>5, <2>6, <2>7, <2>8, <2>9, <2>10, <2>11 DEF
             key_tick
  <1>4. CASE PollSlot
    BY <1>4 DEF PollSlot, ExpireInv, ExpiredNeverSent
  <1>5. CASE tx_sent
    BY <1>5 DEF tx_sent, ExpireInv, ExpiredNeverSent, HandInv, BurstInv, CountInv,
           QueueInv, FateInv, Judging, Done, RequestTypeOK, TaskTypeOK, IsrTypeOK,
           BusTypeOK, HistoryTypeOK
  <1>6. CASE tx_not_sent
    BY <1>6 DEF tx_not_sent, ExpireInv, ExpiredNeverSent
  <1>7. ASSUME NEW b \in Bytes, HearByte(b) PROVE ExpireInv'
    BY <1>7 DEF HearByte, ExpireInv, ExpiredNeverSent
  <1>8. CASE LoseAck
    BY <1>8 DEF LoseAck, ExpireInv, ExpiredNeverSent
  <1>9. CASE SessionGate
    BY <1>9 DEF SessionGate, ExpireInv, ExpiredNeverSent
  <1>10. CASE Tick
    BY <1>10 DEF Tick, ExpireInv, ExpiredNeverSent
  <1>11. CASE UNCHANGED vars
    BY <1>11 DEF ExpireInv, ExpiredNeverSent
  <1> QED BY <1>1, <1>2, <1>3, <1>4, <1>5, <1>6, <1>7, <1>8, <1>9, <1>10, <1>11 DEF Next


-----------------------------------------------------------------------------
LEMMA Invariance == Spec => []IInv
  <1>1. Init => IInv
    <2> SUFFICES ASSUME Init PROVE IInv
      OBVIOUS
    <2>1. TypeOK /\ SafeInv
      BY TypeInit, SafeInit
    <2>2. TakenInv /\ RejectInv /\ ExpireInv
      BY DEF Init, TakenInv, RejectInv, ExpireInv, Judging,
             AcceptedWasTaken, RejectedNotTaken, ExpiredNeverSent
    <2> QED BY <2>1, <2>2 DEF IInv
  <1>2. IInv /\ [Next]_vars => IInv'
    BY TypeStep, SafeStep, TakenStep, RejectStep, ExpireStep DEF IInv
  <1> QED BY <1>1, <1>2, PTL DEF Spec

\* Every reachable state of the pump is well-typed: in particular no deadline,
\* counter or clock leaves its range.
THEOREM TypeCorrect == Spec => []TypeOK
  BY Invariance, PTL DEF IInv

\* A press gets at most one verdict, and none while it is queued or in hand.
THEOREM VerdictsAreSingle == Spec => []SingleVerdict
  <1>1. IInv => SingleVerdict
    <2> SUFFICES ASSUME IInv, NEW p \in Presses
                 PROVE  fates[p] <= 1 /\ (fates[p] = 1 => ~Queued(p) /\ ~Pending(p))
      BY DEF SingleVerdict
    <2>1. fates[p] <= 1
      BY DEF IInv, SafeInv, FateInv
    <2>2. ASSUME Queued(p) PROVE fates[p] = 0
      <3>1. queue \in Seq(Presses)
        BY DEF IInv, TypeOK, RequestTypeOK
      <3>2. PICK i \in 1 .. Len(queue) : queue[i] = p
        BY <2>2, <3>1 DEF Queued
      <3> QED BY <3>2 DEF IInv, SafeInv, QueueInv
    <2>3. ASSUME Pending(p) PROVE fates[p] = 0
      BY <2>3 DEF Pending, IInv, SafeInv, HandInv
    <2> QED BY <2>1, <2>2, <2>3
  <1> QED BY Invariance, <1>1, PTL

\* An accepted press was taken by the controller, report for report, provided no
\* other terminal addresses the controller within the acknowledgement window.
THEOREM AcceptanceIsTrue == MemberGap >= AckWindow => (Spec => []AcceptedWasTaken)
  <1> SUFFICES ASSUME MemberGap >= AckWindow PROVE Spec => []AcceptedWasTaken
    OBVIOUS
  <1>1. IInv => AcceptedWasTaken
    BY DEF IInv, TakenInv
  <1> QED BY Invariance, <1>1, PTL

\* A rejected press was transmitted and not taken, provided no acknowledgement is
\* lost on the wire.
THEOREM RejectionIsTrue == ~AckLoss => (Spec => []RejectedNotTaken)
  <1> SUFFICES ASSUME ~AckLoss PROVE Spec => []RejectedNotTaken
    OBVIOUS
  <1>1. IInv => RejectedNotTaken
    BY DEF IInv, RejectInv
  <1> QED BY Invariance, <1>1, PTL

\* With one report per press an expired press was never transmitted, although
\* the interrupt may be sending while the task withdraws.
THEOREM ExpiryIsTrue == Repeat = 1 => (Spec => []ExpiredNeverSent)
  <1> SUFFICES ASSUME Repeat = 1 PROVE Spec => []ExpiredNeverSent
    OBVIOUS
  <1>1. IInv => ExpiredNeverSent
    BY DEF IInv, ExpireInv
  <1> QED BY Invariance, <1>1, PTL

\* A report goes out only for a press without a verdict, and never more often
\* than configured.
THEOREM NothingSentAgain == Spec => NeverSentAgain
  <1> DEFINE Fresh == \A p \in Presses :
               sent'[p] # sent[p] => fates[p] = 0 /\ fates'[p] = 0 /\ sent[p] < Repeat
  <1>1. IInv /\ [Next]_vars => [Fresh]_vars
    <2> SUFFICES ASSUME IInv, Next, NEW p \in Presses, sent'[p] # sent[p]
                 PROVE  fates[p] = 0 /\ fates'[p] = 0 /\ sent[p] < Repeat
      BY DEF IInv
    <2>1. tx_sent
      <3>1. CASE key_tick
        BY <3>1 DEF key_tick, IgnoreUnarmed, ExpireQueued, ArmKey, key_fired, Withdraw,
               ExpireArmed,
                    Reject, HoldOn, Accept, ArmRepeat, Wait, publish_fate, history
      <3> QED
        BY <3>1 DEF Next, press_key, set_armed, PollSlot, tx_not_sent, HearByte, LoseAck,
                        SessionGate, Tick, history
    <2>2. p = burst /\ burst # NoPress
      BY <2>1 DEF tx_sent, IInv, TypeOK, HistoryTypeOK
    <2>3. fates[p] = 0 /\ fates' = fates /\ sent[p] = Done /\ pending_frames >= 1
      BY <2>1, <2>2 DEF tx_sent, IInv, SafeInv, BurstInv, HandInv, CountInv, Judging
    <2> QED BY <2>3, SizeAssumption DEF Done, IInv, TypeOK, TaskTypeOK
  <1> QED BY Invariance, <1>1, PTL DEF Spec, NeverSentAgain

-----------------------------------------------------------------------------
(* The pump implements KeyLifecycle, and starts no stale press; both from the *)
(* same invariant.                                                           *)

LEMMA Typed ==
  ASSUME IInv
  PROVE  /\ queue \in Seq(Presses) /\ Len(queue) \in Nat
         /\ \A i \in 1 .. Len(queue) : queue[i] \in Presses
         /\ DOMAIN queue = 1 .. Len(queue)
         /\ \A p \in Presses : sent[p] \in Nat /\ fates[p] \in Nat
         /\ pending_frames \in 0 .. Repeat /\ Repeat \in Nat \ {0}
  BY SizeAssumption DEF IInv, TypeOK, RequestTypeOK, TaskTypeOK, HistoryTypeOK

\* No press in line has a verdict, was sent before it came into hand, or is there twice.
LEMMA InLine ==
  ASSUME IInv, NEW p \in Presses
  PROVE  /\ Queued(p) => kind[p] # "none" /\ fate[p] = "NONE" /\ sent[p] = 0 /\ ~Pending(p)
         /\ Pending(p) => kind[p] # "none" /\ fate[p] = "NONE"
         /\ kind[p] = "none" => fate[p] = "NONE" /\ sent[p] = 0 /\ ~Queued(p) /\ ~Pending(p)
         /\ fate[p] # "NONE" => fates[p] # 0
  <1>1. Queued(p) => kind[p] # "none" /\ fates[p] = 0 /\ sent[p] = 0 /\ ~Pending(p)
    <2> SUFFICES ASSUME Queued(p)
                 PROVE  kind[p] # "none" /\ fates[p] = 0 /\ sent[p] = 0 /\ ~Pending(p)
      OBVIOUS
    <2>1. PICK i \in 1 .. Len(queue) : queue[i] = p
      BY Typed DEF Queued
    <2> QED BY <2>1 DEF IInv, SafeInv, QueueInv, Pending
  <1>2. Pending(p) => kind[p] # "none" /\ fates[p] = 0
    BY DEF Pending, IInv, SafeInv, HandInv
  <1>3. /\ kind[p] = "none" => fates[p] = 0 /\ sent[p] = 0
        /\ fates[p] = 0 => fate[p] = "NONE"
    BY DEF IInv, SafeInv, FateInv
  <1> QED BY <1>1, <1>2, <1>3

\* What Queued says of a queue that grew at its end or lost its head.
LEMMA QueuedGrown ==
  ASSUME IInv, NEW p \in Presses, queue' = Append(queue, p), NEW r \in Presses
  PROVE  Queued(r)' <=> Queued(r) \/ r = p
  <1>1. /\ queue' \in Seq(Presses) /\ Len(queue') = Len(queue) + 1 /\ queue'[Len(queue) + 1] = p
        /\ DOMAIN queue' = 1 .. Len(queue')
        /\ \A i \in 1 .. Len(queue) : queue'[i] = queue[i]
    BY Typed
  <1>2. Queued(r) \/ r = p => \E i \in 1 .. Len(queue') : queue'[i] = r
    <2>1. CASE Queued(r)
      <3>1. PICK i \in 1 .. Len(queue) : queue[i] = r
        BY <2>1, Typed DEF Queued
      <3> QED BY <1>1, <3>1, Typed
    <2>2. CASE r = p
      BY <1>1, <2>2, Typed
    <2> QED BY <2>1, <2>2
  <1>3. ASSUME NEW i \in 1 .. Len(queue'), queue'[i] = r PROVE Queued(r) \/ r = p
    <2>1. i \in 1 .. Len(queue) \/ i = Len(queue) + 1
      BY <1>1, Typed
    <2> QED BY <1>1, <1>3, <2>1, Typed DEF Queued
  <1> QED BY <1>1, <1>2, <1>3 DEF Queued

LEMMA QueuedShrunk ==
  ASSUME IInv, queue # <<>>, queue' = Tail(queue), NEW r \in Presses
  PROVE  /\ Queued(r)' <=> Queued(r) /\ r # Head(queue)
         /\ Head(queue) \in Presses /\ Queued(Head(queue))
  <1>1. /\ Head(queue) = queue[1] /\ 1 \in 1 .. Len(queue) /\ Head(queue) \in Presses
        /\ queue' \in Seq(Presses) /\ DOMAIN queue' = 1 .. Len(queue')
        /\ Len(queue') = Len(queue) - 1
        /\ \A i \in 1 .. Len(queue') : i + 1 \in 1 .. Len(queue) /\ queue'[i] = queue[i + 1]
    BY Typed, TailFacts
  <1>2. Queued(Head(queue))
    BY <1>1, Typed DEF Queued
  <1>3. ASSUME Queued(r)' PROVE Queued(r) /\ r # Head(queue)
    <2>1. PICK i \in 1 .. Len(queue') : queue'[i] = r
      BY <1>1, <1>3 DEF Queued
    <2>2. queue[i + 1] = r /\ i + 1 \in 1 .. Len(queue) /\ i + 1 # 1
      BY <1>1, <2>1
    <2> QED BY <1>1, <2>2, Typed DEF Queued, IInv, SafeInv, QueueInv
  <1>4. ASSUME Queued(r), r # Head(queue) PROVE Queued(r)'
    <2>1. PICK i \in 1 .. Len(queue) : queue[i] = r
      BY <1>4, Typed DEF Queued
    <2>2. i - 1 \in 1 .. Len(queue') /\ (i - 1) + 1 = i
      BY <1>1, <1>4, <2>1, Typed
    <2>3. queue'[i - 1] = r
      BY <1>1, <2>1, <2>2
    <2> QED BY <1>1, <2>2, <2>3 DEF Queued
  <1> QED BY <1>1, <1>2, <1>3, <1>4

-----------------------------------------------------------------------------
(* The refinement, step by step.  A press is transmitted by the end of its *)
(* burst and settled by the task.                                          *)

LEMMA Hand ==
  ASSUME IInv, key_st # "IDLE"
  PROVE  /\ pending_key \in Presses /\ Pending(pending_key)
         /\ line = <<pending_key>> \o queue /\ line # <<>>
         /\ Head(line) = pending_key /\ Tail(line) = queue
  <1>1. pending_key \in Presses
    BY DEF IInv, SafeInv, HandInv
  <1>2. line = <<pending_key>> \o queue
    BY DEF line
  <1>3. line \in Seq(Presses) /\ line # <<>> /\ Head(line) = pending_key /\ Tail(line) = queue
    BY <1>1, <1>2, Typed
  <1> QED BY <1>1, <1>2, <1>3 DEF Pending

\* What became of a press whose words stay.
LEMMA StatusKept ==
  ASSUME NEW p \in Presses, kind'[p] = kind[p], fate'[p] = fate[p], sent'[p] = sent[p],
         Queued(p)' \/ Pending(p)' <=> Queued(p) \/ Pending(p)
  PROVE  status'[p] = status[p]
  BY DEF status

LEMMA Stutters ==
  ASSUME IInv, UNCHANGED <<kind, fate, sent, queue, pending_key>>,
         key_st' = "IDLE" <=> key_st = "IDLE"
  PROVE  UNCHANGED Lifecycle!vars
  <1>1. line' = line
    BY DEF line
  <1>2. \A p \in Presses : Queued(p)' \/ Pending(p)' <=> Queued(p) \/ Pending(p)
    BY DEF Queued, Pending
  <1>3. status' = status
    BY <1>2 DEF status
  <1> QED BY <1>1, <1>3 DEF Lifecycle!vars

LEMMA RequestStep ==
  ASSUME IInv, NEW p \in Presses, NEW k \in Kinds, press_key(p, k)
  PROVE  Lifecycle!Next
  <1>1. /\ kind' = [kind EXCEPT ![p] = k] /\ queue' = Append(queue, p) /\ kind[p] = "none"
        /\ UNCHANGED <<key_st, pending_key, fate, sent>> /\ k # "none"
    BY DEF press_key, taskVars, history, Kinds
  <1>2. status[p] = "idle"
    BY <1>1, InLine DEF status
  <1>3. line' = Append(line, p)
    <2>1. CASE key_st = "IDLE"
      BY <1>1, <2>1 DEF line
    <2>2. CASE key_st # "IDLE"
      <3>1. <<pending_key>> \o Append(queue, p) = Append(<<pending_key>> \o queue, p)
        BY <2>2, Hand, Typed
      <3> QED BY <1>1, <2>2, <3>1 DEF line
    <2> QED BY <2>1, <2>2
  <1>4. \A r \in Presses : kind'[r] = IF r = p THEN k ELSE kind[r]
    BY <1>1 DEF IInv, TypeOK, RequestTypeOK
  <1>5. status' = [status EXCEPT ![p] = "waiting"]
    <2>1. ASSUME NEW r \in Presses, r # p PROVE status'[r] = status[r]
      BY <1>1, <1>4, <2>1, QueuedGrown, StatusKept DEF Pending
    <2>2. status'[p] = "waiting"
      <3>1. fate'[p] = "NONE" /\ sent'[p] = 0 /\ kind'[p] # "none"
        BY <1>1, <1>4, InLine
      <3>2. Queued(p)'
        BY <1>1, QueuedGrown
      <3> QED BY <3>1, <3>2 DEF status
    <2> QED BY <2>1, <2>2 DEF status
  <1>6. Lifecycle!Request(p)
    BY <1>2, <1>3, <1>5 DEF Lifecycle!Request
  <1> QED BY <1>6 DEF Lifecycle!Next

\* The head of the queue leaves it unsent, expired or ignored.
LEMMA QueueSettles ==
  ASSUME IInv, key_st = "IDLE", queue # <<>>, queue' = Tail(queue),
         NEW f \in {"NONE", "EXPIRED"},
         \A r \in Presses : fate'[r] = IF r = Head(queue) THEN f ELSE fate[r],
         UNCHANGED <<kind, key_st, pending_key, sent>>
  PROVE  Lifecycle!Next
  <1> DEFINE s == IF f = "NONE" THEN "ignored" ELSE f
  <1>0. PICK h \in Presses : h = Head(queue)
    BY Typed
  <1>1. h \in Presses /\ Queued(h) /\ ~Queued(h)' /\ ~Pending(h)' /\ line = queue /\ line' = Tail(line)
    <2>1. Queued(h) /\ ~Queued(h)'
      BY <1>0, QueuedShrunk
    <2>2. ~Pending(h)' /\ line = queue /\ line' = Tail(line)
      BY DEF line, Pending
    <2> QED BY <2>1, <2>2
  <1>2. status[h] = "waiting" /\ kind[h] # "none" /\ sent[h] = 0
    BY <1>1, InLine DEF status
  <1>3. status'[h] = s
    BY <1>0, <1>1, <1>2 DEF status
  <1>4. ASSUME NEW r \in Presses, r # h PROVE status'[r] = status[r]
    <2>1. Queued(r)' <=> Queued(r)
      BY <1>0, <1>4, QueuedShrunk
    <2> QED BY <1>0, <1>4, <2>1, StatusKept DEF Pending
  <1>5. status' = [status EXCEPT ![h] = s]
    BY ZenonT(60), <1>3, <1>4 DEF status
  <1>6. s \in {"EXPIRED", "ignored"}
    OBVIOUS
  <1> HIDE DEF s
  <1>7. Head(line) = h /\ line # <<>>
    BY <1>0, <1>1
  <1>8. Lifecycle!Settle
    BY <1>1, <1>2, <1>5, <1>6, <1>7 DEF Lifecycle!Settle
  <1> QED BY <1>8 DEF Lifecycle!Next

\* A press moves from the queue into the task's hand: it stays at the head of the line.
LEMMA ArmStep ==
  ASSUME IInv, ArmKey, UNCHANGED kind
  PROVE  UNCHANGED Lifecycle!vars
  <1>1. /\ key_st = "IDLE" /\ key_st' = "ARMED" /\ queue # <<>> /\ queue' = Tail(queue)
        /\ pending_key' = Head(queue) /\ UNCHANGED <<fate, sent>>
    BY DEF ArmKey, history
  <1>2. line' = line
    <2>1. <<Head(queue)>> \o Tail(queue) = queue
      BY <1>1, Typed
    <2> QED BY <1>1, <2>1 DEF line
  <1>3. ASSUME NEW p \in Presses PROVE status'[p] = status[p]
    <2>1. Queued(p)' \/ Pending(p)' <=> Queued(p) \/ Pending(p)
      BY <1>1, QueuedShrunk DEF Pending
    <2> QED BY <1>1, <2>1, StatusKept
  <1>4. status' = status
    BY <1>3 DEF status
  <1> QED BY <1>2, <1>4 DEF Lifecycle!vars

\* A verdict on the press in hand, which was sent.
LEMMA JudgeStep ==
  ASSUME IInv, Repeat = 1, UNCHANGED kind, Reject \/ Accept
  PROVE  Lifecycle!Next
  <1>1. /\ key_st = "VERDICT" /\ key_st' = "IDLE" /\ UNCHANGED <<queue, sent, pending_key>>
    BY DEF Reject, Accept, VerdictDue, publish_fate
  <1>2. PICK f \in {"ACCEPTED", "REJECTED"} :
          \A r \in Presses : fate'[r] = IF r = pending_key THEN f ELSE fate[r]
    BY DEF Reject, Accept, publish_fate
  <1>3. /\ pending_key \in Presses /\ Pending(pending_key) /\ line # <<>>
        /\ Head(line) = pending_key /\ line' = Tail(line)
    BY <1>1, Hand DEF line
  <1>4. sent[pending_key] > 0
    BY <1>1, Typed DEF IInv, SafeInv, CountInv, Judging, Done
  <1>5. status[pending_key] = "onWire"
    BY <1>3, <1>4, InLine DEF status
  <1>6. status'[pending_key] = f
    BY <1>2, <1>3 DEF status
  <1>7. ASSUME NEW r \in Presses, r # pending_key PROVE status'[r] = status[r]
    <2>1. Queued(r)' \/ Pending(r)' <=> Queued(r) \/ Pending(r)
      BY <1>1, <1>7 DEF Queued, Pending
    <2> QED BY <1>1, <1>2, <1>7, <2>1, StatusKept
  <1>8. status' = [status EXCEPT ![Head(line)] = f]
    BY <1>3, <1>6, <1>7 DEF status
  <1>9. Lifecycle!Settle
    BY <1>2, <1>3, <1>5, <1>8 DEF Lifecycle!Settle
  <1> QED BY <1>9 DEF Lifecycle!Next

\* The withdrawn press was never sent; it expires with all that is queued.
LEMMA ExpireAllStep ==
  ASSUME IInv, Repeat = 1, UNCHANGED kind, ExpireArmed
  PROVE  Lifecycle!Next
  <1> DEFINE gone == {pending_key} \cup {queue[i] : i \in DOMAIN queue}
  <1>1. /\ key_st = "DISARM" /\ ~tx_fired /\ key_st' = "IDLE" /\ queue' = <<>> /\ UNCHANGED sent
        /\ \A r \in Presses : fate'[r] = IF r \in gone THEN "EXPIRED" ELSE fate[r]
    BY DEF ExpireArmed, publish_fate
  <1>2. /\ pending_key \in Presses /\ Pending(pending_key) /\ line # <<>>
        /\ Head(line) = pending_key /\ line = <<pending_key>> \o queue
    BY <1>1, Hand
  <1>3. sent[pending_key] = 0
    BY <1>1, Typed DEF IInv, SafeInv, CountInv, HandInv, Judging, Done
  <1>4. status[pending_key] = "waiting"
    BY <1>2, <1>3, InLine DEF status
  <1>5. \A r \in Presses : r \in gone <=> Queued(r) \/ Pending(r)
    BY <1>1 DEF Queued, Pending
  <1> HIDE DEF gone
  <1>6. \A r \in Presses : ~Queued(r)' /\ ~Pending(r)'
    BY <1>1 DEF Queued, Pending
  <1>7. \A r \in Presses : (\E i \in DOMAIN line : line[i] = r) <=> Queued(r) \/ Pending(r)
    <2> SUFFICES ASSUME NEW r \in Presses
                 PROVE  (\E i \in DOMAIN line : line[i] = r) <=> Queued(r) \/ Pending(r)
      OBVIOUS
    <2>1. /\ DOMAIN line = 1 .. Len(queue) + 1 /\ line[1] = pending_key
          /\ \A i \in 1 .. Len(queue) : line[i + 1] = queue[i]
      BY <1>2, Typed
    <2>2. ASSUME NEW i \in DOMAIN line, line[i] = r PROVE Queued(r) \/ Pending(r)
      <3>1. CASE i = 1
        BY <1>2, <2>1, <2>2, <3>1
      <3>2. CASE i # 1
        <4>1. i - 1 \in 1 .. Len(queue) /\ (i - 1) + 1 = i
          BY <2>1, <3>2, Typed
        <4>2. queue[i - 1] = r
          BY <2>1, <2>2, <4>1
        <4> QED BY <4>1, <4>2, Typed DEF Queued
      <3> QED BY <3>1, <3>2
    <2>3. ASSUME Queued(r) PROVE \E i \in DOMAIN line : line[i] = r
      <3>1. PICK i \in 1 .. Len(queue) : queue[i] = r
        BY <2>3, Typed DEF Queued
      <3>2. i + 1 \in DOMAIN line /\ line[i + 1] = r
        BY <2>1, <3>1, Typed
      <3> QED BY <3>2
    <2>4. ASSUME Pending(r) PROVE \E i \in DOMAIN line : line[i] = r
      <3>1. 1 \in DOMAIN line /\ line[1] = r
        BY <2>1, <2>4, Typed DEF Pending
      <3> QED BY <3>1
    <2> QED BY <2>2, <2>3, <2>4
  <1>8. ASSUME NEW r \in Presses
        PROVE  status'[r] = IF Queued(r) \/ Pending(r) THEN "EXPIRED" ELSE status[r]
    <2>1. CASE Queued(r) \/ Pending(r)
      BY <1>1, <1>5, <2>1 DEF status
    <2>2. CASE ~(Queued(r) \/ Pending(r))
      BY <1>1, <1>5, <1>6, <2>2, StatusKept
    <2> QED BY <2>1, <2>2
  <1>9. status' = [r \in Presses |->
                     IF \E i \in DOMAIN line : line[i] = r THEN "EXPIRED" ELSE status[r]]
    BY <1>7, <1>8 DEF status
  <1>10. line' = <<>>
    BY <1>1 DEF line
  <1>11. Lifecycle!ExpireAll
    BY <1>2, <1>4, <1>9, <1>10 DEF Lifecycle!ExpireAll
  <1> QED BY <1>11 DEF Lifecycle!Next

\* The end of the burst: the press in hand, or the one just withdrawn, is on the wire.
LEMMA SentStep ==
  ASSUME IInv, Repeat = 1, tx_sent
  PROVE  Lifecycle!Next
  <1>1. /\ burst # NoPress /\ UNCHANGED <<kind, queue, key_st, pending_key, fate>>
        /\ sent' = [sent EXCEPT ![burst] = sent[burst] + 1]
    BY DEF tx_sent, taskVars
  <1>2. burst = pending_key /\ ~tx_fired /\ key_st \in {"ARMED", "DISARM"}
    BY <1>1 DEF IInv, SafeInv, BurstInv
  <1>3. /\ pending_key \in Presses /\ Pending(pending_key) /\ line # <<>> /\ Head(line) = pending_key
    BY <1>2, Hand
  <1>4. sent[pending_key] = 0
    BY <1>2, Typed DEF IInv, SafeInv, CountInv, HandInv, Judging, Done
  <1>5. status[pending_key] = "waiting"
    BY <1>3, <1>4, InLine DEF status
  <1>6. \A r \in Presses : sent'[r] = IF r = pending_key THEN 1 ELSE sent[r]
    BY <1>1, <1>2, <1>4 DEF IInv, TypeOK, HistoryTypeOK
  <1>7. status'[pending_key] = "onWire"
    BY <1>1, <1>3, <1>6, InLine DEF status
  <1>8. ASSUME NEW r \in Presses, r # pending_key PROVE status'[r] = status[r]
    BY <1>1, <1>6, <1>8, StatusKept DEF Queued, Pending
  <1>9. status' = [status EXCEPT ![Head(line)] = "onWire"]
    <2>1. \A r \in Presses : status'[r] = IF r = Head(line) THEN "onWire" ELSE status[r]
      BY <1>3, <1>7, <1>8
    <2>2. DOMAIN status = Presses /\ DOMAIN status' = Presses
      BY DEF status
    <2>3. status = [r \in Presses |-> status[r]] /\ status' = [r \in Presses |-> status'[r]]
      BY DEF status
    <2> QED BY <2>1, <2>2, <2>3
  <1>10. line' = line
    BY <1>1 DEF line
  <1>11. Lifecycle!Transmit
    BY <1>3, <1>5, <1>9, <1>10 DEF Lifecycle!Transmit
  <1> QED BY <1>11 DEF Lifecycle!Next

\* With one report per press the pump implements the life cycle it promises: presses are
\* served one at a time in the order they were asked for, each ends once, and only what
\* was transmitted is called accepted or rejected.  Bus, timing and losses are arbitrary.
THEOREM LifecycleKept == Repeat = 1 => (Spec => ImplementsLifecycle)
  <1> SUFFICES ASSUME Repeat = 1 PROVE Spec => ImplementsLifecycle
    OBVIOUS
  <1>1. Init => Lifecycle!Init
    <2> SUFFICES ASSUME Init PROVE line = <<>> /\ status = [p \in Presses |-> "idle"]
      BY DEF Lifecycle!Init
    <2>1. \A p \in Presses : fate[p] = "NONE" /\ kind[p] = "none"
      BY DEF Init
    <2> QED BY <2>1 DEF Init, line, status
  <1>2. IInv /\ [Next]_vars => [Lifecycle!Next]_(Lifecycle!vars)
    <2> SUFFICES ASSUME IInv, [Next]_vars PROVE [Lifecycle!Next]_(Lifecycle!vars)
      OBVIOUS
    <2>1. ASSUME NEW p \in Presses, NEW k \in Kinds, press_key(p, k) PROVE Lifecycle!Next
      BY <2>1, RequestStep
    <2>2. CASE key_tick
      <3>0. UNCHANGED kind
        BY <2>2 DEF key_tick
      <3>1. CASE IgnoreUnarmed
        <4>1. \A r \in Presses : fate'[r] = IF r = Head(queue) THEN "NONE" ELSE fate[r]
          BY <3>1, QueuedShrunk, InLine DEF IgnoreUnarmed, history
        <4> QED BY <3>0, <3>1, <4>1, QueueSettles DEF IgnoreUnarmed, taskVars, history
      <3>2. CASE ExpireQueued
        <4>1. \A r \in Presses : fate'[r] = IF r = Head(queue) THEN "EXPIRED" ELSE fate[r]
          BY <3>2 DEF ExpireQueued, publish_fate
        <4> QED BY <3>0, <3>2, <4>1, QueueSettles DEF ExpireQueued, publish_fate, taskVars
      <3>3. CASE ArmKey
        BY <3>0, <3>3, ArmStep
      <3>4. CASE Reject \/ Accept
        BY <3>0, <3>4, JudgeStep
      <3>5. CASE ExpireArmed
        BY <3>0, <3>5, ExpireAllStep
      <3>6. CASE key_fired \/ Withdraw \/ HoldOn \/ ArmRepeat \/ Wait
        <4>1. /\ UNCHANGED <<fate, sent, queue, pending_key>>
              /\ key_st' = "IDLE" <=> key_st = "IDLE"
          BY <3>6 DEF key_fired, Withdraw, HoldOn, VerdictDue, ArmRepeat, Wait, taskVars, history
        <4> QED BY <3>0, <4>1, Stutters
      <3> QED BY <2>2, <3>1, <3>2, <3>3, <3>4, <3>5, <3>6 DEF key_tick
    <2>3. CASE tx_sent
      BY <2>3, SentStep
    <2>4. ASSUME NEW a \in BOOLEAN, set_armed(a) PROVE UNCHANGED Lifecycle!vars
      BY <2>4, Stutters DEF set_armed, taskVars, history
    <2>5. ASSUME NEW b \in Bytes, HearByte(b) PROVE UNCHANGED Lifecycle!vars
      BY <2>5, Stutters DEF HearByte, taskVars, history
    <2>6. CASE PollSlot \/ tx_not_sent \/ LoseAck \/ SessionGate \/ Tick \/ UNCHANGED vars
      BY <2>6, Stutters DEF PollSlot, tx_not_sent, LoseAck, SessionGate, Tick, vars, taskVars, history
    <2> QED BY <2>1, <2>2, <2>3, <2>4, <2>5, <2>6 DEF Next
  <1> QED BY <1>1, <1>2, Invariance, PTL DEF Spec, ImplementsLifecycle, Lifecycle!Spec

-----------------------------------------------------------------------------
(* Freshness *)

\* The time a press has left and its age add up to its time to live at most; once nothing
\* is left, the task has had no pass since.  A repeated report was sent before.
FreshInv ==
  /\ key_st = "REPEAT" => sent[pending_key] > 0
  /\ key_st = "ARMED" /\ ~tx_fired /\ sent[pending_key] = 0 =>
       IF left > 0 THEN age[pending_key] + left <= Ttl ELSE age[pending_key] <= Ttl + lag

LEMMA FreshStep == IInv /\ IInv' /\ FreshInv /\ [Next]_vars => FreshInv'
  <1> SUFFICES ASSUME IInv, IInv', FreshInv, [Next]_vars PROVE FreshInv'
    OBVIOUS
  <1>0. /\ Ttl \in Nat /\ left \in Nat /\ lag \in Nat
        /\ \A p \in Presses : age[p] \in Nat /\ sent[p] \in Nat
        /\ key_st # "IDLE" => pending_key \in Presses
    BY TimingAssumption DEF IInv, TypeOK, RequestTypeOK, TaskTypeOK, HistoryTypeOK, SafeInv, HandInv
  <1>1. ASSUME NEW p \in Presses, NEW k \in Kinds, press_key(p, k) PROVE FreshInv'
    <2>1. UNCHANGED <<key_st, pending_key, tx_fired, sent, left, lag>> /\ age' = [age EXCEPT ![p] = 0]
      BY <1>1 DEF press_key, taskVars, isrVars, history
    <2>2. key_st # "IDLE" => age'[pending_key] <= age[pending_key]
      BY <1>0, <2>1 DEF IInv, TypeOK, RequestTypeOK
    <2>3. key_st # "IDLE" => age'[pending_key] \in Nat
      BY <1>0, <2>1 DEF IInv, TypeOK, RequestTypeOK
    <2> QED BY <1>0, <2>1, <2>2, <2>3 DEF FreshInv
  <1>2. CASE key_tick
    <2>0. lag' = 0 /\ age' = age
      BY <1>2 DEF key_tick
    <2>1. CASE ArmKey
      <3>1. /\ age'[pending_key'] < Ttl /\ left' = Ttl - age'[pending_key']
            /\ key_st' = "ARMED" /\ pending_key' \in Presses
        BY <2>0, <2>1, Typed DEF ArmKey
      <3> QED BY <1>0, <2>0, <3>1 DEF FreshInv
    <2>2. CASE HoldOn
      <3>1. /\ key_st = "VERDICT" /\ key_st' = "REPEAT" /\ UNCHANGED <<pending_key, sent>>
        BY <2>2 DEF HoldOn, VerdictDue, history
      <3>2. sent[pending_key] > 0
        BY <3>1, Typed DEF IInv, SafeInv, CountInv, Judging, Done
      <3> QED BY <3>1, <3>2 DEF FreshInv
    <2>3. CASE ArmRepeat
      <3>1. key_st' = "ARMED" /\ sent'[pending_key'] > 0
        BY <2>3 DEF ArmRepeat, FreshInv, history
      <3> QED BY <3>1 DEF FreshInv
    <2>4. CASE IgnoreUnarmed \/ ExpireQueued \/ key_fired \/ Withdraw \/ ExpireArmed \/ Reject \/ Accept
      <3>1. key_st' \notin {"ARMED", "REPEAT"}
        BY <2>4 DEF IgnoreUnarmed, ExpireQueued, key_fired, Withdraw, ExpireArmed, Reject, Accept, taskVars
      <3> QED BY <3>1 DEF FreshInv
    <2>5. CASE Wait
      <3>1. /\ UNCHANGED <<key_st, pending_key, left, tx_fired, sent>>
            /\ key_st = "ARMED" => left > 0
        BY <2>5 DEF Wait, taskVars, isrVars, history
      <3> QED BY <2>0, <3>1 DEF FreshInv
    <2> QED BY <1>2, <2>1, <2>2, <2>3, <2>4, <2>5 DEF key_tick
  <1>3. CASE tx_sent
    <2>1. tx_fired' /\ UNCHANGED <<key_st, pending_key>> /\ sent' = [sent EXCEPT ![burst] = sent[burst] + 1]
      BY <1>3 DEF tx_sent, taskVars
    <2>2. key_st # "REPEAT"
      BY <1>3 DEF tx_sent, IInv, SafeInv, BurstInv
    <2> QED BY <2>1, <2>2 DEF FreshInv
  <1>4. CASE Tick
    <2>1. /\ UNCHANGED <<key_st, pending_key, tx_fired, sent>> /\ lag' = lag + 1
          /\ left' = IF key_st = "ARMED" /\ left > 0 THEN left - 1 ELSE left
          /\ age' = [p \in Presses |-> IF Queued(p) \/ Pending(p) THEN Older(age[p], AgeCap) ELSE 0]
      BY <1>4 DEF Tick, isrVars, history
    <2>2. key_st = "ARMED" => age'[pending_key] \in Nat /\ age'[pending_key] <= age[pending_key] + 1
      BY <1>0, <2>1, CapFacts DEF Older, Pending, IInv, TypeOK, RequestTypeOK
    <2> QED BY <1>0, <2>1, <2>2 DEF FreshInv
  <1>5. ASSUME NEW a \in BOOLEAN, set_armed(a) PROVE FreshInv'
    BY <1>5 DEF set_armed, taskVars, isrVars, history, FreshInv
  <1>6. ASSUME NEW b \in Bytes, HearByte(b) PROVE FreshInv'
    BY <1>6 DEF HearByte, taskVars, history, FreshInv
  <1>7. CASE PollSlot \/ tx_not_sent \/ LoseAck \/ SessionGate \/ UNCHANGED vars
    BY <1>7 DEF PollSlot, tx_not_sent, LoseAck, SessionGate, vars, taskVars, isrVars, history, FreshInv
  <1> QED BY <1>1, <1>2, <1>3, <1>4, <1>5, <1>6, <1>7 DEF Next

\* The first report of a press starts no later than its time to live plus one period of
\* the task, for every choice of the durations.
THEOREM PressesAreFresh == Spec => SentWhileFresh
  <1> DEFINE Fresh == \A p \in Presses :
               (burst = NoPress /\ burst' = p /\ sent[p] = 0) => age[p] <= Ttl + TaskLag
  <1>1. Init => FreshInv
    BY DEF Init, FreshInv
  <1>2. IInv /\ FreshInv /\ [Next]_vars => [Fresh]_vars
    <2> SUFFICES ASSUME IInv, FreshInv, Next, NEW p \in Presses,
                        burst = NoPress, burst' = p, sent[p] = 0
                 PROVE  age[p] <= Ttl + TaskLag
      OBVIOUS
    <2>1. PollSlot
      <3>1. burst' # burst
        BY NoPressAssumption
      <3>2. CASE key_tick
        BY <3>1, <3>2 DEF key_tick, busVars
      <3> QED BY <3>1, <3>2 DEF Next, press_key, set_armed, tx_sent, tx_not_sent, HearByte, LoseAck,
                     SessionGate, Tick, busVars
    <2>2. key_st = "ARMED" /\ ~tx_fired /\ p = pending_key
      BY <2>1 DEF PollSlot, IInv, SafeInv, HandInv
    <2>3. /\ Ttl \in Nat /\ left \in Nat /\ lag \in 0 .. TaskLag /\ age[p] \in Nat /\ TaskLag \in Nat
      BY TimingAssumption DEF IInv, TypeOK, RequestTypeOK, TaskTypeOK
    <2> QED BY <2>2, <2>3 DEF FreshInv
  <1> QED BY <1>1, <1>2, FreshStep, Invariance, PTL DEF Spec, SentWhileFresh
=============================================================================
