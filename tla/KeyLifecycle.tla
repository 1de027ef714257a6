---------------------------- MODULE KeyLifecycle ----------------------------
(***************************************************************************)
(* What the key path promises to its clients, free of timing, interrupts   *)
(* and queues: presses are served one at a time in the order they were     *)
(* asked for; each is put on the wire at most once, and ends either with   *)
(* one verdict or, if the bridge is not armed for it, with none.  A press  *)
(* that went out is never called expired, one that did not is never        *)
(* called accepted or rejected.                                            *)
(***************************************************************************)
EXTENDS Sequences

CONSTANT Presses

VARIABLES line,    \* the unsettled presses, oldest first
          status   \* what became of each press

vars == <<line, status>>

Verdicts == {"ACCEPTED", "REJECTED", "EXPIRED"}
Statuses == {"idle", "waiting", "onWire", "ignored"} \cup Verdicts

TypeOK ==
  /\ line \in Seq(Presses)
  /\ status \in [Presses -> Statuses]

Init ==
  /\ line = <<>>
  /\ status = [p \in Presses |-> "idle"]

Request(p) ==
  /\ status[p] = "idle"
  /\ line' = Append(line, p)
  /\ status' = [status EXCEPT ![p] = "waiting"]

\* The oldest press goes on the wire.
Transmit ==
  /\ line # <<>> /\ status[Head(line)] = "waiting"
  /\ status' = [status EXCEPT ![Head(line)] = "onWire"]
  /\ line' = line

\* The oldest press is settled: judged by the controller's answer if it went
\* out, expired or ignored if it did not.
Settle ==
  /\ line # <<>>
  /\ \E s \in IF status[Head(line)] = "onWire" THEN {"ACCEPTED", "REJECTED"}
                                               ELSE {"EXPIRED", "ignored"} :
       status' = [status EXCEPT ![Head(line)] = s]
  /\ line' = Tail(line)

\* A dead bus: nothing in the line went out, all of it expires.
ExpireAll ==
  /\ line # <<>> /\ status[Head(line)] = "waiting"
  /\ status' = [p \in Presses |->
                  IF \E i \in DOMAIN line : line[i] = p THEN "EXPIRED" ELSE status[p]]
  /\ line' = <<>>

Next == (\E p \in Presses : Request(p)) \/ Transmit \/ Settle \/ ExpireAll

Spec == Init /\ [][Next]_vars
=============================================================================
