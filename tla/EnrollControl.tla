--------------------------- MODULE EnrollControl ---------------------------
(***************************************************************************)
(* Joining and leaving the link: set_enroll and set_armed, the graceful    *)
(* drain that task_main finishes, and the interrupt that reads the flags.  *)
(*                                                                         *)
(* The flags are volatile words written one by one.  A request from the    *)
(* ESPHome main loop can be preempted between any two of its stores by the *)
(* bus task and by the interrupt; a request from a capture command runs on *)
(* the bus task itself, so only the interrupt comes in between (one core,  *)
(* the bus task has the higher priority).                                  *)
(***************************************************************************)
EXTENDS Integers, Sequences

CONSTANTS CallerSets,   \* who may issue requests: "main" (the main loop), "task" (commands)
          MaxCalls,     \* bound on the number of requests
          Grace,        \* the 15 s drain deadline, in ticks
          DrainQuiet    \* drain_quiet_: leave by member loss

ASSUME CallersAssumption == CallerSets \subseteq SUBSET {"main", "task"}
ASSUME BoundsAssumption == MaxCalls \in Nat /\ Grace \in Nat \ {0} /\ DrainQuiet \in BOOLEAN

VARIABLES
  callers,      \* those that issue requests
  flag,         \* the volatile booleans, by name
  drain_polls,  \* polls left unanswered in this drain
  grace,        \* time left until drain_deadline_ms_
  todo,         \* the stores each caller's request still has to make
  task_pc,      \* where the bus task is in its loop
  reported,     \* what the last state event said
  calls, wish,  \* requests made, and what the last set_enroll asked for
  since,        \* time since the last request to leave
  answered,     \* a poll was answered since the last request to join
  joined        \* a join event has certified that poll since then

vars == <<callers, flag, drain_polls, grace, todo, task_pc, reported,
          calls, wish, since, answered, joined>>

\* polled_ stands for enroll_polls_ # join_polls_base_.
Flags == {"enroll_", "drain_", "drain_replied_", "claim_mask_", "sess_ready_",
          "join_logged_", "polled_", "armed_", "state_dirty_"}
\* A store of a word; of the two counters, that of their new start.
StoreOps == [f : Flags \cup {"drain_polls_", "drain_deadline_ms_"}, v : BOOLEAN]
TaskPcs == {"drain", "delay", "state", "join", "report", "poll", "block"}
QuietPolls == 3

Enrollment == IF flag["drain_"] THEN "drain" ELSE IF flag["enroll_"] THEN "yes" ELSE "no"
Current == [armed |-> flag["armed_"], enroll |-> Enrollment]

TypeOK ==
  /\ flag \in [Flags -> BOOLEAN]
  /\ drain_polls \in 0 .. QuietPolls
  /\ grace \in 0 .. Grace
  /\ callers \in CallerSets /\ todo \in [callers -> Seq(StoreOps)]
  /\ task_pc \in TaskPcs
  /\ reported \in [armed : BOOLEAN, enroll : {"drain", "yes", "no"}]
  /\ calls \in 0 .. MaxCalls
  /\ wish \in BOOLEAN
  /\ since \in 0 .. Grace
  /\ answered \in BOOLEAN
  /\ joined \in BOOLEAN

Init ==
  /\ flag = [f \in Flags |-> f \in {"claim_mask_", "sess_ready_", "join_logged_"}]
  /\ drain_polls = 0 /\ grace = 0
  /\ callers \in CallerSets /\ todo = [c \in callers |-> <<>>]
  /\ task_pc = "block"
  /\ reported = Current
  /\ calls = 0 /\ wish = FALSE /\ since = Grace /\ answered = FALSE /\ joined = FALSE

-----------------------------------------------------------------------------
(* Requests: the stores of set_enroll and set_armed, in program order. *)

Set(f, v) == [f |-> f, v |-> v]

\* Faults in the stores of a request to join: the join event is not re-armed; an old
\* drain goes on.
JoinEventKept ==
  <<Set("polled_", FALSE), Set("drain_", FALSE), Set("drain_replied_", FALSE),
    Set("claim_mask_", TRUE), Set("sess_ready_", FALSE), Set("enroll_", TRUE),
    Set("state_dirty_", TRUE)>>
JoinKeepsDrain ==
  <<Set("polled_", FALSE), Set("join_logged_", FALSE), Set("claim_mask_", TRUE),
    Set("sess_ready_", FALSE), Set("enroll_", TRUE), Set("state_dirty_", TRUE)>>

JoinStores ==
  <<Set("polled_", FALSE), Set("join_logged_", FALSE), Set("drain_", FALSE),
    Set("drain_replied_", FALSE), Set("claim_mask_", TRUE), Set("sess_ready_", FALSE),
    Set("enroll_", TRUE), Set("state_dirty_", TRUE)>>

\* Faults in the stores of a request to leave: the drain begins with the claim
\* still up, or with an old deadline.
LeaveDrainFirst ==
  <<Set("drain_polls_", FALSE), Set("drain_replied_", FALSE), Set("drain_", TRUE),
    Set("claim_mask_", FALSE), Set("drain_deadline_ms_", TRUE), Set("state_dirty_", TRUE)>>
LeaveOldDeadline ==
  <<Set("drain_polls_", FALSE), Set("drain_replied_", FALSE), Set("claim_mask_", FALSE),
    Set("drain_", TRUE), Set("state_dirty_", TRUE)>>

LeaveStores ==
  <<Set("drain_polls_", FALSE), Set("drain_replied_", FALSE), Set("claim_mask_", FALSE),
    Set("drain_", TRUE), Set("drain_deadline_ms_", TRUE), Set("state_dirty_", TRUE)>>

StopStores ==
  <<Set("drain_", FALSE), Set("claim_mask_", TRUE), Set("enroll_", FALSE),
    Set("state_dirty_", TRUE)>>

\* The main loop runs while the bus task is blocked, a command inside the task's
\* capture poll.
MayRun(c) == c \in callers /\ IF c = "task" THEN task_pc = "poll" ELSE task_pc \in {"block", "delay"}

Request(c, stores) ==
  /\ MayRun(c) /\ todo[c] = <<>> /\ calls < MaxCalls
  /\ calls' = calls + 1
  /\ todo' = [todo EXCEPT ![c] = stores]
  /\ UNCHANGED <<callers, flag, drain_polls, grace, task_pc, reported>>

set_enroll(c, e) ==
  /\ Request(c, IF e THEN JoinStores
                ELSE IF flag["enroll_"] /\ ~flag["drain_"] THEN LeaveStores
                ELSE StopStores)
  /\ wish' = e
  /\ since' = IF e THEN since ELSE 0
  /\ answered' = IF e THEN FALSE ELSE answered
  /\ joined' = IF e THEN FALSE ELSE joined

set_armed(c, a) ==
  /\ Request(c, IF flag["armed_"] # a THEN <<Set("armed_", a), Set("state_dirty_", TRUE)>>
                ELSE <<Set("armed_", a)>>)
  /\ UNCHANGED <<wish, since, answered, joined>>

\* Fault: a drain's deadline is added to what is left of the previous one.
StoreExtends(c) ==
  /\ MayRun(c) /\ todo[c] # <<>>
  /\ LET s == Head(todo[c])
     IN /\ flag' = IF s.f \in Flags THEN [flag EXCEPT ![s.f] = s.v] ELSE flag
        /\ drain_polls' = IF s.f = "drain_polls_" THEN 0 ELSE drain_polls
        /\ grace' = IF s.f = "drain_deadline_ms_" THEN grace + Grace ELSE grace
  /\ todo' = [todo EXCEPT ![c] = Tail(@)]
  /\ UNCHANGED <<callers, task_pc, reported, calls, wish, since, answered, joined>>

Store(c) ==
  /\ MayRun(c) /\ todo[c] # <<>>
  /\ LET s == Head(todo[c])
     IN /\ flag' = IF s.f \in Flags THEN [flag EXCEPT ![s.f] = s.v] ELSE flag
        /\ drain_polls' = IF s.f = "drain_polls_" THEN 0 ELSE drain_polls
        /\ grace' = IF s.f = "drain_deadline_ms_" THEN Grace ELSE grace
  /\ todo' = [todo EXCEPT ![c] = Tail(@)]
  /\ UNCHANGED <<callers, task_pc, reported, calls, wish, since, answered, joined>>

-----------------------------------------------------------------------------
(* task_main: one pass of its loop, block by block. *)

Goto(pc) ==
  /\ task_pc' = pc
  /\ UNCHANGED <<callers, drain_polls, grace, todo, calls, wish, since, answered>>

\* Fault: a drain ends only when the controller let us go.
DrainOverReplied == flag["drain_"] /\ flag["drain_replied_"]

\* A drain is over once the controller let us go, or at the deadline.
DrainOver == flag["drain_"] /\ (flag["drain_replied_"] \/ grace = 0)

\* Fault: the end of a drain is not announced.
LeaveSilently == flag' = [flag EXCEPT !["enroll_"] = FALSE, !["drain_"] = FALSE]

Leave == flag' = [flag EXCEPT !["enroll_"] = FALSE, !["drain_"] = FALSE,
                              !["state_dirty_"] = TRUE]

\* The controller gets 200 ms to finish the walk; the task sleeps meanwhile.
CheckDrain ==
  /\ task_pc = "drain"
  /\ \/ ~DrainOver /\ flag' = flag /\ Goto("state")
     \/ DrainOver /\ flag["drain_replied_"] /\ flag' = flag /\ Goto("delay")
     \/ DrainOver /\ ~flag["drain_replied_"] /\ Leave /\ Goto("state")
  /\ UNCHANGED <<reported, joined>>

FinishDrain ==
  /\ task_pc = "delay" /\ Leave /\ Goto("state")
  /\ UNCHANGED <<reported, joined>>

EmitState ==
  /\ task_pc = "state" /\ Goto("join")
  /\ flag' = [flag EXCEPT !["state_dirty_"] = FALSE]
  /\ reported' = IF flag["state_dirty_"] THEN Current ELSE reported
  /\ UNCHANGED joined

EmitJoin ==
  /\ task_pc = "join" /\ Goto("report")
  /\ LET event == ~flag["join_logged_"] /\ flag["enroll_"] /\ flag["polled_"]
     IN /\ flag' = [flag EXCEPT !["join_logged_"] = @ \/ event]
        /\ joined' = (joined \/ (event /\ answered))
  /\ UNCHANGED reported

\* Every 10 s the state is reported anyway.
ReportWindow ==
  /\ task_pc = "report" /\ Goto("poll")
  /\ reported' \in {reported, Current}
  /\ UNCHANGED <<flag, joined>>

\* capture_poll_ (its commands are requests of "task"), the stream drain that
\* blocks, and the next pass.
Proceed ==
  /\ \/ task_pc = "poll" /\ ("task" \in callers => todo["task"] = <<>>) /\ Goto("block")
     \/ task_pc = "block" /\ Goto("drain")
  /\ UNCHANGED <<flag, reported, joined>>

TaskStep == CheckDrain \/ FinishDrain \/ EmitState \/ EmitJoin \/ ReportWindow \/ Proceed

-----------------------------------------------------------------------------
(* The interrupt *)

Isr == UNCHANGED <<callers, grace, todo, task_pc, reported, calls, wish, since, joined>>

\* Our poll: left unanswered in a quiet drain, answered otherwise.
Poll ==
  /\ flag["enroll_"]
  /\ IF flag["drain_"] /\ DrainQuiet
     THEN /\ drain_polls < QuietPolls
          /\ drain_polls' = drain_polls + 1
          /\ UNCHANGED <<flag, answered>>
     ELSE /\ flag' = [flag EXCEPT !["polled_"] = TRUE]
          /\ answered' = TRUE
          /\ UNCHANGED drain_polls
  /\ Isr

\* A roll-call of the controller to another address: it has let us go.
RollcallElsewhere ==
  /\ flag["drain_"] /\ DrainQuiet /\ drain_polls >= QuietPolls
  /\ flag' = [flag EXCEPT !["drain_replied_"] = TRUE]
  /\ UNCHANGED <<drain_polls, answered>> /\ Isr

\* A roll-call token to us, answered with the claim mask.
RollcallReply ==
  /\ flag["enroll_"] /\ flag["drain_"]
  /\ flag' = [flag EXCEPT !["drain_replied_"] = TRUE]
  /\ UNCHANGED <<drain_polls, answered>> /\ Isr

\* The session's first row opens the key gate; a walk or a session init closes it.
SessionGate ==
  /\ \/ flag["enroll_"] /\ flag' = [flag EXCEPT !["sess_ready_"] = TRUE]
     \/ flag' = [flag EXCEPT !["sess_ready_"] = FALSE]
  /\ UNCHANGED <<drain_polls, answered>> /\ Isr

Tick ==
  /\ grace' = IF grace > 0 THEN grace - 1 ELSE 0
  /\ since' = IF since < Grace THEN since + 1 ELSE Grace
  /\ UNCHANGED <<callers, flag, drain_polls, todo, task_pc, reported, calls, wish, answered, joined>>

Next ==
  \/ \E c \in callers, b \in BOOLEAN : set_enroll(c, b) \/ set_armed(c, b)
  \/ \E c \in callers : Store(c)
  \/ TaskStep
  \/ Poll \/ RollcallElsewhere \/ RollcallReply \/ SessionGate
  \/ Tick

Spec == Init /\ [][Next]_vars

\* The bus task goes on and time passes; it blocks for up to gap_ms in every pass,
\* so a started request of the main loop, which can only run then, goes on too
\* (strong fairness: it is enabled again and again, not continuously).  Nothing
\* is assumed of the controller.
FairSpec ==
  /\ Spec
  /\ WF_vars(TaskStep) /\ WF_vars(Tick)
  /\ \A c \in UNION CallerSets : SF_vars(Store(c))

-----------------------------------------------------------------------------
Settled == \A c \in callers : todo[c] = <<>>

\* Clients learn every change: once a request has made its stores and the dirty
\* flag is clear, the last state event told the present state.
StateReported == Settled /\ ~flag["state_dirty_"] => reported = Current

\* The join event clients wait for is neither false nor swallowed: when it counts
\* as sent, one was sent after a poll had been answered since the request to join,
\* although an event of the previous request may still slip in between the stores.
JoinCertified == Settled /\ wish /\ flag["join_logged_"] => joined

\* While draining our claim is renounced, whichever roll-call comes.
RenounceWhileDraining == flag["drain_"] => ~flag["claim_mask_"]

\* A drain that the controller did not confirm is cut off only after the grace
\* period, when requests are commands: no pass of the bus task cuts those in two.
DrainCutOff == task_pc = "drain" /\ flag["drain_"] /\ ~flag'["drain_"]
CommandsGraceful == [][callers = {"task"} /\ DrainCutOff => since >= Grace]_<<task_pc, flag>>

\* The last request wins: after a request to join the terminal stays enrolled.
LastWriterWins == Settled /\ wish => flag["enroll_"]

\* It does when requests are commands: they run on the bus task, between two passes
\* of its drain, and are never cut in two by it.
CommandsWin == callers = {"task"} => LastWriterWins

\* A request to leave ends the membership, whether or not the controller ever
\* renounces us, unless a new request to join comes first.
LeaveCompletes == ~wish ~> (~flag["enroll_"] \/ wish)
=============================================================================
