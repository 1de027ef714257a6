---------------------------- MODULE EditArbiter ----------------------------
(***************************************************************************)
(* The arbiter of the enrolled session (plan::EditArbiter): entity writes  *)
(* and page reads wait in a ring buffer until the scrape is idle; one      *)
(* machine is ticked per pass of the main loop.                            *)
(*                                                                         *)
(* The two machines are their idle() and what a tick of a busy one may     *)
(* lead to: it goes on or ends (module PlanNav has the whole of the        *)
(* scrape).  A request is the record of its kind and its macro.            *)
(***************************************************************************)
EXTENDS Naturals, Sequences, SequencesExt

CONSTANTS Macros,     \* the consumer's macro definitions
          ReadOnly,   \* macros that may only be read
          NoExtract,  \* macros whose extractor the engine does not find
          Unlisted,   \* macros asked for with an operation that has no extractor
          Uncounted,  \* macros swept for a count of values outside 1 .. SWEEP_MAX
          QN          \* EDIT_QUEUE_N

ASSUME ArbiterAssumption ==
  /\ ReadOnly \subseteq Macros /\ NoExtract \subseteq Macros /\ QN \in Nat \ {0}
  /\ Unlisted \subseteq Macros /\ Uncounted \subseteq Macros

Request(kinds) == [kind : kinds, def : Macros]
IsSet(r) == r.kind \in {"SET", "OPS"}
\* The engine refuses: set_ops takes its extractors from the caller, the others look
\* theirs up.
NoField(r) == r.kind # "OPS" /\ r.def \in NoExtract
BadList(r) == r.kind = "OPS" /\ r.def \in Unlisted
BadCount(r) == r.kind = "SWEEP" /\ r.def \in Uncounted
NotStarted(r) == NoField(r) \/ BadList(r) \/ BadCount(r)

VARIABLES q, head, n,  \* the ring buffer
          running,     \* running_ and running_kind_
          edit,        \* the edit machine: "idle" or "busy"
          nav,         \* the scrape machine: "idle", "cycle" or "park"
          joined, hold, due

ring == <<q, head, n>>
vars == <<ring, running, edit, nav, joined, hold, due>>

Slot(i) == (head + i) % QN
\* What no request was stored in.
Blank == [kind |-> "GET", def |-> "nullptr"]

Init ==
  /\ q = [i \in 0 .. QN - 1 |-> Blank] /\ head = 0 /\ n = 0 /\ running = Blank
  /\ edit = "idle" /\ nav = "idle" /\ joined = FALSE /\ hold = FALSE /\ due = FALSE

-----------------------------------------------------------------------------
(* enqueue, enqueue_ops, enqueue_sweep: called from the same loop *)

\* Fault: the last free slot is not kept count of.
AcceptsFull(r) == n <= QN /\ ~(r.kind = "SET" /\ r.def \in ReadOnly)

Accepts(r) == n < QN /\ ~(r.kind = "SET" /\ r.def \in ReadOnly)

Enqueue(r) ==
  /\ Accepts(r)
  /\ q' = [q EXCEPT ![Slot(n)] = r] /\ n' = n + 1
  /\ UNCHANGED <<head, running, edit, nav, joined, hold, due>>

-----------------------------------------------------------------------------
(* tick *)

\* A busy machine goes on or ends; a cycle that was asked to park goes over to it.
EditRuns == edit' \in {"busy", "idle"}
NavRuns == nav' \in IF nav = "cycle" THEN {"cycle", "park", "idle"} ELSE {"park", "idle"}

TickEdit == edit = "busy" /\ EditRuns /\ UNCHANGED <<ring, running, nav, due>>

\* Fault: the scheduler ignores the requests waiting.
NavFreeAsked == ~hold

\* The scheduler is free, or the running cycle finishes first.
NavFree == n = 0 /\ ~hold
NavStarts == nav = "idle" /\ joined /\ due
TickNav ==
  /\ edit = "idle"
  /\ \/ NavFree /\ NavStarts /\ nav' = "cycle" /\ due' = FALSE
     \/ nav # "idle" /\ NavRuns /\ UNCHANGED due
  /\ UNCHANGED <<ring, running, edit>>

\* The first set, or the oldest request when there is none.
Picked(queue) == IF \E i \in 1 .. Len(queue) : IsSet(queue[i])
                 THEN SelectInSeq(queue, IsSet) ELSE 1
Queue == [i \in 1 .. n |-> q[Slot(i - 1)]]

\* Fault: the entries after the picked one move instead of those before it.
ShiftedPast(pick) ==
  [j \in 0 .. QN - 1 |-> IF \E i \in pick .. n - 1 : j = Slot(i) THEN q[(j + 1) % QN] ELSE q[j]]

\* The gap is closed towards the head.
Shifted(pick) ==
  [j \in 0 .. QN - 1 |-> IF \E i \in 1 .. pick : j = Slot(i) THEN q[(j + QN - 1) % QN] ELSE q[j]]
\* A started edit is ticked in the same pass.
TickStart ==
  /\ edit = "idle" /\ nav = "idle" /\ n > 0 /\ ~hold /\ joined
  /\ LET pick == Picked(Queue) - 1
         r == q[Slot(pick)]
     IN /\ q' = Shifted(pick) /\ running' = r
        /\ edit' = IF NotStarted(r) THEN "idle" ELSE "busy"
  /\ head' = (head + 1) % QN /\ n' = n - 1
  /\ UNCHANGED <<nav, due>>

Tick == (TickEdit \/ TickNav \/ TickStart) /\ UNCHANGED <<joined, hold>>

-----------------------------------------------------------------------------
(* The surroundings: the link, an external client, the schedule, the owner *)

Enrolls == joined' = ~joined /\ UNCHANGED <<ring, running, edit, nav, hold, due>>
Holds == hold' = ~hold /\ UNCHANGED <<ring, running, edit, nav, joined, due>>
Due == ~due /\ due' = TRUE /\ UNCHANGED <<ring, running, edit, nav, joined, hold>>
park == nav = "idle" /\ nav' = "park" /\ UNCHANGED <<ring, running, edit, joined, hold, due>>

Requests == Request({"GET", "SET", "OPS", "SWEEP"})
Next == (\E r \in Requests : Enqueue(r)) \/ Tick \/ Enrolls \/ Holds \/ Due \/ park

Spec == Init /\ [][Next]_vars

\* The loop ticks for ever; each machine ends what it runs (PlanNav's CycleEnds).
EditEnds == TickEdit /\ edit' = "idle" /\ UNCHANGED <<joined, hold>>
NavEnds == TickNav /\ nav' = "idle" /\ UNCHANGED <<joined, hold>>
FairSpec == Spec /\ WF_vars(Tick) /\ SF_vars(EditEnds) /\ SF_vars(NavEnds)

-----------------------------------------------------------------------------
(* Properties *)

\* Type invariant: the ring's counters stay in range, and what waits between them was
\* asked for.
TypeOK ==
  /\ q \in [0 .. QN - 1 -> Requests \cup {Blank}] /\ head \in 0 .. QN - 1 /\ n \in 0 .. QN
  /\ Queue \in Seq(Requests)
  /\ running \in Requests \cup {Blank} /\ edit \in {"idle", "busy"} /\ nav \in {"idle", "cycle", "park"}
  /\ joined \in BOOLEAN /\ hold \in BOOLEAN /\ due \in BOOLEAN

\* The ring buffer with its gap closing is a queue in which sets overtake gets; the
\* session has one holder, whose request running() names, and nobody becomes one while
\* an external client holds it.
Session == CASE edit = "busy"                  -> <<"edit", running>>
             [] edit = "idle" /\ nav = "cycle" -> <<"scrape">>
             [] edit = "idle" /\ nav = "park"  -> <<"park">>
             [] edit = "idle" /\ nav = "idle"  -> <<"free">>
Promised == INSTANCE RequestQueue WITH
  Sets <- {r \in Requests : IsSet(r)},
  Gets <- {r \in Requests : ~IsSet(r)},
  Refused <- {r \in Requests : NotStarted(r)},
  waiting <- Queue,
  held <- hold,
  session <- Session
KeepsOrder == Promised!Spec

\* Once the link stays joined and neither a client nor a park takes the session any
\* more, queued sets are taken out: none waits behind reads and scrape cycles for ever.
\* A set that the engine refuses is taken out as well.
SetsWaiting == \E i \in 1 .. n : IsSet(Queue[i])
SetTaken == TickStart /\ IsSet(running')
SetsServed ==
  <>[](joined /\ ~hold /\ nav # "park") => []<>~SetsWaiting \/ []<><<SetTaken>>_vars
=============================================================================
