---------------------------- MODULE RequestQueue ----------------------------
(***************************************************************************)
(* What the edit arbiter promises: one holder of the enrolled session at a *)
(* time; sets are served before gets, each in the order they were asked    *)
(* for; the scrape starts only when nothing is asked for; and nothing of   *)
(* this starts while an external client holds the session.                 *)
(***************************************************************************)
EXTENDS Naturals, SequencesExt

CONSTANTS Sets, Gets,  \* the requests that write, and those that only read
          Refused,     \* requests the edit machine turns down
          QN           \* EDIT_QUEUE_N

VARIABLES waiting,     \* the requests not served yet, in the order they were asked for
          held,        \* an external client holds the session
          session      \* who of our own holds it: Free, Scraping, Parking or Editing a request

vars == <<waiting, held, session>>

Free == <<"free">>
Scraping == <<"scrape">>
Parking == <<"park">>
Editing(r) == <<"edit", r>>

Init == waiting = <<>> /\ held = FALSE /\ session = Free

Ask(r) ==
  /\ Len(waiting) < QN
  /\ waiting' = Append(waiting, r)
  /\ UNCHANGED <<held, session>>

\* Request i is served before request j.
Before(i, j) ==
  \/ waiting[i] \in Sets /\ waiting[j] \notin Sets
  \/ (waiting[i] \in Sets <=> waiting[j] \in Sets) /\ i < j
NextUp(i) == \A j \in 1 .. Len(waiting) : i = j \/ Before(i, j)

\* A request the machine turns down leaves the session free.
Begin(r) == session' = IF r \in Refused THEN Free ELSE Editing(r)

Serve ==
  /\ session = Free /\ ~held
  /\ \E i \in 1 .. Len(waiting) :
       NextUp(i) /\ Begin(waiting[i]) /\ waiting' = RemoveAt(waiting, i)
  /\ UNCHANGED held

Scrape ==
  /\ session = Free /\ ~held /\ waiting = <<>>
  /\ session' = Scraping /\ UNCHANGED <<waiting, held>>

\* The owner parks an idle session, a running scrape, or the session an edit leaves.
ParkOrFree ==
  \/ session = Free /\ session' = Parking
  \/ session # Free /\ session' \in {Free, Parking}

Yield == ParkOrFree /\ UNCHANGED <<waiting, held>>

Hold == held' = ~held /\ UNCHANGED <<waiting, session>>

Next == (\E r \in Sets \cup Gets : Ask(r)) \/ Serve \/ Scrape \/ Yield \/ Hold

Spec == Init /\ [][Next]_vars
=============================================================================
