--------------------------- MODULE CaptureServer ---------------------------
(***************************************************************************)
(* The PLANCAP server of the bridge: a fixed set of slots for clients, one *)
(* session and one backlog each, the records fanned out to all of them and *)
(* the policy for clients that do not read.  Everything here runs on the   *)
(* bus task: a pass reports events, closes kicked clients, accepts one,    *)
(* reads each, drains the bus and writes the backlogs; pc and turn say     *)
(* where the pass is.  When clients connect, what they send, whether they  *)
(* read and when they leave is chosen where the task meets it.             *)
(*                                                                         *)
(* A client speaks in frames: a hello (or a handshake), commands, or what  *)
(* the server must not accept.  A backlog is a sequence of records.  Only  *)
(* records of bus bytes count against CAP_BACKLOG_MAX: the others of a     *)
(* session are small.  Whether the heap has room for a backlog to grow is  *)
(* left open.                                                              *)
(***************************************************************************)
EXTENDS Snapshot, SequencesExt, FiniteSetsExt

CONSTANTS Slots,        \* CAP_MAX_CLIENTS
          BacklogMax,   \* CAP_BACKLOG_MAX, in records of bus bytes
          DrainMax,     \* tokens that one drain of the stream buffer yields
          Watched,      \* slots whose clients' views are followed
          MaxSeq,       \* bound on the records of bus bytes
          MaxTyped,     \* bound on the events, and the acknowledgements, under way to a client
          Reads         \* sequences of frames that one read may yield

\* A command is executed, or refused: the box is not armed, or its key queue full.
Message == {"hello", "command", "refused", "junk"}

ASSUME CaptureAssumption ==
  /\ Slots \in Nat \ {0} /\ BacklogMax \in Nat /\ DrainMax \in Nat
  /\ MaxSeq \in Nat /\ MaxTyped \in Nat
  /\ Watched \subseteq 1 .. Slots /\ \A frames \in Reads : frames \in Seq(Message)

Ports == 1 .. Slots

VARIABLES pc, turn,  \* the step of the pass, and the slot it is at
          open,      \* the slots that are taken (fd), in the order of opened_ms
          slot,      \* cap_clients_
          seq,       \* cap_seq_
          snap,      \* snap_
          view,      \* what the client of each slot made of the records it got
          screen     \* history: the row as the frames on the bus paint it

vars == <<pc, turn, open, slot, seq, snap, view, screen>>

Pairs(n, toks) == [type |-> "pairs", n |-> n, toks |-> toks]
Replay(f) == [type |-> "replay", n |-> 0, toks |-> <<Part("head", f), Part("tail", f)>>]
Typed(type) == [type |-> type, n |-> 0, toks |-> <<>>]
Record == {Pairs(n, toks) : n \in 1 .. MaxSeq, toks \in BoundedSeq(Token, DrainMax)}
            \cup {Replay(f) : f \in Frames} \cup {Typed("event"), Typed("ack")}

\* due is history: the events sent, and the commands taken, since the session
\* was established whose records have not reached the client.
Closed == [est |-> FALSE, kick |-> FALSE, backlog |-> <<>>, due |-> [event |-> 0, ack |-> 0]]
\* sure: no record was missed, and no frame was under way when the session was
\* established, since the row was last painted as a whole.
Unseen == [row |-> Blank, cell |-> Blank, cur |-> Mark, seq |-> 0, sure |-> FALSE]

Live(c) == c.est /\ ~c.kick
Count(records, type) == Cardinality({k \in DOMAIN records : records[k].type = type})
Full(c) == Count(c.backlog, "pairs") > BacklogMax
Bounded(cs) == \A i \in Ports : \A type \in {"event", "ack"} : cs[i].due[type] <= MaxTyped

Init ==
  /\ pc = "poll" /\ turn = 1 /\ open = <<>>
  /\ slot = [i \in Ports |-> Closed] /\ seq = 0 /\ snap = Empty
  /\ view = [i \in Ports |-> Unseen] /\ screen = [row |-> Blank, cell |-> Blank]

-----------------------------------------------------------------------------
(* Sending: one record for one client, or for all *)

\* capture_out_: a backlog that cannot grow cuts its client.  (What a
\* kicked client still gets shows nowhere; its backlog is dropped here, with the
\* slot in the code.)
out(c, rec, starved) ==
  IF c.kick \/ starved THEN [Closed EXCEPT !.est = c.est, !.kick = TRUE]
  ELSE [c EXCEPT !.backlog = Append(@, rec)]

\* Fault: a stalled client misses the record.
fanout_skips(cs, rec, starved) ==
  [i \in Ports |-> IF Live(cs[i]) /\ ~Full(cs[i]) THEN out(cs[i], rec, i \in starved) ELSE cs[i]]

\* capture_fanout_typed_: a typed record is never dropped, a stalled client is.
fanout_typed(cs, rec, starved) ==
  [i \in Ports |-> IF Live(cs[i]) THEN out(cs[i], rec, Full(cs[i]) \/ i \in starved) ELSE cs[i]]

\* capture_event_ and capture_diag_.
event(cs, starved) ==
  fanout_typed([i \in Ports |-> IF Live(cs[i]) THEN [cs[i] EXCEPT !.due.event = @ + 1] ELSE cs[i]],
               Typed("event"), starved)

\* What a record holds is left out for a slot that is not watched.
Copy(i, n, toks) == IF i \in Watched THEN Pairs(n, toks) ELSE Pairs(1, <<>>)

\* Fault: a stalled client is given more.
fanout_all(n, toks, starved) ==
  [i \in Ports |-> IF Live(slot[i]) THEN out(slot[i], Copy(i, n, toks), i \in starved) ELSE slot[i]]

\* capture_send_: a stalled client misses the record, whose number counts.
fanout_pairs(n, toks, starved) ==
  [i \in Ports |-> IF Live(slot[i]) /\ ~Full(slot[i])
                   THEN out(slot[i], Copy(i, n, toks), i \in starved) ELSE slot[i]]

\* capture_send_snapshot_
send_snapshot(c, starved) == FoldLeft(LAMBDA b, f : out(b, Replay(f), starved), c, visit(snap))

-----------------------------------------------------------------------------
(* Reading a client *)

\* capture_command_: why it is refused goes to all, the acknowledgement to its client.
command(cs, i, refused, starved) ==
  LET taken == [cs EXCEPT ![i].due.ack = @ + 1]
      told == IF refused THEN event(taken, starved) ELSE taken
  IN IF told[i].kick THEN told ELSE [told EXCEPT ![i] = out(@, Typed("ack"), i \in starved)]

\* feed: the first frame selects the mode, every other is a command.
take_frame(s, i, frame, starved) ==
  CASE ~s.ok                                     -> s
    [] s.ok /\ ~s.slot[i].est /\ frame = "hello" -> [s EXCEPT !.slot[i].est = TRUE]
    [] s.ok /\ s.slot[i].est /\ frame \in {"command", "refused"} ->
         [s EXCEPT !.slot = command(@, i, frame = "refused", starved)]
    [] OTHER                                     -> [s EXCEPT !.ok = FALSE]

take_frames(i, frames, starved) ==
  FoldLeft(LAMBDA s, frame : take_frame(s, i, frame, starved), [ok |-> TRUE, slot |-> slot], frames)

-----------------------------------------------------------------------------
(* What a client makes of a record *)

\* What a frame leaves on the glass, by the protocol: a row covers its cells.
Painted(g, f) ==
  IF f.kind = "row" THEN [g EXCEPT !.row = f.text, !.cell = Blank] ELSE [g EXCEPT !.cell = f.text]

Decode(v, tok) ==
  IF tok.part = "tail" /\ v.cur = Part("head", tok.f)
  THEN [Painted(v, tok.f) EXCEPT !.cur = Mark, !.sure = v.sure \/ tok.f.kind = "row"]
  ELSE [v EXCEPT !.cur = IF tok.part = "head" THEN tok ELSE Mark]

\* A record of bus bytes that does not follow the last one shows a gap.
Read(v, rec) ==
  CASE rec.type \in {"event", "ack"} -> v
    [] rec.type = "replay"           -> Painted(v, rec.toks[1].f)
    [] rec.type = "pairs"            ->
         FoldLeft(Decode,
                  IF rec.n = v.seq + 1 THEN [v EXCEPT !.seq = rec.n]
                  ELSE [v EXCEPT !.seq = rec.n, !.cur = Mark, !.sure = FALSE],
                  rec.toks)

-----------------------------------------------------------------------------
(* The pass of the bus task *)

\* capture_close_client_, of the slots in S, or of the slot the pass is at.
close_clients(S) == [i \in Ports |-> IF i \in S THEN Closed ELSE slot[i]]
Forgotten(S) == [i \in Ports |-> IF i \in S THEN Unseen ELSE view[i]]
Without(S) == FoldLeft(LAMBDA kept, i : IF i \in S THEN kept ELSE Append(kept, i), <<>>, open)
CloseHere == open' = Without({turn}) /\ slot' = close_clients({turn}) /\ view' = Forgotten({turn})

Then(step) == IF turn < Slots THEN pc' = pc /\ turn' = turn + 1 ELSE pc' = step /\ turn' = 1

\* One of the events and diagnostics of the pass before the server's turn.
Report ==
  /\ pc = "poll"
  /\ \E starved \in SUBSET Range(open) : slot' = event(slot, starved) /\ Bounded(slot')
  /\ UNCHANGED <<pc, turn, open, seq, snap, view, screen>>

\* The slot a newcomer takes: a free one, or the one of the oldest client.
victim(kept) == IF Len(kept) < Slots THEN Min(Ports \ Range(kept)) ELSE Head(kept)

\* capture_poll_: the kicked clients go first, then a newcomer, if there is one and
\* the heap is not low, is let in.
Accept ==
  /\ pc = "poll" /\ pc' = "recv"
  /\ LET kicked == {i \in Ports : slot[i].kick}
         kept == Without(kicked)
         let_in == kicked \cup {victim(kept)}
     IN \/ open' = kept /\ slot' = close_clients(kicked) /\ view' = Forgotten(kicked)
        \/ /\ open' = Append(Without(let_in), victim(kept))
           /\ slot' = close_clients(let_in) /\ view' = Forgotten(let_in)
  /\ UNCHANGED <<turn, seq, snap, screen>>

\* The rest of capture_poll_, for the slot it is at: nothing to read.
RecvNothing ==
  /\ pc = "recv" /\ Then("drain")
  /\ UNCHANGED <<open, slot, seq, snap, view, screen>>

\* The end of the stream.
RecvEnd ==
  /\ pc = "recv" /\ turn \in Range(open) /\ CloseHere
  /\ Then("drain") /\ UNCHANGED <<seq, snap, screen>>

\* Some frames of its client.  A session that they establish gets the screen, and
\* all clients the state; a fatal error closes it.  (More than a buffer holds is
\* read at once in the code, in the next pass here.)
Recv ==
  /\ pc = "recv" /\ turn \in Range(open)
  /\ \E frames \in Reads, starved \in SUBSET Range(open) :
       LET fed == take_frames(turn, frames, starved)
           new == fed.slot[turn].est /\ ~slot[turn].est
           shown == [fed.slot EXCEPT ![turn] = send_snapshot(@, turn \in starved)]
       IN IF fed.ok
          THEN /\ slot' = (IF new THEN event(shown, starved) ELSE fed.slot) /\ Bounded(slot')
               /\ view' = IF new /\ turn \in Watched
                          THEN [view EXCEPT ![turn].seq = seq, ![turn].sure = snap.cur.part = "mark"] ELSE view
               /\ UNCHANGED open
          ELSE /\ slot' = [fed.slot EXCEPT ![turn] = Closed] /\ Bounded(slot')
               /\ view' = Forgotten({turn}) /\ open' = Without({turn})
  /\ Then("drain") /\ UNCHANGED <<seq, snap, screen>>

\* A tail belongs to the head before it.
Grammatical(toks) ==
  \A i \in DOMAIN toks : toks[i].part = "tail" =>
    Part("head", toks[i].f) = IF i = 1 THEN snap.cur ELSE toks[i - 1]

\* The bytes the bus brought in gap_ms_: a record for the clients, if there are
\* any, and the cache.
Drain ==
  /\ pc = "drain" /\ pc' = "flush"
  /\ \E toks \in BoundedSeq(Token, DrainMax) :
       /\ Grammatical(toks)
       /\ IF toks # <<>> /\ \E i \in Ports : Live(slot[i])
          THEN /\ seq < MaxSeq /\ seq' = seq + 1
               /\ \E starved \in SUBSET Range(open) : slot' = fanout_pairs(seq + 1, toks, starved)
          ELSE UNCHANGED <<seq, slot>>
       /\ snap' = FoldLeft(feed, snap, toks)
       /\ screen' = FoldLeft(LAMBDA g, tok : IF tok.part = "tail" THEN Painted(g, tok.f) ELSE g, screen, toks)
  /\ UNCHANGED <<turn, open, view>>

\* What the write took: events and acknowledgements that have reached the client.
Delivered(c, n) ==
  [c EXCEPT !.backlog = SubSeq(@, n + 1, Len(@)),
            !.due = [type \in DOMAIN @ |-> @[type] - Count(SubSeq(c.backlog, 1, n), type)]]

\* capture_flush_: of each backlog none, some or all goes out, or the write fails
\* and its client is gone.
Flush ==
  /\ pc = "flush" /\ pc' = "poll"
  /\ \E n \in [Ports -> 0 .. Max({Len(slot[i].backlog) : i \in Ports})],
        gone \in SUBSET {i \in Ports : slot[i].backlog # <<>>} :
       /\ \A i \in Ports : n[i] <= IF i \in gone THEN 0 ELSE Len(slot[i].backlog)
       /\ open' = Without(gone)
       /\ slot' = [i \in Ports |-> IF i \in gone THEN Closed ELSE Delivered(slot[i], n[i])]
       /\ view' = [i \in Ports |->
            CASE i \notin Watched               -> view[i]
              [] i \in Watched /\ i \in gone     -> Unseen
              [] i \in Watched /\ i \notin gone  -> FoldLeft(Read, view[i], SubSeq(slot[i].backlog, 1, n[i]))]
  /\ UNCHANGED <<turn, seq, snap, screen>>

Next == Report \/ Accept \/ RecvNothing \/ RecvEnd \/ Recv \/ Drain \/ Flush

Spec == Init /\ [][Next]_vars

-----------------------------------------------------------------------------
\* Type correctness.  A backlog exceeds its cap by one record of bus bytes at most.
TypeOK ==
  /\ pc \in {"poll", "recv", "drain", "flush"} /\ turn \in Ports
  /\ IsInjective(open) /\ Range(open) \subseteq Ports
  /\ seq \in 0 .. MaxSeq /\ snap.cur \in Token
  /\ \A i \in Ports :
       /\ DOMAIN slot[i] = DOMAIN Closed /\ (i \notin Range(open) => slot[i] = Closed)
       /\ \A n \in DOMAIN slot[i].backlog : slot[i].backlog[n] \in Record
       /\ Count(slot[i].backlog, "pairs") <= BacklogMax + 1
       /\ view[i].cur \in Token

\* A client that has read all it was sent, missed no record and was established
\* between two frames shows what the bus has painted: the replay is neither stale
\* nor laid over what came live, and a cell that its row has covered never returns.
FaithfulReplica ==
  \A i \in Watched :
    Live(slot[i]) /\ slot[i].backlog = <<>> /\ view[i].seq = seq /\ view[i].sure
      => view[i].row = screen.row /\ view[i].cell = screen.cell

\* Events, diagnostics and acknowledgements are never dropped for one client:
\* each that was due since its session was established has reached it or is under
\* way, one acknowledgement for each command.
NothingTypedLost ==
  \A i \in Ports : Live(slot[i]) =>
    \A type \in {"event", "ack"} : Count(slot[i].backlog, type) = slot[i].due[type]
=============================================================================
