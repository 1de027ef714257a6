------------------------------ MODULE Snapshot ------------------------------
(***************************************************************************)
(* The screen-snapshot cache (plan::PlanSnapshot): the latest complete     *)
(* display frame per row and per cell, for replay to a capture client that *)
(* connects later.  Fed byte by byte, it delimits frames at the address    *)
(* marks, so a frame is cached only when the next one begins.              *)
(*                                                                         *)
(* A display frame repaints a row or one cell of it.  The bytes are        *)
(* abstracted to tokens: the head of a frame (its address mark included),  *)
(* the tail that completes it, and a mark, the head of any other frame.    *)
(* Rows are independent of one another; the model keeps one, with one cell *)
(* (of several cells of a row the code replays the last).                  *)
(***************************************************************************)
EXTENDS Naturals, Sequences

CONSTANTS Frames,  \* display frames: a kind, "row" or "cell", and the text it paints
          Blank    \* a slot that was never painted

ASSUME SnapshotAssumption ==
  \A f \in Frames : f \in [kind : {"row", "cell"}, text : {f.text}] /\ f.text # Blank

Part(part, f) == [part |-> part, f |-> f]
\* No frame is being received, or one that is no display frame.
Mark == Part("mark", CHOOSE f \in Frames : TRUE)
Token == {Part(part, f) : part \in {"head", "tail"}, f \in Frames} \cup {Mark}

\* cur is the frame being received: its head, or its tail once it is complete.
Empty == [row |-> Blank, cell |-> Blank, cur |-> Mark]

\* Fault: a repainted row keeps the cell that drifted on it.
paint_over(s, f) == IF f.kind = "row" THEN [s EXCEPT !.row = f.text] ELSE [s EXCEPT !.cell = f.text]

\* A full-row repaint supersedes any cached cell drift on that row.
paint(s, f) ==
  IF f.kind = "row" THEN [s EXCEPT !.row = f.text, !.cell = Blank] ELSE [s EXCEPT !.cell = f.text]

close(s) == IF s.cur.part = "tail" THEN paint(s, s.cur.f) ELSE s

\* A head or a mark closes the frame before it.
feed(s, tok) ==
  IF tok.part = "tail"
  THEN [s EXCEPT !.cur = IF @ = Part("head", tok.f) THEN tok ELSE @]
  ELSE [close(s) EXCEPT !.cur = tok]

\* The frames to replay: the row first, the cell that drifted after it.
visit(s) ==
  LET cached(kind, text) == IF text = Blank THEN <<>> ELSE <<[kind |-> kind, text |-> text]>>
  IN cached("row", s.row) \o cached("cell", s.cell)
=============================================================================
