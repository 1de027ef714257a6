-------------------------- MODULE MCCaptureServer --------------------------
(* Two slots, the view of slot 1 is followed; a row and the cell that drifts *)
(* on it, in frames of two tokens; the shortest conversations.               *)
EXTENDS CaptureServer

MCFrames == {[kind |-> "row", text |-> "a"], [kind |-> "cell", text |-> "c"]}
MCReads == {<<"hello">>, <<"junk">>, <<"hello", "refused">>, <<"hello", "command">>}
=============================================================================
