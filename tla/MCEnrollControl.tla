-------------------------- MODULE MCEnrollControl --------------------------
(* Instance of EnrollControl for TLC: requests are few, so every order of   *)
(* them is short; one tick of time is a third of the drain's grace period.  *)
EXTENDS EnrollControl

MainOnly == {{"main"}}
Either == {{"main"}, {"task"}}
=============================================================================
