----------------------------- MODULE MCKeyPump -----------------------------
\* KeyPump on a handful of presses.  The clocks keep the order of the source's
\* durations (burst < 10 ms disarm < 100 ms verdict < 1500 ms TTL) in few ticks.
EXTENDS KeyPump, TLC

Symmetry == Permutations(Presses)
=============================================================================
