--------------------------- MODULE MCEditArbiter ---------------------------
EXTENDS EditArbiter

CONSTANTS sp, ro  \* a setpoint and a read-only macro

MCMacros == {sp, ro}
MCReadOnly == {ro}
MCUncounted == {sp}
=============================================================================
