----------------------------- MODULE MCSignals -----------------------------
(* Signals for TLC.                                                        *)
EXTENDS Signals

SomeMasks == {{}, {KILL, CHLD}}
SomeWaits == {-1, 0}
=============================================================================
