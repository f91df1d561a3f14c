--------------------------- MODULE MCSingleFlight ---------------------------
(* A small instance of SingleFlight.                                       *)
EXTENDS SingleFlight

CONSTANTS sched, op1, op2, ch1, ch2, ch3

Callers == {sched, op1, op2}
Chans == {ch1, ch2, ch3}
=============================================================================
