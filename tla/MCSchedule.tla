----------------------------- MODULE MCSchedule -----------------------------
(* Small instance of Schedule: the signal handler, the server's shutdown  *)
(* and a test may all call Stop.                                           *)
EXTENDS Schedule

CONSTANTS stopA, stopB, stopC
Stoppers == {stopA, stopB, stopC}
=============================================================================
