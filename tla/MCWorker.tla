------------------------------ MODULE MCWorker ------------------------------
(* Small instances of Worker.                                              *)
EXTENDS Worker

Deployed(mode, credentials, operated, known, poll, ttl, wait) ==
  [mode |-> mode, credentials |-> credentials, adminKey |-> operated,
   coldStart |-> operated, known |-> known, poll |-> poll, ttl |-> ttl, wait |-> wait]

\* Four that validation accepts, with budgets of one missed poll, of one with a
\* cycle that may outlast the interval, of none and of one; four it has to
\* reject.
MCDeployments ==
  {Deployed("unset", TRUE, TRUE, TRUE, 3, 10, 1),
   Deployed("dpop", TRUE, TRUE, TRUE, 1, 8, 1),
   Deployed("internal", FALSE, FALSE, TRUE, 2, 3, 0),
   Deployed("dpop", TRUE, TRUE, TRUE, 2, 5, 0),
   Deployed("unset", FALSE, TRUE, TRUE, 2, 5, 0),
   Deployed("other", TRUE, TRUE, TRUE, 2, 5, 0),
   Deployed("internal", TRUE, TRUE, FALSE, 2, 5, 0),
   Deployed("internal", TRUE, TRUE, TRUE, 2, 2, 0)}
=============================================================================
