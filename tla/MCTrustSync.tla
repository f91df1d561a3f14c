---------------------------- MODULE MCTrustSync ----------------------------
(* Small instances of TrustSync.                                           *)
EXTENDS TrustSync

OneType == <<"pid_provider">>
TwoTypes == <<"pid_provider", "access_ca">>

\* Snapshot 2 withdraws EE's anchors, snapshot 3 withdraws LV's and has EE's
\* again; access_ca is LV only until snapshot 3.
MCTerritories ==
  [t \in Types |->
     IF t = "pid_provider"
     THEN [s \in Snapshot |-> CASE s = 1 -> {"LV", "EE"} [] s = 2 -> {"LV"} [] OTHER -> {"EE"}]
     ELSE [s \in Snapshot |-> IF s < 3 THEN {"LV"} ELSE {"LV", "EE"}]]

EveryFault == Fault
NoKeyLost == {"error", "lost", "crash"}
Outage == {"error", "lost"}
=============================================================================
