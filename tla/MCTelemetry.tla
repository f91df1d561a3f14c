---------------------------- MODULE MCTelemetry ----------------------------
(* A small instance of Telemetry.                                          *)
EXTENDS Telemetry

\* Version 2 reports on a territory more, version 3 on one less.
MCTerritories == [v \in Version |-> CASE v = 1 -> {"LV"} [] v = 2 -> {"LV", "EE"} [] OTHER -> {"EE"}]
=============================================================================
