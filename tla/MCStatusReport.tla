--------------------------- MODULE MCStatusReport ---------------------------
(* Small instances of StatusReport.                                        *)
EXTENDS StatusReport

TwoTypes == <<"pid_provider", "access_ca">>
=============================================================================
