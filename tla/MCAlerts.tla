------------------------------ MODULE MCAlerts ------------------------------
(***************************************************************************)
(* Alerts for TLC.  Checks treat every node of a list alone, so one node   *)
(* shows what two would; the runs differ in whether checks overlap.        *)
(***************************************************************************)
EXTENDS Alerts, TLC

=============================================================================
