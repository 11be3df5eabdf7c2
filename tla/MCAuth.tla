------------------------------- MODULE MCAuth -------------------------------
(***************************************************************************)
(* Auth for TLC.  Clients have buckets of their own, so one client with    *)
(* several logins shows what the limiter does.                             *)
(***************************************************************************)
EXTENDS Auth, TLC

=============================================================================
