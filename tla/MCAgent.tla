------------------------------ MODULE MCAgent -------------------------------
(***************************************************************************)
(* Agent for TLC: in units of 0.25 s, with a period of 0.75 s.             *)
(***************************************************************************)
EXTENDS Agent, TLC

=============================================================================
