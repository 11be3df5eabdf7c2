------------------------------ MODULE MCStore ------------------------------
(***************************************************************************)
(* Store for TLC: one node, one goroutine that serves its heartbeats and   *)
(* one admin request at a time.                                            *)
(***************************************************************************)
EXTENDS Store, TLC

=============================================================================
