---------------------------- MODULE MCStoreAudit ----------------------------
(***************************************************************************)
(* StoreAudit for TLC: one agent that waits for its answers, so heartbeats *)
(* of a node do not overlap, beside one admin.                             *)
(***************************************************************************)
EXTENDS StoreAudit, TLC

=============================================================================
