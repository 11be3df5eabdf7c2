---------------------------- MODULE MCStorePool ----------------------------
(***************************************************************************)
(* StorePool for TLC.  Goroutines that list are interchangeable.           *)
(***************************************************************************)
EXTENDS StorePool, TLC

Symmetry == Permutations(Lister)

=============================================================================
