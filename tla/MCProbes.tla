------------------------------ MODULE MCProbes ------------------------------
(***************************************************************************)
(* Probes for TLC: an ISP with two candidates beside one with a single     *)
(* host, which is also a candidate of the first.                           *)
(***************************************************************************)
EXTENDS Probes, TLC

CONSTANTS ct, cu, h1, h2

TwoIsps == {ct, cu}
Candidates == (ct :> <<h1, h2>>) @@ (cu :> <<h2>>)

=============================================================================
