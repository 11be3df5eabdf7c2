---------------------------- MODULE MCAppearance ----------------------------
(***************************************************************************)
(* Appearance for TLC: values below and above the bounds of dim.           *)
(***************************************************************************)
EXTENDS Appearance, TLC

OutOfRange == {-1, MaxDim + 1}

Symmetry == Permutations(Handler) \cup Permutations(Ext)

\* States are told apart without the temporary files nobody will read: what a
\* request that is over has left in one is truncated or removed by the next that
\* uses it, and the properties do not look at it.
Renamed(n) == \E h \in Handler : proc[h].name = n /\ proc[h].pc \in {"write", "rename"}
Live == <<file, [n \in Name |-> IF Renamed(n) THEN tmp[n] ELSE Absent], memory, proc, history>>

=============================================================================
