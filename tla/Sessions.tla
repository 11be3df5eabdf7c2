------------------------------ MODULE Sessions ------------------------------
(***************************************************************************)
(* What the hub promises about admin sessions: a session id is usable for  *)
(* one uninterrupted time.  It begins with a login and ends by a logout,   *)
(* by being left unused, or with the hub's process; what has ended never   *)
(* begins again.  Auth implements this specification.                      *)
(***************************************************************************)
EXTENDS FiniteSets, Naturals

CONSTANTS Session, MaxCap

VARIABLES live,  \* the sessions a request may use
          ended  \* those that were usable once

Init == live = {} /\ ended = {}

Begin(s) ==
  /\ s \in Session \ (live \cup ended)
  /\ Cardinality(live) < MaxCap
  /\ live' = live \cup {s}
  /\ UNCHANGED ended

\* Time and restarts may end several sessions at once.
End(S) ==
  /\ live' = live \ S
  /\ ended' = ended \cup S

Next == \/ \E s \in Session : Begin(s)
        \/ \E S \in SUBSET live : End(S)

Spec == Init /\ [][Next]_<<live, ended>>

=============================================================================
