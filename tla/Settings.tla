------------------------------ MODULE Settings ------------------------------
(***************************************************************************)
(* What the hub promises about the appearance of its status page: as long  *)
(* as the admin's requests come one at a time, the stored settings are one *)
(* record.  A request that succeeds sets in a single step everything it    *)
(* names and nothing else; one that fails, and a restart, leave it alone.  *)
(* There is one way to lose the record: the file could not be read, and    *)
(* the next request is applied to the defaults.                            *)
(* Once requests have overlapped nothing is promised.                      *)
(***************************************************************************)
CONSTANTS Value,         \* settings
          Default,       \* those of a hub that has stored none
          Request,
          Changed(_, _)  \* the settings after a request, from those before it

VARIABLES value,   \* the stored settings
          asked,   \* the request being served, if any
          unsure,  \* the file could not be read since it was last written
          raced    \* two requests have overlapped

Init == value \in Value /\ asked = {} /\ unsure = FALSE /\ raced = FALSE

Ask == /\ asked = {} /\ \E q \in Request : asked' = {q}
       /\ UNCHANGED <<value, unsure>>

Save == /\ \E q \in asked : \/ value' = Changed(q, value)
                            \/ unsure /\ value' = Changed(q, Default)
        /\ asked' = {} /\ unsure' = FALSE

\* The request fails.
Drop == asked' = {} /\ UNCHANGED <<value, unsure>>

Misread == unsure' = TRUE /\ UNCHANGED <<value, asked>>

Restart == asked' = {} /\ unsure' = FALSE /\ UNCHANGED value

Next == IF raced' THEN value' \in Value
        ELSE ~raced /\ (Ask \/ Save \/ Drop \/ Misread \/ Restart)

Spec == Init /\ [][Next]_<<value, asked, unsure, raced>>

=============================================================================
