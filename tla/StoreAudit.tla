----------------------------- MODULE StoreAudit -----------------------------
(***************************************************************************)
(* What UpdateNode, DeleteNode and rollTraffic promise about a node, told  *)
(* apart from the races in which they do not keep it: the handlers read a  *)
(* node, release it and write it later, and drop the errors of their       *)
(* statements.  Two history variables remember which nodes had such a race *)
(* and whose period has been edited; the store itself is Store's.          *)
(***************************************************************************)
EXTENDS Store

VARIABLES
  raced,  \* nodes that had a race or a lost statement
  edited  \* nodes whose new period has no baseline of its own yet

auditVars == <<vars, raced, edited>>

\* A heartbeat of n has got its metadata, and an admin request about n is between
\* its transaction and the end of its work.
Crossing(n) ==
  /\ \E p \in Poster : proc[p].node = n /\ proc[p].pc # "auth"
  /\ \E a \in Admin : proc[a].node = n

\* SetTrafficBaseline for n ends without its baseline: a stop or a failure.
CutOff(n) ==
  \E a \in Admin :
    /\ proc[a].node = n /\ proc[a].pc \in {"anchor", "write"} /\ proc'[a] = Idle
    /\ proc[a].pc = "anchor" \/ traffic'[n] # proc[a].st

\* rollTraffic failed to load the baseline of n and starts a new one.
Misread(n) ==
  \E p \in Poster :
    /\ proc[p].node = n /\ proc[p].pc = "roll" /\ proc'[p].pc = "write"
    /\ traffic[n].resetAt # 0 /\ now < traffic[n].resetAt

AuditInit == Init /\ raced = {} /\ edited = {}

AuditNext ==
  /\ Next
  /\ raced' = raced \cup {n \in Node : Crossing(n)' \/ CutOff(n) \/ Misread(n)}
  /\ edited' = {n \in Node : \/ meta'[n].period # meta[n].period
                             \/ n \in edited /\ \E a \in Admin : proc'[a].node = n}

AuditSpec == AuditInit /\ [][AuditNext]_auditVars

-----------------------------------------------------------------------------
(* Properties *)

\* Nothing is being done for node n.
Settled(n) == \A g \in Goroutine : proc[g].node # n

\* rollTraffic re-baselines the counters on rollover, and only then, or when the
\* admin changes the period: not for a restart, an edit of anything else, nor for
\* a heartbeat that was already being served when the period rolled.
RolloverOnly ==
  [][\A n \in rows \cap rows' :
       traffic[n].resetAt # 0 /\ traffic'[n] # traffic[n]
         => now >= traffic[n].resetAt \/ n \in raced' \cup edited]_auditVars

\* UpdateNode: "Changing the traffic period re-anchors the accounting baseline
\* so the new quota starts counting from now".  Once the update is over the next
\* reset is at most one period of the new length away, unless the update crossed
\* a heartbeat or was cut off.
PeriodReanchored ==
  \A n \in rows \ raced :
    Settled(n) /\ meta[n].period > 0
      => traffic[n].resetAt <= now + meta[n].period * Day

\* DeleteNode "removes a node, its live state, and its persisted samples", also
\* when the hub stops halfway, unless it crossed a heartbeat of the node.
DeletedLeavesNothing ==
  \A n \in minted \ (rows \cup raced) :
    Settled(n) => /\ live[n] = Unseen /\ history[n] = <<>> /\ lastPersist[n] = 0
                  /\ samples[n] = {}

=============================================================================
