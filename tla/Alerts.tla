------------------------------- MODULE Alerts -------------------------------
(***************************************************************************)
(* The webhook alerts of the hub (internal/hub/webhook.go): checkAlerts    *)
(* runs on the sweeper's ticker and in one goroutine per heartbeat.  It    *)
(* reads the nodes without the mutex of alertState, then takes the mutex,  *)
(* compares what it read with the state earlier checks left, releases it   *)
(* and posts.  Several checks may overlap, and each step below is one of   *)
(* their critical sections or waits.                                       *)
(*                                                                         *)
(* Of the store it keeps what ListStatus gives to checkAlerts: the rows,   *)
(* the time of a node's last heartbeat, and whether its usage is above the *)
(* threshold.  The last two changes of usage are numbered: crossing[n] is  *)
(* odd while the usage of n is above WEBHOOK_TRAFFIC_PCT of its quota.     *)
(***************************************************************************)
EXTENDS Naturals, FiniteSets

CONSTANTS
  Node,
  Sweeper,       \* the goroutine of sweepLoop
  Handler,       \* goroutines a heartbeat starts with "go s.checkAlerts()"
  OfflineAfter,  \* StoreOptions.OfflineAfter, in ticks
  Overlap,       \* a check may start before the one before it is over
  Restarts,      \* the hub may be restarted
  DBFails,       \* ListStatus may fail, or lose the usage of a node
  MaxTime, MaxCrossing \* bounds of the exploration

ASSUME CheckerAssumption == Sweeper \notin Handler
ASSUME OptionAssumption == OfflineAfter \in Nat \ {0}
ASSUME SwitchAssumption ==
  Overlap \in BOOLEAN /\ Restarts \in BOOLEAN /\ DBFails \in BOOLEAN
ASSUME BoundAssumption == MaxTime \in Nat /\ MaxCrossing \in Nat

VARIABLES
  now,             \* the hub's clock; starts at 1, so that 0 is "never"
  nodes,           \* ids of the rows
  forgetting,      \* deleted nodes whose live state is still there
  seen,            \* time of the last heartbeat, 0 = none since the hub started
  crossing,        \* how often the usage crossed the threshold, up or down
  known,           \* keys of alertState.wasOnline
  wasOnline,       \* keys of wasOnline with the value true
  offlineAlerted,  \* time of the alert, 0 = no entry
  trafficAlerted,  \* keys of trafficAlerted
  errLogged,
  check,           \* the checks in progress
  unread,          \* history: nodes over the threshold whose usage the last list
                   \* to be applied had lost
  posted           \* the payloads checks decided to send, those of traffic alerts
                   \* since the hub started

store  == <<nodes, forgetting, seen, crossing>>
alerts == <<known, wasOnline, offlineAlerted, trafficAlerted, errLogged>>
history == <<unread, posted>>
vars   == <<now, store, alerts, check, history>>

Checker == {Sweeper} \cup Handler

\* The payload names the outage by its last_seen; the crossing stands for the
\* pct, used and quota of a traffic alert.
Payload == [event : {"offline", "traffic"}, node : Node, id : Nat]

\* rows and the rest are the list ListStatus returns; toSend is a set, which
\* allows any order of the posts.
Frame == [pc : {"idle", "query", "read", "apply", "post"}, rows : SUBSET Node,
          online : SUBSET Node, over : SUBSET Node, unread : SUBSET Node,
          seen : [Node -> Nat],
          crossing : [Node -> Nat], toSend : SUBSET Payload]
Idle == [pc |-> "idle", rows |-> {}, online |-> {}, over |-> {}, unread |-> {},
         seen |-> [n \in Node |-> 0], crossing |-> [n \in Node |-> 0], toSend |-> {}]

-----------------------------------------------------------------------------
\* ListStatus: a node with a last heartbeat that is recent enough.
Online(n) == seen[n] # 0 /\ now - seen[n] < OfflineAfter

\* What computeTraffic reports when it has the baseline: no usage for a node
\* without metrics.
Over(n) == seen[n] # 0 /\ crossing[n] % 2 = 1

Cooldown == 2 * OfflineAfter

Init ==
  /\ now = 1
  /\ nodes = Node /\ forgetting = {}
  /\ seen = [n \in Node |-> 0]
  /\ crossing = [n \in Node |-> 0]
  /\ known = {} /\ wasOnline = {} /\ trafficAlerted = {}
  /\ offlineAlerted = [n \in Node |-> 0]
  /\ errLogged = FALSE
  /\ check = [c \in Checker |-> Idle]
  /\ posted = {} /\ unread = {}

-----------------------------------------------------------------------------
(* checkAlerts *)

\* Without Overlap heartbeats are farther apart than a check takes.
MayStart == Overlap \/ \A c \in Checker : check[c].pc \notin {"read", "apply"}

\* A tick of the sweeper, or the goroutine a heartbeat started: ListStatus
\* opens its query on the nodes table.
Query(c) ==
  /\ check[c].pc = IF c = Sweeper THEN "idle" ELSE "query"
  /\ MayStart
  /\ check' = [check EXCEPT ![c] = [Idle EXCEPT !.pc = "read", !.rows = nodes]]
  /\ UNCHANGED <<now, store, alerts, history>>

\* ListStatus takes s.mu and goes over the rows, with one reading of the clock.
\* A load of the baseline that fails (loadTraffic) is not reported: the usage of
\* the node is listed as 0, which is not over the threshold.
Read(c) ==
  LET rows == check[c].rows
      over == {n \in rows : Over(n)}
  IN
  /\ check[c].pc = "read"
  /\ \E failed \in SUBSET over :
       /\ failed = {} \/ DBFails
       /\ check' = [check EXCEPT ![c].pc = "apply",
                                 ![c].online = {n \in rows : Online(n)},
                                 ![c].over = over \ failed,
                                 ![c].unread = failed,
                                 ![c].seen = seen,
                                 ![c].crossing = crossing]
  /\ UNCHANGED <<now, store, alerts, history>>

\* ListStatus fails: checkAlerts returns.
Fail(c) ==
  /\ DBFails
  /\ check[c].pc = "read"
  /\ check' = [check EXCEPT ![c] = Idle]
  /\ UNCHANGED <<now, store, alerts, history>>

\* Mutants: the previous state of the node is ignored, or the test of an
\* earlier alert is inverted.
WentOfflineAgain(f) ==
  {n \in f.rows \ f.online :
     /\ n \in known
     /\ offlineAlerted[n] = 0 \/ now - offlineAlerted[n] >= Cooldown}
WentOfflineFired(f) ==
  {n \in f.rows \ f.online :
     /\ n \in wasOnline
     /\ offlineAlerted[n] # 0 /\ now - offlineAlerted[n] >= Cooldown}

\* The nodes of the list to alert about.
WentOffline(f) ==
  {n \in f.rows \ f.online :
     /\ n \in wasOnline
     /\ offlineAlerted[n] = 0 \/ now - offlineAlerted[n] >= Cooldown}
WentOver(f) == f.over \ trafficAlerted

\* Mutant: the payload has a wrong event name.
ToSendMisnamed(f) ==
  {[event |-> "node", node |-> n, id |-> f.seen[n]] : n \in WentOffline(f)}
    \cup {[event |-> "traffic", node |-> n, id |-> f.crossing[n]] : n \in WentOver(f)}

ToSend(f) ==
  {[event |-> "offline", node |-> n, id |-> f.seen[n]] : n \in WentOffline(f)}
    \cup {[event |-> "traffic", node |-> n, id |-> f.crossing[n]] : n \in WentOver(f)}

\* Mutant: coming back online does not clear the entry.
NextOfflineAlertedKept(f, n) ==
  IF n \in WentOffline(f) THEN now
  ELSE IF n \in known \ f.rows THEN 0
  ELSE offlineAlerted[n]

\* The entry of offlineAlerted after the loops, for the list f.
NextOfflineAlerted(f, n) ==
  IF n \in WentOffline(f) THEN now
  ELSE IF n \in f.online \/ n \in known \ f.rows THEN 0
  ELSE offlineAlerted[n]

\* Mutants: the second loop skips trafficAlerted, or the alert of a node that
\* is offline is forgotten.
NextTrafficAlertedKept(f) == f.over \cup (trafficAlerted \ f.rows)
NextTrafficAlertedOnline(f) ==
  (f.over \cap f.online) \cup (trafficAlerted \ (f.rows \cup known))

NextTrafficAlerted(f) == f.over \cup (trafficAlerted \ (f.rows \cup known))

\* The section under alerts.mu: the loop over the list, then the loop that
\* drops the nodes that are not in it.  The clock is read just before.
Apply(c) ==
  LET f == check[c] IN
  /\ f.pc = "apply"
  /\ known' = f.rows
  /\ wasOnline' = f.online
  /\ offlineAlerted' = [n \in Node |-> NextOfflineAlerted(f, n)]
  /\ trafficAlerted' = NextTrafficAlerted(f)
  /\ posted' = posted \cup ToSend(f)
  /\ unread' = f.unread
  /\ check' = [check EXCEPT ![c] = IF ToSend(f) = {} THEN Idle
                                   ELSE [Idle EXCEPT !.pc = "post", !.toSend = ToSend(f)]]
  /\ UNCHANGED <<now, store, errLogged>>

\* postWebhook: one attempt, which the timeout ends; a failure is logged once.
Post(c, x, delivered) ==
  LET rest == check[c].toSend \ {x} IN
  /\ check[c].pc = "post" /\ x \in check[c].toSend
  /\ errLogged' = ~delivered
  /\ check' = [check EXCEPT ![c] = IF rest = {} THEN Idle
                                   ELSE [Idle EXCEPT !.pc = "post", !.toSend = rest]]
  /\ UNCHANGED <<now, store, known, wasOnline, offlineAlerted, trafficAlerted, history>>

CheckAlerts(c) ==
  \/ Query(c) \/ Read(c) \/ Fail(c) \/ Apply(c)
  \/ \E x \in check[c].toSend, delivered \in BOOLEAN : Post(c, x, delivered)

-----------------------------------------------------------------------------
(* The rest of the hub *)

\* handleHeartbeat saves the heartbeat and starts a check.
HandleHeartbeat(n, h) ==
  /\ n \in nodes /\ check[h].pc = "idle"
  /\ seen' = [seen EXCEPT ![n] = now]
  /\ check' = [check EXCEPT ![h].pc = "query"]
  /\ UNCHANGED <<now, nodes, forgetting, crossing, alerts, history>>

\* The usage of a node crosses the threshold: by traffic, the end of the
\* period, or a change of the quota.
CrossThreshold(n) ==
  /\ n \in nodes /\ crossing[n] < MaxCrossing
  /\ crossing' = [crossing EXCEPT ![n] = @ + 1]
  /\ UNCHANGED <<now, nodes, forgetting, seen, alerts, check, history>>

\* DeleteNode: the transaction, then the live state under s.mu.
DeleteNode(n) ==
  /\ n \in nodes
  /\ nodes' = nodes \ {n} /\ forgetting' = forgetting \cup {n}
  /\ UNCHANGED <<now, seen, crossing, alerts, check, history>>

ForgetNode(n) ==
  /\ n \in forgetting
  /\ forgetting' = forgetting \ {n}
  /\ seen' = [seen EXCEPT ![n] = 0]
  /\ UNCHANGED <<now, nodes, crossing, alerts, check, history>>

\* A new process: newAlertState, and a Store that has no live state yet.
Restart ==
  /\ Restarts
  /\ forgetting' = {}
  /\ seen' = [n \in Node |-> 0]
  /\ known' = {} /\ wasOnline' = {} /\ trafficAlerted' = {}
  /\ offlineAlerted' = [n \in Node |-> 0]
  /\ errLogged' = FALSE
  /\ check' = [c \in Checker |-> Idle]
  /\ posted' = {x \in posted : x.event = "offline"}
  /\ unread' = {}
  /\ UNCHANGED <<now, nodes, crossing>>

Tick ==
  /\ now < MaxTime
  /\ now' = now + 1
  /\ UNCHANGED <<store, alerts, check, history>>

Next ==
  \/ \E c \in Checker : CheckAlerts(c)
  \/ \E n \in Node : \/ \E h \in Handler : HandleHeartbeat(n, h)
                     \/ CrossThreshold(n) \/ DeleteNode(n) \/ ForgetNode(n)
  \/ Restart \/ Tick

Spec == Init /\ [][Next]_vars

\* The ticker fires, a started check goes on, and a post ends by its timeout.
FairSpec == Spec /\ \A c \in Checker : WF_vars(CheckAlerts(c))

-----------------------------------------------------------------------------
(* Properties *)

TypeOK ==
  /\ now \in Nat
  /\ nodes \subseteq Node /\ forgetting \subseteq Node
  /\ seen \in [Node -> Nat] /\ crossing \in [Node -> Nat]
  /\ known \subseteq Node /\ wasOnline \subseteq Node /\ trafficAlerted \subseteq Node
  /\ offlineAlerted \in [Node -> Nat]
  /\ errLogged \in BOOLEAN
  /\ check \in [Checker -> Frame]
  /\ unread \subseteq Node
  /\ posted \subseteq Payload

\* A node that came back is armed again: whatever checks overlap, the debounce
\* of checkAlerts cannot swallow its next outage.
Armed == \A n \in wasOnline : offlineAlerted[n] = 0

\* The second loop of checkAlerts looks at the keys of wasOnline only, so they
\* must cover the other two maps, or entries of deleted nodes would stay.
KeysCovered == trafficAlerted \cup {n \in Node : offlineAlerted[n] # 0} \subseteq known

\* The payloads of event e that check c decides on in this step.
Decided(c, e) ==
  IF check[c].pc = "apply" /\ check'[c].pc # "apply"
  THEN {x \in check'[c].toSend : x.event = e} ELSE {}

\* README: an offline alert is sent once for a node until it is back online.
OncePerOutage == [][\A c \in Checker : Decided(c, "offline") \cap posted = {}]_vars

\* README: a traffic alert is sent again only after the usage has fallen below
\* the threshold.  There are two exceptions.  The debounce is in memory: a new
\* process may repeat an alert.  And a check that could not load the usage of a
\* node takes it for 0 and forgets the alert: the next one, and no later one, may
\* repeat it.
OncePerCrossing ==
  [][\A c \in Checker : \A x \in Decided(c, "traffic") \cap posted : x.node \in unread]_vars

\* README: node.offline is about a node that went from online to offline and
\* carries its last_seen.  That holds of every node that is not deleted: a check
\* that listed a node before DeleteNode and reads seen after it sends an alert
\* without a last_seen.
OfflineHasLastSeen ==
  \A x \in posted : x.event = "offline" /\ x.node \in nodes => x.id # 0

\* A node that was online in the eyes of a check and has gone silent is
\* alerted about, unless it comes back or is deleted first, however many checks
\* overlap.
OutageReported ==
  \A n \in Node :
    n \in wasOnline /\ ~Online(n)
      ~> offlineAlerted[n] # 0 \/ Online(n) \/ n \notin nodes

\* The alert state of a deleted node is dropped for good, also when a check
\* that had listed the node before the deletion finishes after a later one.
DeletedForgotten ==
  \A n \in Node : n \notin nodes ~> [](n \notin known \cup trafficAlerted)

=============================================================================
