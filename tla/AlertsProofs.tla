---------------------------- MODULE AlertsProofs ----------------------------
(***************************************************************************)
(* The first half: the type invariant of Alerts and the two facts the      *)
(* debounce of checkAlerts rests on, for any number of nodes and of        *)
(* overlapping checks, with restarts and failing lists.  The second half:  *)
(* one alert for an outage and for a crossing, and every alert with the    *)
(* time of the last heartbeat, when checks do not overlap.                 *)
(*                                                                         *)
(* KeysCovered is not inductive: it needs that a list a check still has to *)
(* apply reports as over the threshold only nodes it contains (ListInv).   *)
(***************************************************************************)
EXTENDS Alerts, TLAPS

\* The parts of a list are about its rows.
ListInv == \A c \in Checker : check[c].over \subseteq check[c].rows

Inv == TypeOK /\ Armed /\ KeysCovered /\ ListInv

\* An idle check is a check: Idle is of the type of a frame.
LEMMA IdleType == Idle \in Frame
  BY DEF Idle, Frame

\* The payloads a list leads to are payloads, for a list of known nodes.
LEMMA ToSendType ==
  ASSUME NEW f \in Frame PROVE ToSend(f) \subseteq Payload
<1>1. WentOffline(f) \subseteq Node /\ WentOver(f) \subseteq Node
  BY DEF WentOffline, WentOver, Frame
<1>2. f.seen \in [Node -> Nat] /\ f.crossing \in [Node -> Nat]
  BY DEF Frame
<1> QED  BY <1>1, <1>2 DEF ToSend, Payload

\* Replacing the frame of one check keeps the map of checks well typed.
LEMMA CheckType ==
  ASSUME check \in [Checker -> Frame], NEW c \in Checker, NEW f \in Frame,
         check' = [check EXCEPT ![c] = f]
  PROVE  check' \in [Checker -> Frame]
  OBVIOUS

\* The hub starts in a state of the invariant.
LEMMA InitInv == Init => Inv
<1> SUFFICES ASSUME Init PROVE Inv
  OBVIOUS
<1>1. TypeOK
  BY IdleType DEF Init, TypeOK
<1>2. Armed /\ KeysCovered
  BY DEF Init, Armed, KeysCovered
<1>3. ListInv
  BY DEF Init, ListInv, Idle
<1> QED  BY <1>1, <1>2, <1>3 DEF Inv

\* Every step of a check and of the rest of the hub keeps the types.
LEMMA TypeStep == TypeOK /\ [Next]_vars => TypeOK'
<1> SUFFICES ASSUME TypeOK, [Next]_vars PROVE TypeOK'
  OBVIOUS
<1> USE DEF TypeOK
<1>1. ASSUME NEW c \in Checker, Query(c) PROVE TypeOK'
  <2> DEFINE f == [Idle EXCEPT !.pc = "read", !.rows = nodes]
  <2>1. f \in Frame
    BY DEF Idle, Frame
  <2>2. check' \in [Checker -> Frame]
    BY <1>1, <2>1, CheckType DEF Query
  <2> QED  BY <1>1, <2>2 DEF Query, store, alerts, history
<1>2. ASSUME NEW c \in Checker, Read(c) PROVE TypeOK'
  <2> DEFINE rows == check[c].rows
             over == {n \in rows : Over(n)}
  <2>0. PICK failed \in SUBSET over :
          check' = [check EXCEPT ![c].pc = "apply",
                                 ![c].online = {n \in rows : Online(n)},
                                 ![c].over = over \ failed,
                                 ![c].unread = failed,
                                 ![c].seen = seen,
                                 ![c].crossing = crossing]
    BY <1>2 DEF Read
  <2> DEFINE f == [check[c] EXCEPT !.pc = "apply",
                                   !.online = {n \in rows : Online(n)},
                                   !.over = over \ failed,
                                   !.unread = failed,
                                   !.seen = seen,
                                   !.crossing = crossing]
  <2>1. check[c] \in Frame /\ rows \subseteq Node
    BY DEF Frame
  <2>2. f \in Frame
    BY <2>1 DEF Frame
  <2>3. check' = [check EXCEPT ![c] = f]
    BY <2>0, <2>1 DEF Frame
  <2>4. check' \in [Checker -> Frame]
    BY <2>2, <2>3, CheckType
  <2> QED  BY <1>2, <2>4 DEF Read, store, alerts, history
<1>3. ASSUME NEW c \in Checker, Fail(c) PROVE TypeOK'
  <2>1. check' \in [Checker -> Frame]
    BY <1>3, IdleType, CheckType DEF Fail
  <2> QED  BY <1>3, <2>1 DEF Fail, store, alerts, history
<1>4. ASSUME NEW c \in Checker, Apply(c) PROVE TypeOK'
  <2> DEFINE f == check[c]
             g == IF ToSend(f) = {} THEN Idle
                  ELSE [Idle EXCEPT !.pc = "post", !.toSend = ToSend(f)]
  <2>1. f \in Frame /\ f.rows \subseteq Node /\ f.online \subseteq Node /\ f.over \subseteq Node
    BY DEF Frame
  <2>2. ToSend(f) \subseteq Payload
    BY <2>1, ToSendType
  <2>3. g \in Frame
    BY <2>2, IdleType DEF Idle, Frame
  <2>4. check' \in [Checker -> Frame]
    BY <1>4, <2>3, CheckType DEF Apply
  <2>5. posted' \subseteq Payload
    BY <1>4, <2>2 DEF Apply
  <2>6. offlineAlerted' \in [Node -> Nat]
    BY <1>4 DEF Apply, NextOfflineAlerted
  <2>7. /\ known' \subseteq Node /\ wasOnline' \subseteq Node /\ trafficAlerted' \subseteq Node
        /\ unread' \subseteq Node
    BY <1>4, <2>1 DEF Apply, NextTrafficAlerted, Frame
  <2> QED  BY <1>4, <2>4, <2>5, <2>6, <2>7 DEF Apply, store
<1>5. ASSUME NEW c \in Checker, NEW x \in check[c].toSend, NEW delivered \in BOOLEAN,
             Post(c, x, delivered)
      PROVE  TypeOK'
  <2> DEFINE rest == check[c].toSend \ {x}
             g == IF rest = {} THEN Idle ELSE [Idle EXCEPT !.pc = "post", !.toSend = rest]
  <2>1. check[c] \in Frame
    OBVIOUS
  <2>2. g \in Frame
    BY <2>1, IdleType DEF Frame, Idle
  <2>3. check' = [check EXCEPT ![c] = g]
    BY <1>5 DEF Post
  <2>4. check' \in [Checker -> Frame]
    BY <2>2, <2>3, CheckType
  <2> QED  BY <1>5, <2>4 DEF Post, store, history
<1>6. ASSUME NEW n \in Node, NEW h \in Handler, HandleHeartbeat(n, h) PROVE TypeOK'
  <2>1. h \in Checker /\ check[h] \in Frame
    BY DEF Checker
  <2>2. [check[h] EXCEPT !.pc = "query"] \in Frame
    BY <2>1 DEF Frame
  <2>3. check' \in [Checker -> Frame]
    BY <1>6, <2>1, <2>2 DEF HandleHeartbeat
  <2> QED  BY <1>6, <2>3 DEF HandleHeartbeat, alerts, history
<1>7. ASSUME NEW n \in Node, CrossThreshold(n) \/ DeleteNode(n) \/ ForgetNode(n)
      PROVE  TypeOK'
  BY <1>7 DEF CrossThreshold, DeleteNode, ForgetNode, alerts, history
<1>8. ASSUME Restart PROVE TypeOK'
  BY <1>8, IdleType DEF Restart
<1>9. ASSUME Tick PROVE TypeOK'
  BY <1>9 DEF Tick, store, alerts, history
<1>10. ASSUME UNCHANGED vars PROVE TypeOK'
  BY <1>10 DEF vars, store, alerts, history
<1> QED
  BY <1>1, <1>2, <1>3, <1>4, <1>5, <1>6, <1>7, <1>8, <1>9, <1>10 DEF Next, CheckAlerts

\* The alert state changes in Apply and Restart only, the lists in Read.
LEMMA InvStep == Inv /\ [Next]_vars => Inv'
<1> SUFFICES ASSUME Inv, [Next]_vars PROVE Inv'
  OBVIOUS
<1>t. TypeOK /\ TypeOK'
  BY TypeStep DEF Inv
<1> DEFINE Goal == (Armed /\ KeysCovered /\ ListInv)'
           Same == UNCHANGED <<known, wasOnline, offlineAlerted, trafficAlerted>>
<1>a. Same => (Armed /\ KeysCovered)'
  BY DEF Inv, Armed, KeysCovered
<1>1. ASSUME NEW c \in Checker, Query(c) PROVE Goal
  <2>1. ListInv'
    BY <1>1, <1>t DEF Query, Inv, ListInv, TypeOK, Idle
  <2> QED  BY <1>1, <1>a, <2>1 DEF Query, alerts
<1>2. ASSUME NEW c \in Checker, Read(c) PROVE Goal
  <2>1. check[c] \in Frame
    BY <1>t DEF TypeOK
  <2> DEFINE over == {n \in check[c].rows : Over(n)}
  <2>2. PICK failed \in SUBSET over :
          check' = [check EXCEPT ![c].pc = "apply",
                                 ![c].online = {n \in check[c].rows : Online(n)},
                                 ![c].over = over \ failed,
                                 ![c].unread = failed,
                                 ![c].seen = seen,
                                 ![c].crossing = crossing]
    BY <1>2 DEF Read
  <2>3. check'[c].rows = check[c].rows /\ check'[c].over \subseteq check[c].rows
    BY <1>t, <2>1, <2>2 DEF TypeOK, Frame
  <2>4. \A d \in Checker \ {c} : check'[d] = check[d]
    BY <1>t, <2>2 DEF TypeOK
  <2>5. ListInv'
    BY <2>3, <2>4 DEF Inv, ListInv
  <2> QED  BY <1>2, <1>a, <2>5 DEF Read, alerts
<1>3. ASSUME NEW c \in Checker, Fail(c) PROVE Goal
  <2>1. ListInv'
    BY <1>3, <1>t DEF Fail, Inv, ListInv, TypeOK, Idle
  <2> QED  BY <1>3, <1>a, <2>1 DEF Fail, alerts
<1>4. ASSUME NEW c \in Checker, Apply(c) PROVE Goal
  <2> DEFINE f == check[c]
  <2>1. f \in Frame /\ f.over \subseteq f.rows
    BY <1>t DEF TypeOK, Inv, ListInv
  <2>2. Armed'
    <3>1. \A n \in f.online : NextOfflineAlerted(f, n) = 0
      BY DEF NextOfflineAlerted, WentOffline
    <3>2. f.online \subseteq Node
      BY <2>1 DEF Frame
    <3> QED  BY <1>4, <3>1, <3>2 DEF Apply, Armed
  <2>3. KeysCovered'
    <3>1. \A n \in Node : NextOfflineAlerted(f, n) # 0 => n \in f.rows
      BY DEF NextOfflineAlerted, WentOffline, Inv, KeysCovered
    <3>2. NextTrafficAlerted(f) \subseteq f.rows
      BY <2>1 DEF NextTrafficAlerted, Inv, KeysCovered
    <3> QED  BY <1>4, <3>1, <3>2 DEF Apply, KeysCovered
  <2>4. ListInv'
    BY <1>4, <1>t DEF Apply, Inv, ListInv, TypeOK, Idle
  <2> QED  BY <2>2, <2>3, <2>4
<1>5. ASSUME NEW c \in Checker, NEW x \in check[c].toSend, NEW delivered \in BOOLEAN,
             Post(c, x, delivered)
      PROVE  Goal
  <2>1. check[c] \in Frame
    BY <1>t DEF TypeOK
  <2>2. check'[c].over \subseteq check'[c].rows
    BY <1>5, <1>t, <2>1 DEF Post, Inv, ListInv, TypeOK, Idle, Frame
  <2>3. \A d \in Checker \ {c} : check'[d] = check[d]
    BY <1>5, <1>t DEF Post, TypeOK
  <2>4. ListInv'
    BY <2>2, <2>3 DEF Inv, ListInv
  <2> QED  BY <1>5, <1>a, <2>4 DEF Post
<1>6. ASSUME NEW n \in Node, NEW h \in Handler, HandleHeartbeat(n, h) PROVE Goal
  <2>1. h \in Checker /\ check[h] \in Frame
    BY <1>t DEF TypeOK, Checker
  <2>2. check'[h].over = check[h].over /\ check'[h].rows = check[h].rows
    BY <1>6, <1>t, <2>1 DEF HandleHeartbeat, TypeOK, Frame
  <2>3. \A d \in Checker \ {h} : check'[d] = check[d]
    BY <1>6, <1>t, <2>1 DEF HandleHeartbeat, TypeOK
  <2>4. ListInv'
    BY <2>2, <2>3, <2>1 DEF Inv, ListInv
  <2> QED  BY <1>6, <1>a, <2>4 DEF HandleHeartbeat, alerts
<1>7. ASSUME NEW n \in Node, CrossThreshold(n) \/ DeleteNode(n) \/ ForgetNode(n)
      PROVE  Goal
  BY <1>7, <1>a DEF CrossThreshold, DeleteNode, ForgetNode, alerts, Inv, ListInv
<1>8. ASSUME Restart PROVE Goal
  BY <1>8 DEF Restart, Armed, KeysCovered, ListInv, Idle
<1>9. ASSUME Tick \/ UNCHANGED vars PROVE Goal
  BY <1>9, <1>a DEF Tick, vars, store, alerts, Inv, ListInv
<1>10. Goal
  BY <1>1, <1>2, <1>3, <1>4, <1>5, <1>6, <1>7, <1>8, <1>9 DEF Next, CheckAlerts
<1> QED  BY <1>10, <1>t DEF Inv

\* Every variable of the alerts stays in its type.
THEOREM AlertsTyped == Spec => []TypeOK
<1>1. Init => TypeOK
  BY InitInv DEF Inv
<1> QED  BY <1>1, TypeStep, PTL DEF Spec

\* A node that checkAlerts has seen online has no entry in offlineAlerted, in
\* whatever order overlapping checks apply their lists: its next outage is
\* alerted about, and the cooldown test of checkAlerts decides nothing.
THEOREM DebounceArmed == Spec => []Armed
<1>1. Inv => Armed
  BY DEF Inv
<1> QED  BY <1>1, InitInv, InvStep, PTL DEF Spec

\* The loop of checkAlerts over the keys of wasOnline reaches every entry of
\* offlineAlerted and trafficAlerted: none outlives its node for want of a key.
THEOREM AlertKeysCovered == Spec => []KeysCovered
<1>1. Inv => KeysCovered
  BY DEF Inv
<1> QED  BY <1>1, InitInv, InvStep, PTL DEF Spec

-----------------------------------------------------------------------------
(* Checks that do not overlap *)

\* Check c goes over a list it has begun.
Reading(c) == check[c].pc \in {"read", "apply"}

Serial == \A c, d \in Checker : Reading(c) /\ Reading(d) => c = d

\* A list misses no row there is, and only a deleted node loses its live state.
RowsInv ==
  /\ now > 0 /\ forgetting \cap nodes = {}
  /\ \A c \in Checker : Reading(c) =>
       nodes \subseteq check[c].rows /\ check[c].online \subseteq check[c].rows

\* No check will ever list n again.
Lost(n) == n \notin nodes /\ \A c \in Checker : Reading(c) => n \notin check[c].rows

Outage(n, id) == [event |-> "offline", node |-> n, id |-> id]
Crossed(n, id) == [event |-> "traffic", node |-> n, id |-> id]

\* An outage that has been posted is over as soon as the node is heard of again,
\* and one without a last_seen is the last of its node.
OutageInv ==
  \A n \in Node, id \in Nat : Outage(n, id) \in posted =>
    /\ id # 0 => id + OfflineAfter <= now
    /\ id = 0 => Lost(n) /\ n \notin wasOnline

\* The outage that may begin at a node seen online has not been posted.
OnlineInv ==
  \A n \in wasOnline : Outage(n, seen[n]) \notin posted /\ (n \in nodes => seen[n] # 0)

\* The same of the lists still to be applied.
OutageListInv ==
  \A c \in Checker : check[c].pc = "apply" =>
    LET f == check[c] IN
    /\ \A n \in f.online : Outage(n, seen[n]) \notin posted /\ (n \in nodes => seen[n] # 0)
    /\ \A n \in f.rows \ f.online : f.seen[n] = 0 \/ f.seen[n] + OfflineAfter <= now
    /\ \A n \in wasOnline : n \in nodes => f.seen[n] # 0
    /\ \A n \in wasOnline \cap f.rows : Outage(n, f.seen[n]) \notin posted

\* A crossing that has been posted is an upward one; the alert is remembered as
\* long as it lasts, unless the last list has lost the usage of the node.
CrossingInv ==
  \A n \in Node, id \in Nat : Crossed(n, id) \in posted =>
    /\ id % 2 = 1 /\ id <= crossing[n]
    /\ n \in nodes => seen[n] # 0
    /\ n \in trafficAlerted \/ id < crossing[n] \/ Lost(n) \/ n \in unread

CrossingListInv ==
  \A c \in Checker : check[c].pc = "apply" =>
    LET f == check[c] IN
    /\ \A n \in f.over : /\ f.crossing[n] % 2 = 1 /\ f.crossing[n] <= crossing[n]
                         /\ (n \in nodes => seen[n] # 0)
                         /\ n \notin trafficAlerted \cup unread =>
                              Crossed(n, f.crossing[n]) \notin posted
    /\ \A n \in f.rows \ f.over, id \in Nat :
         Crossed(n, id) \in posted => id < crossing[n] \/ n \notin nodes \/ n \in f.unread

SerialInv ==
  Serial /\ RowsInv /\ OutageInv /\ OnlineInv /\ OutageListInv /\ CrossingInv /\ CrossingListInv

-----------------------------------------------------------------------------

\* A step that touches neither alerts nor lists: time passes, a node is heard of
\* or goes, a check stops.
LEMMA QuietStep ==
  ASSUME TypeOK, TypeOK', SerialInv,
         UNCHANGED <<known, wasOnline, offlineAlerted, trafficAlerted, history>>,
         now <= now', nodes' \subseteq nodes, forgetting' \cap nodes' = {},
         \A n \in Node : crossing[n] <= crossing'[n],
         \A n \in Node : \/ seen'[n] = seen[n] \/ seen'[n] = now
                         \/ seen'[n] = 0 /\ n \notin nodes',
         \A c \in Checker : Reading(c)' => check'[c] = check[c]
  PROVE  SerialInv'
<1>0. /\ seen \in [Node -> Nat] /\ crossing \in [Node -> Nat] /\ now \in Nat
      /\ seen' \in [Node -> Nat] /\ crossing' \in [Node -> Nat] /\ now' \in Nat
      /\ wasOnline \subseteq Node /\ OfflineAfter \in Nat \ {0}
      /\ nodes \subseteq Node
      /\ UNCHANGED <<posted, unread>>
  BY OptionAssumption DEF TypeOK, history
<1>1. \A c \in Checker : Reading(c)' => Reading(c) BY DEF Reading
<1>2. Serial' BY <1>1 DEF SerialInv, Serial
<1>3. RowsInv' BY <1>0, <1>1 DEF SerialInv, RowsInv
<1>4. \A n \in Node : Lost(n) => Lost(n)' BY <1>1 DEF Lost
<1>5. OutageInv' BY <1>0, <1>4 DEF SerialInv, OutageInv
<1>6. ASSUME NEW n \in Node, Outage(n, seen[n]) \notin posted, n \in nodes => seen[n] # 0,
             n \in wasOnline \/ \E c \in Checker : Reading(c) /\ n \in check[c].rows
      PROVE  Outage(n, seen'[n]) \notin posted /\ (n \in nodes' => seen'[n] # 0)
  <2>1. Outage(n, 0) \notin posted BY <1>6 DEF SerialInv, OutageInv, Lost
  <2>2. now > 0 /\ Outage(n, now) \notin posted
    BY <1>0 DEF SerialInv, OutageInv, RowsInv
  <2> QED BY <1>6, <2>1, <2>2
<1>7. OnlineInv' BY <1>0, <1>6 DEF SerialInv, OnlineInv, Outage
<1>8. OutageListInv'
  <2> SUFFICES ASSUME NEW c \in Checker, check'[c].pc = "apply"
               PROVE  LET f == check[c] IN
                      /\ \A n \in f.online : Outage(n, seen'[n]) \notin posted /\ (n \in nodes' => seen'[n] # 0)
                      /\ \A n \in f.rows \ f.online : f.seen[n] = 0 \/ f.seen[n] + OfflineAfter <= now'
                      /\ \A n \in wasOnline : n \in nodes' => f.seen[n] # 0
                      /\ \A n \in wasOnline \cap f.rows : Outage(n, f.seen[n]) \notin posted
    BY <1>0 DEF OutageListInv, Reading, Outage
  <2> DEFINE f == check[c]
  <2>1. Reading(c) /\ f.pc = "apply" BY <1>1 DEF Reading
  <2>2. f.online \subseteq f.rows /\ f.rows \subseteq Node /\ f.seen \in [Node -> Nat]
    BY <2>1 DEF SerialInv, RowsInv, TypeOK, Frame
  <2>3. \A n \in f.online : Outage(n, seen'[n]) \notin posted /\ (n \in nodes' => seen'[n] # 0)
    BY <1>6, <2>1, <2>2 DEF SerialInv, OutageListInv
  <2>4. \A n \in f.rows \ f.online : f.seen[n] = 0 \/ f.seen[n] + OfflineAfter <= now'
    BY <1>0, <2>1, <2>2 DEF SerialInv, OutageListInv
  <2>5. /\ \A n \in wasOnline : n \in nodes' => f.seen[n] # 0
        /\ \A n \in wasOnline \cap f.rows : Outage(n, f.seen[n]) \notin posted
    BY <2>1 DEF SerialInv, OutageListInv
  <2> QED BY <2>3, <2>4, <2>5
<1>9. CrossingInv'
  BY <1>0, <1>4 DEF SerialInv, CrossingInv, RowsInv, Crossed
<1>10. CrossingListInv'
  <2> SUFFICES ASSUME NEW c \in Checker, check'[c].pc = "apply"
               PROVE  LET f == check[c] IN
                      /\ \A n \in f.over :
                           /\ f.crossing[n] % 2 = 1 /\ f.crossing[n] <= crossing'[n]
                           /\ (n \in nodes' => seen'[n] # 0)
                           /\ n \notin trafficAlerted \cup unread =>
                                Crossed(n, f.crossing[n]) \notin posted
                      /\ \A n \in f.rows \ f.over, id \in Nat :
                           Crossed(n, id) \in posted =>
                             id < crossing'[n] \/ n \notin nodes' \/ n \in f.unread
    BY <1>0 DEF CrossingListInv, Reading, Crossed
  <2> DEFINE f == check[c]
  <2>1. Reading(c) /\ f.pc = "apply" BY <1>1 DEF Reading
  <2>2. f.over \subseteq Node /\ f.rows \subseteq Node /\ f.crossing \in [Node -> Nat]
    BY <2>1 DEF TypeOK, Frame
  <2>3. now > 0 BY DEF SerialInv, RowsInv
  <2> QED BY <1>0, <2>1, <2>2, <2>3 DEF SerialInv, CrossingListInv
<1> QED BY <1>2, <1>3, <1>5, <1>7, <1>8, <1>9, <1>10 DEF SerialInv

\* A list begins when no other is gone over.
LEMMA QueryStep ==
  ASSUME TypeOK, SerialInv, ~Overlap, NEW c \in Checker, Query(c) PROVE SerialInv'
<1>1. \A d \in Checker : ~Reading(d) BY DEF Query, MayStart, Reading
<1>2. /\ \A d \in Checker \ {c} : check'[d] = check[d]
      /\ check'[c].pc = "read" /\ check'[c].rows = nodes /\ check'[c].online = {}
  BY DEF Query, TypeOK, Idle
<1>3. UNCHANGED <<now, store, alerts, unread, posted>> BY DEF Query, history
<1>4. \A d \in Checker : Reading(d)' => d = c BY <1>1, <1>2 DEF Reading
<1>5. Serial' /\ RowsInv' BY <1>2, <1>3, <1>4 DEF SerialInv, Serial, RowsInv, store
<1>6. \A d \in Checker : check'[d].pc # "apply" BY <1>1, <1>2 DEF Reading
<1>7. \A n \in Node : Lost(n) => Lost(n)' BY <1>2, <1>3, <1>4 DEF Lost, store
<1>8. OutageInv' /\ OnlineInv' /\ CrossingInv'
  BY <1>3, <1>7 DEF SerialInv, OutageInv, OnlineInv, CrossingInv, Outage, Crossed, store, alerts
<1>9. OutageListInv' /\ CrossingListInv' BY <1>6 DEF OutageListInv, CrossingListInv
<1> QED BY <1>5, <1>8, <1>9 DEF SerialInv

\* What a list reads is true of every node that is still there.
LEMMA ReadStep ==
  ASSUME TypeOK, SerialInv, NEW c \in Checker, Read(c) PROVE SerialInv'
<1> DEFINE rows == check[c].rows
           f == check'[c]
<1>0. /\ seen \in [Node -> Nat] /\ crossing \in [Node -> Nat] /\ now \in Nat
      /\ wasOnline \subseteq Node /\ OfflineAfter \in Nat \ {0}
      /\ rows \subseteq Node /\ check[c] \in Frame
  BY OptionAssumption DEF TypeOK, Frame
<1>1. check[c].pc = "read" /\ UNCHANGED <<now, store, alerts, unread, posted>> BY DEF Read, history
<1>2. /\ \A d \in Checker \ {c} : check'[d] = check[d]
      /\ f.pc = "apply" /\ f.rows = rows /\ f.online = {n \in rows : Online(n)}
      /\ f.seen = seen /\ f.crossing = crossing
      /\ f.over \subseteq {n \in rows : Over(n)}
      /\ {n \in rows : Over(n)} \subseteq f.over \cup f.unread
  <2>1. PICK failed \in SUBSET {n \in rows : Over(n)} :
          check' = [check EXCEPT ![c].pc = "apply",
                                 ![c].online = {n \in rows : Online(n)},
                                 ![c].over = {n \in rows : Over(n)} \ failed,
                                 ![c].unread = failed,
                                 ![c].seen = seen,
                                 ![c].crossing = crossing]
    BY DEF Read
  <2>2. f.over = {n \in rows : Over(n)} \ failed /\ f.unread = failed
    BY <1>0, <2>1 DEF TypeOK, Frame
  <2>3. f.over \subseteq {n \in rows : Over(n)} /\ {n \in rows : Over(n)} \subseteq f.over \cup f.unread
    BY <2>2
  <2>4. \A d \in Checker \ {c} : check'[d] = check[d]
    BY <2>1 DEF TypeOK
  <2> QED BY <1>0, <2>1, <2>3, <2>4 DEF TypeOK, Frame
<1> HIDE DEF f, rows
<1>3. \A d \in Checker : Reading(d) <=> d = c
  BY <1>1 DEF SerialInv, Serial, Reading
<1>4. \A d \in Checker : Reading(d)' <=> d = c
  BY <1>2, <1>3 DEF Reading, f
<1>5. nodes \subseteq rows BY <1>3 DEF SerialInv, RowsInv, rows
<1>6. Serial' /\ RowsInv'
  BY <1>1, <1>2, <1>4, <1>5 DEF SerialInv, Serial, RowsInv, f, store
<1>7. \A n \in Node : Lost(n) <=> n \notin rows
  BY <1>3, <1>5 DEF Lost, rows
<1>8. \A n \in Node : Lost(n)' <=> n \notin rows
  BY <1>1, <1>2, <1>4, <1>5 DEF Lost, f, store
<1>9. OutageInv' /\ OnlineInv' /\ CrossingInv'
  BY <1>1, <1>7, <1>8
  DEF SerialInv, OutageInv, OnlineInv, CrossingInv, Outage, Crossed, store, alerts
<1>10. OutageListInv'
  <2>1. \A d \in Checker : check'[d].pc = "apply" => d = c BY <1>4 DEF Reading
  <2>2. ASSUME NEW n \in f.online PROVE Outage(n, seen[n]) \notin posted /\ seen[n] # 0
    <3>1. n \in Node /\ seen[n] # 0 /\ now - seen[n] < OfflineAfter
      BY <1>0, <1>2, <2>2 DEF Online
    <3> QED BY <1>0, <3>1 DEF SerialInv, OutageInv
  <2>3. \A n \in f.rows \ f.online : f.seen[n] = 0 \/ f.seen[n] + OfflineAfter <= now
    BY <1>0, <1>2 DEF Online
  <2>4. \A n \in wasOnline : Outage(n, f.seen[n]) \notin posted /\ (n \in nodes => f.seen[n] # 0)
    BY <1>2 DEF SerialInv, OnlineInv
  <2> QED BY <1>1, <2>1, <2>2, <2>3, <2>4 DEF OutageListInv, Outage, f, store, alerts
<1>11. CrossingListInv'
  <2>1. \A d \in Checker : check'[d].pc = "apply" => d = c BY <1>4 DEF Reading
  <2>2. ASSUME NEW n \in f.over
        PROVE  /\ f.crossing[n] % 2 = 1 /\ f.crossing[n] <= crossing[n] /\ seen[n] # 0
               /\ n \notin trafficAlerted \cup unread => Crossed(n, f.crossing[n]) \notin posted
    <3>1. n \in Node /\ n \in rows /\ seen[n] # 0 /\ f.crossing[n] = crossing[n]
          /\ crossing[n] % 2 = 1 /\ crossing[n] \in Nat
      BY <1>0, <1>2, <2>2 DEF Over
    <3> QED BY <1>7, <3>1 DEF SerialInv, CrossingInv
  <2>3. ASSUME NEW n \in f.rows \ f.over, NEW id \in Nat, Crossed(n, id) \in posted
        PROVE  id < crossing[n] \/ n \notin nodes \/ n \in f.unread
    <3>1. /\ n \in f.unread \/ seen[n] = 0 \/ crossing[n] % 2 # 1
          /\ n \in Node /\ crossing[n] \in Nat
      BY <1>0, <1>2, <2>3 DEF Over
    <3> QED BY <2>3, <3>1 DEF SerialInv, CrossingInv
  <2> QED BY <1>1, <2>1, <2>2, <2>3 DEF CrossingListInv, Crossed, f, store, alerts
<1> QED BY <1>6, <1>9, <1>10, <1>11 DEF SerialInv

\* What a list leads to send.
LEMMA SentFacts ==
  ASSUME NEW f \in Frame, NEW x \in ToSend(f)
  PROVE  \/ \E n \in Node : /\ x = Outage(n, f.seen[n]) /\ x.event = "offline" /\ x.node = n
                            /\ n \in f.rows \ f.online /\ n \in wasOnline
         \/ \E n \in Node : /\ x = Crossed(n, f.crossing[n]) /\ x.event = "traffic"
                            /\ n \in f.over /\ n \notin trafficAlerted
BY DEF ToSend, WentOffline, WentOver, Outage, Crossed, Frame

LEMMA SentOf ==
  ASSUME NEW f \in Frame, NEW n \in Node, NEW id
  PROVE  /\ Outage(n, id) \in ToSend(f) =>
              id = f.seen[n] /\ n \in f.rows \ f.online /\ n \in wasOnline
         /\ Crossed(n, id) \in ToSend(f) =>
              id = f.crossing[n] /\ n \in f.over /\ n \notin trafficAlerted
BY SentFacts DEF Outage, Crossed

\* The list is applied, and no other is gone over: what was not posted before is
\* now, and what has been posted is over or remembered.
LEMMA ApplyStep ==
  ASSUME TypeOK, SerialInv, NEW c \in Checker, Apply(c) PROVE SerialInv'
<1> DEFINE f == check[c]
<1>0. /\ seen \in [Node -> Nat] /\ crossing \in [Node -> Nat] /\ now \in Nat
      /\ OfflineAfter \in Nat \ {0} /\ f \in Frame
      /\ f.rows \subseteq Node /\ f.seen \in [Node -> Nat] /\ f.crossing \in [Node -> Nat]
  BY OptionAssumption DEF TypeOK, Frame
<1>1. /\ f.pc = "apply" /\ UNCHANGED <<now, store>>
      /\ known' = f.rows /\ wasOnline' = f.online /\ posted' = posted \cup ToSend(f)
      /\ unread' = f.unread
      /\ trafficAlerted' = f.over \cup (trafficAlerted \ (f.rows \cup known))
  BY DEF Apply, NextTrafficAlerted
<1>2. /\ \A d \in Checker \ {c} : check'[d] = check[d]
      /\ check'[c].pc \in {"idle", "post"}
  BY DEF Apply, TypeOK, Idle
<1>3. \A d \in Checker : ~Reading(d)'
  BY <1>1, <1>2 DEF SerialInv, Serial, Reading
<1> DEFINE List ==
      /\ f.online \subseteq f.rows /\ nodes \subseteq f.rows
      /\ \A n \in f.online : Outage(n, seen[n]) \notin posted /\ (n \in nodes => seen[n] # 0)
      /\ \A n \in f.rows \ f.online : f.seen[n] = 0 \/ f.seen[n] + OfflineAfter <= now
      /\ \A n \in wasOnline : n \in nodes => f.seen[n] # 0
      /\ \A n \in f.over : /\ f.crossing[n] % 2 = 1 /\ f.crossing[n] <= crossing[n]
                           /\ (n \in nodes => seen[n] # 0)
      /\ \A n \in f.rows \ f.over, id \in Nat :
           Crossed(n, id) \in posted => id < crossing[n] \/ n \notin nodes \/ n \in f.unread
<1>4. List /\ \A n \in Node : Lost(n) => n \notin nodes /\ n \notin f.rows
  BY <1>1 DEF SerialInv, RowsInv, OutageListInv, CrossingListInv, Reading, Lost
<1>5. \A n \in Node : n \notin nodes => Lost(n)' BY <1>1, <1>3 DEF Lost, store
<1>6. Serial' /\ RowsInv' BY <1>1, <1>3 DEF SerialInv, Serial, RowsInv, store
<1>7. OutageListInv' /\ CrossingListInv'
  BY <1>3 DEF OutageListInv, CrossingListInv, Reading
<1>8. OutageInv'
  <2> SUFFICES ASSUME NEW n \in Node, NEW id \in Nat, Outage(n, id) \in posted'
               PROVE  /\ id # 0 => id + OfflineAfter <= now
                      /\ id = 0 => Lost(n)' /\ n \notin wasOnline'
    BY <1>1 DEF OutageInv, Outage
  <2>1. CASE Outage(n, id) \in posted
    BY <1>1, <1>4, <1>5, <2>1 DEF SerialInv, OutageInv
  <2>2. CASE Outage(n, id) \in ToSend(f)
    <3>1. id = f.seen[n] /\ n \in f.rows \ f.online /\ n \in wasOnline
      BY <1>0, <2>2, SentOf
    <3> QED BY <1>0, <1>1, <1>4, <1>5, <3>1
  <2> QED BY <1>1, <2>1, <2>2
<1>9. OnlineInv'
  <2> SUFFICES ASSUME NEW n \in f.online
               PROVE  Outage(n, seen[n]) \notin posted' /\ (n \in nodes => seen[n] # 0)
    BY <1>1 DEF OnlineInv, Outage, store
  <2>1. n \in Node BY <1>0, <1>4
  <2>2. Outage(n, seen[n]) \notin ToSend(f) BY <1>0, <2>1, SentOf
  <2> QED BY <1>1, <1>4, <2>2
<1>10. CrossingInv'
  <2> SUFFICES ASSUME NEW n \in Node, NEW id \in Nat, Crossed(n, id) \in posted'
               PROVE  /\ id % 2 = 1 /\ id <= crossing[n]
                      /\ n \in nodes => seen[n] # 0
                      /\ n \in trafficAlerted' \/ id < crossing[n] \/ Lost(n)' \/ n \in unread'
    BY <1>1 DEF CrossingInv, Crossed, store
  <2>1. CASE Crossed(n, id) \in posted
    <3>1. /\ id % 2 = 1 /\ id <= crossing[n] /\ (n \in nodes => seen[n] # 0)
          /\ (n \in f.rows \/ n \in trafficAlerted \/ id < crossing[n] \/ Lost(n)
                \/ n \in unread)
      BY <2>1 DEF SerialInv, CrossingInv
    <3>2. CASE n \in f.rows \ f.over
      <4>1. id < crossing[n] \/ n \notin nodes \/ n \in f.unread BY <1>4, <2>1, <3>2
      <4> QED BY <1>1, <1>5, <3>1, <4>1
    <3>3. CASE n \in f.over BY <1>1, <3>1, <3>3
    <3>4. CASE n \notin f.rows BY <1>4, <1>5, <3>1, <3>4
    <3> QED BY <3>2, <3>3, <3>4
  <2>2. CASE Crossed(n, id) \in ToSend(f)
    <3>1. id = f.crossing[n] /\ n \in f.over BY <1>0, <2>2, SentOf
    <3> QED BY <1>1, <1>4, <3>1
  <2> QED BY <1>1, <2>1, <2>2
<1> QED BY <1>6, <1>7, <1>8, <1>9, <1>10 DEF SerialInv

\* A new process has no alert state and has posted no traffic alert; an outage
\* posted before it is still over.
LEMMA RestartStep ==
  ASSUME TypeOK, SerialInv, Restart PROVE SerialInv'
<1>1. /\ UNCHANGED <<now, nodes, crossing>> /\ wasOnline' = {} /\ forgetting' = {}
      /\ posted' = {x \in posted : x.event = "offline"}
      /\ \A c \in Checker : check'[c] = Idle
  BY DEF Restart
<1>2. \A c \in Checker : ~Reading(c)' BY <1>1 DEF Reading, Idle
<1>3. Serial' /\ RowsInv' BY <1>1, <1>2 DEF SerialInv, Serial, RowsInv
<1>4. \A n \in Node : Lost(n) => Lost(n)' BY <1>1, <1>2 DEF Lost
<1>5. OutageInv' BY <1>1, <1>4 DEF SerialInv, OutageInv, Outage
<1>6. OnlineInv' BY <1>1 DEF OnlineInv
<1>7. CrossingInv' BY <1>1 DEF CrossingInv, Crossed
<1>8. OutageListInv' /\ CrossingListInv' BY <1>2 DEF OutageListInv, CrossingListInv, Reading
<1> QED BY <1>3, <1>5, <1>6, <1>7, <1>8 DEF SerialInv

LEMMA SerialInit == Init => SerialInv
<1> SUFFICES ASSUME Init PROVE SerialInv
  OBVIOUS
<1>1. \A c \in Checker : ~Reading(c) BY DEF Init, Reading, Idle
<1>2. Serial /\ RowsInv BY <1>1 DEF Init, Serial, RowsInv
<1>3. OutageInv /\ OnlineInv /\ CrossingInv BY DEF Init, OutageInv, OnlineInv, CrossingInv
<1>4. OutageListInv /\ CrossingListInv BY <1>1 DEF OutageListInv, CrossingListInv, Reading
<1> QED BY <1>2, <1>3, <1>4 DEF SerialInv

LEMMA SerialStep ==
  ASSUME TypeOK, SerialInv, ~Overlap, [Next]_vars PROVE SerialInv'
<1>t. TypeOK' BY TypeStep
<1>0. /\ now \in Nat /\ crossing \in [Node -> Nat] /\ seen \in [Node -> Nat]
      /\ nodes \subseteq Node /\ forgetting \subseteq Node
      /\ forgetting \cap nodes = {}
  BY DEF TypeOK, SerialInv, RowsInv
<1>1. ASSUME NEW c \in Checker, Fail(c) PROVE SerialInv'
  <2>1. \A d \in Checker : Reading(d)' => check'[d] = check[d]
    BY <1>1 DEF Fail, Reading, Idle, TypeOK
  <2> QED BY <1>0, <1>1, <1>t, <2>1, QuietStep DEF Fail, store, alerts
<1>2. ASSUME NEW c \in Checker, NEW x, NEW delivered, Post(c, x, delivered) PROVE SerialInv'
  <2>1. \A d \in Checker : Reading(d)' => check'[d] = check[d]
    BY <1>2 DEF Post, Reading, Idle, TypeOK
  <2> QED BY <1>0, <1>2, <1>t, <2>1, QuietStep DEF Post, store
<1>3. ASSUME NEW n \in Node, NEW h \in Handler, HandleHeartbeat(n, h) PROVE SerialInv'
  <2>0. h \in Checker /\ check[h] \in Frame BY DEF Checker, TypeOK
  <2>1. check'[h].pc = "query" /\ \A d \in Checker \ {h} : check'[d] = check[d]
    BY <1>3, <2>0 DEF HandleHeartbeat, TypeOK, Frame
  <2>2. \A d \in Checker : Reading(d)' => check'[d] = check[d]
    BY <2>1 DEF Reading
  <2> QED BY <1>0, <1>3, <1>t, <2>2, QuietStep DEF HandleHeartbeat, alerts
<1>4. ASSUME NEW n \in Node, CrossThreshold(n) \/ DeleteNode(n) \/ ForgetNode(n)
      PROVE  SerialInv'
  BY <1>0, <1>4, <1>t, QuietStep DEF CrossThreshold, DeleteNode, ForgetNode, alerts
<1>5. ASSUME Tick \/ UNCHANGED vars PROVE SerialInv'
  BY <1>0, <1>5, <1>t, QuietStep DEF Tick, vars, store, alerts
<1> QED
  BY <1>1, <1>2, <1>3, <1>4, <1>5, QueryStep, ReadStep, ApplyStep, RestartStep
  DEF Next, CheckAlerts

LEMMA AlwaysSerial == ASSUME ~Overlap PROVE Spec => [](TypeOK /\ SerialInv)
<1>1. Init => TypeOK /\ SerialInv BY InitInv, SerialInit DEF Inv
<1>2. TypeOK /\ SerialInv /\ [Next]_vars => (TypeOK /\ SerialInv)'
  BY TypeStep, SerialStep
<1> QED BY <1>1, <1>2, PTL DEF Spec

\* When checks do not overlap, the alert about a node that is not deleted carries
\* its last_seen.
THEOREM AlertsHaveLastSeen == ASSUME ~Overlap PROVE Spec => []OfflineHasLastSeen
<1>1. TypeOK /\ SerialInv => OfflineHasLastSeen
  <2> SUFFICES ASSUME TypeOK, SerialInv, NEW x \in posted, x.event = "offline",
                      x.node \in nodes, x.id = 0
               PROVE  FALSE
    BY DEF OfflineHasLastSeen
  <2>1. x \in Payload BY DEF TypeOK
  <2>2. x = Outage(x.node, 0) /\ x.node \in Node BY <2>1 DEF Payload, Outage
  <2> QED BY <2>2 DEF SerialInv, OutageInv, Lost
<1> QED BY <1>1, AlwaysSerial, PTL

\* A check decides what to send when it applies its list, and only then.
LEMMA DecidedFacts ==
  ASSUME TypeOK, [Next]_vars, NEW c \in Checker, NEW e, NEW x \in Decided(c, e)
  PROVE  check[c].pc = "apply" /\ x \in ToSend(check[c]) /\ x.event = e
<1>0. /\ check[c].pc = "apply" /\ check'[c].pc # "apply"
      /\ x \in check'[c].toSend /\ x.event = e
  BY DEF Decided
<1>1. check \in [Checker -> Frame] BY DEF TypeOK
<1>2. ~UNCHANGED check BY <1>0
<1>3. ~Restart BY <1>0 DEF Restart, Idle
<1>4. ASSUME NEW h \in Handler, NEW n \in Node, HandleHeartbeat(n, h) PROVE FALSE
  <2>1. h # c BY <1>0, <1>4 DEF HandleHeartbeat
  <2> QED BY <1>0, <1>1, <1>4, <2>1 DEF HandleHeartbeat
<1>5. ASSUME NEW d \in Checker, CheckAlerts(d) PROVE x \in ToSend(check[c])
  <2>1. CASE d = c
    <3>1. Apply(c) BY <1>0, <1>5, <2>1 DEF CheckAlerts, Query, Read, Fail, Post
    <3> QED BY <1>0, <1>1, <3>1 DEF Apply, Idle
  <2>2. CASE d # c
    <3>1. check'[c] = check[c]
      BY <1>1, <1>5, <2>2 DEF CheckAlerts, Query, Read, Fail, Apply, Post
    <3> QED BY <1>0, <3>1
  <2> QED BY <2>1, <2>2
<1> QED
  BY <1>0, <1>2, <1>3, <1>4, <1>5 DEF Next, vars, CrossThreshold, DeleteNode, ForgetNode, Tick

\* README: one offline alert for an outage.  It holds across restarts, failing
\* lists and deletions, as long as checks do not overlap.
THEOREM OutagesOnce == ASSUME ~Overlap PROVE Spec => OncePerOutage
<1>1. TypeOK /\ SerialInv /\ [Next]_vars =>
        [\A c \in Checker : Decided(c, "offline") \cap posted = {}]_vars
  <2> SUFFICES ASSUME TypeOK, SerialInv, [Next]_vars, NEW c \in Checker,
                      NEW x \in Decided(c, "offline")
               PROVE  x \notin posted
    OBVIOUS
  <2> DEFINE f == check[c]
  <2>1. f.pc = "apply" /\ x \in ToSend(f) /\ x.event = "offline" BY DecidedFacts
  <2>2. f \in Frame BY DEF TypeOK
  <2>3. PICK n \in Node : x = Outage(n, f.seen[n]) /\ n \in f.rows /\ n \in wasOnline
    BY <2>1, <2>2, SentFacts
  <2> QED BY <2>1, <2>3 DEF SerialInv, OutageListInv
<1> QED BY <1>1, AlwaysSerial, PTL DEF Spec, OncePerOutage

\* README: one traffic alert for a crossing of the threshold in the life of a
\* process, as long as checks do not overlap.  It is repeated for a node whose
\* usage the list applied just before had lost, and for no other.
THEOREM CrossingsOnce == ASSUME ~Overlap PROVE Spec => OncePerCrossing
<1>1. TypeOK /\ SerialInv /\ [Next]_vars =>
        [\A c \in Checker : \A x \in Decided(c, "traffic") \cap posted : x.node \in unread]_vars
  <2> SUFFICES ASSUME TypeOK, SerialInv, [Next]_vars, NEW c \in Checker,
                      NEW x \in Decided(c, "traffic"), x \in posted
               PROVE  x.node \in unread
    OBVIOUS
  <2> DEFINE f == check[c]
  <2>1. f.pc = "apply" /\ x \in ToSend(f) /\ x.event = "traffic" BY DecidedFacts
  <2>2. f \in Frame BY DEF TypeOK
  <2>3. PICK n \in Node :
          x = Crossed(n, f.crossing[n]) /\ n \in f.over /\ n \notin trafficAlerted
    BY <2>1, <2>2, SentFacts
  <2> QED BY <2>1, <2>3 DEF SerialInv, CrossingListInv, Crossed
<1> QED BY <1>1, AlwaysSerial, PTL DEF Spec, OncePerCrossing

=============================================================================
