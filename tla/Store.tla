------------------------------- MODULE Store -------------------------------
(***************************************************************************)
(* The hub's store (internal/hub/store.go) under the handlers that drive   *)
(* it (internal/hub/server.go): the SQLite tables nodes and samples, the   *)
(* in-memory live state, and the goroutines that serve heartbeats and      *)
(* admin requests.  A goroutine takes one step per critical section of the *)
(* mutex, per SQL statement or transaction, and per clock read that is     *)
(* used after one of those.                                                *)
(*                                                                         *)
(* Data is abstracted to what the properties tell apart.  A sample is its  *)
(* timestamp.  A heartbeat is the state of the host's byte counter: total  *)
(* is every byte the host ever moved, boot the value of total at the last  *)
(* reboot, so the counter the agent reads is total - boot (one counter     *)
(* stands for the two directions); boot also takes up the bytes of an      *)
(* interface that has disappeared from the agent's sum.  A stored baseline *)
(* keeps the heartbeat it was taken from; the code stores only its         *)
(* counter, and only Counter(.) of it is used by the actions.              *)
(***************************************************************************)
EXTENDS Naturals, Sequences, FiniteSets, SequencesExt

CONSTANTS
  Node,          \* ids CreateNode can draw (randHex: an id is never drawn twice)
  NoNode,        \* the node of an idle goroutine
  Poster,        \* goroutines that serve POST /api/agent/heartbeat
  Admin,         \* goroutines that serve the admin API
  PersistEvery, Retention, HistoryCap,   \* StoreOptions, in ticks
  Day,           \* ticks in a day
  MaxWalk,       \* the iteration bound of advanceReset (100000)
  Periods, Quotas,                       \* values of NodeMeta the admin enters
  AgentTimesOut, \* the agent gives up on a POST the hub is still serving
  DBFails,       \* a statement may fail; its error is dropped by the code
  IfacesVanish,  \* a network interface of a host may disappear
  MaxTime, MaxBytes, MaxRotate           \* bounds of the exploration

ASSUME NodeAssumption == NoNode \notin Node
ASSUME GoroutineAssumption == Poster \cap Admin = {}
ASSUME OptionAssumption ==
  /\ PersistEvery \in Nat \ {0}
  /\ Retention \in Nat \ {0}
  /\ HistoryCap \in Nat \ {0}
  /\ Day \in Nat \ {0}
  /\ MaxWalk \in Nat
ASSUME MetaAssumption == Periods \subseteq Nat /\ Quotas \subseteq Nat
ASSUME SwitchAssumption ==
  AgentTimesOut \in BOOLEAN /\ DBFails \in BOOLEAN /\ IfacesVanish \in BOOLEAN
ASSUME BoundAssumption == MaxTime \in Nat /\ MaxBytes \in Nat /\ MaxRotate \in Nat

VARIABLES
  now,         \* the hub's clock; starts at 1, so that 0 is the zero time
  minted,      \* ids drawn so far
  \* table nodes
  rows,        \* ids of the rows
  gen,         \* column token: tokens of a node are numbered as they are drawn
  meta,        \* column meta_json
  traffic,     \* column traffic_json
  \* table samples
  samples,     \* the timestamps of a node's samples
  \* in-memory state of the Store
  live,        \* maps metrics and seen, which are always written together
  history,     \* the ring of recent samples
  lastPersist, \* timestamp of the last sample handed to SQLite, 0 = no entry
  \* goroutines and hosts
  proc, host

tables == <<minted, rows, gen, meta, traffic, samples>>
memory == <<live, history, lastPersist>>
vars   == <<now, tables, memory, proc, host>>

Goroutine == Poster \cup Admin
Heartbeat == [total : Nat, boot : Nat]
NoHeartbeat == [total |-> 0, boot |-> 0]
Meta == [period : Periods, quota : Quotas]
TrafficState == [anchor : Heartbeat, resetAt : Nat]
\* TrafficState{}: what '{}' in traffic_json decodes to; ResetAt.IsZero().
NoTraffic == [anchor |-> NoHeartbeat, resetAt |-> 0]
Unseen == [hb |-> NoHeartbeat, seen |-> 0]

\* Where a goroutine stands in handleHeartbeat, UpdateNode or DeleteNode.
Step == {"idle", "auth", "stamp", "lock", "insert", "prune", "roll", "write",
         "anchor", "forget"}

Frame == [pc : Step, node : Node \cup {NoNode}, gen : Nat, hb : Heartbeat,
          period : Nat, t : Nat, st : TrafficState]
Idle == [pc |-> "idle", node |-> NoNode, gen |-> 0, hb |-> NoHeartbeat,
         period |-> 0, t |-> 0, st |-> NoTraffic]

-----------------------------------------------------------------------------
(* Traffic accounting *)

Counter(hb) == hb.total - hb.boot

\* The first boundary strictly after at, walking from prev in whole periods.
AdvanceReset(prev, period, at) ==
  LET length == period * Day
      beyond == {i \in 1..MaxWalk : prev + i * length > at}
  IN  IF prev = 0 \/ beyond = {} THEN at + length
                                 ELSE prev + Min(beyond) * length

\* Mutant: an unchanged counter is taken for a reset one.
CounterDeltaEqual(cur, base) == IF cur <= base THEN cur ELSE cur - base

CounterDelta(cur, base) == IF cur < base THEN cur ELSE cur - base

\* Mutant: the arguments of counterDelta are swapped.
UsedSwapped(n) ==
  IF traffic[n].resetAt = 0 \/ live[n].seen = 0
  THEN 0
  ELSE CounterDelta(Counter(traffic[n].anchor), Counter(live[n].hb))

\* computeTraffic, for a node with a period: the bytes charged to it.  A node
\* without a heartbeat or a baseline is shown with zero usage.
Used(n) ==
  IF traffic[n].resetAt = 0 \/ live[n].seen = 0
  THEN 0
  ELSE CounterDelta(Counter(live[n].hb), Counter(traffic[n].anchor))

-----------------------------------------------------------------------------
(* The ring and the sample table *)

\* Mutant: the ring is cut one sample too late.
PushHistoryLate(h, t) ==
  Append(IF Len(h) > HistoryCap THEN SubSeq(h, Len(h) - HistoryCap + 2, Len(h)) ELSE h,
         t)

PushHistory(h, t) ==
  Append(IF Len(h) >= HistoryCap THEN SubSeq(h, Len(h) - HistoryCap + 2, Len(h)) ELSE h,
         t)

DueToPersist(n, t) ==
  \/ lastPersist[n] = 0
  \/ t > lastPersist[n] /\ t - lastPersist[n] >= PersistEvery

\* Mutant: only the samples of nodes that still have a row are pruned.
PrunedOfRows ==
  [n \in Node |-> {t \in samples[n] : t + Retention >= now \/ n \notin rows}]

Pruned == [n \in Node |-> {t \in samples[n] : t + Retention >= now}]

\* hydrateHistory: the HistoryCap newest rows of one node, oldest first.  The
\* i-th sample is the one with i - 1 older ones, a sort the provers can expand.
Hydrate(S) ==
  LET kept == {t \in S : Cardinality({u \in S : u > t}) < HistoryCap}
  IN  [i \in 1..Cardinality(kept) |->
         CHOOSE t \in kept : Cardinality({u \in kept : u < t}) = i - 1]

\* Mutants: hydration keeps the first row of a node instead of its last, or
\* dates the last sample back to make the next one due at once.
OldestSample(S) == IF S = {} THEN 0 ELSE Min(S)
BackdatedSample(S) == IF S = {} THEN 0 ELSE Max(S) - PersistEvery

NewestSample(S) == IF S = {} THEN 0 ELSE Max(S)

-----------------------------------------------------------------------------
Init ==
  /\ now = 1
  /\ minted = {} /\ rows = {}
  /\ gen = [n \in Node |-> 0]
  /\ meta = [n \in Node |-> [period |-> 0, quota |-> 0]]
  /\ traffic = [n \in Node |-> NoTraffic]
  /\ samples = [n \in Node |-> {}]
  /\ live = [n \in Node |-> Unseen]
  /\ history = [n \in Node |-> <<>>]
  /\ lastPersist = [n \in Node |-> 0]
  /\ proc = [g \in Goroutine |-> Idle]
  /\ host = [n \in Node |-> NoHeartbeat]

Goto(p, frame) == proc' = [proc EXCEPT ![p] = frame]

-----------------------------------------------------------------------------
(* POST /api/agent/heartbeat: handleHeartbeat and SaveHeartbeat *)

\* The agent reads its counter and posts, with any token it was ever given.
\* Without client timeouts it waits for the answer to its previous POST.
Post(p, n, g) ==
  /\ proc[p] = Idle
  /\ n \in minted /\ g \in 0..gen[n]
  /\ AgentTimesOut \/ \A q \in Poster : proc[q].node # n
  /\ Goto(p, [Idle EXCEPT !.pc = "auth", !.node = n, !.gen = g, !.hb = host[n]])
  /\ UNCHANGED <<now, tables, memory, host>>

\* NodeByToken succeeds; the metadata it returns is used to the end.
NodeByToken(p) ==
  LET n == proc[p].node IN
  /\ proc[p].pc = "auth"
  /\ n \in rows /\ gen[n] = proc[p].gen
  /\ Goto(p, [proc[p] EXCEPT !.pc = "stamp", !.gen = 0, !.period = meta[n].period])
  /\ UNCHANGED <<now, tables, memory, host>>

\* No row has the token (401), the body is not JSON (400), the query fails,
\* or the request is lost.
Reject(p) ==
  /\ proc[p].pc \in {"auth", "stamp"}
  /\ Goto(p, Idle)
  /\ UNCHANGED <<now, tables, memory, host>>

\* SaveHeartbeat reads the clock before it takes the lock.
Stamp(p) ==
  /\ proc[p].pc = "stamp"
  /\ Goto(p, [proc[p] EXCEPT !.pc = "lock", !.t = now])
  /\ UNCHANGED <<now, tables, memory, host>>

\* What is left of SaveHeartbeat once the sample is dealt with.
AfterPersist(frame) ==
  IF frame.period > 0 THEN [frame EXCEPT !.pc = "roll", !.t = 0] ELSE Idle

\* The section of SaveHeartbeat under s.mu.
SaveHeartbeat(p) ==
  LET n == proc[p].node
      t == proc[p].t
  IN
  /\ proc[p].pc = "lock"
  /\ live' = [live EXCEPT ![n] = [hb |-> proc[p].hb, seen |-> t]]
  /\ history' = [history EXCEPT ![n] = PushHistory(@, t)]
  /\ \/ /\ DueToPersist(n, t)
        /\ lastPersist' = [lastPersist EXCEPT ![n] = t]
        /\ Goto(p, [proc[p] EXCEPT !.pc = "insert"])
     \/ /\ ~DueToPersist(n, t)
        /\ Goto(p, AfterPersist(proc[p]))
        /\ UNCHANGED lastPersist
  /\ UNCHANGED <<now, tables, host>>

InsertSample(p) ==
  LET n == proc[p].node IN
  /\ proc[p].pc = "insert"
  /\ \/ samples' = [samples EXCEPT ![n] = @ \cup {proc[p].t}]
     \/ DBFails /\ UNCHANGED samples
  /\ Goto(p, [proc[p] EXCEPT !.pc = "prune"])
  /\ UNCHANGED <<now, minted, rows, gen, meta, traffic, memory, host>>

\* PruneSamples, called by SaveHeartbeat after an insert.
PruneSamples(p) ==
  /\ proc[p].pc = "prune"
  /\ samples' = Pruned \/ (DBFails /\ UNCHANGED samples)
  /\ Goto(p, AfterPersist(proc[p]))
  /\ UNCHANGED <<now, minted, rows, gen, meta, traffic, memory, host>>

\* loadTraffic: no row, and a failed query, decode like '{}'.
LoadTraffic(n, st) ==
  \/ st = (IF n \in rows THEN traffic[n] ELSE NoTraffic)
  \/ DBFails /\ st = NoTraffic

\* rollTraffic up to its UPDATE.
RollTraffic(p) ==
  /\ proc[p].pc = "roll"
  /\ \E st \in {traffic[proc[p].node], NoTraffic} :
       /\ LoadTraffic(proc[p].node, st)
       /\ Goto(p, IF st.resetAt = 0 \/ now >= st.resetAt
                  THEN [proc[p] EXCEPT
                          !.pc = "write",
                          !.st = [anchor |-> proc[p].hb,
                                  resetAt |-> AdvanceReset(st.resetAt, proc[p].period, now)]]
                  ELSE Idle)
  /\ UNCHANGED <<now, tables, memory, host>>

\* The UPDATE of traffic_json that ends rollTraffic and SetTrafficBaseline.
WriteTraffic(p) ==
  LET n == proc[p].node IN
  /\ proc[p].pc = "write"
  /\ \/ traffic' = [traffic EXCEPT ![n] = IF n \in rows THEN proc[p].st ELSE @]
     \/ DBFails /\ UNCHANGED traffic
  /\ Goto(p, Idle)
  /\ UNCHANGED <<now, minted, rows, gen, meta, samples, memory, host>>

-----------------------------------------------------------------------------
(* The admin API *)

CreateNode(n, m) ==
  /\ n \notin minted
  /\ minted' = minted \cup {n}
  /\ rows' = rows \cup {n}
  /\ meta' = [meta EXCEPT ![n] = m]
  /\ UNCHANGED <<now, gen, traffic, samples, memory, proc, host>>

RotateToken(n) ==
  /\ n \in rows /\ gen[n] < MaxRotate
  /\ gen' = [gen EXCEPT ![n] = @ + 1]
  /\ UNCHANGED <<now, minted, rows, meta, traffic, samples, memory, proc, host>>

\* Mutants: a new period keeps the baseline of the old one, or every update of a
\* node with a period re-anchors its baseline.
UpdateNodeNever(a, n, m) ==
  /\ proc[a] = Idle
  /\ n \in rows
  /\ meta' = [meta EXCEPT ![n] = m]
  /\ UNCHANGED <<now, minted, rows, gen, traffic, samples, memory, proc, host>>
UpdateNodeAlways(a, n, m) ==
  /\ proc[a] = Idle
  /\ n \in rows
  /\ meta' = [meta EXCEPT ![n] = m]
  /\ Goto(a, IF m.period > 0
             THEN [Idle EXCEPT !.pc = "anchor", !.node = n, !.period = m.period]
             ELSE Idle)
  /\ UNCHANGED <<now, minted, rows, gen, traffic, samples, memory, host>>

\* UpdateNode: the transaction; a changed period then calls SetTrafficBaseline,
\* which returns at once for a period of 0.
UpdateNode(a, n, m) ==
  /\ proc[a] = Idle
  /\ n \in rows
  /\ meta' = [meta EXCEPT ![n] = m]
  /\ Goto(a, IF meta[n].period # m.period /\ m.period > 0
             THEN [Idle EXCEPT !.pc = "anchor", !.node = n, !.period = m.period]
             ELSE Idle)
  /\ UNCHANGED <<now, minted, rows, gen, traffic, samples, memory, host>>

\* SetTrafficBaseline up to its UPDATE: a node that has not reported is cleared.
SetTrafficBaseline(a) ==
  LET n == proc[a].node IN
  /\ proc[a].pc = "anchor"
  /\ Goto(a, [proc[a] EXCEPT
                !.pc = "write",
                !.st = IF live[n].seen = 0 THEN NoTraffic
                       ELSE [anchor |-> live[n].hb,
                             resetAt |-> AdvanceReset(0, proc[a].period, now)]])
  /\ UNCHANGED <<now, tables, memory, host>>

\* DeleteNode: the transaction, then the deletes under s.mu.
DeleteNode(a, n) ==
  /\ proc[a] = Idle
  /\ n \in rows
  /\ rows' = rows \ {n}
  /\ meta' = [meta EXCEPT ![n] = [period |-> 0, quota |-> 0]]
  /\ traffic' = [traffic EXCEPT ![n] = NoTraffic]
  /\ samples' = [samples EXCEPT ![n] = {}]
  /\ Goto(a, [Idle EXCEPT !.pc = "forget", !.node = n])
  /\ UNCHANGED <<now, minted, gen, memory, host>>

\* Mutant: lastPersist keeps its entry.
ForgetNodePartly(a) ==
  LET n == proc[a].node IN
  /\ proc[a].pc = "forget"
  /\ live' = [live EXCEPT ![n] = Unseen]
  /\ history' = [history EXCEPT ![n] = <<>>]
  /\ Goto(a, Idle)
  /\ UNCHANGED <<now, tables, lastPersist, host>>

ForgetNode(a) ==
  LET n == proc[a].node IN
  /\ proc[a].pc = "forget"
  /\ live' = [live EXCEPT ![n] = Unseen]
  /\ history' = [history EXCEPT ![n] = <<>>]
  /\ lastPersist' = [lastPersist EXCEPT ![n] = 0]
  /\ Goto(a, Idle)
  /\ UNCHANGED <<now, tables, host>>

-----------------------------------------------------------------------------
(* The hub process, its clock and the monitored hosts *)

\* sweepLoop calls PruneSamples on its ticker.
SweepPrune ==
  /\ samples' = Pruned
  /\ UNCHANGED <<now, minted, rows, gen, meta, traffic, memory, proc, host>>

\* The hub stops at any point and starts again: NewStore finds the tables as
\* the committed statements left them and hydrates the ring.
Restart ==
  /\ proc' = [g \in Goroutine |-> Idle]
  /\ live' = [n \in Node |-> Unseen]
  /\ history' = [n \in Node |-> Hydrate(samples[n])]
  /\ lastPersist' = [n \in Node |-> NewestSample(samples[n])]
  /\ UNCHANGED <<now, tables, host>>

Tick ==
  /\ now < MaxTime
  /\ now' = now + 1
  /\ UNCHANGED <<tables, memory, proc, host>>

MoveBytes(n) ==
  /\ host[n].total < MaxBytes
  /\ host' = [host EXCEPT ![n].total = @ + 1]
  /\ UNCHANGED <<now, tables, memory, proc>>

\* The counter the agent reads falls: all of it with a reboot; with IfacesVanish
\* also by what an interface that goes had counted, since fillNet adds up those
\* that are there.
LowerCounter(n) ==
  LET read == Counter(host[n]) IN
  /\ \E lost \in IF IfacesVanish THEN 0..read ELSE {read} :
       host' = [host EXCEPT ![n].boot = @ + lost]
  /\ UNCHANGED <<now, tables, memory, proc>>

-----------------------------------------------------------------------------
ServeHeartbeat(p) ==
  \/ \E n \in Node : \E g \in 0..MaxRotate : Post(p, n, g)
  \/ NodeByToken(p) \/ Reject(p) \/ Stamp(p) \/ SaveHeartbeat(p)
  \/ InsertSample(p) \/ PruneSamples(p) \/ RollTraffic(p) \/ WriteTraffic(p)

ServeAdmin(a) ==
  \/ \E n \in Node : DeleteNode(a, n) \/ \E m \in Meta : UpdateNode(a, n, m)
  \/ SetTrafficBaseline(a) \/ WriteTraffic(a) \/ ForgetNode(a)

Next ==
  \/ \E p \in Poster : ServeHeartbeat(p)
  \/ \E a \in Admin : ServeAdmin(a)
  \/ \E n \in Node : \/ RotateToken(n) \/ MoveBytes(n) \/ LowerCounter(n)
                     \/ \E m \in Meta : CreateNode(n, m)
  \/ SweepPrune \/ Restart \/ Tick

Spec == Init /\ [][Next]_vars

\* The sweeper's ticker keeps firing while the hub runs, and its statement does
\* not fail for ever.
FairSpec == Spec /\ WF_vars(SweepPrune)

-----------------------------------------------------------------------------
(* Properties *)

\* The type invariant of every variable but the ring (RingOK).
TypeOK ==
  /\ now \in Nat
  /\ minted \subseteq Node /\ rows \subseteq Node
  /\ gen \in [Node -> Nat]
  /\ meta \in [Node -> [period : Nat, quota : Nat]]
  /\ traffic \in [Node -> TrafficState]
  /\ samples \in [Node -> SUBSET Nat]
  /\ live \in [Node -> [hb : Heartbeat, seen : Nat]]
  /\ lastPersist \in [Node -> Nat]
  /\ proc \in [Goroutine -> Frame]
  /\ host \in [Node -> Heartbeat]

\* The ring SaveHeartbeat pushes to and hydrateHistory rebuilds never outgrows
\* HistoryCap and never holds two samples in the wrong order, across restarts.
\* It needs an agent that waits for its answer: SaveHeartbeat stamps a sample
\* before it takes the lock.
RingOK ==
  \A n \in Node :
    /\ Len(history[n]) <= HistoryCap
    /\ \A i, j \in DOMAIN history[n] : i < j => history[n][i] <= history[n][j]

\* Downsampling: dueToPersistLocked and the lastPersist entry hydrateHistory
\* restores keep any two stored samples of a node PersistEvery apart, whatever
\* inserts are in flight, fail or are cut off by a restart.
SampleSpacing ==
  \A n \in rows : \A t, u \in samples[n] : t < u => u - t >= PersistEvery

\* The bytes the host moved between a node's baseline and its last heartbeat.
Moved(n) ==
  IF live[n].hb.total < traffic[n].anchor.total THEN 0
  ELSE live[n].hb.total - traffic[n].anchor.total

\* SetTrafficBaseline and rollTraffic never let a node be charged for traffic
\* that its baseline already covers.
NoRetroactiveCharge == \A n \in rows : Used(n) <= Moved(n)

\* While the host has not rebooted since the baseline, the charge is exact.
UsedExact ==
  \A n \in rows :
    traffic[n].resetAt # 0 /\ live[n].seen # 0
      /\ traffic[n].anchor.boot = live[n].hb.boot
    => Used(n) = Moved(n)

\* PruneSamples reaches every expired sample, also those that a heartbeat in
\* flight wrote for a node that was deleted meanwhile.
ExpiredPruned ==
  \A n \in Node : \A t \in 1..MaxTime :
    t \in samples[n] /\ t + Retention < now ~> t \notin samples[n]

-----------------------------------------------------------------------------
(* The inductive strengthening of SampleSpacing *)

\* Sample times lie between the start and the present.
ClockInv ==
  /\ now >= 1
  /\ \A n \in Node : \A t \in samples[n] : 1 <= t /\ t <= now

\* Ids are never reused: what has no id yet has no samples.
OwnerInv ==
  /\ rows \subseteq minted
  /\ \A n \in Node \ minted : samples[n] = {}

\* A goroutine holds a time of the past and works for a minted id, and
\* DeleteNode clears the memory of an id whose row is gone for good.
FrameOK(f) ==
  /\ f.t <= now
  /\ f.pc \in {"lock", "insert"} => f.t >= 1
  /\ f.pc # "idle" => f.node \in minted
  /\ f.pc = "forget" => f.node \notin rows
  /\ f.pc \in {"roll", "anchor"} => f.period > 0

FrameInv == \A g \in Goroutine : FrameOK(proc[g])

\* The sample times of n that are stored or on their way to the table.
Claimed(n) ==
  samples[n] \cup
  {proc[g].t : g \in {h \in Goroutine : proc[h].pc = "insert" /\ proc[h].node = n}}

\* lastPersist dominates every claimed time, and claimed times are spaced.
SpacingInv ==
  \A n \in rows : \A t \in Claimed(n) :
    /\ t <= lastPersist[n]
    /\ \A u \in Claimed(n) : t < u => u - t >= PersistEvery

=============================================================================
