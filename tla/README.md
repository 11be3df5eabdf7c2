# tanzhen: TLA+ models, checks and proofs

tanzhen is a server monitor: agents on the monitored hosts post heartbeats to a
hub, which keeps live state in memory, accounting and downsampled samples in
SQLite, shows a public status page, offers an admin API and posts webhook alerts.
This directory holds models of the hub and the agent, the TLC runs that check
them and theorems proved with TLAPS. Paths below are relative to the repository.

    tlc -config MCStore_samples.cfg MCStore      # any run: <name>.cfg, module before the "_"
    tlapm StoreProofs.tla                        # any proofs: <part>Proofs.tla

## Inventory

| Part | State | Operations | What is hard | What makes it correct |
|---|---|---|---|---|
| Store: nodes, samples, live state (`internal/hub/store.go`) | tables `nodes`, `samples`; maps `metrics`, `seen`, `history`, `lastPersist` under `s.mu` | NewStore/hydrateHistory, CreateNode, RotateToken, UpdateNode, DeleteNode, NodeByToken, SaveHeartbeat, PruneSamples, ListStatus, ListHistory | every heartbeat is five or six separate critical sections and statements; errors of statements are dropped; restart in between | ring bounded and ordered, samples spaced, expired samples pruned, deletion complete |
| Store: traffic accounting | `traffic_json` of a node | rollTraffic, SetTrafficBaseline, advanceReset, counterDelta, computeTraffic | read and write of the baseline are two statements; host reboots; stale heartbeats and metadata | no retroactive charge, exact usage, baseline changes only on rollover or a change of the period |
| Store: waiting | pool of 4 connections, RWMutex | every method | listings hold a connection and ask for another; writers of the mutex wait for readers | no deadlock, every request finishes |
| Webhook alerts (`internal/hub/webhook.go`) | `wasOnline`, `offlineAlerted`, `trafficAlerted`, `errLogged` under `alerts.mu` | checkAlerts, postWebhook, logWebhookErr | a goroutine per heartbeat beside the sweeper; the list is read before the mutex is taken | one alert per outage and per crossing, no missed outage, no state of deleted nodes |
| Node handlers (`internal/hub/server.go`) | none | heartbeat, status, history, admin node API | call the store in several steps | as for the store |
| Sessions (`session.go`) | `byID` | Create, Check, Revoke, Sweep | sliding expiry, cap 4096, eviction | a revoked or expired session never passes, dead sessions do not fill the table |
| Login limiter (`ratelimit.go`), handleLogin | `attempts` | Allow, Fail, Reset, RetryAfter | Allow, password check and Fail are three steps; entries are never collected | bounded failures per window, a lockout of fixed length |
| Appearance (`appearance.go`) | JSON file, image file, cache | get, put, upload, delete, media | load, modify, save without a lock; shared temporary names; image removed before the new one is there | file and cache agree, the named image exists |
| Configuration, routing, static files (`server.go`, `cmd/hub/main.go`) | none after start | LoadConfig, muxes, install scripts | - | - |
| Agent (`cmd/agent/main.go`, `internal/agent`) | `prevNet`, `probes[3]`, `hostCache`, cached host info | report loop, probe loop, Collect, Send, ProbeAll | ticker with one buffered tick, probe rounds beside it, client timeout of 10 s | one report at a time, deltas of the right interval |
| Status page (`cmd/hub/static/assets/app.js`) | last data, `staleTimer` | tick every 2 s | overlapping polls, answers out of order, one timer for all | newest answer shown, stale marker right |
| Admin page, install, build and backup scripts | - | forms, shell | - | - |

How they interact: an agent posts with its token; handleHeartbeat resolves it
(NodeByToken), stores (SaveHeartbeat: memory, then sample, then accounting) and
starts checkAlerts in a goroutine. The sweeper prunes sessions and samples and
runs checkAlerts on its own ticker. The status page polls ListStatus; the admin
API edits nodes while heartbeats are being served. All of them share the pool and
`s.mu`. `PROJECT.json` lists the hazards at their lines.

## Modules

**Store.tla** models the store under the handlers that drive it. Variables are
the two tables (`rows`, `gen` for the token, `meta`, `traffic`, `samples`), the
maps (`live` for `metrics` and `seen`, `history`, `lastPersist`) and, per
goroutine, a frame with its place in the handler and its local values. A step is
one critical section of `s.mu`, one statement or transaction, or one clock read
used after one of those. A heartbeat walks auth -> stamp -> lock -> insert -> prune
-> roll -> write (`NodeByToken`, `Stamp`, `SaveHeartbeat`, `InsertSample`,
`PruneSamples`, `RollTraffic`, `WriteTraffic`); `UpdateNode` commits, then
anchors, then writes; `DeleteNode` commits, then forgets. `Restart` drops memory
and every frame at any point and hydrates. Abstractions: a sample is its
timestamp; a heartbeat is the host's byte count (`total`) and its value at the last
reboot (`boot`), and the agent reads `total - boot`; one counter stands for both
directions; a stored baseline keeps the heartbeat it came from so that properties
can speak of the bytes really moved, while actions use only its counter. Names,
descriptive metadata and the read-only methods are left out. A statement that
fails and whose error the code drops is the switch `DBFails`; a client that gives
up on a post the hub still serves is `AgentTimesOut`.

**StorePool.tla** models what a method waits for. Each method is a sequence of
operations (`conn`, `free`, `rlock`, `runlock`, `lock`, `unlock`); a statement
waits without timeout while `MaxConns` connections are out, and the mutex has the
semantics of Go's: a waiting writer holds back new readers, and its Unlock lets
in the readers that waited before the next writer. These are external, modelled
from their documented behaviour. The connections in use are counted as a set of
pairs (goroutine, number).

**Alerts.tla** models checkAlerts as its code runs it: `Query` (ListStatus opens
its rows), `Read` (takes `s.mu` and reads live state), `Apply` (the section under
`alerts.mu`, both loops), `Post`. The sweeper and one goroutine per heartbeat
overlap when `Overlap` is set. The store is abstracted to what ListStatus gives
(rows, last heartbeat, whether usage is over the threshold). A payload of
node.offline is identified by its `last_seen`, one of node.traffic by the number
of the crossing; `posted` records decisions. `Restart` empties the debounce. With
`DBFails` the whole list may fail (`Fail`), and so may the load of the baseline of
any of its nodes, which then is listed with a usage of 0 (`Read`).

**StoreAudit.tla** extends Store with two history variables: which nodes had a
race (a heartbeat that has its metadata crosses an admin request about the node,
or a statement about its baseline was lost) and whose period has been edited. It
states what deletion, a change of the period and a rollover promise outside such
races. The races themselves are described under "Differences".

**Auth.tla** models admin access: the session table (`byID`: the deadline of each
session), the limiter (`attempts`: a count and the end of the window per client)
and the logins in progress. handleLogin holds no lock across its parts, so a login
is `Allow`, then `Fail`, or `Reset` and `Create`, or `BadRequest`; `Check` is every
request with a session cookie. **Sessions.tla** is the abstract promise: an id is
usable for one uninterrupted time. Auth implements it with `live` as the sessions
before their deadline and `ended` as the other ids drawn (`SessionsEndOnce`).

**Appearance.tla** models the settings file, the image files (one per type), the
temporary file of each, the cache and the requests in progress. A step is one
file-system call or one section of `appearanceMu`; an upload writes its image and
then saves the settings in the same sequence of steps (`Create`, `Write`,
`Rename`, `StoreCache`), every call of which may fail. So may the calls whose error
the code drops: the removal of an image (`Unlink`), the close of a new one
(`CloseFails`) and the read of the settings (`ReloadFails`). Two writers of one
temporary file may tear it, and a descriptor follows its file through renames.
`dim` stands for opacity, fit and position too; a PUT names it, `enabled`, both or
neither. **Settings.tla** is the abstract promise: while requests come one at a
time the stored settings are one record, a request that succeeds sets all it names
in one step and keeps the rest, and only when the file could not be read is it
applied to the defaults (`OneRecord`). The request in progress is part of the
refinement mapping, so a save has to be that of the request that was made.

**Agent.tla** models the report loop: the ticker with one buffered tick, the
warm-up, the network part of the collector (fillNet), the wait for the hub's
answer, the signal. Times are ages that are cut off where they no longer matter;
interfaces may appear, vanish and restart their counters at any time, and count
from 0 when they do. The bytes of a rate are counted one by one (`GrownBytes`), as a
set and not as a sum.

**Probes.tla** models the probe rounds and what reports see of them: per network the
race of the candidate hosts, `hostCache` and the pings; then the section of `pmu` in
which doProbe writes the results network by network (`PublishLock`, `Publish`,
`PublishUnlock`), and the one in which a report copies them network by network into
its heartbeat (`ReportLock`, `Copy`, `ReportUnlock`). Reports begin after the first
round and may come at any time. Hosts come and go until the network settles.

**MC modules** instantiate these for TLC; **StoreProofs, TrafficProofs** (traffic
accounting and StoreAudit), **PoolProofs, AlertsProofs, AuthProofs,
AppearanceProofs, AgentProofs** and **ProbesProofs** hold the theorems. Definitions whose comment starts with
"Mutant" are plausible faults (a dropped guard, an off-by-one, a swapped
argument); no specification uses them. `PROJECT.json` pairs each with the
property it must break when it replaces the real definition.

How the modules meet: Store assumes of the agent what Agent shows, one report at a
time, and with `AgentTimesOut` that the client's timeout cuts the wait short.
Store's `LowerCounter` is what fillNet of Agent reports when interfaces go. Alerts
and StorePool take from Store the two halves of ListStatus and the order of
statements of every method. Probes has of Agent's report the part that copies the
results under `pmu`; Agent leaves that part out.

## Runs

| Run | Properties | Shows |
|---|---|---|
| MCStore_samples | TypeOK, SampleSpacing, ExpiredPruned | heartbeats beside edits, deletion, rotation, traffic, failing statements, restarts: samples stay `PersistEvery` apart; expired samples go, also orphans of deleted nodes |
| MCStoreAudit_serial | RingOK, NoRetroactiveCharge, UsedExact, PeriodReanchored, DeletedLeavesNothing, RolloverOnly | waiting agent beside an editing and deleting admin, reboots, failures, restarts: ring in order; charge at most, and without a reboot exactly, what the host moved; outside races a new period gets its baseline, a deletion leaves nothing, and only rollovers change a baseline |
| MCStorePool_live | TypeOK, NeverStuck, RequestsFinish | listings fewer than connections: no deadlock, every request is answered |
| MCAlerts_serial | OncePerOutage, OncePerCrossing, OfflineHasLastSeen | checks that do not overlap: one alert per outage (restarts and cooldown included), with the node's last heartbeat, and one per crossing unless the check before lost the node's usage |
| MCAlerts_live | TypeOK, Armed, KeysCovered, OutageReported, DeletedForgotten | overlapping checks: the next outage is never swallowed, deleted nodes leave no alert state |
| MCAuth_sessions | TypeOK, FailuresBounded, LockoutFixed, RefusedOnlyWhenFull, ExpiredSwept, SessionsEndOnce | three concurrent logins: at most `Limit + Login - 1` failures per window, lockouts of fixed length, refusals only by live sessions, one life per session id |
| MCAppearance_saves | TypeOK, WholeFiles, LoneSaveAgrees, LoneUploadServed, OneRecord | failing calls, stops and one overlap: without overlaps a file is torn only by the failed close of its image, and the settings are one record; afterwards the next lone save repairs file and cache, and a lone upload is served |
| MCAgent_reports | TypeOK, RatedUnlessLate, RateOfWindow, ReportsKeepComing, StopsOnSignal | slow hub, back-to-back ticks, changing interfaces: a rate is missing only after a late sample and never counts bytes of another window; reports go on; the signal ends them |
| MCProbes_rounds | TypeOK, OneRound, Recovers | a report beside the prober carries one whole round; a reachable network is reported reachable for good once hosts stop changing |
| MCStore_vanish | NoRetroactiveCharge (violated) | an interface vanishes, the total falls below the baseline, and the rest of the counter since boot is charged |
| MCStorePool_stuck | NeverStuck (violated) | four listings hold all four connections and each waits for a fifth |
| MCAlerts_twice | OncePerOutage (violated) | an older list, in which the node is online, is applied after the alert |

The runs that hold and those that do not mark where the code relies on an
assumption: interfaces that stay (NoRetroactiveCharge), checks that do not overlap
(OncePerOutage), fewer listings than connections (NeverStuck).

### Differences between the code and its documentation

Besides the three violated runs, met while modelling; each follows from the
definitions named:

- A heartbeat that passed `NodeByToken` before the deletion of its node writes
  memory, and perhaps a sample, after it (`SaveHeartbeat`, `InsertSample`). The
  sample goes by retention (ExpiredPruned); the memory stays until a restart.
  DeletedLeavesNothing excepts such nodes.
- Two heartbeats that overlap, after the agent gave up on the first, can store the
  older one as the live metrics below the newer baseline, and the counter since
  boot is charged. NoRetroactiveCharge is checked and proved for an agent that waits
  (`AgentTimesOut = FALSE`).
- A stop or failure between the commit of a new period and its baseline keeps the
  old reset time, and a heartbeat with the old metadata can write it back;
  `store.go:222` says the baseline is re-anchored. PeriodReanchored excepts both.
  Two updates of one node at once can leave the period of one with the baseline of
  the other (`UpdateNode`, `Anchor`, `WriteTraffic`); theorem PeriodsReanchored is
  for one admin request at a time.
- A failed load of the baseline (`LoadTraffic`) looks like none: a period starts in
  the middle. RolloverOnly excepts it (`Misread`). In ListStatus it looks like a usage
  of 0: checkAlerts drops its entry of `trafficAlerted` (`webhook.go:100`), and the
  next check alerts again although the usage never fell, against `README.md:363`.
  OncePerCrossing allows that repetition, by that check and no later one (`unread`).
- A node deleted between the two halves of ListStatus is reported offline, without
  `last_seen`; so is one whose first list is applied after a newer one.
  OfflineHasLastSeen speaks of nodes that still exist and checks that do not overlap.
- After a host reboot `Used` forgets what was moved between the baseline and the
  reboot, although `models.go:84` says "up+down since period start". When
  IOCounters fails the agent reports totals of 0, which are charged like a vanished
  interface.
- `Unlimited` follows the period, not the quota (`models.go:81`, `README.md:92`).
- The cooldown of `README.md:363` never decides anything: by theorem DebounceArmed
  an entry of `offlineAlerted` exists only for nodes the last check saw offline, so
  a node that stays offline is not alerted about again.
- The limiter counts up to `Limit + n - 1` failures when n logins overlap
  (FailuresBounded is tight), and an entry of `attempts` goes only when its client
  comes back. `RetryAfter` is called by nothing.
- An upload of another type removes the old image first (`UploadBackground`): if it
  then fails, the settings name an image that is gone. The answer of a PUT shows
  values out of range as they came, while file and cache hold the normalized ones.
- The error of an image's close is dropped (`appearance.go:237`): the upload answers
  200 and an image that may lack its end is served (`CloseFails`). WholeFiles and
  LoneUploadServed except exactly that upload.
- The error of reading appearance.json is dropped too (`appearance.go:75`): the hub
  shows the defaults, and the next change is saved on top of them (`ReloadFails`).
  Settings has this as its only way to lose the record.
- `probes.go:85` says hostCache remembers a reachable host; `Choice` falls back to
  the first candidate when nothing answers, and it is cached for eight minutes all
  the same. `probe_config.go:11` says rounds overlap below the floor; they cannot,
  for the next one is timed after the last (`PublishUnlock`).
- `main.go:109` says back-to-back reports, drawn as a dip to 0, are avoided by
  moving the probes out of the loop; a slow hub still causes them. RatedUnlessLate
  says exactly when.
- The agent reads its uptime once (`collector.go:114`).

### Bounds

Store: one node (nodes interact only through the pool and the prune, which
StorePool and the sweep over all nodes cover), a heartbeat beside an admin request,
time to 3 or 4 with `PersistEvery = 2`, `Retention = 2` and a ring of one (samples
run) or two: enough for two stored samples and a restart at the next tick, a full
ring, an expiry and, with `Day = 1`, several rollovers. Two heartbeats of one node
at once (`AgentTimesOut`) are left to the theorems, of which SamplesSpaced covers
them. The audit run has periods of one and two days, so that an edit shortens and
lengthens them. `MaxBytes = 2` with reboots gives a counter above, equal to and
below a baseline. `MaxWalk = 2` in place of 100000 makes the fallback of
advanceReset reachable.
StorePool: two listings, a heartbeat and an edit on three connections; the stuck
run has the code's four (with a webhook every heartbeat starts a listing of its
own, so four heartbeats at once are enough when a node has a period). A listing
makes one load there: more repeat the same wait.
Alerts: one node, the sweeper and one heartbeat goroutine; `OfflineAfter = 1`
makes the cooldown 2, so that time 5 holds an outage that outlasts it, or two
outages; three crossings hold up, down, up.
Auth: one client (clients have separate buckets), three logins against a limit of
2, three session ids against a cap of 2, `TTL = Window = 2` and time to 5: a
lockout and the next window, a full table of live and of expired sessions.
Appearance: two handlers, a visitor, two image types, values below and above the
bounds in every combination a PUT can name, `MaxOverlaps = 1`: requests follow each
other without limit, and one of them overlaps another at any point, for an overlap
of two handlers is what tears files and splits file and cache. Handlers and types
are symmetric. The VIEW leaves out temporary files no request is writing or about
to rename: the next to use one truncates or removes it, and no property reads it.
Agent: time in units of 0.25 s with a period of three, a
window of at most one unit without a rate and a warm-up of two; two interfaces,
counters to 2. That the period is longer than a window without a rate is an
assumption: the agent's `-interval` is 2 s by default and has no floor. AgentProofs has its safety for every period, interface and counter.
Probes: a network with two candidates beside one whose single host (the other
branch of pickHost) is also a candidate of the first, two pings a round, a cache that outlives a round (`TTL = 2`,
`Every = 1`); no bound on the number of rounds.

### Fairness

Store: the sweeper's ticker fires for ever and its DELETE does not fail for ever
(WF of SweepPrune). StorePool: strong fairness per goroutine, since database/sql
serves waiting statements in order and RWMutex starves neither side; no fairness
on starting requests. Alerts: weak fairness per checker: the ticker fires, a
goroutine goes on, and a post ends by its 5 s timeout; a failing list is excluded
in the liveness run, as nothing could be reported then. Auth: the sweeper's ticker.
Agent: weak fairness of time, of the ticker and of the loop, since collecting ends
and the client gives up after 10 s (`reporter.go:24`); strong fairness of `Stop`,
because Go's select chooses at random among the ready cases and so does not pass
over the signal for ever. Probes: weak fairness of time, rounds and goroutines,
since every dial has a timeout, and of the sections of `pmu`, which wait for nothing;
strong fairness of `PublishLock`, because a Go mutex hands itself to a waiter that
has starved for 1 ms. No liveness property assumes that heartbeats
arrive or restarts stop elsewhere.

## Proofs

For all nodes, goroutines, option values and bounds, from the ASSUMEs of the
modules. Every safety property of a passing run, action properties and the two
refinements included, has a theorem. Hypotheses that are not an ASSUME of the module
are named below: each is an assumption the code relies on, and TLC finds a
counterexample to the property when it is dropped.

**StoreProofs**

- `TypeCorrect`: []TypeOK. `AdvanceResetFuture`: advanceReset returns a boundary
  after the present.
- `SamplesSpaced`: []SampleSpacing. It is not inductive: a sample is decided under
  `s.mu` and inserted later, and the insert may fail. The invariant speaks of the
  claimed times of a node (stored, or held by a goroutine about to insert): all are
  at most `lastPersist` and pairwise `PersistEvery` apart (SpacingInv). It needs
  that times are of the past (ClockInv), that ids are never reused (OwnerInv), and
  that a goroutine about to forget a node works for one without a row (FrameInv),
  for otherwise the cleared `lastPersist` would allow a close sample.
- `RingsOrdered`: []RingOK under `~AgentTimesOut`. An entry is stamped before `s.mu`
  is taken, so the ring must also be older than the stamp a heartbeat still has to
  push (OrderInv), and a node has one such heartbeat (SerialInv); two that overlap
  can push in the other order. `RingsBounded`: the capacity holds without a hypothesis.
  `Hydrate` gives each sample by its rank, which says what ORDER BY does and, unlike a
  sort function, can be reasoned about (HydrateSorted).

**TrafficProofs**

- `NeverOvercharged`, `ChargedExactly`: []NoRetroactiveCharge under `~AgentTimesOut`
  and `~IfacesVanish`, []UsedExact under `~AgentTimesOut`. Before(a, b) says that a host can report b
  after a; the invariant (LineInv) puts on one line, per node, every baseline stored
  or about to be written, the live heartbeat, the one in flight, and the host. The
  frames are needed because SetTrafficBaseline and rollTraffic hold a baseline while
  a later heartbeat is stored. Deleted nodes are excepted, as a heartbeat may cross
  the deletion.
- `NothingLeft`: AuditSpec => []DeletedLeavesNothing, without a hypothesis: who would
  still write for a deleted node outside a race has not passed its authentication
  (GoneInv).
- `OnlyOnRollover`: RolloverOnly under `~AgentTimesOut`. A heartbeat about to write a
  baseline found a period that is over, and no one else can have started the next
  one since (RollInv); with two heartbeats of a node at once the second write
  replaces a baseline of the new period.
- `PeriodsReanchored`: []PeriodReanchored for one admin request at a time. Baselines
  carried by requests and heartbeats are within a period of the present, of the
  period the node has now (AnchorInv, PeriodInv), since advanceReset goes at most
  one period beyond it (AdvanceResetNear).
- The three rest on a list of what each step does to the history and the tables
  (lemma Effects), on the roles of goroutines (RoleInv) and on `raced` and `edited`
  having seen what is going on (HistoryInv).

**PoolProofs**

- `PoolTyped`: []TypeOK; `PoolNeverStuck`: []NeverStuck when `Cardinality(Lister) <
  MaxConns`, the bound MCStorePool_stuck shows to be tight. The invariant reads from
  what a goroutine has left to do what it holds: heartbeats and edits give back
  next whatever they take (Paired), a listing holds what its place in the loop says
  (Held). If nobody can go on, nobody is about to give a connection back, so only
  listings hold one, and one each: fewer than the pool has. So no statement
  waits; a goroutine waiting for the mutex waits for a writer that waits for a reader
  (WaitInv, WriterInv), and a reader waits for nothing but statements (ReaderInv).

**AlertsProofs**

- `AlertsTyped`, `DebounceArmed`, `AlertKeysCovered`: []TypeOK, []Armed,
  []KeysCovered under any overlap; the last needs that a list speaks only of its own
  rows (ListInv).
- `OutagesOnce`, `CrossingsOnce`, `AlertsHaveLastSeen`: OncePerOutage, OncePerCrossing
  and []OfflineHasLastSeen under `~Overlap`, with the exception of OncePerCrossing. What has been posted and what the maps
  remember is related for the present and for the list a check is about to apply:
  a node last seen online has no alert of its present outage, and an alert of its
  next crossing cannot have been posted (SerialInv), or the last list lost its usage.

**AuthProofs**

- `AuthTyped`: []TypeOK. `WindowBounded`: []FailuresBounded. The invariant counts the
  logins of a client that are past Allow with the failures of a window that is not
  over: together they are at most the limit and one for every other login
  (BurstInv). Cardinality facts of FiniteSetTheorems carry it.
- `LockoutsFixed`: LockoutFixed. `RefusalsJustified`: RefusedOnlyWhenFull, as eviction
  removes a dead session before it removes a live one.
- `SessionsRefined`: Spec => SessionsEndOnce, the refinement of Sessions. It needs
  that every entry has an id that was drawn (DrawnInv) and that Create leaves fewer
  live sessions than the cap.

**AppearanceProofs**

- `AppearanceTyped`: []TypeOK. `FilesWhole`, `LoneSavesAgree`, `LoneUploadsServed`: the
  action properties WholeFiles, LoneSaveAgrees and LoneUploadServed. A request that
  runs alone owns its temporary file while it writes it, so what it renames is what it
  has written, an image without its end when the close failed (Arrived), and nobody
  else is in a step (LoneInv); while requests come one at a time all are alone
  (SoloInv).
- `RecordRefined`: Spec => OneRecord, the refinement of Settings. While requests come
  one at a time, the cache, except between a rename and its StoreCache, and the
  settings a request builds on are those of the file, or the defaults after a failed
  read; what it is about to save is the request applied to them (RecordInv). The step
  in which a handler fixes its request is Ask, the rename of appearance.json is Save,
  a failure is Drop, ReloadFails is Misread, and every other step but Restart stutters.

**AgentProofs**

- `AgentTyped`: []TypeOK. `RatesKeepUp`: RatedUnlessLate, for every period, threshold
  and warm-up. The invariant ties the age of a tick to the time until the next one,
  and says that after a sample in time no tick comes before the window is long
  enough (TimingInv).
- `RatesTrue`: RateOfWindow, for any interfaces and counters. A byte that moves adds
  at most one element to `GrownBytes`, exactly one while no interface came, went or
  restarted; what an interface loses only takes elements away (WindowBytes).

**ProbesProofs**

- `ProbesTyped`: []TypeOK, from the cached host of a network being one of its
  candidates (HostInv).
- `ReportsOneRound`: []OneRound. Who is in a section holds `pmu` (LockInv). While the
  prober publishes, all its goroutines have ended and what it has written is of its
  round; at any other time all results are of one round, and of ended probes once
  reports have begun; what a report has copied is what `probes` holds (RoundInv).
  Without the mutex, or without waiting for all networks, TLC finds a report of two
  rounds or of a probe that has not ended.

Only model-checked: the eight liveness properties (ExpiredPruned, RequestsFinish,
OutageReported, DeletedForgotten, ExpiredSwept, ReportsKeepComing, StopsOnSignal,
Recovers), since fairness and ENABLED are outside the prover. SampleSpacing over a
`Nat` clock leaves the switch of the host clock backwards aside: `now` never
decreases.

## Not modelled

The status page script: it is mostly rendering, and its polls, which may overlap
and answer in another order, are corrected by the next poll two seconds later.
Configuration, routing, install scripts, admin page: start-up or rendering code
without interleavings. The agent's other readings (processor, memory, disks, host)
are stateless. Of the HTTP API, the read-only handlers. Sizes at 2^63, wall-clock
steps backwards, daylight saving in AddDate (a day is `Day` ticks), SQLite's busy
error in UpdateNode's deferred transaction (the update then changes nothing), the
latency of probes and an agent with probes disabled are left out, as are a failing
random source in Create (a refused login) and a power failure that loses what the
file system had not written.

## Plan

1. Proofs: the safety half of the liveness properties where it says something of
   its own (what the sweepers leave behind, that a tick is pending while the agent
   selects), and mutual exclusion of the write lock.
2. StatusPage: overlapping polls and the stale marker.
