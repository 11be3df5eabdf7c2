------------------------------- MODULE Probes -------------------------------
(***************************************************************************)
(* The three-network probes of the agent (internal/agent/probes.go) and    *)
(* the goroutine that runs them beside the report loop                     *)
(* (cmd/agent/main.go).  A round probes every ISP at once: it picks a host *)
(* by dialling all candidates, keeps it in hostCache for a while, and      *)
(* pings it a few times.  The goroutine writes the results of a round into *)
(* probes and a report copies them into its heartbeat, ISP by ISP, both    *)
(* under the mutex pmu.                                                    *)
(*                                                                         *)
(* Probing is enabled.                                                     *)
(* A host that is up answers a dial (on one of probePorts) in time.        *)
(* Latency is left out: of the candidates that answered, any may win.      *)
(***************************************************************************)
EXTENDS Integers, Sequences, FiniteSets

CONSTANTS
  Isp,          \* "ct", "cu", "cm"
  Hosts,        \* the candidates of an ISP, in order; LoadTargets leaves none empty
  NoHost,
  TTL,          \* hostCacheTTL
  Every,        \* the probe interval
  Count         \* pings per round

HostsOf(i) == {Hosts[i][n] : n \in 1..Len(Hosts[i])}
Host == UNION {HostsOf(i) : i \in Isp}

ASSUME IspAssumption ==
  IsFiniteSet(Isp) /\ \A i \in Isp : Hosts[i] \in Seq(Host) /\ Len(Hosts[i]) > 0
ASSUME HostAssumption == NoHost \notin Host
ASSUME TimeAssumption == TTL \in Nat \ {0} /\ Every \in Nat \ {0} /\ Count \in Nat \ {0}

VARIABLES
  up,       \* the hosts that can be reached
  settled,  \* history: which hosts can be reached changes no more
  cache,    \* hostCache: the host of an ISP, and the age of the entry
  prober,   \* the goroutine that runs the rounds; at first that is main
  wait,     \* until its time.After fires
  isp,      \* the round's goroutine of an ISP
  round,    \* history: the parity of the round in progress, or of the last one
  pmu,      \* who holds the mutex of probes
  probes,   \* main's probes: the results, with the parity of their round
  unpublished, \* whose results of a round are not yet written there
  report,   \* main's report loop, "off" until it begins
  hb,       \* the ISPs' fields of the heartbeat of a report
  uncopied  \* whose are not yet copied

network == <<up, settled>>
rounds == <<prober, wait, isp, round>>
shared == <<pmu, probes>>
reports == <<report, hb, uncopied>>
vars == <<network, cache, rounds, shared, unpublished, reports>>

Entry == [host : Host \cup {NoHost}, age : 0..TTL]
NoEntry == [host |-> NoHost, age |-> TTL]

Frame == [pc : {"idle", "pick", "race", "ping", "done"},
          dialled : SUBSET Host, answered : SUBSET Host, \* the race of the candidates
          host : Host \cup {NoHost}, pings : 0..Count, ok : BOOLEAN]
Idle == [pc |-> "idle", dialled |-> {}, answered |-> {},
         host |-> NoHost, pings |-> 0, ok |-> FALSE]

\* "none" is the placeholder -1 of a probe that has not run, "zero" what Go puts
\* into results and heartbeats: 0 ms and no loss.
Result == [answer : {"none", "zero", "ok", "lost"}, round : {0, 1}]
Placeholder == [answer |-> "none", round |-> 0]
Zero == [answer |-> "zero", round |-> 0]

Init ==
  /\ up \in SUBSET Host /\ settled = FALSE
  /\ cache = [i \in Isp |-> NoEntry]
  /\ prober = "first" /\ wait = 0 /\ round = 0
  /\ isp = [i \in Isp |-> Idle]
  /\ pmu = "free" /\ probes = [i \in Isp |-> Placeholder] /\ unpublished = {}
  /\ report = "off" /\ hb = [i \in Isp |-> Zero] /\ uncopied = {}

-----------------------------------------------------------------------------
(* The network and the clock *)

Toggle(h) ==
  /\ ~settled
  /\ up' = IF h \in up THEN up \ {h} ELSE up \cup {h}
  /\ UNCHANGED <<settled, cache, rounds, shared, unpublished, reports>>

Settle ==
  /\ settled' = TRUE
  /\ UNCHANGED <<up, cache, rounds, shared, unpublished, reports>>

Pass ==
  /\ wait' = IF wait > 0 THEN wait - 1 ELSE 0
  /\ cache' = [i \in Isp |-> [cache[i] EXCEPT !.age = IF @ < TTL THEN @ + 1 ELSE TTL]]
  /\ UNCHANGED <<network, prober, isp, round, shared, unpublished, reports>>

-----------------------------------------------------------------------------
(* ProbeISP *)

\* Mutant: a cached host is used for ever.
CachedForever(i) == cache[i].host # NoHost

Cached(i) == cache[i].host # NoHost /\ cache[i].age < TTL

Goto(i, frame) == isp' = [isp EXCEPT ![i] = frame]

\* The pings of host h.
PingFrame(h) == [Idle EXCEPT !.pc = "ping", !.host = h, !.pings = Count]

\* cachedPickHost, where no candidate has to be dialled: the cached host, or the
\* only one there is.
Pick(i) ==
  /\ isp[i].pc = "pick"
  /\ \/ /\ Cached(i)
        /\ Goto(i, PingFrame(cache[i].host))
        /\ UNCHANGED cache
     \/ /\ ~Cached(i) /\ Len(Hosts[i]) = 1
        /\ Goto(i, PingFrame(Hosts[i][1]))
        /\ cache' = [cache EXCEPT ![i] = [host |-> Hosts[i][1], age |-> 0]]
  /\ UNCHANGED <<network, prober, wait, round, shared, unpublished, reports>>

\* pickHost dials the candidates at once.
Race(i) ==
  /\ isp[i].pc = "pick" /\ ~Cached(i) /\ Len(Hosts[i]) > 1
  /\ Goto(i, [Idle EXCEPT !.pc = "race"])
  /\ UNCHANGED <<network, cache, prober, wait, round, shared, unpublished, reports>>

Dial(i, h) ==
  /\ isp[i].pc = "race" /\ h \in HostsOf(i) \ isp[i].dialled
  /\ Goto(i, [isp[i] EXCEPT !.dialled = @ \cup {h}, !.answered = @ \cup ({h} \cap up)])
  /\ UNCHANGED <<network, cache, prober, wait, round, shared, unpublished, reports>>

\* Mutant: there is no fallback.
ChoiceOrNone(i) == IF isp[i].answered = {} THEN {NoHost} ELSE isp[i].answered

\* The fastest of those that answered; the first candidate when none did.
Choice(i) == IF isp[i].answered = {} THEN {Hosts[i][1]} ELSE isp[i].answered

\* cachedPickHost remembers the choice.
Picked(i) ==
  /\ isp[i].pc = "race" /\ isp[i].dialled = HostsOf(i)
  /\ \E h \in Choice(i) :
       /\ cache' = [cache EXCEPT ![i] = [host |-> h, age |-> 0]]
       /\ Goto(i, PingFrame(h))
  /\ UNCHANGED <<network, prober, wait, round, shared, unpublished, reports>>

Ping(i) ==
  /\ isp[i].pc = "ping"
  /\ Goto(i, [isp[i] EXCEPT !.pings = @ - 1, !.ok = @ \/ isp[i].host \in up,
                            !.pc = IF isp[i].pings = 1 THEN "done" ELSE @])
  /\ UNCHANGED <<network, cache, prober, wait, round, shared, unpublished, reports>>

-----------------------------------------------------------------------------
(* The rounds *)

\* main runs the first round itself, before it starts the goroutine.
StartRound ==
  /\ prober = "first" \/ (prober = "waiting" /\ wait = 0)
  /\ prober' = "round" /\ round' = 1 - round
  /\ isp' = [i \in Isp |-> [Idle EXCEPT !.pc = "pick"]]
  /\ UNCHANGED <<network, cache, wait, shared, unpublished, reports>>

\* What ProbeAll finds among the results.
ResultOf(i) ==
  IF isp[i].pc = "done" THEN [answer |-> IF isp[i].ok THEN "ok" ELSE "lost", round |-> round]
  ELSE Zero

\* Mutant: ProbeAll does not wait for all ISPs.
PublishLockUnwaited ==
  /\ prober = "round"
  /\ pmu = "free" /\ pmu' = "prober"
  /\ prober' = "publish" /\ unpublished' = Isp
  /\ UNCHANGED <<network, cache, wait, isp, round, probes, reports>>

\* doProbe, when ProbeAll has waited for all ISPs.
PublishLock ==
  /\ prober = "round" /\ \A i \in Isp : isp[i].pc = "done"
  /\ pmu = "free" /\ pmu' = "prober"
  /\ prober' = "publish" /\ unpublished' = Isp
  /\ UNCHANGED <<network, cache, wait, isp, round, probes, reports>>

Publish(i) ==
  /\ prober = "publish" /\ i \in unpublished
  /\ probes' = [probes EXCEPT ![i] = ResultOf(i)]
  /\ unpublished' = unpublished \ {i}
  /\ UNCHANGED <<network, cache, rounds, pmu, reports>>

\* The report loop begins after the first round.
PublishUnlock ==
  /\ prober = "publish" /\ unpublished = {}
  /\ pmu' = "free"
  /\ prober' = "waiting" /\ wait' = Every
  /\ isp' = [i \in Isp |-> Idle]
  /\ report' = IF report = "off" THEN "idle" ELSE report
  /\ UNCHANGED <<network, cache, round, probes, unpublished, hb, uncopied>>

-----------------------------------------------------------------------------
(* The reports *)

\* Mutant: the heartbeat is filled without the mutex.
ReportUnlocked ==
  /\ report = "idle"
  /\ report' = "copy" /\ uncopied' = Isp
  /\ UNCHANGED <<network, cache, rounds, shared, unpublished, hb>>

\* report, with a fresh heartbeat.
ReportLock ==
  /\ report = "idle" /\ pmu = "free"
  /\ pmu' = "report"
  /\ report' = "copy" /\ uncopied' = Isp
  /\ UNCHANGED <<network, cache, rounds, probes, unpublished, hb>>

Copy(i) ==
  /\ report = "copy" /\ i \in uncopied
  /\ hb' = [hb EXCEPT ![i] = probes[i]]
  /\ uncopied' = uncopied \ {i}
  /\ UNCHANGED <<network, cache, rounds, shared, unpublished, report>>

\* The heartbeat is sent (Agent), and the report is over.
ReportUnlock ==
  /\ report = "copy" /\ uncopied = {}
  /\ pmu' = "free"
  /\ report' = "idle" /\ hb' = [i \in Isp |-> Zero]
  /\ UNCHANGED <<network, cache, rounds, probes, unpublished, uncopied>>

-----------------------------------------------------------------------------
ProbeISP(i) == Pick(i) \/ Race(i) \/ (\E h \in HostsOf(i) : Dial(i, h)) \/ Picked(i) \/ Ping(i)

Publishing == PublishUnlock \/ \E i \in Isp : Publish(i)

Copying == ReportUnlock \/ \E i \in Isp : Copy(i)

Next ==
  \/ \E h \in Host : Toggle(h)
  \/ Settle \/ Pass
  \/ \E i \in Isp : ProbeISP(i)
  \/ StartRound \/ PublishLock \/ Publishing
  \/ ReportLock \/ Copying

Spec == Init /\ [][Next]_vars

\* Time passes, dials end (they have a timeout), and goroutines run; reports do
\* not keep the prober from pmu for ever.
Fairness ==
  /\ WF_vars(Pass) /\ WF_vars(StartRound)
  /\ SF_vars(PublishLock) /\ WF_vars(Publishing) /\ WF_vars(Copying)
  /\ \A i \in Isp : WF_vars(ProbeISP(i))

FairSpec == Spec /\ Fairness

-----------------------------------------------------------------------------
(* Properties *)

TypeOK ==
  /\ up \subseteq Host /\ settled \in BOOLEAN
  /\ cache \in [Isp -> Entry]
  /\ prober \in {"first", "round", "publish", "waiting"} /\ wait \in 0..Every /\ round \in {0, 1}
  /\ isp \in [Isp -> Frame]
  /\ \A i \in Isp : isp[i].pc = "ping" => isp[i].host \in HostsOf(i)
  /\ pmu \in {"free", "prober", "report"}
  /\ probes \in [Isp -> Result] /\ unpublished \subseteq Isp
  /\ report \in {"off", "idle", "copy"} /\ hb \in [Isp -> Result] /\ uncopied \subseteq Isp

\* A report that falls into the end of a round, or runs beside later ones, carries
\* the results of one and the same round for all ISPs, and never the placeholder or
\* the value of a probe that has not ended.
OneRound ==
  report = "copy" =>
    \A i, j \in Isp \ uncopied :
      hb[i].round = hb[j].round /\ hb[i].answer \in {"ok", "lost"}

\* Hosts come and go while they are picked, cached and pinged, and a host nobody
\* can reach, picked because nothing answered, is cached like any other.  Still,
\* once the network settles, an ISP with a reachable host is reported reachable
\* from some round on.
Recovers ==
  \A i \in Isp :
    [](settled /\ HostsOf(i) \cap up # {} => <>[](probes[i].answer = "ok"))

=============================================================================
