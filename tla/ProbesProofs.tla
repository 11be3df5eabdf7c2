---------------------------- MODULE ProbesProofs ----------------------------
(***************************************************************************)
(* The safety of Probes, for any ISPs, candidates, intervals and cache     *)
(* lifetimes, on a network where hosts come and go.                        *)
(*                                                                         *)
(* That a ping has a host of its own ISP, as TypeOK says, is not           *)
(* inductive: the host may come out of the cache, or out of the race of    *)
(* the candidates (HostInv).  That a report is of one round rests on pmu   *)
(* (LockInv): outside the prober's section the results are of one round,   *)
(* and during a report's they are what it has copied so far (RoundInv).    *)
(***************************************************************************)
EXTENDS Probes, TLAPS

\* The cache and the race of an ISP know its own candidates only, and there is a
\* ping left while it pings.
HostInv ==
  \A i \in Isp :
    /\ cache[i].host \in HostsOf(i) \cup {NoHost}
    /\ isp[i].answered \subseteq HostsOf(i)
    /\ isp[i].pc = "ping" => isp[i].pings > 0

\* pmu is held by those who are in their sections.
LockInv ==
  /\ prober = "publish" <=> pmu = "prober"
  /\ report = "copy" <=> pmu = "report"

\* What a probe that has ended leaves.
Real(r) == r.answer \in {"ok", "lost"}

RoundInv ==
  /\ prober = "publish" =>
       /\ \A i \in Isp : isp[i].pc = "done"
       /\ \A i \in Isp \ unpublished : probes[i].round = round /\ Real(probes[i])
  /\ prober # "publish" =>
       \A i, j \in Isp : probes[i].round = probes[j].round
                         /\ (report # "off" => Real(probes[i]))
  /\ report = "copy" => \A i \in Isp \ uncopied : hb[i] = probes[i]

Inv == TypeOK /\ HostInv /\ LockInv /\ RoundInv

\* The first candidate of an ISP is one of its hosts, and these are hosts.
LEMMA HostFacts ==
  ASSUME NEW i \in Isp
  PROVE  Hosts[i][1] \in HostsOf(i) /\ HostsOf(i) \subseteq Host /\ NoHost \notin HostsOf(i)
<1>1. Len(Hosts[i]) \in Nat /\ Len(Hosts[i]) > 0 BY IspAssumption
<1> QED BY <1>1, HostAssumption DEF HostsOf, Host

LEMMA FrameFacts ==
  /\ Idle \in Frame /\ Idle.pc = "idle" /\ Idle.answered = {}
  /\ \A pc \in {"pick", "race"} :
       LET f == [Idle EXCEPT !.pc = pc] IN f \in Frame /\ f.pc = pc /\ f.answered = {}
  /\ \A h \in Host :
       LET f == PingFrame(h) IN
       f \in Frame /\ f.pc = "ping" /\ f.host = h /\ f.pings = Count /\ f.answered = {}
<1>0. 0 \in 0..Count /\ Count \in 0..Count BY TimeAssumption
<1>1. Idle \in Frame /\ Idle.pc = "idle" /\ Idle.answered = {} BY <1>0 DEF Idle, Frame
<1>2. ASSUME NEW pc \in {"pick", "race"}
      PROVE  LET f == [Idle EXCEPT !.pc = pc] IN f \in Frame /\ f.pc = pc /\ f.answered = {}
  BY <1>1 DEF Frame
<1>3. ASSUME NEW h \in Host
      PROVE  LET f == PingFrame(h) IN
             f \in Frame /\ f.pc = "ping" /\ f.host = h /\ f.pings = Count /\ f.answered = {}
  BY <1>0, <1>1 DEF PingFrame, Frame
<1> QED BY <1>1, <1>2, <1>3

\* One step of an ISP's goroutine.
LEMMA OneStep ==
  ASSUME Inv, NEW i \in Isp, NEW f \in Frame, Goto(i, f),
         f.pc = "ping" => f.host \in HostsOf(i) /\ f.pings > 0,
         f.answered \subseteq HostsOf(i),
         \/ cache' = cache
         \/ \E h \in HostsOf(i) : cache' = [cache EXCEPT ![i] = [host |-> h, age |-> 0]],
         isp[i].pc # "done",
         UNCHANGED <<network, prober, wait, round, shared, unpublished, reports>>
  PROVE  Inv'
<1>1. isp' = [isp EXCEPT ![i] = f] /\ isp \in [Isp -> Frame] /\ cache \in [Isp -> Entry]
  BY DEF Goto, Inv, TypeOK
<1>2. cache' \in [Isp -> Entry] /\ \A j \in Isp : cache'[j].host \in HostsOf(j) \cup {NoHost}
  <2>1. CASE cache' = cache BY <1>1, <2>1 DEF Inv, HostInv
  <2>2. ASSUME NEW h \in HostsOf(i), cache' = [cache EXCEPT ![i] = [host |-> h, age |-> 0]]
        PROVE  /\ cache' \in [Isp -> Entry]
               /\ \A j \in Isp : cache'[j].host \in HostsOf(j) \cup {NoHost}
    <3> DEFINE e == [host |-> h, age |-> 0]
    <3>1. e \in Entry /\ e.host = h BY HostFacts, TimeAssumption DEF Entry
    <3> HIDE DEF e
    <3> QED BY <1>1, <2>2, <3>1 DEF Inv, HostInv, e
  <2> QED BY <2>1, <2>2
<1>3. TypeOK' BY <1>1, <1>2 DEF Inv, TypeOK, network, shared, reports
<1>4. HostInv' BY <1>1, <1>2 DEF Inv, HostInv
<1>5. LockInv' BY DEF Inv, LockInv, shared, reports
<1>6. RoundInv'
  <2>1. prober # "publish" BY DEF Inv, RoundInv
  <2> QED BY <2>1 DEF Inv, RoundInv, shared, reports
<1> QED BY <1>3, <1>4, <1>5, <1>6 DEF Inv

LEMMA InitInv == Init => Inv
<1> SUFFICES ASSUME Init PROVE Inv
  OBVIOUS
<1>1. NoEntry \in Entry /\ NoEntry.host = NoHost
  BY TimeAssumption DEF NoEntry, Entry
<1>2. Idle \in Frame /\ Idle.pc # "ping" BY FrameFacts
<1>3. probes \in [Isp -> Result] /\ hb \in [Isp -> Result]
  BY DEF Init, Placeholder, Zero, Result
<1>4. cache \in [Isp -> Entry] /\ isp \in [Isp -> Frame] BY <1>1, <1>2 DEF Init
<1>5. wait \in 0..Every BY TimeAssumption DEF Init
<1>6. TypeOK BY <1>2, <1>3, <1>4, <1>5 DEF Init, TypeOK
<1>7. HostInv BY <1>1, FrameFacts DEF Init, HostInv
<1>8. LockInv BY DEF Init, LockInv
<1>9. RoundInv BY DEF Init, RoundInv, Placeholder
<1> QED BY <1>6, <1>7, <1>8, <1>9 DEF Inv

LEMMA ProbeStep == ASSUME Inv, NEW i \in Isp, ProbeISP(i) PROVE Inv'
<1>0. /\ isp[i] \in Frame /\ isp[i].answered \subseteq HostsOf(i) /\ cache[i] \in Entry
      /\ cache[i].host \in HostsOf(i) \cup {NoHost}
      /\ isp[i].pc = "ping" => isp[i].host \in HostsOf(i) /\ isp[i].pings > 0
  BY DEF Inv, TypeOK, HostInv
<1>a. ASSUME NEW h \in HostsOf(i), Goto(i, PingFrame(h)), isp[i].pc # "done",
             UNCHANGED <<network, prober, wait, round, shared, unpublished, reports>>,
             cache' = cache \/ cache' = [cache EXCEPT ![i] = [host |-> h, age |-> 0]]
      PROVE  Inv'
  <2> DEFINE f == PingFrame(h)
  <2>1. f \in Frame /\ f.host = h /\ f.pings > 0 /\ f.answered = {}
    BY HostFacts, FrameFacts, TimeAssumption
  <2> HIDE DEF f
  <2> QED BY <1>a, <2>1, OneStep DEF f
<1>1. CASE Pick(i)
  <2>1. CASE Cached(i) /\ Goto(i, PingFrame(cache[i].host)) /\ UNCHANGED cache
    <3>1. cache[i].host \in HostsOf(i) BY <1>0, <2>1 DEF Cached
    <3> QED BY <1>1, <1>a, <2>1, <3>1 DEF Pick
  <2>2. CASE /\ Goto(i, PingFrame(Hosts[i][1]))
             /\ cache' = [cache EXCEPT ![i] = [host |-> Hosts[i][1], age |-> 0]]
    BY <1>1, <1>a, <2>2, HostFacts DEF Pick
  <2> QED BY <1>1, <2>1, <2>2 DEF Pick
<1>2. CASE Race(i)
  <2> DEFINE f == [Idle EXCEPT !.pc = "race"]
  <2>1. f \in Frame /\ f.pc = "race" /\ f.answered = {} BY FrameFacts
  <2>2. /\ Goto(i, f) /\ isp[i].pc # "done"
        /\ UNCHANGED <<network, cache, prober, wait, round, shared, unpublished, reports>>
    BY <1>2 DEF Race
  <2> HIDE DEF f
  <2> QED BY <2>1, <2>2, OneStep
<1>3. ASSUME NEW h \in HostsOf(i), Dial(i, h) PROVE Inv'
  <2> DEFINE f == [isp[i] EXCEPT !.dialled = @ \cup {h}, !.answered = @ \cup ({h} \cap up)]
  <2>1. f \in Frame /\ f.pc = isp[i].pc /\ f.answered \subseteq HostsOf(i)
    BY <1>0, HostFacts DEF Frame
  <2>2. /\ Goto(i, f) /\ isp[i].pc = "race"
        /\ UNCHANGED <<network, cache, prober, wait, round, shared, unpublished, reports>>
    BY <1>3 DEF Dial
  <2> HIDE DEF f
  <2> QED BY <2>1, <2>2, OneStep
<1>4. CASE Picked(i)
  <2>1. Choice(i) \subseteq HostsOf(i) BY <1>0, HostFacts DEF Choice
  <2> QED BY <1>4, <1>a, <2>1 DEF Picked
<1>5. CASE Ping(i)
  <2> DEFINE ok == isp[i].ok \/ isp[i].host \in up
             pc == IF isp[i].pings = 1 THEN "done" ELSE isp[i].pc
             f == [isp[i] EXCEPT !.pings = isp[i].pings - 1, !.ok = ok, !.pc = pc]
  <2>1. /\ Goto(i, f) /\ isp[i].pc = "ping"
        /\ UNCHANGED <<network, cache, prober, wait, round, shared, unpublished, reports>>
    BY <1>5 DEF Ping
  <2>2. isp[i].pings \in 1..Count /\ isp[i].host \in HostsOf(i) BY <1>0, <2>1 DEF Frame
  <2>3. /\ ok \in BOOLEAN /\ pc \in {"done", "ping"} /\ (pc = "ping" => isp[i].pings # 1)
        /\ isp[i].pings - 1 \in 0..Count
    BY <2>1, <2>2, TimeAssumption
  <2> HIDE DEF ok, pc
  <2>4. /\ f.pings = isp[i].pings - 1 /\ f.host = isp[i].host
        /\ f.answered = isp[i].answered /\ f.pc = pc
    BY <1>0 DEF Frame
  <2>5. f \in Frame BY <1>0, <2>3 DEF Frame
  <2> HIDE DEF f
  <2>6. f.pc = "ping" => f.host \in HostsOf(i) /\ f.pings > 0 BY <2>2, <2>3, <2>4
  <2> QED BY <1>0, <2>1, <2>4, <2>5, <2>6, OneStep
<1> QED BY <1>1, <1>2, <1>3, <1>4, <1>5 DEF ProbeISP

\* A step of the prober in its section, and one of the report in its own.
LEMMA PublishStep == ASSUME Inv, NEW i \in Isp, Publish(i) PROVE Inv'
<1>1. /\ prober = "publish" /\ isp[i].pc = "done" /\ pmu = "prober" /\ report # "copy"
      /\ UNCHANGED <<network, cache, rounds, pmu, reports>>
      /\ probes' = [probes EXCEPT ![i] = ResultOf(i)] /\ unpublished' = unpublished \ {i}
  BY DEF Publish, Inv, LockInv, RoundInv
<1> DEFINE r == ResultOf(i)
<1>2. r \in Result /\ r.round = round /\ Real(r)
  BY <1>1 DEF ResultOf, Result, Real, Inv, TypeOK
<1> HIDE DEF r
<1>3. probes' = [probes EXCEPT ![i] = r] BY <1>1 DEF r
<1>4. TypeOK' BY <1>1, <1>2, <1>3 DEF Inv, TypeOK, network, rounds, reports
<1>5. HostInv' /\ LockInv' BY <1>1 DEF Inv, HostInv, LockInv, rounds, reports
<1>6. RoundInv' BY <1>1, <1>2, <1>3 DEF Inv, TypeOK, RoundInv, rounds, reports
<1> QED BY <1>4, <1>5, <1>6 DEF Inv

LEMMA CopyStep == ASSUME Inv, NEW i \in Isp, Copy(i) PROVE Inv'
<1>1. /\ report = "copy" /\ pmu = "report" /\ prober # "publish"
      /\ UNCHANGED <<network, cache, rounds, shared, unpublished, report>>
      /\ hb' = [hb EXCEPT ![i] = probes[i]] /\ uncopied' = uncopied \ {i}
  BY DEF Copy, Inv, LockInv
<1>2. TypeOK' BY <1>1 DEF Inv, TypeOK, network, rounds, shared
<1>3. HostInv' /\ LockInv' BY <1>1 DEF Inv, HostInv, LockInv, rounds, shared
<1>4. RoundInv' BY <1>1 DEF Inv, TypeOK, RoundInv, rounds, shared
<1> QED BY <1>2, <1>3, <1>4 DEF Inv

LEMMA InvStep == Inv /\ [Next]_vars => Inv'
<1> SUFFICES ASSUME Inv, [Next]_vars PROVE Inv'
  OBVIOUS
<1> USE DEF Inv
<1>0. \A i \in Isp : isp[i] \in Frame /\ cache[i] \in Entry BY DEF TypeOK
<1>1. ASSUME NEW h \in Host, Toggle(h) PROVE Inv'
  BY <1>1 DEF Toggle, TypeOK, HostInv, LockInv, RoundInv, rounds, shared, reports
<1>2. CASE Settle
  BY <1>2 DEF Settle, TypeOK, HostInv, LockInv, RoundInv, rounds, shared, reports
<1>3. CASE Pass
  <2>1. wait' \in 0..Every BY <1>3, TimeAssumption DEF Pass, TypeOK
  <2>2. ASSUME NEW i \in Isp PROVE cache'[i] \in Entry /\ cache'[i].host = cache[i].host
    <3> DEFINE age == IF cache[i].age < TTL THEN cache[i].age + 1 ELSE TTL
    <3>1. cache'[i] = [cache[i] EXCEPT !.age = age] BY <1>3 DEF Pass
    <3>2. age \in 0..TTL BY <1>0, TimeAssumption DEF Entry
    <3> HIDE DEF age
    <3> QED BY <1>0, <3>1, <3>2 DEF Entry
  <2>3. cache' \in [Isp -> Entry] BY <1>3, <2>2 DEF Pass
  <2>4. TypeOK' BY <1>3, <2>1, <2>3 DEF Pass, TypeOK, network, shared, reports
  <2>5. HostInv' BY <1>3, <2>2 DEF Pass, HostInv
  <2>6. LockInv' /\ RoundInv' BY <1>3 DEF Pass, LockInv, RoundInv, shared, reports
  <2> QED BY <2>4, <2>5, <2>6
<1>4. CASE \E i \in Isp : ProbeISP(i) BY <1>4, ProbeStep
<1>5. CASE StartRound
  <2> DEFINE f == [Idle EXCEPT !.pc = "pick"]
  <2>1. f \in Frame /\ f.pc = "pick" /\ f.answered = {} BY FrameFacts
  <2>2. isp' = [i \in Isp |-> f] BY <1>5 DEF StartRound
  <2> HIDE DEF f
  <2>3. TypeOK' BY <1>5, <2>1, <2>2 DEF StartRound, TypeOK, network, shared, reports
  <2>4. HostInv' BY <1>5, <2>1, <2>2 DEF StartRound, HostInv
  <2>5. LockInv' /\ RoundInv' BY <1>5 DEF StartRound, LockInv, RoundInv, shared, reports
  <2> QED BY <2>3, <2>4, <2>5
<1>6. CASE PublishLock
  BY <1>6 DEF PublishLock, TypeOK, HostInv, LockInv, RoundInv, network, reports
<1>7. CASE PublishUnlock
  <2>1. isp' \in [Isp -> Frame] /\ \A i \in Isp : isp'[i].pc = "idle" /\ isp'[i].answered = {}
    BY <1>7, FrameFacts DEF PublishUnlock
  <2>2. TypeOK' BY <1>7, <2>1, TimeAssumption DEF PublishUnlock, TypeOK, network
  <2>3. HostInv' BY <1>7, <2>1 DEF PublishUnlock, HostInv
  <2>4. pmu = "prober" /\ report # "copy" /\ report' # "copy"
    BY <1>7 DEF PublishUnlock, LockInv
  <2>5. LockInv' BY <1>7, <2>4 DEF PublishUnlock, LockInv
  <2>6. \A i \in Isp : probes[i].round = round /\ Real(probes[i])
    BY <1>7 DEF PublishUnlock, RoundInv
  <2>7. RoundInv' BY <1>7, <2>4, <2>6 DEF PublishUnlock, RoundInv, Real
  <2> QED BY <2>2, <2>3, <2>5, <2>7
<1>8. CASE \E i \in Isp : Publish(i) BY <1>8, PublishStep
<1>9. CASE ReportLock
  BY <1>9 DEF ReportLock, TypeOK, HostInv, LockInv, RoundInv, network, rounds
<1>10. CASE \E i \in Isp : Copy(i) BY <1>10, CopyStep
<1>11. CASE ReportUnlock
  <2>1. hb' \in [Isp -> Result] BY <1>11 DEF ReportUnlock, Zero, Result
  <2>2. TypeOK' BY <1>11, <2>1 DEF ReportUnlock, TypeOK, network, rounds
  <2>3. HostInv' /\ LockInv' BY <1>11 DEF ReportUnlock, HostInv, LockInv, rounds
  <2>4. RoundInv' BY <1>11 DEF ReportUnlock, RoundInv, LockInv, rounds
  <2> QED BY <2>2, <2>3, <2>4
<1>12. CASE UNCHANGED vars
  BY <1>12 DEF vars, TypeOK, HostInv, LockInv, RoundInv, network, rounds, shared, reports
<1> QED
  BY <1>1, <1>2, <1>3, <1>4, <1>5, <1>6, <1>7, <1>8, <1>9, <1>10, <1>11, <1>12
  DEF Next, Publishing, Copying

\* The probes' state has its type; above all, ProbeISP pings a host of its own ISP
\* whether that comes from the cache, won the race or is the fallback.
THEOREM ProbesTyped == Spec => []TypeOK
<1>1. Inv => TypeOK BY DEF Inv
<1> QED BY <1>1, InitInv, InvStep, PTL DEF Spec

\* Under pmu a report copies the results of one round of all ISPs, none of which
\* is missing, wherever in a round it comes.
THEOREM ReportsOneRound == Spec => []OneRound
<1>1. Inv => OneRound
  <2> SUFFICES ASSUME Inv, report = "copy", NEW i \in Isp \ uncopied, NEW j \in Isp \ uncopied
               PROVE  hb[i].round = hb[j].round /\ hb[i].answer \in {"ok", "lost"}
    BY DEF OneRound
  <2>1. prober # "publish" BY DEF Inv, LockInv
  <2> QED BY <2>1 DEF Inv, RoundInv, Real
<1> QED BY <1>1, InitInv, InvStep, PTL DEF Spec

=============================================================================
