--------------------------- MODULE TrafficProofs ---------------------------
(***************************************************************************)
(* What the store does to a node from one heartbeat or admin request to    *)
(* the next, for every set of nodes, every period and every schedule,      *)
(* failing statements, restarts and reboots of the hosts included.         *)
(*                                                                         *)
(* The first half is about Store: while an agent waits for the answer to   *)
(* its previous POST the traffic accounting is exact between reboots, and  *)
(* while interfaces do not vanish it never charges too much.  The second   *)
(* half is about StoreAudit: when a baseline may be replaced, how far away *)
(* its reset is, and what is left of a deleted node.                       *)
(*                                                                         *)
(* The heartbeats of a host lie on one line: Before(a, b) says that b can  *)
(* have been read after a.  The invariant places on the line of each node, *)
(* in this order, every baseline that is stored or about to be written,    *)
(* the live heartbeat, the one in flight, and the host itself.             *)
(***************************************************************************)
EXTENDS StoreAudit, StoreProofs

-----------------------------------------------------------------------------
(* The line of a host's heartbeats *)

\* Between a and b the host moved bytes, and it may have rebooted; an interface
\* that vanishes takes away only some of what was counted before.
Before(a, b) ==
  /\ a.boot <= a.total /\ b.boot <= b.total
  /\ a.total <= b.total
  /\ IfacesVanish \/ b.boot = a.boot \/ b.boot >= a.total

LEMMA BeforeTransitive ==
  ASSUME NEW a \in Heartbeat, NEW b \in Heartbeat, NEW c \in Heartbeat,
         Before(a, b), Before(b, c)
  PROVE  Before(a, c)
BY DEF Before, Heartbeat

\* A heartbeat that is on a line is Before itself.
LEMMA BeforeItself ==
  ASSUME NEW a \in Heartbeat, NEW b \in Heartbeat, Before(a, b)
  PROVE  Before(a, a) /\ Before(b, b)
BY DEF Before, Heartbeat

\* What a node without a heartbeat or a baseline holds is Before everything.
LEMMA NothingBefore ==
  ASSUME NEW b \in Heartbeat, Before(b, b)
  PROVE  Before(NoHeartbeat, b)
BY DEF Before, Heartbeat, NoHeartbeat

\* counterDelta charges exactly what moved when the host has not rebooted, and
\* never more when no interface vanishes.
LEMMA DeltaOnLine ==
  ASSUME NEW a \in Heartbeat, NEW b \in Heartbeat, Before(a, b)
  PROVE  /\ ~IfacesVanish => CounterDelta(Counter(b), Counter(a)) <= b.total - a.total
         /\ a.boot = b.boot => CounterDelta(Counter(b), Counter(a)) = b.total - a.total
BY DEF Before, Heartbeat, CounterDelta, Counter

-----------------------------------------------------------------------------
(* The inductive invariant *)

\* Before SaveHeartbeat has stored it, and after.
Coming == {"auth", "stamp", "lock"}
Stored == {"insert", "prune", "roll", "write"}

\* Baseline st is a heartbeat that node n sent before all that come.
Behind(st, n) ==
  /\ Before(st.anchor, host[n])
  /\ live[n].seen # 0 => Before(st.anchor, live[n].hb)
  /\ \A p \in Poster :
       proc[p].node = n /\ proc[p].pc \in Coming => Before(st.anchor, proc[p].hb)

\* What a heartbeat of n that is being served has to do with the live one; there
\* is at most one.
Served(p, n) ==
  /\ proc[p].pc \in Coming =>
       Before(live[n].hb, proc[p].hb) /\ Before(proc[p].hb, host[n])
  /\ proc[p].pc \in Stored => live[n].hb = proc[p].hb
  /\ \A q \in Poster : proc[q].node = n => p = q

Line(n) ==
  /\ Before(live[n].hb, host[n])
  /\ Behind(traffic[n], n)
  /\ \A g \in Goroutine : proc[g].pc = "write" /\ proc[g].node = n => Behind(proc[g].st, n)
  /\ \A p \in Poster : proc[p].node = n => Served(p, n)

\* Of a deleted node nothing is claimed: a heartbeat may cross the deletion.
LineInv == \A n \in Node : n \in rows \/ n \notin minted => Line(n)

LEMMA LineInit == Init => LineInv
<1> SUFFICES ASSUME Init PROVE \A n \in Node : Line(n)
  BY DEF LineInv
<1>1. NoHeartbeat \in Heartbeat /\ Before(NoHeartbeat, NoHeartbeat)
  BY DEF NoHeartbeat, Heartbeat, Before
<1> TAKE n \in Node
<1>2. \A g \in Goroutine : proc[g].pc = "idle" /\ proc[g].node # n
  BY NodeAssumption DEF Init, Idle
<1>3. Poster \subseteq Goroutine BY DEF Goroutine
<1>4. Behind(traffic[n], n)
  BY <1>1, <1>2, <1>3 DEF Init, Behind, Unseen, NoTraffic
<1>5. Before(live[n].hb, host[n]) BY <1>1 DEF Init, Unseen
<1> QED BY <1>2, <1>3, <1>4, <1>5 DEF Line

-----------------------------------------------------------------------------
(* Steps *)

\* A goroutine that goes on keeps the line: when it still serves the same
\* heartbeat, not in an earlier part, or leaves the node; what it is about to
\* write, and what has just been written, is behind.
LEMMA LineGoto ==
  ASSUME TypeOK, NEW n \in Node, Line(n), NEW g \in Goroutine, NEW f,
         Goto(g, f), live' = live, host' = host,
         Behind(traffic'[n], n),
         f.node = n /\ f.pc = "write" => Behind(f.st, n),
         f.node = n /\ g \in Poster =>
           /\ proc[g].node = n /\ f.hb = proc[g].hb
           /\ f.pc \in Coming => proc[g].pc \in Coming
           /\ f.pc \in Stored => proc[g].pc \in Stored
  PROVE  Line(n)'
<1>1. /\ proc'[g] = f
      /\ \A h \in Goroutine : h # g => proc'[h] = proc[h]
      /\ Poster \subseteq Goroutine
  BY DEF Goto, TypeOK, Goroutine
<1>2. ASSUME NEW p \in Poster, proc'[p].node = n
      PROVE  /\ proc[p].node = n /\ proc'[p].hb = proc[p].hb
             /\ proc'[p].pc \in Coming => proc[p].pc \in Coming
             /\ proc'[p].pc \in Stored => proc[p].pc \in Stored
  BY <1>1, <1>2
<1>3. Behind(traffic[n], n)' BY <1>2 DEF Behind
<1>4. ASSUME NEW h \in Goroutine, proc'[h].pc = "write", proc'[h].node = n
      PROVE  Behind(proc[h].st, n)'
  <2>1. Behind(proc'[h].st, n) BY <1>1, <1>4 DEF Line
  <2> QED BY <2>1, <1>2 DEF Behind
<1>5. ASSUME NEW p \in Poster, proc'[p].node = n PROVE Served(p, n)'
  BY <1>2, <1>5 DEF Line, Served
<1> QED BY <1>3, <1>4, <1>5 DEF Line

\* Every step keeps the line of every node that is not deleted.
LEMMA LineStep ==
  ASSUME ~AgentTimesOut
  PROVE  BaseInv /\ LineInv /\ [Next]_vars => LineInv'
<1> SUFFICES ASSUME BaseInv, LineInv, [Next]_vars PROVE LineInv'
  OBVIOUS
<1>A. /\ TypeOK /\ OwnerInv /\ FrameInv
      /\ Poster \subseteq Goroutine /\ Admin \subseteq Goroutine
      /\ \A g \in Goroutine : proc[g] \in Frame /\ FrameOK(proc[g])
  BY DEF BaseInv, Goroutine, TypeOK, FrameInv
<1>K. \A n \in Node : n \in rows' \/ n \notin minted' => n \in rows \/ n \notin minted
  BY DEF Next, ServeHeartbeat, ServeAdmin, tables, memory, vars, Post, NodeByToken,
     Reject, Stamp, SaveHeartbeat, InsertSample, PruneSamples, RollTraffic, WriteTraffic,
     CreateNode, RotateToken, UpdateNode, SetTrafficBaseline, DeleteNode, ForgetNode,
     SweepPrune, Restart, Tick, MoveBytes, LowerCounter
<1> SUFFICES ASSUME NEW n \in Node, n \in rows' \/ n \notin minted', Line(n)
             PROVE  Line(n)'
  BY <1>K DEF LineInv
<1>T. /\ traffic[n] \in TrafficState /\ live[n].hb \in Heartbeat /\ host[n] \in Heartbeat
      /\ \A g \in Goroutine : proc[g].hb \in Heartbeat /\ proc[g].st.anchor \in Heartbeat
      /\ traffic[n].anchor \in Heartbeat
      /\ Idle.node # n
  BY <1>A, NodeAssumption DEF TypeOK, TrafficState, Frame, Idle
<1>I. /\ Behind(traffic[n], n)
      /\ Before(host[n], host[n]) /\ Before(live[n].hb, live[n].hb)
      /\ Behind(NoTraffic, n)
  <2>1. Behind(traffic[n], n) /\ Before(live[n].hb, host[n]) BY DEF Line
  <2>2. Before(host[n], host[n]) /\ Before(live[n].hb, live[n].hb)
    BY <2>1, <1>T, BeforeItself
  <2>3. ASSUME NEW p \in Poster, proc[p].node = n, proc[p].pc \in Coming
        PROVE  Before(NoHeartbeat, proc[p].hb)
    <3>1. Before(live[n].hb, proc[p].hb) BY <2>3 DEF Line, Served
    <3> QED BY <3>1, <1>A, <1>T, BeforeItself, NothingBefore
  <2>4. Before(NoHeartbeat, host[n]) /\ Before(NoHeartbeat, live[n].hb)
    BY <2>2, <1>T, NothingBefore
  <2> QED BY <2>1, <2>2, <2>3, <2>4 DEF Behind, NoTraffic
<1> USE DEF tables, memory
<1>1. ASSUME NEW p \in Poster, NEW k \in Node, NEW g \in 0..MaxRotate, Post(p, k, g)
      PROVE  Line(n)'
  <2>1. /\ proc' = [proc EXCEPT ![p] = [Idle EXCEPT !.pc = "auth", !.node = k, !.gen = g,
                                                    !.hb = host[k]]]
        /\ proc[p] = Idle
        /\ \A q \in Poster : proc[q].node # k
        /\ live' = live /\ host' = host /\ traffic' = traffic
    BY <1>1 DEF Post, Goto
  <2>2. /\ proc'[p].node = k /\ proc'[p].pc = "auth" /\ proc'[p].hb = host[k]
        /\ \A h \in Goroutine : h # p => proc'[h] = proc[h]
    BY <2>1, <1>A DEF TypeOK, Idle
  <2>3. Before(live[n].hb, host[n])' BY <2>1 DEF Line
  <2>4. Behind(traffic[n], n)' BY <2>1, <2>2, <1>A, <1>I DEF Behind
  <2>5. ASSUME NEW h \in Goroutine, proc'[h].pc = "write", proc'[h].node = n
        PROVE  Behind(proc[h].st, n)'
    <3>1. h # p /\ proc'[h] = proc[h] BY <2>2, <2>5
    <3>2. Behind(proc[h].st, n) BY <3>1, <2>5 DEF Line
    <3> QED BY <3>1, <3>2, <2>1, <2>2, <1>A DEF Behind
  <2>6. ASSUME NEW q \in Poster, proc'[q].node = n PROVE Served(q, n)'
    <3>1. CASE q = p
      BY <3>1, <2>1, <2>2, <2>6, <1>A, <1>I DEF Served, Line, Coming, Stored
    <3>2. CASE q # p
      BY <3>2, <2>1, <2>2, <2>6, <1>A DEF Served, Line
    <3> QED BY <3>1, <3>2
  <2> QED BY <2>3, <2>4, <2>5, <2>6 DEF Line
<1>2. ASSUME NEW p \in Poster,
             NodeByToken(p) \/ Reject(p) \/ Stamp(p) \/ InsertSample(p) \/ PruneSamples(p)
      PROVE  Line(n)'
  <2>1. PICK f : /\ Goto(p, f)
                 /\ f = Idle \/ (/\ f.node = proc[p].node /\ f.hb = proc[p].hb
                                 /\ f.pc \in Coming => proc[p].pc \in Coming
                                 /\ f.pc \in Stored => proc[p].pc \in Stored
                                 /\ f.pc # "write")
    <3>1. proc[p] \in Frame BY <1>A
    <3>2. CASE NodeByToken(p)
      <4> DEFINE next == [proc[p] EXCEPT !.pc = "stamp", !.gen = 0,
                                         !.period = meta[proc[p].node].period]
      <4>1. Goto(p, next) /\ proc[p].pc = "auth" BY <3>2 DEF NodeByToken
      <4>2. next.node = proc[p].node /\ next.hb = proc[p].hb /\ next.pc = "stamp"
        BY <3>1 DEF Frame
      <4> HIDE DEF next
      <4> QED BY <4>1, <4>2 DEF Coming, Stored
    <3>3. CASE Reject(p)
      BY <3>3 DEF Reject
    <3>4. CASE Stamp(p)
      <4> DEFINE next == [proc[p] EXCEPT !.pc = "lock", !.t = now]
      <4>1. Goto(p, next) /\ proc[p].pc = "stamp" BY <3>4 DEF Stamp
      <4>2. next.node = proc[p].node /\ next.hb = proc[p].hb /\ next.pc = "lock"
        BY <3>1 DEF Frame
      <4> HIDE DEF next
      <4> QED BY <4>1, <4>2 DEF Coming, Stored
    <3>5. CASE InsertSample(p)
      BY <3>1, <3>5 DEF InsertSample, Coming, Stored, Frame
    <3>6. CASE PruneSamples(p)
      <4> DEFINE next == AfterPersist(proc[p])
      <4>1. Goto(p, next) /\ proc[p].pc = "prune" BY <3>6 DEF PruneSamples
      <4>2. \/ next = Idle
            \/ next.node = proc[p].node /\ next.hb = proc[p].hb /\ next.pc = "roll"
        BY <3>1 DEF AfterPersist, Frame
      <4> HIDE DEF next
      <4> QED BY <4>1, <4>2 DEF Coming, Stored
    <3> QED BY <1>2, <3>2, <3>3, <3>4, <3>5, <3>6
  <2>2. live' = live /\ host' = host /\ traffic' = traffic
    BY <1>2 DEF NodeByToken, Reject, Stamp, InsertSample, PruneSamples
  <2> QED BY <2>1, <2>2, <1>A, <1>T, <1>I, LineGoto DEF Idle
<1>3. ASSUME NEW p \in Poster, SaveHeartbeat(p) PROVE Line(n)'
  <2> DEFINE k == proc[p].node
             hb == proc[p].hb
  <2>1. /\ proc[p].pc = "lock" /\ k \in Node /\ hb \in Heartbeat
        /\ live' = [live EXCEPT ![k] = [hb |-> hb, seen |-> proc[p].t]]
        /\ host' = host /\ traffic' = traffic
    BY <1>3, <1>A, <1>T DEF SaveHeartbeat, FrameOK, OwnerInv, TypeOK
  <2>2. PICK f : /\ Goto(p, f)
                 /\ \/ f = Idle
                    \/ f.node = k /\ f.hb = hb /\ f.pc \in {"insert", "roll"}
    <3>1. proc[p] \in Frame BY <1>A
    <3> DEFINE sample == [proc[p] EXCEPT !.pc = "insert"]
               after == AfterPersist(proc[p])
    <3>2. Goto(p, sample) \/ Goto(p, after) BY <1>3 DEF SaveHeartbeat
    <3>3. sample.node = k /\ sample.hb = hb /\ sample.pc = "insert" BY <3>1 DEF Frame
    <3>4. \/ after = Idle
          \/ after.node = k /\ after.hb = hb /\ after.pc = "roll"
      BY <3>1 DEF AfterPersist, Frame
    <3> HIDE DEF sample, after
    <3> QED BY <3>2, <3>3, <3>4
  <2>3. /\ proc'[p] = f
        /\ \A h \in Goroutine : h # p => proc'[h] = proc[h]
    BY <2>2, <1>A DEF Goto, TypeOK
  <2>4. CASE k # n
    <3>1. live'[n] = live[n] BY <2>1, <2>4, <1>A DEF TypeOK
    <3>2. f.node # n BY <2>2, <2>4, <1>T
    <3>3. ASSUME NEW h \in Goroutine, proc'[h].node = n PROVE h # p /\ proc'[h] = proc[h]
      BY <2>3, <3>2, <3>3
    <3>4. Behind(traffic[n], n)' BY <1>I, <3>1, <3>3, <2>1, <1>A DEF Behind
    <3>5. ASSUME NEW h \in Goroutine, proc'[h].pc = "write", proc'[h].node = n
          PROVE  Behind(proc[h].st, n)'
      <4>1. Behind(proc[h].st, n) /\ proc'[h] = proc[h] BY <3>3, <3>5 DEF Line
      <4> QED BY <4>1, <3>1, <3>3, <2>1, <1>A DEF Behind
    <3>6. ASSUME NEW q \in Poster, proc'[q].node = n PROVE Served(q, n)'
      <4>1. Served(q, n) /\ proc'[q] = proc[q] BY <3>3, <3>6, <1>A DEF Line
      <4> QED BY <4>1, <3>1, <3>3, <2>1, <1>A DEF Served
    <3>7. Before(live[n].hb, host[n])' BY <3>1, <2>1 DEF Line
    <3> QED BY <3>4, <3>5, <3>6, <3>7 DEF Line
  <2>5. CASE k = n
    <3>1. live'[n] = [hb |-> hb, seen |-> proc[p].t] BY <2>1, <2>5, <1>A DEF TypeOK
    <3>2. Served(p, n) BY <2>5 DEF Line
    <3>3. Before(hb, host[n]) BY <3>2, <2>1 DEF Served, Coming
    <3>4. ASSUME NEW q \in Poster, proc'[q].node = n PROVE q = p
      BY <3>2, <3>4, <2>3, <1>A DEF Served
    <3>5. f.pc \notin Coming BY <2>2 DEF Coming, Idle
    <3>6. ASSUME NEW st, Behind(st, n) PROVE Before(st.anchor, host[n]) /\ Before(st.anchor, hb)
      BY <3>6, <2>1, <2>5 DEF Behind, Coming
    <3>7. ASSUME NEW h \in Goroutine, proc'[h].pc = "write", proc'[h].node = n
          PROVE  Behind(proc[h].st, n)'
      <4>1. h # p BY <3>7, <2>2, <2>3 DEF Idle
      <4>2. proc'[h] = proc[h] BY <4>1, <2>3
      <4>3. Behind(proc[h].st, n) BY <3>7, <4>2 DEF Line
      <4>4. Before(proc[h].st.anchor, host[n]) /\ Before(proc[h].st.anchor, hb) BY <4>3, <3>6
      <4> QED BY <4>2, <4>4, <3>1, <3>4, <3>5, <2>1, <2>3 DEF Behind
    <3>8. Behind(traffic[n], n)'
      <4>1. Before(traffic[n].anchor, host[n]) /\ Before(traffic[n].anchor, hb)
        BY <3>6, <1>I
      <4> QED BY <4>1, <3>1, <3>4, <3>5, <2>1, <2>3 DEF Behind
    <3>9. ASSUME NEW q \in Poster, proc'[q].node = n PROVE Served(q, n)'
      <4>1. q = p BY <3>4, <3>9
      <4>2. f.hb = hb BY <4>1, <3>9, <2>2, <2>3, <1>T
      <4> QED BY <4>1, <4>2, <3>1, <3>4, <3>5, <2>3 DEF Served
    <3>10. Before(live[n].hb, host[n])' BY <3>1, <3>3, <2>1
    <3> QED BY <3>7, <3>8, <3>9, <3>10 DEF Line
  <2> QED BY <2>4, <2>5
<1>4. ASSUME NEW p \in Poster, RollTraffic(p) PROVE Line(n)'
  <2>1. live' = live /\ host' = host /\ traffic' = traffic /\ proc[p].pc = "roll"
    BY <1>4 DEF RollTraffic
  <2>2. PICK f : /\ Goto(p, f)
                 /\ \/ f = Idle
                    \/ /\ f.node = proc[p].node /\ f.hb = proc[p].hb
                       /\ f.pc = "write" /\ f.st.anchor = proc[p].hb
    <3>1. proc[p] \in Frame BY <1>A
    <3> DEFINE next(st) ==
                 [proc[p] EXCEPT
                    !.pc = "write",
                    !.st = [anchor |-> proc[p].hb,
                            resetAt |-> AdvanceReset(st.resetAt, proc[p].period, now)]]
    <3>2. \E st \in {traffic[proc[p].node], NoTraffic} : Goto(p, Idle) \/ Goto(p, next(st))
      BY <1>4 DEF RollTraffic
    <3>3. ASSUME NEW st
          PROVE  /\ next(st).node = proc[p].node /\ next(st).hb = proc[p].hb
                 /\ next(st).pc = "write" /\ next(st).st.anchor = proc[p].hb
      BY <3>1 DEF Frame
    <3> HIDE DEF next
    <3> QED BY <3>2, <3>3
  <2>3. f.node = n => Behind(f.st, n)
    <3> SUFFICES ASSUME f.node = n PROVE Behind(f.st, n)
      OBVIOUS
    <3>1. proc[p].node = n /\ f.st.anchor = proc[p].hb BY <2>2, <1>T
    <3>2. Served(p, n) BY <3>1 DEF Line
    <3>3. live[n].hb = proc[p].hb BY <3>2, <2>1 DEF Served, Stored
    <3>4. ASSUME NEW q \in Poster, proc[q].node = n PROVE proc[q].pc \notin Coming
      BY <3>2, <3>4, <2>1 DEF Served, Coming
    <3> QED BY <3>1, <3>3, <3>4, <1>I DEF Behind, Line
  <2> QED
    BY <2>1, <2>2, <2>3, <1>A, <1>T, <1>I, LineGoto DEF Idle, Coming, Stored
<1>5. ASSUME NEW g \in Goroutine, WriteTraffic(g) PROVE Line(n)'
  <2>1. /\ proc[g].pc = "write" /\ Goto(g, Idle) /\ live' = live /\ host' = host
        /\ \/ traffic' = traffic
           \/ traffic' = [traffic EXCEPT ![proc[g].node] =
                             IF proc[g].node \in rows THEN proc[g].st ELSE @]
    BY <1>5 DEF WriteTraffic
  <2>2. traffic'[n] = traffic[n] \/ (proc[g].node = n /\ traffic'[n] = proc[g].st)
    BY <2>1, <1>A DEF TypeOK
  <2>3. Behind(traffic'[n], n) BY <2>1, <2>2, <1>I DEF Line
  <2> QED BY <2>1, <2>3, <1>A, <1>T, LineGoto
<1>6. ASSUME NEW a \in Admin, NEW k \in Node, NEW m \in Meta, UpdateNode(a, k, m)
      PROVE  Line(n)'
  <2>1. PICK f : Goto(a, f) /\ f.pc # "write"
    <3> DEFINE next == [Idle EXCEPT !.pc = "anchor", !.node = k, !.period = m.period]
    <3>1. Goto(a, next) \/ Goto(a, Idle) BY <1>6 DEF UpdateNode
    <3>2. next.pc # "write" /\ Idle.pc # "write" BY DEF Idle
    <3> HIDE DEF next
    <3> QED BY <3>1, <3>2
  <2>2. live' = live /\ host' = host /\ traffic' = traffic /\ a \notin Poster
    BY <1>6, GoroutineAssumption DEF UpdateNode
  <2> QED BY <2>1, <2>2, <1>A, <1>I, LineGoto
<1>7. ASSUME NEW a \in Admin, SetTrafficBaseline(a) PROVE Line(n)'
  <2> DEFINE k == proc[a].node
             st == IF live[k].seen = 0 THEN NoTraffic
                   ELSE [anchor |-> live[k].hb,
                         resetAt |-> AdvanceReset(0, proc[a].period, now)]
  <2>1. /\ Goto(a, [proc[a] EXCEPT !.pc = "write", !.st = st])
        /\ live' = live /\ host' = host /\ traffic' = traffic /\ a \notin Poster
    BY <1>7, GoroutineAssumption DEF SetTrafficBaseline
  <2>2. PICK f : Goto(a, f) /\ f.node = k /\ f.st = st
    <3>1. proc[a] \in Frame BY <1>A
    <3> DEFINE next == [proc[a] EXCEPT !.pc = "write", !.st = st]
    <3>2. next.node = k /\ next.st = st BY <3>1 DEF Frame
    <3>3. Goto(a, next) BY <2>1
    <3> HIDE DEF next
    <3> QED BY <3>2, <3>3
  <2>3. ASSUME k = n PROVE Behind(st, n)
    <3>1. CASE live[n].seen = 0 BY <3>1, <2>3, <1>I
    <3>2. CASE live[n].seen # 0
      <4>1. st.anchor = live[n].hb BY <3>2, <2>3
      <4>2. ASSUME NEW p \in Poster, proc[p].node = n, proc[p].pc \in Coming
            PROVE  Before(live[n].hb, proc[p].hb)
        BY <4>2 DEF Line, Served
      <4> HIDE DEF st
      <4> QED BY <4>1, <4>2, <1>I DEF Behind, Line
    <3> QED BY <3>1, <3>2
  <2> HIDE DEF st
  <2> QED BY <2>1, <2>2, <2>3, <1>A, <1>I, LineGoto
<1>8. ASSUME NEW a \in Admin, NEW k \in Node, DeleteNode(a, k) PROVE Line(n)'
  <2>1. k # n BY <1>8, <1>A DEF DeleteNode, OwnerInv
  <2>2. PICK f : Goto(a, f) /\ f.pc # "write"
    <3> DEFINE next == [Idle EXCEPT !.pc = "forget", !.node = k]
    <3>1. Goto(a, next) BY <1>8 DEF DeleteNode
    <3>2. next.pc # "write" BY DEF Idle
    <3> HIDE DEF next
    <3> QED BY <3>1, <3>2
  <2>3. live' = live /\ host' = host /\ traffic'[n] = traffic[n] /\ a \notin Poster
    BY <1>8, <2>1, <1>A, GoroutineAssumption DEF DeleteNode, TypeOK
  <2> QED BY <2>2, <2>3, <1>A, <1>I, LineGoto
<1>9. ASSUME NEW a \in Admin, ForgetNode(a) PROVE Line(n)'
  <2>1. proc[a].node # n /\ proc[a].node \in minted
    BY <1>9, <1>A, <1>K DEF ForgetNode, FrameOK
  <2>2. live'[n] = live[n] /\ host' = host /\ traffic' = traffic /\ Goto(a, Idle)
    BY <1>9, <2>1, <1>A DEF ForgetNode, TypeOK, OwnerInv
  <2>3. ASSUME NEW h \in Goroutine, proc'[h].node = n PROVE proc'[h] = proc[h]
    BY <2>2, <2>3, <1>A, <1>T DEF Goto, TypeOK
  <2>4. Behind(traffic[n], n)' BY <2>2, <2>3, <1>I, <1>A DEF Behind
  <2>5. ASSUME NEW h \in Goroutine, proc'[h].pc = "write", proc'[h].node = n
        PROVE  Behind(proc[h].st, n)'
    <3>1. Behind(proc[h].st, n) /\ proc'[h] = proc[h] BY <2>3, <2>5 DEF Line
    <3> QED BY <3>1, <2>2, <2>3, <1>A DEF Behind
  <2>6. ASSUME NEW q \in Poster, proc'[q].node = n PROVE Served(q, n)'
    <3>1. Served(q, n) /\ proc'[q] = proc[q] BY <2>3, <2>6, <1>A DEF Line
    <3> QED BY <3>1, <2>2, <2>3, <1>A DEF Served
  <2>7. Before(live[n].hb, host[n])' BY <2>2 DEF Line
  <2> QED BY <2>4, <2>5, <2>6, <2>7 DEF Line
<1>10. ASSUME Restart PROVE Line(n)'
  <2>1. /\ \A g \in Goroutine : proc'[g] = Idle
        /\ live'[n] = Unseen /\ host' = host /\ traffic' = traffic
    BY <1>10 DEF Restart
  <2>2. \A g \in Goroutine : proc'[g].node # n BY <2>1, <1>T
  <2>3. Before(live[n].hb, host[n])' BY <2>1, <1>I, <1>T, NothingBefore DEF Unseen
  <2>4. Behind(traffic[n], n)' BY <2>1, <2>2, <1>I, <1>A DEF Behind, Unseen
  <2> QED BY <2>2, <2>3, <2>4, <1>A DEF Line
<1>11. ASSUME NEW k \in Node, MoveBytes(k) \/ LowerCounter(k) PROVE Line(n)'
  <2>1. live' = live /\ traffic' = traffic /\ proc' = proc
    BY <1>11 DEF MoveBytes, LowerCounter
  <2>2. /\ Before(host[n], host'[n])
        /\ host'[n] \in Heartbeat
    <3>1. CASE k # n
      BY <3>1, <1>11, <1>A, <1>T, <1>I DEF MoveBytes, LowerCounter, TypeOK
    <3>2. CASE k = n /\ MoveBytes(k)
      <4>1. host'[n] = [host[n] EXCEPT !.total = @ + 1]
        BY <3>2, <1>A DEF MoveBytes, TypeOK
      <4> QED BY <4>1, <1>T, <1>I DEF Before, Heartbeat
    <3>3. CASE k = n /\ LowerCounter(k)
      <4>1. PICK lost \in IF IfacesVanish THEN 0..Counter(host[n]) ELSE {Counter(host[n])} :
              host'[n] = [host[n] EXCEPT !.boot = @ + lost]
        BY <3>3, <1>A DEF LowerCounter, TypeOK
      <4> QED BY <4>1, <1>T, <1>I DEF Before, Heartbeat, Counter
    <3> QED BY <3>1, <3>2, <3>3, <1>11
  <2>3. \A b \in Heartbeat : Before(b, host[n]) => Before(b, host'[n])
    BY <2>2, <1>T, BeforeTransitive
  <2>4. ASSUME NEW st, st.anchor \in Heartbeat, Behind(st, n) PROVE Before(st.anchor, host'[n])
    BY <2>3, <2>4 DEF Behind
  <2>5. Behind(traffic[n], n)'
    <3>1. Before(traffic[n].anchor, host'[n]) BY <2>4, <1>I, <1>T
    <3> QED BY <3>1, <2>1, <1>I DEF Behind
  <2>6. ASSUME NEW h \in Goroutine, proc'[h].pc = "write", proc'[h].node = n
        PROVE  Behind(proc[h].st, n)'
    <3>1. Behind(proc[h].st, n) BY <2>1, <2>6 DEF Line
    <3>2. Before(proc[h].st.anchor, host'[n]) BY <3>1, <2>4, <1>T
    <3> QED BY <3>1, <3>2, <2>1 DEF Behind
  <2>7. ASSUME NEW q \in Poster, proc'[q].node = n PROVE Served(q, n)'
    <3>1. Served(q, n) BY <2>1, <2>7 DEF Line
    <3>2. proc[q].hb \in Heartbeat BY <1>A, <1>T
    <3> QED BY <3>1, <3>2, <2>1, <2>3 DEF Served
  <2>8. Before(live[n].hb, host[n])' BY <2>1, <2>3, <1>T DEF Line
  <2> QED BY <2>5, <2>6, <2>7, <2>8 DEF Line
<1>12. ASSUME UNCHANGED <<live, host, traffic, proc>> PROVE Line(n)'
  BY <1>12 DEF Line, Behind, Served
<1>13. ASSUME NEW k \in Node, RotateToken(k) \/ \E m \in Meta : CreateNode(k, m)
       PROVE  Line(n)'
  BY <1>13, <1>12 DEF CreateNode, RotateToken
<1>14. ASSUME SweepPrune \/ Tick \/ UNCHANGED vars PROVE Line(n)'
  BY <1>14, <1>12 DEF SweepPrune, Tick, vars
<1>15. ASSUME NEW p \in Poster, ServeHeartbeat(p) PROVE Line(n)'
  BY <1>A, <1>15, <1>1, <1>2, <1>3, <1>4, <1>5 DEF ServeHeartbeat
<1>16. ASSUME NEW a \in Admin, ServeAdmin(a) PROVE Line(n)'
  BY <1>A, <1>16, <1>5, <1>6, <1>7, <1>8, <1>9 DEF ServeAdmin
<1>17. CASE \E k \in Node : \/ RotateToken(k) \/ MoveBytes(k) \/ LowerCounter(k)
                             \/ \E m \in Meta : CreateNode(k, m)
  <2>1. PICK k \in Node : \/ RotateToken(k) \/ MoveBytes(k) \/ LowerCounter(k)
                          \/ \E m \in Meta : CreateNode(k, m)
    BY <1>17
  <2> QED BY <2>1, <1>11, <1>13
<1> QED
  <2>1. CASE \E p \in Poster : ServeHeartbeat(p) BY <2>1, <1>15
  <2>2. CASE \E a \in Admin : ServeAdmin(a) BY <2>2, <1>16
  <2>3. CASE SweepPrune \/ Tick \/ UNCHANGED vars BY <2>3, <1>14
  <2>4. CASE Restart BY <2>4, <1>10
  <2> QED BY <2>1, <2>2, <2>3, <2>4, <1>17 DEF Next

-----------------------------------------------------------------------------
\* SetTrafficBaseline, rollTraffic and computeTraffic: as long as agents wait for
\* their answers and interfaces do not vanish, no node is ever charged for traffic
\* its baseline covers, whatever the admin edits, statements fail, hosts reboot
\* and the hub restarts.
THEOREM NeverOvercharged ==
  ASSUME ~AgentTimesOut, ~IfacesVanish
  PROVE  Spec => []NoRetroactiveCharge
<1>1. BaseInv /\ LineInv => NoRetroactiveCharge
  <2> SUFFICES ASSUME BaseInv, LineInv, NEW n \in rows PROVE Used(n) <= Moved(n)
    BY DEF NoRetroactiveCharge
  <2>1. n \in Node /\ live[n].hb \in Heartbeat /\ traffic[n].anchor \in Heartbeat
    BY DEF BaseInv, TypeOK, TrafficState
  <2>2. Line(n) BY <2>1 DEF LineInv
  <2>3. CASE traffic[n].resetAt = 0 \/ live[n].seen = 0
    BY <2>1, <2>3 DEF Used, Moved, Heartbeat
  <2>4. CASE traffic[n].resetAt # 0 /\ live[n].seen # 0
    <3>1. Before(traffic[n].anchor, live[n].hb) BY <2>2, <2>4 DEF Line, Behind
    <3>2. traffic[n].anchor.total <= live[n].hb.total BY <3>1 DEF Before
    <3>3. Used(n) <= live[n].hb.total - traffic[n].anchor.total
      BY <3>1, <2>1, <2>4, DeltaOnLine DEF Used
    <3> QED BY <3>2, <3>3, <2>1 DEF Moved, Heartbeat
  <2> QED BY <2>3, <2>4
<1> QED BY <1>1, BaseInit, BaseStep, LineInit, LineStep, PTL DEF Spec

\* While the host has not rebooted since the baseline the charge is exact, whether
\* or not interfaces have vanished before.
THEOREM ChargedExactly ==
  ASSUME ~AgentTimesOut
  PROVE  Spec => []UsedExact
<1>1. BaseInv /\ LineInv => UsedExact
  <2> SUFFICES ASSUME BaseInv, LineInv, NEW n \in rows,
                      traffic[n].resetAt # 0, live[n].seen # 0,
                      traffic[n].anchor.boot = live[n].hb.boot
               PROVE  Used(n) = Moved(n)
    BY DEF UsedExact
  <2>1. n \in Node /\ live[n].hb \in Heartbeat /\ traffic[n].anchor \in Heartbeat
    BY DEF BaseInv, TypeOK, TrafficState
  <2>2. Before(traffic[n].anchor, live[n].hb) BY <2>1 DEF LineInv, Line, Behind
  <2>3. traffic[n].anchor.total <= live[n].hb.total BY <2>2 DEF Before
  <2>4. Used(n) = live[n].hb.total - traffic[n].anchor.total
    BY <2>1, <2>2, DeltaOnLine DEF Used
  <2> QED BY <2>1, <2>3, <2>4 DEF Moved, Heartbeat
<1> QED BY <1>1, BaseInit, BaseStep, LineInit, LineStep, PTL DEF Spec

-----------------------------------------------------------------------------
(* The audit: where advanceReset stops *)

\* advanceReset returns a boundary at most one period away: it stops at the first
\* one that is in the future, and starts from now when it has no reset to walk
\* from or gives up.
LEMMA AdvanceResetNear ==
  ASSUME NEW prev \in Nat, NEW period \in Nat \ {0}, NEW at \in Nat,
         prev = 0 \/ prev <= at
  PROVE  AdvanceReset(prev, period, at) <= at + period * Day
<1> DEFINE length == period * Day
           beyond == {i \in 1..MaxWalk : prev + i * length > at}
<1>1. length \in Nat BY OptionAssumption
<1> HIDE DEF length
<1>2. CASE prev = 0 \/ beyond = {}
  <2>1. AdvanceReset(prev, period, at) = at + length
    BY <1>2 DEF AdvanceReset, length
  <2> QED BY <2>1, <1>1 DEF length
<1>3. CASE prev # 0 /\ beyond # {}
  <2>1. AdvanceReset(prev, period, at) = prev + Min(beyond) * length
    BY <1>3 DEF AdvanceReset, length
  <2>2. beyond \in SUBSET Nat BY OptionAssumption
  <2>3. Min(beyond) \in beyond /\ \A i \in beyond : Min(beyond) <= i
    BY <2>2, <1>3, MinNat
  <2>4. PICK m \in beyond : m = Min(beyond) /\ \A i \in beyond : m <= i
    BY <2>3
  <2>5. m \in Nat \ {0} /\ m <= MaxWalk /\ MaxWalk \in Nat BY <2>4, OptionAssumption
  <2>6. prev + (m - 1) * length <= at
    <3>1. CASE m = 1 BY <3>1, <1>1, <1>3
    <3>2. CASE m # 1
      <4>1. m - 1 \in 1..MaxWalk BY <3>2, <2>5
      <4>2. m - 1 \notin beyond BY <2>4, <2>5
      <4>3. (m - 1) * length \in Nat BY <4>1, <1>1
      <4> QED BY <4>1, <4>2, <4>3
    <3> QED BY <3>1, <3>2
  <2>7. m * length = (m - 1) * length + length /\ (m - 1) * length \in Nat
    BY <2>5, <1>1
  <2> QED BY <2>1, <2>4, <2>6, <2>7, <1>1 DEF length
<1> QED BY <1>2, <1>3

-----------------------------------------------------------------------------
(* What a step does to the state these proofs speak of.  A step of the hub   *)
(* is one of thirteen effects (lemma Effects), each weaker than its actions. *)

\* All but the goroutines.
Still == UNCHANGED <<now, minted, rows, meta, traffic, samples, live, history, lastPersist>>

\* Nothing changes of node n but its row.
SameData(n) ==
  /\ samples'[n] \subseteq samples[n]
  /\ live'[n] = live[n] /\ history'[n] = history[n] /\ lastPersist'[n] = lastPersist[n]

\* Goroutine g goes on with its work for its node.
Continues(g) == proc'[g].node = proc[g].node /\ proc'[g].period = proc[g].period

\* Post
Starts(p) ==
  /\ Moves(p) /\ Still
  /\ proc[p] = Idle /\ proc'[p].pc = "auth" /\ proc'[p].node \in minted
  /\ AgentTimesOut \/ \A q \in Poster : proc[q].node # proc'[p].node

\* NodeByToken
Admits(p) ==
  /\ Moves(p) /\ Still
  /\ proc'[p].pc = "stamp" /\ proc'[p].node = proc[p].node
  /\ proc'[p].node \in rows /\ proc'[p].period = meta[proc'[p].node].period

\* Reject, and RollTraffic before the reset
Ends(p) == Moves(p) /\ Still /\ proc'[p] = Idle

\* Stamp, SaveHeartbeat, InsertSample, PruneSamples
Works(p) ==
  /\ Moves(p) /\ UNCHANGED <<now, minted, rows, meta, traffic>>
  /\ proc[p].pc \in {"stamp", "lock", "insert", "prune"}
  /\ \/ proc'[p] = Idle
     \/ proc'[p].pc \in {"lock", "insert", "prune", "roll"} /\ Continues(p)
  /\ \A n \in Node \ {proc[p].node} : SameData(n)

\* RollTraffic after the reset
Rolls(p) ==
  /\ Moves(p) /\ Still
  /\ proc[p].pc = "roll" /\ proc'[p].pc = "write" /\ Continues(p)
  /\ \E st \in {traffic[proc[p].node], NoTraffic} :
       /\ proc[p].node \in rows => st = traffic[proc[p].node] \/ st = NoTraffic
       /\ st.resetAt = 0 \/ now >= st.resetAt
       /\ proc'[p].st.resetAt = AdvanceReset(st.resetAt, proc[p].period, now)

\* WriteTraffic
Writes(g) ==
  /\ Moves(g) /\ UNCHANGED <<now, minted, rows, meta, samples, live, history, lastPersist>>
  /\ proc[g].pc = "write" /\ proc'[g] = Idle
  /\ traffic'[proc[g].node] \in {traffic[proc[g].node], proc[g].st}
  /\ \A n \in Node \ {proc[g].node} : traffic'[n] = traffic[n]

\* UpdateNode
Edits(a, n, period) ==
  /\ Moves(a)
  /\ UNCHANGED <<now, minted, rows, traffic, samples, live, history, lastPersist>>
  /\ proc[a] = Idle /\ n \in rows
  /\ meta'[n].period = period /\ \A k \in Node \ {n} : meta'[k] = meta[k]
  /\ \/ proc'[a] = Idle /\ (period = 0 \/ period = meta[n].period)
     \/ /\ proc'[a].pc = "anchor" /\ proc'[a].node = n /\ proc'[a].period = period
        /\ period # meta[n].period

\* SetTrafficBaseline
Anchors(a) ==
  /\ Moves(a) /\ Still
  /\ proc[a].pc = "anchor" /\ proc'[a].pc = "write" /\ Continues(a)
  /\ proc'[a].st.resetAt \in {0, now + proc[a].period * Day}

\* DeleteNode
Deletes(a, n) ==
  /\ Moves(a) /\ UNCHANGED <<now, minted, live, history, lastPersist>>
  /\ proc[a] = Idle /\ proc'[a].pc = "forget" /\ proc'[a].node = n
  /\ rows' = rows \ {n} /\ samples'[n] = {} /\ traffic'[n] = NoTraffic
  /\ \A k \in Node \ {n} : meta'[k] = meta[k] /\ traffic'[k] = traffic[k] /\ SameData(k)

\* ForgetNode
Forgets(a) ==
  /\ Moves(a) /\ UNCHANGED <<now, minted, rows, meta, traffic, samples>>
  /\ proc[a].pc = "forget" /\ proc'[a] = Idle
  /\ live'[proc[a].node] = Unseen /\ history'[proc[a].node] = <<>>
  /\ lastPersist'[proc[a].node] = 0
  /\ \A n \in Node \ {proc[a].node} : SameData(n)

\* CreateNode
Creates(n) ==
  /\ UNCHANGED <<now, traffic, samples, live, history, lastPersist, proc>>
  /\ n \notin minted /\ minted' = minted \cup {n} /\ rows' = rows \cup {n}
  /\ \A k \in Node \ {n} : meta'[k] = meta[k]

\* SweepPrune, Tick, and what the hosts do
Passes ==
  /\ UNCHANGED <<minted, rows, meta, traffic, live, history, lastPersist, proc>>
  /\ now' \in {now, now + 1}
  /\ \A n \in Node : samples'[n] \subseteq samples[n]

\* Restart
Stops ==
  /\ UNCHANGED <<now, minted, rows, meta, traffic, samples>>
  /\ \A g \in Goroutine : proc'[g] = Idle
  /\ \A n \in Node : samples[n] = {} =>
       live'[n] = Unseen /\ history'[n] = <<>> /\ lastPersist'[n] = 0

Effect ==
  \/ \E p \in Poster : Starts(p) \/ Admits(p) \/ Ends(p) \/ Works(p) \/ Rolls(p)
  \/ \E g \in Goroutine : Writes(g)
  \/ \E a \in Admin : \/ Anchors(a) \/ Forgets(a)
                      \/ \E n \in Node : Deletes(a, n) \/ \E t \in Nat : Edits(a, n, t)
  \/ \E n \in Node : Creates(n)
  \/ Passes \/ Stops

\* Every step of the hub has one of these effects.
LEMMA Effects == BaseInv /\ RingInv /\ [Next]_vars => Effect
<1> SUFFICES ASSUME BaseInv, RingInv, [Next]_vars PROVE Effect
  OBVIOUS
<1>A. /\ TypeOK /\ ClockInv /\ OwnerInv /\ FrameInv
      /\ Poster \subseteq Goroutine /\ Admin \subseteq Goroutine
      /\ history \in [Node -> Seq(Nat)]
  BY DEF BaseInv, RingInv, Goroutine
<1>B. \A g \in Goroutine : proc[g] \in Frame /\ FrameOK(proc[g])
  BY <1>A DEF TypeOK, FrameInv
<1> USE DEF tables, memory
<1>1. ASSUME NEW p \in Poster, NEW n \in Node, NEW g \in 0..MaxRotate, Post(p, n, g)
      PROVE  Starts(p)
  <2> DEFINE next == [Idle EXCEPT !.pc = "auth", !.node = n, !.gen = g, !.hb = host[n]]
  <2>1. next.pc = "auth" /\ next.node = n BY DEF Idle
  <2> HIDE DEF next
  <2>2. Goto(p, next) BY <1>1 DEF Post, next
  <2>3. Moves(p) /\ proc'[p] = next BY <2>2, <1>A, GotoMoves
  <2> QED BY <1>1, <2>1, <2>3 DEF Post, Starts, Still
<1>2. ASSUME NEW p \in Poster, NodeByToken(p) PROVE Admits(p)
  <2> DEFINE next == [proc[p] EXCEPT !.pc = "stamp", !.gen = 0,
                                !.period = meta[proc[p].node].period]
  <2>1. /\ next.pc = "stamp" /\ next.node = proc[p].node
        /\ next.period = meta[proc[p].node].period
    BY <1>A, <1>B DEF Frame
  <2> HIDE DEF next
  <2>2. Goto(p, next) BY <1>2 DEF NodeByToken, next
  <2>3. Moves(p) /\ proc'[p] = next BY <2>2, <1>A, GotoMoves
  <2> QED BY <1>2, <2>1, <2>3 DEF NodeByToken, Admits, Still
<1>3. ASSUME NEW p \in Poster, Reject(p) PROVE Ends(p)
  <2>1. Moves(p) /\ proc'[p] = Idle BY <1>3, <1>A, GotoMoves DEF Reject
  <2> QED BY <1>3, <2>1 DEF Reject, Ends, Still
<1>4. ASSUME NEW p \in Poster, Stamp(p) PROVE Works(p)
  <2> DEFINE next == [proc[p] EXCEPT !.pc = "lock", !.t = now]
  <2>1. next.pc = "lock" /\ next.node = proc[p].node /\ next.period = proc[p].period
    BY <1>A, <1>B DEF Frame
  <2> HIDE DEF next
  <2>2. Goto(p, next) BY <1>4 DEF Stamp, next
  <2>3. Moves(p) /\ proc'[p] = next BY <2>2, <1>A, GotoMoves
  <2> QED BY <1>4, <2>1, <2>3 DEF Stamp, Works, Continues, SameData
\* What AfterPersist makes of a frame.
<1>5. ASSUME NEW p \in Poster
      PROVE  \/ AfterPersist(proc[p]) = Idle
             \/ /\ AfterPersist(proc[p]).pc = "roll"
                /\ AfterPersist(proc[p]).node = proc[p].node
                /\ AfterPersist(proc[p]).period = proc[p].period
  <2> DEFINE next == [proc[p] EXCEPT !.pc = "roll", !.t = 0]
  <2>1. next.pc = "roll" /\ next.node = proc[p].node /\ next.period = proc[p].period
    BY <1>A, <1>B DEF Frame
  <2> HIDE DEF next
  <2>2. AfterPersist(proc[p]) = next \/ AfterPersist(proc[p]) = Idle
    BY DEF AfterPersist, next
  <2> QED BY <2>1, <2>2
<1>6. ASSUME NEW p \in Poster, SaveHeartbeat(p) PROVE Works(p)
  <2>1. \A n \in Node \ {proc[p].node} : SameData(n)
    BY <1>6, <1>A DEF SaveHeartbeat, SameData, TypeOK
  <2> DEFINE next == [proc[p] EXCEPT !.pc = "insert"]
  <2>2. next.pc = "insert" /\ next.node = proc[p].node /\ next.period = proc[p].period
    BY <1>A, <1>B DEF Frame
  <2> HIDE DEF next
  <2>3. Goto(p, next) \/ Goto(p, AfterPersist(proc[p]))
    BY <1>6 DEF SaveHeartbeat, next
  <2>4. Moves(p) /\ (proc'[p] = next \/ proc'[p] = AfterPersist(proc[p]))
    BY <2>3, <1>A, GotoMoves
  <2> QED BY <1>5, <1>6, <2>1, <2>2, <2>4 DEF SaveHeartbeat, Works, Continues
<1>7. ASSUME NEW p \in Poster, InsertSample(p) PROVE Works(p)
  <2>1. \A n \in Node \ {proc[p].node} : SameData(n)
    BY <1>7, <1>A DEF InsertSample, SameData, TypeOK
  <2> DEFINE next == [proc[p] EXCEPT !.pc = "prune"]
  <2>2. next.pc = "prune" /\ next.node = proc[p].node /\ next.period = proc[p].period
    BY <1>A, <1>B DEF Frame
  <2> HIDE DEF next
  <2>3. Goto(p, next) BY <1>7 DEF InsertSample, next
  <2>4. Moves(p) /\ proc'[p] = next BY <2>3, <1>A, GotoMoves
  <2> QED BY <1>7, <2>1, <2>2, <2>4 DEF InsertSample, Works, Continues
<1>8. ASSUME NEW p \in Poster, PruneSamples(p) PROVE Works(p)
  <2>1. \A n \in Node \ {proc[p].node} : SameData(n)
    BY <1>8, <1>A DEF PruneSamples, Pruned, SameData, TypeOK
  <2>2. Moves(p) /\ proc'[p] = AfterPersist(proc[p])
    BY <1>8, <1>A, GotoMoves DEF PruneSamples
  <2> QED BY <1>5, <1>8, <2>1, <2>2 DEF PruneSamples, Works, Continues
<1>9. ASSUME NEW p \in Poster, RollTraffic(p) PROVE Rolls(p) \/ Ends(p)
  <2>1. PICK st \in {traffic[proc[p].node], NoTraffic} :
          /\ LoadTraffic(proc[p].node, st)
          /\ Goto(p, IF st.resetAt = 0 \/ now >= st.resetAt
                     THEN [proc[p] EXCEPT
                             !.pc = "write",
                             !.st = [anchor |-> proc[p].hb,
                                     resetAt |-> AdvanceReset(st.resetAt, proc[p].period, now)]]
                     ELSE Idle)
    BY <1>9 DEF RollTraffic
  <2>2. proc[p].pc = "roll" /\ Still BY <1>9 DEF RollTraffic, Still
  <2>3. CASE st.resetAt = 0 \/ now >= st.resetAt
    <3> DEFINE base == [anchor |-> proc[p].hb,
                        resetAt |-> AdvanceReset(st.resetAt, proc[p].period, now)]
               next == [proc[p] EXCEPT !.pc = "write", !.st = base]
    <3>1. base.resetAt = AdvanceReset(st.resetAt, proc[p].period, now) OBVIOUS
    <3> HIDE DEF base
    <3>2. /\ next.pc = "write" /\ next.st = base
          /\ next.node = proc[p].node /\ next.period = proc[p].period
      BY <1>A, <1>B DEF Frame
    <3> HIDE DEF next
    <3>3. Goto(p, next) BY <2>1, <2>3 DEF next, base
    <3>4. Moves(p) /\ proc'[p] = next BY <3>3, <1>A, GotoMoves
    <3> QED BY <2>1, <2>2, <2>3, <3>1, <3>2, <3>4 DEF Rolls, Continues
  <2>4. CASE ~(st.resetAt = 0 \/ now >= st.resetAt)
    <3>1. Goto(p, Idle) BY <2>1, <2>4
    <3> QED BY <2>2, <3>1, <1>A, GotoMoves DEF Ends
  <2> QED BY <2>3, <2>4
<1>10. ASSUME NEW g \in Goroutine, WriteTraffic(g) PROVE Writes(g)
  <2>1. Moves(g) /\ proc'[g] = Idle BY <1>10, GotoMoves DEF WriteTraffic
  <2>2. proc[g].node \in Node
    BY <1>10, <1>A, <1>B DEF WriteTraffic, FrameOK, TypeOK
  <2> QED BY <1>10, <1>A, <2>1, <2>2 DEF WriteTraffic, Writes, TypeOK
<1>11. ASSUME NEW a \in Admin, NEW n \in Node, NEW m \in Meta, UpdateNode(a, n, m)
       PROVE  \E t \in Nat : Edits(a, n, t)
  <2>1. m.period \in Nat BY MetaAssumption DEF Meta
  <2> DEFINE next == [Idle EXCEPT !.pc = "anchor", !.node = n, !.period = m.period]
  <2>2. next.pc = "anchor" /\ next.node = n /\ next.period = m.period BY DEF Idle
  <2>3. next.pc = "anchor" BY <2>2
  <2> HIDE DEF next
  <2>4. \/ Goto(a, next) /\ meta[n].period # m.period
        \/ Goto(a, Idle) /\ (m.period = 0 \/ m.period = meta[n].period)
    BY <1>11, <2>1 DEF UpdateNode, next
  <2>5. /\ Moves(a)
        /\ \/ proc'[a] = next /\ meta[n].period # m.period
           \/ proc'[a] = Idle /\ (m.period = 0 \/ m.period = meta[n].period)
    BY <2>4, <1>A, GotoMoves
  <2>6. meta'[n] = m /\ \A k \in Node \ {n} : meta'[k] = meta[k]
    BY <1>11, <1>A DEF UpdateNode, TypeOK
  <2>7. Edits(a, n, m.period)
    BY <1>11, <2>2, <2>5, <2>6 DEF UpdateNode, Edits
  <2> QED BY <2>1, <2>7
<1>12. ASSUME NEW a \in Admin, SetTrafficBaseline(a) PROVE Anchors(a)
  <2> DEFINE base == IF live[proc[a].node].seen = 0 THEN NoTraffic
                     ELSE [anchor |-> live[proc[a].node].hb,
                           resetAt |-> AdvanceReset(0, proc[a].period, now)]
             next == [proc[a] EXCEPT !.pc = "write", !.st = base]
  <2>1. base.resetAt \in {0, now + proc[a].period * Day}
    BY DEF NoTraffic, AdvanceReset
  <2>2. Goto(a, next) BY <1>12 DEF SetTrafficBaseline
  <2> HIDE DEF base
  <2>3. /\ next.pc = "write" /\ next.st = base
        /\ next.node = proc[a].node /\ next.period = proc[a].period
    BY <1>A, <1>B DEF Frame
  <2> HIDE DEF next
  <2>4. Moves(a) /\ proc'[a] = next BY <2>2, <1>A, GotoMoves
  <2> QED BY <1>12, <2>1, <2>3, <2>4 DEF SetTrafficBaseline, Anchors, Continues, Still
<1>13. ASSUME NEW a \in Admin, NEW n \in Node, DeleteNode(a, n) PROVE Deletes(a, n)
  <2> DEFINE next == [Idle EXCEPT !.pc = "forget", !.node = n]
  <2>1. next.pc = "forget" /\ next.node = n BY DEF Idle
  <2> HIDE DEF next
  <2>2. Goto(a, next) BY <1>13 DEF DeleteNode, next
  <2>3. Moves(a) /\ proc'[a] = next BY <2>2, <1>A, GotoMoves
  <2> QED BY <1>13, <1>A, <2>1, <2>3 DEF DeleteNode, Deletes, SameData, TypeOK
<1>14. ASSUME NEW a \in Admin, ForgetNode(a) PROVE Forgets(a)
  <2>1. Moves(a) /\ proc'[a] = Idle BY <1>14, <1>A, GotoMoves DEF ForgetNode
  <2>2. proc[a].node \in Node
    BY <1>14, <1>A, <1>B DEF ForgetNode, FrameOK, TypeOK
  <2>3. \A n \in Node \ {proc[a].node} : SameData(n)
    BY <1>14, <1>A DEF ForgetNode, SameData, TypeOK
  <2>4. /\ live'[proc[a].node] = Unseen /\ history'[proc[a].node] = <<>>
        /\ lastPersist'[proc[a].node] = 0
    BY <1>14, <1>A, <2>2 DEF ForgetNode, TypeOK
  <2> QED BY <1>14, <2>1, <2>3, <2>4 DEF ForgetNode, Forgets
<1>15. ASSUME NEW n \in Node, NEW m \in Meta, CreateNode(n, m) PROVE Creates(n)
  BY <1>15, <1>A DEF CreateNode, Creates, TypeOK
<1>16. ASSUME SweepPrune PROVE Passes
  BY <1>16, <1>A DEF SweepPrune, Pruned, Passes, TypeOK
<1>17. ASSUME NEW n \in Node, RotateToken(n) \/ MoveBytes(n) \/ LowerCounter(n)
       PROVE  Passes
  BY <1>17 DEF RotateToken, MoveBytes, LowerCounter, Passes
<1>18. ASSUME Tick \/ UNCHANGED vars PROVE Passes
  BY <1>18 DEF Tick, vars, Passes
<1>19. ASSUME Restart PROVE Stops
  BY <1>19, <1>A, HydrateEmpty DEF Restart, Stops, NewestSample, TypeOK
<1> QED
  <2>1. CASE \E p \in Poster : ServeHeartbeat(p)
    BY <2>1, <1>A, <1>1, <1>2, <1>3, <1>4, <1>6, <1>7, <1>8, <1>9, <1>10
       DEF ServeHeartbeat, Effect
  <2>2. CASE \E a \in Admin : ServeAdmin(a)
    BY <2>2, <1>A, <1>10, <1>11, <1>12, <1>13, <1>14 DEF ServeAdmin, Effect
  <2>3. CASE \E n \in Node : \/ RotateToken(n) \/ MoveBytes(n) \/ LowerCounter(n)
                             \/ \E m \in Meta : CreateNode(n, m)
    BY <2>3, <1>15, <1>17 DEF Effect
  <2>4. CASE SweepPrune \/ Restart \/ Tick \/ UNCHANGED vars
    BY <2>4, <1>16, <1>18, <1>19 DEF Effect
  <2> QED BY <2>1, <2>2, <2>3, <2>4 DEF Next

-----------------------------------------------------------------------------
(* The inductive invariants *)

\* What a goroutine can be doing.
RoleInv ==
  /\ \A g \in Goroutine : proc[g].pc = "idle" => proc[g] = Idle
  /\ \A a \in Admin : proc[a].pc \in {"idle", "anchor", "write", "forget"}
  /\ \A p \in Poster : proc[p].pc \notin {"anchor", "forget"}

\* The history remembers every race that is on, and the edit that a request about
\* a baseline comes from.
HistoryInv ==
  /\ edited \subseteq Node
  /\ \A n \in Node : Crossing(n) => n \in raced
  /\ \A a \in Admin : proc[a].pc \in {"anchor", "write"} => proc[a].node \in edited

\* Of a deleted node there is nothing in the tables, nobody who would write there
\* again, and nothing in memory once ForgetNode is done.
GoneInv ==
  \A n \in minted \ (rows \cup raced) :
    /\ samples[n] = {}
    /\ \A p \in Poster : proc[p].node = n => proc[p].pc = "auth"
    /\ \/ \E a \in Admin : proc[a].node = n /\ proc[a].pc = "forget"
       \/ live[n] = Unseen /\ history[n] = <<>> /\ lastPersist[n] = 0

\* A heartbeat that is about to write a baseline has found none, or a period that
\* is over, and that is still so.
RollInv ==
  \A p \in Poster : \A n \in rows \ raced :
    proc[p].node = n /\ proc[p].pc = "write"
      => traffic[n].resetAt = 0 \/ now >= traffic[n].resetAt

\* The next reset of st is at most one period of n away.
Near(st, n) == st.resetAt <= now + meta[n].period * Day

\* What an admin request brings to the baseline of n is of the period of n.
AnchorInv ==
  \A a \in Admin, n \in rows :
    proc[a].node = n /\ proc[a].pc \in {"anchor", "write"}
      => /\ proc[a].period = meta[n].period
         /\ proc[a].pc = "write" => Near(proc[a].st, n)

\* So is what a heartbeat brings, and the baseline itself unless an admin request
\* is about to replace it.
PeriodInv ==
  /\ \A n \in Node \ minted : traffic[n] = NoTraffic
  /\ \A n \in rows \ raced : meta[n].period > 0 =>
       /\ \A p \in Poster : proc[p].node = n /\ proc[p].pc # "auth"
            => /\ proc[p].period = meta[n].period
               /\ proc[p].pc = "write" => Near(proc[p].st, n)
       /\ \/ Near(traffic[n], n)
          \/ \E a \in Admin : proc[a].node = n /\ proc[a].pc \in {"anchor", "write"}

-----------------------------------------------------------------------------
(* The history *)

\* What a step writes to the history.
Recorded ==
  /\ raced \subseteq raced' /\ edited' \subseteq Node
  /\ \A n \in Node : Crossing(n)' \/ CutOff(n) \/ Misread(n) => n \in raced'
  /\ \A n \in Node : meta'[n].period # meta[n].period => n \in edited'
  /\ \A n \in edited : (\E a \in Admin : proc'[a].node = n) => n \in edited'

\* Every step of the audit is one of the hub, has an effect and is recorded.
LEMMA AuditEffects ==
  ASSUME BaseInv, RingInv, HistoryInv, [AuditNext]_auditVars
  PROVE  [Next]_vars /\ Effect /\ Recorded
<1>1. CASE AuditNext
  <2>1. [Next]_vars BY <1>1 DEF AuditNext
  <2>2. Effect BY <2>1, Effects
  <2>3. edited' \subseteq Node BY <1>1 DEF AuditNext
  <2>4. Recorded
    <3>1. raced \subseteq raced' BY <1>1 DEF AuditNext
    <3>2. \A n \in Node : Crossing(n)' \/ CutOff(n) \/ Misread(n) => n \in raced'
      BY <1>1 DEF AuditNext
    <3>3. /\ \A n \in Node : meta'[n].period # meta[n].period => n \in edited'
          /\ \A n \in edited : (\E a \in Admin : proc'[a].node = n) => n \in edited'
      BY <1>1 DEF AuditNext, HistoryInv
    <3> QED BY <2>3, <3>1, <3>2, <3>3 DEF Recorded
  <2> QED BY <2>1, <2>2, <2>4
<1>2. CASE UNCHANGED auditVars
  <2>1. [Next]_vars /\ raced' = raced /\ edited' = edited BY <1>2 DEF auditVars
  <2>2. UNCHANGED <<proc, meta, traffic, now>> BY <1>2 DEF auditVars, vars, tables
  <2>3. Effect BY <2>1, Effects
  <2>4. \A n \in Node : ~CutOff(n) /\ ~Misread(n)
    BY <2>2 DEF CutOff, Misread, Idle
  <2>5. \A n \in Node : Crossing(n)' => n \in raced
    BY <2>2 DEF HistoryInv, Crossing
  <2>6. Recorded BY <2>1, <2>2, <2>4, <2>5 DEF Recorded, HistoryInv
  <2> QED BY <2>1, <2>3, <2>6
<1> QED BY <1>1, <1>2

\* Every step keeps goroutines to their roles.
LEMMA RoleStep == RoleInv /\ Effect => RoleInv'
<1> SUFFICES ASSUME RoleInv, Effect PROVE RoleInv'
  OBVIOUS
<1>A. /\ Poster \subseteq Goroutine /\ Admin \subseteq Goroutine
      /\ \A p \in Poster : p \notin Admin
  BY GoroutineAssumption DEF Goroutine
<1>B. Idle.pc = "idle" BY DEF Idle
<1>1. ASSUME NEW g \in Goroutine, Moves(g),
             \/ proc'[g] = Idle
             \/ g \in Poster /\ proc'[g].pc \notin {"idle", "anchor", "forget"}
             \/ g \in Admin /\ proc'[g].pc \in {"anchor", "write", "forget"}
      PROVE  RoleInv'
  BY <1>1, <1>A, <1>B DEF RoleInv, Moves
<1>2. ASSUME NEW p \in Poster,
             Starts(p) \/ Admits(p) \/ Ends(p) \/ Works(p) \/ Rolls(p)
      PROVE  RoleInv'
  BY <1>1, <1>2, <1>A DEF Starts, Admits, Ends, Works, Rolls
<1>3. ASSUME NEW g \in Goroutine, Writes(g) PROVE RoleInv'
  BY <1>1, <1>3 DEF Writes
<1>4. ASSUME NEW a \in Admin, Anchors(a) \/ Forgets(a) PROVE RoleInv'
  BY <1>1, <1>4, <1>A DEF Anchors, Forgets
<1>5. ASSUME NEW a \in Admin, NEW n \in Node, Deletes(a, n) PROVE RoleInv'
  BY <1>1, <1>5, <1>A DEF Deletes
<1>6. ASSUME NEW a \in Admin, NEW n \in Node, NEW t \in Nat, Edits(a, n, t)
      PROVE  RoleInv'
  BY <1>1, <1>6, <1>A DEF Edits
<1>7. ASSUME proc' = proc PROVE RoleInv' BY <1>7 DEF RoleInv
<1>8. ASSUME Stops PROVE RoleInv' BY <1>8, <1>A, <1>B DEF Stops, RoleInv
<1> QED BY <1>2, <1>3, <1>4, <1>5, <1>6, <1>7, <1>8 DEF Effect, Creates, Passes

\* Every step keeps the history complete.
LEMMA HistoryStep ==
  ASSUME BaseInv, RoleInv, HistoryInv, Effect, Recorded
  PROVE  HistoryInv'
<1>A. /\ Poster \subseteq Goroutine /\ Admin \subseteq Goroutine
      /\ \A p \in Poster : p \notin Admin
      /\ Idle.pc = "idle" /\ rows \subseteq Node
  BY GoroutineAssumption DEF Goroutine, Idle, BaseInv, TypeOK
<1>1. edited' \subseteq Node /\ \A n \in Node : Crossing(n)' => n \in raced'
  BY DEF Recorded
<1>2. ASSUME NEW a \in Admin, proc'[a].pc \in {"anchor", "write"},
             \/ /\ proc[a].pc \in {"anchor", "write"} /\ proc'[a].node = proc[a].node
             \/ /\ proc'[a].node \in Node
                /\ meta'[proc'[a].node].period # meta[proc'[a].node].period
      PROVE  proc'[a].node \in edited'
  BY <1>2 DEF HistoryInv, Recorded
<1>3. ASSUME NEW g \in Goroutine, Moves(g),
             g \in Poster \/ proc'[g].pc \notin {"anchor", "write"}
      PROVE  HistoryInv'
  BY <1>1, <1>2, <1>3, <1>A DEF HistoryInv, Moves
<1>4. ASSUME NEW p \in Poster,
             Starts(p) \/ Admits(p) \/ Ends(p) \/ Works(p) \/ Rolls(p)
      PROVE  HistoryInv'
  BY <1>3, <1>4, <1>A DEF Starts, Admits, Ends, Works, Rolls
<1>5. ASSUME NEW g \in Goroutine, Writes(g) PROVE HistoryInv'
  BY <1>3, <1>5 DEF Writes, Idle
<1>6. ASSUME NEW a \in Admin, Forgets(a) PROVE HistoryInv'
  BY <1>3, <1>6, <1>A DEF Forgets, Idle
<1>7. ASSUME NEW a \in Admin, NEW n \in Node, Deletes(a, n) PROVE HistoryInv'
  BY <1>3, <1>7, <1>A DEF Deletes
<1>8. ASSUME NEW a \in Admin, Anchors(a) PROVE HistoryInv'
  BY <1>1, <1>2, <1>8, <1>A DEF Anchors, Continues, HistoryInv, Moves
<1>9. ASSUME NEW a \in Admin, NEW n \in Node, NEW t \in Nat, Edits(a, n, t)
      PROVE  HistoryInv'
  BY <1>1, <1>2, <1>9, <1>A DEF Edits, Idle, HistoryInv, Moves
<1>10. ASSUME proc' = proc PROVE HistoryInv'
  BY <1>1, <1>2, <1>10 DEF HistoryInv
<1>11. ASSUME Stops PROVE HistoryInv'
  <2>1. \A a \in Admin : proc'[a].pc = "idle" BY <1>11, <1>A DEF Stops
  <2> QED BY <1>1, <2>1 DEF HistoryInv
<1> QED
  BY <1>4, <1>5, <1>6, <1>7, <1>8, <1>9, <1>10, <1>11 DEF Effect, Creates, Passes

\* What the proofs of the three properties share.
AuditInv == BaseInv /\ RingInv /\ RoleInv /\ HistoryInv

LEMMA AuditStarts == AuditInit => AuditInv
<1> SUFFICES ASSUME AuditInit PROVE AuditInv
  OBVIOUS
<1>1. Init /\ raced = {} /\ edited = {} BY DEF AuditInit
<1>2. BaseInv /\ RingInv BY <1>1, BaseInit, RingInit
<1>3. \A g \in Goroutine : proc[g] = Idle BY <1>1 DEF Init
<1>4. Poster \subseteq Goroutine /\ Admin \subseteq Goroutine BY DEF Goroutine
<1>5. RoleInv BY <1>3, <1>4 DEF RoleInv, Idle
<1>6. HistoryInv
  <2>1. \A n \in Node : ~Crossing(n)
    BY <1>3, <1>4, NodeAssumption DEF Crossing, Idle
  <2> QED BY <1>1, <1>3, <1>4, <2>1 DEF HistoryInv, Idle
<1> QED BY <1>2, <1>5, <1>6 DEF AuditInv

LEMMA AuditStep ==
  AuditInv /\ [AuditNext]_auditVars => AuditInv' /\ Effect /\ Recorded
<1> SUFFICES ASSUME AuditInv, [AuditNext]_auditVars
             PROVE  AuditInv' /\ Effect /\ Recorded
  OBVIOUS
<1>1. BaseInv /\ RingInv /\ RoleInv /\ HistoryInv BY DEF AuditInv
<1>2. [Next]_vars /\ Effect /\ Recorded BY <1>1, AuditEffects
<1>3. BaseInv' /\ RingInv' BY <1>1, <1>2, BaseStep, RingStep
<1>4. RoleInv' /\ HistoryInv' BY <1>1, <1>2, RoleStep, HistoryStep
<1> QED BY <1>2, <1>3, <1>4 DEF AuditInv

-----------------------------------------------------------------------------
(* What is left of a deleted node *)

\* Every step leaves nothing more of a deleted node.
LEMMA GoneStep ==
  ASSUME BaseInv, BaseInv', RoleInv, GoneInv, Effect, Recorded
  PROVE  GoneInv'
<1>A. /\ Poster \subseteq Goroutine /\ Admin \subseteq Goroutine
      /\ \A p \in Poster : p \notin Admin
      /\ Idle.pc = "idle" /\ Idle.node = NoNode
      /\ minted \subseteq Node /\ minted' \subseteq Node
      /\ rows \subseteq minted /\ raced \subseteq raced'
  BY GoroutineAssumption DEF Goroutine, Idle, BaseInv, TypeOK, OwnerInv, Recorded
<1>B. \A n \in Node : n # NoNode BY NodeAssumption
<1> DEFINE Gone(n) ==
      /\ samples[n] = {}
      /\ \A p \in Poster : proc[p].node = n => proc[p].pc = "auth"
      /\ \/ \E a \in Admin : proc[a].node = n /\ proc[a].pc = "forget"
         \/ live[n] = Unseen /\ history[n] = <<>> /\ lastPersist[n] = 0
<1>C. \A n \in minted \ (rows \cup raced) : Gone(n) BY DEF GoneInv
<1>D. GoneInv' <=> \A n \in minted' \ (rows' \cup raced') : Gone(n)'
  BY DEF GoneInv
<1> SUFFICES ASSUME NEW n \in minted', n \notin rows', n \notin raced' PROVE Gone(n)'
  BY <1>D
<1>E. n \in Node /\ n \notin raced BY <1>A
<1>1. ASSUME NEW p \in Poster,
             Starts(p) \/ Admits(p) \/ Ends(p) \/ Works(p) \/ Rolls(p)
      PROVE  Gone(n)'
  <2>1. Gone(n) /\ Moves(p)
    BY <1>1, <1>A, <1>C, <1>E DEF Starts, Admits, Ends, Works, Rolls, Still
  <2>2. proc'[p].node = n => proc'[p].pc = "auth"
    <3>1. CASE Starts(p) \/ Admits(p) BY <3>1 DEF Starts, Admits, Still
    <3>2. CASE Ends(p) BY <3>2, <1>A, <1>B, <1>E DEF Ends
    <3>3. CASE Works(p) \/ Rolls(p)
      <4>1. proc[p].node # n BY <2>1, <3>3 DEF Works, Rolls
      <4>2. proc'[p] = Idle \/ proc'[p].node = proc[p].node
        BY <3>3 DEF Works, Rolls, Continues
      <4> QED BY <4>1, <4>2, <1>A, <1>B, <1>E
    <3> QED BY <1>1, <3>1, <3>2, <3>3
  <2>3. Still \/ SameData(n)
    BY <1>1, <1>E, <2>1 DEF Starts, Admits, Ends, Works, Rolls
  <2>4. /\ samples'[n] = {} /\ live'[n] = live[n] /\ history'[n] = history[n]
        /\ lastPersist'[n] = lastPersist[n]
    BY <2>1, <2>3 DEF Still, SameData
  <2>5. \A a \in Admin : proc'[a] = proc[a] BY <1>A, <2>1 DEF Moves
  <2>6. \A q \in Poster : q # p => proc'[q] = proc[q] BY <1>A, <2>1 DEF Moves
  <2> QED BY <2>1, <2>2, <2>4, <2>5, <2>6
<1>2. ASSUME NEW g \in Goroutine, proc[g].pc # "forget", Moves(g),
             proc'[g] = Idle \/ g \in Admin,
             UNCHANGED <<minted, rows, samples, live, history, lastPersist>>
      PROVE  Gone(n)'
  <2>1. Gone(n) BY <1>2, <1>A, <1>C, <1>E
  <2> QED BY <1>2, <2>1, <1>A, <1>B, <1>E DEF Moves
<1>3. ASSUME NEW g \in Goroutine, Writes(g) PROVE Gone(n)'
  BY <1>2, <1>3 DEF Writes
<1>4. ASSUME NEW a \in Admin, Anchors(a) PROVE Gone(n)'
  BY <1>2, <1>4, <1>A DEF Anchors, Still
<1>5. ASSUME NEW a \in Admin, NEW k \in Node, NEW t \in Nat, Edits(a, k, t)
      PROVE  Gone(n)'
  BY <1>2, <1>5, <1>A DEF Edits
<1>6. ASSUME NEW a \in Admin, NEW k \in Node, Deletes(a, k) PROVE Gone(n)'
  <2>1. \A p \in Poster : proc'[p] = proc[p] BY <1>6, <1>A DEF Deletes, Moves
  <2>2. CASE k = n
    <3>1. \A p \in Poster : proc[p].node = n => proc[p].pc = "auth"
      BY <1>6, <1>E, <2>1, <2>2 DEF Recorded, Crossing, Deletes
    <3> QED BY <1>6, <2>1, <2>2, <3>1 DEF Deletes
  <2>3. CASE k # n
    <3>1. Gone(n) BY <1>6, <1>A, <1>C, <1>E, <2>3 DEF Deletes
    <3>2. SameData(n) BY <1>6, <1>E, <2>3 DEF Deletes
    <3>3. \A b \in Admin : proc[b].pc = "forget" => proc'[b] = proc[b]
      BY <1>6, <1>A DEF Deletes, Moves
    <3> QED BY <2>1, <3>1, <3>2, <3>3 DEF SameData
  <2> QED BY <2>2, <2>3
<1>7. ASSUME NEW a \in Admin, Forgets(a) PROVE Gone(n)'
  <2>1. Gone(n) BY <1>7, <1>A, <1>C, <1>E DEF Forgets
  <2>2. \A p \in Poster : proc'[p] = proc[p] BY <1>7, <1>A DEF Forgets, Moves
  <2>3. CASE proc[a].node = n
    BY <1>7, <2>1, <2>2, <2>3 DEF Forgets
  <2>4. CASE proc[a].node # n
    <3>1. SameData(n) BY <1>7, <1>E, <2>4 DEF Forgets
    <3>2. \A b \in Admin : proc[b].node = n => proc'[b] = proc[b]
      BY <1>7, <1>A, <2>4 DEF Forgets, Moves
    <3> QED BY <2>1, <2>2, <3>1, <3>2 DEF SameData
  <2> QED BY <2>3, <2>4
<1>8. ASSUME NEW k \in Node, Creates(k) PROVE Gone(n)'
  BY <1>8, <1>A, <1>C, <1>E DEF Creates
<1>9. ASSUME Passes PROVE Gone(n)'
  BY <1>9, <1>A, <1>C, <1>E DEF Passes
<1>10. ASSUME Stops PROVE Gone(n)'
  <2>1. samples[n] = {} BY <1>10, <1>A, <1>C, <1>E DEF Stops
  <2>2. \A p \in Poster : proc'[p].node # n
    BY <1>10, <1>A, <1>B, <1>E DEF Stops
  <2> QED BY <1>10, <1>E, <2>1, <2>2 DEF Stops
<1> QED
  BY <1>1, <1>3, <1>4, <1>5, <1>6, <1>7, <1>8, <1>9, <1>10 DEF Effect

\* Once DeleteNode is over, also when the hub stopped halfway, nothing is left of
\* the node in the tables and in memory, unless it crossed a heartbeat.
THEOREM NothingLeft == AuditSpec => []DeletedLeavesNothing
<1>1. AuditInit => AuditInv /\ GoneInv
  <2>1. AuditInit => GoneInv BY DEF AuditInit, Init, GoneInv
  <2> QED BY <2>1, AuditStarts
<1>2. AuditInv /\ GoneInv /\ [AuditNext]_auditVars => (AuditInv /\ GoneInv)'
  <2> SUFFICES ASSUME AuditInv, GoneInv, [AuditNext]_auditVars
               PROVE  (AuditInv /\ GoneInv)'
    OBVIOUS
  <2>1. AuditInv' /\ Effect /\ Recorded BY AuditStep
  <2> QED BY <2>1, GoneStep DEF AuditInv
<1>3. GoneInv => DeletedLeavesNothing
  BY DEF GoneInv, DeletedLeavesNothing, Settled, Goroutine
<1> QED BY <1>1, <1>2, <1>3, PTL DEF AuditSpec

-----------------------------------------------------------------------------
(* Rollover *)

\* A heartbeat that is about to write a baseline still may: an agent that waits
\* for its answer has no other one, and an admin request that writes first is a
\* race.
LEMMA RollStep ==
  ASSUME ~AgentTimesOut, AuditInv, AuditInv', RollInv, Effect, Recorded
  PROVE  RollInv'
<1>A. /\ Poster \subseteq Goroutine /\ Admin \subseteq Goroutine
      /\ Idle.pc = "idle" /\ raced \subseteq raced'
      /\ rows \subseteq Node /\ rows \subseteq minted
      /\ now \in Nat /\ traffic \in [Node -> TrafficState] /\ SerialInv
      /\ NoTraffic.resetAt = 0
  BY DEF Goroutine, Idle, Recorded, AuditInv, BaseInv, TypeOK, OwnerInv, RingInv,
         NoTraffic
<1>B. \A n \in Node : n # NoNode /\ traffic[n].resetAt \in Nat
  BY <1>A, NodeAssumption DEF TrafficState
<1>1. ASSUME now' >= now, now' \in Nat, raced \subseteq raced',
             NEW p \in Poster, proc'[p] = proc[p], NEW n \in rows \ raced',
             proc[p].node = n, proc[p].pc = "write",
             traffic'[n] = traffic[n]
      PROVE  traffic'[n].resetAt = 0 \/ now' >= traffic'[n].resetAt
  <2>1. n \in Node BY <1>A
  <2>2. traffic[n].resetAt \in Nat BY <2>1, <1>B
  <2> QED BY <1>1, <1>A, <2>2 DEF RollInv
<1>2. ASSUME NEW g \in Goroutine, Moves(g), proc'[g].pc # "write" \/ g \in Admin,
             UNCHANGED <<now, traffic>>, rows' \subseteq rows
      PROVE  RollInv'
  <2>1. \A p \in Poster : proc'[p].pc = "write" => proc'[p] = proc[p]
    BY <1>2, <1>A, GoroutineAssumption DEF Moves
  <2> QED BY <1>1, <1>2, <1>A, <2>1 DEF RollInv
<1>3. ASSUME NEW p \in Poster, Starts(p) \/ Admits(p) \/ Ends(p) \/ Works(p)
      PROVE  RollInv'
  BY <1>2, <1>3, <1>A DEF Starts, Admits, Ends, Works, Still
<1>4. ASSUME NEW p \in Poster, Rolls(p) PROVE RollInv'
  <2> SUFFICES ASSUME NEW q \in Poster, NEW n \in rows', n \notin raced',
                      proc'[q].node = n, proc'[q].pc = "write"
               PROVE  traffic'[n].resetAt = 0 \/ now' >= traffic'[n].resetAt
    BY DEF RollInv
  <2>1. UNCHANGED <<now, rows, traffic>> /\ Moves(p) BY <1>4 DEF Rolls, Still
  <2>2. CASE q # p
    <3>1. proc'[q] = proc[q] BY <1>A, <2>1, <2>2 DEF Moves
    <3> QED BY <1>1, <1>A, <2>1, <3>1
  <2>3. CASE q = p
    <3>1. n \in Node /\ n \in rows /\ proc[p].node = n
      BY <1>4, <1>A, <2>1, <2>3 DEF Rolls, Continues
    <3>2. ~Misread(n) BY <3>1 DEF Recorded
    <3>3. proc[p].pc = "roll" /\ proc'[p].pc = "write" BY <1>4 DEF Rolls
    <3> QED BY <1>B, <1>A, <2>1, <3>1, <3>2, <3>3 DEF Misread
  <2> QED BY <2>2, <2>3
<1>5. ASSUME NEW g \in Goroutine, Writes(g) PROVE RollInv'
  <2> SUFFICES ASSUME NEW q \in Poster, NEW n \in rows', n \notin raced',
                      proc'[q].node = n, proc'[q].pc = "write"
               PROVE  traffic'[n].resetAt = 0 \/ now' >= traffic'[n].resetAt
    BY DEF RollInv
  <2>1. UNCHANGED <<now, rows>> /\ Moves(g) /\ proc'[g] = Idle BY <1>5 DEF Writes
  <2>2. q # g /\ proc'[q] = proc[q] BY <1>A, <2>1 DEF Moves
  <2>3. n \in Node /\ n \in rows BY <1>A, <2>1
  <2>4. proc[g].node # n
    <3>1. CASE g \in Poster BY <1>A, <1>B, <2>2, <2>3, <3>1 DEF SerialInv
    <3>2. CASE g \in Admin
      <4>1. ~Crossing(n) BY <1>A, <2>3 DEF AuditInv, HistoryInv
      <4> QED BY <2>2, <3>2, <4>1 DEF Crossing
    <3> QED BY <3>1, <3>2 DEF Goroutine
  <2>5. traffic'[n] = traffic[n] BY <1>5, <2>3, <2>4 DEF Writes
  <2> QED BY <1>1, <1>A, <2>1, <2>2, <2>3, <2>5
<1>6. ASSUME NEW a \in Admin, Anchors(a) \/ Forgets(a) PROVE RollInv'
  BY <1>2, <1>6, <1>A DEF Anchors, Forgets, Still
<1>7. ASSUME NEW a \in Admin, NEW n \in Node, NEW t \in Nat, Edits(a, n, t)
      PROVE  RollInv'
  BY <1>2, <1>7, <1>A DEF Edits
<1>8. ASSUME NEW a \in Admin, NEW k \in Node, Deletes(a, k) PROVE RollInv'
  <2>1. /\ \A p \in Poster : proc'[p] = proc[p]
        /\ now' = now /\ rows' = rows \ {k}
        /\ \A n \in Node \ {k} : traffic'[n] = traffic[n]
    BY <1>8, <1>A, GoroutineAssumption DEF Deletes, Moves
  <2> QED BY <1>1, <1>A, <2>1 DEF RollInv
<1>9. ASSUME NEW k \in Node, Creates(k) PROVE RollInv'
  <2>1. /\ proc' = proc /\ traffic' = traffic /\ now' = now
        /\ rows' = rows \cup {k} /\ k \notin minted
    BY <1>9 DEF Creates
  <2>2. \A p \in Poster : proc[p].pc = "write" => proc[p].node # k
    BY <1>A, <2>1 DEF AuditInv, BaseInv, FrameInv, FrameOK
  <2> QED BY <1>1, <1>A, <2>1, <2>2 DEF RollInv
<1>10. ASSUME Passes PROVE RollInv'
  BY <1>1, <1>10, <1>A DEF Passes, RollInv
<1>11. ASSUME Stops PROVE RollInv'
  BY <1>11, <1>A DEF Stops, RollInv
<1> QED
  BY <1>3, <1>4, <1>5, <1>6, <1>7, <1>8, <1>9, <1>10, <1>11 DEF Effect

\* A baseline in force is replaced on rollover or when the admin has changed the
\* period, never by a heartbeat of a period still running, a restart or any other
\* edit, unless the node had a race.
THEOREM OnlyOnRollover == ASSUME ~AgentTimesOut PROVE AuditSpec => RolloverOnly
<1> DEFINE Kept == \A n \in rows \cap rows' :
              traffic[n].resetAt # 0 /\ traffic'[n] # traffic[n]
                => now >= traffic[n].resetAt \/ n \in raced' \cup edited
<1>1. AuditInit => AuditInv /\ RollInv
  <2>1. AuditInit => RollInv BY DEF AuditInit, Init, RollInv
  <2> QED BY <2>1, AuditStarts
<1>2. AuditInv /\ RollInv /\ [AuditNext]_auditVars => (AuditInv /\ RollInv)'
  <2> SUFFICES ASSUME AuditInv, RollInv, [AuditNext]_auditVars
               PROVE  (AuditInv /\ RollInv)'
    OBVIOUS
  <2>1. AuditInv' /\ Effect /\ Recorded BY AuditStep
  <2> QED BY <2>1, RollStep
<1>3. AuditInv /\ RollInv /\ [AuditNext]_auditVars => Kept
  <2> SUFFICES ASSUME AuditInv, RollInv, [AuditNext]_auditVars,
                      NEW n \in rows, n \in rows',
                      traffic[n].resetAt # 0, traffic'[n] # traffic[n]
               PROVE  now >= traffic[n].resetAt \/ n \in raced' \cup edited
    OBVIOUS
  <2>1. Effect /\ raced \subseteq raced' BY AuditStep DEF Recorded
  <2>2. n \in Node BY DEF AuditInv, BaseInv, TypeOK
  <2>3. ASSUME NEW g \in Goroutine, Writes(g)
        PROVE  now >= traffic[n].resetAt \/ n \in raced' \cup edited
    <3>1. proc[g].node = n /\ proc[g].pc = "write" BY <2>2, <2>3 DEF Writes
    <3>2. CASE g \in Poster BY <2>1, <3>1, <3>2 DEF RollInv
    <3>3. CASE g \in Admin BY <3>1, <3>3 DEF AuditInv, HistoryInv
    <3> QED BY <3>2, <3>3 DEF Goroutine
  <2>4. ASSUME NEW a \in Admin, NEW k \in Node, Deletes(a, k) PROVE FALSE
    BY <2>2, <2>4 DEF Deletes
  <2> QED
    BY <2>1, <2>3, <2>4 DEF Effect, Starts, Admits, Ends, Works, Rolls, Anchors,
       Forgets, Edits, Creates, Passes, Stops, Still
<1>4. RolloverOnly <=> [][Kept]_auditVars BY DEF RolloverOnly
<1> QED BY <1>1, <1>2, <1>3, <1>4, PTL DEF AuditSpec

-----------------------------------------------------------------------------
(* The period of the baseline *)

\* What an admin request brings stays of its node's period: nobody else edits it.
LEMMA AnchorStep ==
  ASSUME \A a, b \in Admin : a = b,
         AuditInv, AuditInv', AnchorInv, Effect, Recorded
  PROVE  AnchorInv'
<1>A. /\ Poster \subseteq Goroutine /\ Admin \subseteq Goroutine
      /\ \A p \in Poster : p \notin Admin
      /\ Idle.pc = "idle" /\ rows \subseteq Node /\ rows \subseteq minted /\ now \in Nat
  BY GoroutineAssumption DEF Goroutine, Idle, AuditInv, BaseInv, TypeOK, OwnerInv
<1>B. \A n \in Node : meta[n].period \in Nat /\ meta[n].period * Day \in Nat
  BY OptionAssumption DEF AuditInv, BaseInv, TypeOK
<1>C. \A g \in Goroutine : proc[g].st.resetAt \in Nat
  BY DEF AuditInv, BaseInv, TypeOK, Frame, TrafficState
<1>1. ASSUME now' \in {now, now + 1},
             \A a \in Admin : proc'[a].pc \in {"anchor", "write"} => proc'[a] = proc[a],
             \A n \in rows' : \/ n \in rows /\ meta'[n] = meta[n]
                              \/ \A a \in Admin : proc'[a].node # n
      PROVE  AnchorInv'
  <2> SUFFICES ASSUME NEW a \in Admin, NEW n \in rows',
                      proc'[a].node = n, proc'[a].pc \in {"anchor", "write"}
               PROVE  /\ proc'[a].period = meta'[n].period
                      /\ proc'[a].pc = "write" => Near(proc[a].st, n)'
    BY <1>1 DEF AnchorInv
  <2>1. proc'[a] = proc[a] /\ n \in rows /\ meta'[n] = meta[n] BY <1>1
  <2>2. /\ proc[a].period = meta[n].period
        /\ proc[a].pc = "write" => Near(proc[a].st, n)
    BY <2>1 DEF AnchorInv
  <2>3. /\ meta[n].period * Day \in Nat /\ proc[a].st.resetAt \in Nat
    BY <1>A, <1>B, <1>C, <2>1
  <2> DEFINE length == meta[n].period * Day
  <2> HIDE DEF length
  <2>4. Near(proc[a].st, n) => proc[a].st.resetAt <= now' + length
    BY <1>1, <1>A, <2>3 DEF Near, length
  <2> QED BY <2>1, <2>2, <2>4 DEF Near, length
<1>2. ASSUME NEW g \in Goroutine, Moves(g), UNCHANGED <<now, rows, meta>>,
             g \in Poster \/ proc'[g].pc \notin {"anchor", "write"}
      PROVE  AnchorInv'
  <2>1. \A a \in Admin : proc'[a].pc \in {"anchor", "write"} => proc'[a] = proc[a]
    BY <1>2, <1>A DEF Moves
  <2> QED BY <1>1, <1>2, <2>1
<1>3. ASSUME NEW p \in Poster,
             Starts(p) \/ Admits(p) \/ Ends(p) \/ Works(p) \/ Rolls(p)
      PROVE  AnchorInv'
  BY <1>2, <1>3, <1>A DEF Starts, Admits, Ends, Works, Rolls, Still
<1>4. ASSUME NEW g \in Goroutine, Writes(g) PROVE AnchorInv'
  BY <1>2, <1>4, <1>A DEF Writes
<1>5. ASSUME NEW a \in Admin, Forgets(a) PROVE AnchorInv'
  BY <1>2, <1>5, <1>A DEF Forgets
<1>6. ASSUME NEW a \in Admin, Anchors(a) PROVE AnchorInv'
  <2>1. /\ UNCHANGED <<now, rows, meta>> /\ proc[a].pc = "anchor"
        /\ proc'[a].node = proc[a].node /\ proc'[a].period = proc[a].period
        /\ proc'[a].st.resetAt \in {0, now + proc[a].period * Day}
    BY <1>6 DEF Anchors, Still, Continues
  <2> SUFFICES ASSUME NEW n \in rows, proc[a].node = n
               PROVE  proc'[a].period = meta[n].period /\ Near(proc'[a].st, n)
    BY <2>1 DEF AnchorInv, Near
  <2>2. proc[a].period = meta[n].period BY <2>1 DEF AnchorInv
  <2>3. meta[n].period * Day \in Nat BY <1>A, <1>B
  <2> QED BY <1>A, <2>1, <2>2, <2>3 DEF Near
<1>7. ASSUME NEW a \in Admin, NEW n \in Node, NEW t \in Nat, Edits(a, n, t)
      PROVE  AnchorInv'
  <2>1. CASE proc'[a] = Idle
    <3>1. \A b \in Admin : proc'[b].pc = "idle" BY <1>A, <2>1
    <3> QED BY <3>1 DEF AnchorInv
  <2>2. CASE proc'[a] # Idle
    <3>1. /\ proc'[a].pc = "anchor" /\ proc'[a].node = n /\ proc'[a].period = t
          /\ meta'[n].period = t
      BY <1>7, <2>2 DEF Edits
    <3>2. \A b \in Admin : b = a OBVIOUS
    <3> QED BY <3>1, <3>2 DEF AnchorInv
  <2> QED BY <2>1, <2>2
<1>8. ASSUME NEW a \in Admin, NEW k \in Node, Deletes(a, k) PROVE AnchorInv'
  <2>1. \A b \in Admin : proc'[b].pc = "forget" BY <1>8 DEF Deletes
  <2> QED BY <2>1 DEF AnchorInv
<1>9. ASSUME NEW k \in Node, Creates(k) PROVE AnchorInv'
  <2>1. \A a \in Admin : proc[a].pc \in {"anchor", "write"} => proc[a].node # k
    BY <1>9, <1>A DEF Creates, AuditInv, BaseInv, FrameInv, FrameOK
  <2> SUFFICES ASSUME NEW a \in Admin, NEW n \in rows',
                      proc'[a].node = n, proc'[a].pc \in {"anchor", "write"}
               PROVE  /\ proc'[a].period = meta'[n].period
                      /\ proc'[a].pc = "write" => Near(proc[a].st, n)'
    BY DEF AnchorInv
  <2>2. /\ proc' = proc /\ now' = now /\ n \in rows /\ n \in Node \ {k}
        /\ meta'[n] = meta[n]
    BY <1>9, <1>A, <2>1 DEF Creates
  <2> QED BY <2>2 DEF AnchorInv, Near
<1>10. ASSUME Passes PROVE AnchorInv'
  BY <1>1, <1>10 DEF Passes
<1>11. ASSUME Stops PROVE AnchorInv'
  <2>1. \A a \in Admin : proc'[a].pc = "idle" BY <1>11, <1>A DEF Stops
  <2> QED BY <2>1 DEF AnchorInv
<1> QED
  BY <1>3, <1>4, <1>5, <1>6, <1>7, <1>8, <1>9, <1>10, <1>11 DEF Effect

\* Every step keeps the baselines of their nodes' periods.
LEMMA PeriodStep ==
  ASSUME \A a, b \in Admin : a = b,
         AuditInv, AuditInv', AnchorInv, PeriodInv, Effect, Recorded
  PROVE  PeriodInv'
<1> DEFINE Brings(p, n) ==
             proc[p].node = n /\ proc[p].pc # "auth"
               => /\ proc[p].period = meta[n].period
                  /\ proc[p].pc = "write" => Near(proc[p].st, n)
           Replaced(n) ==
             \E a \in Admin : proc[a].node = n /\ proc[a].pc \in {"anchor", "write"}
           InPeriod(n) == /\ \A p \in Poster : Brings(p, n)
                          /\ Near(traffic[n], n) \/ Replaced(n)
<1>A. /\ Poster \subseteq Goroutine /\ Admin \subseteq Goroutine
      /\ \A p \in Poster : p \notin Admin
      /\ Idle.pc = "idle" /\ Idle.node = NoNode /\ now \in Nat
      /\ rows \subseteq minted /\ minted \subseteq Node /\ raced \subseteq raced'
      /\ NoTraffic.resetAt = 0
  BY GoroutineAssumption DEF Goroutine, Idle, AuditInv, BaseInv, TypeOK, OwnerInv,
     Recorded, NoTraffic
<1>B. \A n \in Node : /\ n # NoNode /\ meta[n].period \in Nat
                      /\ meta[n].period * Day \in Nat /\ traffic[n].resetAt \in Nat
  BY OptionAssumption, NodeAssumption DEF AuditInv, BaseInv, TypeOK, TrafficState
<1>C. \A g \in Goroutine : proc[g].st.resetAt \in Nat /\ proc[g].period \in Nat
  BY DEF AuditInv, BaseInv, TypeOK, Frame, TrafficState
<1>D. \A n \in rows \ raced : meta[n].period > 0 => InPeriod(n)
  BY DEF PeriodInv
<1>E. \A n \in Node \ minted : traffic[n] = NoTraffic BY DEF PeriodInv
<1>F. ASSUME \A n \in Node \ minted' : traffic'[n] = NoTraffic,
             \A n \in rows' \ raced' : meta'[n].period > 0 => InPeriod(n)'
      PROVE  PeriodInv'
  BY <1>F DEF PeriodInv
\* Where the clock and the metadata stand still.
<1>G. ASSUME NEW n \in Node, NEW st, now' = now, meta'[n] = meta[n]
      PROVE  Near(st, n) <=> st.resetAt <= now' + meta'[n].period * Day
  BY <1>G DEF Near
<1>1. ASSUME NEW p \in Poster,
             Starts(p) \/ Admits(p) \/ Ends(p) \/ Works(p) \/ Rolls(p)
      PROVE  PeriodInv'
  <2>1. Moves(p) /\ UNCHANGED <<now, minted, rows, meta, traffic>>
    BY <1>1 DEF Starts, Admits, Ends, Works, Rolls, Still
  <2> SUFFICES ASSUME NEW n \in rows \ raced', meta[n].period > 0
               PROVE  InPeriod(n)'
    BY <1>E, <1>F, <2>1
  <2>2. n \in Node /\ InPeriod(n) BY <1>A, <1>D
  <2>3. /\ \A a \in Admin : proc'[a] = proc[a]
        /\ \A q \in Poster \ {p} : proc'[q] = proc[q]
    BY <1>A, <2>1 DEF Moves
  <2>4. Near(traffic[n], n)' \/ Replaced(n)' BY <2>1, <2>2, <2>3 DEF Near
  <2>5. \A q \in Poster \ {p} : Brings(q, n)' BY <2>1, <2>2, <2>3 DEF Near
  <2>6. Brings(p, n)'
    <3>1. CASE Starts(p) BY <3>1 DEF Starts
    <3>2. CASE Admits(p) BY <2>1, <3>2 DEF Admits
    <3>3. CASE Ends(p) BY <1>A, <1>B, <2>2, <3>3 DEF Ends
    <3>4. CASE Works(p)
      <4>1. proc[p].node = n => proc[p].period = meta[n].period
        BY <2>2, <3>4 DEF Works
      <4> QED BY <1>A, <1>B, <2>1, <2>2, <3>4, <4>1 DEF Works, Continues
    <3>5. CASE Rolls(p)
      <4> SUFFICES ASSUME proc'[p].node = n
                   PROVE  proc'[p].period = meta[n].period /\ Near(proc'[p].st, n)
        BY <2>1 DEF Near
      <4>1. PICK st \in {traffic[n], NoTraffic} :
              /\ st.resetAt = 0 \/ now >= st.resetAt
              /\ proc'[p].st.resetAt = AdvanceReset(st.resetAt, proc[p].period, now)
        BY <3>5 DEF Rolls, Continues
      <4>2. proc'[p].period = meta[n].period /\ proc[p].period = meta[n].period
        BY <2>2, <3>5 DEF Rolls, Continues
      <4>3. st.resetAt \in Nat /\ (st.resetAt = 0 \/ st.resetAt <= now)
        BY <1>A, <1>B, <2>2, <4>1
      <4>4. meta[n].period \in Nat \ {0} BY <1>B, <2>2
      <4>5. AdvanceReset(st.resetAt, meta[n].period, now) <= now + meta[n].period * Day
        BY <1>A, <4>3, <4>4, AdvanceResetNear
      <4> QED BY <4>1, <4>2, <4>5 DEF Near
    <3> QED BY <1>1, <3>1, <3>2, <3>3, <3>4, <3>5
  <2> QED BY <2>4, <2>5, <2>6
<1>2. ASSUME NEW g \in Goroutine, Writes(g) PROVE PeriodInv'
  <2>1. /\ Moves(g) /\ UNCHANGED <<now, minted, rows, meta>> /\ proc'[g] = Idle
        /\ proc[g].pc = "write"
        /\ traffic'[proc[g].node] \in {traffic[proc[g].node], proc[g].st}
        /\ \A n \in Node \ {proc[g].node} : traffic'[n] = traffic[n]
    BY <1>2 DEF Writes
  <2>2. proc[g].node \in minted
    BY <2>1 DEF AuditInv, BaseInv, FrameInv, FrameOK
  <2>3. \A n \in Node \ minted' : traffic'[n] = NoTraffic BY <1>E, <2>1, <2>2
  <2> SUFFICES ASSUME NEW n \in rows \ raced', meta[n].period > 0
               PROVE  InPeriod(n)'
    BY <1>F, <2>1, <2>3
  <2>4. n \in Node /\ InPeriod(n) BY <1>A, <1>D
  <2>5. \A q \in Goroutine \ {g} : proc'[q] = proc[q] BY <2>1 DEF Moves
  <2>6. \A p \in Poster : Brings(p, n)'
    BY <1>A, <1>B, <2>1, <2>4, <2>5 DEF Near
  <2>7. Near(traffic[n], n)' \/ Replaced(n)'
    <3>1. CASE proc[g].node # n
      BY <1>A, <1>B, <2>1, <2>4, <2>5, <3>1 DEF Near
    <3>2. CASE proc[g].node = n /\ g \in Poster
      <4>1. Near(proc[g].st, n) BY <2>1, <2>4, <3>2
      <4>2. Near(traffic[n], n) \/ Replaced(n) BY <2>4
      <4> QED BY <1>A, <2>1, <2>5, <3>2, <4>1, <4>2 DEF Near
    <3>3. CASE proc[g].node = n /\ g \in Admin
      <4>1. Near(proc[g].st, n) BY <2>1, <3>3 DEF AnchorInv
      <4>2. ~CutOff(n) BY <2>4 DEF Recorded
      <4>3. traffic'[n] = proc[g].st BY <2>1, <3>3, <4>2 DEF CutOff
      <4> QED BY <2>1, <4>1, <4>3 DEF Near
    <3> QED BY <3>1, <3>2, <3>3 DEF Goroutine
  <2> QED BY <2>6, <2>7
<1>3. ASSUME NEW a \in Admin, Anchors(a) \/ Forgets(a) PROVE PeriodInv'
  <2>1. Moves(a) /\ UNCHANGED <<now, minted, rows, meta, traffic>>
    BY <1>3 DEF Anchors, Forgets, Still
  <2> SUFFICES ASSUME NEW n \in rows \ raced', meta[n].period > 0
               PROVE  InPeriod(n)'
    BY <1>E, <1>F, <2>1
  <2>2. n \in Node /\ InPeriod(n) BY <1>A, <1>D
  <2>3. \A p \in Poster : proc'[p] = proc[p] BY <1>A, <2>1 DEF Moves
  <2>4. \A p \in Poster : Brings(p, n)' BY <2>1, <2>2, <2>3 DEF Near
  <2>5. Replaced(n) => Replaced(n)'
    BY <1>3, <1>A, <2>1 DEF Anchors, Forgets, Continues, Moves
  <2> QED BY <2>1, <2>2, <2>4, <2>5 DEF Near
<1>4. ASSUME NEW a \in Admin, NEW k \in Node, NEW t \in Nat, Edits(a, k, t)
      PROVE  PeriodInv'
  <2>1. /\ Moves(a) /\ UNCHANGED <<now, minted, rows, traffic>> /\ proc[a] = Idle
        /\ meta'[k].period = t /\ \A n \in Node \ {k} : meta'[n] = meta[n]
    BY <1>4 DEF Edits
  <2> SUFFICES ASSUME NEW n \in rows \ raced', meta'[n].period > 0
               PROVE  InPeriod(n)'
    BY <1>E, <1>F, <2>1
  <2>2. n \in Node BY <1>A
  <2>3. \A p \in Poster : proc'[p] = proc[p] BY <1>A, <2>1 DEF Moves
  <2>4. Replaced(n) => Replaced(n)' BY <1>A, <2>1 DEF Moves
  <2>5. CASE meta'[n].period = meta[n].period
    <3>1. InPeriod(n) BY <1>A, <1>D, <2>5
    <3> QED BY <2>1, <2>3, <2>4, <2>5, <3>1 DEF Near
  <2>6. CASE meta'[n].period # meta[n].period
    <3>1. /\ n = k /\ proc'[a].pc = "anchor" /\ proc'[a].node = n
      BY <1>4, <2>1, <2>2, <2>6 DEF Edits
    <3>2. Replaced(n)' BY <3>1
    <3>3. \A p \in Poster : proc'[p].node = n => proc'[p].pc = "auth"
      BY <2>2, <3>1 DEF Recorded, Crossing
    <3> QED BY <3>2, <3>3
  <2> QED BY <2>5, <2>6
<1>5. ASSUME NEW a \in Admin, NEW k \in Node, Deletes(a, k) PROVE PeriodInv'
  <2>1. /\ Moves(a) /\ UNCHANGED <<now, minted>> /\ proc[a] = Idle
        /\ rows' = rows \ {k} /\ traffic'[k] = NoTraffic
        /\ \A n \in Node \ {k} : meta'[n] = meta[n] /\ traffic'[n] = traffic[n]
    BY <1>5 DEF Deletes
  <2>2. \A n \in Node \ minted' : traffic'[n] = NoTraffic BY <1>E, <2>1
  <2> SUFFICES ASSUME NEW n \in rows \ raced', n # k, meta[n].period > 0
               PROVE  InPeriod(n)'
    BY <1>A, <1>F, <2>1, <2>2
  <2>3. n \in Node /\ InPeriod(n) BY <1>A, <1>D
  <2>4. \A p \in Poster : proc'[p] = proc[p] BY <1>A, <2>1 DEF Moves
  <2>5. Replaced(n) => Replaced(n)' BY <1>A, <2>1 DEF Moves
  <2> QED BY <2>1, <2>3, <2>4, <2>5 DEF Near
<1>6. ASSUME NEW k \in Node, Creates(k) PROVE PeriodInv'
  <2>1. /\ proc' = proc /\ now' = now /\ traffic' = traffic
        /\ k \notin minted /\ minted' = minted \cup {k} /\ rows' = rows \cup {k}
        /\ \A n \in Node \ {k} : meta'[n] = meta[n]
    BY <1>6 DEF Creates
  <2> SUFFICES ASSUME NEW n \in rows', n \notin raced', meta'[n].period > 0
               PROVE  InPeriod(n)'
    BY <1>E, <1>F, <2>1
  <2>2. CASE n # k
    <3>1. n \in Node /\ meta'[n] = meta[n] /\ InPeriod(n) BY <1>A, <1>D, <2>1, <2>2
    <3> QED BY <2>1, <3>1 DEF Near
  <2>3. CASE n = k
    <3>1. \A p \in Poster : proc[p].node = k => proc[p].pc = "idle"
      BY <1>A, <2>1 DEF AuditInv, BaseInv, FrameInv, FrameOK
    <3>2. \A p \in Poster : proc'[p].node # k
      BY <1>A, <1>B, <2>1, <3>1 DEF AuditInv, RoleInv
    <3>3. traffic'[k].resetAt = 0 BY <1>A, <1>E, <2>1
    <3>4. now' \in Nat /\ meta'[k].period * Day \in Nat
      BY <1>A, <2>1, OptionAssumption DEF AuditInv, BaseInv, TypeOK
    <3>5. Near(traffic[k], k)' BY <3>3, <3>4 DEF Near
    <3> QED BY <2>3, <3>2, <3>5
  <2> QED BY <2>2, <2>3
<1>7. ASSUME Passes PROVE PeriodInv'
  <2>1. /\ UNCHANGED <<minted, rows, meta, traffic, proc>> /\ now' \in {now, now + 1}
    BY <1>7 DEF Passes
  <2> SUFFICES ASSUME NEW n \in rows \ raced', meta[n].period > 0
               PROVE  InPeriod(n)'
    BY <1>E, <1>F, <2>1
  <2>2. n \in Node /\ InPeriod(n) BY <1>A, <1>D
  <2>3. ASSUME NEW st, st.resetAt \in Nat, Near(st, n)
        PROVE  st.resetAt <= now' + meta'[n].period * Day
    <3> DEFINE length == meta[n].period * Day
    <3>1. length \in Nat /\ st.resetAt <= now + length BY <1>B, <2>2, <2>3 DEF Near
    <3> HIDE DEF length
    <3>2. st.resetAt <= now' + length BY <1>A, <2>1, <2>3, <3>1
    <3> QED BY <2>1, <3>2 DEF length
  <2>4. \A p \in Poster : Brings(p, n)'
    BY <1>A, <1>C, <2>1, <2>2, <2>3 DEF Near
  <2>5. Near(traffic[n], n)' \/ Replaced(n)'
    BY <1>B, <2>1, <2>2, <2>3 DEF Near
  <2> QED BY <2>4, <2>5
<1>8. ASSUME Stops PROVE PeriodInv'
  <2>1. UNCHANGED <<now, minted, rows, meta, traffic>> BY <1>8 DEF Stops
  <2>2. \A g \in Goroutine : proc'[g] = Idle BY <1>8 DEF Stops
  <2> SUFFICES ASSUME NEW n \in rows \ raced', meta[n].period > 0
               PROVE  InPeriod(n)'
    BY <1>E, <1>F, <2>1
  <2>3. n \in Node /\ InPeriod(n) BY <1>A, <1>D
  <2>4. \A p \in Poster : Brings(p, n)' BY <1>A, <1>B, <2>2, <2>3
  <2>5. Near(traffic[n], n)
    <3>1. ASSUME NEW a \in Admin, proc[a].node = n, proc[a].pc \in {"anchor", "write"}
          PROVE  Near(traffic[n], n)
      <4>1. ~CutOff(n) BY <2>3 DEF Recorded
      <4>2. proc[a].pc = "write" /\ traffic[n] = proc[a].st
        BY <1>A, <2>1, <2>2, <3>1, <4>1 DEF CutOff
      <4> QED BY <3>1, <4>2 DEF AnchorInv
    <3> QED BY <2>3, <3>1
  <2> QED BY <2>1, <2>4, <2>5 DEF Near
<1> QED
  BY <1>1, <1>2, <1>3, <1>4, <1>5, <1>6, <1>7, <1>8 DEF Effect

\* A settled update has left a baseline whose reset is at most one period of the
\* new length away, however heartbeats of other nodes, restarts and deletions come
\* between, if one admin request is served at a time.
THEOREM PeriodsReanchored ==
  ASSUME \A a, b \in Admin : a = b
  PROVE  AuditSpec => []PeriodReanchored
<1> DEFINE Inv == AuditInv /\ AnchorInv /\ PeriodInv
<1>1. AuditInit => Inv
  <2> SUFFICES ASSUME AuditInit PROVE AnchorInv /\ PeriodInv
    BY AuditStarts
  <2>1. Init BY DEF AuditInit
  <2>2. rows = {} /\ \A n \in Node : traffic[n] = NoTraffic BY <2>1 DEF Init
  <2> QED BY <2>2 DEF AnchorInv, PeriodInv
<1>2. Inv /\ [AuditNext]_auditVars => Inv'
  <2> SUFFICES ASSUME Inv, [AuditNext]_auditVars PROVE Inv'
    OBVIOUS
  <2>1. AuditInv' /\ Effect /\ Recorded BY AuditStep
  <2> QED BY <2>1, AnchorStep, PeriodStep
<1>3. Inv => PeriodReanchored
  <2> SUFFICES ASSUME Inv, NEW n \in rows \ raced, Settled(n), meta[n].period > 0
               PROVE  traffic[n].resetAt <= now + meta[n].period * Day
    BY DEF PeriodReanchored
  <2>1. \A a \in Admin : proc[a].node # n BY DEF Settled, Goroutine
  <2> QED BY <2>1 DEF PeriodInv, Near
<1> QED BY <1>1, <1>2, <1>3, PTL DEF AuditSpec

=============================================================================
