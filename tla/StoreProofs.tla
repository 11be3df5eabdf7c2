---------------------------- MODULE StoreProofs ----------------------------
(***************************************************************************)
(* Proofs about Store, for every set of nodes and goroutines, every value  *)
(* of the options and every schedule.                                      *)
(***************************************************************************)
EXTENDS Store, FiniteSetTheorems, SequenceTheorems, WellFoundedInduction, TLAPS

\* A non-empty set of naturals has a least element, and Min returns it.
LEMMA MinNat ==
  ASSUME NEW S \in SUBSET Nat, S # {}
  PROVE  Min(S) \in S /\ \A y \in S : Min(S) <= y
<1>1. PICK x \in S : \A y \in S : ~ (<<y, x>> \in OpToRel(<, Nat))
  <2>1. \E x \in S : \A y \in S : ~ (<<y, x>> \in OpToRel(<, Nat))
    BY NatLessThanWellFounded, WFMin, Zenon
  <2> QED BY <2>1
<1>2. \A y \in S : x <= y
  <2> TAKE y \in S
  <2>1. y \in Nat /\ x \in Nat OBVIOUS
  <2>2. ~ (y < x) BY <1>1, <2>1 DEF OpToRel
  <2> QED BY <2>1, <2>2
<1> QED BY <1>2 DEF Min

\* A non-empty bounded set of naturals has a greatest element, and Max returns
\* it.
LEMMA MaxNat ==
  ASSUME NEW S \in SUBSET Nat, S # {}, NEW b \in Nat, \A y \in S : y <= b
  PROVE  Max(S) \in S /\ \A y \in S : y <= Max(S)
<1> DEFINE D == {d \in Nat : \A y \in S : y <= d}
<1>1. D \in SUBSET Nat /\ D # {} OBVIOUS
<1> DEFINE m == Min(D)
<1>2. m \in D /\ \A d \in D : m <= d BY <1>1, MinNat
<1> HIDE DEF m
<1>3. m \in Nat /\ \A y \in S : y <= m BY <1>2
<1>4. m \in S
  <2> SUFFICES ASSUME m \notin S PROVE FALSE OBVIOUS
  <2>1. \A y \in S : y < m BY <1>3
  <2>2. PICK y \in S : y \in Nat /\ y < m BY <2>1
  <2>3. m - 1 \in Nat BY <2>2, <1>3
  <2>4. m - 1 \in D BY <2>1, <2>3, <1>3
  <2> QED BY <2>4, <1>2, <1>3
<1>5. \E x \in S : \A y \in S : x >= y BY <1>3, <1>4
<1>6. Max(S) \in S /\ \A y \in S : Max(S) >= y BY <1>5 DEF Max
<1> QED BY <1>6

\* advanceReset returns a boundary strictly after now, for every period and
\* also when its walk runs into the iteration bound.
THEOREM AdvanceResetFuture ==
  ASSUME NEW prev \in Nat, NEW period \in Nat \ {0}, NEW at \in Nat
  PROVE  AdvanceReset(prev, period, at) \in Nat /\ AdvanceReset(prev, period, at) > at
<1> DEFINE length == period * Day
           beyond == {i \in 1..MaxWalk : prev + i * length > at}
<1>1. length \in Nat \ {0} BY OptionAssumption
<1> HIDE DEF length
<1>2. CASE prev = 0 \/ beyond = {}
  <2>1. AdvanceReset(prev, period, at) = at + length
    BY <1>2 DEF AdvanceReset, length
  <2> QED BY <2>1, <1>1
<1>3. CASE prev # 0 /\ beyond # {}
  <2>1. AdvanceReset(prev, period, at) = prev + Min(beyond) * length
    BY <1>3 DEF AdvanceReset, length
  <2>2. beyond \in SUBSET Nat BY OptionAssumption
  <2>3. Min(beyond) \in beyond BY <2>2, <1>3, MinNat
  <2>4. Min(beyond) \in Nat /\ prev + Min(beyond) * length > at BY <2>2, <2>3
  <2>5. Min(beyond) * length \in Nat BY <2>4, <1>1
  <2> QED BY <2>1, <2>4, <2>5
<1> QED BY <1>2, <1>3

-----------------------------------------------------------------------------
(* Typing, clocks and ownership *)

BaseInv == TypeOK /\ ClockInv /\ OwnerInv /\ FrameInv

\* The hub starts in a state of the base invariant.
LEMMA BaseInit == Init => BaseInv
BY NodeAssumption DEF Init, BaseInv, TypeOK, ClockInv, OwnerInv, FrameInv,
   FrameOK, Idle, Frame, Step, NoHeartbeat, Heartbeat, NoTraffic, TrafficState,
   Unseen, Goroutine

\* The canonical values have their types.
LEMMA Canonical ==
  /\ NoHeartbeat \in Heartbeat /\ NoTraffic \in TrafficState /\ Idle \in Frame
  /\ Idle.pc = "idle" /\ Idle.t = 0
BY DEF Idle, Frame, Step, NoHeartbeat, Heartbeat, NoTraffic, TrafficState

\* A goroutine that moves to a good frame, while the clock stands still and no
\* row appears, keeps the goroutines well typed and their frames good.
LEMMA GotoFrame ==
  ASSUME BaseInv, NEW p \in Goroutine, NEW f \in Frame, Goto(p, f),
         now' = now, minted' = minted, rows' \subseteq rows,
         FrameOK(f)'
  PROVE  proc' \in [Goroutine -> Frame] /\ FrameInv'
<1>1. proc' \in [Goroutine -> Frame]
  BY DEF BaseInv, TypeOK, Goto
<1>2. ASSUME NEW g \in Goroutine PROVE FrameOK(proc[g])'
  <2>1. CASE g = p
    <3>1. proc'[g] = f BY <2>1 DEF BaseInv, TypeOK, Goto
    <3> QED BY <3>1 DEF FrameOK
  <2>2. CASE g # p
    <3>1. proc'[g] = proc[g] BY <2>2 DEF BaseInv, TypeOK, Goto
    <3> QED BY <3>1 DEF BaseInv, FrameInv, FrameOK
  <2> QED BY <2>1, <2>2
<1> QED BY <1>1, <1>2 DEF FrameInv

\* Every step of the hub keeps the base invariant.
LEMMA BaseStep == BaseInv /\ [Next]_vars => BaseInv'
<1> SUFFICES ASSUME BaseInv, [Next]_vars PROVE BaseInv'
  OBVIOUS
<1>A. /\ TypeOK /\ ClockInv /\ OwnerInv /\ FrameInv
      /\ Poster \subseteq Goroutine /\ Admin \subseteq Goroutine
  BY DEF BaseInv, Goroutine
<1>B. \A g \in Goroutine : proc[g] \in Frame /\ FrameOK(proc[g])
  BY <1>A DEF TypeOK, FrameInv
<1> USE DEF tables, memory
<1>1. ASSUME NEW p \in Poster, NEW n \in Node, NEW g \in 0..MaxRotate, Post(p, n, g)
      PROVE  BaseInv'
  <2>0. proc[p] \in Frame /\ g \in Nat /\ host[n] \in Heartbeat
    BY <1>1, <1>A, <1>B, Canonical, BoundAssumption DEF Post, TypeOK
  <2> DEFINE next == [Idle EXCEPT !.pc = "auth", !.node = n, !.gen = g, !.hb = host[n]]
  <2>1. /\ next \in Frame
        /\ next.pc = "auth"
        /\ next.t = 0
        /\ next.node = n
    BY <2>0, Canonical DEF Frame, Step, Idle
  <2> HIDE DEF next
  <2>2. PICK f \in Frame :
          /\ f = next
          /\ f.pc = "auth"
          /\ f.t = 0
          /\ f.node = n
    BY <2>1
  <2> USE DEF next
  <2>3. Goto(p, f) /\ now' = now /\ minted' = minted /\ rows' \subseteq rows
    BY <1>1, <2>2 DEF Post
  <2> HIDE DEF next
  <2>4. FrameOK(f)'
    BY <1>1, <1>A, <1>B, <2>2, <2>3 DEF Post, FrameOK, TypeOK, ClockInv
  <2>5. proc' \in [Goroutine -> Frame] /\ FrameInv'
    BY <2>3, <2>4, <1>A, GotoFrame
  <2>6. TypeOK'
    BY <1>1, <1>A, <1>B, <2>0, <2>5 DEF Post, TypeOK
  <2>7. (ClockInv /\ OwnerInv)'
    BY <1>1, <1>A, <1>B, <2>0 DEF Post, ClockInv, OwnerInv
  <2> QED BY <2>5, <2>6, <2>7 DEF BaseInv
<1>2. ASSUME NEW p \in Poster, NodeByToken(p)
      PROVE  BaseInv'
  <2>0. proc[p] \in Frame /\ meta[proc[p].node].period \in Nat
    BY <1>2, <1>A, <1>B, Canonical DEF NodeByToken, TypeOK, OwnerInv
  <2> DEFINE next == [proc[p] EXCEPT !.pc = "stamp", !.gen = 0,
                                !.period = meta[proc[p].node].period]
  <2>1. /\ next \in Frame
        /\ next.pc = "stamp"
        /\ next.t = proc[p].t
        /\ next.node = proc[p].node
    BY <2>0, Canonical DEF Frame, Step
  <2> HIDE DEF next
  <2>2. PICK f \in Frame :
          /\ f = next
          /\ f.pc = "stamp"
          /\ f.t = proc[p].t
          /\ f.node = proc[p].node
    BY <2>1
  <2> USE DEF next
  <2>3. Goto(p, f) /\ now' = now /\ minted' = minted /\ rows' \subseteq rows
    BY <1>2, <2>2 DEF NodeByToken
  <2> HIDE DEF next
  <2>4. FrameOK(f)'
    BY <1>2, <1>A, <1>B, <2>2, <2>3 DEF NodeByToken, FrameOK, TypeOK, ClockInv
  <2>5. proc' \in [Goroutine -> Frame] /\ FrameInv'
    BY <2>3, <2>4, <1>A, GotoFrame
  <2>6. TypeOK'
    BY <1>2, <1>A, <1>B, <2>0, <2>5 DEF NodeByToken, TypeOK
  <2>7. (ClockInv /\ OwnerInv)'
    BY <1>2, <1>A, <1>B, <2>0 DEF NodeByToken, ClockInv, OwnerInv
  <2> QED BY <2>5, <2>6, <2>7 DEF BaseInv
<1>3. ASSUME NEW p \in Poster, Reject(p)
      PROVE  BaseInv'
  <2>0. proc[p] \in Frame
    BY <1>3, <1>A, <1>B, Canonical DEF Reject
  <2> DEFINE next == Idle
  <2>1. /\ next \in Frame
        /\ next.pc = "idle"
        /\ next.t = 0
    BY <2>0, Canonical DEF Frame, Step
  <2> HIDE DEF next
  <2>2. PICK f \in Frame :
          /\ f = next
          /\ f.pc = "idle"
          /\ f.t = 0
    BY <2>1
  <2> USE DEF next
  <2>3. Goto(p, f) /\ now' = now /\ minted' = minted /\ rows' \subseteq rows
    BY <1>3, <2>2 DEF Reject
  <2> HIDE DEF next
  <2>4. FrameOK(f)'
    BY <1>3, <1>A, <1>B, <2>2, <2>3 DEF Reject, FrameOK, TypeOK, ClockInv
  <2>5. proc' \in [Goroutine -> Frame] /\ FrameInv'
    BY <2>3, <2>4, <1>A, GotoFrame
  <2>6. TypeOK'
    BY <1>3, <1>A, <1>B, <2>0, <2>5 DEF Reject, TypeOK
  <2>7. (ClockInv /\ OwnerInv)'
    BY <1>3, <1>A, <1>B, <2>0 DEF Reject, ClockInv, OwnerInv
  <2> QED BY <2>5, <2>6, <2>7 DEF BaseInv
<1>4. ASSUME NEW p \in Poster, Stamp(p)
      PROVE  BaseInv'
  <2>0. proc[p] \in Frame /\ now \in Nat
    BY <1>4, <1>A, <1>B, Canonical DEF Stamp, TypeOK
  <2> DEFINE next == [proc[p] EXCEPT !.pc = "lock", !.t = now]
  <2>1. /\ next \in Frame
        /\ next.pc = "lock"
        /\ next.t = now
        /\ next.node = proc[p].node
    BY <2>0, Canonical DEF Frame, Step
  <2> HIDE DEF next
  <2>2. PICK f \in Frame :
          /\ f = next
          /\ f.pc = "lock"
          /\ f.t = now
          /\ f.node = proc[p].node
    BY <2>1
  <2> USE DEF next
  <2>3. Goto(p, f) /\ now' = now /\ minted' = minted /\ rows' \subseteq rows
    BY <1>4, <2>2 DEF Stamp
  <2> HIDE DEF next
  <2>4. FrameOK(f)'
    BY <1>4, <1>A, <1>B, <2>2, <2>3 DEF Stamp, FrameOK, TypeOK, ClockInv
  <2>5. proc' \in [Goroutine -> Frame] /\ FrameInv'
    BY <2>3, <2>4, <1>A, GotoFrame
  <2>6. TypeOK'
    BY <1>4, <1>A, <1>B, <2>0, <2>5 DEF Stamp, TypeOK
  <2>7. (ClockInv /\ OwnerInv)'
    BY <1>4, <1>A, <1>B, <2>0 DEF Stamp, ClockInv, OwnerInv
  <2> QED BY <2>5, <2>6, <2>7 DEF BaseInv
<1>5. ASSUME NEW p \in Poster, SaveHeartbeat(p), DueToPersist(proc[p].node, proc[p].t)
      PROVE  BaseInv'
  <2>0. proc[p] \in Frame
    BY <1>5, <1>A, <1>B, Canonical DEF SaveHeartbeat
  <2> DEFINE next == [proc[p] EXCEPT !.pc = "insert"]
  <2>1. /\ next \in Frame
        /\ next.pc = "insert"
        /\ next.t = proc[p].t
        /\ next.node = proc[p].node
    BY <2>0, Canonical DEF Frame, Step
  <2> HIDE DEF next
  <2>2. PICK f \in Frame :
          /\ f = next
          /\ f.pc = "insert"
          /\ f.t = proc[p].t
          /\ f.node = proc[p].node
    BY <2>1
  <2> USE DEF next
  <2>3. Goto(p, f) /\ now' = now /\ minted' = minted /\ rows' \subseteq rows
    BY <1>5, <2>2 DEF SaveHeartbeat
  <2> HIDE DEF next
  <2>4. FrameOK(f)'
    BY <1>5, <1>A, <1>B, <2>2, <2>3 DEF SaveHeartbeat, FrameOK, TypeOK, ClockInv
  <2>5. proc' \in [Goroutine -> Frame] /\ FrameInv'
    BY <2>3, <2>4, <1>A, GotoFrame
  <2>6. TypeOK'
    BY <1>5, <1>A, <1>B, <2>0, <2>5 DEF SaveHeartbeat, TypeOK, FrameOK, OwnerInv, Frame
  <2>7. (ClockInv /\ OwnerInv)'
    BY <1>5, <1>A, <1>B, <2>0 DEF SaveHeartbeat, ClockInv, OwnerInv
  <2> QED BY <2>5, <2>6, <2>7 DEF BaseInv
<1>6. ASSUME NEW p \in Poster, SaveHeartbeat(p), ~DueToPersist(proc[p].node, proc[p].t)
      PROVE  BaseInv'
  <2>0. proc[p] \in Frame
    BY <1>6, <1>A, <1>B, Canonical DEF SaveHeartbeat
  <2> DEFINE next == AfterPersist(proc[p])
  <2>1. /\ next \in Frame
        /\ next.pc \in {"roll", "idle"} /\ next.t = 0
        /\ (next.pc = "roll" => next.period > 0 /\ next.node = proc[p].node)
    BY <2>0, Canonical DEF Frame, Step, AfterPersist
  <2> HIDE DEF next
  <2>2. PICK f \in Frame :
          /\ f = next
          /\ f.pc \in {"roll", "idle"} /\ f.t = 0
          /\ (f.pc = "roll" => f.period > 0 /\ f.node = proc[p].node)
    BY <2>1
  <2> USE DEF next
  <2>3. Goto(p, f) /\ now' = now /\ minted' = minted /\ rows' \subseteq rows
    BY <1>6, <2>2 DEF SaveHeartbeat
  <2> HIDE DEF next
  <2>4. FrameOK(f)'
    BY <1>6, <1>A, <1>B, <2>2, <2>3 DEF SaveHeartbeat, FrameOK, TypeOK, ClockInv
  <2>5. proc' \in [Goroutine -> Frame] /\ FrameInv'
    BY <2>3, <2>4, <1>A, GotoFrame
  <2>6. TypeOK'
    BY <1>6, <1>A, <1>B, <2>0, <2>5 DEF SaveHeartbeat, TypeOK, FrameOK, OwnerInv, Frame
  <2>7. (ClockInv /\ OwnerInv)'
    BY <1>6, <1>A, <1>B, <2>0 DEF SaveHeartbeat, ClockInv, OwnerInv
  <2> QED BY <2>5, <2>6, <2>7 DEF BaseInv
<1>7. ASSUME NEW p \in Poster, InsertSample(p)
      PROVE  BaseInv'
  <2>0. proc[p] \in Frame /\ proc[p].node \in minted \cap Node /\ proc[p].t \in 1..now
    BY <1>7, <1>A, <1>B, Canonical DEF InsertSample, TypeOK, FrameOK, Frame
  <2> DEFINE next == [proc[p] EXCEPT !.pc = "prune"]
  <2>1. /\ next \in Frame
        /\ next.pc = "prune"
        /\ next.t = proc[p].t
        /\ next.node = proc[p].node
    BY <2>0, Canonical DEF Frame, Step
  <2> HIDE DEF next
  <2>2. PICK f \in Frame :
          /\ f = next
          /\ f.pc = "prune"
          /\ f.t = proc[p].t
          /\ f.node = proc[p].node
    BY <2>1
  <2> USE DEF next
  <2>3. Goto(p, f) /\ now' = now /\ minted' = minted /\ rows' \subseteq rows
    BY <1>7, <2>2 DEF InsertSample
  <2> HIDE DEF next
  <2>4. FrameOK(f)'
    BY <1>7, <1>A, <1>B, <2>2, <2>3 DEF InsertSample, FrameOK, TypeOK, ClockInv
  <2>5. proc' \in [Goroutine -> Frame] /\ FrameInv'
    BY <2>3, <2>4, <1>A, GotoFrame
  <2> DEFINE n == proc[p].node
             t == proc[p].t
  <2>6. samples' = samples \/ samples' = [samples EXCEPT ![n] = samples[n] \cup {t}]
    BY <1>7 DEF InsertSample
  <2>7. n \in minted \cap Node /\ t \in 1..now /\ t \in Nat BY <2>0, <1>A DEF TypeOK
  <2> HIDE DEF n, t
  <2>8. samples' \in [Node -> SUBSET Nat] BY <2>6, <2>7, <1>A DEF TypeOK
  <2>9. TypeOK'
    BY <1>7, <1>A, <2>5, <2>8 DEF InsertSample, TypeOK
  <2>10. (ClockInv /\ OwnerInv)'
    <3>1. \A k \in Node : samples'[k] \subseteq samples[k] \cup {t}
      BY <2>6, <2>7, <1>A DEF TypeOK
    <3>2. \A k \in Node \ minted : samples'[k] = samples[k]
      BY <2>6, <2>7, <1>A DEF TypeOK
    <3>3. ClockInv' BY <1>7, <1>A, <2>7, <3>1 DEF InsertSample, ClockInv, TypeOK
    <3>4. OwnerInv' BY <1>7, <1>A, <3>2 DEF InsertSample, OwnerInv
    <3> QED BY <3>3, <3>4
  <2> QED BY <2>5, <2>9, <2>10 DEF BaseInv
<1>8. ASSUME NEW p \in Poster, PruneSamples(p)
      PROVE  BaseInv'
  <2>0. proc[p] \in Frame
    BY <1>8, <1>A, <1>B, Canonical DEF PruneSamples
  <2> DEFINE next == AfterPersist(proc[p])
  <2>1. /\ next \in Frame
        /\ next.pc \in {"roll", "idle"} /\ next.t = 0
        /\ (next.pc = "roll" => next.period > 0 /\ next.node = proc[p].node)
    BY <2>0, Canonical DEF Frame, Step, AfterPersist
  <2> HIDE DEF next
  <2>2. PICK f \in Frame :
          /\ f = next
          /\ f.pc \in {"roll", "idle"} /\ f.t = 0
          /\ (f.pc = "roll" => f.period > 0 /\ f.node = proc[p].node)
    BY <2>1
  <2> USE DEF next
  <2>3. Goto(p, f) /\ now' = now /\ minted' = minted /\ rows' \subseteq rows
    BY <1>8, <2>2 DEF PruneSamples
  <2> HIDE DEF next
  <2>4. FrameOK(f)'
    BY <1>8, <1>A, <1>B, <2>2, <2>3 DEF PruneSamples, FrameOK, TypeOK, ClockInv
  <2>5. proc' \in [Goroutine -> Frame] /\ FrameInv'
    BY <2>3, <2>4, <1>A, GotoFrame
  <2>6. TypeOK'
    BY <1>8, <1>A, <1>B, <2>0, <2>5 DEF PruneSamples, TypeOK, Pruned
  <2>7. (ClockInv /\ OwnerInv)'
    BY <1>8, <1>A, <1>B, <2>0 DEF PruneSamples, ClockInv, OwnerInv, Pruned, TypeOK
  <2> QED BY <2>5, <2>6, <2>7 DEF BaseInv
<1>9. ASSUME NEW p \in Poster, RollTraffic(p)
      PROVE  BaseInv'
  <2>1. PICK st \in {traffic[proc[p].node], NoTraffic} :
          Goto(p, IF st.resetAt = 0 \/ now >= st.resetAt
                  THEN [proc[p] EXCEPT
                          !.pc = "write",
                          !.st = [anchor |-> proc[p].hb,
                                  resetAt |-> AdvanceReset(st.resetAt, proc[p].period, now)]]
                  ELSE Idle)
    BY <1>9 DEF RollTraffic
  <2>2. proc[p] \in Frame /\ proc[p].node \in Node /\ proc[p].period \in Nat \ {0}
    BY <1>9, <1>A, <1>B DEF RollTraffic, TypeOK, FrameOK, Frame
  <2>3. st \in TrafficState /\ st.resetAt \in Nat /\ now \in Nat
    BY <2>2, <1>A, Canonical DEF TypeOK, TrafficState
  <2> DEFINE rolled == [anchor |-> proc[p].hb,
                        resetAt |-> AdvanceReset(st.resetAt, proc[p].period, now)]
             next == [proc[p] EXCEPT !.pc = "write", !.st = rolled]
  <2>4. rolled \in TrafficState
    BY <2>2, <2>3, AdvanceResetFuture DEF TrafficState, Frame
  <2> HIDE DEF rolled
  <2>5. /\ next \in Frame
        /\ next.pc = "write"
        /\ next.t = proc[p].t
        /\ next.node = proc[p].node
    BY <2>2, <2>4 DEF Frame, Step
  <2> USE DEF rolled
  <2> HIDE DEF next
  <2>6. PICK f \in Frame :
          /\ \/ f.pc = "write" /\ f.t = proc[p].t /\ f.node = proc[p].node
             \/ f.pc = "idle" /\ f.t = 0
          /\ Goto(p, f)
    <3>1. Goto(p, next) \/ Goto(p, Idle) BY <2>1 DEF next
    <3> QED BY <3>1, <2>5, Canonical
  <2>7. now' = now /\ minted' = minted /\ rows' \subseteq rows
    BY <1>9 DEF RollTraffic
  <2>8. FrameOK(f)'
    BY <1>9, <1>A, <1>B, <2>6, <2>7 DEF RollTraffic, FrameOK, TypeOK, ClockInv
  <2>9. proc' \in [Goroutine -> Frame] /\ FrameInv'
    BY <2>6, <2>7, <2>8, <1>A, GotoFrame
  <2>10. TypeOK' /\ (ClockInv /\ OwnerInv)'
    BY <1>9, <1>A, <2>9 DEF RollTraffic, TypeOK, ClockInv, OwnerInv
  <2> QED BY <2>9, <2>10 DEF BaseInv
<1>10. ASSUME NEW p \in Goroutine, WriteTraffic(p)
      PROVE  BaseInv'
  <2>0. proc[p] \in Frame /\ proc[p].node \in minted \cap Node /\ proc[p].st \in TrafficState
    BY <1>10, <1>A, <1>B, Canonical DEF WriteTraffic, TypeOK, FrameOK, Frame
  <2> DEFINE next == Idle
  <2>1. /\ next \in Frame
        /\ next.pc = "idle"
        /\ next.t = 0
    BY <2>0, Canonical DEF Frame, Step
  <2> HIDE DEF next
  <2>2. PICK f \in Frame :
          /\ f = next
          /\ f.pc = "idle"
          /\ f.t = 0
    BY <2>1
  <2> USE DEF next
  <2>3. Goto(p, f) /\ now' = now /\ minted' = minted /\ rows' \subseteq rows
    BY <1>10, <2>2 DEF WriteTraffic
  <2> HIDE DEF next
  <2>4. FrameOK(f)'
    BY <1>10, <1>A, <1>B, <2>2, <2>3 DEF WriteTraffic, FrameOK, TypeOK, ClockInv
  <2>5. proc' \in [Goroutine -> Frame] /\ FrameInv'
    BY <2>3, <2>4, <1>A, GotoFrame
  <2>6. TypeOK'
    BY <1>10, <1>A, <1>B, <2>0, <2>5 DEF WriteTraffic, TypeOK
  <2>7. (ClockInv /\ OwnerInv)'
    BY <1>10, <1>A, <1>B, <2>0 DEF WriteTraffic, ClockInv, OwnerInv
  <2> QED BY <2>5, <2>6, <2>7 DEF BaseInv
<1>11. ASSUME NEW p \in Admin, NEW n \in Node, DeleteNode(p, n)
      PROVE  BaseInv'
  <2>0. proc[p] \in Frame
    BY <1>11, <1>A, <1>B, Canonical DEF DeleteNode
  <2> DEFINE next == [Idle EXCEPT !.pc = "forget", !.node = n]
  <2>1. /\ next \in Frame
        /\ next.pc = "forget"
        /\ next.t = 0
        /\ next.node = n
    BY <2>0, Canonical DEF Frame, Step, Idle
  <2> HIDE DEF next
  <2>2. PICK f \in Frame :
          /\ f = next
          /\ f.pc = "forget"
          /\ f.t = 0
          /\ f.node = n
    BY <2>1
  <2> USE DEF next
  <2>3. Goto(p, f) /\ now' = now /\ minted' = minted /\ rows' \subseteq rows
    BY <1>11, <2>2 DEF DeleteNode
  <2> HIDE DEF next
  <2>4. FrameOK(f)'
    BY <1>11, <1>A, <1>B, <2>2, <2>3 DEF DeleteNode, OwnerInv, FrameOK, TypeOK, ClockInv
  <2>5. proc' \in [Goroutine -> Frame] /\ FrameInv'
    BY <2>3, <2>4, <1>A, GotoFrame
  <2>6. TypeOK'
    BY <1>11, <1>A, <1>B, <2>0, <2>5, Canonical DEF DeleteNode, TypeOK
  <2>7. (ClockInv /\ OwnerInv)'
    BY <1>11, <1>A, <1>B, <2>0 DEF DeleteNode, ClockInv, OwnerInv, TypeOK
  <2> QED BY <2>5, <2>6, <2>7 DEF BaseInv
<1>12. ASSUME NEW p \in Admin, NEW n \in Node, NEW m \in Meta, UpdateNode(p, n, m)
      PROVE  BaseInv'
  <2>0. proc[p] \in Frame /\ m \in [period : Nat, quota : Nat] /\ m.period \in Nat
    BY <1>12, <1>A, <1>B, Canonical, MetaAssumption DEF UpdateNode, Meta
  <2> DEFINE next == IF meta[n].period # m.period /\ m.period > 0
                     THEN [Idle EXCEPT !.pc = "anchor", !.node = n, !.period = m.period]
                     ELSE Idle
  <2>1. /\ next \in Frame
        /\ next.t = 0
        /\ (next.pc = "anchor" /\ next.node = n /\ next.period > 0) \/ next.pc = "idle"
    BY <2>0, Canonical DEF Frame, Step, Idle
  <2> HIDE DEF next
  <2>2. PICK f \in Frame :
          /\ f = next
          /\ f.t = 0
          /\ (f.pc = "anchor" /\ f.node = n /\ f.period > 0) \/ f.pc = "idle"
    BY <2>1
  <2> USE DEF next
  <2>3. Goto(p, f) /\ now' = now /\ minted' = minted /\ rows' \subseteq rows
    BY <1>12, <2>2 DEF UpdateNode
  <2> HIDE DEF next
  <2>4. FrameOK(f)'
    BY <1>12, <1>A, <1>B, <2>2, <2>3 DEF UpdateNode, OwnerInv, FrameOK, TypeOK, ClockInv
  <2>5. proc' \in [Goroutine -> Frame] /\ FrameInv'
    BY <2>3, <2>4, <1>A, GotoFrame
  <2>6. TypeOK'
    BY <1>12, <1>A, <1>B, <2>0, <2>5 DEF UpdateNode, TypeOK
  <2>7. (ClockInv /\ OwnerInv)'
    BY <1>12, <1>A, <1>B, <2>0 DEF UpdateNode, ClockInv, OwnerInv
  <2> QED BY <2>5, <2>6, <2>7 DEF BaseInv
<1>13. ASSUME NEW p \in Admin, SetTrafficBaseline(p)
      PROVE  BaseInv'
  <2> DEFINE n == proc[p].node
             base == IF live[n].seen = 0 THEN NoTraffic
                     ELSE [anchor |-> live[n].hb,
                           resetAt |-> AdvanceReset(0, proc[p].period, now)]
             next == [proc[p] EXCEPT !.pc = "write", !.st = base]
  <2>1. proc[p] \in Frame /\ n \in Node /\ proc[p].period \in Nat \ {0} /\ now \in Nat
    BY <1>13, <1>A, <1>B DEF SetTrafficBaseline, TypeOK, FrameOK, Frame
  <2>2. base \in TrafficState
    <3>1. live[n].hb \in Heartbeat BY <2>1, <1>A DEF TypeOK
    <3>2. AdvanceReset(0, proc[p].period, now) \in Nat BY <2>1, AdvanceResetFuture
    <3> QED BY <3>1, <3>2, Canonical DEF TrafficState
  <2> HIDE DEF base
  <2>3. /\ next \in Frame
        /\ next.pc = "write"
        /\ next.t = proc[p].t
        /\ next.node = proc[p].node
    BY <2>1, <2>2 DEF Frame, Step
  <2> USE DEF base
  <2> HIDE DEF next
  <2>4. PICK f \in Frame :
          /\ f = next
          /\ f.pc = "write"
          /\ f.t = proc[p].t
          /\ f.node = proc[p].node
    BY <2>3
  <2>5. Goto(p, f) /\ now' = now /\ minted' = minted /\ rows' \subseteq rows
    BY <1>13, <2>4 DEF SetTrafficBaseline, next
  <2>6. FrameOK(f)'
    BY <1>13, <1>A, <1>B, <2>4, <2>5 DEF SetTrafficBaseline, FrameOK, TypeOK, ClockInv
  <2>7. proc' \in [Goroutine -> Frame] /\ FrameInv'
    BY <2>5, <2>6, <1>A, GotoFrame
  <2>8. TypeOK' /\ (ClockInv /\ OwnerInv)'
    BY <1>13, <1>A, <2>7 DEF SetTrafficBaseline, TypeOK, ClockInv, OwnerInv
  <2> QED BY <2>7, <2>8 DEF BaseInv
<1>14. ASSUME NEW p \in Admin, ForgetNode(p)
      PROVE  BaseInv'
  <2>0. proc[p] \in Frame /\ proc[p].node \in minted \cap Node
    BY <1>14, <1>A, <1>B, Canonical DEF ForgetNode, TypeOK, FrameOK, Frame
  <2> DEFINE next == Idle
  <2>1. /\ next \in Frame
        /\ next.pc = "idle"
        /\ next.t = 0
    BY <2>0, Canonical DEF Frame, Step
  <2> HIDE DEF next
  <2>2. PICK f \in Frame :
          /\ f = next
          /\ f.pc = "idle"
          /\ f.t = 0
    BY <2>1
  <2> USE DEF next
  <2>3. Goto(p, f) /\ now' = now /\ minted' = minted /\ rows' \subseteq rows
    BY <1>14, <2>2 DEF ForgetNode
  <2> HIDE DEF next
  <2>4. FrameOK(f)'
    BY <1>14, <1>A, <1>B, <2>2, <2>3 DEF ForgetNode, FrameOK, TypeOK, ClockInv
  <2>5. proc' \in [Goroutine -> Frame] /\ FrameInv'
    BY <2>3, <2>4, <1>A, GotoFrame
  <2>6. TypeOK'
    BY <1>14, <1>A, <1>B, <2>0, <2>5, Canonical DEF ForgetNode, TypeOK, Unseen
  <2>7. (ClockInv /\ OwnerInv)'
    BY <1>14, <1>A, <1>B, <2>0 DEF ForgetNode, ClockInv, OwnerInv
  <2> QED BY <2>5, <2>6, <2>7 DEF BaseInv
<1>15. ASSUME NEW n \in Node, RotateToken(n) PROVE BaseInv'
  <2>1. TypeOK' BY <1>15, <1>A DEF RotateToken, TypeOK
  <2>2. (ClockInv /\ OwnerInv /\ FrameInv)'
    BY <1>15, <1>A DEF RotateToken, ClockInv, OwnerInv, FrameInv, FrameOK
  <2> QED BY <2>1, <2>2 DEF BaseInv
<1>16. ASSUME NEW n \in Node, NEW m \in Meta, CreateNode(n, m) PROVE BaseInv'
  <2>1. m \in [period : Nat, quota : Nat] BY MetaAssumption DEF Meta
  <2>2. TypeOK' BY <1>16, <1>A, <2>1 DEF CreateNode, TypeOK
  <2>3. (ClockInv /\ OwnerInv)' BY <1>16, <1>A DEF CreateNode, ClockInv, OwnerInv
  <2>4. ASSUME NEW g \in Goroutine PROVE FrameOK(proc[g])'
    BY <1>16, <1>B DEF CreateNode, FrameOK
  <2> QED BY <2>2, <2>3, <2>4 DEF BaseInv, FrameInv
<1>17. ASSUME NEW n \in Node, MoveBytes(n) PROVE BaseInv'
  <2>1. host[n] \in Heartbeat /\ host[n].total \in Nat
    BY <1>A DEF TypeOK, Heartbeat
  <2>2. [host[n] EXCEPT !.total = @ + 1] \in Heartbeat BY <2>1 DEF Heartbeat
  <2>3. host' = [host EXCEPT ![n] = [host[n] EXCEPT !.total = @ + 1]]
    BY <1>17, <1>A DEF MoveBytes, TypeOK
  <2>4. TypeOK' BY <1>17, <1>A, <2>2, <2>3 DEF MoveBytes, TypeOK
  <2>5. (ClockInv /\ OwnerInv /\ FrameInv)'
    BY <1>17, <1>A DEF MoveBytes, ClockInv, OwnerInv, FrameInv, FrameOK
  <2> QED BY <2>4, <2>5 DEF BaseInv
<1>18. ASSUME NEW n \in Node, LowerCounter(n) PROVE BaseInv'
  <2>1. host[n] \in Heartbeat BY <1>A DEF TypeOK
  <2>2. host[n].total \in Nat /\ host[n].boot \in Nat BY <2>1 DEF Heartbeat
  <2>3. PICK lost \in (IF IfacesVanish THEN 0..Counter(host[n]) ELSE {Counter(host[n])}) :
          host' = [host EXCEPT ![n].boot = @ + lost]
    BY <1>18 DEF LowerCounter
  <2>4. host[n].boot + lost \in Nat BY <2>2, <2>3 DEF Counter
  <2>5. [host[n] EXCEPT !.boot = @ + lost] \in Heartbeat BY <2>1, <2>4 DEF Heartbeat
  <2>6. TypeOK' BY <1>18, <1>A, <2>3, <2>5 DEF LowerCounter, TypeOK
  <2>7. (ClockInv /\ OwnerInv /\ FrameInv)'
    BY <1>18, <1>A DEF LowerCounter, ClockInv, OwnerInv, FrameInv, FrameOK
  <2> QED BY <2>6, <2>7 DEF BaseInv
<1>19. ASSUME SweepPrune PROVE BaseInv'
  <2>1. TypeOK' BY <1>19, <1>A DEF SweepPrune, Pruned, TypeOK
  <2>2. (ClockInv /\ OwnerInv /\ FrameInv)'
    BY <1>19, <1>A DEF SweepPrune, Pruned, TypeOK, ClockInv, OwnerInv, FrameInv, FrameOK
  <2> QED BY <2>1, <2>2 DEF BaseInv
<1>20. ASSUME Restart PROVE BaseInv'
  <2>1. ASSUME NEW n \in Node PROVE NewestSample(samples[n]) \in Nat
    <3>1. samples[n] \in SUBSET Nat /\ now \in Nat /\ \A t \in samples[n] : t <= now
      BY <1>A DEF TypeOK, ClockInv
    <3> QED BY <3>1, MaxNat DEF NewestSample
  <2>2. TypeOK'
    BY <1>20, <1>A, <2>1, Canonical DEF Restart, TypeOK, Unseen
  <2>3. (ClockInv /\ OwnerInv)' BY <1>20, <1>A DEF Restart, ClockInv, OwnerInv
  <2>4. FrameInv'
    BY <1>20, <1>A, Canonical DEF Restart, FrameInv, FrameOK, ClockInv, TypeOK
  <2> QED BY <2>2, <2>3, <2>4 DEF BaseInv
<1>21. ASSUME Tick PROVE BaseInv'
  <2>1. TypeOK' BY <1>21, <1>A DEF Tick, TypeOK
  <2>2. (ClockInv /\ OwnerInv)' BY <1>21, <1>A DEF Tick, TypeOK, ClockInv, OwnerInv
  <2>3. ASSUME NEW g \in Goroutine PROVE FrameOK(proc[g])'
    BY <1>21, <1>A, <1>B DEF Tick, FrameOK, TypeOK, Frame
  <2> QED BY <2>1, <2>2, <2>3 DEF BaseInv, FrameInv
<1>22. CASE UNCHANGED vars
  BY <1>22, <1>A DEF vars, BaseInv, TypeOK, ClockInv, OwnerInv, FrameInv, FrameOK
<1> QED
  BY <1>A, <1>1, <1>2, <1>3, <1>4, <1>5, <1>6, <1>7, <1>8, <1>9, <1>10, <1>11, <1>12, <1>13, <1>14, <1>15, <1>16, <1>17, <1>18, <1>19, <1>20,
     <1>21, <1>22
     DEF Next, ServeHeartbeat, ServeAdmin

\* TypeOK holds of every reachable state of the store.
THEOREM TypeCorrect == Spec => []TypeOK
<1>1. Spec => []BaseInv BY BaseInit, BaseStep, PTL DEF Spec
<1>2. BaseInv => TypeOK BY DEF BaseInv
<1> QED BY <1>1, <1>2, PTL

-----------------------------------------------------------------------------
(* Downsampling *)

\* Claimed times are positive.
LEMMA ClaimedPositive ==
  ASSUME BaseInv, NEW n \in Node, NEW t \in Claimed(n)
  PROVE  t \in Nat /\ t >= 1
<1>1. CASE t \in samples[n]
  BY <1>1 DEF BaseInv, TypeOK, ClockInv
<1>2. CASE \E g \in Goroutine : proc[g].pc = "insert" /\ t = proc[g].t
  BY <1>2 DEF BaseInv, TypeOK, FrameInv, FrameOK, Frame
<1> QED BY <1>1, <1>2 DEF Claimed

\* Only goroutine p moves.
Moves(p) == \A g \in Goroutine \ {p} : proc'[g] = proc[g]

\* Goto moves one goroutine and no other.
LEMMA GotoMoves ==
  ASSUME BaseInv, NEW p \in Goroutine, NEW f, Goto(p, f)
  PROVE  Moves(p) /\ proc'[p] = f
BY DEF BaseInv, TypeOK, Goto, Moves

\* What the move of one goroutine can add to the claimed times.
LEMMA ClaimedMove ==
  ASSUME NEW p \in Goroutine, Moves(p), NEW n \in Node
  PROVE  Claimed(n)' \subseteq samples'[n] \cup Claimed(n)
           \cup {t \in {proc'[p].t} : proc'[p].pc = "insert" /\ proc'[p].node = n}
BY DEF Claimed, Moves

\* Spacing survives a step that claims no new time and lowers no lastPersist.
LEMMA SpacingShrinks ==
  ASSUME BaseInv, SpacingInv, rows' \subseteq rows,
         \A n \in rows' : Claimed(n)' \subseteq Claimed(n) /\ lastPersist'[n] = lastPersist[n]
  PROVE  SpacingInv'
BY DEF SpacingInv

\* It survives a goroutine's move that neither claims nor stores a time.
LEMMA SpacingQuietMove ==
  ASSUME BaseInv, SpacingInv, rows' \subseteq rows, lastPersist' = lastPersist,
         \A n \in Node : samples'[n] \subseteq samples[n],
         NEW p \in Goroutine, Moves(p), proc'[p].pc # "insert"
  PROVE  SpacingInv'
<1>1. \A n \in rows' : Claimed(n)' \subseteq Claimed(n)
  <2> TAKE n \in rows'
  <2>1. n \in Node BY DEF BaseInv, TypeOK
  <2>2. Claimed(n)' \subseteq samples'[n] \cup Claimed(n)
    BY <2>1, ClaimedMove
  <2> QED BY <2>1, <2>2 DEF Claimed
<1> QED BY <1>1, SpacingShrinks

\* Every step of the hub keeps the claimed times spaced.
LEMMA SpacingStep == BaseInv /\ SpacingInv /\ [Next]_vars => SpacingInv'
<1> SUFFICES ASSUME BaseInv, SpacingInv, [Next]_vars PROVE SpacingInv'
  OBVIOUS
<1>A. /\ TypeOK /\ ClockInv /\ OwnerInv /\ FrameInv
      /\ Poster \subseteq Goroutine /\ Admin \subseteq Goroutine
  BY DEF BaseInv, Goroutine
<1>B. \A g \in Goroutine : proc[g] \in Frame /\ FrameOK(proc[g])
  BY <1>A DEF TypeOK, FrameInv
<1> USE DEF tables, memory
<1>1. ASSUME NEW p \in Poster, NEW n \in Node, NEW g \in 0..MaxRotate, Post(p, n, g)
      PROVE  SpacingInv'
  <2> DEFINE next == [Idle EXCEPT !.pc = "auth", !.node = n, !.gen = g, !.hb = host[n]]
  <2>1. next.pc # "insert" BY DEF Idle
  <2> HIDE DEF next
  <2>2. Goto(p, next) BY <1>1 DEF Post, next
  <2>3. Moves(p) /\ proc'[p].pc # "insert" BY <2>1, <2>2, <1>A, GotoMoves
  <2>4. rows' \subseteq rows /\ lastPersist' = lastPersist
    BY <1>1 DEF Post
  <2>5. \A k \in Node : samples'[k] \subseteq samples[k]
    BY <1>1 DEF Post
  <2> QED BY <2>3, <2>4, <2>5, <1>A, SpacingQuietMove
<1>2. ASSUME NEW p \in Poster, NodeByToken(p)
      PROVE  SpacingInv'
  <2>0. proc[p] \in Frame BY <1>A, <1>B
  <2> DEFINE next == [proc[p] EXCEPT !.pc = "stamp", !.gen = 0,
                                !.period = meta[proc[p].node].period]
  <2>1. next.pc # "insert" BY <2>0 DEF Frame
  <2> HIDE DEF next
  <2>2. Goto(p, next) BY <1>2 DEF NodeByToken, next
  <2>3. Moves(p) /\ proc'[p].pc # "insert" BY <2>1, <2>2, <1>A, GotoMoves
  <2>4. rows' \subseteq rows /\ lastPersist' = lastPersist
    BY <1>2 DEF NodeByToken
  <2>5. \A k \in Node : samples'[k] \subseteq samples[k]
    BY <1>2 DEF NodeByToken
  <2> QED BY <2>3, <2>4, <2>5, <1>A, SpacingQuietMove
<1>3. ASSUME NEW p \in Poster, Reject(p)
      PROVE  SpacingInv'
  <2> DEFINE next == Idle
  <2>1. next.pc # "insert" BY DEF Idle
  <2> HIDE DEF next
  <2>2. Goto(p, next) BY <1>3 DEF Reject, next
  <2>3. Moves(p) /\ proc'[p].pc # "insert" BY <2>1, <2>2, <1>A, GotoMoves
  <2>4. rows' \subseteq rows /\ lastPersist' = lastPersist
    BY <1>3 DEF Reject
  <2>5. \A k \in Node : samples'[k] \subseteq samples[k]
    BY <1>3 DEF Reject
  <2> QED BY <2>3, <2>4, <2>5, <1>A, SpacingQuietMove
<1>4. ASSUME NEW p \in Poster, Stamp(p)
      PROVE  SpacingInv'
  <2>0. proc[p] \in Frame BY <1>A, <1>B
  <2> DEFINE next == [proc[p] EXCEPT !.pc = "lock", !.t = now]
  <2>1. next.pc # "insert" BY <2>0 DEF Frame
  <2> HIDE DEF next
  <2>2. Goto(p, next) BY <1>4 DEF Stamp, next
  <2>3. Moves(p) /\ proc'[p].pc # "insert" BY <2>1, <2>2, <1>A, GotoMoves
  <2>4. rows' \subseteq rows /\ lastPersist' = lastPersist
    BY <1>4 DEF Stamp
  <2>5. \A k \in Node : samples'[k] \subseteq samples[k]
    BY <1>4 DEF Stamp
  <2> QED BY <2>3, <2>4, <2>5, <1>A, SpacingQuietMove
<1>5. ASSUME NEW p \in Poster, PruneSamples(p)
      PROVE  SpacingInv'
  <2>0. proc[p] \in Frame BY <1>A, <1>B
  <2> DEFINE next == AfterPersist(proc[p])
  <2>1. next.pc # "insert" BY <2>0 DEF AfterPersist, Idle, Frame
  <2> HIDE DEF next
  <2>2. Goto(p, next) BY <1>5 DEF PruneSamples, next
  <2>3. Moves(p) /\ proc'[p].pc # "insert" BY <2>1, <2>2, <1>A, GotoMoves
  <2>4. rows' \subseteq rows /\ lastPersist' = lastPersist
    BY <1>5 DEF PruneSamples
  <2>5. \A k \in Node : samples'[k] \subseteq samples[k]
    BY <1>5, <1>A DEF PruneSamples, Pruned, TypeOK
  <2> QED BY <2>3, <2>4, <2>5, <1>A, SpacingQuietMove
<1>6. ASSUME NEW p \in Poster, RollTraffic(p)
      PROVE  SpacingInv'
  <2>0. proc[p] \in Frame BY <1>A, <1>B
  <2>1. PICK st \in {traffic[proc[p].node], NoTraffic} :
          Goto(p, IF st.resetAt = 0 \/ now >= st.resetAt
                  THEN [proc[p] EXCEPT
                          !.pc = "write",
                          !.st = [anchor |-> proc[p].hb,
                                  resetAt |-> AdvanceReset(st.resetAt, proc[p].period, now)]]
                  ELSE Idle)
    BY <1>6 DEF RollTraffic
  <2> DEFINE next == [proc[p] EXCEPT
                        !.pc = "write",
                        !.st = [anchor |-> proc[p].hb,
                                resetAt |-> AdvanceReset(st.resetAt, proc[p].period, now)]]
  <2>2. next.pc # "insert" /\ Idle.pc # "insert" BY <2>0 DEF Frame, Idle
  <2> HIDE DEF next
  <2>3. Goto(p, next) \/ Goto(p, Idle) BY <2>1 DEF next
  <2>4. Moves(p) /\ proc'[p].pc # "insert" BY <2>2, <2>3, <1>A, GotoMoves
  <2>5. rows' \subseteq rows /\ lastPersist' = lastPersist
    BY <1>6 DEF RollTraffic
  <2>6. \A k \in Node : samples'[k] \subseteq samples[k]
    BY <1>6 DEF RollTraffic
  <2> QED BY <2>4, <2>5, <2>6, <1>A, SpacingQuietMove
<1>7. ASSUME NEW p \in Goroutine, WriteTraffic(p)
      PROVE  SpacingInv'
  <2> DEFINE next == Idle
  <2>1. next.pc # "insert" BY DEF Idle
  <2> HIDE DEF next
  <2>2. Goto(p, next) BY <1>7 DEF WriteTraffic, next
  <2>3. Moves(p) /\ proc'[p].pc # "insert" BY <2>1, <2>2, <1>A, GotoMoves
  <2>4. rows' \subseteq rows /\ lastPersist' = lastPersist
    BY <1>7 DEF WriteTraffic
  <2>5. \A k \in Node : samples'[k] \subseteq samples[k]
    BY <1>7 DEF WriteTraffic
  <2> QED BY <2>3, <2>4, <2>5, <1>A, SpacingQuietMove
<1>8. ASSUME NEW p \in Admin, NEW n \in Node, DeleteNode(p, n)
      PROVE  SpacingInv'
  <2> DEFINE next == [Idle EXCEPT !.pc = "forget", !.node = n]
  <2>1. next.pc # "insert" BY DEF Idle
  <2> HIDE DEF next
  <2>2. Goto(p, next) BY <1>8 DEF DeleteNode, next
  <2>3. Moves(p) /\ proc'[p].pc # "insert" BY <2>1, <2>2, <1>A, GotoMoves
  <2>4. rows' \subseteq rows /\ lastPersist' = lastPersist
    BY <1>8 DEF DeleteNode
  <2>5. \A k \in Node : samples'[k] \subseteq samples[k]
    BY <1>8, <1>A DEF DeleteNode, TypeOK
  <2> QED BY <2>3, <2>4, <2>5, <1>A, SpacingQuietMove
<1>9. ASSUME NEW p \in Admin, NEW n \in Node, NEW m \in Meta, UpdateNode(p, n, m)
      PROVE  SpacingInv'
  <2> DEFINE next == IF meta[n].period # m.period /\ m.period > 0
                     THEN [Idle EXCEPT !.pc = "anchor", !.node = n, !.period = m.period]
                     ELSE Idle
  <2>1. next.pc # "insert" BY DEF Idle
  <2> HIDE DEF next
  <2>2. Goto(p, next) BY <1>9 DEF UpdateNode, next
  <2>3. Moves(p) /\ proc'[p].pc # "insert" BY <2>1, <2>2, <1>A, GotoMoves
  <2>4. rows' \subseteq rows /\ lastPersist' = lastPersist
    BY <1>9 DEF UpdateNode
  <2>5. \A k \in Node : samples'[k] \subseteq samples[k]
    BY <1>9 DEF UpdateNode
  <2> QED BY <2>3, <2>4, <2>5, <1>A, SpacingQuietMove
<1>10. ASSUME NEW p \in Admin, SetTrafficBaseline(p)
      PROVE  SpacingInv'
  <2>0. proc[p] \in Frame BY <1>A, <1>B
  <2> DEFINE next == [proc[p] EXCEPT
                        !.pc = "write",
                        !.st = IF live[proc[p].node].seen = 0 THEN NoTraffic
                               ELSE [anchor |-> live[proc[p].node].hb,
                                     resetAt |-> AdvanceReset(0, proc[p].period, now)]]
  <2>1. next.pc # "insert" BY <2>0 DEF Frame
  <2> HIDE DEF next
  <2>2. Goto(p, next) BY <1>10 DEF SetTrafficBaseline, next
  <2>3. Moves(p) /\ proc'[p].pc # "insert" BY <2>1, <2>2, <1>A, GotoMoves
  <2>4. rows' \subseteq rows /\ lastPersist' = lastPersist
    BY <1>10 DEF SetTrafficBaseline
  <2>5. \A k \in Node : samples'[k] \subseteq samples[k]
    BY <1>10 DEF SetTrafficBaseline
  <2> QED BY <2>3, <2>4, <2>5, <1>A, SpacingQuietMove
<1>11. ASSUME NEW p \in Poster, SaveHeartbeat(p)
      PROVE  SpacingInv'
  <2>0. /\ proc[p] \in Frame /\ proc[p].node \in Node
        /\ proc[p].t \in Nat /\ proc[p].t >= 1
    BY <1>11, <1>A, <1>B DEF SaveHeartbeat, TypeOK, OwnerInv, FrameOK, Frame
  <2>1. PICK n \in Node, t \in Nat :
          /\ n = proc[p].node /\ t = proc[p].t /\ t >= 1
          /\ proc[p] \in Frame /\ rows' = rows /\ samples' = samples
    BY <2>0, <1>11 DEF SaveHeartbeat
  <2>2. CASE ~DueToPersist(n, t)
    <3> DEFINE next == AfterPersist(proc[p])
    <3>1. next.pc # "insert" BY <2>1 DEF AfterPersist, Idle, Frame
    <3> HIDE DEF next
    <3>2. Goto(p, next) BY <1>11, <2>1, <2>2 DEF SaveHeartbeat, next
    <3>3. Moves(p) /\ proc'[p].pc # "insert" BY <3>1, <3>2, <1>A, GotoMoves
    <3>4. lastPersist' = lastPersist BY <1>11, <2>1, <2>2 DEF SaveHeartbeat
    <3> QED BY <2>1, <3>3, <3>4, <1>A, SpacingQuietMove
  <2>3. CASE DueToPersist(n, t)
    <3>1. Moves(p) /\ proc'[p].t = t
      BY <1>11, <2>1, <2>3, <1>A, GotoMoves DEF SaveHeartbeat, Frame
    <3>1a. proc'[p].node = n
      BY <1>11, <2>1, <2>3, <1>A, GotoMoves DEF SaveHeartbeat, Frame
    <3>2. lastPersist' = [lastPersist EXCEPT ![n] = t]
      BY <1>11, <2>1, <2>3 DEF SaveHeartbeat
    <3>3. \A k \in Node : /\ Claimed(k)' \subseteq Claimed(k) \cup {u \in {t} : k = n}
                          /\ lastPersist'[k] = IF k = n THEN t ELSE lastPersist[k]
      <4> TAKE k \in Node
      <4>1. Claimed(k)' \subseteq samples'[k] \cup Claimed(k)
              \cup {u \in {proc'[p].t} : proc'[p].pc = "insert" /\ proc'[p].node = k}
        BY <3>1, <1>A, ClaimedMove
      <4>2. samples'[k] \subseteq Claimed(k) BY <2>1 DEF Claimed
      <4> QED BY <4>1, <4>2, <3>1, <3>1a, <3>2, <1>A DEF TypeOK
    <3>4. DueToPersist(n, t) /\ lastPersist[n] \in Nat BY <2>1, <2>3, <1>A DEF TypeOK
    <3>5. \A k \in rows : k # n => /\ Claimed(k)' \subseteq Claimed(k)
                                   /\ lastPersist'[k] = lastPersist[k]
      BY <3>3, <1>A DEF TypeOK
    <3>6. ASSUME n \in rows, NEW u \in Claimed(n) PROVE u \in Nat /\ u < t /\ t - u >= PersistEvery
      <4>1. u \in Nat /\ u >= 1 /\ u <= lastPersist[n]
        BY <3>6, <2>1, ClaimedPositive DEF SpacingInv
      <4> QED BY <4>1, <3>4, <2>1, OptionAssumption DEF DueToPersist
    <3>7. ASSUME n \in rows, NEW u \in Claimed(n)'
          PROVE  /\ u <= lastPersist'[n]
                 /\ \A v \in Claimed(n)' : u < v => v - u >= PersistEvery
      <4>1. lastPersist'[n] = t /\ Claimed(n)' \subseteq Claimed(n) \cup {t}
        BY <3>3
      <4>2. \A v \in Claimed(n) : u \in Claimed(n) /\ u < v => v - u >= PersistEvery
        BY <3>7 DEF SpacingInv
      <4> QED BY <4>1, <4>2, <3>6, <3>7, <2>1
    <3>8. ASSUME NEW k \in rows, k # n, NEW u \in Claimed(k)'
          PROVE  /\ u <= lastPersist'[k]
                 /\ \A v \in Claimed(k)' : u < v => v - u >= PersistEvery
      BY <3>5, <3>8 DEF SpacingInv
    <3> QED
      <4>1. rows' = rows BY <2>1
      <4> QED BY <3>7, <3>8, <4>1 DEF SpacingInv
  <2> QED BY <2>2, <2>3
<1>12. ASSUME NEW p \in Poster, InsertSample(p)
      PROVE  SpacingInv'
  <2>1. /\ proc[p] \in Frame /\ proc[p].pc = "insert" /\ proc[p].node \in Node
        /\ rows' = rows /\ lastPersist' = lastPersist
    BY <1>12, <1>A, <1>B DEF InsertSample, TypeOK, OwnerInv, FrameOK, Frame
  <2>2. Moves(p) /\ proc'[p].pc # "insert"
    BY <1>12, <2>1, <1>A, GotoMoves DEF InsertSample, Frame
  <2>3. \A k \in Node : samples'[k] \subseteq Claimed(k)
    <3> TAKE k \in Node
    <3>1. samples'[k] \subseteq samples[k] \cup {u \in {proc[p].t} : proc[p].node = k}
      BY <1>12, <1>A DEF InsertSample, TypeOK
    <3> QED BY <3>1, <2>1, <1>A DEF Claimed
  <2>4. \A k \in rows' : Claimed(k)' \subseteq Claimed(k)
    <3> TAKE k \in rows'
    <3>1. k \in Node BY <2>1, <1>A DEF TypeOK
    <3>2. Claimed(k)' \subseteq samples'[k] \cup Claimed(k)
      BY <3>1, <2>2, <1>A, ClaimedMove
    <3> QED BY <3>1, <3>2, <2>3
  <2> QED BY <2>1, <2>4, SpacingShrinks
<1>13. ASSUME NEW p \in Admin, ForgetNode(p)
      PROVE  SpacingInv'
  <2>1. /\ proc[p].node \notin rows /\ rows' = rows /\ samples' = samples
        /\ \A k \in rows : lastPersist'[k] = lastPersist[k]
    BY <1>13, <1>A, <1>B DEF ForgetNode, FrameOK, TypeOK
  <2>2. Moves(p) /\ proc'[p].pc # "insert"
    BY <1>13, <1>A, GotoMoves DEF ForgetNode, Idle
  <2>3. \A k \in rows' : Claimed(k)' \subseteq Claimed(k)
    <3> TAKE k \in rows'
    <3>1. k \in Node BY <2>1, <1>A DEF TypeOK
    <3>2. Claimed(k)' \subseteq samples'[k] \cup Claimed(k)
      BY <3>1, <2>2, <1>A, ClaimedMove
    <3> QED BY <3>1, <3>2, <2>1 DEF Claimed
  <2> QED BY <2>1, <2>3, SpacingShrinks
<1>14. ASSUME NEW n \in Node, NEW m \in Meta, CreateNode(n, m)
      PROVE  SpacingInv'
  <2>1. /\ n \notin minted /\ rows' = rows \cup {n} /\ lastPersist' = lastPersist
        /\ samples' = samples /\ proc' = proc
    BY <1>14 DEF CreateNode
  <2>2. \A k \in Node : Claimed(k)' = Claimed(k) BY <2>1 DEF Claimed
  <2>3. Claimed(n) = {}
    <3>1. samples[n] = {} BY <2>1, <1>A DEF OwnerInv
    <3>2. \A g \in Goroutine : ~(proc[g].pc = "insert" /\ proc[g].node = n)
      BY <2>1, <1>B DEF FrameOK
    <3> QED BY <3>1, <3>2 DEF Claimed
  <2> QED BY <2>1, <2>2, <2>3, <1>A DEF SpacingInv, TypeOK
<1>15. ASSUME SweepPrune PROVE SpacingInv'
  <2>1. /\ rows' = rows /\ lastPersist' = lastPersist /\ proc' = proc
        /\ \A k \in Node : samples'[k] \subseteq samples[k]
    BY <1>15 DEF SweepPrune, Pruned
  <2>2. \A k \in rows' : Claimed(k)' \subseteq Claimed(k)
    BY <2>1, <1>A DEF Claimed, TypeOK
  <2> QED BY <2>1, <2>2, SpacingShrinks
<1>16. ASSUME Restart PROVE SpacingInv'
  <2>1. \A g \in Goroutine : proc'[g].pc = "idle" BY <1>16 DEF Restart, Idle
  <2>2. rows' = rows /\ samples' = samples BY <1>16 DEF Restart
  <2>3. ASSUME NEW n \in rows, NEW u \in Claimed(n)'
        PROVE  /\ u <= lastPersist'[n]
               /\ \A v \in Claimed(n)' : u < v => v - u >= PersistEvery
    <3>1. n \in Node BY <1>A DEF TypeOK
    <3>2. Claimed(n)' = samples[n] BY <2>1, <2>2 DEF Claimed
    <3>3. lastPersist'[n] = Max(samples[n])
      BY <3>1, <3>2, <2>3, <1>16 DEF Restart, NewestSample
    <3>4. samples[n] \in SUBSET Nat /\ now \in Nat /\ \A t \in samples[n] : t <= now
      BY <3>1, <1>A DEF TypeOK, ClockInv
    <3>5. u <= Max(samples[n]) BY <3>2, <3>4, <2>3, MaxNat
    <3>6. samples[n] \subseteq Claimed(n) BY DEF Claimed
    <3> QED BY <2>3, <3>2, <3>3, <3>5, <3>6 DEF SpacingInv
  <2> QED BY <2>2, <2>3 DEF SpacingInv
<1>17. ASSUME UNCHANGED <<rows, samples, lastPersist, proc>> PROVE SpacingInv'
  BY <1>17 DEF SpacingInv, Claimed
<1>18. ASSUME NEW n \in Node,
              RotateToken(n) \/ MoveBytes(n) \/ LowerCounter(n)
       PROVE  SpacingInv'
  BY <1>17, <1>18 DEF RotateToken, MoveBytes, LowerCounter
<1>19. ASSUME Tick \/ UNCHANGED vars PROVE SpacingInv'
  BY <1>17, <1>19 DEF Tick, vars
<1> QED
  BY <1>A, <1>1, <1>2, <1>3, <1>4, <1>5, <1>6, <1>7, <1>8, <1>9, <1>10, <1>11,
     <1>12, <1>13, <1>14, <1>15, <1>16, <1>18, <1>19
     DEF Next, ServeHeartbeat, ServeAdmin

\* No two stored samples of a node are closer than PersistEvery: not under any
\* interleaving of heartbeats, deletions and restarts, nor when inserts fail.
THEOREM SamplesSpaced == Spec => []SampleSpacing
<1>1. Init => BaseInv /\ SpacingInv
  BY BaseInit DEF Init, SpacingInv
<1>2. BaseInv /\ SpacingInv /\ [Next]_vars => (BaseInv /\ SpacingInv)'
  BY BaseStep, SpacingStep
<1>3. SpacingInv => SampleSpacing
  BY DEF SpacingInv, SampleSpacing, Claimed
<1> QED BY <1>1, <1>2, <1>3, PTL DEF Spec

-----------------------------------------------------------------------------
(* The ring *)

\* Every rank of a finite set of naturals is the rank of one of its elements.
LEMMA RankExists ==
  ASSUME NEW S \in SUBSET Nat, IsFiniteSet(S), NEW b \in Nat, \A y \in S : y <= b,
         NEW i \in 1..Cardinality(S)
  PROVE  \E t \in S : Cardinality({u \in S : u < t}) = i - 1
<1> DEFINE Below(t) == {u \in S : u < t}
           UpTo(t) == {u \in S : u <= t}
           B == {t \in S : Cardinality(UpTo(t)) >= i}
<1>1. \A t \in S : /\ IsFiniteSet(Below(t)) /\ Cardinality(Below(t)) \in Nat
                   /\ IsFiniteSet(UpTo(t)) /\ Cardinality(UpTo(t)) \in Nat
  <2> TAKE t \in S
  <2>1. Below(t) \in SUBSET S /\ UpTo(t) \in SUBSET S OBVIOUS
  <2>2. IsFiniteSet(Below(t)) /\ IsFiniteSet(UpTo(t)) BY <2>1, FS_Subset
  <2> QED BY <2>2, FS_CardinalityType
<1>2. \A t \in S : Cardinality(UpTo(t)) = Cardinality(Below(t)) + 1
  <2> TAKE t \in S
  <2>1. \A u \in S : u \in Nat /\ t \in Nat /\ (u <= t <=> u < t \/ u = t) OBVIOUS
  <2>2. UpTo(t) = Below(t) \cup {t} BY <2>1
  <2>3. t \notin Below(t) BY <2>1
  <2> QED BY <2>2, <2>3, <1>1, FS_AddElement
<1>3. Cardinality(S) \in Nat BY FS_CardinalityType
<1>4. S # {} BY <1>3, FS_EmptySet
<1>5. Max(S) \in S /\ UpTo(Max(S)) = S
  <2>1. Max(S) \in S /\ \A y \in S : y <= Max(S) BY <1>4, MaxNat
  <2> QED BY <2>1
<1>6. Max(S) \in B BY <1>3, <1>5
<1>7. PICK m \in B : \A y \in B : m <= y BY <1>6, MinNat
<1>8. ASSUME Cardinality(Below(m)) >= i PROVE FALSE
  <2>1. Below(m) \in SUBSET Nat /\ \A y \in Below(m) : y <= b OBVIOUS
  <2>1a. IsFiniteSet(Below(m)) /\ Cardinality(Below(m)) # 0 BY <1>1, <1>7, <1>8
  <2>1b. Below(m) # {} BY <2>1a, FS_EmptySet
  <2>2. PICK v \in Below(m) : \A y \in Below(m) : y <= v
    <3>1. Max(Below(m)) \in Below(m) /\ \A y \in Below(m) : y <= Max(Below(m))
      BY <2>1, <2>1b, MaxNat
    <3> QED BY <3>1
  <2>3. v \in S /\ v < m BY <2>2
  <2>4. UpTo(v) = Below(m)
    <3>1. \A u \in S : u <= v <=> u < m
      <4> TAKE u \in S
      <4>1. u \in Nat /\ v \in Nat /\ m \in Nat BY <2>3, <1>7
      <4>2. u < m => u <= v BY <2>2
      <4> QED BY <2>3, <4>1, <4>2
    <3> QED BY <3>1
  <2>5. v \in B BY <2>3, <2>4, <1>8
  <2> QED BY <2>3, <2>5, <1>7
<1>9. Cardinality(Below(m)) = i - 1 BY <1>1, <1>2, <1>3, <1>7, <1>8
<1> QED BY <1>7, <1>9

\* The ring that hydrateHistory rebuilds holds samples of the node, at most
\* HistoryCap of them and oldest first.
LEMMA HydrateSorted ==
  ASSUME NEW S \in SUBSET Nat, NEW b \in Nat, \A y \in S : y <= b
  PROVE  /\ Hydrate(S) \in Seq(S) /\ Len(Hydrate(S)) <= HistoryCap
         /\ \A i, j \in DOMAIN Hydrate(S) : i < j => Hydrate(S)[i] <= Hydrate(S)[j]
<1> DEFINE kept == {t \in S : Cardinality({u \in S : u > t}) < HistoryCap}
           Below(t) == {u \in kept : u < t}
           n == Cardinality(kept)
<1>1. IsFiniteSet(S) BY FS_BoundedSetOfNaturals
<1>2. kept \in SUBSET S /\ kept \in SUBSET Nat /\ IsFiniteSet(kept) /\ n \in Nat
  <2>1. kept \in SUBSET S /\ kept \in SUBSET Nat OBVIOUS
  <2> HIDE DEF kept
  <2> QED BY <1>1, <2>1, FS_Subset, FS_CardinalityType
<1>3. n <= HistoryCap
  <2>1. CASE kept = {}
    <3>1. n = 0 BY <2>1, FS_EmptySet
    <3> QED BY <3>1, OptionAssumption
  <2>2. CASE kept # {}
    <3>1. PICK m \in kept : \A y \in kept : m <= y BY <1>2, <2>2, MinNat
    <3> DEFINE Above == {u \in S : u > m}
    <3>2. Above \in SUBSET S /\ kept \ {m} \in SUBSET Above BY <1>2, <3>1
    <3>3. Cardinality(Above) < HistoryCap BY <3>1
    <3> HIDE DEF kept, Above
    <3>4. IsFiniteSet(Above) /\ Cardinality(Above) \in Nat
      BY <1>1, <3>2, FS_Subset, FS_CardinalityType
    <3>5. Cardinality(kept \ {m}) <= Cardinality(Above) BY <3>2, <3>4, FS_Subset
    <3>6. Cardinality(kept \ {m}) = n - 1 BY <1>2, <3>1, FS_RemoveElement
    <3> QED BY <1>2, <3>3, <3>4, <3>5, <3>6, OptionAssumption
  <2> QED BY <2>1, <2>2
<1> DEFINE At(i) == CHOOSE t \in kept : Cardinality({u \in kept : u < t}) = i - 1
<1>4. Hydrate(S) = [i \in 1..n |-> At(i)] BY DEF Hydrate
<1>5. \A y \in kept : y <= b OBVIOUS
<1> HIDE DEF kept
<1>6. \A i \in 1..n : At(i) \in kept /\ Cardinality(Below(At(i))) = i - 1
  <2> TAKE i \in 1..n
  <2>1. \E t \in kept : Cardinality({u \in kept : u < t}) = i - 1
    BY <1>2, <1>5, RankExists
  <2> QED BY <2>1
<1> HIDE DEF At
<1>7. \A i, j \in 1..n : i < j => At(i) <= At(j)
  <2> SUFFICES ASSUME NEW i \in 1..n, NEW j \in 1..n, i < j, ~(At(i) <= At(j))
               PROVE  FALSE
    OBVIOUS
  <2>1. At(i) \in Nat /\ At(j) \in Nat BY <1>2, <1>6
  <2>2. Below(At(j)) \in SUBSET Below(At(i))
    <3>1. \A u \in kept : u \in Nat /\ (u < At(j) => u < At(i)) BY <1>2, <2>1
    <3> QED BY <3>1
  <2>3. Below(At(i)) \in SUBSET kept OBVIOUS
  <2>4. IsFiniteSet(Below(At(i))) BY <1>2, <2>3, FS_Subset
  <2>5. Cardinality(Below(At(j))) <= Cardinality(Below(At(i)))
    BY <2>2, <2>4, FS_Subset
  <2> QED BY <1>2, <1>6, <2>5
<1>8. Hydrate(S) \in Seq(S) /\ Len(Hydrate(S)) = n
  <2>1. \A i \in 1..n : At(i) \in S BY <1>2, <1>6
  <2>2. Hydrate(S) \in [1..n -> S] BY <1>4, <2>1
  <2> HIDE DEF n
  <2> QED BY <1>2, <2>2
<1> QED BY <1>3, <1>4, <1>7, <1>8

\* Nothing is hydrated where there are no rows.
LEMMA HydrateEmpty == Hydrate({}) = <<>>
<1>1. Cardinality({}) = 0 BY FS_EmptySet
<1>2. {t \in {} : Cardinality({u \in {} : u > t}) < HistoryCap} = {} OBVIOUS
<1> QED BY <1>1, <1>2 DEF Hydrate

\* pushHistoryLocked keeps a ring within its capacity, and ordered when the new
\* sample is the newest.
LEMMA PushSorted ==
  ASSUME NEW h \in Seq(Nat), Len(h) <= HistoryCap, NEW t \in Nat
  PROVE  LET r == PushHistory(h, t)
         IN  /\ r \in Seq(Nat) /\ Len(r) <= HistoryCap
             /\ \A i \in DOMAIN r : r[i] = t \/ \E j \in DOMAIN h : r[i] = h[j]
             /\ /\ \A i \in DOMAIN h : h[i] <= t
                /\ \A i, j \in DOMAIN h : i < j => h[i] <= h[j]
                => \A i, j \in DOMAIN r : i < j => r[i] <= r[j]
<1> DEFINE k == IF Len(h) >= HistoryCap THEN Len(h) - HistoryCap + 1 ELSE 0
           s == IF Len(h) >= HistoryCap THEN SubSeq(h, Len(h) - HistoryCap + 2, Len(h)) ELSE h
<1>1. /\ s \in Seq(Nat) /\ k \in Nat /\ Len(s) = Len(h) - k /\ Len(s) < HistoryCap
      /\ \A i \in 1..Len(s) : s[i] = h[i + k]
  <2>1. CASE Len(h) >= HistoryCap
    <3>1. Len(h) = HistoryCap /\ HistoryCap \in Nat \ {0} BY <2>1, OptionAssumption
    <3>2. \A i \in 2..Len(h) : h[i] \in Nat OBVIOUS
    <3>3. /\ SubSeq(h, 2, Len(h)) \in Seq(Nat)
          /\ Len(SubSeq(h, 2, Len(h))) = IF 2 <= Len(h) THEN Len(h) - 2 + 1 ELSE 0
          /\ \A i \in 1..(Len(h) - 2 + 1) : SubSeq(h, 2, Len(h))[i] = h[2 + i - 1]
      BY <3>1, <3>2, SubSeqProperties
    <3>4. s = SubSeq(h, 2, Len(h)) /\ k = 1 BY <2>1, <3>1
    <3> QED BY <3>1, <3>3, <3>4
  <2>2. CASE ~(Len(h) >= HistoryCap) BY <2>2, OptionAssumption
  <2> QED BY <2>1, <2>2
<1>2. PushHistory(h, t) = Append(s, t) BY DEF PushHistory
<1> HIDE DEF s, k
<1> DEFINE r == Append(s, t)
<1>3. /\ r \in Seq(Nat) /\ Len(r) = Len(s) + 1 /\ DOMAIN r = 1..(Len(s) + 1)
      /\ r[Len(s) + 1] = t /\ \A i \in 1..Len(s) : r[i] = h[i + k]
  BY <1>1
<1> HIDE DEF r
<1>4. \A i \in 1..Len(s) : i + k \in DOMAIN h BY <1>1
<1>5. \A i \in DOMAIN r : i = Len(s) + 1 \/ i \in 1..Len(s) BY <1>1, <1>3
<1>6. ASSUME \A i \in DOMAIN h : h[i] <= t,
             \A i, j \in DOMAIN h : i < j => h[i] <= h[j],
             NEW i \in DOMAIN r, NEW j \in DOMAIN r, i < j
      PROVE  r[i] <= r[j]
  <2>1. i \in 1..Len(s) BY <1>1, <1>3, <1>6
  <2>2. CASE j = Len(s) + 1 BY <1>3, <1>4, <1>6, <2>1, <2>2
  <2>3. CASE j \in 1..Len(s)
    <3>1. i + k < j + k BY <1>1, <1>6, <2>1, <2>3
    <3> QED BY <1>3, <1>4, <1>6, <2>1, <2>3, <3>1
  <2> QED BY <1>5, <2>2, <2>3
<1>7. Len(r) <= HistoryCap BY <1>1, <1>3, OptionAssumption
<1>8. \A i \in DOMAIN r : r[i] = t \/ \E j \in DOMAIN h : r[i] = h[j]
  BY <1>3, <1>4, <1>5
<1> QED BY <1>2, <1>3, <1>6, <1>7, <1>8 DEF r

\* With an agent that waits for its answer a node has one heartbeat at a time.
SerialInv ==
  \A p, q \in Poster : proc[p].node # NoNode /\ proc[p].node = proc[q].node => p = q

\* The ring is ordered, and older than the heartbeat that is to be pushed next.
OrderInv ==
  \A n \in Node :
    /\ \A i, j \in DOMAIN history[n] : i < j => history[n][i] <= history[n][j]
    /\ \A p \in Poster : proc[p].pc = "lock" /\ proc[p].node = n =>
         \A i \in DOMAIN history[n] : history[n][i] <= proc[p].t

RingInv ==
  /\ history \in [Node -> Seq(Nat)]
  /\ \A n \in Node : /\ Len(history[n]) <= HistoryCap
                     /\ \A i \in DOMAIN history[n] : history[n][i] <= now
  /\ ~AgentTimesOut => SerialInv /\ OrderInv

\* The invariant survives the move of a goroutine that leaves the rings alone and
\* neither starts to serve a heartbeat nor stamps one.
LEMMA RingQuietMove ==
  ASSUME BaseInv, RingInv, history' = history, now' = now,
         NEW g \in Goroutine, Moves(g),
         \/ g \in Admin
         \/ proc'[g].node \in {NoNode, proc[g].node} /\ proc'[g].pc # "lock"
  PROVE  RingInv'
<1>1. Poster \subseteq Goroutine /\ \A p \in Poster : p \notin Admin
  BY GoroutineAssumption DEF Goroutine
<1>2. ASSUME SerialInv PROVE SerialInv'
  BY <1>1, <1>2 DEF SerialInv, Moves
<1>3. ASSUME OrderInv PROVE OrderInv'
  BY <1>1, <1>3 DEF OrderInv, Moves
<1> QED BY <1>2, <1>3 DEF RingInv

\* Every step of the hub keeps the rings in bounds and, with such an agent, in
\* order.
LEMMA RingStep == BaseInv /\ RingInv /\ [Next]_vars => RingInv'
<1> SUFFICES ASSUME BaseInv, RingInv, [Next]_vars PROVE RingInv'
  OBVIOUS
<1>A. /\ TypeOK /\ ClockInv /\ OwnerInv /\ FrameInv
      /\ Poster \subseteq Goroutine /\ Admin \subseteq Goroutine
      /\ now \in Nat /\ history \in [Node -> Seq(Nat)]
  BY DEF BaseInv, TypeOK, RingInv, Goroutine
<1>B. \A g \in Goroutine : proc[g] \in Frame /\ FrameOK(proc[g])
  BY <1>A DEF TypeOK, FrameInv
<1>C. \A n \in Node : /\ history[n] \in Seq(Nat) /\ Len(history[n]) <= HistoryCap
                      /\ \A i \in DOMAIN history[n] : history[n][i] \in Nat /\ history[n][i] <= now
  BY <1>A DEF RingInv
<1> USE DEF tables, memory
<1>1. ASSUME NEW p \in Poster, NEW n \in Node, NEW g \in 0..MaxRotate, Post(p, n, g)
      PROVE  RingInv'
  <2> DEFINE next == [Idle EXCEPT !.pc = "auth", !.node = n, !.gen = g, !.hb = host[n]]
  <2>1. next.pc = "auth" /\ next.node = n BY DEF Idle
  <2> HIDE DEF next
  <2>2. Goto(p, next) BY <1>1 DEF Post, next
  <2>3. Moves(p) /\ proc'[p] = next BY <2>2, <1>A, GotoMoves
  <2>4. history' = history /\ now' = now BY <1>1 DEF Post
  <2>5. ASSUME ~AgentTimesOut, SerialInv PROVE SerialInv'
    <3>1. \A q \in Poster : proc[q].node # n BY <1>1, <2>5 DEF Post
    <3> QED BY <1>A, <2>1, <2>3, <2>5, <3>1 DEF SerialInv, Moves
  <2>6. ASSUME OrderInv PROVE OrderInv'
    BY <1>A, <2>1, <2>3, <2>4, <2>6 DEF OrderInv, Moves
  <2> QED BY <2>4, <2>5, <2>6 DEF RingInv
<1>2. ASSUME NEW p \in Poster, NodeByToken(p) PROVE RingInv'
  <2> DEFINE next == [proc[p] EXCEPT !.pc = "stamp", !.gen = 0,
                                !.period = meta[proc[p].node].period]
  <2>1. next.pc = "stamp" /\ next.node = proc[p].node BY <1>A, <1>B DEF Frame
  <2> HIDE DEF next
  <2>2. Goto(p, next) BY <1>2 DEF NodeByToken, next
  <2>3. Moves(p) /\ proc'[p] = next BY <2>2, <1>A, GotoMoves
  <2> QED BY <1>2, <1>A, <2>1, <2>3, RingQuietMove DEF NodeByToken
<1>3. ASSUME NEW p \in Poster, Reject(p) PROVE RingInv'
  <2>1. Moves(p) /\ proc'[p] = Idle BY <1>3, <1>A, GotoMoves DEF Reject
  <2> QED BY <1>3, <1>A, <2>1, RingQuietMove DEF Reject, Idle
<1>4. ASSUME NEW p \in Poster, Stamp(p) PROVE RingInv'
  <2> DEFINE next == [proc[p] EXCEPT !.pc = "lock", !.t = now]
  <2>1. next.pc = "lock" /\ next.t = now /\ next.node = proc[p].node
    BY <1>A, <1>B DEF Frame
  <2> HIDE DEF next
  <2>2. Goto(p, next) BY <1>4 DEF Stamp, next
  <2>3. Moves(p) /\ proc'[p] = next BY <2>2, <1>A, GotoMoves
  <2>4. history' = history /\ now' = now BY <1>4 DEF Stamp
  <2>5. ASSUME SerialInv PROVE SerialInv'
    BY <1>A, <2>1, <2>3, <2>5 DEF SerialInv, Moves
  <2>6. ASSUME OrderInv PROVE OrderInv'
    BY <1>A, <1>C, <2>1, <2>3, <2>4, <2>6 DEF OrderInv, Moves
  <2> QED BY <2>4, <2>5, <2>6 DEF RingInv
\* What AfterPersist makes of a frame.
<1>5. ASSUME NEW p \in Poster
      PROVE  /\ AfterPersist(proc[p]).pc # "lock"
             /\ AfterPersist(proc[p]).node \in {NoNode, proc[p].node}
  BY <1>A, <1>B DEF AfterPersist, Frame, Idle
<1>6. ASSUME NEW p \in Poster, SaveHeartbeat(p) PROVE RingInv'
  <2>1. PICK n \in Node, t \in Nat :
          proc[p].node = n /\ proc[p].t = t /\ t <= now /\ proc[p].pc = "lock"
    BY <1>6, <1>A, <1>B DEF SaveHeartbeat, FrameOK, Frame, TypeOK
  <2> DEFINE next == [proc[p] EXCEPT !.pc = "insert"]
  <2>2. next.pc # "lock" /\ next.node = n BY <1>A, <1>B, <2>1 DEF Frame
  <2> HIDE DEF next
  <2>3. Goto(p, next) \/ Goto(p, AfterPersist(proc[p]))
    BY <1>6 DEF SaveHeartbeat, next
  <2>4. Moves(p) /\ proc'[p].pc # "lock" /\ proc'[p].node \in {NoNode, n}
    BY <2>1, <2>2, <2>3, <1>5, <1>A, GotoMoves
  <2> DEFINE r == PushHistory(history[n], t)
  <2>5. /\ r \in Seq(Nat) /\ Len(r) <= HistoryCap
        /\ \A i \in DOMAIN r : r[i] = t \/ \E j \in DOMAIN history[n] : r[i] = history[n][j]
    BY <1>C, PushSorted
  <2>6. /\ \A i \in DOMAIN history[n] : history[n][i] <= t
        /\ \A i, j \in DOMAIN history[n] : i < j => history[n][i] <= history[n][j]
        => \A i, j \in DOMAIN r : i < j => r[i] <= r[j]
    BY <1>C, PushSorted
  <2>7. history' = [history EXCEPT ![n] = r] /\ now' = now
    BY <1>6, <1>A, <2>1 DEF SaveHeartbeat
  <2> HIDE DEF r
  <2>8. history'[n] = r /\ \A k \in Node \ {n} : history'[k] = history[k]
    BY <1>A, <2>7
  <2>9. history' \in [Node -> Seq(Nat)] BY <1>A, <2>5, <2>7
  <2>10. \A i \in DOMAIN r : r[i] <= now BY <1>C, <2>1, <2>5
  <2>11. ASSUME SerialInv PROVE SerialInv'
    BY <1>A, <2>1, <2>4, <2>11 DEF SerialInv, Moves
  <2>12. ASSUME SerialInv, OrderInv PROVE OrderInv'
    <3>1. \A q \in Poster : proc'[q].pc = "lock" => proc'[q] = proc[q] /\ proc[q].node # n
      <4> TAKE q \in Poster
      <4>1. q # p => proc'[q] = proc[q] BY <1>A, <2>4 DEF Moves
      <4>2. proc[q].node = n => q = p
        BY <2>1, <2>12, NodeAssumption DEF SerialInv
      <4> QED BY <2>4, <4>1, <4>2
    <3>2. \A i, j \in DOMAIN r : i < j => r[i] <= r[j]
      BY <2>1, <2>6, <2>12 DEF OrderInv
    <3> QED BY <2>8, <2>12, <3>1, <3>2 DEF OrderInv
  <2>13. \A k \in Node : /\ Len(history'[k]) <= HistoryCap
                         /\ \A i \in DOMAIN history'[k] : history'[k][i] <= now'
    BY <1>C, <2>5, <2>7, <2>8, <2>10
  <2> QED BY <2>9, <2>11, <2>12, <2>13 DEF RingInv
<1>7. ASSUME NEW p \in Poster, InsertSample(p) PROVE RingInv'
  <2> DEFINE next == [proc[p] EXCEPT !.pc = "prune"]
  <2>1. next.pc = "prune" /\ next.node = proc[p].node BY <1>A, <1>B DEF Frame
  <2> HIDE DEF next
  <2>2. Goto(p, next) BY <1>7 DEF InsertSample, next
  <2>3. Moves(p) /\ proc'[p] = next BY <2>2, <1>A, GotoMoves
  <2> QED BY <1>7, <1>A, <2>1, <2>3, RingQuietMove DEF InsertSample
<1>8. ASSUME NEW p \in Poster, PruneSamples(p) PROVE RingInv'
  <2>1. Moves(p) /\ proc'[p] = AfterPersist(proc[p])
    BY <1>8, <1>A, GotoMoves DEF PruneSamples
  <2> QED BY <1>5, <1>8, <1>A, <2>1, RingQuietMove DEF PruneSamples
<1>9. ASSUME NEW p \in Poster, RollTraffic(p) PROVE RingInv'
  <2>1. PICK st \in {traffic[proc[p].node], NoTraffic} :
          Goto(p, IF st.resetAt = 0 \/ now >= st.resetAt
                  THEN [proc[p] EXCEPT
                          !.pc = "write",
                          !.st = [anchor |-> proc[p].hb,
                                  resetAt |-> AdvanceReset(st.resetAt, proc[p].period, now)]]
                  ELSE Idle)
    BY <1>9 DEF RollTraffic
  <2> DEFINE next == [proc[p] EXCEPT
                        !.pc = "write",
                        !.st = [anchor |-> proc[p].hb,
                                resetAt |-> AdvanceReset(st.resetAt, proc[p].period, now)]]
  <2>2. next.pc = "write" /\ next.node = proc[p].node BY <1>A, <1>B DEF Frame
  <2> HIDE DEF next
  <2>3. Goto(p, next) \/ Goto(p, Idle) BY <2>1 DEF next
  <2>4. Moves(p) /\ (proc'[p] = next \/ proc'[p] = Idle) BY <2>3, <1>A, GotoMoves
  <2> QED BY <1>9, <1>A, <2>2, <2>4, RingQuietMove DEF RollTraffic, Idle
<1>10. ASSUME NEW g \in Goroutine, WriteTraffic(g) PROVE RingInv'
  <2>1. Moves(g) /\ proc'[g] = Idle BY <1>10, GotoMoves DEF WriteTraffic
  <2> QED BY <1>10, <2>1, RingQuietMove DEF WriteTraffic, Idle
<1>11. ASSUME NEW a \in Admin, NEW n \in Node,
              DeleteNode(a, n) \/ \E m \in Meta : UpdateNode(a, n, m)
       PROVE  RingInv'
  <2>1. PICK f : Goto(a, f) BY <1>11 DEF DeleteNode, UpdateNode
  <2>2. Moves(a) BY <2>1, <1>A, GotoMoves
  <2> QED BY <1>11, <1>A, <2>2, RingQuietMove DEF DeleteNode, UpdateNode
<1>12. ASSUME NEW a \in Admin, SetTrafficBaseline(a) PROVE RingInv'
  <2>1. PICK f : Goto(a, f) BY <1>12 DEF SetTrafficBaseline
  <2>2. Moves(a) BY <2>1, <1>A, GotoMoves
  <2> QED BY <1>12, <1>A, <2>2, RingQuietMove DEF SetTrafficBaseline
<1>13. ASSUME NEW a \in Admin, ForgetNode(a) PROVE RingInv'
  <2>1. Moves(a) /\ proc'[a] = Idle BY <1>13, <1>A, GotoMoves DEF ForgetNode
  <2>2. history' = [history EXCEPT ![proc[a].node] = <<>>] /\ now' = now
    BY <1>13 DEF ForgetNode
  <2>3. history' \in [Node -> Seq(Nat)]
    <3>1. <<>> \in Seq(Nat) OBVIOUS
    <3> QED BY <1>A, <2>2, <3>1
  <2>4. \A k \in Node : history'[k] = history[k] \/ history'[k] = <<>>
    BY <1>A, <2>2
  <2>5. \A p \in Poster : proc'[p] = proc[p]
    BY <1>A, <2>1, GoroutineAssumption DEF Moves
  <2>6. ASSUME SerialInv PROVE SerialInv' BY <2>5, <2>6 DEF SerialInv
  <2>7. ASSUME OrderInv PROVE OrderInv' BY <2>4, <2>5, <2>7 DEF OrderInv
  <2>8. \A k \in Node : /\ Len(history'[k]) <= HistoryCap
                        /\ \A i \in DOMAIN history'[k] : history'[k][i] <= now'
    BY <1>C, <2>2, <2>4, OptionAssumption
  <2> QED BY <2>3, <2>6, <2>7, <2>8 DEF RingInv
<1>14. ASSUME Restart PROVE RingInv'
  <2>1. \A n \in Node : samples[n] \in SUBSET Nat /\ \A t \in samples[n] : t <= now
    BY <1>A DEF TypeOK, ClockInv
  <2>2. ASSUME NEW n \in Node
        PROVE  LET r == Hydrate(samples[n])
               IN  /\ r \in Seq(samples[n]) /\ r \in Seq(Nat) /\ Len(r) <= HistoryCap
                   /\ \A i \in DOMAIN r : r[i] <= now
                   /\ \A i, j \in DOMAIN r : i < j => r[i] <= r[j]
    <3> DEFINE r == Hydrate(samples[n])
    <3>1. /\ r \in Seq(samples[n]) /\ Len(r) <= HistoryCap
          /\ \A i, j \in DOMAIN r : i < j => r[i] <= r[j]
      BY <2>1, <1>A, HydrateSorted
    <3> HIDE DEF r
    <3>2. r \in Seq(Nat) BY <2>1, <3>1, SeqMonotonic
    <3>3. \A i \in DOMAIN r : r[i] \in samples[n] BY <3>1
    <3> QED BY <2>1, <3>1, <3>2, <3>3 DEF r
  <2>3. /\ history' = [n \in Node |-> Hydrate(samples[n])] /\ now' = now
        /\ \A p \in Poster : proc'[p] = Idle
    BY <1>14, <1>A DEF Restart
  <2>4. \A n \in Node : history'[n] = Hydrate(samples[n]) BY <2>3
  <2>5. history' \in [Node -> Seq(Nat)] BY <2>2, <2>3
  <2>6. SerialInv' BY <2>3 DEF SerialInv, Idle
  <2>7. OrderInv' BY <2>2, <2>3, <2>4 DEF OrderInv, Idle
  <2>8. \A k \in Node : /\ Len(history'[k]) <= HistoryCap
                        /\ \A i \in DOMAIN history'[k] : history'[k][i] <= now'
    BY <2>2, <2>3, <2>4
  <2> QED BY <2>5, <2>6, <2>7, <2>8 DEF RingInv
<1>15. ASSUME history' = history, proc' = proc, now' \in Nat, now <= now'
       PROVE  RingInv'
  <2>1. (SerialInv => SerialInv') /\ (OrderInv => OrderInv')
    BY <1>15 DEF SerialInv, OrderInv
  <2>2. \A n \in Node : \A i \in DOMAIN history[n] : history[n][i] <= now'
    BY <1>A, <1>C, <1>15
  <2> QED BY <1>15, <2>1, <2>2 DEF RingInv
<1>16. ASSUME NEW n \in Node,
              \/ RotateToken(n) \/ MoveBytes(n) \/ LowerCounter(n)
              \/ \E m \in Meta : CreateNode(n, m)
       PROVE  RingInv'
  BY <1>15, <1>16, <1>A DEF RotateToken, MoveBytes, LowerCounter, CreateNode
<1>17. ASSUME SweepPrune \/ Tick \/ UNCHANGED vars PROVE RingInv'
  BY <1>15, <1>17, <1>A DEF SweepPrune, Tick, vars
<1> QED
  <2>1. CASE \E p \in Poster : ServeHeartbeat(p)
    BY <2>1, <1>A, <1>1, <1>2, <1>3, <1>4, <1>6, <1>7, <1>8, <1>9, <1>10
       DEF ServeHeartbeat
  <2>2. CASE \E a \in Admin : ServeAdmin(a)
    BY <2>2, <1>A, <1>10, <1>11, <1>12, <1>13 DEF ServeAdmin
  <2> QED BY <2>1, <2>2, <1>14, <1>16, <1>17 DEF Next

\* The ring is empty at first.
LEMMA RingInit == Init => RingInv
<1> SUFFICES ASSUME Init PROVE RingInv
  OBVIOUS
<1>1. \A p \in Poster : proc[p] = Idle BY DEF Init, Goroutine
<1>2. history = [n \in Node |-> <<>>] BY DEF Init
<1>3. history \in [Node -> Seq(Nat)] /\ \A n \in Node : history[n] = <<>>
  <2>1. <<>> \in Seq(Nat) OBVIOUS
  <2> QED BY <1>2, <2>1
<1>4. SerialInv /\ OrderInv BY <1>1, <1>3 DEF SerialInv, OrderInv, Idle
<1>5. Len(<<>>) = 0 /\ DOMAIN <<>> = {} OBVIOUS
<1> QED BY <1>3, <1>4, <1>5, OptionAssumption DEF RingInv

\* The ring never outgrows its capacity and, when agents wait for their answers,
\* never holds two samples in the wrong order: whatever is pushed, forgotten,
\* pruned from the table or hydrated from it.
THEOREM RingsOrdered == ASSUME ~AgentTimesOut PROVE Spec => []RingOK
<1>1. Init => BaseInv /\ RingInv BY BaseInit, RingInit
<1>2. BaseInv /\ RingInv /\ [Next]_vars => (BaseInv /\ RingInv)'
  BY BaseStep, RingStep
<1>3. RingInv => RingOK BY DEF RingInv, RingOK, OrderInv
<1> QED BY <1>1, <1>2, <1>3, PTL DEF Spec

\* Its capacity does not depend on the agents.
THEOREM RingsBounded == Spec => [](\A n \in Node : Len(history[n]) <= HistoryCap)
<1>1. Init => BaseInv /\ RingInv BY BaseInit, RingInit
<1>2. BaseInv /\ RingInv /\ [Next]_vars => (BaseInv /\ RingInv)'
  BY BaseStep, RingStep
<1>3. RingInv => \A n \in Node : Len(history[n]) <= HistoryCap BY DEF RingInv
<1> QED BY <1>1, <1>2, <1>3, PTL DEF Spec

=============================================================================
