----------------------------- MODULE AgentProofs ----------------------------
(***************************************************************************)
(* Proofs about the report loop, for every period, every length of the     *)
(* warm-up and every threshold of fillNet, and about its rates, for any    *)
(* number of interfaces and any counters.                                  *)
(***************************************************************************)
EXTENDS Agent, FiniteSetTheorems, TLAPS

-----------------------------------------------------------------------------
(* The inductive invariant *)

\* The types of what the timing depends on.
TimeTyped ==
  /\ pc \in {"start", "warm", "report", "send", "select", "stopped"}
  /\ left \in 0..Interval
  /\ tick \in 0..LateAge \cup {NoTick}
  /\ age \in 0..LateAge
  /\ since \in 0..Warm \cup {Never}
  /\ rated \in BOOLEAN /\ late \in BOOLEAN

\* The age of a tick that is not old yet tells when the next one comes.
TickInv ==
  /\ tick \in 0..(LateAge - 1) => tick + left = Interval
  /\ pc = "report" /\ age < LateAge => tick = NoTick /\ age + left = Interval
  /\ pc \in {"start", "warm"} => tick = NoTick /\ age = 0 /\ left = Interval

\* After a sample in time, no tick comes before the window is long enough.
WindowInv ==
  since \in 0..Short /\ ~late /\ pc \notin {"start", "warm"} =>
    /\ pc # "report"
    /\ pc # "stopped" => tick = NoTick /\ since + left > Short

TimingInv == TimeTyped /\ TickInv /\ WindowInv

LEMMA TimingInit == Init => TimingInv
<1> SUFFICES ASSUME Init PROVE TimingInv
  OBVIOUS
<1> USE TimeAssumption, ValueAssumption
<1>1. /\ pc = "start" /\ left = Interval /\ tick = NoTick /\ age = 0
      /\ since = Never /\ rated = FALSE /\ late = FALSE
  BY DEF Init
<1>2. TimeTyped
  <2>1. rated \in BOOLEAN /\ late \in BOOLEAN BY <1>1, Zenon
  <2> QED BY <2>1, <1>1 DEF TimeTyped, LateAge
<1>3. NoTick \notin 0..(LateAge - 1) BY DEF LateAge
<1>4. TickInv /\ WindowInv BY <1>1, <1>3 DEF TickInv, WindowInv
<1> QED BY <1>2, <1>4 DEF TimingInv

LEMMA TimingStep == TimingInv /\ [Next]_vars => TimingInv'
<1> SUFFICES ASSUME TimingInv, [Next]_vars PROVE TimingInv'
  OBVIOUS
<1> USE TimeAssumption, ValueAssumption
<1>T. TimeTyped /\ TickInv /\ WindowInv BY DEF TimingInv
<1>1. CASE Pass
  <2>1. left' = IF pc \in {"start", "warm"} THEN left ELSE left - 1
    BY <1>1 DEF Pass
  <2>2. /\ left \in 1..Interval
        /\ tick' = Older(tick, LateAge) /\ since' = Older(since, Warm)
        /\ age' = IF pc = "report" THEN Older(age, LateAge) ELSE age
        /\ pc' = pc /\ rated' = rated /\ late' = late
    BY <1>1, <1>T DEF Pass, TimeTyped
  <2>3. TimeTyped' BY <2>1, <2>2, <1>T DEF TimeTyped, Older, LateAge
  <2>4. TickInv' BY <2>1, <2>2, <1>T DEF TimeTyped, TickInv, Older, LateAge
  <2>5. WindowInv'
    <3> SUFFICES ASSUME since' \in 0..Short, ~late, pc \notin {"start", "warm"}
                 PROVE  /\ pc # "report"
                        /\ pc # "stopped" => tick' = NoTick /\ since' + left' > Short
      BY <2>2 DEF WindowInv
    <3>1. since \in 0..Short /\ since' = since + 1
      BY <2>2, <1>T DEF TimeTyped, Older
    <3> QED BY <3>1, <2>1, <2>2, <1>T DEF WindowInv, TimeTyped, Older
  <2> QED BY <2>3, <2>4, <2>5 DEF TimingInv
<1>2. CASE Fire
  BY <1>2, <1>T DEF Fire, host, collector, TimingInv, TimeTyped, TickInv, WindowInv, LateAge
<1>3. ASSUME NEW i \in Iface, Transfer(i) \/ Replug(i) PROVE TimingInv'
  BY <1>3, <1>T
     DEF Transfer, Replug, clock, TimingInv, TimeTyped, TickInv, WindowInv
<1>4. CASE Collect
  <2>1. CASE Sample
    <3>1. /\ since' = 0 /\ late' = (age >= LateAge) /\ rated' \in BOOLEAN
          /\ UNCHANGED <<left, tick, age>>
          /\ pc \in {"start", "report"}
          /\ pc' = IF pc = "start" THEN "warm" ELSE "send"
      BY <1>4, <2>1 DEF Collect, Sample, clock
    <3>2. TimeTyped' BY <3>1, <1>T DEF TimeTyped
    <3>3. TickInv' BY <3>1, <1>T DEF TickInv
    <3>4. ASSUME pc = "report", ~late' PROVE tick = NoTick /\ left > Short
      <4>1. ~(age >= LateAge) BY <3>1, <3>4, Zenon
      <4>2. age < LateAge /\ tick = NoTick /\ age + left = Interval
        BY <4>1, <3>4, <1>T DEF TimeTyped, TickInv, LateAge
      <4> QED BY <4>2, <1>T DEF TimeTyped, LateAge
    <3>5. WindowInv' BY <3>1, <3>4, <1>T DEF WindowInv, TimeTyped
    <3> QED BY <3>2, <3>3, <3>5 DEF TimingInv
  <2>2. CASE NoSample
    <3>1. /\ UNCHANGED <<left, tick, age, since, late>> /\ rated' = FALSE
          /\ pc \in {"start", "report"}
          /\ pc' = IF pc = "start" THEN "warm" ELSE "send"
      BY <1>4, <2>2 DEF Collect, NoSample, clock
    <3> QED BY <3>1, <1>T DEF TimingInv, TimeTyped, TickInv, WindowInv
  <2> QED BY <1>4, <2>1, <2>2 DEF Collect
<1>5. CASE Start
  BY <1>5, <1>T DEF Start, host, collector, TimingInv, TimeTyped, TickInv, WindowInv, LateAge
<1>6. CASE Sent
  BY <1>6, <1>T DEF Sent, clock, host, collector, TimingInv, TimeTyped, TickInv, WindowInv
<1>7. CASE Receive
  BY <1>7, <1>T DEF Receive, host, collector, TimingInv, TimeTyped, TickInv, WindowInv, LateAge
<1>8. CASE Signal
  BY <1>8, <1>T DEF Signal, clock, collector, TimingInv, TimeTyped, TickInv, WindowInv
<1>9. CASE Stop
  BY <1>9, <1>T DEF Stop, clock, host, collector, TimingInv, TimeTyped, TickInv, WindowInv
<1>10. CASE UNCHANGED vars
  BY <1>10, <1>T DEF vars, clock, collector, TimingInv, TimeTyped, TickInv, WindowInv
<1> QED
  BY <1>1, <1>2, <1>3, <1>4, <1>5, <1>6, <1>7, <1>8, <1>9, <1>10 DEF Next, Loop

-----------------------------------------------------------------------------
\* fillNet: as long as the loop keeps up with its ticker, every report has a
\* rate, the first one included, for every period and threshold.
THEOREM RatesKeepUp == Spec => RatedUnlessLate
<1>1. Spec => []TimingInv BY TimingInit, TimingStep, PTL DEF Spec
<1>2. TimingInv /\ [Next]_vars
        => [pc = "report" /\ pc' = "send" /\ since' = 0 /\ since # Never
              => rated' \/ late]_vars
  <2> SUFFICES ASSUME TimingInv, Next, pc = "report", pc' = "send",
                      since' = 0, since # Never, ~late
               PROVE  rated'
    OBVIOUS
  <2>1. Collect
    BY DEF Next, Loop, Pass, Fire, Transfer, Replug, Start, Sent, Receive, Signal, Stop
  <2>2. since \notin 0..Short BY DEF TimingInv, WindowInv
  <2>3. ~NoSample BY <2>2, TimeAssumption DEF NoSample
  <2> QED BY <2>1, <2>2, <2>3 DEF Collect, Sample
<1> QED BY <1>1, <1>2, PTL DEF Spec, RatedUnlessLate

-----------------------------------------------------------------------------
(* The bytes of a window *)

Counter == 0..MaxBytes \cup {Gone}

HostTyped ==
  /\ counter \in [Iface -> Counter] /\ prevNet \in [Iface -> Counter]
  /\ rate \in Nat /\ moved \in Nat
  /\ steady \in BOOLEAN /\ sig \in BOOLEAN

\* The window's rate never counts a byte that did not move.
NoneInvented == Cardinality(GrownBytes) <= moved

\* In a window in which no interface came, went or restarted, it misses none.
NoneMissed ==
  since # Never /\ steady =>
    /\ Cardinality(GrownBytes) = moved
    /\ \A i \in Iface : IF i \in Present THEN prevNet[i] # Gone /\ prevNet[i] <= counter[i]
                                            ELSE prevNet[i] = Gone

WindowBytes == HostTyped /\ NoneInvented /\ NoneMissed

LEMMA BytesFinite ==
  ASSUME NEW S \in SUBSET (Iface \X (1..MaxBytes))
  PROVE  IsFiniteSet(S) /\ Cardinality(S) \in Nat
<1>1. IsFiniteSet(1..MaxBytes) BY FS_Interval, BoundAssumption
<1>2. IsFiniteSet(Iface \X (1..MaxBytes)) BY <1>1, FS_Product, IfaceAssumption
<1> QED BY <1>2, FS_Subset, FS_CardinalityType

LEMMA GrownTyped ==
  ASSUME counter \in [Iface -> Counter], prevNet \in [Iface -> Counter],
         NEW i \in Iface
  PROVE  Grown(i) \in 0..MaxBytes
BY BoundAssumption, ValueAssumption DEF Grown, Present, Counter

\* A sample starts a window in which nothing has grown.
LEMMA NothingGrown ==
  ASSUME \A i \in Iface : Grown(i) = 0
  PROVE  Cardinality(GrownBytes) = 0
<1>1. GrownBytes = {} BY DEF GrownBytes
<1> QED BY <1>1, FS_EmptySet

LEMMA BytesInit == Init => WindowBytes
<1> SUFFICES ASSUME Init PROVE WindowBytes
  OBVIOUS
<1>1. prevNet = [i \in Iface |-> Gone] /\ moved = 0 /\ rate = 0 /\ since = Never
  BY DEF Init
<1>2. HostTyped
  <2>1. steady \in BOOLEAN /\ sig \in BOOLEAN BY DEF Init
  <2>2. counter \in [Iface -> Counter] /\ prevNet \in [Iface -> Counter]
    BY <1>1, BoundAssumption DEF Init, Counter
  <2> QED BY <1>1, <2>1, <2>2 DEF HostTyped
<1>3. \A i \in Iface : Grown(i) = 0 BY <1>1 DEF Grown
<1>4. Cardinality(GrownBytes) = 0 BY <1>3, NothingGrown
<1> QED BY <1>1, <1>2, <1>4 DEF WindowBytes, NoneInvented, NoneMissed

\* A byte through an interface grows the window by one, or by none.
LEMMA TransferBytes ==
  ASSUME WindowBytes, NEW i \in Iface, Transfer(i)
  PROVE  WindowBytes'
<1>1. /\ counter[i] \in 0..MaxBytes /\ counter[i] < MaxBytes
      /\ counter' = [counter EXCEPT ![i] = @ + 1] /\ moved' = moved + 1
      /\ UNCHANGED <<prevNet, since, rate, steady, sig>>
  BY DEF Transfer, Present, WindowBytes, HostTyped, Counter
<1>2. HostTyped' BY <1>1, BoundAssumption DEF WindowBytes, HostTyped, Counter
<1>3. \A j \in Iface : j # i => Grown(j)' = Grown(j)
  BY <1>1 DEF Grown, Present, WindowBytes, HostTyped
<1>4. Grown(i) \in 0..MaxBytes BY GrownTyped DEF WindowBytes, HostTyped
<1>5. counter'[i] = counter[i] + 1 BY <1>1 DEF WindowBytes, HostTyped
<1>6. CASE prevNet[i] # Gone /\ prevNet[i] <= counter[i]
  <2>1. Grown(i)' = Grown(i) + 1
    BY <1>1, <1>5, <1>6, ValueAssumption, BoundAssumption
       DEF Grown, Present, WindowBytes, HostTyped, Counter
  <2> DEFINE new == <<i, Grown(i) + 1>>
  <2>2. GrownBytes' = GrownBytes \cup {new}
    <3>1. new \in Iface \X (1..MaxBytes)
      BY <1>1, <1>4, <1>6, BoundAssumption, ValueAssumption
         DEF Grown, Present, WindowBytes, HostTyped, Counter
    <3>2. ASSUME NEW j \in Iface, NEW b \in 1..MaxBytes
          PROVE  b <= Grown(j)' <=> b <= Grown(j) \/ <<j, b>> = new
      <4>1. CASE j = i BY <4>1, <2>1, <1>4
      <4>2. CASE j # i BY <4>2, <1>3
      <4> QED BY <4>1, <4>2
    <3> QED BY <3>1, <3>2 DEF GrownBytes
  <2>3. new \notin GrownBytes BY <1>4 DEF GrownBytes
  <2>4. IsFiniteSet(GrownBytes) /\ Cardinality(GrownBytes) \in Nat
    BY BytesFinite DEF GrownBytes
  <2>5. Cardinality(GrownBytes') = Cardinality(GrownBytes) + 1
    BY <2>2, <2>3, <2>4, FS_AddElement
  <2>6. NoneInvented'
    BY <2>4, <2>5, <1>1 DEF NoneInvented, WindowBytes, HostTyped
  <2>7. NoneMissed'
    BY <2>4, <2>5, <1>1, <1>5, <1>6, ValueAssumption
       DEF NoneMissed, WindowBytes, HostTyped, Present, Counter
  <2> QED BY <1>2, <2>6, <2>7 DEF WindowBytes
<1>7. CASE ~(prevNet[i] # Gone /\ prevNet[i] <= counter[i])
  <2>1. Grown(i)' = Grown(i)
    BY <1>1, <1>5, <1>7, ValueAssumption, BoundAssumption
       DEF Grown, Present, WindowBytes, HostTyped, Counter
  <2>2. GrownBytes' = GrownBytes BY <2>1, <1>3 DEF GrownBytes
  <2>3. Cardinality(GrownBytes) \in Nat BY BytesFinite DEF GrownBytes
  <2>4. NoneInvented' BY <2>2, <2>3, <1>1 DEF NoneInvented, WindowBytes, HostTyped
  <2>5. ~(since # Never /\ steady)
    BY <1>1, <1>7, ValueAssumption DEF NoneMissed, WindowBytes, Present
  <2> QED BY <1>1, <1>2, <2>4, <2>5 DEF WindowBytes, NoneMissed
<1> QED BY <1>6, <1>7

\* An interface that goes or restarts takes its bytes out of the window.
LEMMA ReplugBytes ==
  ASSUME WindowBytes, NEW i \in Iface, Replug(i)
  PROVE  WindowBytes'
<1>1. PICK c \in {Gone, 0} : counter' = [counter EXCEPT ![i] = c]
  BY DEF Replug
<1>2. steady' = FALSE /\ UNCHANGED <<prevNet, since, rate, moved, sig>>
  BY DEF Replug
<1>3. HostTyped'
  <2>1. counter' \in [Iface -> Counter]
    BY <1>1, BoundAssumption DEF WindowBytes, HostTyped, Counter
  <2>2. steady' \in BOOLEAN BY <1>2
  <2> QED BY <1>2, <2>1, <2>2 DEF WindowBytes, HostTyped
<1>4. \A j \in Iface : j # i => Grown(j)' = Grown(j)
  BY <1>1, <1>2 DEF Grown, Present, WindowBytes, HostTyped
<1>5. Grown(i)' = 0
  BY <1>1, <1>2, ValueAssumption DEF Grown, Present, WindowBytes, HostTyped, Counter
<1>6. GrownBytes' \subseteq GrownBytes
  BY <1>4, <1>5 DEF GrownBytes
<1>7. IsFiniteSet(GrownBytes) /\ Cardinality(GrownBytes) \in Nat
  BY BytesFinite DEF GrownBytes
<1>8. Cardinality(GrownBytes') <= Cardinality(GrownBytes) /\ Cardinality(GrownBytes') \in Nat
  BY <1>6, <1>7, FS_Subset, FS_CardinalityType
<1>9. NoneInvented' BY <1>2, <1>7, <1>8 DEF NoneInvented, WindowBytes, HostTyped
<1> QED BY <1>2, <1>3, <1>9 DEF WindowBytes, NoneMissed

\* Whatever else the loop does leaves the window alone.
BytesKept == UNCHANGED <<counter, prevNet, moved, steady>>

LEMMA KeptBytes ==
  ASSUME WindowBytes, BytesKept, rate' \in Nat, sig' \in BOOLEAN,
         since' # Never => since # Never
  PROVE  WindowBytes'
<1>1. GrownBytes' = GrownBytes BY DEF BytesKept, GrownBytes, Grown, Present
<1> QED BY <1>1 DEF BytesKept, WindowBytes, HostTyped, NoneInvented, NoneMissed, Present

LEMMA SampleBytes ==
  ASSUME WindowBytes, Sample, UNCHANGED <<counter, sig>>
  PROVE  WindowBytes'
<1>1. prevNet' = counter /\ moved' = 0 /\ steady' = TRUE /\ counter' = counter
  BY DEF Sample, NextPrevNet
<1>2. rate' \in Nat BY BytesFinite DEF Sample, GrownBytes
<1>3. HostTyped' BY <1>1, <1>2 DEF WindowBytes, HostTyped
<1>4. \A i \in Iface : Grown(i)' = 0
  BY <1>1, ValueAssumption DEF Grown, Present, WindowBytes, HostTyped, Counter
<1>5. Cardinality(GrownBytes') = 0
  <2>1. GrownBytes' = {} BY <1>4 DEF GrownBytes
  <2> QED BY <2>1, FS_EmptySet
<1>6. NoneInvented' BY <1>1, <1>5 DEF NoneInvented
<1>7. NoneMissed'
  BY <1>1, <1>5, ValueAssumption DEF NoneMissed, Present, WindowBytes, HostTyped, Counter
<1> QED BY <1>3, <1>6, <1>7 DEF WindowBytes

LEMMA BytesStep == WindowBytes /\ [Next]_vars => WindowBytes'
<1> SUFFICES ASSUME WindowBytes, [Next]_vars PROVE WindowBytes'
  OBVIOUS
<1>T. rate \in Nat /\ sig \in BOOLEAN BY DEF WindowBytes, HostTyped
<1>1. CASE Pass
  <2>1. BytesKept /\ rate' = rate /\ sig' = sig /\ since' = Older(since, Warm)
    BY <1>1 DEF Pass, BytesKept, host
  <2>2. since' # Never => since # Never BY <2>1, ValueAssumption DEF Older
  <2> QED BY <2>1, <2>2, <1>T, KeptBytes
<1>2. CASE Fire
  BY <1>2, <1>T, KeptBytes DEF Fire, host, collector, BytesKept
<1>3. ASSUME NEW i \in Iface, Transfer(i) \/ Replug(i) PROVE WindowBytes'
  BY <1>3, TransferBytes, ReplugBytes
<1>4. CASE Collect
  <2>1. CASE Sample BY <1>4, <2>1, SampleBytes DEF Collect, host
  <2>2. CASE NoSample
    BY <1>4, <2>2, <1>T, KeptBytes DEF Collect, NoSample, host, BytesKept
  <2> QED BY <1>4, <2>1, <2>2 DEF Collect
<1>5. CASE Start \/ Sent \/ Receive \/ Stop
  BY <1>5, <1>T, KeptBytes DEF Start, Sent, Receive, Stop, host, collector, BytesKept
<1>6. CASE Signal
  BY <1>6, <1>T, KeptBytes DEF Signal, host, collector, BytesKept
<1>7. CASE UNCHANGED vars
  BY <1>7, <1>T, KeptBytes DEF vars, host, collector, BytesKept
<1> QED BY <1>1, <1>2, <1>3, <1>4, <1>5, <1>6, <1>7 DEF Next, Loop

\* The report loop and fillNet keep every variable in its range.
THEOREM AgentTyped == Spec => []TypeOK
<1>1. TimingInv /\ WindowBytes => TypeOK
  BY DEF TimingInv, TimeTyped, WindowBytes, HostTyped, Counter, TypeOK
<1> QED BY <1>1, TimingInit, TimingStep, BytesInit, BytesStep, PTL DEF Spec

\* fillNet: however interfaces come, go and restart and samples fail, a rate
\* stands for no byte that did not move in its window, and for every one when
\* the interfaces stayed as they were.
THEOREM RatesTrue == Spec => RateOfWindow
<1>1. WindowBytes /\ [Next]_vars
        => [pc = "report" /\ pc' = "send" /\ rated'
              => rate' <= moved /\ (steady => rate' = moved)]_vars
  <2> SUFFICES ASSUME WindowBytes, Next, pc = "report", pc' = "send", rated'
               PROVE  rate' <= moved /\ (steady => rate' = moved)
    OBVIOUS
  <2>1. Collect
    BY DEF Next, Loop, Pass, Fire, Transfer, Replug, Start, Sent, Receive, Signal, Stop
  <2>2. Sample BY <2>1 DEF Collect, NoSample
  <2>3. since # Never /\ rate' = Cardinality(GrownBytes) BY <2>2 DEF Sample
  <2> QED BY <2>3 DEF WindowBytes, NoneInvented, NoneMissed
<1> QED BY <1>1, BytesInit, BytesStep, PTL DEF Spec, RateOfWindow

=============================================================================
