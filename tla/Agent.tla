------------------------------- MODULE Agent --------------------------------
(***************************************************************************)
(* The report loop of the agent (cmd/agent/main.go), the network part of   *)
(* the collector (fillNet in internal/agent/collector.go) and the wait for *)
(* the hub's answer (internal/agent/reporter.go).  The loop waits for a    *)
(* ticker that buffers one tick and drops the others, collects, and sends; *)
(* a hub that answers slowly holds it up for as long as the client's       *)
(* timeout.                                                                *)
(*                                                                         *)
(* Times are kept as ages, cut off where they no longer make a difference. *)
(* One direction of the traffic is modelled, the other is the same.  The   *)
(* interfaces are those isLoopback lets through.                           *)
(***************************************************************************)
EXTENDS Integers, FiniteSets

CONSTANTS
  Iface,               \* network interfaces
  Gone,                \* the counter of an interface that is not there
  Interval,            \* the ticker's period
  Short, Warm,         \* 0.25 s: a window this short gives no rate; 0.5 s: the warm-up
  Never, NoTick,
  MaxBytes, MaxMoved   \* bounds of a counter, and of the traffic between two samples

ASSUME IfaceAssumption == IsFiniteSet(Iface)
ASSUME TimeAssumption ==
  /\ Interval \in Nat /\ Short \in Nat /\ Warm \in Nat
  /\ Short < Interval /\ Short < Warm
ASSUME BoundAssumption == MaxBytes \in Nat /\ MaxMoved \in Nat
ASSUME ValueAssumption == Gone \notin Int /\ Never \notin Int /\ NoTick \notin Int

VARIABLES
  pc,       \* the main goroutine
  left,     \* until the ticker fires
  tick,     \* the age of the tick in the ticker's channel
  age,      \* the age of the tick the report in progress answers
  sig,      \* SIGINT or SIGTERM has arrived
  counter,  \* the host's byte counters
  prevNet,  \* Collector.prevNet
  since,    \* the age of Collector.prevTime
  rated,    \* the last report has a rate
  rate,     \* the bytes that rate is computed from, 0 without one
  moved,    \* history: the bytes that really moved since prevTime
  steady,   \* history: no interface came, went or restarted since prevTime
  late      \* history: the sample of prevTime was taken long after its tick

clock == <<left, tick, age>>
host == <<counter>>
collector == <<prevNet, since, rated, rate, moved, steady, late>>
vars == <<pc, clock, sig, host, collector>>

\* Only whether a sample is taken this long after its tick makes a difference.
LateAge == Interval - Short

Older(a, cap) == IF a \in Int /\ a < cap THEN a + 1 ELSE a

Init ==
  /\ pc = "start"
  /\ left = Interval /\ tick = NoTick /\ age = 0
  /\ sig = FALSE
  /\ counter \in [Iface -> {Gone, 0, MaxBytes}]
  /\ prevNet = [i \in Iface |-> Gone]
  /\ since = Never /\ rated = FALSE /\ rate = 0
  /\ moved = 0 /\ steady = TRUE /\ late = FALSE

-----------------------------------------------------------------------------
(* Time and the ticker, which is created after the warm-up *)

Pass ==
  /\ left > 0
  /\ left' = IF pc \in {"start", "warm"} THEN left ELSE left - 1
  /\ tick' = Older(tick, LateAge)
  /\ age' = IF pc = "report" THEN Older(age, LateAge) ELSE age
  /\ since' = Older(since, Warm)
  /\ UNCHANGED <<pc, sig, host, prevNet, rated, rate, moved, steady, late>>

\* A tick that finds the channel full is dropped.
Fire ==
  /\ left = 0
  /\ left' = Interval
  /\ tick' = IF tick = NoTick THEN 0 ELSE tick
  /\ UNCHANGED <<pc, age, sig, host, collector>>

-----------------------------------------------------------------------------
(* The host's interfaces *)

Present == {i \in Iface : counter[i] # Gone}

Transfer(i) ==
  /\ i \in Present /\ counter[i] < MaxBytes /\ moved < MaxMoved
  /\ counter' = [counter EXCEPT ![i] = @ + 1]
  /\ moved' = moved + 1
  /\ UNCHANGED <<pc, clock, sig, prevNet, since, rated, rate, steady, late>>

\* An interface goes, comes up, or restarts; it counts from 0 then.
Replug(i) ==
  /\ \E c \in {Gone, 0} \ {counter[i]} : counter' = [counter EXCEPT ![i] = c]
  /\ steady' = FALSE
  /\ UNCHANGED <<pc, clock, sig, prevNet, since, rated, rate, moved, late>>

-----------------------------------------------------------------------------
(* Collect *)

\* What an interface adds to the rate: nothing when it is new or went backwards.
Grown(i) ==
  IF i \notin Present \/ prevNet[i] = Gone THEN 0
  ELSE IF counter[i] < prevNet[i] THEN 0 ELSE counter[i] - prevNet[i]

\* What the rate is computed from, byte by byte: the sum of Grown.
GrownBytes == {m \in Iface \X (1..MaxBytes) : m[2] <= Grown(m[1])}

\* Mutant: the previous counters are replaced only where a rate is computed.
PrevNetOfRate == IF since \in 0..Short THEN prevNet ELSE counter

\* What the next sample is compared with.
NextPrevNet == counter

\* fillNet.
Sample ==
  /\ rated' = (since # Never /\ since \notin 0..Short)
  /\ rate' = IF rated' THEN Cardinality(GrownBytes) ELSE 0
  /\ prevNet' = NextPrevNet /\ since' = 0
  /\ moved' = 0 /\ steady' = TRUE /\ late' = (age >= LateAge)

\* net.IOCounters fails: fillNet returns without a trace.
NoSample ==
  /\ rated' = FALSE /\ rate' = 0
  /\ UNCHANGED <<prevNet, since, moved, steady, late>>

\* Mutant: without counters there is no report.
CollectOrSkip ==
  /\ pc \in {"start", "report"}
  /\ \/ Sample /\ pc' = IF pc = "start" THEN "warm" ELSE "send"
     \/ NoSample /\ pc' = IF pc = "start" THEN "warm" ELSE "select"
  /\ UNCHANGED <<clock, sig, host>>

\* The rest of a heartbeat is read before; fillNet is the last call.
Collect ==
  /\ pc \in {"start", "report"}
  /\ Sample \/ NoSample
  /\ pc' = IF pc = "start" THEN "warm" ELSE "send"
  /\ UNCHANGED <<clock, sig, host>>

-----------------------------------------------------------------------------
(* The report loop *)

\* Mutant: the first report follows the first sample at once.
StartCold ==
  /\ pc = "warm"
  /\ pc' = "report" /\ age' = 0
  /\ UNCHANGED <<left, tick, sig, host, collector>>

\* The sleep of the warm-up, and the first round of probes, are over: the ticker
\* is created and the first report begins.
Start ==
  /\ pc = "warm" /\ since \notin 0..(Warm - 1)
  /\ pc' = "report" /\ age' = 0
  /\ UNCHANGED <<left, tick, sig, host, collector>>

\* Send returns: an answer, an error, or the client's timeout.
Sent ==
  /\ pc = "send"
  /\ pc' = "select"
  /\ UNCHANGED <<clock, sig, host, collector>>

\* Mutant: the loop does not wait for a tick.
ReceiveAny ==
  /\ pc = "select"
  /\ pc' = "report" /\ age' = tick /\ tick' = NoTick
  /\ UNCHANGED <<left, sig, host, collector>>

Receive ==
  /\ pc = "select" /\ tick # NoTick
  /\ pc' = "report" /\ age' = tick /\ tick' = NoTick
  /\ UNCHANGED <<left, sig, host, collector>>

Signal ==
  /\ ~sig
  /\ sig' = TRUE
  /\ UNCHANGED <<pc, clock, host, collector>>

\* Mutant: the signal is looked at only when no tick is waiting.
StopWhenIdle ==
  /\ pc = "select" /\ sig /\ tick = NoTick
  /\ pc' = "stopped"
  /\ UNCHANGED <<clock, sig, host, collector>>

Stop ==
  /\ pc = "select" /\ sig
  /\ pc' = "stopped"
  /\ UNCHANGED <<clock, sig, host, collector>>

Loop == Collect \/ Start \/ Sent \/ Receive

Next ==
  /\ pc # "stopped"
  /\ \/ Pass \/ Fire
     \/ \E i \in Iface : Transfer(i) \/ Replug(i)
     \/ Loop \/ Signal \/ Stop

Spec == Init /\ [][Next]_vars

\* Time passes, the ticker fires, Send returns (the client has a timeout), and
\* the select, which chooses at random among what is ready, does not pass over
\* the signal for ever.
Fairness == WF_vars(Pass) /\ WF_vars(Fire) /\ WF_vars(Loop) /\ SF_vars(Stop)

FairSpec == Spec /\ Fairness

-----------------------------------------------------------------------------
(* Properties *)

TypeOK ==
  /\ pc \in {"start", "warm", "report", "send", "select", "stopped"}
  /\ left \in 0..Interval
  /\ tick \in 0..LateAge \cup {NoTick} /\ age \in 0..LateAge
  /\ sig \in BOOLEAN
  /\ counter \in [Iface -> 0..MaxBytes \cup {Gone}]
  /\ prevNet \in [Iface -> 0..MaxBytes \cup {Gone}]
  /\ since \in 0..Warm \cup {Never}
  /\ rated \in BOOLEAN /\ rate \in Nat
  /\ moved \in Nat /\ steady \in BOOLEAN /\ late \in BOOLEAN

\* The ticker's buffered tick can fire two reports back to back, and the second
\* then has no rate, which the hub draws as a dip to 0.  However long collecting
\* and sending take, that happens only when the sample before was taken almost a
\* period after its tick: a loop that keeps up, and the first report after the
\* warm-up, always have a rate.
RatedUnlessLate ==
  [][pc = "report" /\ pc' = "send" /\ since' = 0 /\ since # Never
       => rated' \/ late]_vars

\* Interfaces come, go and restart their counters, windows are skipped: a rate
\* never stands for more bytes than moved since the sample before, and for
\* exactly those when the interfaces stayed as they were.
RateOfWindow ==
  [][pc = "report" /\ pc' = "send" /\ rated'
       => rate' <= moved /\ (steady => rate' = moved)]_vars

\* The agent never stops reporting, whatever the hub does.
ReportsKeepComing == []<>(pc \in {"send", "stopped"})

\* It ends after the signal, also when every report takes longer than a period
\* and a tick is always waiting.
StopsOnSignal == sig ~> pc = "stopped"

=============================================================================
