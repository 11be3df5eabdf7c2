----------------------------- MODULE PoolProofs -----------------------------
(***************************************************************************)
(* Proofs about how the store's methods wait for each other, for any       *)
(* number of goroutines and of connections, and any number of nodes in a   *)
(* listing.                                                                *)
(***************************************************************************)
EXTENDS StorePool, FiniteSetTheorems, SequenceTheorems, TLAPS

-----------------------------------------------------------------------------
(* The methods: in heartbeats and edits everything that is taken is given  *)
(* back by the next operation, listings nest                               *)

Taking == {"conn", "rlock", "lock"}
Giving == {"free", "runlock", "unlock"}

GivesBack(taking) ==
  IF taking = "conn" THEN "free" ELSE IF taking = "rlock" THEN "runlock" ELSE "unlock"

\* What is left of a heartbeat or an edit.
Paired(ops) == \A k \in 1..Len(ops) :
  \/ ops[k] \in Taking /\ k < Len(ops) /\ ops[k + 1] = GivesBack(ops[k])
  \/ ops[k] \in Giving /\ (k = Len(ops) \/ ops[k + 1] \in Taking)

\* A whole one.
Whole(ops) == ops \in Seq(Operation) /\ ops # <<>> /\ ops[1] \in Taking /\ Paired(ops)

\* What is left of a listing.
Listing(ops) == \A k \in 1..Len(ops) :
  \/ ops[k] = "runlock" /\ k = Len(ops)
  \/ ops[k] = "free" /\ k = Len(ops) - 1
  \/ /\ ops[k] = "free" \/ (ops[k] = "rlock" /\ k <= 2)
     /\ k <= Len(ops) - 2
     /\ ops[k + 1] = IF k = Len(ops) - 2 THEN "free" ELSE "conn"
  \/ ops[k] = "conn" /\ k <= Len(ops) - 3 /\ ops[k + 1] \in {"free", "rlock"}

\* The connections a listing holds that has this left to do.
Held(ops) ==
  IF Len(ops) < 2 THEN 0
  ELSE IF Len(ops) = 2 THEN 1
  ELSE IF ops[1] = "free" THEN 2
  ELSE IF ops[1] = "rlock" THEN 1
  ELSE IF ops[2] = "rlock" THEN 0 ELSE 1

\* Programs that give back what they took can follow each other.
LEMMA WholeThenWhole ==
  ASSUME NEW s, NEW t, Whole(s), Whole(t)
  PROVE  Whole(s \o t)
<1> DEFINE u == s \o t
<1>1. /\ u \in Seq(Operation) /\ Len(u) = Len(s) + Len(t)
      /\ \A i \in 1 .. Len(s) + Len(t) : u[i] = IF i <= Len(s) THEN s[i] ELSE t[i - Len(s)]
  BY ConcatProperties DEF Whole
<1>2. Len(s) \in Nat \ {0} /\ Len(t) \in Nat \ {0}
  BY DEF Whole
<1> HIDE DEF u
<1>3. u # <<>> /\ u[1] = s[1] BY <1>1, <1>2
<1>4. ASSUME NEW k \in 1..Len(u)
      PROVE  \/ u[k] \in Taking /\ k < Len(u) /\ u[k + 1] = GivesBack(u[k])
             \/ u[k] \in Giving /\ (k = Len(u) \/ u[k + 1] \in Taking)
  <2>1. CASE k < Len(s)
    <3>1. k \in 1..Len(s) /\ u[k] = s[k] /\ u[k + 1] = s[k + 1] /\ k < Len(u) /\ k # Len(s)
      BY <1>1, <1>2, <1>4, <2>1
    <3> QED BY <3>1 DEF Whole, Paired
  <2>2. CASE k = Len(s)
    <3>1. u[k] = s[k] /\ u[k + 1] = t[1] /\ k \in 1..Len(s) /\ ~(k < Len(s))
      BY <1>1, <1>2, <2>2
    <3> QED BY <3>1, <2>2 DEF Whole, Paired
  <2>3. CASE k > Len(s)
    <3> DEFINE j == k - Len(s)
    <3>1. j \in 1..Len(t) /\ u[k] = t[j] /\ (j < Len(t) <=> k < Len(u)) /\ (j = Len(t) <=> k = Len(u))
      BY <1>1, <1>2, <1>4, <2>3
    <3>2. j < Len(t) => u[k + 1] = t[j + 1]
      BY <1>1, <1>2, <1>4, <2>3
    <3> HIDE DEF j
    <3> QED BY <3>1, <3>2, <1>2 DEF Whole, Paired
  <2> QED BY <1>1, <1>2, <1>4, <2>1, <2>2, <2>3
<1> QED BY <1>1, <1>3, <1>4 DEF Whole, Paired, u

LEMMA PairsWhole ==
  /\ Whole(Statement) /\ Whole(Locked) /\ Whole(<<"rlock", "runlock">>)
<1>1. ASSUME NEW a \in Taking PROVE Whole(<<a, GivesBack(a)>>)
  <2> DEFINE s == <<a, GivesBack(a)>>
  <2>1. s \in Seq(Operation) /\ Len(s) = 2 /\ s[1] = a /\ s[2] = GivesBack(a)
    BY DEF Taking, GivesBack, Operation
  <2>2. GivesBack(a) \in Giving BY DEF Taking, GivesBack, Giving
  <2> HIDE DEF s
  <2>3. ASSUME NEW k \in 1..Len(s)
        PROVE  \/ s[k] \in Taking /\ k < Len(s) /\ s[k + 1] = GivesBack(s[k])
               \/ s[k] \in Giving /\ (k = Len(s) \/ s[k + 1] \in Taking)
    <3>1. k = 1 \/ k = 2 BY <2>1
    <3> QED BY <3>1, <2>1, <2>2
  <2>4. s # <<>> BY <2>1
  <2>5. Paired(s) BY <2>3 DEF Paired
  <2>6. Whole(s) BY <2>1, <2>4, <2>5 DEF Whole
  <2> QED BY <2>6 DEF s
<1>2. Whole(<<"conn", "free">>) BY <1>1 DEF Taking, GivesBack
<1>3. Whole(<<"lock", "unlock">>) BY <1>1 DEF Taking, GivesBack
<1>4. Whole(<<"rlock", "runlock">>) BY <1>1 DEF Taking, GivesBack
<1> QED BY <1>2, <1>3, <1>4 DEF Statement, Locked

\* Heartbeats and edits are whole.
LEMMA ProgramsWhole ==
  ASSUME NEW g \in Goroutine \ Lister, NEW program \in Programs(g)
  PROVE  Whole(program)
<1> USE PairsWhole, WholeThenWhole
<1>1. ASSUME program \in Heartbeats PROVE Whole(program)
  <2>1. PICK persist \in Persist, roll \in Roll :
          program = Statement \o Locked \o persist \o roll
    BY <1>1 DEF Heartbeats
  <2>2. Whole(Statement \o Locked) OBVIOUS
  <2>3. Whole(Statement \o Locked \o persist)
    <3>1. CASE persist = <<>>
      BY <2>2, <3>1, ConcatEmptySeq DEF Whole
    <3>2. CASE persist = Statement \o Statement
      <4>1. Whole(persist) BY <3>2
      <4> QED BY <2>2, <4>1
    <3> QED BY <3>1, <3>2 DEF Persist
  <2>4. CASE roll = <<>>
    BY <2>1, <2>3, <2>4, ConcatEmptySeq DEF Whole
  <2>5. CASE roll # <<>>
    <3>1. Whole(roll) BY <2>5 DEF Roll, LoadTraffic
    <3> QED BY <2>1, <2>3, <3>1
  <2> QED BY <2>4, <2>5
<1>2. Whole(Delete) BY DEF Delete
<1>3. Whole(Update) BY DEF Update
<1> QED BY <1>1, <1>2, <1>3 DEF Programs

LEMMA LoadsProperties ==
  ASSUME NEW n \in Nat
  PROVE  /\ LoadsTraffic(n) \in Seq(Operation) /\ Len(LoadsTraffic(n)) = 2 * n
         /\ \A i \in 1..2 * n : LoadsTraffic(n)[i] = IF i % 2 = 1 THEN "conn" ELSE "free"
<1>1. LoadsTraffic(n) = [i \in 1..2 * n |-> IF i % 2 = 1 THEN "conn" ELSE "free"]
  BY DEF LoadsTraffic, LoadTraffic, Statement
<1>2. 2 * n \in Nat OBVIOUS
<1>3. LoadsTraffic(n) \in [1..2 * n -> Operation] BY <1>1 DEF Operation
<1> QED BY <1>1, <1>2, <1>3

\* The operations of a listing one by one.
LEMMA ListProperties ==
  ASSUME NEW n \in Nat
  PROVE  /\ List(n) \in Seq(Operation) /\ Len(List(n)) = 2 * n + 4
         /\ \A k \in 1..2 * n + 4 : List(n)[k] =
              IF k = 1 THEN "conn"
              ELSE IF k = 2 THEN "rlock"
              ELSE IF k = 2 * n + 3 THEN "free"
              ELSE IF k = 2 * n + 4 THEN "runlock"
              ELSE IF k % 2 = 1 THEN "conn" ELSE "free"
<1> DEFINE first == <<"conn", "rlock">>
           loads == LoadsTraffic(n)
           last == <<"free", "runlock">>
<1>1. first \in Seq(Operation) /\ Len(first) = 2 /\ first[1] = "conn" /\ first[2] = "rlock"
  BY DEF Operation
<1>2. last \in Seq(Operation) /\ Len(last) = 2 /\ last[1] = "free" /\ last[2] = "runlock"
  BY DEF Operation
<1>3. /\ loads \in Seq(Operation) /\ Len(loads) = 2 * n
      /\ \A i \in 1..2 * n : loads[i] = IF i % 2 = 1 THEN "conn" ELSE "free"
  BY LoadsProperties
<1>4. List(n) = (first \o loads) \o last BY DEF List
<1> HIDE DEF first, loads, last
<1> DEFINE most == first \o loads
<1>5. /\ most \in Seq(Operation) /\ Len(most) = 2 + 2 * n
      /\ \A i \in 1 .. 2 + 2 * n : most[i] = IF i <= 2 THEN first[i] ELSE loads[i - 2]
  <2>1. /\ most \in Seq(Operation) /\ Len(most) = Len(first) + Len(loads)
        /\ \A i \in 1 .. Len(first) + Len(loads) :
             most[i] = IF i <= Len(first) THEN first[i] ELSE loads[i - Len(first)]
    BY <1>1, <1>3, ConcatProperties
  <2> QED BY <2>1, <1>1, <1>3
<1> HIDE DEF most
<1>6. /\ most \o last \in Seq(Operation) /\ Len(most \o last) = 2 + 2 * n + 2
      /\ \A i \in 1 .. 2 + 2 * n + 2 :
           (most \o last)[i] = IF i <= 2 + 2 * n THEN most[i] ELSE last[i - (2 + 2 * n)]
  <2>1. /\ most \o last \in Seq(Operation) /\ Len(most \o last) = Len(most) + Len(last)
        /\ \A i \in 1 .. Len(most) + Len(last) :
             (most \o last)[i] = IF i <= Len(most) THEN most[i] ELSE last[i - Len(most)]
    BY <1>2, <1>5, ConcatProperties
  <2> QED BY <2>1, <1>2, <1>5
<1>7. List(n) = most \o last BY <1>4 DEF most
<1>8. ASSUME NEW k \in 1..2 * n + 4, k > 2, k <= 2 * n + 2
      PROVE  List(n)[k] = IF k % 2 = 1 THEN "conn" ELSE "free"
  <2>1. List(n)[k] = loads[k - 2] /\ k - 2 \in 1..2 * n
    BY <1>5, <1>6, <1>7, <1>8
  <2>2. (k - 2) % 2 = k % 2 OBVIOUS
  <2> QED BY <2>1, <2>2, <1>3
<1>9. List(n)[1] = "conn" /\ List(n)[2] = "rlock"
  BY <1>1, <1>5, <1>6, <1>7
<1>10. List(n)[2 * n + 3] = "free" /\ List(n)[2 * n + 4] = "runlock"
  BY <1>2, <1>6, <1>7
<1>11. List(n) \in Seq(Operation) /\ Len(List(n)) = 2 * n + 4 BY <1>6, <1>7
<1>12. ASSUME NEW k \in 1..2 * n + 4
       PROVE  \/ k = 1 \/ k = 2 \/ k = 2 * n + 3 \/ k = 2 * n + 4
              \/ k > 2 /\ k <= 2 * n + 2
  OBVIOUS
<1> QED BY <1>8, <1>9, <1>10, <1>11, <1>12

LEMMA ListsListing ==
  ASSUME NEW n \in Nat
  PROVE  Listing(List(n)) /\ Held(List(n)) = 0
<1> DEFINE ops == List(n)
<1>1. /\ ops \in Seq(Operation) /\ Len(ops) = 2 * n + 4
      /\ ops[1] = "conn" /\ ops[2] = "rlock"
      /\ ops[2 * n + 3] = "free" /\ ops[2 * n + 4] = "runlock"
      /\ \A k \in 3..2 * n + 2 : ops[k] = IF k % 2 = 1 THEN "conn" ELSE "free"
  <2>1. 1 \in 1..2 * n + 4 /\ 2 \in 1..2 * n + 4 /\ 2 * n + 3 \in 1..2 * n + 4
        /\ 2 * n + 4 \in 1..2 * n + 4
    OBVIOUS
  <2>2. \A k \in 3..2 * n + 2 : k \in 1..2 * n + 4 /\ k # 1 /\ k # 2 /\ k # 2 * n + 3 /\ k # 2 * n + 4
    OBVIOUS
  <2>3. 2 * n + 3 # 1 /\ 2 * n + 3 # 2 /\ 2 * n + 4 # 1 /\ 2 * n + 4 # 2 /\ 2 * n + 4 # 2 * n + 3
    OBVIOUS
  <2>4. /\ ops \in Seq(Operation) /\ Len(ops) = 2 * n + 4
        /\ \A k \in 1..2 * n + 4 : ops[k] =
             IF k = 1 THEN "conn"
             ELSE IF k = 2 THEN "rlock"
             ELSE IF k = 2 * n + 3 THEN "free"
             ELSE IF k = 2 * n + 4 THEN "runlock"
             ELSE IF k % 2 = 1 THEN "conn" ELSE "free"
    BY ListProperties
  <2> HIDE DEF ops
  <2> QED BY <2>1, <2>2, <2>3, <2>4
<1> HIDE DEF ops
<1>2. Held(ops) = 0 BY <1>1 DEF Held
<1>3. ASSUME NEW k \in 1..Len(ops)
      PROVE  \/ ops[k] = "runlock" /\ k = Len(ops)
             \/ ops[k] = "free" /\ k = Len(ops) - 1
             \/ /\ ops[k] = "free" \/ (ops[k] = "rlock" /\ k <= 2)
                /\ k <= Len(ops) - 2
                /\ ops[k + 1] = IF k = Len(ops) - 2 THEN "free" ELSE "conn"
             \/ ops[k] = "conn" /\ k <= Len(ops) - 3 /\ ops[k + 1] \in {"free", "rlock"}
  <2>1. CASE k = 1 BY <1>1, <2>1
  <2>2. CASE k >= 2 * n + 3 BY <1>1, <2>2
  <2>3. CASE k = 2
    <3>1. k + 1 = 2 * n + 3 \/ (k + 1 \in 3..2 * n + 2 /\ (k + 1) % 2 = 1) BY <2>3
    <3> QED BY <1>1, <2>3, <3>1
  <2>4. CASE k \in 3..2 * n + 2 /\ k % 2 = 1
    <3>1. k + 1 \in 3..2 * n + 2 /\ (k + 1) % 2 = 0 BY <2>4
    <3> QED BY <1>1, <2>4, <3>1
  <2>5. CASE k \in 3..2 * n + 2 /\ k % 2 = 0
    <3>1. CASE k = 2 * n + 2 BY <1>1, <2>5, <3>1
    <3>2. CASE k < 2 * n + 2
      <4>1. k + 1 \in 3..2 * n + 2 /\ (k + 1) % 2 = 1 BY <2>5, <3>2
      <4> QED BY <1>1, <2>5, <4>1
    <3> QED BY <2>5, <3>1, <3>2
  <2> QED BY <1>1, <2>1, <2>2, <2>3, <2>4, <2>5
<1> QED BY <1>2, <1>3 DEF Listing, ops

-----------------------------------------------------------------------------
(* The inductive invariant *)

TodoInv ==
  /\ todo \in [Goroutine -> Seq(Operation)]
  /\ \A g \in Goroutine : \E program \in Programs(g) :
       \E k \in 1..Len(program) + 1 : todo[g] = Rest(program, k)

\* What a goroutine has left tells the connections it holds.
ConnInv ==
  /\ conns \in [Goroutine -> 0..2]
  /\ \A g \in Goroutine \ Lister :
       Paired(todo[g]) /\ conns[g] = IF At(g, "free") THEN 1 ELSE 0
  /\ \A g \in Lister : Listing(todo[g]) /\ conns[g] = Held(todo[g])

\* A reader is busy, and outside the listings about to enter or to leave.
ReaderInv ==
  /\ readers \subseteq Goroutine
  /\ \A g \in readers :
       /\ todo[g] # <<>>
       /\ g \notin Lister => At(g, "rlock") \/ At(g, "runlock")

\* Readers wait only for a writer.
WaitInv ==
  /\ waiting \subseteq Goroutine
  /\ \A g \in waiting : At(g, "rlock") /\ g \notin readers
  /\ waiting # {} => writer # {}

WriterInv ==
  writer = {} \/ \E w \in Goroutine : writer = {w} /\ (At(w, "lock") \/ At(w, "unlock"))

PoolInv == TodoInv /\ ConnInv /\ ReaderInv /\ WaitInv /\ WriterInv

LEMMA ProgramTyped ==
  ASSUME NEW g \in Goroutine, NEW program \in Programs(g)
  PROVE  program \in Seq(Operation) /\ program # <<>>
<1>1. CASE g \in Lister
  <2>1. PICK n \in 0..MaxLoads : program = List(n) BY <1>1 DEF Programs
  <2>2. n \in Nat BY BoundAssumption
  <2>3. program \in Seq(Operation) /\ Len(program) = 2 * n + 4
    BY <2>1, <2>2, ListProperties
  <2> QED BY <2>2, <2>3
<1>2. CASE g \notin Lister BY <1>2, ProgramsWhole DEF Whole
<1> QED BY <1>1, <1>2

LEMMA PoolInit == Init => PoolInv
<1> SUFFICES ASSUME Init PROVE PoolInv
  OBVIOUS
<1>1. /\ todo = [g \in Goroutine |-> <<>>] /\ conns = [g \in Goroutine |-> 0]
      /\ readers = {} /\ writer = {} /\ waiting = {}
  BY DEF Init
<1>2. <<>> \in Seq(Operation) /\ Len(<<>>) = 0 BY EmptySeq
<1>3. TodoInv
  <2>1. ASSUME NEW g \in Goroutine
        PROVE  \E program \in Programs(g) :
                 \E k \in 1..Len(program) + 1 : todo[g] = Rest(program, k)
    <3>1. PICK program : program \in Programs(g)
      <4>1. CASE g \in Lister BY <4>1, BoundAssumption DEF Programs
      <4>2. CASE g \in Saver
        <5>1. <<<<>>, <<>>>> \in Persist \X Roll BY DEF Persist, Roll
        <5>2. \E p : p \in Heartbeats BY <5>1 DEF Heartbeats
        <5> QED BY <4>2, <5>2, GoroutineAssumption DEF Programs
      <4>3. CASE g \in Editor BY <4>3, GoroutineAssumption DEF Programs
      <4> QED BY <4>1, <4>2, <4>3 DEF Goroutine
    <3>2. Len(program) \in Nat BY <3>1, ProgramTyped
    <3>3. Rest(program, Len(program) + 1) = <<>>
      BY <3>2, SubSeqEmpty DEF Rest
    <3>4. Len(program) + 1 \in 1..Len(program) + 1 BY <3>2
    <3> QED BY <1>1, <3>1, <3>3, <3>4
  <2> QED BY <1>1, <1>2, <2>1 DEF TodoInv
<1>4. ConnInv
  BY <1>1, <1>2 DEF ConnInv, Paired, Listing, Held, At, Goroutine
<1> QED BY <1>1, <1>3, <1>4 DEF PoolInv, ReaderInv, WaitInv, WriterInv

-----------------------------------------------------------------------------
(* The steps *)

\* The next operation and what is left after it.
LEMMA Step ==
  ASSUME TodoInv, NEW g \in Goroutine, NEW op, At(g, op), Done(g)
  PROVE  /\ todo[g] \in Seq(Operation) /\ Len(todo[g]) \in Nat \ {0} /\ todo[g][1] = op
         /\ todo'[g] \in Seq(Operation) /\ Len(todo'[g]) = Len(todo[g]) - 1
         /\ \A i \in 1..Len(todo'[g]) : todo'[g][i] = todo[g][i + 1]
         /\ \A h \in Goroutine \ {g} : todo'[h] = todo[h]
         /\ TodoInv'
<1>1. todo[g] \in Seq(Operation) /\ todo[g] # <<>> /\ Head(todo[g]) = op
  BY DEF TodoInv, At
<1>2. todo' = [todo EXCEPT ![g] = Tail(@)] BY DEF Done
<1>3. todo'[g] = Tail(todo[g]) /\ \A h \in Goroutine \ {g} : todo'[h] = todo[h]
  BY <1>2 DEF TodoInv
<1>4. /\ Tail(todo[g]) \in Seq(Operation) /\ Len(Tail(todo[g])) = Len(todo[g]) - 1
      /\ \A i \in 1..Len(Tail(todo[g])) : Tail(todo[g])[i] = todo[g][i + 1]
  BY <1>1, HeadTailProperties
<1>5. todo[g][1] = op /\ Len(todo[g]) \in Nat \ {0} BY <1>1
<1>6. TodoInv'
  <2>1. todo' \in [Goroutine -> Seq(Operation)] BY <1>2, <1>4 DEF TodoInv
  <2>2. PICK program \in Programs(g) :
          \E k \in 1..Len(program) + 1 : todo[g] = Rest(program, k)
    BY DEF TodoInv
  <2>3. PICK k \in 1..Len(program) + 1 : todo[g] = Rest(program, k) BY <2>2
  <2>4. program \in Seq(Operation) /\ Len(program) \in Nat BY ProgramTyped
  <2>5. k # Len(program) + 1 BY <1>1, <2>3, <2>4, SubSeqEmpty DEF Rest
  <2>6. k \in 1..Len(program) /\ Len(program) \in k..Len(program) /\ k + 1 \in 1..Len(program) + 1
    BY <2>4, <2>5
  <2>7. Tail(todo[g]) = Rest(program, k + 1)
    BY <2>3, <2>4, <2>6, HeadTailOfSubSeq DEF Rest
  <2> QED BY <2>1, <2>6, <2>7, <1>3 DEF TodoInv
<1> QED BY <1>1, <1>3, <1>4, <1>5, <1>6

\* A heartbeat or an edit gives back next what it takes, and then takes
\* something or ends.
LEMMA PairedStep ==
  ASSUME TodoInv, ConnInv, NEW g \in Goroutine \ Lister, NEW op, At(g, op), Done(g)
  PROVE  /\ op \in Taking \cup Giving
         /\ Paired(todo[g])'
         /\ op \in Taking => At(g, GivesBack(op))'
         /\ op \in Giving => \A other \in Giving : ~At(g, other)'
<1> DEFINE old == todo[g]
           new == todo'[g]
<1>1. /\ old \in Seq(Operation) /\ Len(old) \in Nat \ {0} /\ old[1] = op
      /\ new \in Seq(Operation) /\ Len(new) = Len(old) - 1
      /\ \A i \in 1..Len(new) : new[i] = old[i + 1]
  BY Step
<1>2. \A k \in 1..Len(old) :
        \/ old[k] \in Taking /\ k < Len(old) /\ old[k + 1] = GivesBack(old[k])
        \/ old[k] \in Giving /\ (k = Len(old) \/ old[k + 1] \in Taking)
  BY DEF ConnInv, Paired
<1>3. \A other : At(g, other)' <=> Len(new) > 0 /\ new[1] = other
  BY <1>1 DEF At
<1> HIDE DEF old, new
<1>4. ASSUME NEW k \in 1..Len(new)
      PROVE  \/ new[k] \in Taking /\ k < Len(new) /\ new[k + 1] = GivesBack(new[k])
             \/ new[k] \in Giving /\ (k = Len(new) \/ new[k + 1] \in Taking)
  <2>1. k + 1 \in 1..Len(old) /\ new[k] = old[k + 1] BY <1>1
  <2>2. k < Len(new) => k + 1 \in 1..Len(new) /\ new[k + 1] = old[k + 1 + 1] BY <1>1
  <2>3. (k < Len(new) <=> k + 1 < Len(old)) /\ (k = Len(new) <=> k + 1 = Len(old))
    BY <1>1
  <2>4. k = Len(new) \/ k < Len(new) BY <1>1
  <2> QED BY <1>2, <2>1, <2>2, <2>3, <2>4
<1>5. \/ op \in Taking /\ 1 < Len(old) /\ old[2] = GivesBack(op)
      \/ op \in Giving /\ (1 = Len(old) \/ old[2] \in Taking)
  BY <1>1, <1>2
<1>6. 1 < Len(old) => Len(new) > 0 /\ new[1] = old[2] BY <1>1
<1>7. Taking \cap Giving = {} BY DEF Taking, Giving
<1>8. Paired(new) BY <1>4 DEF Paired
<1>9. op \in Taking => At(g, GivesBack(op))' BY <1>3, <1>5, <1>6, <1>7
<1>10. Len(new) > 0 => 1 # Len(old) /\ new[1] = old[2] BY <1>1
<1>11. op \in Giving => \A other \in Giving : ~At(g, other)'
  BY <1>3, <1>5, <1>7, <1>10
<1> QED BY <1>5, <1>8, <1>9, <1>11 DEF new

\* A listing takes and gives back connections as Held says.
LEMMA ListingStep ==
  ASSUME TodoInv, ConnInv, NEW g \in Lister, NEW op, At(g, op), Done(g)
  PROVE  /\ op \in {"conn", "free", "rlock", "runlock"}
         /\ Listing(todo[g])'
         /\ Held(todo[g]) \in 0..2 /\ Held(todo'[g]) \in 0..2
         /\ Held(todo'[g]) = IF op = "conn" THEN Held(todo[g]) + 1
                             ELSE IF op = "free" THEN Held(todo[g]) - 1
                             ELSE Held(todo[g])
         /\ op # "runlock" => todo'[g] # <<>>
<1> DEFINE old == todo[g]
           new == todo'[g]
<1>0. g \in Goroutine BY DEF Goroutine
<1>1. /\ old \in Seq(Operation) /\ Len(old) \in Nat \ {0} /\ old[1] = op
      /\ new \in Seq(Operation) /\ Len(new) = Len(old) - 1
      /\ \A i \in 1..Len(new) : new[i] = old[i + 1]
  BY <1>0, Step
<1>2. Listing(old) BY DEF ConnInv
<1> HIDE DEF old, new
<1>3. ASSUME NEW k \in 1..Len(new)
      PROVE  \/ new[k] = "runlock" /\ k = Len(new)
             \/ new[k] = "free" /\ k = Len(new) - 1
             \/ /\ new[k] = "free" \/ (new[k] = "rlock" /\ k <= 2)
                /\ k <= Len(new) - 2
                /\ new[k + 1] = IF k = Len(new) - 2 THEN "free" ELSE "conn"
             \/ new[k] = "conn" /\ k <= Len(new) - 3 /\ new[k + 1] \in {"free", "rlock"}
  <2>1. k + 1 \in 1..Len(old) /\ new[k] = old[k + 1] BY <1>1
  <2>2. k < Len(new) => new[k + 1] = old[k + 1 + 1] BY <1>1
  <2> QED BY <1>1, <1>2, <2>1, <2>2 DEF Listing
<1>4. Listing(new) BY <1>3 DEF Listing
<1>5. \/ op = "runlock" /\ 1 = Len(old)
      \/ op = "free" /\ 1 = Len(old) - 1
      \/ /\ op \in {"free", "rlock"}
         /\ 1 <= Len(old) - 2
         /\ old[2] = IF 1 = Len(old) - 2 THEN "free" ELSE "conn"
      \/ op = "conn" /\ 1 <= Len(old) - 3 /\ old[2] \in {"free", "rlock"}
  <2>1. 1 \in 1..Len(old) BY <1>1
  <2> QED BY <1>1, <1>2, <2>1 DEF Listing
<1>6. 3 <= Len(old) => old[3] # "rlock"
  BY <1>1, <1>2 DEF Listing
<1>7. (2 <= Len(old) => new[1] = old[2]) /\ (3 <= Len(old) => new[2] = old[3])
  BY <1>1
<1>8. op # "runlock" => Len(new) > 0 BY <1>1, <1>5
<1>9. /\ Held(old) \in 0..2 /\ Held(new) \in 0..2
      /\ Held(new) = IF op = "conn" THEN Held(old) + 1
                     ELSE IF op = "free" THEN Held(old) - 1 ELSE Held(old)
  <2>1. CASE op = "runlock" BY <1>1, <1>5, <2>1 DEF Held
  <2>2. CASE op = "free" BY <1>1, <1>5, <1>6, <1>7, <2>2 DEF Held
  <2>3. CASE op = "rlock" BY <1>1, <1>5, <1>6, <1>7, <2>3 DEF Held
  <2>4. CASE op = "conn" BY <1>1, <1>5, <1>6, <1>7, <2>4 DEF Held
  <2> QED BY <1>5, <2>1, <2>2, <2>3, <2>4
<1>10. op # "runlock" => new # <<>> BY <1>1, <1>8
<1> QED BY <1>4, <1>5, <1>9, <1>10 DEF old, new

\* What a step of one goroutine means for the connections.
LEMMA ConnStep ==
  ASSUME PoolInv, NEW g \in Goroutine, NEW op, At(g, op), Done(g),
         conns' = [conns EXCEPT ![g] = IF op = "conn" THEN @ + 1
                                       ELSE IF op = "free" THEN @ - 1 ELSE @]
  PROVE  TodoInv' /\ ConnInv'
<1>1. TodoInv /\ ConnInv BY DEF PoolInv
<1>2. TodoInv' /\ \A h \in Goroutine \ {g} : todo'[h] = todo[h]
  BY <1>1, Step
<1>3. \A h \in Goroutine \ {g} : conns'[h] = conns[h] /\ \A other : At(h, other)' <=> At(h, other)
  BY <1>1, <1>2 DEF ConnInv, At
<1>4. conns[g] \in 0..2 /\ conns'[g] = IF op = "conn" THEN conns[g] + 1
                                     ELSE IF op = "free" THEN conns[g] - 1 ELSE conns[g]
  BY <1>1 DEF ConnInv
<1>5. CASE g \in Lister
  <2>1. /\ Listing(todo[g])' /\ Held(todo'[g]) \in 0..2
        /\ Held(todo'[g]) = IF op = "conn" THEN Held(todo[g]) + 1
                            ELSE IF op = "free" THEN Held(todo[g]) - 1
                            ELSE Held(todo[g])
    BY <1>1, <1>5, ListingStep
  <2>2. conns[g] = Held(todo[g]) BY <1>1, <1>5 DEF ConnInv
  <2>3. conns'[g] = Held(todo'[g]) BY <1>4, <2>1, <2>2
  <2>4. conns' \in [Goroutine -> 0..2] BY <1>1, <1>4, <2>1, <2>3 DEF ConnInv
  <2> QED BY <1>1, <1>2, <1>3, <1>5, <2>1, <2>3, <2>4 DEF ConnInv, Goroutine
<1>6. CASE g \notin Lister
  <2>1. /\ op \in Taking \cup Giving
        /\ Paired(todo[g])'
        /\ op \in Taking => At(g, GivesBack(op))'
        /\ op \in Giving => \A other \in Giving : ~At(g, other)'
    BY <1>1, <1>6, PairedStep
  <2>2. conns[g] = IF op = "free" THEN 1 ELSE 0
    BY <1>1, <1>6 DEF ConnInv, At
  <2>3. At(g, "free")' <=> op = "conn"
    BY <2>1 DEF Taking, Giving, GivesBack, At
  <2>4. conns'[g] = IF At(g, "free")' THEN 1 ELSE 0
    BY <1>4, <2>2, <2>3
  <2>5. conns' \in [Goroutine -> 0..2] BY <1>1, <1>4, <2>4 DEF ConnInv
  <2> QED BY <1>1, <1>2, <1>3, <1>6, <2>1, <2>4, <2>5 DEF ConnInv, Goroutine
<1> QED BY <1>2, <1>5, <1>6

\* A call starts with everything given back.
LEMMA CallKeeps ==
  ASSUME PoolInv, NEW g \in Goroutine, Call(g)
  PROVE  PoolInv'
<1>1. PICK program \in Programs(g) : todo' = [todo EXCEPT ![g] = program]
  BY DEF Call
<1>2. todo[g] = <<>> /\ UNCHANGED <<conns, readers, writer, waiting>>
  BY DEF Call
<1>3. program \in Seq(Operation) /\ program # <<>> BY ProgramTyped
<1>4. /\ todo \in [Goroutine -> Seq(Operation)] /\ todo'[g] = program
      /\ \A h \in Goroutine \ {g} : todo'[h] = todo[h]
  BY <1>1 DEF PoolInv, TodoInv
<1>5. \A h \in Goroutine \ {g} : \A other : At(h, other)' <=> At(h, other)
  BY <1>4 DEF At
<1>6. TodoInv'
  <2>1. program = Rest(program, 1) /\ 1 \in 1..Len(program) + 1
    BY <1>3, SubSeqFull DEF Rest
  <2> QED BY <1>1, <1>3, <1>4, <2>1 DEF PoolInv, TodoInv
<1>7. \A other : ~At(g, other) BY <1>2 DEF At
<1>8. ConnInv'
  <2>1. CASE g \in Lister
    <3>1. PICK n \in 0..MaxLoads : program = List(n) BY <2>1 DEF Programs
    <3>2. Listing(program) /\ Held(program) = 0
      BY <3>1, BoundAssumption, ListsListing
    <3>3. conns[g] = 0
      BY <1>2, <2>1 DEF PoolInv, ConnInv, Held
    <3> QED BY <1>2, <1>4, <1>5, <2>1, <3>2, <3>3 DEF PoolInv, ConnInv, Goroutine
  <2>2. CASE g \notin Lister
    <3>1. Whole(program) BY <2>2, ProgramsWhole
    <3>2. ~At(g, "free")' BY <1>3, <1>4, <3>1 DEF Whole, Taking, At
    <3>3. conns[g] = 0 BY <1>7, <2>2 DEF PoolInv, ConnInv
    <3> QED BY <1>2, <1>4, <1>5, <2>2, <3>1, <3>2, <3>3 DEF PoolInv, ConnInv, Goroutine, Whole
  <2> QED BY <2>1, <2>2
<1>9. g \notin readers /\ g \notin waiting BY <1>2, <1>7 DEF PoolInv, ReaderInv, WaitInv
<1>10. ReaderInv' BY <1>2, <1>4, <1>5, <1>9 DEF PoolInv, ReaderInv
<1>11. WaitInv' BY <1>2, <1>5, <1>9 DEF PoolInv, WaitInv
<1>12. WriterInv' BY <1>2, <1>5, <1>7 DEF PoolInv, WriterInv
<1> QED BY <1>6, <1>8, <1>10, <1>11, <1>12 DEF PoolInv

\* Where a goroutine is after its step.
LEMMA After ==
  ASSUME PoolInv, NEW g \in Goroutine, NEW op, At(g, op), Done(g)
  PROVE  /\ \A h \in Goroutine \ {g} : /\ todo'[h] = todo[h]
                                      /\ \A other : At(h, other)' <=> At(h, other)
         /\ op = "rlock" => /\ todo'[g] # <<>>
                            /\ g \notin Lister => At(g, "runlock")'
         /\ op = "lock" => At(g, "unlock")'
         /\ g \in Lister /\ op # "runlock" => todo'[g] # <<>>
<1>1. TodoInv /\ ConnInv BY DEF PoolInv
<1>2. \A h \in Goroutine \ {g} : todo'[h] = todo[h] BY <1>1, Step
<1>3. \A h \in Goroutine \ {g} : \A other : At(h, other)' <=> At(h, other)
  BY <1>2 DEF At
<1>4. CASE g \in Lister
  <2>1. op \in {"conn", "free", "rlock", "runlock"} /\ (op # "runlock" => todo'[g] # <<>>)
    BY <1>1, <1>4, ListingStep
  <2> QED BY <1>2, <1>3, <1>4, <2>1
<1>5. CASE g \notin Lister
  <2>1. op \in Taking => At(g, GivesBack(op))' BY <1>1, <1>5, PairedStep
  <2>2. op = "rlock" => At(g, "runlock")' BY <2>1 DEF Taking, GivesBack
  <2>3. op = "lock" => At(g, "unlock")' BY <2>1 DEF Taking, GivesBack
  <2>4. At(g, "runlock")' => todo'[g] # <<>> BY DEF At
  <2> QED BY <1>2, <1>3, <1>5, <2>2, <2>3, <2>4
<1> QED BY <1>4, <1>5

LEMMA WorkKeeps ==
  ASSUME PoolInv, NEW g \in Goroutine, Work(g)
  PROVE  PoolInv'
<1>T. TodoInv /\ ConnInv /\ ReaderInv /\ WaitInv /\ WriterInv BY DEF PoolInv
<1>N. conns \in [Goroutine -> 0..2] BY <1>T DEF ConnInv
<1>1. CASE TakeConn(g) \/ FreeConn(g)
  <2>1. PICK op \in {"conn", "free"} :
          /\ At(g, op) /\ Done(g)
          /\ conns' = [conns EXCEPT ![g] = IF op = "conn" THEN @ + 1
                                          ELSE IF op = "free" THEN @ - 1 ELSE @]
    BY <1>1 DEF TakeConn, FreeConn
  <2>2. UNCHANGED <<readers, writer, waiting>> BY <1>1 DEF TakeConn, FreeConn
  <2>3. TodoInv' /\ ConnInv' BY <2>1, ConnStep
  <2>4. /\ \A h \in Goroutine \ {g} : /\ todo'[h] = todo[h]
                                     /\ \A other : At(h, other)' <=> At(h, other)
        /\ g \in Lister => todo'[g] # <<>>
    BY <2>1, After
  <2>5. g \notin waiting /\ (g \in readers => g \in Lister) /\ ~At(g, "lock") /\ ~At(g, "unlock")
    BY <2>1, <1>T DEF ReaderInv, WaitInv, At
  <2>6. ReaderInv' BY <2>2, <2>4, <2>5, <1>T DEF ReaderInv
  <2>7. WaitInv' BY <2>2, <2>4, <2>5, <1>T DEF WaitInv
  <2>8. WriterInv' BY <2>2, <2>4, <2>5, <1>T DEF WriterInv
  <2> QED BY <2>3, <2>6, <2>7, <2>8 DEF PoolInv
<1>2. CASE RLock(g) /\ Done(g)
  <2>1. /\ At(g, "rlock") /\ Done(g) /\ g \notin waiting /\ readers' = readers \cup {g}
        /\ UNCHANGED <<conns, writer, waiting>>
    <3>1. todo'[g] # todo[g]
      <4>1. Len(todo'[g]) = Len(todo[g]) - 1 /\ Len(todo[g]) \in Nat
        BY <1>2, <1>T, Step DEF RLock
      <4> QED BY <4>1
    <3> QED BY <1>2, <3>1 DEF RLock
  <2>2. TodoInv' /\ ConnInv'
    <3>1. conns' = [conns EXCEPT ![g] = IF "rlock" = "conn" THEN @ + 1
                                       ELSE IF "rlock" = "free" THEN @ - 1 ELSE @]
      BY <2>1, <1>N
    <3> QED BY <2>1, <3>1, ConnStep
  <2>3. /\ \A h \in Goroutine \ {g} : /\ todo'[h] = todo[h]
                                     /\ \A other : At(h, other)' <=> At(h, other)
        /\ todo'[g] # <<>> /\ (g \notin Lister => At(g, "runlock")')
    BY <2>1, After
  <2>4. ReaderInv' BY <2>1, <2>3, <1>T DEF ReaderInv
  <2>5. WaitInv' BY <2>1, <2>3, <1>T DEF WaitInv
  <2>6. WriterInv' BY <2>1, <2>3, <1>T DEF WriterInv, At
  <2> QED BY <2>2, <2>4, <2>5, <2>6 DEF PoolInv
<1>3. CASE RLock(g) /\ ~Done(g)
  <2>1. /\ At(g, "rlock") /\ writer # {} /\ g \notin readers /\ waiting' = waiting \cup {g}
        /\ UNCHANGED <<todo, conns, readers, writer>>
    BY <1>3 DEF RLock
  <2> QED BY <2>1, <1>T
     DEF PoolInv, TodoInv, ConnInv, ReaderInv, WaitInv, WriterInv, At, Rest
<1>4. CASE RUnlock(g)
  <2>1. /\ At(g, "runlock") /\ Done(g) /\ readers' = readers \ {g}
        /\ UNCHANGED <<conns, writer, waiting>>
    BY <1>4 DEF RUnlock
  <2>2. TodoInv' /\ ConnInv'
    <3>1. conns' = [conns EXCEPT ![g] = IF "runlock" = "conn" THEN @ + 1
                                       ELSE IF "runlock" = "free" THEN @ - 1 ELSE @]
      BY <2>1, <1>N
    <3> QED BY <2>1, <3>1, ConnStep
  <2>3. \A h \in Goroutine \ {g} : /\ todo'[h] = todo[h]
                                  /\ \A other : At(h, other)' <=> At(h, other)
    BY <2>1, After
  <2>4. g \notin waiting /\ ~At(g, "lock") /\ ~At(g, "unlock")
    BY <2>1, <1>T DEF WaitInv, At
  <2>5. ReaderInv' BY <2>1, <2>3, <1>T DEF ReaderInv
  <2>6. WaitInv' BY <2>1, <2>3, <2>4, <1>T DEF WaitInv
  <2>7. WriterInv' BY <2>1, <2>3, <2>4, <1>T DEF WriterInv
  <2> QED BY <2>2, <2>5, <2>6, <2>7 DEF PoolInv
<1>5. CASE AskLock(g)
  <2>1. /\ At(g, "lock") /\ writer' = {g}
        /\ UNCHANGED <<todo, conns, readers, waiting>>
    BY <1>5 DEF AskLock
  <2>2. TodoInv' /\ ConnInv' BY <2>1, <1>T DEF TodoInv, ConnInv, At
  <2>3. ReaderInv' BY <2>1, <1>T DEF ReaderInv, At
  <2>4. WaitInv' BY <2>1, <1>T DEF WaitInv, At
  <2>5. WriterInv' BY <2>1 DEF WriterInv, At
  <2> QED BY <2>2, <2>3, <2>4, <2>5 DEF PoolInv
<1>6. CASE Lock(g)
  <2>1. /\ At(g, "lock") /\ Done(g) /\ writer = {g}
        /\ UNCHANGED <<conns, readers, writer, waiting>>
    BY <1>6 DEF Lock
  <2>2. TodoInv' /\ ConnInv'
    <3>1. conns' = [conns EXCEPT ![g] = IF "lock" = "conn" THEN @ + 1
                                       ELSE IF "lock" = "free" THEN @ - 1 ELSE @]
      BY <2>1, <1>N
    <3> QED BY <2>1, <3>1, ConnStep
  <2>3. /\ \A h \in Goroutine \ {g} : /\ todo'[h] = todo[h]
                                     /\ \A other : At(h, other)' <=> At(h, other)
        /\ At(g, "unlock")' /\ (g \in Lister => todo'[g] # <<>>)
    BY <2>1, After
  <2>4. g \notin waiting /\ (g \in readers => g \in Lister)
    BY <2>1, <1>T DEF ReaderInv, WaitInv, At
  <2>5. ReaderInv' BY <2>1, <2>3, <2>4, <1>T DEF ReaderInv
  <2>6. WaitInv' BY <2>1, <2>3, <2>4, <1>T DEF WaitInv
  <2>7. WriterInv' BY <2>1, <2>3 DEF WriterInv
  <2> QED BY <2>2, <2>5, <2>6, <2>7 DEF PoolInv
<1>7. CASE Unlock(g)
  <2>1. /\ At(g, "unlock") /\ Done(g) /\ writer' = {} /\ readers' = waiting /\ waiting' = {}
        /\ conns' = conns
    BY <1>7 DEF Unlock
  <2>2. TodoInv' /\ ConnInv'
    <3>1. conns' = [conns EXCEPT ![g] = IF "unlock" = "conn" THEN @ + 1
                                       ELSE IF "unlock" = "free" THEN @ - 1 ELSE @]
      BY <2>1, <1>N
    <3> QED BY <2>1, <3>1, ConnStep
  <2>3. \A h \in Goroutine \ {g} : /\ todo'[h] = todo[h]
                                  /\ \A other : At(h, other)' <=> At(h, other)
    BY <2>1, After
  <2>4. \A h \in waiting : h # g /\ todo[h] # <<>> BY <2>1, <1>T DEF WaitInv, At
  <2>5. ReaderInv' BY <2>1, <2>3, <2>4, <1>T DEF ReaderInv, WaitInv
  <2>6. WaitInv' /\ WriterInv' BY <2>1 DEF WaitInv, WriterInv
  <2> QED BY <2>2, <2>5, <2>6 DEF PoolInv
<1> QED BY <1>1, <1>2, <1>3, <1>4, <1>5, <1>6, <1>7 DEF Work

LEMMA PoolStep == PoolInv /\ [Next]_vars => PoolInv'
<1> SUFFICES ASSUME PoolInv, [Next]_vars PROVE PoolInv'
  OBVIOUS
<1>1. ASSUME NEW g \in Goroutine, Call(g) \/ Work(g) PROVE PoolInv'
  BY <1>1, CallKeeps, WorkKeeps
<1>2. CASE UNCHANGED vars
  <2>1. UNCHANGED <<todo, conns, readers, writer, waiting>> BY <1>2 DEF vars
  <2> QED BY <2>1 DEF PoolInv, TodoInv, ConnInv, ReaderInv, WaitInv, WriterInv, At
<1> QED BY <1>1, <1>2 DEF Next

\* The methods only ever hold what they still give back.
THEOREM PoolTyped == Spec => []TypeOK
<1>1. PoolInv => TypeOK
  BY DEF PoolInv, TodoInv, ConnInv, ReaderInv, WaitInv, WriterInv, TypeOK
<1> QED BY <1>1, PoolInit, PoolStep, PTL DEF Spec

-----------------------------------------------------------------------------
(* Nobody waits for everybody *)

LEMMA InUseFinite ==
  ASSUME ConnInv
  PROVE  /\ IsFiniteSet({c \in Goroutine \X (1..2) : c[2] <= conns[c[1]]})
         /\ InUse \in Nat
<1>1. IsFiniteSet(Goroutine) BY GoroutineAssumption, FS_Union DEF Goroutine
<1>2. IsFiniteSet(1..2)
  <2>1. 1 \in Int /\ 2 \in Int OBVIOUS
  <2> QED BY <2>1, FS_Interval
<1>3. IsFiniteSet(Goroutine \X (1..2)) BY <1>1, <1>2, FS_Product
<1> QED BY <1>3, FS_Subset, FS_CardinalityType DEF InUse

\* When nobody is about to give a connection back, only listings hold one, and
\* each at most one.
LEMMA HeldByListings ==
  ASSUME PoolInv, \A g \in Goroutine : ~At(g, "free")
  PROVE  InUse <= Cardinality(Lister)
<1> DEFINE used == {c \in Goroutine \X (1..2) : c[2] <= conns[c[1]]}
<1>1. \A g \in Goroutine \ Lister : conns[g] = 0
  BY DEF PoolInv, ConnInv
<1>2. ASSUME NEW g \in Lister PROVE conns[g] \in 0..1
  <2>1. g \in Goroutine BY DEF Goroutine
  <2>2. todo[g] \in Seq(Operation) BY <2>1 DEF PoolInv, TodoInv
  <2>3. Len(todo[g]) > 2 => todo[g][1] # "free" BY <2>1, <2>2 DEF At
  <2>4. conns[g] = Held(todo[g]) BY DEF PoolInv, ConnInv
  <2> DEFINE n == Len(todo[g])
  <2>5. n \in Nat BY <2>2
  <2>6. Held(todo[g]) = IF n < 2 THEN 0 ELSE IF n = 2 THEN 1
                        ELSE IF todo[g][1] = "free" THEN 2
                        ELSE IF todo[g][1] = "rlock" THEN 1
                        ELSE IF todo[g][2] = "rlock" THEN 0 ELSE 1
    BY DEF Held
  <2> HIDE DEF n
  <2>7. n < 2 \/ n = 2 \/ n > 2 BY <2>5
  <2>8. n > 2 => todo[g][1] # "free" BY <2>3 DEF n
  <2> QED BY <2>4, <2>5, <2>6, <2>7, <2>8
<1>3. used \subseteq Lister \X {1}
  BY <1>1, <1>2 DEF PoolInv, ConnInv
<1>4. IsFiniteSet(Lister \X {1}) /\ Cardinality(Lister \X {1}) = Cardinality(Lister)
  <2>1. IsFiniteSet({1}) /\ Cardinality({1}) = 1 BY FS_Singleton
  <2>2. IsFiniteSet(Lister) /\ Cardinality(Lister) \in Nat
    BY GoroutineAssumption, FS_CardinalityType
  <2> QED BY <2>1, <2>2, FS_Product
<1>5. Cardinality(used) <= Cardinality(Lister \X {1})
  BY <1>3, <1>4, FS_Subset
<1> QED BY <1>4, <1>5 DEF InUse

\* ListStatus, ListNodesAdmin and the methods they meet: as long as the listings
\* that run at once are fewer than the pool's connections, somebody can always
\* go on.
THEOREM PoolNeverStuck ==
  ASSUME Cardinality(Lister) < MaxConns
  PROVE  Spec => []NeverStuck
<1>1. PoolInv => NeverStuck
  <2> SUFFICES ASSUME PoolInv, NEW b \in Busy, \A g \in Busy : ~CanWork(g)
               PROVE  FALSE
    BY DEF NeverStuck
  <2>0. \A g \in Goroutine, op \in Operation : At(g, op) => ~CanWork(g)
    BY DEF Busy, At
  <2>1. \A g \in Goroutine :
          /\ ~At(g, "free") /\ ~At(g, "unlock") /\ ~At(g, "runlock")
          /\ At(g, "rlock") => g \in waiting
    BY <2>0 DEF CanWork, Operation
  <2>2. InUse \in Nat /\ MaxConns \in Nat /\ Cardinality(Lister) \in Nat
    BY InUseFinite, BoundAssumption, GoroutineAssumption, FS_CardinalityType DEF PoolInv
  <2>3. InUse < MaxConns BY <2>1, <2>2, HeldByListings
  <2>4. \A g \in Goroutine : ~At(g, "conn")
    BY <2>0, <2>3 DEF CanWork, Operation
  <2>5. \A g \in Goroutine : todo[g] # <<>> => At(g, "rlock") \/ At(g, "lock")
    <3> SUFFICES ASSUME NEW g \in Goroutine, todo[g] # <<>>
                 PROVE  At(g, "rlock") \/ At(g, "lock")
      OBVIOUS
    <3>1. Head(todo[g]) \in Operation
      BY HeadTailProperties DEF PoolInv, TodoInv
    <3> QED BY <3>1, <2>1, <2>4 DEF At, Operation
  \* A goroutine that asks for the write lock has readers to wait for ...
  <2>6. writer = {} => FALSE
    <3> SUFFICES ASSUME writer = {} PROVE FALSE
      OBVIOUS
    <3>1. waiting = {} BY DEF PoolInv, WaitInv
    <3>2. At(b, "lock") BY <3>1, <2>1, <2>5 DEF Busy
    <3> QED BY <3>2 DEF CanWork
  <2>7. PICK w \in Goroutine : writer = {w} /\ At(w, "lock")
    BY <2>1, <2>6 DEF PoolInv, WriterInv
  <2>8. PICK r : r \in readers BY <2>7 DEF CanWork, Busy, At
  \* ... and a reader does not wait for it.
  <2>9. r \in Goroutine /\ todo[r] # <<>> /\ r \notin waiting
    BY <2>8 DEF PoolInv, ReaderInv, WaitInv
  <2>10. At(r, "lock") BY <2>1, <2>5, <2>9
  <2>11. CASE r \in Lister
    <3>1. Listing(todo[r]) /\ todo[r] \in Seq(Operation)
      BY <2>9, <2>11 DEF PoolInv, TodoInv, ConnInv
    <3>2. 1 \in 1..Len(todo[r]) /\ todo[r][1] = "lock" BY <2>10, <3>1 DEF At
    <3> QED BY <3>1, <3>2 DEF Listing
  <2>12. CASE r \notin Lister
    BY <2>8, <2>10, <2>12 DEF PoolInv, ReaderInv, At
  <2> QED BY <2>11, <2>12
<1> QED BY <1>1, PoolInit, PoolStep, PTL DEF Spec

=============================================================================
