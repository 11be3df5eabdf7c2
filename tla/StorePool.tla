----------------------------- MODULE StorePool -----------------------------
(***************************************************************************)
(* How the store's methods wait for each other: the pool of SQLite         *)
(* connections (database/sql blocks a statement, without a timeout, while  *)
(* SetMaxOpenConns connections are in use) and the RWMutex s.mu (a Lock    *)
(* that waits for readers holds back every later RLock, and its Unlock     *)
(* lets the readers that waited meanwhile in before the next Lock).        *)
(*                                                                         *)
(* A method is the sequence of its operations on these two.  What the      *)
(* statements read and write is the business of module Store.              *)
(***************************************************************************)
EXTENDS Naturals, Sequences, FiniteSets

CONSTANTS
  Lister,   \* goroutines in ListStatus (GET /api/status, checkAlerts) or ListNodesAdmin
  Saver,    \* goroutines in handleHeartbeat
  Editor,   \* goroutines in DeleteNode, UpdateNode or a single-statement method
  MaxConns, \* SetMaxOpenConns
  MaxLoads  \* the most loadTraffic calls one listing makes: two a row

ASSUME GoroutineAssumption ==
  /\ Lister \cap Saver = {} /\ Lister \cap Editor = {} /\ Saver \cap Editor = {}
  /\ IsFiniteSet(Lister) /\ IsFiniteSet(Saver) /\ IsFiniteSet(Editor)
ASSUME BoundAssumption == MaxConns \in Nat \ {0} /\ MaxLoads \in Nat

VARIABLES
  todo,    \* the operations the goroutine's method has left, <<>> when idle
  conns,   \* the connections a goroutine holds
  readers, \* goroutines that hold s.mu for reading
  writer,  \* the goroutine that holds s.mu for writing, or waits for readers to do so
  waiting  \* goroutines in RLock held back by the writer

vars == <<todo, conns, readers, writer, waiting>>

Goroutine == Lister \cup Saver \cup Editor

-----------------------------------------------------------------------------
(* The methods *)

Operation == {"conn", "free", "rlock", "runlock", "lock", "unlock"}

Statement == <<"conn", "free">>     \* Exec, QueryRow, or a whole transaction
Locked    == <<"lock", "unlock">>

\* loadTraffic under computeTraffic: a statement of its own.
LoadTraffic == Statement
LoadsTraffic(times) == [i \in 1..2 * times |-> LoadTraffic[IF i % 2 = 1 THEN 1 ELSE 2]]

\* Mutant: the connection is given back by rows.Next and again by rows.Close.
ListTwice(loads) ==
  <<"conn", "rlock">> \o LoadsTraffic(loads) \o <<"free", "runlock", "free">>

\* ListStatus and ListNodesAdmin: rows stays open, and s.mu read-locked, while
\* the loop calls loadTraffic; the last rows.Next gives the connection back.
List(loads) ==
  <<"conn", "rlock">> \o LoadsTraffic(loads) \o <<"free", "runlock">>

\* NodeByToken and SaveHeartbeat: insert and prune when due, then rollTraffic
\* for a node with a period, with its UPDATE when the period has rolled.
Persist == {<<>>, Statement \o Statement}
Roll == {<<>>, LoadTraffic, LoadTraffic \o Statement}
Heartbeats == {Statement \o Locked \o due[1] \o due[2] : due \in Persist \X Roll}

\* Mutant: DeleteNode takes s.mu inside its transaction.
DeleteInside == <<"conn">> \o Locked \o <<"free">>

\* DeleteNode: the transaction is committed before s.mu is taken.
Delete == Statement \o Locked

\* UpdateNode with a changed period: SetTrafficBaseline reads under s.mu and
\* writes after it.
Update == Statement \o <<"rlock", "runlock">> \o Statement

Programs(g) ==
  IF g \in Lister THEN {List(k) : k \in 0..MaxLoads}
  ELSE IF g \in Saver THEN Heartbeats
  ELSE {Statement, Delete, Update}

-----------------------------------------------------------------------------
InUse == Cardinality({c \in Goroutine \X (1..2) : c[2] <= conns[c[1]]})

Init ==
  /\ todo = [g \in Goroutine |-> <<>>]
  /\ conns = [g \in Goroutine |-> 0]
  /\ readers = {} /\ writer = {} /\ waiting = {}

Call(g) ==
  /\ todo[g] = <<>>
  /\ \E program \in Programs(g) : todo' = [todo EXCEPT ![g] = program]
  /\ UNCHANGED <<conns, readers, writer, waiting>>

\* The goroutine's next operation is op.
At(g, op) == todo[g] # <<>> /\ Head(todo[g]) = op
Done(g) == todo' = [todo EXCEPT ![g] = Tail(@)]

TakeConn(g) ==
  /\ At(g, "conn") /\ InUse < MaxConns
  /\ conns' = [conns EXCEPT ![g] = @ + 1]
  /\ Done(g)
  /\ UNCHANGED <<readers, writer, waiting>>

FreeConn(g) ==
  /\ At(g, "free")
  /\ conns' = [conns EXCEPT ![g] = @ - 1]
  /\ Done(g)
  /\ UNCHANGED <<readers, writer, waiting>>

RLock(g) ==
  /\ At(g, "rlock") /\ g \notin waiting
  /\ \/ /\ writer = {} \/ g \in readers
        /\ readers' = readers \cup {g}
        /\ Done(g)
        /\ UNCHANGED waiting
     \/ /\ writer # {} /\ g \notin readers
        /\ waiting' = waiting \cup {g}
        /\ UNCHANGED <<todo, readers>>
  /\ UNCHANGED <<conns, writer>>

RUnlock(g) ==
  /\ At(g, "runlock")
  /\ readers' = readers \ {g}
  /\ Done(g)
  /\ UNCHANGED <<conns, writer, waiting>>

\* Lock first excludes the other writers, and from here on new readers.
AskLock(g) ==
  /\ At(g, "lock") /\ writer = {}
  /\ writer' = {g}
  /\ UNCHANGED <<todo, conns, readers, waiting>>

Lock(g) ==
  /\ At(g, "lock") /\ writer = {g} /\ readers = {}
  /\ Done(g)
  /\ UNCHANGED <<conns, readers, writer, waiting>>

\* Mutant: the readers that waited are left waiting.
UnlockAlone(g) ==
  /\ At(g, "unlock")
  /\ writer' = {}
  /\ Done(g)
  /\ UNCHANGED <<conns, readers, waiting>>

Unlock(g) ==
  /\ At(g, "unlock")
  /\ writer' = {}
  /\ readers' = waiting /\ waiting' = {}
  /\ Done(g)
  /\ UNCHANGED conns

Work(g) ==
  \/ TakeConn(g) \/ FreeConn(g) \/ RLock(g) \/ RUnlock(g)
  \/ AskLock(g) \/ Lock(g) \/ Unlock(g)

Next == \E g \in Goroutine : Call(g) \/ Work(g)

Spec == Init /\ [][Next]_vars

\* Neither the pool nor sync.RWMutex passes a waiting goroutine over forever.
FairSpec == Spec /\ \A g \in Goroutine : SF_vars(Work(g))

-----------------------------------------------------------------------------
(* Properties *)

Rest(program, k) == SubSeq(program, k, Len(program))

TypeOK ==
  /\ todo \in [Goroutine -> Seq(Operation)]
  /\ \A g \in Goroutine : \E program \in Programs(g) :
       \E k \in 1..Len(program) + 1 : todo[g] = Rest(program, k)
  /\ conns \in [Goroutine -> 0..2]
  /\ readers \subseteq Goroutine /\ waiting \subseteq Goroutine
  /\ writer = {} \/ \E g \in Goroutine : writer = {g}

Busy == {g \in Goroutine : todo[g] # <<>>}

CanWork(g) ==
  \/ At(g, "conn") /\ InUse < MaxConns
  \/ At(g, "rlock") /\ g \notin waiting
  \/ At(g, "lock") /\ (writer = {} \/ (writer = {g} /\ readers = {}))
  \/ \E op \in {"free", "runlock", "unlock"} : At(g, op)

\* A cap on the pool only makes statements wait: while a request is being
\* served, one of them can take its next step.
NeverStuck == Busy # {} => \E g \in Busy : CanWork(g)

\* Every listing, heartbeat and edit that is being served is eventually
\* answered, with writers and listings in each other's way for ever.
RequestsFinish == \A g \in Goroutine : todo[g] # <<>> ~> todo[g] = <<>>

=============================================================================
