----------------------------- MODULE AuthProofs -----------------------------
(***************************************************************************)
(* For any number of sessions, clients and concurrent logins and any       *)
(* values of the options: the types of Auth, the bound on the failures of  *)
(* a window, what a lockout and a refusal mean, and that Auth implements   *)
(* Sessions.                                                               *)
(*                                                                         *)
(* FailuresBounded is not inductive: a login that has passed Allow may     *)
(* still fail, so the invariant counts it with the failures (BurstInv).    *)
(* The refinement needs that an id with an entry was drawn (DrawnInv), so  *)
(* that Create never brings back an id that has ended.                     *)
(***************************************************************************)
EXTENDS Auth, FiniteSetTheorems, TLAPS

\* The logins of client c that were allowed and have not been answered.
Pending(c) == {g \in Login : login[g].pc = "check" /\ login[g].client = c}

\* Every pending login is a failure that may still be counted.
BurstInv ==
  \A c \in Client :
    attempts[c].count + Cardinality(Pending(c)) <= Limit + Cardinality(Login) - 1

\* Ids with an entry were drawn.
DrawnInv == \A s \in Session : byID[s] # 0 => s \in drawn

-----------------------------------------------------------------------------
(* Types *)

\* The bucket after a failure is a bucket.
LEMMA FailedType == ASSUME TypeOK, NEW c \in Client PROVE Failed(c) \in Bucket
<1>1. now + Window \in Nat /\ attempts[c] \in Bucket
  BY OptionAssumption DEF TypeOK
<1>2. CASE WindowOver(c)
  BY <1>1, <1>2 DEF Failed, Bucket
<1>3. CASE ~WindowOver(c)
  BY <1>1, <1>3 DEF Failed, Bucket
<1> QED  BY <1>2, <1>3

\* What eviction leaves is a table.
LEMMA EvictType ==
  TypeOK => Evicted \in [Session -> Nat] /\ EvictIfFull \in [Session -> Nat]
  BY DEF TypeOK, Evicted, EvictIfFull

\* Every step of a login, a request, the sweep and the process keeps the types.
LEMMA TypeStep == TypeOK /\ [Next]_vars => TypeOK'
<1> SUFFICES ASSUME TypeOK, [Next]_vars PROVE TypeOK'
  OBVIOUS
<1> USE DEF TypeOK
<1>1. NoBucket \in Bucket /\ Idle \in Frame
  BY DEF NoBucket, Bucket, Idle, Frame
<1>2. now + TTL \in Nat /\ now + 1 \in Nat
  BY OptionAssumption
<1>3. ASSUME NEW g \in Login, NEW c \in Client, Allow(g, c) PROVE TypeOK'
  <2>1. [pc |-> "check", client |-> c] \in Frame
    BY DEF Frame
  <2> QED  BY <1>1, <1>3, <2>1 DEF Allow, Goto
<1>4. ASSUME NEW g \in Login, BadRequest(g) PROVE TypeOK'
  BY <1>1, <1>4 DEF BadRequest, Goto
<1>5. ASSUME NEW g \in Login, login[g].pc = "check" PROVE login[g].client \in Client \cup {NoClient}
  BY DEF Frame
<1>6. ASSUME NEW g \in Login, Fail(g) PROVE TypeOK'
  <2>1. login' \in [Login -> Frame]
    BY <1>1, <1>6 DEF Fail, Goto
  <2>2. attempts' \in [Client -> Bucket]
    <3> DEFINE c == login[g].client
    <3>1. CASE c \in Client
      BY <3>1, <1>6, FailedType DEF Fail
    <3>2. CASE c \notin Client
      BY <3>2, <1>6 DEF Fail
    <3> QED  BY <3>1, <3>2
  <2> QED  BY <1>6, <2>1, <2>2 DEF Fail
<1>7. ASSUME NEW g \in Login, Reset(g) PROVE TypeOK'
  <2>1. [login[g] EXCEPT !.pc = "create"] \in Frame
    BY DEF Frame
  <2> QED  BY <1>1, <1>7, <2>1 DEF Reset, Goto
<1>8. ASSUME NEW g \in Login, Create(g) PROVE TypeOK'
  BY <1>1, <1>2, <1>8, EvictType DEF Create, Goto
<1>9. ASSUME NEW s \in Session, Check(s) PROVE TypeOK'
  BY <1>2, <1>9 DEF Check, Checked
<1>10. ASSUME NEW s \in Session, Revoke(s) PROVE TypeOK'
  BY <1>10 DEF Revoke
<1>11. CASE Sweep
  BY <1>11, EvictType DEF Sweep
<1>12. CASE Restart
  BY <1>1, <1>12 DEF Restart
<1>13. CASE Tick
  BY <1>2, <1>13 DEF Tick
<1>14. CASE UNCHANGED vars
  BY <1>14 DEF vars
<1> QED
  BY <1>3, <1>4, <1>6, <1>7, <1>8, <1>9, <1>10, <1>11, <1>12, <1>13, <1>14
  DEF Next, HandleLogin

\* Every variable of Auth keeps its type.
THEOREM AuthTyped == Spec => []TypeOK
<1>1. Init => TypeOK
  BY DEF Init, TypeOK, NoBucket, Bucket, Idle, Frame
<1> QED  BY <1>1, TypeStep, PTL DEF Spec

-----------------------------------------------------------------------------
(* The failures of a window *)

\* Pending logins are logins: there are at most as many.
LEMMA PendingFinite ==
  ASSUME NEW c PROVE /\ IsFiniteSet(Pending(c)) /\ Cardinality(Pending(c)) \in Nat
                     /\ Cardinality(Login) \in Nat
                     /\ Cardinality(Pending(c)) <= Cardinality(Login)
<1>1. Pending(c) \in SUBSET Login
  BY DEF Pending
<1> QED  BY <1>1, LoginAssumption, FS_Subset, FS_CardinalityType

\* A login that goes on from "check" is no longer pending, and the others are.
LEMMA PendingAnswered ==
  ASSUME TypeOK, NEW g \in Login, login[g].pc = "check", NEW f, f.pc # "check",
         Goto(g, f)
  PROVE  \A c \in Client : Pending(c)' = Pending(c) \ {g}
  BY DEF TypeOK, Pending, Goto

\* A step keeps what FailuresBounded rests on.
LEMMA BurstStep == TypeOK /\ BurstInv /\ [Next]_vars => BurstInv'
<1> SUFFICES ASSUME TypeOK, BurstInv, [Next]_vars, NEW c \in Client
             PROVE  attempts'[c].count + Cardinality(Pending(c)')
                      <= Limit + Cardinality(Login) - 1
  BY DEF BurstInv
<1> DEFINE L == Cardinality(Login)
           P == Cardinality(Pending(c))
           Q == Cardinality(Pending(c)')
<1>0. /\ L \in Nat /\ P \in Nat /\ P <= L /\ IsFiniteSet(Pending(c))
      /\ Limit \in Nat \ {0} /\ attempts[c].count \in Nat
      /\ attempts[c].count + P <= Limit + L - 1
  BY PendingFinite, OptionAssumption DEF TypeOK, Bucket, BurstInv
<1>1. Q \in Nat /\ Q <= L
  <2>1. Pending(c)' \in SUBSET Login
    BY DEF Pending
  <2> QED  BY <2>1, LoginAssumption, FS_Subset, FS_CardinalityType
<1>2. ASSUME attempts'[c].count = attempts[c].count, Q <= P
      PROVE  attempts'[c].count + Q <= Limit + L - 1
  BY <1>0, <1>1, <1>2
<1>3. ASSUME attempts'[c] = NoBucket PROVE attempts'[c].count + Q <= Limit + L - 1
  BY <1>0, <1>1, <1>3 DEF NoBucket
<1>4. ASSUME Pending(c)' = Pending(c) PROVE Q = P
  BY <1>4
<1>5. ASSUME NEW g \in Login, NEW d \in Client, Allow(g, d)
      PROVE  attempts'[c].count + Q <= Limit + L - 1
  <2>1. CASE d # c
    <3>1. Pending(c)' = Pending(c)
      BY <1>5, <2>1 DEF Allow, Goto, Idle, Pending, TypeOK
    <3>2. attempts'[c] = attempts[c]
      BY <1>5, <2>1 DEF Allow, TypeOK
    <3> QED  BY <1>0, <1>2, <1>4, <3>1, <3>2
  <2>2. CASE d = c /\ WindowOver(c)
    BY <1>3, <1>5, <2>2 DEF Allow, TypeOK
  <2>3. CASE d = c /\ ~WindowOver(c)
    <3>1. attempts' = attempts /\ attempts[c].count < Limit
      BY <1>5, <2>3 DEF Allow
    <3> QED  BY <1>0, <1>1, <3>1
  <2> QED  BY <2>1, <2>2, <2>3
<1>6. ASSUME NEW g \in Login, login[g].pc = "check", NEW f, f.pc # "check", Goto(g, f)
      PROVE  /\ Q <= P
             /\ login[g].client = c => Q = P - 1
  <2>1. Pending(c)' = Pending(c) \ {g}
    BY <1>6, PendingAnswered
  <2>2. login[g].client = c => g \in Pending(c)
    BY <1>6 DEF Pending
  <2>3. Cardinality(Pending(c) \ {g}) = IF g \in Pending(c) THEN P - 1 ELSE P
    BY <1>0, FS_RemoveElement
  <2> QED  BY <1>0, <2>1, <2>2, <2>3
<1>7. Idle.pc # "check"
  BY DEF Idle
<1>8. ASSUME NEW g \in Login, BadRequest(g)
      PROVE  attempts'[c].count + Q <= Limit + L - 1
  BY <1>2, <1>6, <1>7, <1>8 DEF BadRequest
<1>9. ASSUME NEW g \in Login, Fail(g)
      PROVE  attempts'[c].count + Q <= Limit + L - 1
  <2>1. /\ Q <= P
        /\ login[g].client = c => Q = P - 1
    BY <1>6, <1>7, <1>9 DEF Fail
  <2>2. CASE login[g].client # c
    <3>1. attempts'[c] = attempts[c]
      BY <1>9, <2>2 DEF Fail, TypeOK
    <3> QED  BY <1>2, <2>1, <3>1
  <2>3. CASE login[g].client = c
    <3>1. attempts'[c] = Failed(c)
      BY <1>9, <2>3 DEF Fail, TypeOK
    <3>2. Failed(c).count = 1 \/ Failed(c).count = attempts[c].count + 1
      BY DEF Failed, TypeOK, Bucket
    <3> QED  BY <1>0, <1>1, <2>1, <2>3, <3>1, <3>2
  <2> QED  BY <2>2, <2>3
<1>10. ASSUME NEW g \in Login, Reset(g)
       PROVE  attempts'[c].count + Q <= Limit + L - 1
  <2> DEFINE f == [login[g] EXCEPT !.pc = "create"]
  <2>1. f.pc # "check"
    BY DEF TypeOK, Frame
  <2>2. Q <= P
    BY <1>6, <1>10, <2>1 DEF Reset
  <2>3. CASE login[g].client = c
    BY <1>3, <1>10, <2>3 DEF Reset, TypeOK
  <2>4. CASE login[g].client # c
    <3>1. attempts'[c] = attempts[c]
      BY <1>10, <2>4 DEF Reset, TypeOK
    <3> QED  BY <1>2, <2>2, <3>1
  <2> QED  BY <2>3, <2>4
<1>11. ASSUME NEW g \in Login, Create(g)
       PROVE  attempts'[c].count + Q <= Limit + L - 1
  <2>1. Pending(c)' = Pending(c)
    BY <1>11 DEF Create, Goto, Idle, Pending, TypeOK
  <2> QED  BY <1>0, <1>2, <1>4, <1>11, <2>1 DEF Create
<1>12. ASSUME UNCHANGED <<attempts, login>>
       PROVE  attempts'[c].count + Q <= Limit + L - 1
  <2>1. Pending(c)' = Pending(c)
    BY <1>12 DEF Pending
  <2> QED  BY <1>0, <1>2, <1>4, <1>12, <2>1
<1>13. CASE Restart
  BY <1>3, <1>13 DEF Restart
<1> QED
  BY <1>5, <1>8, <1>9, <1>10, <1>11, <1>12, <1>13
  DEF Next, HandleLogin, Check, Revoke, Sweep, Tick, vars

\* However many logins of a client overlap, a window of the limiter counts at
\* most the limit and one failure for every other login in flight.
THEOREM WindowBounded == Spec => []FailuresBounded
<1>1. Init => TypeOK /\ BurstInv
  <2> SUFFICES ASSUME Init PROVE TypeOK /\ BurstInv
    OBVIOUS
  <2>1. TypeOK
    BY DEF Init, TypeOK, NoBucket, Bucket, Idle, Frame
  <2>2. ASSUME NEW c \in Client
        PROVE  attempts[c].count + Cardinality(Pending(c)) <= Limit + Cardinality(Login) - 1
    <3>1. attempts[c].count = 0
      BY DEF Init, NoBucket
    <3> QED  BY <3>1, PendingFinite, OptionAssumption
  <2> QED  BY <2>1, <2>2 DEF BurstInv
<1>2. TypeOK /\ BurstInv => FailuresBounded
  <2> SUFFICES ASSUME TypeOK, BurstInv, NEW c \in Client
               PROVE  attempts[c].count <= Limit + Cardinality(Login) - 1
    BY DEF FailuresBounded
  <2> QED  BY PendingFinite, OptionAssumption DEF BurstInv, TypeOK, Bucket
<1> QED  BY <1>1, <1>2, TypeStep, BurstStep, PTL DEF Spec

-----------------------------------------------------------------------------
(* What a lockout and a refusal mean *)

\* The end of a lockout is fixed by the failure that started its window: neither
\* the failures of logins that were already allowed nor anything else moves it.
THEOREM LockoutsFixed == Spec => LockoutFixed
<1>1. TypeOK /\ [Next]_vars
        => [\A c \in Client :
              LockedOut(c) /\ LockedOut(c)' => attempts'[c].until = attempts[c].until]_vars
  <2> SUFFICES ASSUME TypeOK, Next, NEW c \in Client, LockedOut(c), LockedOut(c)'
               PROVE  attempts'[c].until = attempts[c].until
    OBVIOUS
  <2> USE DEF TypeOK
  <2>1. ~WindowOver(c) BY DEF LockedOut
  <2>2. attempts'[c] # NoBucket
    BY OptionAssumption DEF LockedOut, NoBucket
  <2>3. ASSUME NEW g \in Login, NEW d \in Client, Allow(g, d)
        PROVE  attempts'[c] = attempts[c]
    BY <2>1, <2>3 DEF Allow
  <2>4. ASSUME NEW g \in Login, Fail(g)
        PROVE  attempts'[c].until = attempts[c].until
    <3>1. CASE login[g].client # c BY <3>1, <2>4 DEF Fail
    <3>2. CASE login[g].client = c
      <4>1. attempts'[c] = [attempts[c] EXCEPT !.count = @ + 1]
        BY <3>2, <2>1, <2>4 DEF Fail, Failed
      <4> QED BY <4>1 DEF Bucket
    <3> QED BY <3>1, <3>2
  <2>5. ASSUME NEW g \in Login, Reset(g) PROVE attempts'[c] = attempts[c]
    BY <2>2, <2>5 DEF Reset
  <2>6. ~Restart BY <2>2 DEF Restart
  <2> QED
    BY <2>3, <2>4, <2>5, <2>6
    DEF Next, HandleLogin, BadRequest, Create, Check, Revoke, Sweep, Tick
<1> QED BY <1>1, AuthTyped, PTL DEF Spec, LockoutFixed

\* A login whose password was right gets no session only when as many sessions as
\* the cap allows are in use, whatever expired ones the table still holds.
THEOREM RefusalsJustified == Spec => RefusedOnlyWhenFull
<1>1. TypeOK /\ [Next]_vars
        => [\A g \in Login :
              /\ login[g].pc = "create" /\ login'[g].pc = "idle" /\ drawn' = drawn
              /\ Entries' # {}
              => Cardinality(Live) >= MaxCap]_vars
  <2> SUFFICES ASSUME TypeOK, Next, NEW g \in Login,
                      login[g].pc = "create", login'[g].pc = "idle", drawn' = drawn,
                      Entries' # {}
               PROVE  Cardinality(Live) >= MaxCap
    OBVIOUS
  <2> USE DEF TypeOK
  <2>1. ~Restart BY DEF Restart, Entries
  <2>2. Create(g)
    <3>1. ASSUME NEW h \in Login, HandleLogin(h), h # g PROVE FALSE
      BY <3>1 DEF HandleLogin, Allow, BadRequest, Fail, Reset, Create, Goto
    <3>2. ASSUME HandleLogin(g) PROVE Create(g)
      <4>1. login[g] # Idle BY DEF Idle
      <4> QED BY <3>2, <4>1 DEF HandleLogin, Allow, BadRequest, Fail, Reset
    <3> QED
      BY <2>1, <3>1, <3>2 DEF Next, Check, Revoke, Sweep, Tick
  <2>3. ~HasRoom(EvictIfFull) BY <2>2 DEF Create
  <2>4. Live \in SUBSET Session /\ Entries \in SUBSET Session BY DEF Live, Entries
  <2>5. Cardinality(Live) \in Nat /\ Cardinality(Entries) \in Nat
    BY <2>4, LoginAssumption, FS_Subset, FS_CardinalityType
  <2>6. CASE Cardinality(Entries) >= MaxCap
    <3>1. {s \in Session : EvictIfFull[s] # 0} = Live
      BY <2>6 DEF EvictIfFull, Evicted, Live
    <3>2. ~(Cardinality(Live) < MaxCap) BY <2>3, <3>1 DEF HasRoom
    <3> QED BY <2>5, <3>2, OptionAssumption
  <2>7. CASE ~(Cardinality(Entries) >= MaxCap)
    <3>1. {s \in Session : EvictIfFull[s] # 0} = Entries
      BY <2>7 DEF EvictIfFull, Entries
    <3> QED BY <2>3, <2>5, <2>7, <3>1, OptionAssumption DEF HasRoom
  <2> QED BY <2>6, <2>7
<1> QED BY <1>1, AuthTyped, PTL DEF Spec, RefusedOnlyWhenFull

-----------------------------------------------------------------------------
(* The refinement *)

\* Only Create adds an entry, and it draws the id.
LEMMA DrawnStep == TypeOK /\ DrawnInv /\ [Next]_vars => DrawnInv'
<1> SUFFICES ASSUME TypeOK, DrawnInv, [Next]_vars PROVE DrawnInv'
  OBVIOUS
<1> USE DEF TypeOK, DrawnInv
<1>1. ASSUME NEW s \in Session, EvictIfFull[s] # 0 PROVE s \in drawn
  BY <1>1 DEF EvictIfFull, Evicted
<1>2. ASSUME NEW g \in Login, Create(g) PROVE DrawnInv'
  BY <1>1, <1>2, EvictType DEF Create
<1>3. ASSUME NEW s \in Session, Check(s) PROVE DrawnInv'
  BY <1>3 DEF Check, Entries
<1>4. ASSUME NEW s \in Session, Revoke(s) PROVE DrawnInv'
  BY <1>4 DEF Revoke
<1>5. CASE Sweep
  BY <1>5 DEF Sweep, Evicted
<1>6. CASE Restart
  BY <1>6 DEF Restart
<1>7. ASSUME UNCHANGED <<byID, drawn>> PROVE DrawnInv'
  BY <1>7
<1> QED
  BY <1>2, <1>3, <1>4, <1>5, <1>6, <1>7
  DEF Next, HandleLogin, Allow, BadRequest, Fail, Reset, Tick, vars

\* Live sessions have an entry and so were drawn.
LEMMA LiveDrawn == TypeOK /\ DrawnInv => Live \subseteq drawn /\ Live \subseteq Session
  BY DEF TypeOK, DrawnInv, Live

\* A step that draws no id and revives no session ends the sessions that are
\* no longer live.
LEMMA EndStep ==
  ASSUME TypeOK, DrawnInv, Live' \subseteq Live, drawn' = drawn
  PROVE  Promise!Next
<1> DEFINE S == Live \ Live'
<1>1. S \in SUBSET Live
  OBVIOUS
<1>2. Promise!End(S)
  BY LiveDrawn DEF Promise!End
<1> QED  BY <1>1, <1>2 DEF Promise!Next

\* Every step of Auth is a step of Sessions or leaves it alone.
LEMMA RefinementStep ==
  TypeOK /\ DrawnInv /\ [Next]_vars => [Promise!Next]_<<Live, drawn \ Live>>
<1> SUFFICES ASSUME TypeOK, DrawnInv, [Next]_vars
             PROVE  Promise!Next \/ UNCHANGED <<Live, drawn \ Live>>
  OBVIOUS
<1> USE DEF TypeOK
<1>1. ASSUME NEW g \in Login, Create(g)
      PROVE  Promise!Next \/ UNCHANGED <<Live, drawn \ Live>>
  <2> DEFINE T == EvictIfFull
             Kept == {s \in Session : T[s] # 0}
  <2>1. /\ T \in [Session -> Nat]
        /\ \A s \in Session : now < T[s] <=> s \in Live
    BY EvictType DEF EvictIfFull, Evicted, Live
  <2>2. CASE byID' = T /\ drawn' = drawn
    <3>1. Live' = Live
      BY <1>1, <2>1, <2>2 DEF Live, Create
    <3> QED  BY <2>2, <3>1
  <2>3. ASSUME HasRoom(T), NEW s \in Session \ drawn,
               byID' = [T EXCEPT ![s] = now + TTL], drawn' = drawn \cup {s}
        PROVE  Promise!Begin(s)
    <3>1. now' = now /\ now < now + TTL
      BY <1>1, OptionAssumption DEF Create
    <3>2. Live' = Live \cup {s}
      BY <2>1, <2>3, <3>1 DEF Live
    <3>3. s \notin Live
      BY <2>3, LiveDrawn
    <3>4. Cardinality(Live) < MaxCap
      <4>1. Live \in SUBSET Kept
        BY <2>1 DEF Live
      <4>2. Kept \in SUBSET Session
        OBVIOUS
      <4>3. IsFiniteSet(Kept)
        BY <4>2, LoginAssumption, FS_Subset
      <4>4. /\ Cardinality(Live) \in Nat /\ Cardinality(Kept) \in Nat
            /\ Cardinality(Live) <= Cardinality(Kept)
        BY <4>1, <4>3, FS_Subset, FS_CardinalityType
      <4>5. Cardinality(Kept) < MaxCap
        BY <2>3 DEF HasRoom
      <4> QED  BY <4>4, <4>5, OptionAssumption
    <3>5. (drawn \ Live)' = drawn \ Live
      BY <2>3, <3>2, <3>3
    <3>6. Promise!Cardinality(Live) = Cardinality(Live)
      BY DEF Promise!Cardinality, Cardinality
    <3> QED  BY <2>3, <3>2, <3>3, <3>4, <3>5, <3>6 DEF Promise!Begin
  <2> QED  BY <1>1, <2>2, <2>3 DEF Create, Promise!Next
<1>2. ASSUME NEW s \in Session, Check(s) PROVE Promise!Next
  <2>1. Live' \subseteq Live /\ drawn' = drawn
    BY <1>2 DEF Check, Checked, Live
  <2> QED  BY <2>1, EndStep
<1>3. ASSUME NEW s \in Session, Revoke(s) PROVE Promise!Next
  <2>1. Live' \subseteq Live /\ drawn' = drawn
    BY <1>3 DEF Revoke, Live
  <2> QED  BY <2>1, EndStep
<1>4. CASE Sweep
  <2>1. Live' \subseteq Live /\ drawn' = drawn
    BY <1>4 DEF Sweep, Evicted, Live
  <2> QED  BY <2>1, EndStep
<1>5. CASE Restart
  <2>1. Live' \subseteq Live /\ drawn' = drawn
    BY <1>5 DEF Restart, Live
  <2> QED  BY <2>1, EndStep
<1>6. CASE Tick
  <2>1. Live' \subseteq Live /\ drawn' = drawn
    BY <1>6 DEF Tick, Live
  <2> QED  BY <2>1, EndStep
<1>7. ASSUME UNCHANGED <<now, byID, drawn>> PROVE UNCHANGED <<Live, drawn \ Live>>
  BY <1>7 DEF Live
<1> QED
  BY <1>1, <1>2, <1>3, <1>4, <1>5, <1>6, <1>7
  DEF Next, HandleLogin, Allow, BadRequest, Fail, Reset, vars

\* Auth implements Sessions: whatever checks, logouts, evictions, sweeps and
\* restarts happen in whatever order, a session that has ended stays ended.
THEOREM SessionsRefined == Spec => SessionsEndOnce
<1>1. Init => TypeOK /\ DrawnInv
  BY DEF Init, TypeOK, DrawnInv, NoBucket, Bucket, Idle, Frame
<1>2. Init => Promise!Init
  BY DEF Init, Promise!Init, Live
<1> QED
  BY <1>1, <1>2, TypeStep, DrawnStep, RefinementStep, PTL
  DEF Spec, SessionsEndOnce, Promise!Spec

=============================================================================
