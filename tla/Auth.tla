-------------------------------- MODULE Auth --------------------------------
(***************************************************************************)
(* Admin access to the hub: SessionStore (internal/hub/session.go),        *)
(* LoginLimiter (internal/hub/ratelimit.go) and the handlers between them  *)
(* (handleLogin, handleLogout, authorized in internal/hub/server.go).      *)
(* Each of the two has a mutex of its own; a login passes the limiter,     *)
(* compares the password without any lock, which takes long, and comes     *)
(* back to the limiter and then to the sessions.  A step is one critical   *)
(* section.  A client is the key clientKey derives for a request; a time   *)
(* of 0 means that the map has no entry.                                   *)
(***************************************************************************)
EXTENDS Naturals, FiniteSets

CONSTANTS
  Client,        \* keys of the limiter
  Session,       \* ids Create can draw (32 random bytes: none is drawn twice)
  Login,         \* goroutines that serve POST /api/admin/login
  NoClient,      \* the client of an idle goroutine
  MaxCap, TTL,   \* SessionStore
  Limit, Window, \* LoginLimiter
  MaxTime        \* bound of the exploration

ASSUME ClientAssumption == NoClient \notin Client
ASSUME LoginAssumption == IsFiniteSet(Login) /\ IsFiniteSet(Session)
ASSUME OptionAssumption ==
  /\ MaxCap \in Nat /\ TTL \in Nat \ {0}
  /\ Limit \in Nat \ {0} /\ Window \in Nat \ {0}
ASSUME BoundAssumption == MaxTime \in Nat

VARIABLES
  now,      \* the hub's clock; starts at 1, so that 0 is the zero time
  byID,     \* SessionStore.byID: the deadline of a session
  drawn,    \* the ids drawn so far
  attempts, \* LoginLimiter.attempts
  login     \* the logins in progress

vars == <<now, byID, drawn, attempts, login>>

Bucket == [count : Nat, until : Nat]
NoBucket == [count |-> 0, until |-> 0]

\* "check": allowed, the body is read and the password compared; "create": the
\* password was right and the client's bucket is cleared.
Frame == [pc : {"idle", "check", "create"}, client : Client \cup {NoClient}]
Idle == [pc |-> "idle", client |-> NoClient]

Init ==
  /\ now = 1
  /\ byID = [s \in Session |-> 0]
  /\ drawn = {}
  /\ attempts = [c \in Client |-> NoBucket]
  /\ login = [g \in Login |-> Idle]

Goto(g, frame) == login' = [login EXCEPT ![g] = frame]

-----------------------------------------------------------------------------
(* LoginLimiter *)

\* The window of the client's bucket is over: !now.Before(until).
WindowOver(c) == now >= attempts[c].until

\* Mutant: the limit itself is still allowed.
AllowAtLimit(g, c) ==
  /\ login[g] = Idle
  /\ WindowOver(c) \/ attempts[c].count <= Limit
  /\ attempts' = IF WindowOver(c) THEN [attempts EXCEPT ![c] = NoBucket] ELSE attempts
  /\ Goto(g, [pc |-> "check", client |-> c])
  /\ UNCHANGED <<now, byID, drawn>>

\* handleLogin asks Allow, which drops a bucket whose window is over.  A client
\* that is not allowed gets a 429 and nothing changes.
Allow(g, c) ==
  /\ login[g] = Idle
  /\ WindowOver(c) \/ attempts[c].count < Limit
  /\ attempts' = IF WindowOver(c) THEN [attempts EXCEPT ![c] = NoBucket] ELSE attempts
  /\ Goto(g, [pc |-> "check", client |-> c])
  /\ UNCHANGED <<now, byID, drawn>>

\* The body is not JSON, or the connection breaks.
BadRequest(g) ==
  /\ login[g].pc = "check"
  /\ Goto(g, Idle)
  /\ UNCHANGED <<now, byID, drawn, attempts>>

\* Mutants: a failure moves the end of the window, or the window is dated back.
FailedSliding(c) == [count |-> IF WindowOver(c) THEN 1 ELSE attempts[c].count + 1,
                     until |-> now + Window]
FailedBackdated(c) ==
  IF WindowOver(c) THEN [count |-> 1, until |-> now - Window]
  ELSE [attempts[c] EXCEPT !.count = @ + 1]

\* The bucket after one more failed attempt: the first failure of a window
\* starts it.
Failed(c) ==
  IF WindowOver(c) THEN [count |-> 1, until |-> now + Window]
  ELSE [attempts[c] EXCEPT !.count = @ + 1]

\* The password is wrong: Fail, then 401 or 429.
Fail(g) ==
  /\ login[g].pc = "check"
  /\ attempts' = [attempts EXCEPT ![login[g].client] = Failed(login[g].client)]
  /\ Goto(g, Idle)
  /\ UNCHANGED <<now, byID, drawn>>

\* The password is right: Reset.
Reset(g) ==
  /\ login[g].pc = "check"
  /\ attempts' = [attempts EXCEPT ![login[g].client] = NoBucket]
  /\ Goto(g, [login[g] EXCEPT !.pc = "create"])
  /\ UNCHANGED <<now, byID, drawn>>

-----------------------------------------------------------------------------
(* SessionStore *)

Entries == {s \in Session : byID[s] # 0}

\* Not yet at the deadline: now.Before(exp).
Live == {s \in Session : now < byID[s]}

\* evictLocked.
Evicted == [s \in Session |-> IF s \in Live THEN byID[s] ELSE 0]

\* Mutant: expired sessions are not evicted when the table is full.
EvictIfFullNever == byID

\* Create evicts only when the table is full.
EvictIfFull == IF Cardinality(Entries) >= MaxCap THEN Evicted ELSE byID

HasRoom(table) == Cardinality({s \in Session : table[s] # 0}) < MaxCap

\* handleLogin ends with Create: a new session, or a 503 when even the evicted
\* table is full.
Create(g) ==
  /\ login[g].pc = "create"
  /\ \/ /\ HasRoom(EvictIfFull)
        /\ \E s \in Session \ drawn :
             /\ byID' = [EvictIfFull EXCEPT ![s] = now + TTL]
             /\ drawn' = drawn \cup {s}
     \/ /\ ~HasRoom(EvictIfFull)
        /\ byID' = EvictIfFull
        /\ UNCHANGED drawn
  /\ Goto(g, Idle)
  /\ UNCHANGED <<now, attempts>>

\* Mutant: any entry is refreshed, expired or not.
CheckedAlways(s) == now + TTL

\* The deadline a check leaves behind: it is pushed out, or the entry dropped.
Checked(s) == IF s \in Live THEN now + TTL ELSE 0

\* A request with the cookie of session s reaches authorized: Check.
Check(s) ==
  /\ s \in Entries
  /\ byID' = [byID EXCEPT ![s] = Checked(s)]
  /\ UNCHANGED <<now, drawn, attempts, login>>

\* handleLogout.
Revoke(s) ==
  /\ s \in Entries
  /\ byID' = [byID EXCEPT ![s] = 0]
  /\ UNCHANGED <<now, drawn, attempts, login>>

\* Mutant: the sweep keeps the sessions that are at most TTL past their deadline.
SweepLate ==
  /\ byID' = [s \in Session |-> IF now < byID[s] + TTL THEN byID[s] ELSE 0]
  /\ UNCHANGED <<now, drawn, attempts, login>>

\* sweepLoop calls Sweep on its ticker.
Sweep ==
  /\ byID' = Evicted
  /\ UNCHANGED <<now, drawn, attempts, login>>

-----------------------------------------------------------------------------
\* Both maps are in memory: a new process starts without them.
Restart ==
  /\ byID' = [s \in Session |-> 0]
  /\ attempts' = [c \in Client |-> NoBucket]
  /\ login' = [g \in Login |-> Idle]
  /\ UNCHANGED <<now, drawn>>

Tick ==
  /\ now < MaxTime
  /\ now' = now + 1
  /\ UNCHANGED <<byID, drawn, attempts, login>>

HandleLogin(g) ==
  \/ \E c \in Client : Allow(g, c)
  \/ BadRequest(g) \/ Fail(g) \/ Reset(g) \/ Create(g)

Next ==
  \/ \E g \in Login : HandleLogin(g)
  \/ \E s \in Session : Check(s) \/ Revoke(s)
  \/ Sweep \/ Restart \/ Tick

Spec == Init /\ [][Next]_vars

\* The sweeper's ticker keeps firing while the hub runs.
FairSpec == Spec /\ WF_vars(Sweep)

-----------------------------------------------------------------------------
(* Properties *)

TypeOK ==
  /\ now \in Nat
  /\ byID \in [Session -> Nat]
  /\ drawn \subseteq Session
  /\ attempts \in [Client -> Bucket]
  /\ login \in [Login -> Frame]

\* Allow, the password comparison and Fail are separate sections, so concurrent
\* logins of one client can all pass Allow before the first of them fails.  In
\* spite of that a window never holds more failures than the limit and one for
\* every other login in flight.
FailuresBounded ==
  \A c \in Client : attempts[c].count <= Limit + Cardinality(Login) - 1

\* A client that is locked out stays so until the window of its first failure
\* is over and no longer: attempts that were already allowed and fail during
\* the lockout do not extend it.
LockedOut(c) == ~WindowOver(c) /\ attempts[c].count >= Limit

LockoutFixed ==
  [][\A c \in Client :
       LockedOut(c) /\ LockedOut(c)' => attempts'[c].until = attempts[c].until]_vars

\* handleLogin has cleared the limiter when Create refuses: it may refuse only
\* when as many sessions as the cap are still in use, not for expired ones.
RefusedOnlyWhenFull ==
  [][\A g \in Login :
       /\ login[g].pc = "create" /\ login'[g].pc = "idle" /\ drawn' = drawn
       /\ Entries' # {} \* not a restart
       => Cardinality(Live) >= MaxCap]_vars

\* The sweep removes the sessions nobody asked about again.
ExpiredSwept ==
  \A s \in Session : s \in Entries \ Live ~> s \notin Entries \ Live

\* Sliding deadlines, eviction, sweep, logout and restart, in any order, give
\* every session id one life: a session that was revoked, or not used for TTL,
\* never passes Check again.
Promise == INSTANCE Sessions WITH live <- Live, ended <- drawn \ Live
SessionsEndOnce == Promise!Spec

=============================================================================
