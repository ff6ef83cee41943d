------------------------- MODULE MigrationSessions --------------------------
(***************************************************************************)
(* The connections of a migrate() call: the history store of packages/pg   *)
(* and packages/mysql, which keeps the session of its advisory lock, on    *)
(* the executor that hands out the connections of a pool.  Several calls   *)
(* share a store, several processes (a store each) share the server, and   *)
(* a program may close a migrator while its calls still run.               *)
(*                                                                         *)
(* Whether a call succeeds is left out: done and failed are both "ended".  *)
(***************************************************************************)
EXTENDS Integers, FiniteSets

CONSTANTS
    Calls,     \* calls of migrate()
    Stores,    \* migrators: a history store and its executor
    StoreOf,   \* the migrator of a call
    Conns,     \* connections to the server
    Home,      \* the migrator whose pool a connection belongs to
    Awaiting,  \* migrators whose program awaits a call before the next one
    MaxSteps,  \* bound: migrations a call has to run
    MaxDrops,  \* bound: connections that are lost
    None

ASSUME SessionsAssumption ==
    /\ StoreOf \in [Calls -> Stores]
    /\ Home \in [Conns -> Stores]
    /\ Awaiting \subseteq Stores
    /\ {MaxSteps, MaxDrops} \subseteq Nat
    /\ Calls \cap Stores = {}
    /\ None \notin Calls \cup Stores \cup Conns

VARIABLES
    pc,       \* where each call, and each close() of a migrator, stands
    todo,     \* migrations a call has not run yet
    work,     \* the connection of a call's statement or transaction
    sess,     \* the connection of the session a call acquired
    open,     \* the calls whose session was not released yet
    locked,   \* per store, lockSession: the call that acquired it
    mine,     \* the session a releaseLock in progress has read
    out,      \* connections checked out of their pool
    dead,     \* connections the server has dropped
    lock,     \* the connection that has the server's lock
    drops

vars == <<pc, todo, work, sess, open, locked, mine, out, dead, lock, drops>>

\* What runs releaseLock: a call when it ends, or close().
Actors == Calls \cup Stores
At(p) == IF p \in Stores THEN p ELSE StoreOf[p]
PoolOf(s) == {k \in Conns : Home[k] = s}

Init ==
    /\ pc = [p \in Actors |-> IF p \in Stores THEN "serving" ELSE "called"]
    /\ todo = [c \in Calls |-> 0]
    /\ work = [c \in Calls |-> None]
    /\ sess = [c \in Calls |-> None]
    /\ open = {}
    /\ locked = [s \in Stores |-> None]
    /\ mine = [p \in Actors |-> None]
    /\ out = {}
    /\ dead = {}
    /\ lock = None
    /\ drops = 0

Goto(p, from, to) == pc[p] = from /\ pc' = [pc EXCEPT ![p] = to]

Ended(s) == pc[s] = "closed"

\* #acquireClient: a connection of the pool that nobody has; which one makes
\* no difference.
Idle(s) == IF Ended(s) THEN {} ELSE PoolOf(s) \ out
Client(c) == CHOOSE k \in Idle(StoreOf[c]) : TRUE
CheckOut(c) ==
    /\ Idle(StoreOf[c]) # {}
    /\ out' = out \cup {Client(c)}

\* Broken variant: a statement's connection is not released.
NeverBack(ks) == UNCHANGED <<out, dead>>

\* A connection comes back to its pool, which replaces a dead one.
Back(ks) ==
    /\ out' = out \ ks
    /\ dead' = dead \ {k \in ks : ~Ended(Home[k])}

-----------------------------------------------------------------------------
\* The program makes the call: it need not await those it made before.
Callable(c) ==
    StoreOf[c] \in Awaiting =>
        \A other \in Calls \ {c} :
            StoreOf[other] = StoreOf[c] => pc[other] \in {"called", "ended"}

\* plan(): the history is read on a connection of its own, before the lock.
ReadHistory(c) ==
    /\ Callable(c)
    /\ Goto(c, "called", "planning")
    /\ CheckOut(c)
    /\ work' = [work EXCEPT ![c] = Client(c)]
    /\ UNCHANGED <<todo, sess, open, locked, mine, dead, lock, drops>>

\* The plan is made, or refused: the read failed or a checksum differs.
\* acquireLock follows at once; it looks at lockSession before its first
\* await, and not again.
Planned(c) ==
    /\ pc[c] = "planning"
    /\ \/ /\ work[c] \notin dead
          /\ locked[StoreOf[c]] = None
          /\ pc' = [pc EXCEPT ![c] = "connecting"]
          /\ \E n \in 0 .. MaxSteps : todo' = [todo EXCEPT ![c] = n]
       \/ pc' = [pc EXCEPT ![c] = "ended"] /\ todo' = todo
    /\ work' = [work EXCEPT ![c] = None]
    /\ Back({work[c]})
    /\ UNCHANGED <<sess, open, locked, mine, lock, drops>>

\* connect() of an ended pool is refused, whoever asks.
ConnectFails(c) ==
    /\ Ended(StoreOf[c])
    /\ \/ pc[c] \in {"called", "connecting"}
       \/ pc[c] = "inside" /\ todo[c] > 0
    /\ todo' = [todo EXCEPT ![c] = 0]
    /\ pc' = [pc EXCEPT ![c] = IF @ = "inside" THEN "inside" ELSE "ended"]
    /\ UNCHANGED <<work, sess, open, locked, mine, out, dead, lock,
                   drops>>

-----------------------------------------------------------------------------
AcquireSession(c) ==
    /\ Goto(c, "connecting", "trying")
    /\ CheckOut(c)
    /\ sess' = [sess EXCEPT ![c] = Client(c)]
    /\ open' = open \cup {c}
    /\ UNCHANGED <<todo, work, locked, mine, dead, lock, drops>>

\* Broken variant: what the server answers is not looked at.
AlwaysGrantable(k) == TRUE

\* The lock is free, or this connection's already.
Grantable(k) == lock \in {None, k}

\* What a session's release() does, once: its connection goes back.
Release(c) ==
    /\ open' = open \ {c}
    /\ IF c \in open THEN Back({sess[c]}) ELSE UNCHANGED <<out, dead>>

\* Broken variant: a refused session is not given back.
KeepRefused(c) == UNCHANGED <<open, out, dead>>

\* A failed or refused attempt releases the session before it returns.
Refuse(c) == Release(c)

\* The statement that tries the lock, on the server.
TryLock(c) ==
    /\ pc[c] = "trying"
    /\ LET k == sess[c]
       IN  IF k \notin dead /\ Grantable(k)
           THEN /\ lock' = k
                /\ pc' = [pc EXCEPT ![c] = "granted"]
                /\ UNCHANGED <<open, out, dead>>
           ELSE /\ pc' = [pc EXCEPT ![c] = "ended"]
                /\ Refuse(c)
                /\ lock' = lock
    /\ UNCHANGED <<todo, work, sess, locked, mine, drops>>

\* Its answer reaches the call.
LockAcquired(c) ==
    /\ Goto(c, "granted", "inside")
    /\ locked' = [locked EXCEPT ![StoreOf[c]] = c]
    /\ UNCHANGED <<todo, work, sess, open, mine, out, dead, lock, drops>>

-----------------------------------------------------------------------------
\* A migration runs on a second connection of the pool.
StartStep(c) ==
    /\ todo[c] > 0
    /\ Goto(c, "inside", "stepping")
    /\ CheckOut(c)
    /\ work' = [work EXCEPT ![c] = Client(c)]
    /\ UNCHANGED <<todo, sess, open, locked, mine, dead, lock, drops>>

\* It commits, or fails: then the rest is not run.
EndStep(c) ==
    /\ Goto(c, "stepping", "inside")
    /\ \E left \in {0, todo[c] - 1} : todo' = [todo EXCEPT ![c] = left]
    /\ work[c] \in dead => todo'[c] = 0
    /\ work' = [work EXCEPT ![c] = None]
    /\ Back({work[c]})
    /\ UNCHANGED <<sess, open, locked, mine, lock, drops>>

-----------------------------------------------------------------------------
\* Where an actor goes on after releaseLock.
After(p) == IF p \in Stores THEN "ending" ELSE "ended"

\* releaseLock reads lockSession; it is done when there is none.
StartRelease(p) ==
    /\ pc[p] = "serving" \/ (pc[p] = "inside" /\ todo[p] = 0)
    /\ mine' = [mine EXCEPT ![p] = locked[At(p)]]
    /\ pc' = [pc EXCEPT ![p] =
                 IF locked[At(p)] = None THEN After(p) ELSE "unlocking"]
    /\ UNCHANGED <<todo, work, sess, open, locked, out, dead, lock, drops>>

\* The unlock statement, on the server; false, or an error, is thrown.
Unlock(p) ==
    /\ Goto(p, "unlocking", "unlocked")
    /\ lock' = IF lock = sess[mine[p]] THEN None ELSE lock
    /\ UNCHANGED <<todo, work, sess, open, locked, mine, out, dead, drops>>

\* Broken variant: the session is forgotten and not released.
ForgetSession(p) == locked' = [locked EXCEPT ![At(p)] = None]
                    /\ UNCHANGED <<open, out, dead>>

\* releaseLock's finally: forget the session, whichever it is by now, and
\* release the one that was read.
Forget(p) ==
    /\ locked' = [locked EXCEPT ![At(p)] = None]
    /\ Release(mine[p])

EndRelease(p) ==
    /\ Goto(p, "unlocked", After(p))
    /\ Forget(p)
    /\ mine' = [mine EXCEPT ![p] = None]
    /\ UNCHANGED <<todo, work, sess, lock, drops>>

\* executor.close(): releases the sessions that are still open, then ends
\* the pool; the connections in it end, and with them what they locked.
CloseExecutor(s) ==
    /\ Goto(s, "ending", "closed")
    /\ LET closing == {c \in open : StoreOf[c] = s}
           idle == PoolOf(s) \ (out \ {sess[c] : c \in closing})
       IN  /\ open' = open \ closing
           /\ out' = out \ {sess[c] : c \in closing}
           /\ dead' = dead \cup idle
           /\ lock' = IF lock \in idle THEN None ELSE lock
    /\ UNCHANGED <<todo, work, sess, locked, mine, drops>>

\* The server drops a connection, and its locks.
DropConnection(k) ==
    /\ drops < MaxDrops
    /\ k \in out \ dead
    /\ drops' = drops + 1
    /\ dead' = dead \cup {k}
    /\ lock' = IF lock = k THEN None ELSE lock
    /\ UNCHANGED <<pc, todo, work, sess, open, locked, mine, out>>

-----------------------------------------------------------------------------
Call(c) ==
    \/ ReadHistory(c) \/ Planned(c) \/ ConnectFails(c)
    \/ AcquireSession(c) \/ TryLock(c) \/ LockAcquired(c)
    \/ StartStep(c) \/ EndStep(c)
    \/ StartRelease(c) \/ Unlock(c) \/ EndRelease(c)

\* close(), once the program has called it.
Closing(s) == Unlock(s) \/ EndRelease(s) \/ CloseExecutor(s)

\* The server answers and a program awaits its calls; a migrator need not be
\* closed, and a connection need not drop.
Next ==
    \/ \E c \in Calls : Call(c)
    \/ \E s \in Stores : StartRelease(s) \/ Closing(s)
    \/ \E k \in Conns : DropConnection(k)

Fairness ==
    /\ \A c \in Calls : WF_vars(Call(c))
    /\ \A s \in Stores : WF_vars(Closing(s))

Spec == Init /\ [][Next]_vars /\ Fairness

-----------------------------------------------------------------------------
CallPcs == {"called", "planning", "connecting", "trying",
            "granted", "inside", "stepping", "unlocking",
            "unlocked", "ended"}
StorePcs == {"serving", "unlocking", "unlocked", "ending", "closed"}

\* Types, and who has a connection: a statement's is checked out until the
\* statement has ended, and no connection of a pool has two users.
SessionsTypeOK ==
    /\ pc \in [Actors -> CallPcs \cup StorePcs]
    /\ \A c \in Calls : pc[c] \in CallPcs /\ (pc[c] = "stepping" => todo[c] > 0)
    /\ \A s \in Stores : pc[s] \in StorePcs
    /\ todo \in [Calls -> 0 .. MaxSteps]
    /\ work \in [Calls -> {None} \cup Conns]
    /\ sess \in [Calls -> {None} \cup Conns]
    /\ open \subseteq Calls
    /\ locked \in [Stores -> {None} \cup Calls]
    /\ mine \in [Actors -> {None} \cup Calls]
    /\ dead \subseteq Conns
    /\ drops \in 0 .. MaxDrops
    /\ lock \in {None} \cup Conns
    /\ out = {k \in Conns : \E c \in Calls :
                 work[c] = k \/ (c \in open /\ sess[c] = k)}

\* When its calls have ended nothing of theirs is left in a migrator: every
\* connection is back in the pool, no session is remembered, and the server
\* has no lock of it; and likewise once it is closed.  A leaked session
\* would block the next deployment until the process exits.
NothingLeft ==
    \A s \in Stores :
        (\A c \in Calls : StoreOf[c] = s => pc[c] = "ended") =>
            /\ pc[s] \in {"serving", "closed"} =>
                   lock \notin PoolOf(s) /\ out \cap PoolOf(s) = {}
            /\ pc[s] = "serving" => locked[s] = None

\* A connection has one user, a call of the migrator whose pool it is from; a
\* session that was closed under its call before the lock was tried is dead.
UsersApart ==
    /\ \A c \in Calls :
          /\ work[c] # None <=> pc[c] \in {"planning", "stepping"}
          /\ work[c] # None => Home[work[c]] = StoreOf[c]
          /\ sess[c] # None => Home[sess[c]] = StoreOf[c]
          /\ c \in open => /\ sess[c] # None
                           /\ pc[c] \notin {"called", "planning", "connecting"}
                           /\ ~Ended(StoreOf[c])
          /\ pc[c] = "trying" =>
                c \in open \/ (Ended(StoreOf[c]) /\ sess[c] \in dead)
    /\ \A c, d \in Calls :
          /\ c # d /\ c \in open /\ d \in open => sess[c] # sess[d]
          /\ c # d /\ work[c] # None => work[c] # work[d]
          /\ c \in open => work[d] # sess[c]

\* The calls that have learnt they were granted the lock.
Admitted(c) == pc[c] \in {"inside", "stepping", "unlocking", "unlocked",
                          "ended"}

\* Whoever runs releaseLock releases an admitted call of its own migrator,
\* and has unlocked the session by the time it releases it.
ReleasesOwn ==
    /\ \A s \in Stores : locked[s] # None =>
          StoreOf[locked[s]] = s /\ Admitted(locked[s])
    /\ \A p \in Actors :
          /\ mine[p] # None <=> pc[p] \in {"unlocking", "unlocked"}
          /\ mine[p] # None =>
                StoreOf[mine[p]] = At(p) /\ Admitted(mine[p])
          /\ pc[p] = "unlocked" /\ mine[p] \in open => lock # sess[mine[p]]

\* The server's lock belongs to a session that was neither released nor lost.
LockBacked == lock # None => lock \notin dead /\ \E c \in open : sess[c] = lock

\* While a migrator serves a program that awaits its calls, one call at a time
\* is under way; it alone has a session, lockSession names it once it is
\* admitted, and it has the server's lock until it unlocks.
OneUnderWay ==
    \A s \in Awaiting, c \in Calls : StoreOf[c] = s =>
        /\ \A d \in Calls \ {c} :
              StoreOf[d] = s => {pc[c], pc[d]} \cap {"called", "ended"} # {}
        /\ pc[s] = "serving" =>
              /\ c \in open <=>
                    pc[c] \in {"trying", "granted", "inside", "stepping",
                              "unlocking", "unlocked"}
              /\ locked[s] = c <=> Admitted(c) /\ pc[c] # "ended"
              /\ pc[c] \in {"unlocking", "unlocked"} => mine[c] = c
              /\ pc[c] \in {"granted", "inside", "stepping", "unlocking"}
                    /\ sess[c] \notin dead => lock = sess[c]

\* What every step preserves.
SessionsIInv ==
    SessionsTypeOK /\ UsersApart /\ ReleasesOwn /\ LockBacked /\ OneUnderWay

\* Connections are checked out and given back once, and none is left behind.
SessionsInv == SessionsIInv /\ NothingLeft

\* A call whose releaseLock has resolved does not have the lock any more:
\* #releaseLock then logs "migration lock released".
ReleasedMeansFree ==
    \A c \in open : pc[c] = "ended" /\ pc[StoreOf[c]] = "serving"
                       => lock # sess[c]

\* The calls that count as inside: those past acquireLock that have neither
\* lost their connection nor had their migrator closed under them.
Inside ==
    {c \in Calls : /\ pc[c] \in {"inside", "stepping", "unlocking"}
                   /\ sess[c] \notin dead
                   /\ pc[StoreOf[c]] = "serving"}

\* The calls of every process on every store together implement one lock.
Contract == INSTANCE NamedLock WITH Calls <- Calls, inside <- Inside
OneInside == Contract!LockSpec

\* Every call of migrate() ends, whoever else runs, closes or drops: a call
\* that has the lock finds the second connection it needs.
EveryCallEnds == \A c \in Calls : <>(pc[c] = "ended")
=============================================================================
