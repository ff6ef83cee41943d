----------------------- MODULE MigrationSessionsProofs -----------------------
(***************************************************************************)
(* What the connections of migrate() guarantee for every number of calls,  *)
(* migrators, processes and connections, and any number of drops.          *)
(***************************************************************************)
EXTENDS MigrationSessions, TLAPS

\* A connection handed out is one of the caller's pool that nobody uses.
LEMMA ClientIsIdle ==
    ASSUME SessionsTypeOK, NEW c \in Calls, CheckOut(c)
    PROVE  /\ Client(c) \in Conns
           /\ Home[Client(c)] = StoreOf[c]
           /\ ~Ended(StoreOf[c])
           /\ out' = out \cup {Client(c)}
           /\ \A d \in Calls : work[d] # Client(c)
           /\ \A d \in open : sess[d] # Client(c)
<1>1. Client(c) \in Idle(StoreOf[c])
  BY DEF CheckOut, Client
<1>2. Client(c) \in Conns /\ Home[Client(c)] = StoreOf[c]
      /\ ~Ended(StoreOf[c]) /\ Client(c) \notin out
  BY <1>1 DEF Idle, PoolOf
<1> QED
  BY <1>2 DEF SessionsTypeOK, CheckOut

\* Reading the history takes a connection of its own.
LEMMA ReadHistoryKeeps ==
    ASSUME SessionsIInv, NEW c \in Calls, ReadHistory(c)
    PROVE  SessionsIInv'
<1> USE SessionsAssumption DEF Actors, ReadHistory, Goto
<1>1. SessionsTypeOK /\ UsersApart /\ ReleasesOwn /\ LockBacked /\ OneUnderWay
  BY DEF SessionsIInv
<1>2. /\ Client(c) \in Conns /\ Home[Client(c)] = StoreOf[c]
      /\ ~Ended(StoreOf[c]) /\ out' = out \cup {Client(c)}
      /\ \A d \in Calls : work[d] # Client(c)
      /\ \A d \in open : sess[d] # Client(c)
  BY <1>1, ClientIsIdle
<1>3. UsersApart'
  BY <1>1, <1>2 DEF SessionsTypeOK, UsersApart, Ended
<1>4. SessionsTypeOK'
  BY <1>1, <1>2 DEF SessionsTypeOK, UsersApart, CallPcs
<1>5. ReleasesOwn'
  BY <1>1 DEF ReleasesOwn, Admitted
<1>6. LockBacked'
  BY <1>1 DEF LockBacked
<1>7. OneUnderWay'
  BY <1>1 DEF OneUnderWay, Admitted
<1> QED
  BY <1>3, <1>4, <1>5, <1>6, <1>7 DEF SessionsIInv

\* The history's connection goes back, whether or not the call goes on.
LEMMA PlannedKeeps ==
    ASSUME SessionsIInv, NEW c \in Calls, Planned(c)
    PROVE  SessionsIInv'
<1> USE SessionsAssumption DEF Actors, Planned, Back
<1>1. SessionsTypeOK /\ UsersApart /\ ReleasesOwn /\ LockBacked /\ OneUnderWay
  BY DEF SessionsIInv
<1>2. UsersApart'
  BY <1>1 DEF SessionsTypeOK, UsersApart, Ended
<1>3. SessionsTypeOK'
  BY <1>1 DEF SessionsTypeOK, UsersApart, CallPcs
<1>4. ReleasesOwn'
  BY <1>1 DEF SessionsTypeOK, ReleasesOwn, Admitted
<1>5. LockBacked'
  BY <1>1 DEF LockBacked
<1>6. OneUnderWay'
  BY <1>1 DEF SessionsTypeOK, UsersApart, OneUnderWay, Admitted
<1> QED
  BY <1>2, <1>3, <1>4, <1>5, <1>6 DEF SessionsIInv

\* A refused connection leaves the call without one.
LEMMA ConnectFailsKeeps ==
    ASSUME SessionsIInv, NEW c \in Calls, ConnectFails(c)
    PROVE  SessionsIInv'
<1> USE SessionsAssumption DEF Actors, ConnectFails
<1>1. SessionsTypeOK /\ UsersApart /\ ReleasesOwn /\ LockBacked /\ OneUnderWay
  BY DEF SessionsIInv
<1>2. UsersApart'
  BY <1>1 DEF UsersApart, Ended
<1>3. SessionsTypeOK'
  BY <1>1 DEF SessionsTypeOK, CallPcs
<1>4. ReleasesOwn'
  BY <1>1 DEF ReleasesOwn, Admitted
<1>5. LockBacked'
  BY <1>1 DEF LockBacked
<1>6. OneUnderWay'
  BY <1>1 DEF OneUnderWay, Admitted
<1> QED
  BY <1>2, <1>3, <1>4, <1>5, <1>6 DEF SessionsIInv

\* A session's connection is not anybody's statement.
LEMMA AcquireSessionKeeps ==
    ASSUME SessionsIInv, NEW c \in Calls, AcquireSession(c)
    PROVE  SessionsIInv'
<1> USE SessionsAssumption DEF Actors, AcquireSession, Goto
<1>1. SessionsTypeOK /\ UsersApart /\ ReleasesOwn /\ LockBacked /\ OneUnderWay
  BY DEF SessionsIInv
<1>2. /\ Client(c) \in Conns /\ Home[Client(c)] = StoreOf[c]
      /\ ~Ended(StoreOf[c]) /\ out' = out \cup {Client(c)}
      /\ \A d \in Calls : work[d] # Client(c)
      /\ \A d \in open : sess[d] # Client(c)
  BY <1>1, ClientIsIdle
<1>3. UsersApart'
  BY <1>1, <1>2 DEF SessionsTypeOK, UsersApart, Ended
<1>4. SessionsTypeOK'
  BY <1>1, <1>2 DEF SessionsTypeOK, UsersApart, CallPcs
<1>5. ReleasesOwn'
  BY <1>1 DEF ReleasesOwn, Admitted
<1>6. LockBacked'
  BY <1>1 DEF UsersApart, LockBacked
<1>7. OneUnderWay'
  BY <1>1 DEF SessionsTypeOK, OneUnderWay, Admitted
<1> QED
  BY <1>3, <1>4, <1>5, <1>6, <1>7 DEF SessionsIInv

\* The lock goes to a session that is open, and a refused one is given back.
LEMMA TryLockKeeps ==
    ASSUME SessionsIInv, NEW c \in Calls, TryLock(c)
    PROVE  SessionsIInv'
<1> USE SessionsAssumption DEF Actors, TryLock, Refuse, Release, Back,
                               Grantable
<1>1. SessionsTypeOK /\ UsersApart /\ ReleasesOwn /\ LockBacked /\ OneUnderWay
  BY DEF SessionsIInv
<1>2. UsersApart'
  BY <1>1 DEF SessionsTypeOK, UsersApart, Ended
<1>3. SessionsTypeOK'
  BY <1>1 DEF SessionsTypeOK, UsersApart, CallPcs
<1>4. ReleasesOwn'
  BY <1>1 DEF SessionsTypeOK, UsersApart, ReleasesOwn, Admitted
<1>5. LockBacked'
  BY <1>1 DEF UsersApart, LockBacked
<1>6. OneUnderWay'
  BY <1>1 DEF SessionsTypeOK, UsersApart, OneUnderWay, Admitted
<1> QED
  BY <1>2, <1>3, <1>4, <1>5, <1>6 DEF SessionsIInv

\* A call that learns it has the lock becomes the one lockSession names.
LEMMA LockAcquiredKeeps ==
    ASSUME SessionsIInv, NEW c \in Calls, LockAcquired(c)
    PROVE  SessionsIInv'
<1> USE SessionsAssumption DEF Actors, LockAcquired, Goto
<1>1. SessionsTypeOK /\ UsersApart /\ ReleasesOwn /\ LockBacked /\ OneUnderWay
  BY DEF SessionsIInv
<1>2. UsersApart'
  BY <1>1 DEF UsersApart, Ended
<1>3. SessionsTypeOK'
  BY <1>1 DEF SessionsTypeOK, CallPcs
<1>4. ReleasesOwn'
  BY <1>1 DEF SessionsTypeOK, ReleasesOwn, Admitted
<1>5. LockBacked'
  BY <1>1 DEF LockBacked
<1>6. OneUnderWay'
  BY <1>1 DEF SessionsTypeOK, OneUnderWay, Admitted
<1> QED
  BY <1>2, <1>3, <1>4, <1>5, <1>6 DEF SessionsIInv

\* A migration takes a second connection.
LEMMA StartStepKeeps ==
    ASSUME SessionsIInv, NEW c \in Calls, StartStep(c)
    PROVE  SessionsIInv'
<1> USE SessionsAssumption DEF Actors, StartStep, Goto
<1>1. SessionsTypeOK /\ UsersApart /\ ReleasesOwn /\ LockBacked /\ OneUnderWay
  BY DEF SessionsIInv
<1>2. /\ Client(c) \in Conns /\ Home[Client(c)] = StoreOf[c]
      /\ ~Ended(StoreOf[c]) /\ out' = out \cup {Client(c)}
      /\ \A d \in Calls : work[d] # Client(c)
      /\ \A d \in open : sess[d] # Client(c)
  BY <1>1, ClientIsIdle
<1>3. UsersApart'
  BY <1>1, <1>2 DEF SessionsTypeOK, UsersApart, Ended
<1>4. SessionsTypeOK'
  BY <1>1, <1>2 DEF SessionsTypeOK, UsersApart, CallPcs
<1>5. ReleasesOwn'
  BY <1>1 DEF ReleasesOwn, Admitted
<1>6. LockBacked'
  BY <1>1 DEF LockBacked
<1>7. OneUnderWay'
  BY <1>1 DEF OneUnderWay, Admitted
<1> QED
  BY <1>3, <1>4, <1>5, <1>6, <1>7 DEF SessionsIInv

\* That connection goes back with the statement's end.
LEMMA EndStepKeeps ==
    ASSUME SessionsIInv, NEW c \in Calls, EndStep(c)
    PROVE  SessionsIInv'
<1> USE SessionsAssumption DEF Actors, EndStep, Goto, Back
<1>1. SessionsTypeOK /\ UsersApart /\ ReleasesOwn /\ LockBacked /\ OneUnderWay
  BY DEF SessionsIInv
<1>2. UsersApart'
  BY <1>1 DEF SessionsTypeOK, UsersApart, Ended
<1>3. SessionsTypeOK'
  BY <1>1 DEF SessionsTypeOK, UsersApart, CallPcs
<1>4. ReleasesOwn'
  BY <1>1 DEF ReleasesOwn, Admitted
<1>5. LockBacked'
  BY <1>1 DEF LockBacked
<1>6. OneUnderWay'
  BY <1>1 DEF UsersApart, OneUnderWay, Admitted
<1> QED
  BY <1>2, <1>3, <1>4, <1>5, <1>6 DEF SessionsIInv

\* releaseLock reads an admitted call of its own migrator.
LEMMA StartReleaseKeeps ==
    ASSUME SessionsIInv, NEW p \in Actors, StartRelease(p)
    PROVE  SessionsIInv'
<1> USE SessionsAssumption DEF Actors, StartRelease, After, At
<1>1. SessionsTypeOK /\ UsersApart /\ ReleasesOwn /\ LockBacked /\ OneUnderWay
  BY DEF SessionsIInv
<1>2. UsersApart'
  BY <1>1 DEF UsersApart, Ended
<1>3. SessionsTypeOK'
  BY <1>1 DEF SessionsTypeOK, CallPcs, StorePcs
<1>4. ReleasesOwn'
  BY <1>1 DEF SessionsTypeOK, ReleasesOwn, Admitted
<1>5. LockBacked'
  BY <1>1 DEF LockBacked
<1>6. OneUnderWay'
  BY <1>1 DEF SessionsTypeOK, ReleasesOwn, OneUnderWay, Admitted
<1> QED
  BY <1>2, <1>3, <1>4, <1>5, <1>6 DEF SessionsIInv

\* An unlock frees the lock of the session it was read from, which under one
\* call at a time is the actor's own.
LEMMA UnlockKeeps ==
    ASSUME SessionsIInv, NEW p \in Actors, Unlock(p)
    PROVE  SessionsIInv'
<1> USE SessionsAssumption DEF Actors, Unlock, Goto, At
<1>1. SessionsTypeOK /\ UsersApart /\ ReleasesOwn /\ LockBacked /\ OneUnderWay
  BY DEF SessionsIInv
<1>2. UsersApart'
  BY <1>1 DEF UsersApart, Ended
<1>3. SessionsTypeOK'
  BY <1>1 DEF SessionsTypeOK, CallPcs, StorePcs
<1>4. ReleasesOwn'
  BY <1>1 DEF SessionsTypeOK, UsersApart, ReleasesOwn, Admitted, At
<1>5. LockBacked'
  BY <1>1 DEF SessionsTypeOK, UsersApart, ReleasesOwn, LockBacked
<1>6. OneUnderWay'
  BY <1>1 DEF SessionsTypeOK, UsersApart, ReleasesOwn, LockBacked, OneUnderWay,
              Admitted
<1> QED
  BY <1>2, <1>3, <1>4, <1>5, <1>6 DEF SessionsIInv

\* Releasing a session that was unlocked leaves the server no lock of it.
LEMMA EndReleaseKeeps ==
    ASSUME SessionsIInv, NEW p \in Actors, EndRelease(p)
    PROVE  SessionsIInv'
<1> USE SessionsAssumption DEF Actors, EndRelease, Goto, Forget, Release,
                               Back, After, At
<1>1. SessionsTypeOK /\ UsersApart /\ ReleasesOwn /\ LockBacked /\ OneUnderWay
  BY DEF SessionsIInv
<1>2. /\ mine[p] \in Calls
      /\ pc[mine[p]] \notin {"called", "planning", "connecting", "trying"}
      /\ pc' = [pc EXCEPT ![p] = IF p \in Stores THEN "ending" ELSE "ended"]
      /\ open' = open \ {mine[p]}
      /\ \A s \in Stores : Ended(s)' <=> Ended(s)
  BY <1>1 DEF SessionsTypeOK, ReleasesOwn, Admitted, Ended
<1>3. UsersApart'
  <2>1. \A k \in dead : Ended(Home[k]) => k \in dead'
    OBVIOUS
  <2>2. \A c \in Calls : pc'[c] = "trying" =>
           c \in open' \/ (Ended(StoreOf[c])' /\ sess'[c] \in dead')
    BY <1>1, <1>2, <2>1 DEF SessionsTypeOK, UsersApart
  <2>3. \A c \in Calls :
          /\ work'[c] # None <=> pc'[c] \in {"planning", "stepping"}
          /\ work'[c] # None => Home[work'[c]] = StoreOf[c]
          /\ sess'[c] # None => Home[sess'[c]] = StoreOf[c]
          /\ c \in open' => /\ sess'[c] # None
                           /\ pc'[c] \notin {"called", "planning",
                                             "connecting"}
                           /\ ~Ended(StoreOf[c])'
    BY <1>1, <1>2 DEF SessionsTypeOK, UsersApart
  <2> QED
    BY <1>1, <1>2, <2>2, <2>3 DEF UsersApart
<1>4. SessionsTypeOK'
  BY <1>1 DEF SessionsTypeOK, UsersApart, CallPcs, StorePcs
<1>5. ReleasesOwn'
  BY <1>1 DEF SessionsTypeOK, UsersApart, ReleasesOwn, Admitted
<1>6. LockBacked'
  BY <1>1 DEF SessionsTypeOK, UsersApart, ReleasesOwn, LockBacked
<1>7. OneUnderWay'
  BY <1>1 DEF SessionsTypeOK, UsersApart, ReleasesOwn, LockBacked, OneUnderWay,
              Admitted
<1> QED
  BY <1>3, <1>4, <1>5, <1>6, <1>7 DEF SessionsIInv

\* close() ends the pool: its idle connections, those of the sessions that
\* were open among them, take their locks along.
LEMMA CloseExecutorKeeps ==
    ASSUME SessionsIInv, NEW s \in Stores, CloseExecutor(s)
    PROVE  SessionsIInv'
<1> USE SessionsAssumption DEF Actors
<1>1. SessionsTypeOK /\ UsersApart /\ ReleasesOwn /\ LockBacked /\ OneUnderWay
  BY DEF SessionsIInv
<1> DEFINE closing == {c \in open : StoreOf[c] = s}
           idle == PoolOf(s) \ (out \ {sess[c] : c \in closing})
<1>2. /\ pc[s] = "ending" /\ pc' = [pc EXCEPT ![s] = "closed"]
      /\ open' = open \ closing
      /\ out' = out \ {sess[c] : c \in closing}
      /\ dead' = dead \cup idle
      /\ lock' = IF lock \in idle THEN None ELSE lock
      /\ UNCHANGED <<todo, work, sess, locked, mine, drops>>
  BY DEF CloseExecutor, Goto
<1>3. \A c \in closing : sess[c] \in idle
  BY <1>1 DEF SessionsTypeOK, UsersApart, PoolOf
<1>4. /\ \A c \in Calls : pc'[c] = pc[c]
      /\ \A t \in Stores : Ended(t)' <=> Ended(t) \/ t = s
      /\ \A t \in Stores \ {s} : pc'[t] = pc[t]
      /\ pc'[s] = "closed"
      /\ idle \subseteq PoolOf(s)
      /\ \A c \in open' : c \in open /\ StoreOf[c] # s
  BY <1>1, <1>2 DEF SessionsTypeOK, Ended
<1> HIDE DEF idle
<1>5. UsersApart'
  <2>1. \A c \in Calls : pc'[c] = "trying"
           => c \in open' \/ (Ended(StoreOf[c])' /\ sess'[c] \in dead')
    BY <1>1, <1>2, <1>3, <1>4 DEF UsersApart
  <2>2. \A c \in Calls :
          /\ work'[c] # None <=> pc'[c] \in {"planning", "stepping"}
          /\ work'[c] # None => Home[work'[c]] = StoreOf[c]
          /\ sess'[c] # None => Home[sess'[c]] = StoreOf[c]
          /\ c \in open' => /\ sess'[c] # None
                           /\ pc'[c] \notin {"called", "planning",
                                             "connecting"}
                           /\ ~Ended(StoreOf[c])'
    BY <1>1, <1>2, <1>4 DEF UsersApart
  <2> QED
    BY <1>1, <1>2, <2>1, <2>2 DEF UsersApart
<1>6. SessionsTypeOK'
  <2>1. out' = {k \in Conns : \E d \in Calls :
                   work'[d] = k \/ (d \in open' /\ sess'[d] = k)}
    BY <1>1, <1>2 DEF SessionsTypeOK, UsersApart
  <2>2. pc' \in [Actors -> CallPcs \cup StorePcs]
    BY <1>1, <1>2 DEF SessionsTypeOK, StorePcs
  <2>3. \A t \in Stores : pc'[t] \in StorePcs
    BY <1>1, <1>4 DEF SessionsTypeOK, StorePcs
  <2>4. /\ dead' \subseteq Conns /\ lock' \in {None} \cup Conns
        /\ open' \subseteq Calls
    BY <1>1, <1>2, <1>4 DEF SessionsTypeOK, PoolOf
  <2> QED
    BY <1>1, <1>2, <2>1, <2>3, <2>4 DEF SessionsTypeOK
<1>7. ReleasesOwn'
  BY <1>1, <1>2 DEF SessionsTypeOK, UsersApart, ReleasesOwn, Admitted
<1>8. LockBacked'
  BY <1>1, <1>2, <1>3 DEF LockBacked
<1>9. OneUnderWay'
  BY <1>1, <1>2 DEF OneUnderWay, Admitted
<1> QED
  BY <1>5, <1>6, <1>7, <1>8, <1>9 DEF SessionsIInv

\* A dropped connection takes its lock along.
LEMMA DropConnectionKeeps ==
    ASSUME SessionsIInv, NEW k \in Conns, DropConnection(k)
    PROVE  SessionsIInv'
<1> USE SessionsAssumption DEF Actors, DropConnection
<1>1. SessionsTypeOK /\ UsersApart /\ ReleasesOwn /\ LockBacked /\ OneUnderWay
  BY DEF SessionsIInv
<1>2. UsersApart'
  BY <1>1 DEF UsersApart, Ended
<1>3. SessionsTypeOK'
  BY <1>1 DEF SessionsTypeOK
<1>4. ReleasesOwn'
  BY <1>1 DEF SessionsTypeOK, UsersApart, ReleasesOwn, Admitted
<1>5. LockBacked'
  BY <1>1 DEF LockBacked
<1>6. OneUnderWay'
  BY <1>1 DEF OneUnderWay, Admitted
<1> QED
  BY <1>2, <1>3, <1>4, <1>5, <1>6 DEF SessionsIInv
-----------------------------------------------------------------------------

\* Before the first call nothing is checked out, remembered or locked.
LEMMA SessionsInit == Init => SessionsIInv
<1> SUFFICES ASSUME Init PROVE SessionsIInv
  OBVIOUS
<1> USE SessionsAssumption DEF Init, Actors
<1>1. SessionsTypeOK
  BY DEF SessionsTypeOK, CallPcs, StorePcs
<1>2. UsersApart
  BY DEF UsersApart
<1>3. ReleasesOwn /\ LockBacked
  BY DEF ReleasesOwn, LockBacked
<1>4. OneUnderWay
  BY DEF OneUnderWay, Admitted
<1> QED
  BY <1>1, <1>2, <1>3, <1>4 DEF SessionsIInv

\* Every step of a call, of close() and of the server keeps the invariant.
LEMMA SessionsStep == SessionsIInv /\ [Next]_vars => SessionsIInv'
<1> SUFFICES ASSUME SessionsIInv, [Next]_vars PROVE SessionsIInv'
  OBVIOUS
<1>1. ASSUME NEW c \in Calls, Call(c) PROVE SessionsIInv'
  BY <1>1, ReadHistoryKeeps, PlannedKeeps, ConnectFailsKeeps,
     AcquireSessionKeeps, TryLockKeeps, LockAcquiredKeeps, StartStepKeeps,
     EndStepKeeps, StartReleaseKeeps, UnlockKeeps, EndReleaseKeeps
     DEF Call, Actors
<1>2. ASSUME NEW s \in Stores, StartRelease(s) \/ Closing(s)
      PROVE  SessionsIInv'
  BY <1>2, StartReleaseKeeps, UnlockKeeps, EndReleaseKeeps, CloseExecutorKeeps
     DEF Closing, Actors
<1>3. ASSUME NEW k \in Conns, DropConnection(k) PROVE SessionsIInv'
  BY <1>3, DropConnectionKeeps
<1>4. CASE UNCHANGED vars
  BY <1>4
     DEF vars, SessionsIInv, SessionsTypeOK, UsersApart, ReleasesOwn,
         LockBacked, OneUnderWay, Ended, Admitted
<1> QED
  BY <1>1, <1>2, <1>3, <1>4 DEF Next

\* Whatever the programs await: a connection has one user, a releaseLock
\* releases a call of its own migrator, and the server's lock belongs to a
\* session that was not released.
THEOREM SessionsPreserved == Spec => []SessionsIInv
<1> QED
  BY SessionsInit, SessionsStep, PTL DEF Spec

\* A migrator whose calls have ended keeps nothing of theirs.
LEMMA NothingLeftBehind ==
    ASSUME SessionsIInv, Awaiting = Stores PROVE NothingLeft
<1> SUFFICES ASSUME NEW s \in Stores,
                    \A c \in Calls : StoreOf[c] = s => pc[c] = "ended",
                    pc[s] \in {"serving", "closed"}
             PROVE  /\ lock \notin PoolOf(s) /\ out \cap PoolOf(s) = {}
                    /\ pc[s] = "serving" => locked[s] = None
  BY DEF NothingLeft
<1>1. SessionsTypeOK /\ UsersApart /\ ReleasesOwn /\ LockBacked /\ OneUnderWay
  BY DEF SessionsIInv
<1>2. \A c \in open : StoreOf[c] # s
  BY <1>1 DEF SessionsTypeOK, UsersApart, OneUnderWay, Ended
<1>3. \A k \in PoolOf(s), c \in Calls :
         work[c] # k /\ (c \in open => sess[c] # k)
  BY <1>1, <1>2, SessionsAssumption DEF UsersApart, PoolOf
<1>4. out \cap PoolOf(s) = {}
  BY <1>1, <1>3 DEF SessionsTypeOK
<1>5. lock \notin PoolOf(s)
  BY <1>1, <1>3, SessionsAssumption DEF SessionsTypeOK, LockBacked, PoolOf
<1>6. pc[s] = "serving" => locked[s] = None
  BY <1>1 DEF SessionsTypeOK, ReleasesOwn, OneUnderWay
<1> QED
  BY <1>4, <1>5, <1>6

\* When every program awaits its calls, as the CLI and the documented use do,
\* connections are given back once and none is left behind: the pool is whole,
\* lockSession empty and the server's lock free when the calls have ended.
THEOREM SessionsGivenBack ==
    ASSUME Awaiting = Stores PROVE Spec => []SessionsInv
<1>1. SessionsIInv => SessionsInv
  BY NothingLeftBehind DEF SessionsInv
<1> QED
  BY <1>1, SessionsPreserved, PTL

-----------------------------------------------------------------------------

\* Whoever is inside has an open session, which has the server's lock; so one
\* call is inside at a time.
LEMMA InsideHasLock ==
    ASSUME SessionsIInv, Awaiting = Stores
    PROVE  /\ \A c \in Inside : c \in open /\ lock = sess[c]
           /\ \A c, d \in Inside : c = d
<1>1. SessionsTypeOK /\ UsersApart /\ OneUnderWay
  BY DEF SessionsIInv
<1>2. \A c \in Inside : c \in open /\ lock = sess[c]
  BY <1>1, SessionsAssumption DEF Inside, OneUnderWay
<1> QED
  BY <1>1, <1>2 DEF Inside, UsersApart

\* No step but the answer to an attempt lets a call in.
LEMMA NobodyElseEnters ==
    ASSUME SessionsIInv, Awaiting = Stores, [Next]_vars,
           ~\E c \in Calls : LockAcquired(c)
    PROVE  Inside' \subseteq Inside
<1>1. SessionsTypeOK /\ UsersApart /\ ReleasesOwn /\ OneUnderWay
  BY DEF SessionsIInv
<1> SUFFICES ASSUME NEW d \in Inside' PROVE d \in Inside
  OBVIOUS
<1>2. /\ d \in Calls /\ StoreOf[d] \in Stores /\ StoreOf[d] \notin Calls
      /\ pc'[d] \in {"inside", "stepping", "unlocking"}
      /\ sess'[d] \notin dead'
      /\ pc'[StoreOf[d]] = "serving"
  BY SessionsAssumption DEF Inside
<1>3. pc \in [Actors -> CallPcs \cup StorePcs] /\ d \in Actors
      /\ StoreOf[d] \in Actors
      /\ Calls \subseteq Actors /\ Stores \subseteq Actors
  BY <1>1, <1>2 DEF SessionsTypeOK, Actors
<1>4. pc[d] \in {"inside", "stepping", "unlocking"}
         /\ pc[StoreOf[d]] = "serving" /\ sess'[d] = sess[d]
      => d \in open /\ \A c \in Calls : work[c] # sess[d]
                      /\ (c # d /\ c \in open => sess[c] # sess[d])
  BY <1>1, <1>2 DEF UsersApart, OneUnderWay
<1>5. ASSUME NEW c \in Calls, Call(c) PROVE d \in Inside
  <2>0. ~LockAcquired(c)
    OBVIOUS
  <2>1. pc[StoreOf[d]] = "serving"
    BY <1>2, <1>3, <1>5, SessionsAssumption DEF Call, ReadHistory, Planned,
       ConnectFails, AcquireSession, TryLock, LockAcquired, StartStep, EndStep,
       StartRelease, Unlock, EndRelease, Goto
  <2>2. pc[d] \in {"inside", "stepping", "unlocking"} /\ sess'[d] = sess[d]
    <3>1. CASE ReadHistory(c) \/ Planned(c) \/ ConnectFails(c)
      BY <1>2, <1>3, <3>1 DEF ReadHistory, Planned, ConnectFails, Goto
    <3>2. CASE AcquireSession(c) \/ TryLock(c)
      BY <1>1, <1>2, <1>3, <3>2
         DEF AcquireSession, TryLock, Goto, SessionsTypeOK
    <3>3. CASE LockAcquired(c)
      BY <2>0, <3>3
    <3>4. CASE StartStep(c) \/ EndStep(c)
      BY <1>2, <1>3, <3>4 DEF StartStep, EndStep, Goto
    <3>6. CASE StartRelease(c)
      <4>1. pc[c] = "inside"
        BY <1>1, <3>6 DEF StartRelease, SessionsTypeOK, CallPcs
      <4> QED
        BY <1>2, <1>3, <3>6, <4>1 DEF StartRelease
    <3>5. CASE Unlock(c) \/ EndRelease(c)
      BY <1>2, <1>3, <3>5, SessionsAssumption
         DEF Unlock, EndRelease, Goto, After
    <3> QED
      BY <1>5, <3>1, <3>2, <3>3, <3>4, <3>5, <3>6 DEF Call
  <2>3. sess[d] \notin dead
    <3>1. CASE ReadHistory(c) \/ ConnectFails(c) \/ AcquireSession(c)
               \/ StartStep(c) \/ StartRelease(c) \/ Unlock(c)
      BY <1>2, <2>2, <3>1 DEF ReadHistory, ConnectFails, AcquireSession,
         StartStep, StartRelease, Unlock
    <3>2. CASE Planned(c) \/ EndStep(c)
      BY <1>2, <1>4, <2>1, <2>2, <3>2 DEF Planned, EndStep, Back
    <3>3. CASE TryLock(c)
      BY <1>2, <1>3, <1>4, <2>1, <2>2, <3>3
         DEF TryLock, Refuse, Release, Back
    <3>4. CASE EndRelease(c)
      BY <1>1, <1>2, <1>3, <1>4, <2>1, <2>2, <3>4
         DEF EndRelease, Goto, Forget, Release, Back, After, OneUnderWay,
             ReleasesOwn, SessionsTypeOK, At, UsersApart
    <3> QED
      BY <1>5, <3>1, <3>2, <3>3, <3>4 DEF Call
  <2> QED
    BY <1>2, <2>1, <2>2, <2>3 DEF Inside
<1>6. ASSUME NEW s \in Stores, StartRelease(s) \/ Closing(s)
      PROVE  d \in Inside
  <2>1. pc'[s] # "serving"
    BY <1>3, <1>6
       DEF StartRelease, Closing, Unlock, EndRelease, CloseExecutor, Goto,
           After
  <2>2. s # StoreOf[d] /\ d # s
    BY <1>2, <2>1, SessionsAssumption
  <2>3. pc'[d] = pc[d] /\ pc'[StoreOf[d]] = pc[StoreOf[d]] /\ sess' = sess
    BY <1>3, <1>6, <2>2
       DEF StartRelease, Closing, Unlock, EndRelease, CloseExecutor, Goto
  <2>4. sess[d] \notin dead
    <3>1. CASE StartRelease(s) \/ Unlock(s) \/ CloseExecutor(s)
      BY <1>2, <2>3, <3>1 DEF StartRelease, Unlock, CloseExecutor
    <3>2. CASE EndRelease(s)
      <4>1. mine[s] \in Calls /\ StoreOf[mine[s]] = s
        BY <1>1, <1>3, <3>2
           DEF EndRelease, Goto, ReleasesOwn, SessionsTypeOK, At
      <4> QED
        BY <1>2, <1>4, <2>2, <2>3, <3>2, <4>1
           DEF EndRelease, Forget, Release, Back
    <3> QED
      BY <1>6, <3>1, <3>2 DEF Closing
  <2> QED
    BY <1>2, <2>3, <2>4 DEF Inside
<1>7. ASSUME NEW k \in Conns, DropConnection(k) PROVE d \in Inside
  BY <1>2, <1>7 DEF DropConnection, Inside
<1>8. CASE UNCHANGED vars
  BY <1>8 DEF vars, Inside
<1> QED
  BY <1>5, <1>6, <1>7, <1>8 DEF Next

\* A call that is let in finds nobody inside.
LEMMA EntersAlone ==
    ASSUME SessionsIInv, Awaiting = Stores, NEW c \in Calls,
           LockAcquired(c)
    PROVE  Inside' = Inside \/ (Inside = {} /\ Inside' = {c})
<1>1. SessionsTypeOK
  BY DEF SessionsIInv
<1>2. /\ pc[c] = "granted" /\ pc'[c] = "inside"
      /\ \A p \in Actors \ {c} : pc'[p] = pc[p]
      /\ sess' = sess /\ dead' = dead
  BY <1>1 DEF LockAcquired, Goto, SessionsTypeOK, Actors
<1>3. /\ c \notin Inside
      /\ Inside \subseteq Inside' /\ Inside' \subseteq Inside \cup {c}
  BY <1>2, SessionsAssumption DEF Inside, Actors
<1>4. c \in Inside' => c \in open /\ lock = sess[c]
  <2> SUFFICES ASSUME c \in Inside' PROVE c \in open /\ lock = sess[c]
    OBVIOUS
  <2>1. pc[StoreOf[c]] = "serving" /\ sess[c] \notin dead
    BY <1>2, SessionsAssumption DEF Inside, Actors
  <2> QED
    BY <1>2, <2>1, SessionsAssumption DEF SessionsIInv, OneUnderWay
<1>5. c \in Inside' => Inside = {}
  <2>1. \A x \in Inside : x \in open /\ lock = sess[x] /\ x # c
    BY <1>3, InsideHasLock
  <2> QED
    BY <1>4, <2>1 DEF SessionsIInv, UsersApart, Inside
<1> QED
  BY <1>3, <1>5

\* The calls of every process together use the server's lock as one lock:
\* one call at a time is inside, and the next enters after it has left, lost
\* its connection, or had its migrator closed under it.
THEOREM SessionsAreOneLock ==
    ASSUME Awaiting = Stores PROVE Spec => OneInside
<1>1. Init => Contract!LockInit
  BY SessionsAssumption DEF Init, Actors, Contract!LockInit, Inside
<1>2. SessionsIInv /\ [Next]_vars
      => [\E c \in Calls : Contract!Enter(c) \/ Contract!Leave(c)]_Inside
  <2> SUFFICES ASSUME SessionsIInv, [Next]_vars, Inside' # Inside
               PROVE  \E c \in Calls : Contract!Enter(c) \/ Contract!Leave(c)
    OBVIOUS
  <2>1. CASE \E c \in Calls : LockAcquired(c)
    BY <2>1, EntersAlone DEF Contract!Enter
  <2>2. CASE ~\E c \in Calls : LockAcquired(c)
    <3>1. Inside' \subseteq Inside /\ \A x, y \in Inside : x = y
      BY <2>2, NobodyElseEnters, InsideHasLock
    <3>2. PICK c \in Inside : c \notin Inside'
      BY <3>1
    <3> QED
      BY <3>1, <3>2 DEF Contract!Leave, Inside
  <2> QED
    BY <2>1, <2>2
<1> QED
  BY <1>1, <1>2, SessionsPreserved, PTL DEF Spec, OneInside, Contract!LockSpec
=============================================================================
