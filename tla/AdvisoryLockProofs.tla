------------------------- MODULE AdvisoryLockProofs -------------------------
(***************************************************************************)
(* What the lock-row lease guarantees for every set of claims, every clock *)
(* skew and every ttl.  Three facts carry the safety proofs:               *)
(*   - a reap carries a cutoff its claimant's clock has already reached,   *)
(*     so it only removes lapsed rows;                                     *)
(*   - the primary key keeps one row per name;                             *)
(*   - a holder whose lease is live still finds its own row, unchanged.    *)
(***************************************************************************)
EXTENDS AdvisoryLock, TLAPS

-----------------------------------------------------------------------------

\* A rendered lease is an integer instant.
LEMMA LeaseUntilType ==
    ASSUME LockTypeOK, NEW c \in Claims, NEW ttl \in Int
    PROVE  LeaseUntil(c, ttl) \in Int /\ Clock(c) \in Int
BY LockAssumption DEF LockTypeOK, LeaseUntil, Clock

\* A claim moves only from and to the places the handle has.
LEMMA GotoType ==
    ASSUME LockTypeOK, NEW c \in Claims, NEW from, NEW to \in Pcs,
           Goto(c, from, to)
    PROVE  /\ pc' \in [Claims -> Pcs]
           /\ pc[c] = from
           /\ pc'[c] = to
           /\ \A d \in Claims \ {c} : pc'[d] = pc[d]
BY DEF LockTypeOK, Goto

\* The initial state is well typed.
LEMMA LockTypeInit == LockInit => LockTypeOK
BY DEF LockInit, LockTypeOK, Pcs, InFlight

\* Every statement, sampling, crash and tick keeps the variables well typed.
LEMMA LockTypeStep == LockTypeOK /\ [LockNext]_lockVars => LockTypeOK'
<1> SUFFICES ASSUME LockTypeOK, [LockNext]_lockVars
             PROVE  LockTypeOK'
  OBVIOUS
<1> USE DEF Pcs, InFlight
<1>1. ASSUME NEW c \in Claims, Start(c) PROVE LockTypeOK'
  <2>1. pc' \in [Claims -> Pcs]
    BY <1>1, GotoType DEF Start
  <2>2. Clock(c) \in Int
    BY LeaseUntilType, LockAssumption
  <2> QED
    BY <1>1, <2>1, <2>2 DEF Start, LockTypeOK
<1>2. ASSUME NEW c \in Claims, Reap(c) PROVE LockTypeOK'
  <2>1. pc' \in [Claims -> Pcs]
    BY <1>2, GotoType DEF Reap
  <2> QED
    BY <1>2, <2>1 DEF Reap, LockTypeOK
<1>3. ASSUME NEW c \in Claims, RenderClaim(c) PROVE LockTypeOK'
  <2>1. pc' \in [Claims -> Pcs]
    BY <1>3, GotoType DEF RenderClaim
  <2>2. LeaseUntil(c, Ttl) \in Int
    BY LeaseUntilType, LockAssumption
  <2> QED
    BY <1>3, <2>1, <2>2 DEF RenderClaim, LockTypeOK
<1>4. ASSUME NEW c \in Claims, Claim(c) PROVE LockTypeOK'
  <2>1. pc' \in [Claims -> Pcs]
    BY <1>4, GotoType DEF Claim
  <2>2. OwnerOf[c] \in Owners /\ stamp[c] \in Int
    BY LockAssumption DEF LockTypeOK
  <2>3. rows' \subseteq Rows
    BY <1>4, <2>2 DEF Claim, LockTypeOK, Rows
  <2> QED
    BY <1>4, <2>1, <2>3 DEF Claim, LockTypeOK
<1>5. ASSUME NEW c \in Claims, Verify(c) PROVE LockTypeOK'
  <2>1. pc' \in [Claims -> Pcs]
    BY <1>5, GotoType DEF Verify
  <2>2. lease' \in [Claims -> Int]
    BY <1>5 DEF Verify, LockTypeOK, Rows
  <2> QED
    BY <1>5, <2>1, <2>2 DEF Verify, LockTypeOK
<1>6. ASSUME NEW c \in Claims, RenderRenew(c) PROVE LockTypeOK'
  <2>1. pc' \in [Claims -> Pcs]
    BY <1>6, GotoType DEF RenderRenew
  <2>2. \A ttl \in RenewTtls : LeaseUntil(c, ttl) \in Int
    BY LeaseUntilType, LockAssumption
  <2> QED
    BY <1>6, <2>1, <2>2 DEF RenderRenew, LockTypeOK
<1>7. ASSUME NEW c \in Claims, Renew(c) PROVE LockTypeOK'
  <2>1. pc' \in [Claims -> Pcs]
    BY <1>7, GotoType DEF Renew
  <2>2. stamp[c] \in Int
    BY DEF LockTypeOK
  <2>3. rows' \subseteq Rows
    BY <1>7, <2>2 DEF Renew, LockTypeOK, Rows
  <2>4. lease' \in [Claims -> Int]
    BY <1>7, <2>2 DEF Renew, LockTypeOK
  <2> QED
    BY <1>7, <2>1, <2>3, <2>4 DEF Renew, LockTypeOK
<1>8. ASSUME NEW c \in Claims, RenderRelease(c) PROVE LockTypeOK'
  <2>1. pc' \in [Claims -> Pcs]
    BY <1>8, GotoType DEF RenderRelease
  <2> QED
    BY <1>8, <2>1 DEF RenderRelease, LockTypeOK
<1>9. ASSUME NEW c \in Claims, Release(c) PROVE LockTypeOK'
  <2>1. pc' \in [Claims -> Pcs]
    BY <1>9, GotoType DEF Release
  <2> QED
    BY <1>9, <2>1 DEF Release, LockTypeOK
<1>10. ASSUME NEW c \in Claims, Fail(c) PROVE LockTypeOK'
  <2>1. pc' \in [Claims -> Pcs]
    BY <1>10, GotoType DEF Fail
  <2> QED
    BY <1>10, <2>1 DEF Fail, LockTypeOK
<1>11. ASSUME NEW c \in Claims, Crash(c) PROVE LockTypeOK'
  BY <1>11 DEF Crash, LockTypeOK
<1>12. CASE Tick
  BY <1>12 DEF Tick, LockTypeOK
<1>13. CASE Finished \/ UNCHANGED lockVars
  BY <1>13 DEF Finished, lockVars, LockTypeOK
<1> QED
  BY <1>1, <1>2, <1>3, <1>4, <1>5, <1>6, <1>7, <1>8, <1>9, <1>10, <1>11,
     <1>12, <1>13 DEF LockNext, LockStep

\* The variables of the lock keep their types: the row carries a token and an
\* instant, a handle is in one of its states.
THEOREM LockTypeCorrect == LockSpec => []LockTypeOK
<1>1. LockInit => LockTypeOK
  BY LockTypeInit
<1>2. LockTypeOK /\ [LockNext]_lockVars => LockTypeOK'
  BY LockTypeStep
<1> QED
  BY <1>1, <1>2, PTL DEF LockSpec

-----------------------------------------------------------------------------

\* A cutoff is sampled from the clock when the reap is rendered, and clocks do
\* not run back.
LEMMA CutoffPastStep == LockInv /\ [LockNext]_lockVars => CutoffPast'
<1> SUFFICES ASSUME LockInv, [LockNext]_lockVars,
                    NEW c \in Claims, pc'[c] = "reaping"
             PROVE  stamp'[c] <= Clock(c)'
  BY DEF CutoffPast
<1>1. /\ Clock(c) \in Int /\ now \in Int /\ Skew[c] \in Int
      /\ pc[c] = "reaping" => stamp[c] <= Clock(c)
      /\ stamp \in [Claims -> Int] /\ pc \in [Claims -> Pcs]
  BY LockAssumption DEF LockInv, LockTypeOK, CutoffPast, Clock
<1>2. ASSUME NEW d \in Claims, LockStep(d) PROVE stamp'[c] <= Clock(c)'
  <2>1. Start(d) => stamp'[c] <= Clock(c)'
    BY <1>1 DEF Start, Goto, Clock
  <2>2. Reap(d) \/ Claim(d) \/ Renew(d) \/ Release(d)
        => stamp'[c] <= Clock(c)'
    BY <1>1 DEF Reap, Claim, Renew, Release, Goto, Clock
  <2>3. RenderClaim(d) \/ RenderRenew(d) => stamp'[c] <= Clock(c)'
    BY <1>1 DEF RenderClaim, RenderRenew, Goto, Clock
  <2>4. Verify(d) \/ RenderRelease(d) \/ Fail(d) \/ Crash(d)
        => stamp'[c] <= Clock(c)'
    BY <1>1 DEF Verify, RenderRelease, Fail, Crash, Goto, Clock
  <2> QED
    BY <1>2, <2>1, <2>2, <2>3, <2>4 DEF LockStep
<1>3. Tick => stamp'[c] <= Clock(c)'
  BY <1>1 DEF Tick, Clock
<1>4. Finished \/ UNCHANGED lockVars => stamp'[c] <= Clock(c)'
  BY <1>1 DEF Finished, lockVars, Clock
<1> QED
  BY <1>2, <1>3, <1>4 DEF LockNext

\* The insert only lands on an empty key; nothing else adds a row.
LEMMA OneRowStep == LockInv /\ [LockNext]_lockVars => OneRow'
<1> SUFFICES ASSUME LockInv, [LockNext]_lockVars PROVE OneRow'
  OBVIOUS
<1>1. OneRow
  BY DEF LockInv
<1>2. ASSUME NEW d \in Claims, LockStep(d) PROVE OneRow'
  <2>1. Reap(d) \/ Release(d) => OneRow'
    BY <1>1 DEF Reap, Release, OneRow
  <2>2. Claim(d) => OneRow'
    BY <1>1 DEF Claim, OneRow
  <2>3. Renew(d) => OneRow'
    BY <1>1 DEF Renew, OneRow
  <2>4. Start(d) \/ RenderClaim(d) \/ Verify(d) \/ RenderRenew(d)
        \/ RenderRelease(d) \/ Fail(d) \/ Crash(d) => OneRow'
    BY <1>1 DEF Start, RenderClaim, Verify, RenderRenew, RenderRelease, Fail,
                Crash, OneRow
  <2> QED
    BY <1>2, <2>1, <2>2, <2>3, <2>4 DEF LockStep
<1>3. Tick \/ Finished \/ UNCHANGED lockVars => OneRow'
  BY <1>1 DEF Tick, Finished, lockVars, OneRow
<1> QED
  BY <1>2, <1>3 DEF LockNext

\* A step of another claim leaves a live row of a sole owner alone: a reap
\* only removes lapsed rows, and everything else asks for its own token.
LEMMA OthersLeaveRow ==
    ASSUME LockInv, NEW c \in Claims, Sole(c), NEW d \in Claims \ {c},
           LockStep(d), NEW r \in rows, Owned(r, c), ~Lapsed(r.expires)
    PROVE  r \in rows'
<1>1. ~Owned(r, d)
  BY DEF Owned, Sole
<1>2. Reap(d) => r \in rows'
  <2>1. SUFFICES ASSUME Reap(d), Expired(r, stamp[d]) PROVE FALSE
    BY DEF Reap
  <2>2. stamp[d] <= Clock(d) /\ r.expires <= stamp[d]
    BY <2>1 DEF Reap, Goto, LockInv, CutoffPast, Expired
  <2>3. r.expires \in Int /\ stamp[d] \in Int /\ Clock(d) \in Int
    BY LockAssumption DEF LockInv, LockTypeOK, Rows, Clock
  <2> QED
    BY <2>2, <2>3 DEF Lapsed
<1>3. Claim(d) => r \in rows'
  BY DEF Claim
<1>4. Renew(d) => r \in rows'
  BY <1>1 DEF Renew
<1>5. Release(d) => r \in rows'
  BY <1>1 DEF Release
<1>6. Start(d) \/ RenderClaim(d) \/ Verify(d) \/ RenderRenew(d)
      \/ RenderRelease(d) \/ Fail(d) \/ Crash(d) => r \in rows'
  BY DEF Start, RenderClaim, Verify, RenderRenew, RenderRelease, Fail, Crash
<1> QED
  BY <1>2, <1>3, <1>4, <1>5, <1>6 DEF LockStep

\* Another claim's step does not change whether a claim holds, nor its lease.
LEMMA OthersLeaveHandle ==
    ASSUME LockTypeOK, NEW c \in Claims, NEW d \in Claims \ {c}, LockStep(d)
    PROVE  pc'[c] = pc[c] /\ lease'[c] = lease[c] /\ now' = now
<1> USE DEF LockTypeOK, Goto
<1>1. Start(d) \/ Reap(d) \/ RenderClaim(d) \/ Claim(d)
      => pc'[c] = pc[c] /\ lease' = lease /\ now' = now
  BY DEF Start, Reap, RenderClaim, Claim
<1>2. Verify(d) \/ Renew(d)
      => pc'[c] = pc[c] /\ lease'[c] = lease[c] /\ now' = now
  BY DEF Verify, Renew
<1>3. RenderRenew(d) \/ RenderRelease(d) \/ Release(d) \/ Fail(d)
      => pc'[c] = pc[c] /\ lease' = lease /\ now' = now
  BY DEF RenderRenew, RenderRelease, Release, Fail
<1>4. Crash(d)
      => pc'[c] = pc[c] /\ lease' = lease /\ now' = now
  BY DEF Crash
<1> QED
  BY <1>1, <1>2, <1>3, <1>4 DEF LockStep

\* A holder keeps the row it counts on until its lease lapses or it lets go.
LEMMA LeaseBackedStep == LockInv /\ [LockNext]_lockVars => LeaseBacked'
<1> SUFFICES ASSUME LockInv, [LockNext]_lockVars, NEW c \in Claims, Sole(c),
                    Holding(c)', ~Lapsed(lease[c])'
             PROVE  \E r \in rows' : Owned(r, c) /\ r.expires = lease'[c]
  BY DEF LeaseBacked, Sole, Owned
<1> USE DEF LockInv
<1>1. ASSUME NEW d \in Claims \ {c}, LockStep(d)
      PROVE  \E r \in rows' : Owned(r, c) /\ r.expires = lease'[c]
  <2>1. pc'[c] = pc[c] /\ lease'[c] = lease[c] /\ now' = now
    BY <1>1, OthersLeaveHandle
  <2>2. Holding(c) /\ ~Lapsed(lease[c])
    BY <2>1 DEF Holding, Lapsed, Clock
  <2>3. PICK r \in rows : Owned(r, c) /\ r.expires = lease[c]
    BY <2>2 DEF LeaseBacked
  <2>4. r \in rows'
    BY <1>1, <2>2, <2>3, OthersLeaveRow
  <2> QED
    BY <2>1, <2>3, <2>4
<1>2. ASSUME LockStep(c)
      PROVE  \E r \in rows' : Owned(r, c) /\ r.expires = lease'[c]
  <2>1. CASE Verify(c)
    BY <2>1 DEF Verify, Goto, Holding, LockTypeOK
  <2>2. CASE Renew(c)
    <3>1. PICK r \in rows : Counted(r, c)
      BY <2>2 DEF Renew, Goto, Holding, LockTypeOK
    <3>2. Owned(r, c) /\ lease'[c] = stamp[c]
      BY <2>2, <3>1 DEF Renew, Counted, LockTypeOK
    <3> DEFINE s == [owner |-> r.owner, expires |-> stamp[c]]
    <3>3. s \in rows'
      BY <2>2, <3>2 DEF Renew
    <3> QED
      BY <3>2, <3>3 DEF Owned
  <2>3. CASE RenderRenew(c)
    <3>1. Holding(c) /\ ~Lapsed(lease[c]) /\ lease' = lease /\ rows' = rows
      BY <2>3 DEF RenderRenew, Goto, Holding, Lapsed, Clock
    <3> QED
      BY <3>1 DEF LeaseBacked
  <2>4. Start(c) \/ Reap(c) \/ RenderClaim(c) \/ Claim(c) => FALSE
    BY DEF Start, Reap, RenderClaim, Claim, Goto, Holding, LockTypeOK
  <2>5. RenderRelease(c) \/ Release(c) \/ Fail(c) => FALSE
    BY DEF RenderRelease, Release, Fail, Goto, Holding, LockTypeOK
  <2>6. CASE Crash(c)
    <3>1. Holding(c) /\ ~Lapsed(lease[c]) /\ lease' = lease /\ rows' = rows
      BY <2>6 DEF Crash, Holding, Lapsed, Clock
    <3> QED
      BY <3>1 DEF LeaseBacked
  <2> QED
    BY <1>2, <2>1, <2>2, <2>3, <2>4, <2>5, <2>6 DEF LockStep
<1>3. ASSUME Tick \/ Finished \/ UNCHANGED lockVars
      PROVE  \E r \in rows' : Owned(r, c) /\ r.expires = lease'[c]
  <2>1. /\ rows' = rows /\ lease' = lease /\ pc' = pc
        /\ now' \in {now, now + 1}
    BY <1>3 DEF Tick, Finished, lockVars
  <2>2. lease[c] \in Int
    BY DEF LockTypeOK
  <2>3. ~Lapsed(lease[c])
    <3>1. SUFFICES ASSUME Lapsed(lease[c]) PROVE FALSE
      OBVIOUS
    <3>2. PICK d \in Claims : lease[c] <= Clock(d)
      BY <3>1 DEF Lapsed
    <3>3. Skew[d] \in Int /\ now \in Int
      BY LockAssumption DEF LockTypeOK
    <3>4. lease'[c] <= now' + Skew[d]
      BY <2>1, <2>2, <3>2, <3>3 DEF Clock
    <3> QED
      BY <3>4 DEF Lapsed, Clock
  <2>4. Holding(c)
    BY <2>1 DEF Holding
  <2> QED
    BY <2>1, <2>3, <2>4 DEF LeaseBacked
<1> QED
  BY <1>1, <1>2, <1>3 DEF LockNext

\* The four parts hold together in every reachable state.
THEOREM LockInvariant == LockSpec => []LockInv
<1>1. LockInit => LockInv
  <2> SUFFICES ASSUME LockInit PROVE LockInv
    OBVIOUS
  <2>1. LockTypeOK
    BY LockTypeInit
  <2>2. CutoffPast /\ OneRow /\ LeaseBacked
    BY DEF LockInit, CutoffPast, OneRow, LeaseBacked, Holding
  <2> QED
    BY <2>1, <2>2 DEF LockInv
<1>2. LockInv /\ [LockNext]_lockVars => LockInv'
  BY LockTypeStep, CutoffPastStep, OneRowStep, LeaseBackedStep DEF LockInv
<1> QED
  BY <1>1, <1>2, PTL DEF LockSpec

\* Two claims with tokens of their own never hold the lock together while both
\* leases are live, whatever the clocks, ttls, crashes and delays.
THEOREM LockSafety == LockSpec => []MutualExclusion
<1>1. LockInv => MutualExclusion
  <2> SUFFICES ASSUME LockInv,
                      NEW c \in Claims, NEW d \in Claims, c # d,
                      Sole(c), Sole(d), Holding(c), Holding(d),
                      ~Lapsed(lease[c]), ~Lapsed(lease[d])
               PROVE  FALSE
    BY DEF MutualExclusion
  <2>1. PICK r \in rows : Owned(r, c)
    BY DEF LockInv, LeaseBacked
  <2>2. PICK s \in rows : Owned(s, d)
    BY DEF LockInv, LeaseBacked
  <2>3. r = s
    BY DEF LockInv, OneRow
  <2> QED
    BY <2>1, <2>2, <2>3 DEF Owned, Sole
<1> QED
  BY <1>1, LockInvariant, PTL

\* A row whose lease is live on every clock leaves the table only by a release
\* that carries its token: no reap, claim or renewal steals it.
THEOREM LiveRowsKept == LockSpec => LiveRowKept
<1> DEFINE Kept ==
      \A r \in rows :
          ~Lapsed(r.expires) /\ (\A s \in rows' : s.owner # r.owner)
          => \E c \in Claims : Owned(r, c) /\ pc[c] = "releasing"
                               /\ pc'[c] = "done"
<1>1. LockInv /\ [LockNext]_lockVars => Kept
  <2> SUFFICES ASSUME LockInv, [LockNext]_lockVars, NEW r \in rows,
                      ~Lapsed(r.expires), \A s \in rows' : s.owner # r.owner
               PROVE  \E c \in Claims : Owned(r, c) /\ pc[c] = "releasing"
                                       /\ pc'[c] = "done"
    OBVIOUS
  <2>1. r \notin rows'
    OBVIOUS
  <2>2. PICK c \in Claims : LockStep(c)
    BY <2>1 DEF LockNext, Tick, Finished, lockVars
  <2>3. ~Reap(c)
    <3>1. SUFFICES ASSUME Reap(c) PROVE FALSE
      OBVIOUS
    <3>2. r.expires <= stamp[c] /\ stamp[c] <= Clock(c)
      BY <2>1, <3>1 DEF Reap, Goto, LockInv, CutoffPast, Expired
    <3>3. r.expires \in Int /\ stamp[c] \in Int /\ Clock(c) \in Int
      BY LockAssumption DEF LockInv, LockTypeOK, Rows, Clock
    <3> QED
      BY <3>2, <3>3 DEF Lapsed
  <2>4. ~Claim(c)
    BY <2>1 DEF Claim
  <2>5. ~Renew(c)
    <3>1. SUFFICES ASSUME Renew(c) PROVE FALSE
      OBVIOUS
    <3> DEFINE s == IF Owned(r, c) THEN [owner |-> r.owner, expires |-> stamp[c]]
                    ELSE r
    <3>2. s \in rows'
      BY <3>1 DEF Renew
    <3>3. s.owner = r.owner
      OBVIOUS
    <3> QED
      BY <3>2, <3>3
  <2>6. ~(Start(c) \/ RenderClaim(c) \/ Verify(c) \/ RenderRenew(c)
          \/ RenderRelease(c) \/ Fail(c) \/ Crash(c))
    BY <2>1 DEF Start, RenderClaim, Verify, RenderRenew, RenderRelease, Fail,
                Crash
  <2>7. Release(c)
    BY <2>2, <2>3, <2>4, <2>5, <2>6 DEF LockStep
  <2> QED
    BY <2>1, <2>7 DEF Release, Goto, LockInv, LockTypeOK
<1> QED
  BY <1>1, LockInvariant, PTL DEF LockSpec, LiveRowKept

-----------------------------------------------------------------------------

\* Whoever wrote the row present has not been refused.
RowClaimed ==
    \A r \in rows : \E c \in Claims :
        Owned(r, c) /\ pc[c] \notin {"idle", "reaping", "reaped", "claiming",
                                     "refused"}

\* An empty table that somebody claimed was emptied by a call that is still
\* under way or was granted.
EmptiedBySomeone ==
    rows = {} /\ (\E c \in Claims : pc[c] \in {"verifying", "refused"})
    => \E d \in Claims : pc[d] \in {"reaped", "claiming", "failed", "done"}

RaceInv == LockTypeOK /\ RowClaimed /\ EmptiedBySomeone /\ NotAllRefused

\* Where a step of a claim can lead, and that it moves no other claim.
LEMMA StepMoves ==
    ASSUME LockTypeOK, NEW c \in Claims, LockStep(c)
    PROVE  /\ \A d \in Claims \ {c} : pc'[d] = pc[d]
           /\ pc'[c] # "idle"
           /\ pc'[c] = "refused" =>
                \/ pc[c] = "refused"
                \/ pc[c] = "verifying" /\ rows' = rows
                   /\ \A r \in rows : ~Owned(r, c)
           /\ pc[c] = "verifying" =>
                pc'[c] \in {"verifying", "held", "refused", "failed"}
           /\ pc'[c] = "verifying" => pc[c] = "verifying" \/ Claim(c)
           /\ pc[c] \in {"reaped", "claiming", "failed", "done"} =>
                \/ pc'[c] \in {"reaped", "claiming", "failed", "done"}
                \/ Claim(c)
           /\ pc[c] \notin {"idle", "reaping", "reaped", "claiming",
                            "verifying", "refused"} =>
                pc'[c] \notin {"idle", "reaping", "reaped", "claiming",
                               "verifying", "refused"}
<1> USE DEF LockTypeOK, Goto
<1>1. CASE Start(c) \/ Reap(c) \/ RenderClaim(c) \/ Claim(c)
  BY <1>1 DEF Start, Reap, RenderClaim, Claim
<1>2. CASE Verify(c)
  BY <1>2 DEF Verify
<1>3. CASE RenderRenew(c) \/ Renew(c)
  BY <1>3 DEF RenderRenew, Renew
<1>4. CASE RenderRelease(c) \/ Release(c)
  BY <1>4 DEF RenderRelease, Release
<1>5. CASE Fail(c)
  BY <1>5 DEF Fail
<1>6. CASE Crash(c)
  BY <1>6 DEF Crash
<1> QED
  BY <1>1, <1>2, <1>3, <1>4, <1>5, <1>6 DEF LockStep

\* What a step of a claim can do to the table.
LEMMA StepWrites ==
    ASSUME LockTypeOK, NEW c \in Claims, LockStep(c)
    PROVE  \/ rows' = rows
           \/ rows' \subseteq rows /\ pc'[c] \in {"reaped", "done"}
           \/ Claim(c) /\ rows' # {} /\ \A r \in rows' : Owned(r, c)
           \/ /\ \A r \in rows' : \E s \in rows : s.owner = r.owner
              /\ rows' = {} => rows = {}
<1>1. CASE Reap(c) \/ Release(c)
  BY <1>1 DEF Reap, Release, Goto, LockTypeOK
<1>2. CASE Claim(c)
  BY <1>2 DEF Claim, Owned
<1>3. CASE Renew(c)
  <2>1. \A r \in rows' : \E s \in rows : s.owner = r.owner
    BY <1>3 DEF Renew
  <2>2. rows' = {} => rows = {}
    BY <1>3 DEF Renew
  <2> QED
    BY <2>1, <2>2
<1>4. CASE Start(c) \/ RenderClaim(c) \/ Verify(c) \/ RenderRenew(c)
           \/ RenderRelease(c) \/ Fail(c) \/ Crash(c)
  BY <1>4 DEF Start, RenderClaim, Verify, RenderRenew, RenderRelease, Fail,
              Crash
<1> QED
  BY <1>1, <1>2, <1>3, <1>4 DEF LockStep

\* A claim that wrote the row is never the one its own verify refuses.
LEMMA RowClaimedStep ==
    ASSUME RaceInv, NEW c \in Claims, LockStep(c)
    PROVE  RowClaimed'
<1> DEFINE Early == {"idle", "reaping", "reaped", "claiming", "refused"}
<1> USE DEF RaceInv
<1>1. ASSUME NEW d \in Claims, pc[d] \notin Early,
             pc'[d] \in Early, NEW r \in rows, Owned(r, d)
      PROVE  FALSE
  <2>1. d = c
    BY <1>1, StepMoves
  <2>2. pc'[c] = "refused"
    BY <1>1, <2>1, StepMoves
  <2>3. \A s \in rows : ~Owned(s, c)
    BY <1>1, <2>1, <2>2, StepMoves
  <2> QED
    BY <1>1, <2>1, <2>3
<1>2. CASE Claim(c) /\ rows' # {} /\ \A r \in rows' : Owned(r, c)
  BY <1>2 DEF RowClaimed, Claim, Goto, LockTypeOK, Owned
<1>3. ASSUME \A r \in rows' : \E s \in rows : s.owner = r.owner
      PROVE  RowClaimed'
  <2> SUFFICES ASSUME NEW r \in rows'
               PROVE  \E d \in Claims : Owned(r, d) /\ pc'[d] \notin Early
    BY DEF RowClaimed, Owned
  <2>1. PICK s \in rows : s.owner = r.owner
    BY <1>3
  <2>2. PICK d \in Claims : Owned(s, d) /\ pc[d] \notin Early
    BY DEF RowClaimed
  <2> QED
    BY <1>1, <2>1, <2>2 DEF Owned
<1> QED
  BY <1>2, <1>3, StepWrites

\* The call that empties the table is not itself refused by that.
LEMMA EmptiedStep ==
    ASSUME RaceInv, NEW c \in Claims, LockStep(c)
    PROVE  EmptiedBySomeone'
<1> DEFINE Later == {"reaped", "claiming", "failed", "done"}
<1> USE DEF RaceInv
<1> SUFFICES ASSUME rows' = {}, NEW e \in Claims,
                    pc'[e] \in {"verifying", "refused"}
             PROVE  \E d \in Claims : pc'[d] \in Later
  BY DEF EmptiedBySomeone
<1>1. CASE rows # {}
  BY <1>1, StepWrites
<1>2. CASE rows = {}
  <2>1. ~Claim(c)
    BY <1>2 DEF Claim
  <2>2. pc[e] \in {"verifying", "refused"}
    BY <2>1, StepMoves
  <2>3. PICK d \in Claims : pc[d] \in Later
    BY <1>2, <2>2 DEF EmptiedBySomeone
  <2> QED
    BY <2>1, <2>3, StepMoves
<1> QED
  BY <1>1, <1>2

\* A claim is refused because of a row another claim wrote or of a call that
\* emptied the table, and either leaves a claim that is not refused.
LEMMA NotAllRefusedStep ==
    ASSUME RaceInv, NEW c \in Claims, LockStep(c)
    PROVE  NotAllRefused'
<1> USE DEF RaceInv
<1> SUFFICES ASSUME NEW e \in Claims, pc'[e] = "refused"
             PROVE  \E d \in Claims : pc'[d] \notin {"idle", "refused"}
  BY DEF NotAllRefused
<1>1. CASE pc'[c] # "refused"
  BY <1>1, StepMoves
<1>2. CASE pc'[c] = "refused" /\ pc[c] = "refused"
  <2>1. PICK d \in Claims : pc[d] \notin {"idle", "refused"}
    BY <1>2 DEF NotAllRefused
  <2> QED
    BY <1>2, <2>1, StepMoves
<1>3. CASE pc'[c] = "refused" /\ pc[c] = "verifying"
           /\ \A r \in rows : ~Owned(r, c)
  <2>1. CASE rows # {}
    BY <1>3, <2>1, StepMoves DEF RowClaimed
  <2>2. CASE rows = {}
    <3>1. PICK d \in Claims : pc[d] \in {"reaped", "claiming", "failed", "done"}
      BY <1>3, <2>2 DEF EmptiedBySomeone
    <3> QED
      BY <1>3, <3>1, StepMoves
  <2> QED
    BY <2>1, <2>2
<1> QED
  BY <1>1, <1>2, <1>3, StepMoves

\* However many claims race, and whatever lapses, crashes or is delayed, they
\* are never all told "refused".
THEOREM SomeClaimSurvives == LockSpec => []NotAllRefused
<1>1. LockInit => RaceInv
  <2> SUFFICES ASSUME LockInit PROVE RaceInv
    OBVIOUS
  <2>1. RowClaimed /\ EmptiedBySomeone /\ NotAllRefused
    BY DEF LockInit, RowClaimed, EmptiedBySomeone, NotAllRefused
  <2> QED
    BY <2>1, LockTypeInit DEF RaceInv
<1>2. RaceInv /\ [LockNext]_lockVars => RaceInv'
  <2> SUFFICES ASSUME RaceInv, [LockNext]_lockVars PROVE RaceInv'
    OBVIOUS
  <2>1. LockTypeOK'
    BY LockTypeStep DEF RaceInv
  <2>2. ASSUME NEW c \in Claims, LockStep(c) PROVE RaceInv'
    BY <2>1, <2>2, RowClaimedStep, EmptiedStep, NotAllRefusedStep DEF RaceInv
  <2>3. ASSUME Tick \/ Finished \/ UNCHANGED lockVars PROVE RaceInv'
    <3>1. rows' = rows /\ pc' = pc
      BY <2>3 DEF Tick, Finished, lockVars
    <3>2. (RowClaimed /\ EmptiedBySomeone /\ NotAllRefused)'
      BY <3>1 DEF RaceInv, RowClaimed, EmptiedBySomeone, NotAllRefused, Owned
    <3> QED
      BY <2>1, <3>2 DEF RaceInv
  <2> QED
    BY <2>2, <2>3 DEF LockNext
<1>3. RaceInv => NotAllRefused
  BY DEF RaceInv
<1> QED
  BY <1>1, <1>2, <1>3, PTL DEF LockSpec

-----------------------------------------------------------------------------

\* When the driver counts the rows an UPDATE found, a renew() that returned
\* false means the claim's row really is gone or another owner's.
THEOREM RenewIsTruthful ==
    ASSUME FoundRows PROVE LockSpec => []RenewTruthful
<1>1. LockInit => RenewTruthful
  BY DEF LockInit, RenewTruthful
<1>2. LockTypeOK /\ RenewTruthful /\ [LockNext]_lockVars => RenewTruthful'
  <2> SUFFICES ASSUME LockTypeOK, RenewTruthful, [LockNext]_lockVars,
                      NEW c \in Claims, pc'[c] = "lost", Sole(c),
                      NEW r \in rows', Owned(r, c)
               PROVE  FALSE
    BY DEF RenewTruthful, Sole, Owned
  <2>1. pc[c] = "lost" => \A s \in rows : ~Owned(s, c)
    BY DEF RenewTruthful
  <2>2. PICK d \in Claims : LockStep(d)
    BY <2>1 DEF LockNext, Tick, Finished, lockVars
  <2>3. CASE d = c
    <3>1. CASE Renew(c)
      BY <3>1, FoundRows DEF Renew, Counted, Owned, Goto, LockTypeOK
    <3>2. CASE pc[c] = "lost"
      BY <2>1, <2>2, <2>3, <3>2, StepWrites DEF Claim, Goto, Owned
    <3>3. Start(c) \/ Reap(c) \/ RenderClaim(c) \/ Claim(c) \/ Verify(c)
          => FALSE
      BY DEF Start, Reap, RenderClaim, Claim, Verify, Goto, LockTypeOK
    <3>4. RenderRenew(c) \/ RenderRelease(c) \/ Release(c) \/ Fail(c)
          => FALSE
      BY DEF RenderRenew, RenderRelease, Release, Fail, Goto, LockTypeOK
    <3>5. Crash(c) => pc[c] = "lost"
      BY DEF Crash
    <3> QED
      BY <2>2, <2>3, <3>1, <3>2, <3>3, <3>4, <3>5 DEF LockStep
  <2>4. CASE d # c
    <3>1. pc[c] = "lost"
      BY <2>2, <2>4, StepMoves
    <3>2. ~\A s \in rows' : Owned(s, d)
      BY <2>4 DEF Owned, Sole
    <3> QED
      BY <2>1, <2>2, <3>1, <3>2, StepWrites DEF Owned
  <2> QED
    BY <2>3, <2>4
<1> QED
  BY <1>1, <1>2, LockTypeCorrect, PTL DEF LockSpec
=============================================================================
