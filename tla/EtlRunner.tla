------------------------------ MODULE EtlRunner -----------------------------
(***************************************************************************)
(* The ETL runtime of packages/etl/src/runner.ts on the checkpoint of      *)
(* packages/orm/src/core/checkpoint.ts and the lock-row lease of           *)
(* AdvisoryLock, for one job.  A claim is one invocation of run, backfill  *)
(* or replay; pruners call checkpoint.prune, which takes no lock.          *)
(*                                                                         *)
(* A run reads the watermark in one step and commits its window in a later *)
(* one; a backfill checks the horizon in one step and folds its windows in *)
(* later ones.  Anything may happen between, the lapse of the lease, which *)
(* the runner never renews, included.                                      *)
(***************************************************************************)
EXTENDS AdvisoryLock, EtlWindow

CONSTANTS
    Entries,       \* the entry points an invocation may call
    Pruners,       \* callers of checkpoint.prune
    InitMarks,     \* watermarks the job may already stand at
    Offsets,       \* how far ahead of UTC a backfill's marker may be written
    LeasesOutlast, \* no statement of a run lands after its lease has lapsed
    PruneForward,  \* callers never prune to an earlier horizon
    PruneFolded,   \* nor into the bucket the watermark lies in
    PrunesApart,   \* no prune lands between a horizon check and its folds
    AllowPruned,   \* options.unsafeAllowPrunedReplay
    FaultsUntil    \* bound on the time at which anything fails or crashes

ASSUME RunnerAssumption ==
    /\ Entries \subseteq {"run", "backfill", "replay"}
    /\ InitMarks \subseteq Instants \cup {Null}
    /\ Offsets \subseteq Int
    /\ {LeasesOutlast, PruneForward, PruneFolded, PrunesApart, AllowPruned}
          \subseteq BOOLEAN
    /\ FaultsUntil \in Nat

VARIABLES
    phase,        \* where an invocation that got the lock stands
    from,         \* the edge of the window it is about to fold
    upto,         \* where its windows end
    pending,      \* the prune each pruner has in flight
    source,       \* the instants whose source rows are present
    rollup,       \* per bucket, the source rows its rollup row accounts for
    windowEnd,    \* the checkpoint's window_end
    prunedBefore  \* the checkpoint's pruned_before

jobVars == <<phase, from, upto>>
dataVars == <<source, rollup, windowEnd, prunedBefore>>
etlVars == <<jobVars, pending, dataVars>>
vars == <<lockVars, etlVars>>

Phases == {"begin", "commit", "fold", "over"}

EtlInit ==
    /\ LockInit
    /\ phase = [c \in Claims |-> "begin"]
    /\ from = [c \in Claims |-> 0]
    /\ upto = [c \in Claims |-> 0]
    /\ pending = [p \in Pruners |-> Null]
    /\ source = Instants
    /\ windowEnd \in InitMarks
    /\ rollup = [e \in Edges |-> {i \in Bucket(e) : i < windowEnd}]
    /\ prunedBefore = Null

-----------------------------------------------------------------------------

\* The invocation holds the lock and its code is running at phase p.
Working(c, p) == pc[c] = "held" /\ phase[c] = p

OnTime(c) == LeasesOutlast => ~Lapsed(lease[c])

\* acquireJobLock: tryAdvisoryLock on the job's name.
AcquireStep(c) ==
    /\ \/ Start(c) \/ Reap(c) \/ RenderClaim(c) \/ Claim(c) \/ Verify(c)
    /\ UNCHANGED etlVars

\* run: checkpoint.read() and nextWindow; no window is "up-to-date".
ReadCheckpoint(c) ==
    /\ Alive(c) /\ Working(c, "begin") /\ "run" \in Entries
    /\ \/ /\ Due(windowEnd)
          /\ phase' = [phase EXCEPT ![c] = "commit"]
          /\ from' = [from EXCEPT ![c] = NextFrom(windowEnd)]
          /\ upto' = [upto EXCEPT ![c] = NextFrom(windowEnd) + Grain]
       \/ /\ ~Due(windowEnd)
          /\ phase' = [phase EXCEPT ![c] = "over"]
          /\ UNCHANGED <<from, upto>>
    /\ UNCHANGED <<lockVars, pending, dataVars>>

\* Broken variant: the watermark moves and the load was lost.
CommitUnloaded(c) ==
    /\ Working(c, "commit") /\ OnTime(c)
    /\ windowEnd' = upto[c]
    /\ phase' = [phase EXCEPT ![c] = "over"]
    /\ UNCHANGED <<lockVars, from, upto, pending, source, rollup, prunedBefore>>

\* run: checkpoint.advance(until, [rollup]) in one batch; window_end is
\* overwritten whatever it holds by then.
Commit(c) ==
    /\ Working(c, "commit") /\ OnTime(c)
    /\ rollup' = Upsert(rollup, Selected(source, from[c], upto[c]))
    /\ windowEnd' = upto[c]
    /\ phase' = [phase EXCEPT ![c] = "over"]
    /\ UNCHANGED <<lockVars, from, upto, pending, source, prunedBefore>>

\* Broken variant: only a window that ends behind the horizon is refused.
EndsBehindHorizon(f, off) == f + Grain + off <= prunedBefore

\* assertReplayable refuses a window that begins behind the horizon.  Markers
\* compare as text: one written `off` ahead of UTC compares as f + off.
BehindHorizon(f, off) == f + off < prunedBefore

\* backfill and replay: the range is aligned, and the horizon is read once.
\* replay re-renders its marker in UTC, backfill passes the caller's.
CheckReplayable(c) ==
    /\ Alive(c) /\ Working(c, "begin")
    /\ \E f \in Edges, u \in {e + Grain : e \in Edges}, off \in Offsets :
        /\ \/ "backfill" \in Entries /\ f < u
           \/ "replay" \in Entries /\ u = f + Grain /\ off = 0
        /\ from' = [from EXCEPT ![c] = f]
        /\ upto' = [upto EXCEPT ![c] = u]
        /\ phase' = [phase EXCEPT ![c] =
                        IF BehindHorizon(f, off) /\ ~AllowPruned
                        THEN "over" ELSE "fold"]
    /\ UNCHANGED <<lockVars, pending, dataVars>>

\* Broken variant: a backfill moves the watermark like a run does.
FoldAndAdvance(c) ==
    /\ Working(c, "fold") /\ OnTime(c)
    /\ rollup' = Upsert(rollup, Selected(source, from[c], from[c] + Grain))
    /\ windowEnd' = from[c] + Grain
    /\ phase' = [phase EXCEPT ![c] = "over"]
    /\ UNCHANGED <<lockVars, from, upto, pending, source, prunedBefore>>

\* backfill and replay: the next window's rollup, a statement of its own.  A
\* crashed invocation sends no further one.
FoldNext(c) ==
    /\ Working(c, "fold") /\ OnTime(c)
    /\ rollup' = Upsert(rollup, Selected(source, from[c], from[c] + Grain))
    /\ from' = [from EXCEPT ![c] = @ + Grain]
    /\ phase' = [phase EXCEPT ![c] =
                    IF from'[c] = upto[c] \/ c \in dead THEN "over" ELSE "fold"]
    /\ UNCHANGED <<lockVars, upto, pending, source, windowEnd, prunedBefore>>

\* A statement of the job is rejected: `finally` still releases the lock.
JobFails(c) ==
    /\ now <= FaultsUntil
    /\ Alive(c) /\ pc[c] = "held" /\ phase[c] # "over"
    /\ phase' = [phase EXCEPT ![c] = "over"]
    /\ UNCHANGED <<lockVars, from, upto, pending, dataVars>>

\* finally { await lock.release() }
ReleaseStep(c) ==
    /\ \/ phase[c] = "over" /\ RenderRelease(c)
       \/ Release(c)
    /\ UNCHANGED etlVars

\* A statement of the lock fails, or the process dies.
FaultStep(c) ==
    /\ now <= FaultsUntil
    /\ Fail(c) \/ Crash(c)
    /\ UNCHANGED etlVars

\* The scheduler fires again: another invocation, with a token of its own, so
\* not while a row still carries the last one's.  What a crashed invocation
\* had in flight and did not land by now never does.
Recycle(c) ==
    /\ Over(c) \/ ~Alive(c)
    /\ \A r \in rows : ~Owned(r, c)
    /\ pc' = [pc EXCEPT ![c] = "idle"]
    /\ phase' = [phase EXCEPT ![c] = "begin"]
    /\ dead' = dead \ {c}
    /\ UNCHANGED <<rows, stamp, lease, now, from, upto, pending, dataVars>>

\* A caller decides what to prune from the watermark it reads:
\* "prune only what has already been consolidated (before <= window_end)".
RenderPrune(p) ==
    /\ pending[p] = Null
    /\ \E b \in 1 .. (IF PruneFolded THEN Floor(windowEnd) ELSE windowEnd) :
        /\ PruneForward => prunedBefore <= b
        /\ pending' = [pending EXCEPT ![p] = b]
    /\ UNCHANGED <<lockVars, jobVars, dataVars>>

Apart == PrunesApart => \A c \in Claims : ~Working(c, "fold")

\* Broken variant: the deletes go up to the watermark, past the horizon.
PruneToMark(p) ==
    /\ pending[p] # Null /\ Apart
    /\ prunedBefore' = pending[p]
    /\ source' = {i \in source : windowEnd <= i}
    /\ pending' = [pending EXCEPT ![p] = Null]
    /\ UNCHANGED <<lockVars, jobVars, rollup, windowEnd>>

\* Broken variant: the horizon's upsert overwrites the watermark too.
PruneMovesMark(p) ==
    /\ pending[p] # Null /\ Apart
    /\ prunedBefore' = pending[p]
    /\ windowEnd' = pending[p]
    /\ source' = {i \in source : pending[p] <= i}
    /\ pending' = [pending EXCEPT ![p] = Null]
    /\ UNCHANGED <<lockVars, jobVars, rollup>>

\* checkpoint.prune(before, deletes): the horizon upsert and the deletes in
\* one batch.  A missing row is seeded with `before` as its watermark.
Prune(p) ==
    /\ pending[p] # Null /\ Apart
    /\ prunedBefore' = pending[p]
    /\ windowEnd' = IF windowEnd = Null THEN pending[p] ELSE windowEnd
    /\ source' = {i \in source : pending[p] <= i}
    /\ pending' = [pending EXCEPT ![p] = Null]
    /\ UNCHANGED <<lockVars, jobVars, rollup>>

EtlTick == Tick /\ UNCHANGED etlVars

Invocation(c) ==
    \/ AcquireStep(c) \/ ReadCheckpoint(c) \/ Commit(c) \/ CheckReplayable(c)
    \/ FoldNext(c) \/ ReleaseStep(c)

EtlNext ==
    \/ \E c \in Claims :
          Invocation(c) \/ JobFails(c) \/ FaultStep(c) \/ Recycle(c)
    \/ \E p \in Pruners : RenderPrune(p) \/ Prune(p)
    \/ EtlTick

EtlSpec == EtlInit /\ [][EtlNext]_vars

-----------------------------------------------------------------------------

\* The variables keep their types; the watermark and the horizon never pass
\* the reference clock.
EtlTypeOK ==
    /\ LockTypeOK
    /\ phase \in [Claims -> Phases]
    /\ from \in [Claims -> Int]
    /\ upto \in [Claims -> Int]
    /\ pending \in [Pruners -> {Null} \cup 0 .. Closed]
    /\ source \subseteq Instants
    /\ rollup \in [Edges -> SUBSET Instants]
    /\ windowEnd \in {Null} \cup 0 .. Closed
    /\ prunedBefore \in {Null} \cup 0 .. Closed

\* No window the watermark has passed is missing rows in the rollup: none was
\* skipped, folded in part, or overwritten from a source that was pruned.
RollupComplete ==
    \A e \in Edges :
        JobStart <= e /\ e + Grain <= windowEnd => rollup[e] = Bucket(e)

\* The horizon never lags the deletes: every row that is gone is behind it.
HorizonCoversDeletes ==
    \A i \in Instants \ source : i < prunedBefore

\* What the runtime leaves to the deployment and to its callers: a lease that
\* outlasts its job and a token per invocation, a pruner that goes forward, and
\* backfills that see the horizon they check.
Leased == LeasesOutlast /\ \A c \in Claims : Sole(c)
OnePruner == PruneForward /\ \A p, q \in Pruners : p = q
Guarded == PrunesApart /\ ~AllowPruned /\ \A off \in Offsets : off <= 0

\* Every window is a closed bucket, and is folded with the lock.
WindowsClosed ==
    \A c \in Claims :
        /\ phase[c] \in {"commit", "fold"} => pc[c] = "held" /\ from[c] \in Edges
        /\ phase[c] = "commit" => upto[c] = from[c] + Grain
        /\ phase[c] = "fold" => from[c] < upto[c] /\ upto[c] - Grain \in Edges

\* A run whose lease is live stands at the window that is due; what is pruned
\* lies behind the watermark, and behind its bucket where callers see to that.
MarkStands ==
    /\ \A c \in Claims : phase[c] = "commit" /\ ~Lapsed(lease[c])
                            => from[c] = NextFrom(windowEnd)
    /\ \A b \in {prunedBefore} \cup {pending[p] : p \in Pruners} :
          b # Null => b <= IF PruneFolded THEN Floor(windowEnd) ELSE windowEnd

\* A prune in flight is not behind the horizon.
PruneStands == \A p \in Pruners : pending[p] # Null => prunedBefore <= pending[p]

\* A backfill folds what lies in front of the horizon.
FoldsGuarded == \A c \in Claims : phase[c] = "fold" => prunedBefore <= from[c]

\* What every step preserves.
EtlInv ==
    /\ EtlTypeOK /\ LockInv /\ WindowsClosed
    /\ Leased => MarkStands
    /\ OnePruner => PruneStands /\ HorizonCoversDeletes
    /\ Guarded => FoldsGuarded
    /\ Leased /\ OnePruner /\ Guarded /\ PruneFolded => RollupComplete

\* "Concurrency is serialized by the lock": no run takes the watermark back.
WatermarkMonotone == [][windowEnd <= windowEnd']_windowEnd

\* "Refuses a range that begins behind the pruned_before retention horizon".
HorizonGuards ==
    [][\A c \in Claims : phase[c] = "begin" /\ phase'[c] = "fold"
                        => prunedBefore <= from'[c]]_vars

\* Seen from the data alone, the invocations behave as one atomic job.
Contract == INSTANCE EtlContract WITH
    source <- source, rollup <- rollup,
    windowEnd <- windowEnd, prunedBefore <- prunedBefore
ContractHolds == Contract!ContractSpec

-----------------------------------------------------------------------------

\* A live caller gets its replies and goes on with its program (its awaits are
\* settled), the scheduler keeps firing and time passes.  What a crashed
\* caller left in flight need not land.
EtlFairness ==
    /\ \A c \in Claims :
          WF_vars(Alive(c) /\ Invocation(c)) /\ WF_vars(Recycle(c))
    /\ WF_vars(EtlTick)

FairEtlSpec == EtlSpec /\ EtlFairness

\* Every bucket that has closed is folded in the end, whoever crashed holding
\* the lock.
CatchesUp == <>[](~Due(windowEnd))
=============================================================================
