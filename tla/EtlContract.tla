---------------------------- MODULE EtlContract -----------------------------
(***************************************************************************)
(* What the ETL tier promises the users of one job, with no lock, no       *)
(* callers and no clock: windows are folded one after the other, each in   *)
(* one atomic step that also moves the watermark (runner.ts:7-10); history *)
(* can be folded again without moving it (backfill and replay); and source *)
(* rows already consolidated can be pruned behind a horizon that guards    *)
(* them.                                                                   *)
(***************************************************************************)
EXTENDS EtlWindow

CONSTANT InitMarks   \* watermarks the job may already stand at

VARIABLES
    source,       \* the instants whose source rows are present
    rollup,       \* per bucket, the source rows its rollup row accounts for
    windowEnd,    \* the checkpoint's window_end; Null when there is no row
    prunedBefore  \* the checkpoint's pruned_before; Null when never pruned

dataVars == <<source, rollup, windowEnd, prunedBefore>>

\* A job that stands at some mark, having folded everything before it.
DataInit ==
    /\ source = Instants
    /\ windowEnd \in InitMarks
    /\ rollup = [e \in Edges |-> {i \in Bucket(e) : i < windowEnd}]
    /\ prunedBefore = Null

Refolded(e) == Upsert(rollup, Selected(source, e, e + Grain))

\* run(): the next window is folded and the watermark moves past it.
AdvanceOnce ==
    /\ Due(windowEnd)
    /\ rollup' = Refolded(NextFrom(windowEnd))
    /\ windowEnd' = NextFrom(windowEnd) + Grain
    /\ UNCHANGED <<source, prunedBefore>>

\* backfill() and replay(): a bucket not behind the horizon is folded again.
Refold ==
    \E e \in Edges :
        /\ prunedBefore <= e
        /\ rollup' = Refolded(e)
        /\ UNCHANGED <<source, windowEnd, prunedBefore>>

\* prune(): consolidated rows go, and the horizon never falls back.
PruneOnce ==
    \E b \in 0 .. windowEnd :
        /\ prunedBefore <= b
        /\ prunedBefore' = b
        /\ source' = {i \in source : b <= i}
        /\ UNCHANGED <<rollup, windowEnd>>

ContractNext == AdvanceOnce \/ Refold \/ PruneOnce

ContractSpec == DataInit /\ [][ContractNext]_dataVars
=============================================================================
