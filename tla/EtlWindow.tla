----------------------------- MODULE EtlWindow ------------------------------
(***************************************************************************)
(* The windows of packages/etl/src/window.ts over a line of instants       *)
(* 0, 1, ...: a bucket is Grain of them, and the calendar (months of       *)
(* unequal length, UTC fields) is abstracted to that one width.            *)
(***************************************************************************)
EXTENDS Integers

CONSTANTS
    Grain,       \* instants in a bucket
    Closed,      \* the reference clock `now`: instants before it have passed
    JobStart     \* job.start, a bucket edge

ASSUME WindowAssumption ==
    /\ Grain \in Nat \ {0}
    /\ Closed \in Nat
    /\ JobStart \in Nat

\* An absent marker: no checkpoint row, or a job that was never pruned.
Null == -1

Instants == 0 .. Closed - 1

\* truncateToGrain: the edge of the bucket an instant lies in.
Floor(t) == t - (t % Grain)

\* The edges of the buckets that have closed.
Edges == {e \in Instants : Floor(e) = e /\ e + Grain <= Closed}

Bucket(e) == e .. e + Grain - 1

ASSUME StartAligned == Floor(JobStart) = JobStart

\* Broken variant: the window starts at the marker itself.
NextFromMark(mark) == IF mark = Null THEN JobStart ELSE mark

\* nextWindow's lower bound: the watermark, or the job's start on a fresh job,
\* floored to its bucket.
NextFrom(mark) == Floor(IF mark = Null THEN JobStart ELSE mark)

\* Broken variant: the bucket that is still open is folded too.
DueEarly(mark) == NextFrom(mark) + Grain <= Closed + 1

\* nextWindow yields a window: its bucket has closed (until <= now).
Due(mark) == NextFrom(mark) + Grain <= Closed

\* The rows a rollup over [from, until) reads from a source.
Selected(source, from, until) == {i \in source : from <= i /\ i < until}

\* The upsert of rollup(): each bucket that has rows gets a fresh row, a bucket
\* without any keeps what it had.
Upsert(rollup, read) ==
    [e \in DOMAIN rollup |->
        IF read \cap Bucket(e) = {} THEN rollup[e] ELSE read \cap Bucket(e)]
=============================================================================
