------------------------------- MODULE Rollup -------------------------------
(***************************************************************************)
(* A job of packages/etl: its definition (job.ts) and the one statement    *)
(* that folds a window of it (rollup.ts and assembleInsertFromSelect of    *)
(* core/src/assemble.ts), while rows arrive late and windows are folded    *)
(* again.  EtlRunner says which windows are folded when; here a bucket has *)
(* groups, and the database has columns, keys and a time zone.             *)
(*                                                                         *)
(* An aggregate stands for the source rows it was computed of.             *)
(***************************************************************************)
EXTENDS Integers, Sequences, SequencesExt, FiniteSetsExt

CONSTANTS
    Zones,        \* hours ahead of UTC at which sessions of PostgreSQL may be
    Spellings,    \* how SQLite's rows spell their instants: "iso" is
                  \* 2026-01-05T10:00:00Z, "space" is 2026-01-05 10:00:00
    GroupValues,  \* of the source column "kind"; Null is one that may be NULL
    Day,          \* the hours of a bucket
    Buckets,      \* the buckets that have closed, by their first hour
    Events        \* the rows that may be written to the source

\* Buckets are aligned: EtlRunner folds no others.
ASSUME RollupAssumption ==
    /\ Zones \subseteq Int
    /\ Day \in Nat \ {0}
    /\ \A from \in Buckets : from \in Int /\ from % Day = 0
    /\ \A r \in Events : /\ r = [id |-> r.id, at |-> r.at, kind |-> r.kind]
                         /\ r.id \in Nat \ {0} /\ r.at \in Int
                         /\ r.kind \in GroupValues

Null == "NULL"

VARIABLES
    job,      \* the configuration given to defineJob
    engine,   \* the database: dialect, zone and spelling
    events,   \* the rows of the source
    target,   \* the rows of the target, in the order of their insertion
    seen,     \* ghost: the rows there were in each window when it was folded
    broken    \* a statement of a job that was defined has failed

rollupVars == <<job, engine, events, target, seen, broken>>

Row(id, at, kind) == [id |-> id, at |-> at, kind |-> kind]

NeverFolded == {Row(0, 0, Null)}

-----------------------------------------------------------------------------
(* The job *)

Required == FALSE
Optional == TRUE

\* The target's columns, and whether an insert may leave them out.
TargetColumns(shape) ==
    CASE shape = "plain" -> [day |-> Required, kind |-> Required, n |-> Required]
      [] shape = "wide" -> [day |-> Required, kind |-> Optional, n |-> Required,
                            note |-> Required, id |-> Optional]

\* The columns that a configuration gives a role.
JobColumns(j) == {j.bucket} \cup j.groupBy \cup j.aggregates

\* claim: a column of the target, with one role.
Claimed(j) ==
    /\ JobColumns(j) \subseteq DOMAIN TargetColumns(j.shape)
    /\ j.bucket \notin j.groupBy \cup j.aggregates
    /\ j.groupBy \cap j.aggregates = {}

\* Broken variant: what an insert leaves out is not looked at.
AnyCover(j) == TRUE

\* An insert of the claimed columns leaves out none that is required.
Covered(j) ==
    \A key \in DOMAIN TargetColumns(j.shape) \ JobColumns(j) :
        TargetColumns(j.shape)[key] = Optional

\* defineJob.
Defined(j) == Claimed(j) /\ j.aggregates # {} /\ Covered(j)

\* supportsJob: an engine with a lock and a checkpoint.
Supported(e) == e.dialect \in {"postgres", "sqlite", "mysql"}

-----------------------------------------------------------------------------
(* The statement *)

\* rollup: the rows are grouped by the bucket and all group keys.
GroupKeys(j) == {j.bucket} \cup j.groupBy

\* Broken variant: a row is found again by its bucket.
BucketOnly(j) == {j.bucket}

\* ... and upserted on the bucket and all group keys.
ConflictTarget(j) == {j.bucket} \cup j.groupBy

\* The columns that a conflict overwrites, from excluded().
Overwritten(j) == j.aggregates

\* What the bounds of a window, rendered in ISO, compare with: an instant, or on
\* SQLite its text, in which a space sorts before a T.
Sorts(at, spelling) ==
    3 * at - (IF spelling = "space" THEN 3 * (at % Day) + 1 ELSE 0)

\* Broken variant: the end of a window belongs to it.
ClosedWindow(from, e) ==
    {r \in events : 3 * from <= Sorts(r.at, e.spelling)
                    /\ Sorts(r.at, e.spelling) <= 3 * (from + Day)}

\* gte(window, from), lt(window, until).
Read(from, e) ==
    {r \in events : 3 * from <= Sorts(r.at, e.spelling)
                    /\ Sorts(r.at, e.spelling) < 3 * (from + Day)}

\* dateTrunc: PostgreSQL truncates an instant in the session's time zone.
DateTrunc(at, e) == ((at + e.zone) \div Day) * Day - e.zone

\* What a source row shows in the column of a group key.
Projected(key, r, j, e) == IF key = j.bucket THEN DateTrunc(r.at, e) ELSE r.kind

\* The rows that are grouped with one.
Group(r, rows, j, e) ==
    {s \in rows : \A key \in GroupKeys(j) :
                     Projected(key, s, j, e) = Projected(key, r, j, e)}

\* Of a row's group, the row to insert.
Folded(r, rows, j, e) ==
    [key \in GroupKeys(j) \cup j.aggregates |->
        IF key \in GroupKeys(j) THEN Projected(key, r, j, e)
        ELSE Group(r, rows, j, e)]

Inserted(from, j, e) == {Folded(r, Read(from, e), j, e) : r \in Read(from, e)}

\* The target's unique key: the code leaves it to the program that it has one.
UniqueKey(j) == {j.bucket} \cup j.groupBy

\* The rows of the target that one to insert conflicts with: a NULL never does.
Conflicts(row, rows, j) ==
    {i \in DOMAIN rows : \A key \in UniqueKey(j) :
        (key = j.bucket \/ row[key] # Null) /\ rows[i][key] = row[key]}

\* What a row that conflicts with one of the target leaves of it.
Overwrite(old, row, j) ==
    [key \in DOMAIN old |-> IF key \in Overwritten(j) THEN row[key] ELSE old[key]]

\* No two of the rows to insert conflict: they are of different groups.
Upserted(rows, inserted, j) ==
    LET Conflicting(i) == {row \in inserted : i \in Conflicts(row, rows, j)}
    IN  [i \in DOMAIN rows |->
            IF Conflicting(i) = {} THEN rows[i]
            ELSE Overwrite(rows[i], CHOOSE row \in Conflicting(i) : TRUE, j)]
        \o SetToSeq({row \in inserted : Conflicts(row, rows, j) = {}})

\* ON CONFLICT wants a unique key of just its columns, MySQL does not say which;
\* and no column without a default is left out.
Runs(j, e) ==
    /\ e.dialect # "mysql" => ConflictTarget(j) = UniqueKey(j)
    /\ \A key \in DOMAIN TargetColumns(j.shape) :
          TargetColumns(j.shape)[key] = Optional
          \/ key \in GroupKeys(j) \cup j.aggregates

-----------------------------------------------------------------------------
Configurations ==
    [shape : {"plain", "wide"}, bucket : {"day", "n"},
     groupBy : SUBSET {"kind", "note"}, aggregates : SUBSET {"n", "note", "id"}]

Engines ==
    {[dialect |-> "postgres", zone |-> zone, spelling |-> "iso"] : zone \in Zones}
    \cup {[dialect |-> "mysql", zone |-> 0, spelling |-> "iso"]}
    \cup {[dialect |-> "sqlite", zone |-> 0, spelling |-> s] : s \in Spellings}
    \cup {[dialect |-> "generic", zone |-> 0, spelling |-> "iso"]}

RollupInit ==
    /\ job \in Configurations /\ engine \in Engines
    /\ events = {} /\ target = <<>> /\ broken = FALSE
    /\ seen = [w \in Buckets |-> NeverFolded]

\* No job at all.
NoRollup ==
    /\ job = CHOOSE j \in Configurations : ~Defined(j)
    /\ engine = CHOOSE e \in Engines : ~Supported(e)
    /\ events = {} /\ target = <<>> /\ broken = FALSE
    /\ seen = [w \in Buckets |-> NeverFolded]

\* A row is written to the source, maybe after its window was folded.
Arrive(r) ==
    /\ Defined(job) /\ Supported(engine)
    /\ \A other \in events : other.id # r.id
    /\ events' = events \cup {r}
    /\ UNCHANGED <<job, engine, target, seen, broken>>

\* run, backfill or replay folds a window, for the first time or again.
FoldWindow(from) ==
    /\ Defined(job) /\ Supported(engine)
    /\ IF Runs(job, engine)
       THEN /\ target' = Upserted(target, Inserted(from, job, engine), job)
            /\ UNCHANGED broken
       ELSE broken' = TRUE /\ UNCHANGED target
    /\ seen' = [seen EXCEPT ![from] =
                   {r \in events : from <= r.at /\ r.at < from + Day}]
    /\ UNCHANGED <<job, engine, events>>

RollupNext ==
    \/ \E r \in Events : Arrive(r)
    \/ \E from \in Buckets : FoldWindow(from)

RollupSpec == RollupInit /\ [][RollupNext]_rollupVars

-----------------------------------------------------------------------------

\* The rows of the target that a window folded when it was ought to have.
MeantOf(from) ==
    {[key \in JobColumns(job) |->
        IF key = job.bucket THEN from
        ELSE IF key \in job.groupBy THEN r.kind
        ELSE {s \in seen[from] : job.groupBy = {} \/ s.kind = r.kind}] :
     r \in seen[from]}

Meant == UNION {MeantOf(from) : from \in {w \in Buckets : seen[w] # NeverFolded}}

\* "A re-run of the same window overwrites rather than double-counts", and "the
\* window edges the runner computes and the buckets the database groups by can
\* never disagree": the target has one row for each bucket and group that had
\* rows when it was last folded, of just these rows; and the statement of a job
\* that could be defined runs.
RollupMeans ==
    /\ ~broken
    /\ Defined(job) => ToSet(target) = Meant /\ Len(target) = Cardinality(Meant)

\* The same statement of what it is for: a window overwrites nothing that another
\* one folded, so that every row that was there is accounted for.
NoRowLost ==
    \A r \in UNION {seen[w] : w \in {v \in Buckets : seen[v] # NeverFolded}} :
        Defined(job) => \E i \in DOMAIN target : \E key \in job.aggregates : r \in target[i][key]

-----------------------------------------------------------------------------
(* Bounds *)

\* Two days of two hours, of which the second has one row.
DayEvents ==
    {Row(id, id - 1, kind) : id \in {1, 2, 3}, kind \in GroupValues}
=============================================================================
