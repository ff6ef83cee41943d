--------------------------- MODULE MigrationFiles ---------------------------
(***************************************************************************)
(* The migration directory of the sisal command line                       *)
(* (packages/migrate/src/cli.ts) and of the workflow beneath it            *)
(* (packages/migrate/src/core/workflow.ts): developers generate migrations *)
(* from the application's schema, a deployment applies them, and the drift *)
(* command says whether there is anything left to do.                      *)
(*                                                                         *)
(* A migration is two files, NNNN_name.sql and NNNN_name.snapshot.json,    *)
(* written one after the other; nothing locks the directory.  A schema is  *)
(* the set of its columns and a file of SQL the set of columns it adds: a  *)
(* generated migration only ever adds.                                     *)
(***************************************************************************)
EXTENDS Integers, FiniteSets, FiniteSetsExt, TLC

CONSTANTS
    Devs,       \* processes of `sisal generate`
    NameOf,     \* the name each gives its migrations, a number for its slug
    Crashing,   \* those that may die, or fail to write
    Columns,    \* what a schema may contain
    None,       \* a file that is not there, a migration not applied
    Torn,       \* a snapshot cut short: not JSON
    MaxSeq,     \* sequence numbers end here (bound)
    MaxEdits    \* edits of the application's schema (bound)

\* What can be in a file of SQL: its columns, and whether its last statement
\* was cut in two or no statement was written at all.
Text == [adds : SUBSET Columns, state : {"whole", "cut", "empty"}]

ASSUME FilesAssumption ==
    /\ IsFiniteSet(Devs)
    /\ NameOf \in [Devs -> Nat]
    /\ Crashing \subseteq Devs
    /\ {MaxSeq, MaxEdits} \subseteq Nat
    /\ MaxSeq < 10000
    /\ None # Torn
    /\ \A S \in SUBSET Columns : S \notin {None, Torn}
    /\ None \notin Text

VARIABLES
    files,      \* per migration id, its two files
    config,     \* config.snapshot of the working copy
    edits,      \* edits made so far
    gen,        \* where each generate stands and what it has in memory
    command,    \* where `sisal migrate` or `sisal drift` stands
    db,         \* the columns of the database
    history     \* per migration id, the text that was applied

vars == <<files, config, edits, gen, command, db, history>>

Ids == (1 .. MaxSeq) \X {NameOf[d] : d \in Devs}

Listed == {i \in Ids : files[i].sql # None}

\* By sequence, then by name.  Sequences are padded to four digits, so that
\* below 10000 the order of the directory is that of the ids as strings, by
\* which the migrator sorts.
Before(i, j) == i[1] < j[1] \/ (i[1] = j[1] /\ i[2] < j[2])

LastOf(S) == CHOOSE i \in S : \A j \in S : j = i \/ Before(j, i)
FirstOf(S) == CHOOSE i \in S : \A j \in S : j = i \/ Before(i, j)

Idle == [pc |-> "idle"]

Init ==
    /\ files = [i \in Ids |-> [sql |-> None, snap |-> None]]
    /\ config \in SUBSET Columns /\ edits = 0
    /\ gen = [d \in Devs |-> Idle]
    /\ command = Idle
    /\ db = {}
    /\ history = [i \in Ids |-> None]

\* Someone changes the declared schema.
Edit ==
    /\ edits < MaxEdits
    /\ edits' = edits + 1
    /\ config' \in (SUBSET Columns) \ {config}
    /\ UNCHANGED <<files, gen, command, db, history>>

\* readMigrationsDir throws on a snapshot that does not parse.
Readable == \A i \in Listed : files[i].snap # Torn

\* Broken variant: the highest sequence found is used again.
SameSequence == Max({i[1] : i \in Listed} \cup {1})

\* nextMigrationSequence, over what was found.
NextSequence == Max({i[1] : i \in Listed} \cup {0}) + 1

\* Broken variant: a last migration without a snapshot is passed over.
DiffBaseSkipping ==
    LET snapped == {i \in Listed : files[i].snap # None}
    IN  IF snapped = {} THEN {} ELSE files[LastOf(snapped)].snap

\* latestDiscoveredSnapshot: what the next migration starts from.  It throws
\* when the last migration has no snapshot, and never falls back on an older
\* one.
DiffBase ==
    IF Listed = {} THEN {} ELSE files[LastOf(Listed)].snap

\* commandGenerate up to its first write.  A destructive change and an empty
\* one (without --allow-empty) write nothing.
Generate(d) ==
    /\ gen[d].pc = "idle"
    /\ Readable /\ DiffBase # None
    /\ DiffBase \subseteq config
    /\ NextSequence <= MaxSeq
    /\ gen' = [gen EXCEPT ![d] =
          [pc |-> "sql", id |-> <<NextSequence, NameOf[d]>>,
           adds |-> config \ DiffBase, snap |-> config]]
    /\ UNCHANGED <<files, config, edits, command, db, history>>

\* A write truncates the file and fills it: part of the text can be read, and
\* is what a crash leaves.  It may end within a statement or after one.
Partial(adds) ==
    [adds : {{}}, state : {"cut", "empty"}] \cup
    [adds : (SUBSET adds) \ {{}, adds}, state : {"whole"}]

Advance(d, from, to) ==
    /\ gen[d].pc = from
    /\ gen' = [gen EXCEPT ![d] = IF to = "idle" THEN Idle ELSE [@ EXCEPT !.pc = to]]
    /\ UNCHANGED <<config, edits, command, db, history>>

\* writeMigrationFile: mkdir, then the .sql file ...
OpenSql(d) ==
    /\ Advance(d, "sql", "inSql")
    /\ files' \in {[files EXCEPT ![gen[d].id].sql = t] : t \in Partial(gen[d].adds)}

FillSql(d) ==
    /\ Advance(d, "inSql", "snap")
    /\ files' = [files EXCEPT ![gen[d].id].sql =
                   [adds |-> gen[d].adds, state |-> "whole"]]

\* ... then the snapshot.
OpenSnapshot(d) ==
    /\ Advance(d, "snap", "inSnap")
    /\ files' = [files EXCEPT ![gen[d].id].snap = Torn]

FillSnapshot(d) ==
    /\ Advance(d, "inSnap", "idle")
    /\ files' = [files EXCEPT ![gen[d].id].snap = gen[d].snap]

\* generate dies, or a write of it is rejected, with its files as they are.
Crash(d) ==
    /\ d \in Crashing /\ gen[d].pc # "idle"
    /\ Advance(d, gen[d].pc, "idle")
    /\ UNCHANGED files

\* What a developer does about a migration without a good snapshot, which
\* generate refuses to build on: delete it.
Discard(i) ==
    /\ i \in Listed /\ files[i].snap \in {None, Torn}
    /\ \A d \in Devs : gen[d].pc # "idle" => gen[d].id # i
    /\ files' = [files EXCEPT ![i] = [sql |-> None, snap |-> None]]
    /\ UNCHANGED <<config, edits, gen, command, db, history>>

-----------------------------------------------------------------------------

\* What readMigrationsDir returns: the text of each listed file.  A set of
\* migrations with an empty file is refused as a whole (validateMigration).
Discovered == [i \in Listed |-> files[i].sql]

Valid(found) == \A i \in DOMAIN found : found[i].state # "empty"

\* createMigrationPlan, against the history of the moment.
PendingOf(found) == {i \in DOMAIN found : history[i] = None}
Mismatched(found) ==
    {i \in DOMAIN found : history[i] \notin {None, found[i]}}

\* commandMigrate: the directory is read once; the plan is made from it, and
\* refused over a changed file without --allow-dirty; --steps cuts it.
ReadForMigrate(dirty, steps) ==
    /\ command.pc \notin {"run", "read"}
    /\ Readable /\ Valid(Discovered)
    /\ dirty \/ Mismatched(Discovered) = {}
    /\ LET open == PendingOf(Discovered) IN
        /\ open # {}
        /\ command' = [pc |-> "run", todo |->
              [i \in IF steps THEN {FirstOf(open)} ELSE open |-> files[i].sql]]
    /\ UNCHANGED <<files, config, edits, gen, db, history>>

\* A column can be added once, and a statement cut in two is refused.
Runs(t) == t.adds \cap db = {} /\ t.state = "whole"

\* Broken variant: the call does not return after its last migration.
RestForever(i) ==
    [pc |-> "run",
     todo |-> [j \in DOMAIN command.todo \ {i} |-> command.todo[j]]]

\* What is left to run without its first migration; the command returns when
\* nothing is.
Rest(i) ==
    LET left == DOMAIN command.todo \ {i} IN
    IF left = {} THEN Idle
    ELSE [pc |-> "run", todo |-> [j \in left |-> command.todo[j]]]

\* Broken variant: a step that fails is recorded all the same.
ApplyAnyway ==
    /\ command.pc = "run"
    /\ LET i == FirstOf(DOMAIN command.todo)  t == command.todo[i] IN
        /\ db' = IF Runs(t) THEN db \cup t.adds ELSE db
        /\ history' = [history EXCEPT ![i] = t]
        /\ command' = Rest(i)
    /\ UNCHANGED <<files, config, edits, gen>>

\* One migration of up(): its statements and its row, in a transaction; one
\* that fails ends the call.
Apply ==
    /\ command.pc = "run"
    /\ LET i == FirstOf(DOMAIN command.todo)  t == command.todo[i] IN
       IF Runs(t)
       THEN /\ db' = db \cup t.adds
            /\ history' = [history EXCEPT ![i] = t]
            /\ command' = Rest(i)
       ELSE command' = Idle /\ UNCHANGED <<db, history>>
    /\ UNCHANGED <<files, config, edits, gen>>

\* The process of migrate dies between two migrations.
Killed ==
    /\ command.pc = "run"
    /\ command' = Idle
    /\ UNCHANGED <<files, config, edits, gen, db, history>>

-----------------------------------------------------------------------------

\* readCliState: the directory first ...
ReadForDrift ==
    /\ command.pc \notin {"run", "read"}
    /\ Readable /\ Valid(Discovered)
    /\ command' = [pc |-> "read", found |-> Discovered, config |-> config,
          latest |-> IF Listed = {} THEN None ELSE files[LastOf(Listed)].snap,
          missing |-> {i \in Listed : files[i].snap = None}]
    /\ UNCHANGED <<files, config, edits, gen, db, history>>

\* checkDrift: its three kinds of findings, none of them a changed file.
Drift(c) ==
    \/ c.config # c.latest
    \/ PendingOf(c.found) # {}
    \/ c.missing # {}

\* ... then the plan from the database, and the report.
Report ==
    /\ command.pc = "read"
    /\ command' = [pc |-> IF Drift(command) THEN "findings" ELSE "clean"]
    /\ UNCHANGED <<files, config, edits, gen, db, history>>

Next ==
    \/ Edit
    \/ \E d \in Devs :
        \/ Generate(d) \/ OpenSql(d) \/ FillSql(d)
        \/ OpenSnapshot(d) \/ FillSnapshot(d) \/ Crash(d)
    \/ \E i \in Ids : Discard(i)
    \/ \E dirty, steps \in BOOLEAN : ReadForMigrate(dirty, steps)
    \/ Apply \/ Killed
    \/ ReadForDrift \/ Report

Spec == Init /\ [][Next]_vars

-----------------------------------------------------------------------------

\* A migration with both its files as they should be.
Complete(i) == files[i].sql # None /\ files[i].snap \notin {None, Torn}

\* The variables keep their types.
FilesTypeOK ==
    /\ files \in [Ids -> [sql : {None} \cup Text,
                          snap : {None, Torn} \cup SUBSET Columns]]
    /\ config \in SUBSET Columns
    /\ edits \in Nat
    /\ gen \in [Devs -> {Idle} \cup
                 [pc : {"sql", "inSql", "snap", "inSnap"}, id : Ids,
                  adds : SUBSET Columns, snap : SUBSET Columns]]
    /\ command.pc \in {"idle", "run", "read", "clean", "findings"}
    /\ command.pc = "run" => /\ DOMAIN command.todo \in (SUBSET Ids) \ {{}}
                             /\ command.todo \in [DOMAIN command.todo -> Text]
    /\ command.pc = "read" => /\ command.found \in [DOMAIN command.found -> Text]
                              /\ DOMAIN command.found \in SUBSET Ids
                              /\ command.config \in SUBSET Columns
    /\ db \in SUBSET Columns
    /\ history \in [Ids -> {None} \cup Text]

\* Developers name their migrations differently.
OwnNamed == \A d, e \in Devs : NameOf[d] = NameOf[e] => d = e

\* Where the files of a migration are while its generate writes them, one after
\* the other: nobody else writes them, and none is there before its turn.
WrittenInTurn ==
    /\ \A i \in Ids : files[i].sql = None => files[i].snap = None
    /\ \A d \in Devs : gen[d].pc # "idle" =>
        LET g == gen[d]  f == files[g.id]
        IN  /\ g.id[2] = NameOf[d]
            /\ g.pc = "sql" <=> f.sql = None
            /\ g.pc = "inSql" => f.sql.adds \subseteq g.adds /\ f.snap = None
            /\ g.pc \in {"snap", "inSnap"} =>
                  /\ f.sql = [adds |-> g.adds, state |-> "whole"]
                  /\ f.snap = IF g.pc = "snap" THEN None ELSE Torn

\* At every sequence number before one there is a complete migration that it
\* builds on: whose snapshot its own contains, and none of whose columns it adds.
BuildsOn(sequence, adds, snap) ==
    \A s \in 1 .. sequence - 1 :
        \E k \in Ids : /\ k[1] = s /\ Complete(k)
                      /\ files[k].snap \subseteq snap
                      /\ files[k].snap \cap adds = {}

\* A column that a complete migration before one adds.
AddedBefore(i, column) ==
    \E k \in Ids : Complete(k) /\ Before(k, i) /\ column \in files[k].sql.adds

\* A migration takes its schema from the snapshots before it to its own.
Continues(i, adds, snap) ==
    /\ adds \subseteq snap
    /\ BuildsOn(i[1], adds, snap)
    /\ \A column \in snap \ adds : AddedBefore(i, column)

\* So does every complete one, and every one that is being generated; what was
\* left half-written adds nothing twice.
ChainHolds ==
    /\ \A i \in Ids : Complete(i) => Continues(i, files[i].sql.adds, files[i].snap)
    /\ \A i \in Listed : BuildsOn(i[1], files[i].sql.adds, Columns)
    /\ \A d \in Devs : gen[d].pc # "idle" =>
          Continues(gen[d].id, gen[d].adds, gen[d].snap)

\* The database has what the history says was applied, and drift has read a
\* last snapshot that the files it found reach.
DeployedHolds ==
    /\ \A i \in Ids : history[i] # None => history[i].adds \subseteq db
    /\ command.pc = "read" /\ command.latest # None =>
          command.latest \subseteq
              UNION {command.found[i].adds : i \in DOMAIN command.found}

FilesIInv == FilesTypeOK /\ WrittenInTurn /\ ChainHolds /\ DeployedHolds

\* A snapshot tells the truth about the files: all it contains is added by its
\* migration or by an earlier one, whatever crashed, was deleted and generated
\* again, or was generated at the same time under another name.
SnapshotReached ==
    \A i \in Ids : Complete(i) =>
        files[i].snap \subseteq
            UNION {files[j].sql.adds : j \in {k \in Listed : k = i \/ Before(k, i)}}

\* No migration adds what another one adds already, unless two of them share
\* a sequence number: then they were generated at the same time, each unaware
\* of the other.  A generate that built on an older snapshot than the last
\* migration's would break this.
NeverAddedTwice ==
    (\A i, j \in Listed : i[1] = j[1] => i = j) =>
        \A i, j \in Listed : i # j => files[i].sql.adds \cap files[j].sql.adds = {}

\* The directory describes one schema: replaying its SQL in order runs without
\* a collision and reaches every snapshot.
FilesAgree == SnapshotReached /\ NeverAddedTwice

\* The state of files, generates and commands is one the code can be in, and the
\* directory describes one schema.
FilesInv == FilesIInv /\ FilesAgree

\* A generate never writes over a migration that is complete.
CompleteStays ==
    [][\A i \in Ids : Complete(i) => files'[i] = files[i]]_vars

ReportsClean == command.pc = "read" /\ command'.pc = "clean"

\* "Drift clean" means deployed: unless a migration changed after it was
\* applied, the database has every column the configuration had.
CleanMeansDeployed ==
    [][ReportsClean /\ Mismatched(command.found) = {}
          => command.config \subseteq db]_vars

\* The documentation's "snapshot/checksum drift report": no clean report over
\* a migration whose file differs from what was applied.
CleanMeansUnchanged ==
    [][ReportsClean => Mismatched(command.found) = {}]_vars
-----------------------------------------------------------------------------
(* Bounds *)

\* Developers, who are numbers, that name their migrations differently ...
OwnNames == [d \in Devs |-> d]

\* ... or all leave the default name, "migration".
DefaultName == [d \in Devs |-> 1]

\* The columns are interchangeable.
ColumnSymmetry == Permutations(Columns)
=============================================================================
