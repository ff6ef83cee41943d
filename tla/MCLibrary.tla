----------------------------- MODULE MCLibrary ------------------------------
(***************************************************************************)
(* What the library promises a program, on small instances: a reader that  *)
(* pages while others write, a batch of rows that is inserted and handed   *)
(* back, a schema that is diffed and deployed, migrations of a local       *)
(* database, a pool that is opened and closed, a rollup that is folded,    *)
(* windows of the calendar, a call that logs, a value that is stored, and  *)
(* samples of what is composed, rendered and parsed.  A behaviour is about *)
(* one of these, the others rest.                                          *)
(***************************************************************************)
EXTENDS Keyset, Returning, SchemaDiff, Connections, Rollup, Calendar,
        Logging, TemporalValues, LocalMigrations

VARIABLE sample  \* what is rendered: a record with the one field of its kind

C == INSTANCE SqlFragments
M == INSTANCE Mutations
S == INSTANCE Compounds
P == INSTANCE SqlSplit
R == INSTANCE Relations
A == INSTANCE Analytics
U == INSTANCE Updates
L == INSTANCE CliArgs
J == INSTANCE Json
D == INSTANCE Dates
F == INSTANCE Scalars
Q == INSTANCE Selects

None == [none |-> TRUE]

NoPages ==
    /\ table = {} /\ throughout = {} /\ dirs = <<>> /\ limit = 1
    /\ cursor = <<>> /\ paged = <<>> /\ more = FALSE /\ written = <<>>

NoSchema ==
    /\ identity = CHOOSE i \in Identities : TRUE
    /\ schema = Empty /\ recorded = Empty /\ database = Empty
    /\ pending = {} /\ failed = FALSE /\ edits = MaxEdits

Samples ==
    {[condition |-> c] : c \in C!ConditionSamples}
    \cup {[chain |-> q] : q \in S!Chains}
    \cup {[upsert |-> u] : u \in M!Upserts}
    \cup {[rows |-> r] : r \in M!InsertSamples}
    \cup {[script |-> s] : s \in P!ScriptSamples}
    \cup {[relation |-> s] : s \in R!RelationSamples}
    \cup {[analytics |-> q] : q \in A!AnalyticsSamples}
    \cup {[update |-> q] : q \in U!UpdateSamples}
    \cup {[command |-> s] : s \in L!CliSamples}
    \cup {[json |-> s] : s \in J!JsonSamples}
    \cup {[dates |-> s] : s \in D!DateSamples}
    \cup {[scalars |-> s] : s \in F!ScalarSamples}
    \cup {[select |-> s] : s \in Q!SelectSamples}

NoWrites == NoPages /\ NoCall /\ NoSchema /\ NoLocal
NoEtl == NoRollup /\ NoCalendar
NoWork == NoConnections /\ NoEtl /\ NoLogging /\ NoTemporal

\* One of the components works, the others rest.
ComponentInit ==
    \/ KeysetInit /\ NoCall /\ NoSchema /\ NoLocal /\ NoWork
    \/ NoPages /\ ReturningInit /\ NoSchema /\ NoLocal /\ NoWork
    \/ NoPages /\ NoCall /\ SchemaInit /\ NoLocal /\ NoWork
    \/ NoPages /\ NoCall /\ NoSchema /\ LocalInit /\ NoWork
    \/ NoWrites /\ ConnectionsInit /\ NoEtl /\ NoLogging /\ NoTemporal
    \/ NoWrites /\ NoConnections /\ RollupInit /\ NoCalendar /\ NoLogging
       /\ NoTemporal
    \/ NoWrites /\ NoConnections /\ NoRollup /\ CalendarInit /\ NoLogging
       /\ NoTemporal
    \/ NoWrites /\ NoConnections /\ NoEtl /\ LoggingInit /\ NoTemporal
    \/ NoWrites /\ NoConnections /\ NoEtl /\ NoLogging /\ TemporalInit

Init ==
    \/ ComponentInit /\ sample = None
    \/ NoWrites /\ NoWork /\ sample \in Samples

writeVars == <<keysetVars, returningVars, schemaVars, localVars>>
etlVars == <<rollupVars, calendarVars>>
valueVars == <<loggingVars, temporalVars>>
workVars == <<connectionVars, etlVars, valueVars>>

Next ==
    \/ KeysetNext /\ UNCHANGED <<returningVars, schemaVars, localVars, workVars, sample>>
    \/ ReturningNext /\ UNCHANGED <<keysetVars, schemaVars, localVars, workVars, sample>>
    \/ SchemaNext /\ UNCHANGED <<keysetVars, returningVars, localVars, workVars, sample>>
    \/ LocalNext /\ UNCHANGED <<keysetVars, returningVars, schemaVars, workVars, sample>>
    \/ ConnectionsNext /\ UNCHANGED <<writeVars, etlVars, valueVars, sample>>
    \/ RollupNext
       /\ UNCHANGED <<writeVars, connectionVars, calendarVars, valueVars, sample>>
    \/ CalendarNext
       /\ UNCHANGED <<writeVars, connectionVars, rollupVars, valueVars, sample>>
    \/ LoggingNext
       /\ UNCHANGED <<writeVars, connectionVars, etlVars, temporalVars, sample>>
    \/ TemporalNext
       /\ UNCHANGED <<writeVars, connectionVars, etlVars, loggingVars, sample>>

vars == <<writeVars, workVars, sample>>

Spec == Init /\ [][Next]_vars

-----------------------------------------------------------------------------
\* The text and parameters of a condition mean what was composed, on every
\* dialect and row and for every run of a prepared plan (RenderedMeans); a chain
\* of set operations finds what was composed (ChainMeans); an analytical query's
\* rows hold what its metrics and windows say of their keys (AnalyticsMeans); the
\* rows of a select are what was composed, by whatever names (SelectsMean); a
\* relational query finds the rows its keys lead to, and no others; fields of JSON
\* documents (JsonMeans), date arithmetic (DatesMean) and aggregates and choices
\* of values that may be NULL (ScalarsMean) are alike on every dialect.
QueryMeans ==
    /\ "condition" \in DOMAIN sample => C!RenderedMeans(sample.condition)
    /\ "chain" \in DOMAIN sample => S!ChainMeans(sample.chain)
    /\ "analytics" \in DOMAIN sample => A!AnalyticsMeans(sample.analytics)
    /\ "relation" \in DOMAIN sample => R!RelationsMean(sample.relation)
    /\ "json" \in DOMAIN sample => J!JsonMeans(sample.json)
    /\ "dates" \in DOMAIN sample => D!DatesMean(sample.dates)
    /\ "scalars" \in DOMAIN sample => F!ScalarsMean(sample.scalars)
    /\ "select" \in DOMAIN sample => Q!SelectsMean(sample.select)

\* "Whole units elapsed from `from` to `to`": dateDiff of operators.ts, which on
\* SQLite is a unit less for some instants that are whole units apart.
DiffWhole == "dates" \in DOMAIN sample => D!DiffWhole(sample.dates)

\* An upsert that MySQL is sent leaves the row that PostgreSQL would leave
\* (UpsertPortable), and tryInsert says whether it wrote a row (OutcomeTrue); an
\* inserted row has the defaults of the columns it leaves out (DefaultsKept); an
\* update or delete that is sent does to the rows what was composed, on every
\* dialect (UpdatePortable).
WritesPortable ==
    /\ "upsert" \in DOMAIN sample => /\ M!UpsertPortable(sample.upsert)
                                     /\ M!OutcomeTrue(sample.upsert)
    /\ "rows" \in DOMAIN sample => M!DefaultsKept(sample.rows)
    /\ "update" \in DOMAIN sample => U!UpdatePortable(sample.update)

\* A migration script is split into the statements it was built from.
SplitKeeps == "script" \in DOMAIN sample => P!SplitKeeps(sample.script)

\* A command line of `sisal migrate` does what was asked for, in whatever form
\* and order its flags are written, or nothing (parseArgs, loadConfig of cli.ts).
ArgsMean == "command" \in DOMAIN sample => L!ArgsMean(sample.command)

-----------------------------------------------------------------------------
(* Bounds *)

MCRows == {<<1, 1, 1>>, <<1, 1, 2>>, <<1, 2, 3>>, <<2, 1, 4>>, <<2, 1, 5>>}

Given(k, v) == [key |-> k, value |-> v]
MCBatches ==
    {<<Given(<<>>, "x"), Given(<<>>, "y"), Given(<<>>, "z")>>,
     <<Given(<<>>, "x"), Given(IdKey(3), "y"), Given(<<>>, "z")>>,
     <<Given(IdKey(2), "x"), Given(IdKey(1), "y")>>,
     <<Given(IdKey(3), "x"), Given(IdKey(Respelled + 1), "y")>>,
     <<Given(<<1, 2>>, "x"), Given(<<2, 1>>, "y")>>,
     <<Given(<<1, 2>>, "x"), Given(<<>>, "y")>>}

\* Of schemas: three engines, two tables that may reference each other.
Col(type, nullable, default) ==
    [type |-> type, nullable |-> nullable, default |-> default]
Index(col, unique, partial, expression) ==
    [col |-> col, unique |-> unique, partial |-> partial,
     expression |-> expression]
Plain == Col("integer", FALSE, FALSE)
Body(id, name, uniques, indexes, fks) ==
    [cols |-> [id |-> id, name |-> name], pk |-> {"id"}, uniques |-> uniques,
     indexes |-> indexes, fks |-> fks]
Ref(to, ref) == [col |-> "name", table |-> to, ref |-> ref]

MCIdentities ==
    {[dialect |-> "postgres", functional |-> TRUE],
     [dialect |-> "sqlite", functional |-> TRUE],
     [dialect |-> "mysql", functional |-> FALSE],
     [dialect |-> "mysql", functional |-> TRUE]}

MCBodies ==
    {Body(Plain, Plain, {"name"}, {}, {}),
     Body(Plain, Plain, {"name"}, {Index("name", FALSE, TRUE, FALSE)}, {}),
     Body(Plain, Plain, {}, {Index("name", TRUE, FALSE, FALSE)}, {Ref(1, "id")}),
     Body(Col("serial", FALSE, FALSE), Plain, {},
          {Index("name", FALSE, FALSE, TRUE)}, {Ref(2, "id")}),
     Body(Plain, Col("text", TRUE, FALSE), {},
          {Index("name", FALSE, FALSE, FALSE)}, {}),
     Body(Plain, Col("virtual", TRUE, FALSE), {}, {}, {})}

MCAddedColumns == {Col("integer", TRUE, FALSE), Col("text", FALSE, TRUE),
                   Col("serial", TRUE, FALSE)}
MCObjects == {[name |-> "audit", on |-> 1, dialect |-> "any"],
              [name |-> "notify", on |-> 2, dialect |-> "postgres"]}
MCAddedKeys == {Index("id", FALSE, FALSE, FALSE)}
=============================================================================
