----------------------------- MODULE SchemaDiff -----------------------------
(***************************************************************************)
(* From a schema to a database: a program edits its table definitions,     *)
(* `sisal generate` diffs them with the last recorded snapshot             *)
(* (packages/core/src/schema.ts), renders the statements of its dialect    *)
(* (packages/{pg,mysql,sqlite}/src/migrate/ddl.ts) and records the new     *)
(* snapshot, and the statements run one after another on an engine.        *)
(*                                                                         *)
(* A table is its columns, its keys and its foreign keys, each of one      *)
(* column; the lists that normalizing sorts are sets.                      *)
(***************************************************************************)
EXTENDS Integers, FiniteSets

CONSTANTS
    Identities,   \* the engines: records of a dialect and what it supports
    Tables,       \* table names
    Columns,      \* column names
    Bodies,       \* the table definitions a program may add
    AddedColumns, \* the definitions of a column it may add
    AddedKeys,    \* the indexes it may add to a table it has
    Objects,      \* schema objects, each on a table
    KeysMayChange,\* the program changes the keys of a table it has deployed
    Careless,     \* it defines what its engine will not take
    MaxEdits      \* bound: edits of the program

ASSUME SchemaAssumption ==
    /\ MaxEdits \in Nat /\ KeysMayChange \in BOOLEAN /\ Careless \in BOOLEAN
    /\ \A o \in Objects : o.on \in Tables
    /\ \A b \in Bodies :
          /\ b = [cols |-> b.cols, pk |-> b.pk, uniques |-> b.uniques,
                  indexes |-> b.indexes, fks |-> b.fks]
          /\ b.cols = [c \in DOMAIN b.cols |-> b.cols[c]]

VARIABLES
    identity,  \* the engine behind the program's dialect
    schema,    \* what the program defines: its tables and objects
    recorded,  \* the latest snapshot of the migrations directory
    database,  \* the tables and objects of the database
    pending,   \* statements left of the migration that is being run
    failed,    \* a generated statement was rejected by the engine
    edits      \* edits so far

schemaVars == <<identity, schema, recorded, database, pending, failed, edits>>

Empty == [tables |-> <<>>, objects |-> {}]

\* f with what g says where g says something.
Over(g, f) ==
    [x \in DOMAIN g \cup DOMAIN f |-> IF x \in DOMAIN g THEN g[x] ELSE f[x]]

With(f, x, value) == Over([y \in {x} |-> value], f)

SchemaInit ==
    /\ identity \in Identities
    /\ schema = Empty
    /\ recorded = Empty
    /\ database = Empty
    /\ pending = {}
    /\ failed = FALSE
    /\ edits = 0

-----------------------------------------------------------------------------
(* The snapshot *)

\* A table's columns exist in its keys; so do a foreign key's target columns
\* when the target is a table of the snapshot.
ValidTable(s, t) ==
    LET table == s.tables[t]
    IN  /\ table.pk \cup table.uniques \cup {i.col : i \in table.indexes}
               \subseteq DOMAIN table.cols
        /\ \A f \in table.fks :
              /\ f.col \in DOMAIN table.cols
              /\ f.table \in DOMAIN s.tables
                    => f.ref \in DOMAIN s.tables[f.table].cols

Valid(s) == \A t \in DOMAIN s.tables : ValidTable(s, t)

\* diffColumns: columns are matched by name.
DiffColumns(from, to) ==
    [added   |-> DOMAIN to \ DOMAIN from,
     removed |-> DOMAIN from \ DOMAIN to,
     changed |-> {c \in DOMAIN from \cap DOMAIN to : from[c] # to[c]}]

\* diffSchemaSnapshots: tables are matched by name.
Diff(from, to) ==
    [added   |-> DOMAIN to.tables \ DOMAIN from.tables,
     removed |-> DOMAIN from.tables \ DOMAIN to.tables,
     changed |-> {t \in DOMAIN from.tables \cap DOMAIN to.tables :
                     from.tables[t] # to.tables[t]},
     columns |-> [t \in DOMAIN from.tables \cap DOMAIN to.tables |->
                     DiffColumns(from.tables[t].cols, to.tables[t].cols)]]

\* Broken variant: a column that is defined anew is no destructive change.
OnlyDrops(diff) ==
    \/ diff.removed # {}
    \/ \E t \in diff.changed : diff.columns[t].removed # {}

\* planSchemaChanges: what may lose data.
Destructive(diff) ==
    \/ diff.removed # {}
    \/ \E t \in diff.changed : \/ diff.columns[t].changed # {}
                               \/ diff.columns[t].removed # {}

\* selectSchemaObjects: those of the dialect that are new or have new text.
SelectObjects(to, from) ==
    {o \in to.objects : o.dialect \in {"any", identity.dialect}
                        /\ o \notin from.objects}

-----------------------------------------------------------------------------
(* The statements *)

\* SQLite has its foreign keys in the CREATE TABLE.
CreateTable(t) ==
    LET table == schema.tables[t]
    IN  [do |-> "create table", table |-> t, cols |-> table.cols,
         pk |-> table.pk, uniques |-> table.uniques,
         fks |-> IF identity.dialect = "sqlite" THEN table.fks ELSE {}]

AddColumn(t, c) ==
    [do |-> "add column", table |-> t, col |-> c, as |-> schema.tables[t].cols[c]]

ForeignKeys(t) ==
    {[do |-> "add foreign key", table |-> t, fk |-> f] :
        f \in IF identity.dialect = "sqlite" THEN {} ELSE schema.tables[t].fks}

CreateIndexes(t) ==
    {[do |-> "create index", table |-> t, index |-> i] :
        i \in schema.tables[t].indexes}

\* validateMysqlTable: at most one AUTO_INCREMENT column, the first of some
\* key, and no key on a column of type TEXT.
MysqlTableRefused(t) ==
    LET table == schema.tables[t]
        plain == {i.col : i \in {j \in table.indexes : ~j.expression}}
        keyed == table.pk \cup table.uniques \cup plain
        auto == {c \in DOMAIN table.cols : table.cols[c].type = "serial"}
    IN  \/ Cardinality(auto) > 1
        \/ ~(auto \subseteq keyed)
        \/ \E c \in keyed : table.cols[c].type = "text"

\* What a generator throws on: a virtual column on PostgreSQL; on MySQL such a
\* table, a partial index, an expression in an index where there are none, and
\* an AUTO_INCREMENT column added to a table.
Throws(diff) ==
    \/ /\ identity.dialect = "postgres"
       /\ \/ \E t \in diff.added : \E c \in DOMAIN schema.tables[t].cols :
                schema.tables[t].cols[c].type = "virtual"
          \/ \E t \in diff.changed : \E c \in diff.columns[t].added :
                schema.tables[t].cols[c].type = "virtual"
    \/ /\ identity.dialect = "mysql"
       /\ \/ \E t \in diff.added :
                \/ MysqlTableRefused(t)
                \/ \E i \in schema.tables[t].indexes :
                      i.partial \/ (i.expression /\ ~identity.functional)
          \/ \E t \in diff.changed : \E c \in diff.columns[t].added :
                schema.tables[t].cols[c].type = "serial"

ObjectStatements ==
    {[do |-> "create object", object |-> o] :
        o \in SelectObjects(schema, recorded)}

\* generate{Postgres,Mysql,Sqlite}UpStatements: for the tables that are new or
\* have new columns, and for the objects ...
UpStatements(diff) ==
    {CreateTable(t) : t \in diff.added}
    \cup (UNION {{AddColumn(t, c) : c \in diff.columns[t].added} :
                    t \in diff.changed})
    \cup (UNION {ForeignKeys(t) \cup CreateIndexes(t) : t \in diff.added})
    \cup ObjectStatements

\* Broken variant: a table's foreign keys are added where it is created.
TurnWithTables(s) ==
    CASE s.do \in {"create table", "add foreign key"} -> 1
      [] s.do = "add column" -> 2
      [] s.do = "create index" -> 4
      [] s.do = "create object" -> 5

\* ... every table, then columns, then the foreign keys, the indexes, and what
\* else there is.  Which table comes first is left open, so nothing may rest on
\* its name.
Turn(s) ==
    CASE s.do = "create table" -> 1
      [] s.do = "add column" -> 2
      [] s.do = "add foreign key" -> 3
      [] s.do = "create index" -> 4
      [] s.do = "create object" -> 5

\* commandGenerate: nothing is written for a destructive change or when there
\* is no statement, unless an empty migration is allowed.
Generate ==
    /\ pending = {} /\ ~failed
    /\ LET diff == Diff(recorded, schema)
       IN  /\ ~Throws(diff) /\ ~Destructive(diff)
           /\ \E allowEmpty \in BOOLEAN :
                 /\ UpStatements(diff) # {} \/ allowEmpty
                 /\ pending' = UpStatements(diff)
                 /\ recorded' = schema
    /\ UNCHANGED <<identity, schema, database, failed, edits>>

-----------------------------------------------------------------------------
(* The engine *)

\* A column that a foreign key may reference.
Referable(table, c) ==
    c \in table.pk \cup table.uniques
        \cup {i.col : i \in {j \in table.indexes :
                                j.unique /\ ~j.partial /\ ~j.expression}}

Accepts(s) ==
    LET tables == database.tables
    IN  CASE s.do = "create table" ->
                /\ s.table \notin DOMAIN tables
                /\ identity.dialect = "mysql" =>
                      \A c \in DOMAIN s.cols :
                          s.cols[c].type = "serial" => c \in s.pk \cup s.uniques
          [] s.do = "add column" ->
                /\ s.table \in DOMAIN tables
                /\ s.col \notin DOMAIN tables[s.table].cols
                /\ s.as.nullable \/ s.as.default \/ identity.dialect = "mysql"
          [] s.do = "add foreign key" ->
                /\ {s.table, s.fk.table} \subseteq DOMAIN tables
                /\ s.fk.ref \in DOMAIN tables[s.fk.table].cols
                /\ Referable(tables[s.fk.table], s.fk.ref)
          [] s.do = "create index" ->
                /\ s.table \in DOMAIN tables
                /\ s.index.col \in DOMAIN tables[s.table].cols
          [] s.do = "create object" -> s.object.on \in DOMAIN tables

Changed(tables, s) ==
    CASE s.do = "create table" ->
            With(tables, s.table,
                 [cols |-> s.cols, pk |-> s.pk, uniques |-> s.uniques,
                  fks |-> s.fks, indexes |-> {}])
      [] s.do = "add column" ->
            [tables EXCEPT ![s.table].cols = With(@, s.col, s.as)]
      [] s.do = "add foreign key" -> [tables EXCEPT ![s.table].fks = @ \cup {s.fk}]
      [] s.do = "create index" ->
            [tables EXCEPT ![s.table].indexes = @ \cup {s.index}]
      [] s.do = "create object" -> tables

RunStatement ==
    /\ ~failed
    /\ \E s \in pending :
          /\ \A other \in pending : Turn(s) <= Turn(other)
          /\ IF Accepts(s)
             THEN /\ database' =
                        [tables  |-> Changed(database.tables, s),
                         objects |-> IF s.do = "create object"
                                     THEN database.objects \cup {s.object}
                                     ELSE database.objects]
                  /\ UNCHANGED failed
             ELSE failed' = TRUE /\ UNCHANGED database
          /\ pending' = pending \ {s}
    /\ UNCHANGED <<identity, schema, recorded, edits>>

-----------------------------------------------------------------------------
(* The program *)

\* A snapshot lists the tables that its references and objects name: what the
\* code lets a program leave out is not there for the engine either.
Whole(s) ==
    /\ \A t \in DOMAIN s.tables : \A f \in s.tables[t].fks :
          f.table \in DOMAIN s.tables
    /\ \A o \in s.objects : o.on \in DOMAIN s.tables

\* Bound: no statement is generated for a key of a table there is, so unless
\* the run says otherwise a recorded table keeps its keys.
Keys(table) == <<table.pk, table.uniques, table.indexes, table.fks>>
KeysKept(new) ==
    \A t \in DOMAIN recorded.tables \cap DOMAIN new.tables :
        Keys(new.tables[t]) = Keys(recorded.tables[t])

\* What the generators let through and an engine does not take is left out too:
\* a foreign key that references neither the primary key nor a unique, as the
\* indexes are created after it, and an AUTO_INCREMENT column that only an index
\* keys, likewise ...
WellKeyed(new) ==
    \A t \in DOMAIN new.tables :
        LET table == new.tables[t]
        IN  /\ \A f \in table.fks :
                  f.ref \in new.tables[f.table].pk
                            \cup new.tables[f.table].uniques
            /\ \A i \in table.indexes : table.cols[i.col].type = "serial" =>
                  i.col \in table.pk \cup table.uniques

\* ... and a column that rows get later, is not NULL and has no default.
Addable(new) ==
    \A t \in DOMAIN recorded.tables \cap DOMAIN new.tables :
        LET cols == new.tables[t].cols
        IN  \A c \in DOMAIN cols \ DOMAIN recorded.tables[t].cols :
                cols[c].nullable \/ cols[c].default

\* The program's definitions change, and are a valid snapshot again.
Edit(new) ==
    /\ pending = {} /\ edits < MaxEdits
    /\ new # schema /\ Valid(new) /\ Whole(new)
    /\ KeysMayChange \/ KeysKept(new)
    /\ Careless \/ (WellKeyed(new) /\ Addable(new))
    /\ schema' = new
    /\ edits' = edits + 1
    /\ UNCHANGED <<identity, recorded, database, pending, failed>>

\* Tables that may reference each other are defined together.
DefineTables ==
    \E ts \in SUBSET (Tables \ DOMAIN schema.tables) :
        \E bodies \in [ts -> Bodies] :
            Edit([schema EXCEPT !.tables = Over(bodies, @)])

WithTable(t, body) ==
    [schema EXCEPT !.tables = With(@, t, body)]

\* A column is added, or defined anew.
DefineColumn ==
    \E t \in DOMAIN schema.tables, c \in Columns, as \in AddedColumns :
        LET body == schema.tables[t]
        IN  Edit(WithTable(t, [body EXCEPT !.cols = With(@, c, as)]))

DefineIndex ==
    \E t \in DOMAIN schema.tables, i \in AddedKeys :
        LET body == schema.tables[t]
        IN  Edit(WithTable(t, [body EXCEPT !.indexes = @ \cup {i}]))

DefineObject ==
    \E o \in Objects : Edit([schema EXCEPT !.objects = @ \cup {o}])

DropTable ==
    \E t \in DOMAIN schema.tables :
        Edit([schema EXCEPT
            !.tables = [u \in DOMAIN schema.tables \ {t} |-> schema.tables[u]]])

\* A destructive change is handled by hand: a migration that somebody wrote,
\* with its snapshot.
HandWrite ==
    /\ pending = {} /\ ~failed
    /\ Destructive(Diff(recorded, schema))
    /\ recorded' = schema
    /\ database' = [schema EXCEPT
           !.objects = {o \in @ : o.dialect \in {"any", identity.dialect}}]
    /\ UNCHANGED <<identity, schema, pending, failed, edits>>

SchemaNext ==
    \/ Generate
    \/ RunStatement
    \/ DefineTables
    \/ DefineColumn
    \/ DefineIndex
    \/ DefineObject
    \/ DropTable
    \/ HandWrite

SchemaSpec == SchemaInit /\ [][SchemaNext]_schemaVars

-----------------------------------------------------------------------------
\* Every generated statement can run when its turn comes: what it refers to is
\* there, whatever the names of the tables, whichever reference which and
\* whatever had been deployed before.
StatementsRun == ~failed

\* When a migration has run, the database is what the snapshot beside it says:
\* `generate` refuses a change "instead of recording a snapshot that the
\* generated SQL cannot actually produce".
RecordedIsProduced ==
    pending = {} /\ ~failed =>
        /\ database.tables = recorded.tables
        /\ database.objects = {o \in recorded.objects :
                                  o.dialect \in {"any", identity.dialect}}
=============================================================================
