------------------------------ MODULE Updates -------------------------------
(***************************************************************************)
(* The UPDATE and DELETE builders of packages/orm/src/core/builders.ts: the*)
(* columns an update sets, a second relation that it reads, and the text   *)
(* that each dialect is sent, with what the engines make of it.            *)
(*                                                                         *)
(* The target t has the columns id, n and at, the source s has id and n.   *)
(* A query is a record: what is set, in turn (values), whether it names a  *)
(* source (joined), its condition, whether it may go without one (allow),  *)
(* and the columns of t that refresh themselves (managed, .$onUpdate()).   *)
(***************************************************************************)
EXTENDS Integers, Sequences, SequencesExt, FiniteSetsExt

Omitted == [is |-> "undefined"]
Literal(v) == [is |-> "value", value |-> v]
Of(table, col) == [is |-> "col", table |-> table, col |-> col]

ColumnsOf == [t |-> {"id", "n", "at"}, s |-> {"id", "n"}]
Refreshed == 9  \* what a column's $onUpdate function returns

-----------------------------------------------------------------------------
(* Rendering *)

\* getDefinedEntries: what is undefined is not set.
DefinedEntries(q) == SelectSeq(q.values, LAMBDA e : e.to # Omitted)

\* Broken variant: the function is applied although the column is set.
AlwaysRefreshed(q, entries) ==
    entries \o SetToSeq({[col |-> c, to |-> Literal(Refreshed)] : c \in q.managed})

\* appendOnUpdateEntries: a column that refreshes itself, unless it is set.
OnUpdateEntries(q, entries) ==
    LET present == {entries[i].col : i \in DOMAIN entries}
    IN  entries \o SetToSeq({[col |-> c, to |-> Literal(Refreshed)] :
                                c \in q.managed \ present})

\* toSql of the update builder: the assignments.
Assignments(q) == OnUpdateEntries(q, DefinedEntries(q))

\* toSql, the guards: nothing to set; no condition and no leave to write every
\* row; a relation SQLite cannot delete through.
Refused(q, dialect) ==
    \/ q.op = "update" /\ Assignments(q) = <<>>
    \/ q.where = "none" /\ ~q.allow
    \/ q.op = "delete" /\ q.joined /\ dialect = "sqlite"

\* Broken variant: one text for all dialects, as without a source.
UnqualifiedHead(q, dialect) ==
    [tables |-> IF q.joined THEN <<"t", "s">> ELSE <<"t">>, qualified |-> FALSE]

\* updateStatementHead: MySQL names both tables, and its SET qualifies the
\* columns; the others name the source in FROM, and SET knows only t.
UpdateHead(q, dialect) ==
    [tables |-> IF q.joined THEN <<"t", "s">> ELSE <<"t">>,
     qualified |-> q.joined /\ dialect = "mysql"]

\* Broken variant: MySQL is sent the USING list of PostgreSQL.
PortableUsing(q, dialect) == [tables |-> IF q.joined THEN <<"s">> ELSE <<>>]

\* deleteStatementHead: on MySQL, USING lists the target too.
DeleteHead(q, dialect) ==
    [tables |-> IF ~q.joined THEN <<>>
                ELSE IF dialect = "mysql" THEN <<"t", "s">> ELSE <<"s">>]

-----------------------------------------------------------------------------
(* How the engines run it *)

\* A name in MySQL's SET is looked up in all the tables listed.
Ambiguous(q, head, dialect) ==
    /\ dialect = "mysql" /\ ~head.qualified
    /\ \E i \in DOMAIN Assignments(q) :
          Cardinality({x \in ToSet(head.tables) :
                          Assignments(q)[i].col \in ColumnsOf[x]}) > 1

\* DELETE FROM t USING: on MySQL t must be in the list, on PostgreSQL it must
\* not be there a second time.
BadUsing(head, dialect) ==
    head.tables # <<>> /\ (("t" \in ToSet(head.tables)) # (dialect = "mysql"))

\* No statement, or one that the server does not accept.
Fails(q, dialect) ==
    IF q.op = "update" THEN Ambiguous(q, UpdateHead(q, dialect), dialect)
    ELSE BadUsing(DeleteHead(q, dialect), dialect)

Holds(q, row, other) ==
    CASE q.where = "none" -> TRUE
      [] q.where = "literal" -> row.n = 1
      [] q.where = "join" -> row.id = other.id

\* The source rows that a row of t is found with.
Partners(q, row, source) ==
    {other \in (IF q.joined THEN source ELSE {[id |-> 0, n |-> 0]}) :
        Holds(q, row, other)}

Value(to, row, other) ==
    CASE to.is = "value" -> to.value
      [] to.is = "col" -> IF to.table = "t" THEN row[to.col] ELSE other[to.col]

\* Every assignment reads the row as it was.
AtOnce(set, row, other) ==
    [c \in ColumnsOf.t |->
        IF \E i \in DOMAIN set : set[i].col = c
        THEN LET last == CHOOSE i \in DOMAIN set :
                            set[i].col = c /\ \A j \in DOMAIN set :
                                                 set[j].col = c => j <= i
             IN  Value(set[last].to, row, other)
        ELSE row[c]]

\* MySQL: each assignment reads what those before it left.
InTurn(set, row, other) ==
    FoldLeft(LAMBDA r, e : [r EXCEPT ![e.col] = Value(e.to, r, other)], row, set)

\* The rows that one row may become: an update that finds it with several rows
\* of the source uses one of them; a deleted row becomes nothing.
Becomes(q, dialect, row, source) ==
    LET found == Partners(q, row, source)
        set == Assignments(q)
        new(other) == IF dialect = "mysql" THEN InTurn(set, row, other)
                      ELSE AtOnce(set, row, other)
    IN  IF found = {} THEN {<<row>>}
        ELSE IF q.op = "delete" THEN {<<>>}
        ELSE {<<new(other)>> : other \in found}

-----------------------------------------------------------------------------
(* Bounds *)

Values == {Literal(5), Omitted, Of("t", "n"), Of("s", "n"), Of("t", "id")}
ValueLists ==
    {<<>>} \cup {<<[col |-> c, to |-> v]>> : c \in {"n", "at"}, v \in Values}
    \cup {<<[col |-> "n", to |-> v], [col |-> "at", to |-> w]>> :
             v \in Values, w \in Values}

Reads(list, table) ==
    \E i \in DOMAIN list : list[i].to.is = "col" /\ list[i].to.table = table

UpdateSamples ==
    {q \in [op : {"update", "delete"}, values : ValueLists, joined : BOOLEAN,
            where : {"none", "literal", "join"}, allow : BOOLEAN,
            managed : {{}, {"at"}}] :
        /\ q.op = "delete" => q.values = <<>>
        /\ ~q.joined => ~Reads(q.values, "s") /\ q.where # "join"}

RowsOfT == {[id |-> 1, n |-> 1, at |-> 0], [id |-> 2, n |-> 3, at |-> 0]}
Sources == {{}, {[id |-> 1, n |-> 7]}, {[id |-> 1, n |-> 7], [id |-> 3, n |-> 8]},
            {[id |-> 2, n |-> 7], [id |-> 1, n |-> 2]}}

\* An assignment reads a column that another one sets: MySQL reads the new value
\* or, with two tables, either.
ReadsSibling(q) ==
    LET set == Assignments(q)
    IN  \E i, j \in DOMAIN set :
            i # j /\ set[i].to = Of("t", set[j].col)

\* What was composed: a row that the condition holds for gets every value given,
\* of itself and of a source row it holds with, and the refreshed columns that
\* were not given, or is gone; the other rows stay.
Composed(q, row, source) ==
    LET found == Partners(q, row, source)
        given(c) == {i \in DOMAIN q.values : q.values[i].col = c
                                             /\ q.values[i].to # Omitted}
        new(other) == [c \in ColumnsOf.t |->
            IF given(c) # {} THEN Value(q.values[Max(given(c))].to, row, other)
            ELSE IF c \in q.managed THEN Refreshed ELSE row[c]]
    IN  IF found = {} THEN {<<row>>}
        ELSE IF q.op = "delete" THEN {<<>>} ELSE {<<new(other)>> : other \in found}

\* An update or delete that is sent is accepted by the server and does to the
\* rows what was composed, the same on every dialect, and never writes every row
\* without leave; on MySQL, as long as no assignment reads another's column.
UpdatePortable(q) ==
    \A dialect \in {"postgres", "mysql", "sqlite"} :
        \/ Refused(q, dialect)
        \/ /\ ~Fails(q, dialect)
           /\ q.where = "none" => q.allow
           /\ \/ dialect = "mysql" /\ q.op = "update" /\ ReadsSibling(q)
              \/ \A source \in Sources, row \in RowsOfT :
                    Becomes(q, dialect, row, source) = Composed(q, row, source)
=============================================================================
