----------------------------- MODULE Mutations ------------------------------
(***************************************************************************)
(* What the INSERT builder of packages/orm/src/core/builders.ts writes: an *)
(* upsert whose assignments PostgreSQL evaluates on the row as it was and  *)
(* MySQL one after the other, and rows that leave columns out.             *)
(*                                                                         *)
(* A row is a function from columns to integers.  An expression is a value,*)
(* a column of the row there is ("col"), a column of the row proposed      *)
(* ("excluded"), or a dialect-mapped helper over expressions ("greatest"). *)
(***************************************************************************)
EXTENDS Integers, Sequences, SequencesExt, FiniteSetsExt

TableColumns == {"id", "a", "b"}
\* Values are positive; these stand for a property that is undefined, and for
\* what else may be written in its place.
Omitted == 0
DefaultWord == -1
NotRendered == -2
NullWord == -3

Default(col) == 9  \* the default the database has for a column

-----------------------------------------------------------------------------
(* Rendering *)

\* Broken variant: dialect-mapped helpers are not looked into.
ReferencesOutside(expr, col) == expr.is = "col" /\ expr.col = col

\* sqlReferencesQualified: the proposed row is no reference.
RECURSIVE References(_, _)
References(expr, col) ==
    \/ expr.is = "col" /\ expr.col = col
    \/ expr.is = "greatest" /\ \E i \in DOMAIN expr.of : References(expr.of[i], col)

\* odkuBackwardReference: an assignment reads a sibling set before it.
BackwardReference(set) ==
    \E i \in DOMAIN set : \E j \in 1 .. i - 1 :
        References(set[i].to, set[j].col)

\* conflictSql: a duplicate-key form has no condition, and no assignment whose
\* value depends on the order; doing nothing is `col = col`, of the column the
\* program names or the primary key.
NoopAssignment(target) ==
    LET col == IF target = {} THEN "id" ELSE CHOOSE c \in target : TRUE
    IN  [col |-> col, to |-> [is |-> "col", col |-> col]]

ConflictSql(conflict, dialect) ==
    CASE conflict.kind = "nothing" /\ dialect = "mysql" ->
            [form |-> "duplicate key",
             set |-> <<NoopAssignment(conflict.target)>>]
      [] conflict.kind = "nothing" -> [form |-> "nothing"]
      [] dialect = "mysql" /\ (conflict.where # <<>>
                               \/ BackwardReference(conflict.set)) ->
            [form |-> "refused"]
      [] dialect = "mysql" -> [form |-> "duplicate key", set |-> conflict.set]
      [] OTHER -> [form |-> "conflict", set |-> conflict.set,
                   where |-> conflict.where]

\* getInsertColumnNames: the columns some row gives.
InsertColumns(rows) ==
    {c \in TableColumns : \E i \in DOMAIN rows : rows[i][c] # Omitted}

\* Broken variant: a column a row leaves out is bound as NULL.
BindNull(row, col, dialect) == IF row[col] = Omitted THEN NullWord ELSE row[col]

\* A column that another row gives is DEFAULT in a row that leaves it out;
\* SQLite has no such keyword.
ValueSql(row, col, dialect) ==
    IF row[col] # Omitted THEN row[col]
    ELSE IF dialect = "sqlite" THEN NotRendered ELSE DefaultWord

\* The VALUES list: per row, what is written for each column.
ValuesSql(rows, dialect) ==
    [i \in DOMAIN rows |->
        [c \in InsertColumns(rows) |-> ValueSql(rows[i], c, dialect)]]

-----------------------------------------------------------------------------
(* How the engines run it *)

RECURSIVE Evaluate(_, _, _)
Evaluate(expr, old, proposed) ==
    CASE expr.is = "value" -> expr.value
      [] expr.is = "col" -> old[expr.col]
      [] expr.is = "excluded" -> proposed[expr.col]
      [] expr.is = "greatest" ->
            Max({Evaluate(expr.of[i], old, proposed) : i \in DOMAIN expr.of})

\* ON CONFLICT reads the row as it was, in every assignment.
AtOnce(set, old, proposed) ==
    [c \in TableColumns |->
        IF \E i \in DOMAIN set : set[i].col = c
        THEN Evaluate(set[CHOOSE i \in DOMAIN set : set[i].col = c].to,
                      old, proposed)
        ELSE old[c]]

\* ON DUPLICATE KEY UPDATE reads the row as the assignments before left it.
InTurn(set, old, proposed) ==
    FoldLeft(LAMBDA row, s : [row EXCEPT ![s.col] = Evaluate(s.to, row, proposed)],
             old, set)

\* The row after a conflict; nothing when the statement is not rendered.
Upserted(conflict, dialect, old, proposed) ==
    LET sql == ConflictSql(conflict, dialect)
    IN  CASE sql.form = "refused" -> <<>>
          [] sql.form = "nothing" -> <<old>>
          [] sql.form = "duplicate key" -> <<InTurn(sql.set, old, proposed)>>
          [] sql.form = "conflict" ->
                IF \A i \in DOMAIN sql.where : old["a"] = sql.where[i]
                THEN <<AtOnce(sql.set, old, proposed)>> ELSE <<old>>

\* The rows the table gets from a VALUES list.
Inserted(rows, dialect) ==
    LET values == ValuesSql(rows, dialect)
        column(i, c) == IF c \notin InsertColumns(rows)
                           \/ values[i][c] = DefaultWord
                        THEN Default(c) ELSE values[i][c]
    IN  [i \in DOMAIN rows |-> [c \in TableColumns |-> column(i, c)]]

-----------------------------------------------------------------------------
(* tryInsert: whether a guarded insert has written a row *)

\* Broken variant: a driver that counts the rows it found.
FoundRowsOn == TRUE

\* The pools ask MySQL for the rows that changed.
FoundRows == FALSE

\* The rows an engine says it wrote: a row whose key is there, or earlier in the
\* same statement, is one a no-op assignment found, and did not change.
RowCount(conflict, proposed, stored, dialect) ==
    LET there(i) == stored \cup {proposed[j] : j \in 1 .. i - 1}
        met(i) == {r \in there(i) : r.id = proposed[i].id}
        changed(i) ==
            LET old == CHOOSE r \in met(i) : TRUE
            IN  IF dialect = "mysql"
                   /\ InTurn(ConflictSql(conflict, dialect).set, old, proposed[i]) # old
                THEN 2 ELSE IF dialect = "mysql" /\ FoundRows THEN 1 ELSE 0
    IN  FoldLeft(+, 0, [i \in DOMAIN proposed |->
                          IF met(i) = {} THEN 1 ELSE changed(i)])

\* RETURNING has a row for each row written; MySQL is asked for the count.
TryInsert(conflict, proposed, stored, dialect) ==
    LET rowCount == RowCount(conflict, proposed, stored, dialect)
    IN  [inserted |-> rowCount >= 1, rowCount |-> rowCount]

-----------------------------------------------------------------------------
(* Bounds *)

Literal(v) == [is |-> "value", value |-> v]
Col(c) == [is |-> "col", col |-> c]
Excluded(c) == [is |-> "excluded", col |-> c]
Greatest(x, y) == [is |-> "greatest", of |-> <<x, y>>]

Exprs == {Literal(5), Col("a"), Col("b"), Excluded("a"), Excluded("b"),
          Greatest(Col("a"), Excluded("b")), Greatest(Col("b"), Literal(2)),
          Greatest(Greatest(Literal(1), Col("a")), Excluded("a"))}

Sets == {<<[col |-> "a", to |-> x]>> : x \in Exprs}
        \cup {<<[col |-> c[1], to |-> x], [col |-> c[2], to |-> y]>> :
                 c \in {<<"a", "b">>, <<"b", "a">>}, x \in Exprs, y \in Exprs}

Upserts ==
    {[kind |-> "nothing", target |-> t] : t \in {{}, {"a"}}}
    \cup {[kind |-> "update", set |-> s, where |-> w] :
             s \in Sets, w \in {<<>>, <<1>>}}

Stored == {[id |-> 1, a |-> x, b |-> y] : x \in 1 .. 3, y \in 1 .. 3}

Proposals == {[id |-> k, a |-> x, b |-> 2] : k \in 1 .. 2, x \in 1 .. 2}

GivenRows == [TableColumns -> {Omitted, 1}]
InsertSamples == {rows \in UNION {[1 .. n -> GivenRows] : n \in 1 .. 2} :
                     InsertColumns(rows) # {}}

\* An upsert that MySQL is sent leaves the row that PostgreSQL would leave.
UpsertPortable(conflict) ==
    \A old \in Stored, proposed \in Stored :
        Upserted(conflict, "mysql", old, proposed)
            \in {<<>>, Upserted(conflict, "postgres", old, proposed)}

\* tryInsert says that a row was inserted if, and only if, one was, on every
\* dialect, also when some rows of the statement are there already.
OutcomeTrue(conflict) ==
    conflict.kind = "nothing" =>
        \A old \in Stored, x \in Proposals, y \in Proposals,
           dialect \in {"postgres", "mysql", "sqlite"} :
            \A proposed \in {<<x>>, <<x, y>>} :
                TryInsert(conflict, proposed, {old}, dialect).inserted
                    = (\E i \in DOMAIN proposed : proposed[i].id # old.id)

\* A row gets the values it gives and the defaults of what it leaves out,
\* whatever the other rows of the statement give.
DefaultsKept(rows) ==
    \A dialect \in {"postgres", "mysql", "sqlite"} :
        \/ \E i \in DOMAIN rows : \E c \in InsertColumns(rows) :
              ValueSql(rows[i], c, dialect) = NotRendered
        \/ Inserted(rows, dialect) =
              [i \in DOMAIN rows |-> [c \in TableColumns |->
                  IF rows[i][c] = Omitted THEN Default(c) ELSE rows[i][c]]]
=============================================================================
