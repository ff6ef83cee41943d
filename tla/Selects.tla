------------------------------ MODULE Selects -------------------------------
(***************************************************************************)
(* The select builder (packages/orm/src/core/builders.ts, database.ts): by *)
(* which names and positions a query, its derived tables and common table  *)
(* expressions and the rows it hands back hang together.                   *)
(*                                                                         *)
(* A table's columns have a property in the program and a name in the      *)
(* database.  A composed query refers to a column by the name of its       *)
(* source and its key there, as in posts.columns.at or latest.at; the text *)
(* that is sent refers to it by source and column name, and its rows are   *)
(* lists of values, which only their columns' names tell apart.            *)
(***************************************************************************)
EXTENDS Integers, Sequences, SequencesExt, FiniteSetsExt

V(kind, n) == [kind |-> kind, n |-> n]
Null == V("null", 0)
\* A time as a driver hands it over, and as a Temporal value.
Raw(v) == IF v.kind = "instant" THEN V("text", v.n) ELSE v
Parsed(v) == IF v.kind = "text" THEN V("instant", v.n) ELSE v

Column(key, name, type) == [key |-> key, name |-> name, type |-> type]
Table(name, columns) == [is |-> "table", name |-> name, columns |-> columns]
Derived(alias, query) == [is |-> "derived", name |-> alias, query |-> query]
Cte(name, query) == [is |-> "cte", name |-> name, query |-> query]
\* The reference that the body of a recursive CTE has to itself, and its body.
Self(name, keys) == [is |-> "self", name |-> name, keys |-> keys]
Recursive(name, keys, first, other) ==
    [is |-> "recursive", name |-> name, keys |-> keys, first |-> first, other |-> other]

Compound(first, op, other) == [is |-> "compound", first |-> first, op |-> op, other |-> other]
Select(source) ==
    [is |-> "select", with |-> <<>>, from |-> source, list |-> <<>>, joins |-> <<>>,
     where |-> <<>>, group |-> <<>>, having |-> <<>>, distinct |-> FALSE,
     distinctOn |-> <<>>, order |-> <<>>, limit |-> <<>>, offset |-> 0]
Item(at, as) == [at |-> at, as |-> as]
Count == <<"", "count">>

-----------------------------------------------------------------------------
(* What the clauses of a query find, by whatever names its rows are known *)

At(rel, name) == CHOOSE k \in DOMAIN rel.cols : rel.cols[k] = name
Qualified(alias, rel) ==
    [cols |-> [k \in DOMAIN rel.cols |-> <<alias, rel.cols[k]>>], rows |-> rel.rows]
Value(rel, row, at) == row[At(rel, at)]

Joined(left, kind, right, on) ==
    LET cols == left.cols \o right.cols
        nulls(rel) == [k \in DOMAIN rel.cols |-> Null]
        met(row) == LET l == Value([cols |-> cols], row, on[1])
                    IN  l # Null /\ l = Value([cols |-> cols], row, on[2])
        with(l) == SelectSeq([k \in DOMAIN right.rows |-> l \o right.rows[k]], met)
        alone(r) == \A i \in DOMAIN left.rows : ~met(left.rows[i] \o r)
        pairs == [i \in DOMAIN left.rows |->
                    IF with(left.rows[i]) = <<>> /\ kind \in {"left", "full"}
                    THEN <<left.rows[i] \o nulls(right)>> ELSE with(left.rows[i])]
        alones == IF kind \in {"right", "full"} THEN SelectSeq(right.rows, alone) ELSE <<>>
    IN  [cols |-> cols,
         rows |-> FlattenSeq(pairs) \o [k \in DOMAIN alones |-> nulls(left) \o alones[k]]]

\* The first row of each that agree on what `of` takes from them.
Firsts(rows, of(_)) ==
    LET first == {i \in DOMAIN rows : \A j \in 1 .. i - 1 : of(rows[j]) # of(rows[i])}
    IN  [k \in 1 .. Cardinality(first) |-> rows[SetToSortSeq(first, <)[k]]]

Kept(rel, conditions) ==
    [rel EXCEPT !.rows = SelectSeq(@, LAMBDA row :
        \A i \in DOMAIN conditions : Value(rel, row, conditions[i].at).n \in conditions[i].within)]

FirstOn(rel, names) ==
    IF names = <<>> THEN rel
    ELSE [rel EXCEPT !.rows =
            Firsts(@, LAMBDA row : [i \in DOMAIN names |-> Value(rel, row, names[i])])]

Grouped(rel, group) ==
    LET key(row) == [i \in DOMAIN group |-> Value(rel, row, group[i])]
        size(row) == Quantify(DOMAIN rel.rows, LAMBDA i : key(rel.rows[i]) = key(row))
    IN  IF group = <<>> THEN rel
        ELSE FirstOn([cols |-> rel.cols \o <<Count>>,
                      rows |-> [i \in DOMAIN rel.rows |->
                                    rel.rows[i] \o <<V("int", size(rel.rows[i]))>>]], group)

Sorted(rel, order) ==
    LET rank(i, o) == IF o.desc THEN -Value(rel, rel.rows[i], o.at).n
                      ELSE Value(rel, rel.rows[i], o.at).n
        before(i, j) == \/ rank(i, order[1]) < rank(j, order[1])
                        \/ rank(i, order[1]) = rank(j, order[1]) /\ i < j
    IN  IF order = <<>> THEN rel
        ELSE [rel EXCEPT !.rows =
                LET sorted == SetToSortSeq(DOMAIN @, before) IN [k \in DOMAIN @ |-> @[sorted[k]]]]

\* `*`: all the columns there are.
Star == <<>>
Everything(rel) == [k \in DOMAIN rel.cols |-> Item(rel.cols[k], rel.cols[k][2])]
Project(rel, list) ==
    [cols |-> [k \in DOMAIN list |-> list[k].as],
     rows |-> [i \in DOMAIN rel.rows |->
                [k \in DOMAIN list |-> Value(rel, rel.rows[i], list[k].at)]]]
Listed(rel, list) == Project(rel, IF list = Star THEN Everything(rel) ELSE list)

Distinct(rel, distinct) ==
    IF distinct THEN [rel EXCEPT !.rows = Firsts(@, LAMBDA row : row)] ELSE rel

Cut(rel, limit, offset) ==
    [rel EXCEPT !.rows = SubSeq(@, offset + 1, IF limit = <<>> THEN Len(@)
                                               ELSE Min({Len(@), offset + limit[1]}))]

\* The clauses c over what FROM and the joins found, in the order SQL applies them.
Answer(rel, c) ==
    LET groups == Kept(Grouped(Kept(rel, c.where), c.group), c.having)
    IN  Cut(Distinct(Listed(FirstOn(Sorted(groups, c.order), c.distinctOn), c.list), c.distinct),
            c.limit, c.offset)

United(op, first, other) ==
    IF op = "union" THEN Firsts(first \o other, LAMBDA row : row) ELSE first \o other

-----------------------------------------------------------------------------
(* What the builders make of a query *)

\* cteColumnKeys, projectionKeys: a compound's are never recorded.
ColumnKeys(query) ==
    IF query.is = "select" THEN [k \in DOMAIN query.list |-> query.list[k].as] ELSE <<>>

\* The columns a source has in the program: a CTE and a derived table, and those
\* a recursive one declares, have no type.
ColumnsOf(source) ==
    IF source.is = "table" THEN source.columns
    ELSE LET keys == IF source.is = "self" THEN source.keys
                     ELSE IF source.is = "cte" /\ source.query.is = "recursive"
                     THEN source.query.keys ELSE ColumnKeys(source.query)
         IN  [k \in DOMAIN keys |-> Column(keys[k], keys[k], "unknown")]

Sources(query) == {query.from} \cup {query.joins[i].table : i \in DOMAIN query.joins}
Referred(query, at) ==
    LET source == CHOOSE s \in Sources(query) : s.name = at[1]
    IN  CHOOSE c \in ToSet(ColumnsOf(source)) : c.key = at[2]

\* columnToSql: the name of the table and the name of the column.
ColumnToSql(query, at) == IF at = Count THEN at ELSE <<at[1], Referred(query, at).name>>

ProjectionSql(query) ==
    [k \in DOMAIN query.list |-> Item(ColumnToSql(query, query.list[k].at), query.list[k].as)]

TableSelectionAll(table) == Star
TableSelectionSql(table) ==
    IF \A k \in DOMAIN table.columns : table.columns[k].name = table.columns[k].key THEN Star
    ELSE [k \in DOMAIN table.columns |->
            Item(<<table.name, table.columns[k].name>>, table.columns[k].key)]

RECURSIVE ToSql(_)
ToSql(query) ==
    LET at(a) == ColumnToSql(query, a)
        conditions(of) == [i \in DOMAIN of |-> [of[i] EXCEPT !.at = at(@)]]
        body(q) == IF q.is = "recursive"
                   THEN [q EXCEPT !.first = ToSql(@), !.other = ToSql(@)] ELSE ToSql(q)
    IN  IF query.is = "compound"
        THEN [query EXCEPT !.first = ToSql(@), !.other = ToSql(@)]
        ELSE [query EXCEPT
                !.with = [i \in DOMAIN @ |-> [@[i] EXCEPT !.query = body(@)]],
                !.list = IF @ # <<>> THEN ProjectionSql(query)
                         ELSE IF query.from.is = "table" THEN TableSelectionSql(query.from)
                         ELSE Star,
                !.from = IF @.is = "derived" THEN [@ EXCEPT !.query = ToSql(@)]
                         ELSE [is |-> "name", name |-> @.name],
                !.joins = [i \in DOMAIN @ |->
                            [kind |-> @[i].kind, name |-> @[i].table.name,
                             on |-> <<at(@[i].on[1]), at(@[i].on[2])>>]],
                !.where = conditions(@), !.having = conditions(@), !.order = conditions(@),
                !.group = [i \in DOMAIN @ |-> at(@[i])],
                !.distinctOn = [i \in DOMAIN @ |-> at(@[i])]]

\* selectResultMetadata: the types by which the rows are decoded, by their keys.
MetadataByName(query) ==
    IF query.is = "compound" THEN {}
    ELSE IF query.list # <<>>
    THEN {<<Referred(query, query.list[k].at).name, Referred(query, query.list[k].at).type>> :
            k \in {k \in DOMAIN query.list : query.list[k].at # Count}}
    ELSE IF query.from.is # "table" THEN {}
    ELSE {<<c.name, c.type>> : c \in ToSet(query.from.columns)}
SelectResultMetadata(query) ==
    IF query.is = "compound" THEN {}
    ELSE IF query.list # <<>>
    THEN {<<query.list[k].as, Referred(query, query.list[k].at).type>> :
            k \in {k \in DOMAIN query.list : query.list[k].at # Count}}
    ELSE IF query.from.is # "table" THEN {}
    ELSE {<<c.key, c.type>> : c \in ToSet(query.from.columns)}

\* insert().select(): a query without keys, or with one the table does not have.
InsertRefused(table, query) ==
    ColumnKeys(query) = <<>>
    \/ \E key \in ToSet(ColumnKeys(query)) : \A c \in ToSet(table.columns) : c.key # key
InsertAsDeclared(table, query) ==
    [k \in DOMAIN ColumnKeys(query) |-> table.columns[k].name]
InsertSelectColumns(table, query) ==
    [k \in DOMAIN ColumnKeys(query) |->
        (CHOOSE c \in ToSet(table.columns) : c.key = ColumnKeys(query)[k]).name]

-----------------------------------------------------------------------------
(* What an engine makes of the text: the columns of a set operation and of a *)
(* recursive CTE are matched by position                                     *)

\* The tables and CTEs that are known: pairs of a name and what it has, the latest
\* first.
Known(env, name) ==
    env[Min({i \in DOMAIN env : env[i][1] = name})][2]

RECURSIVE Run(_, _)
RECURSIVE Closure(_, _, _, _)

\* The rows of a recursive CTE: the step, on what it found last, until it finds none.
Closure(text, env, names, found) ==
    IF found = <<>> THEN <<>>
    ELSE LET known == <<<<text.name, [cols |-> names, rows |-> found]>>>> \o env
         IN  found \o Closure(text, env, names, Run(text.other, known).rows)

Run(text, env) ==
    IF text.is = "compound"
    THEN LET first == Run(text.first, env)
         IN  [first EXCEPT !.rows = United(text.op, @, Run(text.other, env).rows)]
    ELSE IF text.is = "recursive"
    THEN [cols |-> text.keys,
          rows |-> Closure(text, env, text.keys, Run(text.first, env).rows)]
    ELSE LET known == FoldLeft(LAMBDA e, c : <<<<c.name, Run(c.query, e)>>>> \o e, env, text.with)
             from == Qualified(text.from.name,
                               IF text.from.is = "derived" THEN Run(text.from.query, known)
                               ELSE Known(known, text.from.name))
             joined == FoldLeft(LAMBDA rel, j :
                          Joined(rel, j.kind, Qualified(j.name, Known(known, j.name)), j.on),
                          from, text.joins)
         IN  Answer(joined, text)

\* A row as the object a driver makes of it.
RowObjects(rel) ==
    [i \in DOMAIN rel.rows |-> [key \in ToSet(rel.cols) |-> rel.rows[i][At(rel, key)]]]

\* decodeTemporalRow, by the keys of the metadata.
Handed(rows, metadata) ==
    [i \in DOMAIN rows |-> [key \in DOMAIN rows[i] |->
        IF <<key, "time">> \in metadata THEN Parsed(rows[i][key]) ELSE rows[i][key]]]

-----------------------------------------------------------------------------
(* What was composed: a source has the keys the program knows, and the rows of *)
(* set operations and recursive CTEs are matched by key                        *)

Arranged(rel, keys) ==
    [i \in DOMAIN rel.rows |-> [k \in DOMAIN keys |-> rel.rows[i][At(rel, keys[k])]]]

\* Times of a source other than a table are as the driver has them.
Untyped(rel) == [rel EXCEPT !.rows = [i \in DOMAIN @ |-> [k \in DOMAIN @[i] |-> Raw(@[i][k])]]]

RECURSIVE Meant(_, _)
RECURSIVE MeantClosure(_, _, _)
MeantClosure(query, env, found) ==
    IF found = <<>> THEN <<>>
    ELSE LET known == <<<<query.name, [cols |-> query.keys, rows |-> found]>>>> \o env
         IN  found \o MeantClosure(query, env, Arranged(Meant(query.other, known), query.keys))

Meant(query, env) ==
    IF query.is = "compound"
    THEN LET first == Meant(query.first, env)
         IN  [first EXCEPT !.rows = United(query.op, @,
                                           Arranged(Meant(query.other, env), first.cols))]
    ELSE IF query.is = "recursive"
    THEN [cols |-> query.keys,
          rows |-> MeantClosure(query, env, Arranged(Meant(query.first, env), query.keys))]
    ELSE LET source(s) == Qualified(s.name, IF s.is = "table" THEN Known(env, s.name)
                                            ELSE IF s.is = "self" THEN Untyped(Known(env, s.name))
                                            ELSE Untyped(Meant(s.query, env)))
             joined == FoldLeft(LAMBDA rel, j : Joined(rel, j.kind, source(j.table), j.on),
                                source(query.from), query.joins)
         IN  Answer(joined, query)

-----------------------------------------------------------------------------
(* Bounds *)

I(n) == V("int", n)
Time(n) == V("text", n)
Users == Table("users", <<Column("id", "id", "int"), Column("joined", "joined", "time")>>)
\* With and without a naming strategy; one whose names are each other's keys.
PostsNamed(author, at) ==
    Table("posts", <<Column("id", "id", "int"), Column("author", author, "int"),
                     Column("at", at, "time")>>)
Posts == {PostsNamed("author", "at"), PostsNamed("author_id", "created_at"),
          PostsNamed("at", "author")}
Nodes == Table("nodes", <<Column("id", "id", "int"), Column("parent", "parent_id", "int")>>)
Archive == Table("archive", <<Column("at", "created_at", "time"), Column("id", "id", "int"),
                              Column("who", "author", "int")>>)

Contents(table) ==
    CASE table.name = "users" -> <<<<I(1), Time(5)>>, <<I(2), Time(6)>>, <<I(3), Time(8)>>>>
      [] table.name = "posts" -> <<<<I(1), I(2), Time(8)>>, <<I(2), I(1), Time(7)>>,
                                   <<I(3), I(2), Time(9)>>, <<I(4), I(9), Time(7)>>>>
      [] table.name = "nodes" -> <<<<I(1), I(0)>>, <<I(2), I(1)>>, <<I(3), I(2)>>, <<I(4), I(0)>>>>
      [] OTHER -> <<>>

TablesWith(posts) == <<Users, posts, Nodes>>
\* The tables as the database has them, and as the program knows them.
Stored(posts) ==
    [i \in 1 .. 3 |-> LET t == TablesWith(posts)[i]
                      IN  <<t.name, [cols |-> [k \in DOMAIN t.columns |-> t.columns[k].name],
                                     rows |-> Contents(t)]>>]
Seen(posts) ==
    [i \in 1 .. 3 |-> LET t == TablesWith(posts)[i]
                          rows == Contents(t)
                      IN  <<t.name, [cols |-> [k \in DOMAIN t.columns |-> t.columns[k].key],
                                     rows |-> [n \in DOMAIN rows |->
                                        [k \in DOMAIN rows[n] |-> Parsed(rows[n][k])]]]>>]

P(key) == <<"posts", key>>
Least(at, n) == <<[at |-> at, within |-> n .. 9]>>
ByKey(at, desc) == <<[at |-> at, desc |-> desc]>>
Lists == {<<Item(P("id"), "id"), Item(P("at"), "when")>>,
          <<Item(P("author"), "id"), Item(P("at"), "author"), Item(P("id"), "at")>>}

OfPosts(posts) ==
    {[Select(posts) EXCEPT !.list = list, !.where = where, !.order = order, !.limit = limit,
                           !.offset = IF limit = <<>> THEN 0 ELSE 1] :
        list \in Lists \cup {<<>>}, where \in {<<>>, Least(P("author"), 2)},
        order \in {<<>>, ByKey(P("at"), TRUE)}, limit \in {<<>>, <<2>>}}
    \cup {[Select(posts) EXCEPT !.list = <<Item(P("author"), "at")>>, !.distinct = d,
                                !.distinctOn = on, !.order = ByKey(P("author"), TRUE)] :
            d \in BOOLEAN, on \in {<<>>, <<P("author")>>}}
    \cup {[Select(posts) EXCEPT !.list = <<Item(Count, "author"), Item(P("author"), "n")>>,
                                !.group = <<P("author")>>, !.having = having,
                                !.order = ByKey(at, TRUE)] :
            having \in {<<>>, Least(Count, 2)}, at \in {Count, P("author")}}

Joins(posts) ==
    {[Select(posts) EXCEPT
        !.list = <<Item(<<"users", "id">>, "author"), Item(P("at"), "joined"),
                   Item(<<"users", "joined">>, "at")>>,
        !.joins = <<[kind |-> kind, table |-> Users, on |-> <<P("author"), <<"users", "id">>>>]>>,
        !.where = where] :
        kind \in {"inner", "left", "right", "full"}, where \in {<<>>, Least(P("id"), 3)}}

\* Queries over a query, as a derived table or a CTE, and over that over again.
Over(source) ==
    LET keys == [k \in DOMAIN ColumnsOf(source) |-> ColumnsOf(source)[k].key]
        at(k) == <<source.name, keys[k]>>
        last == at(Len(keys))
        list == [k \in DOMAIN keys |-> Item(at(k), keys[Len(keys) + 1 - k])]
        query(s) == [Select(s) EXCEPT !.order = ByKey(last, FALSE), !.list = list]
    IN  {Select(source), query(source), [query(source) EXCEPT !.where = Least(last, 8)]}
Nested(queries) ==
    UNION {Over(Derived("latest", q)) : q \in queries}
    \cup UNION {{[q EXCEPT !.with = <<Cte("recent", inner)>>] : q \in Over(Cte("recent", inner))} :
                  inner \in queries}

\* The nodes below each root, declared in the order of the body's keys.
Below ==
    LET keys == <<"id", "root">>
        self == Self("below", keys)
    IN  Recursive("below", keys,
            [Select(Nodes) EXCEPT !.where = <<[at |-> <<"nodes", "parent">>, within |-> {0}]>>,
                !.list = <<Item(<<"nodes", "id">>, "id"), Item(<<"nodes", "id">>, "root")>>],
            [Select(self) EXCEPT
                !.joins = <<[kind |-> "inner", table |-> Nodes,
                             on |-> <<<<"below", "id">>, <<"nodes", "parent">>>>]>>,
                !.list = <<Item(<<"nodes", "id">>, "id"), Item(<<"below", "root">>, "root")>>])
Recursions == {[q EXCEPT !.with = <<Cte("below", Below)>>] : q \in Over(Cte("below", Below))}

\* Operands have neither an order nor a limit of their own, and the same keys in
\* the same order.
Compounds(posts) ==
    LET operand(at, n) == [Select(posts) EXCEPT !.where = Least(at, n),
                                                !.list = <<Item(P("id"), "at"), Item(P("author"), "id")>>]
    IN  {Compound(operand(P("id"), 2), op, operand(P("author"), 2)) : op \in {"union", "union all"}}

SelectSamples ==
    UNION {LET flat == OfPosts(posts)
               plain == {q \in flat : q.list # <<>> /\ q.distinctOn = <<>>}
               queries == flat \cup Joins(posts) \cup Nested(plain) \cup Recursions
                          \cup Compounds(posts)
                          \cup Nested({q \in Nested(plain) : q.list # <<>> /\ q.where # <<>>})
           IN  [posts : {posts}, query : queries
                    \cup {Select(Derived("both", q)) : q \in Compounds(posts)}] : posts \in Posts}

\* The rows a select hands back have the keys and the values that were composed,
\* whatever the tables' columns are called, through derived tables, CTEs and
\* recursive ones; and times are decoded where a column of a table says so.
RowsMeant(s) ==
    LET meant == Meant(s.query, Seen(s.posts))
    IN  Handed(RowObjects(Run(ToSql(s.query), Stored(s.posts))), SelectResultMetadata(s.query))
        = RowObjects(IF s.query.is = "compound" THEN Untyped(meant) ELSE meant)

\* A row that is inserted from a query has in every column what the query has under
\* the column's key.
InsertMeant(s) ==
    LET query == [s.query EXCEPT !.list = [k \in DOMAIN @ |->
                    [@[k] EXCEPT !.as = CASE @ = "when" -> "at" [] @ = "author" -> "who" [] OTHER -> @]]]
        columns == InsertSelectColumns(Archive, query)
        rows == Run(ToSql(query), Stored(s.posts)).rows
        meant == RowObjects(Untyped(Meant(query, Seen(s.posts))))
    IN  s.query.is = "select" /\ s.query.from.is = "table" /\ ~InsertRefused(Archive, query) =>
            \A i \in DOMAIN rows, c \in ToSet(Archive.columns) :
                c.key \in ToSet(ColumnKeys(query)) =>
                    rows[i][CHOOSE k \in DOMAIN columns : columns[k] = c.name] = meant[i][c.key]

SelectsMean(s) == RowsMeant(s) /\ InsertMeant(s)
=============================================================================
