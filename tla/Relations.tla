----------------------------- MODULE Relations ------------------------------
(***************************************************************************)
(* Relational queries (packages/orm/src/core/relations.ts): findMany loads *)
(* the rows of a table with one statement, and the rows of every relation  *)
(* it was asked for with one more, by the keys of the rows found, and      *)
(* groups them under their parents.                                        *)
(*                                                                         *)
(* A statement sees the database as it is then: dbs has one per path, the  *)
(* names of the relations that lead to the statement.  Rows are functions  *)
(* of columns to integers, NULL is 0; a relation to one row is a tuple of  *)
(* one value or none.                                                      *)
(***************************************************************************)
EXTENDS Integers, Sequences, SequencesExt

\* The schema: columns, in order, what they reference, and the relations; one
\* that gives no columns has <<>>.
ColumnsOf == [users |-> <<"id", "org", "boss">>, posts |-> <<"id", "org", "author">>]
ColumnReferences == [posts |-> [author |-> <<"users", "id">>], users |-> <<>>]
RelationsOf ==
    [users |-> [posts |-> [mode |-> "many", to |-> "posts",
                           fields |-> <<>>, references |-> <<>>],
                boss  |-> [mode |-> "one", to |-> "users",
                           fields |-> <<"boss", "org">>,
                           references |-> <<"id", "org">>],
                mates |-> [mode |-> "many", to |-> "users",
                           fields |-> <<"org">>, references |-> <<"org">>]],
     posts |-> [author |-> [mode |-> "one", to |-> "users",
                            fields |-> <<>>, references |-> <<>>]]]

\* inferRelationColumns: the first column of one table that references the
\* other; of the relation's own table for one row, of the target for many.
InferColumns(table, relation) ==
    LET holder == IF relation.mode = "one" THEN table ELSE relation.to
        other == IF relation.mode = "one" THEN relation.to ELSE table
        candidates == SelectSeq(ColumnsOf[holder],
            LAMBDA c : /\ c \in DOMAIN ColumnReferences[holder]
                       /\ ColumnReferences[holder][c][1] = other)
        target == ColumnReferences[holder][candidates[1]][2]
    IN  IF relation.mode = "one"
        THEN [source |-> <<candidates[1]>>, target |-> <<target>>]
        ELSE [source |-> <<target>>, target |-> <<candidates[1]>>]

RelationColumns(table, relation) ==
    IF relation.fields # <<>>
    THEN [source |-> relation.fields, target |-> relation.references]
    ELSE InferColumns(table, relation)

-----------------------------------------------------------------------------
(* Loading *)

\* visibleRelationalColumnKeys: those asked for, else all that are not
\* excluded.
VisibleKeys(table, columns) ==
    LET included == {c \in DOMAIN columns : columns[c]}
    IN  IF included # {} THEN included
        ELSE {c \in Range(ColumnsOf[table]) : c \in DOMAIN columns => columns[c]}

Pick(row, keys) == [c \in keys |-> row[c]]
ValuesForKeys(row, keys) == [i \in DOMAIN keys |-> row[keys[i]]]
HasNullish(values) == \E i \in DOMAIN values : values[i] = 0

\* Broken variant: rows are grouped by the first column of their key.
FirstColumn(values) == <<values[1]>>

\* relationKey: every column of the key.
RelationKey(values) == values

\* What a statement finds: the rows that match, in the order asked for.
RowsFound(db, table, config, keys, among) ==
    LET matching == {r \in db[table] :
            /\ \A c \in DOMAIN config.where : r[c] = config.where[c]
            /\ keys # <<>> => ValuesForKeys(r, keys) \in among}
        sorted == SetToSortSeq(matching,
            LAMBDA r, s : IF config.desc THEN r["id"] > s["id"]
                          ELSE r["id"] < s["id"])
    IN  IF config.limit = 0 \/ Len(sorted) <= config.limit THEN sorted
        ELSE SubSeq(sorted, 1, config.limit)

RECURSIVE Load(_, _, _, _, _, _)

\* attachRelation: the children of all parents at once, none when no parent has
\* a key, grouped by key; a parent without a key has none.
Attach(dbs, path, table, name, config, parents) ==
    LET relation == RelationsOf[table][name]
        columns == RelationColumns(table, relation)
        keyOf(parent) == ValuesForKeys(parent.raw, columns.source)
        keys == {keyOf(parents[i]) : i \in DOMAIN parents}
        parentKeys == {k \in keys : ~HasNullish(k)}
        children == IF parentKeys = {} THEN <<>>
                    ELSE Load(dbs, Append(path, name), relation.to, config,
                              columns.target, parentKeys)
        group(parent) == SelectSeq(children,
            LAMBDA c : RelationKey(ValuesForKeys(c.raw, columns.target))
                           = RelationKey(keyOf(parent)))
        attached(parent) ==
            IF HasNullish(keyOf(parent)) THEN <<>>
            ELSE LET g == group(parent)
                     values == [i \in DOMAIN g |-> g[i].value]
                 IN  IF relation.mode = "many" \/ values = <<>> THEN values
                     ELSE <<values[1]>>
    IN  [i \in DOMAIN parents |-> attached(parents[i])]

\* loadRelationalRows: the columns that are visible, and those the relations
\* and the parents' grouping need.
Load(dbs, path, table, config, required, among) ==
    LET names == DOMAIN config.with
        sources == UNION {Range(RelationColumns(table,
                             RelationsOf[table][n]).source) : n \in names}
        visible == VisibleKeys(table, config.columns)
        queried == visible \cup Range(required) \cup sources
        rows == RowsFound(dbs[path], table, config, required, among)
        loaded == [i \in DOMAIN rows |->
            [raw |-> Pick(rows[i], queried), row |-> Pick(rows[i], visible)]]
        attached == [n \in names |->
            Attach(dbs, path, table, n, config.with[n], loaded)]
    IN  [i \in DOMAIN loaded |->
            [raw |-> loaded[i].raw,
             value |-> [row |-> loaded[i].row,
                        with |-> [n \in names |-> attached[n][i]]]]]

FindMany(dbs, table, config) ==
    LET loaded == Load(dbs, <<>>, table, config, <<>>, {})
    IN  [i \in DOMAIN loaded |-> loaded[i].value]

\* findFirst: the first row of what findMany finds.
FindFirst(dbs, table, config) == FindMany(dbs, table, [config EXCEPT !.limit = 1])

-----------------------------------------------------------------------------
(* What a relational query means: every row with the rows its key leads to. *)

RECURSIVE Joined(_, _, _, _, _)
Joined(dbs, path, table, config, match) ==
    LET keysOf == [n \in DOMAIN config.with |->
                      RelationColumns(table, RelationsOf[table][n])]
        found == SelectSeq(RowsFound(dbs[path], table, config, <<>>, {}),
            LAMBDA r : \A c \in DOMAIN match : match[c] # 0 /\ r[c] = match[c])
        related(row, n) ==
            LET relation == RelationsOf[table][n]
                all == Joined(dbs, Append(path, n), relation.to, config.with[n],
                    [c \in Range(keysOf[n].target) |->
                        row[keysOf[n].source[CHOOSE i \in DOMAIN keysOf[n].target :
                                                keysOf[n].target[i] = c]]])
            IN  IF relation.mode = "many" \/ all = <<>> THEN all ELSE <<all[1]>>
    IN  [i \in DOMAIN found |->
            [row  |-> Pick(found[i], VisibleKeys(table, config.columns)),
             with |-> [n \in DOMAIN config.with |-> related(found[i], n)]]]

-----------------------------------------------------------------------------
(* Bounds *)

User(id, org, boss) == [id |-> id, org |-> org, boss |-> boss]
Post(id, org, author) == [id |-> id, org |-> org, author |-> author]

\* Users of two organizations, a boss of another one, posts of nobody and of
\* somebody who is gone.
Users == {User(1, 1, 0), User(2, 1, 1), User(3, 2, 1), User(4, 2, 3)}
Posts == {Post(1, 1, 1), Post(2, 2, 1), Post(3, 1, 0), Post(4, 2, 3), Post(5, 1, 9)}
Full == [users |-> Users, posts |-> Posts]
Databases ==
    {Full, [Full EXCEPT !.users = {}], [Full EXCEPT !.posts = {Post(3, 1, 0)}],
     [Full EXCEPT !.users = @ \ {User(1, 1, 0)}],
     [Full EXCEPT !.users = (@ \ {User(2, 1, 1)}) \cup {User(2, 2, 3)}]}

Plain == [columns |-> <<>>, with |-> <<>>, where |-> <<>>, desc |-> FALSE, limit |-> 0]
Selections == {<<>>, [org |-> TRUE], [id |-> FALSE]}
Leaves == {[Plain EXCEPT !.columns = s, !.desc = d, !.where = w] :
              s \in Selections, d \in BOOLEAN, w \in {<<>>, [org |-> 1]}}
Inner == {[Plain EXCEPT !.columns = s, !.with = w] :
             s \in Selections,
             w \in {[boss |-> Plain], [posts |-> Plain],
                    [posts |-> [Plain EXCEPT !.columns = [org |-> TRUE]],
                     mates |-> Plain]}}
Configs ==
    {[table |-> "posts", config |-> [Plain EXCEPT !.with = [author |-> c], !.limit = l]] :
        c \in Leaves \cup Inner, l \in {0, 2}}
    \cup {[table |-> "users", config |-> [Plain EXCEPT
              !.columns = s, !.with = [boss |-> c, posts |-> d]]] :
             s \in Selections, c \in Leaves \cup Inner, d \in Leaves}

Paths == {<<>>} \cup {<<n>> : n \in {"author", "boss", "posts"}}
         \cup {<<n, m>> : n \in {"author", "boss"}, m \in {"boss", "posts", "mates"}}

\* One database, or a write after the first statement.
Histories == {[p \in Paths |-> d] : d \in Databases}
             \cup {[p \in Paths |-> IF p = <<>> THEN Full ELSE d] : d \in Databases}

RelationSamples == {[find |-> f, dbs |-> h] : f \in Configs, h \in Histories}

\* A relational query finds every row with exactly the rows that its key leads
\* to, as they were when their statement ran: also when the key is not among
\* the selected columns, has several columns, is NULL or leads nowhere.
RelationsMean(s) ==
    /\ FindMany(s.dbs, s.find.table, s.find.config)
           = Joined(s.dbs, <<>>, s.find.table, s.find.config, <<>>)
    /\ LET all == FindMany(s.dbs, s.find.table, s.find.config)
       IN  FindFirst(s.dbs, s.find.table, s.find.config)
               = IF all = <<>> THEN <<>> ELSE <<all[1]>>
=============================================================================
