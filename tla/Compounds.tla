----------------------------- MODULE Compounds ------------------------------
(***************************************************************************)
(* Set operations of the select builders (packages/orm/src/core/builders   *)
(* .ts): what a chain of union, intersect and except renders, without any  *)
(* parentheses, and what an engine makes of that text.                     *)
(*                                                                         *)
(* A query is a select, that finds a set of rows, or a compound of two.    *)
(***************************************************************************)
EXTENDS Integers, Sequences, SequencesExt, FiniteSetsExt

Select(rows) == [is |-> "select", rows |-> rows]
Compound(first, op, other) ==
    [is |-> "compound", first |-> first, op |-> op, other |-> other]

RECURSIVE ToText(_)
\* toSql: the operands and the operators between them, in a row.
ToText(q) ==
    IF q.is = "select" THEN <<q.rows>>
    ELSE ToText(q.first) \o <<q.op>> \o ToText(q.other)

Apply(op, left, right) ==
    CASE op = "union" -> left \cup right
      [] op = "intersect" -> left \cap right
      [] op = "except" -> left \ right

RECURSIVE Composed(_)
\* What was composed: the operation, on what the query found and the other.
Composed(q) ==
    IF q.is = "select" THEN q.rows
    ELSE Apply(q.op, Composed(q.first), Composed(q.other))

-----------------------------------------------------------------------------
(* How the engines read the text *)

\* SQLite: the operators in turn.
InTurn(text) ==
    FoldLeft(LAMBDA rows, i : Apply(text[2 * i], rows, text[2 * i + 1]),
             text[1], [i \in 1 .. Len(text) \div 2 |-> i])

\* Standard SQL: INTERSECT first, then the others in turn.
Intersections(text) ==
    LET cuts == {0, Len(text) + 1}
                \cup {i \in DOMAIN text : i % 2 = 0 /\ text[i] # "intersect"}
        ends == SetToSortSeq(cuts, <)
        piece(i) == SubSeq(text, ends[i] + 1, ends[i + 1] - 1)
        op(i) == IF i > 1 THEN <<text[ends[i]]>> ELSE <<>>
    IN  FlattenSeq([i \in 1 .. Len(ends) - 1 |-> op(i) \o <<InTurn(piece(i))>>])
Standard(text) == InTurn(Intersections(text))

-----------------------------------------------------------------------------
(* Bounds *)

Ops == {"union", "intersect", "except"}
Selects == {Select({1, 2}), Select({2, 3}), Select({1, 2, 3}), Select({})}
Twice == {Compound(x, op, y) : x \in Selects, op \in Ops, y \in Selects}
Chains == Twice \cup {Compound(x, op, y) : x \in Twice, op \in Ops, y \in Selects}
Nestings == {Compound(x, op, y) : x \in Selects, op \in Ops, y \in Twice}

\* An intersect that follows no other operation.
IntersectsFirst(q) ==
    LET text == ToText(q)
    IN  \A i, j \in DOMAIN text :
            i < j /\ i % 2 = 0 /\ j % 2 = 0 /\ text[j] = "intersect"
                => text[i] = "intersect"

\* A chain of operations on selects finds what was composed, on every engine,
\* as long as no intersect comes after a union or an except: there the engines
\* differ among themselves.
ChainMeans(q) ==
    IntersectsFirst(q) => Standard(ToText(q)) = Composed(q)
                          /\ InTurn(ToText(q)) = Composed(q)

\* An operation finds what was composed with any query as its operand: EXCEPT
\* finds the "rows in this but not the other" also when the other is itself a
\* union.
OperandMeans(q) == InTurn(ToText(q)) = Composed(q)
=============================================================================
