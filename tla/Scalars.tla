------------------------------- MODULE Scalars -------------------------------
(***************************************************************************)
(* Aggregates, conditional aggregates, coalesce, greatest and least of     *)
(* packages/core/src/operators.ts, as each dialect renders them, evaluated *)
(* over rows with NULLs.                                                   *)
(***************************************************************************)
EXTENDS Integers, Sequences, FiniteSetsExt

Null == -1000  \* no value, and no sum of some

\* An aggregate with what is known of it: count(*) has no operand.
Aggregate(name, operand) == [name |-> name, operand |-> operand, distinct |-> FALSE]
Distinct(operand) == [Aggregate("count", operand) EXCEPT !.distinct = TRUE]

Aggregates ==
    {Aggregate("count", "*"), Distinct("v")}
    \cup {Aggregate(name, "v") : name \in {"count", "sum", "avg", "min", "max"}}

\* Broken variant: rows that do not match count as zero.
FilterElse(aggregate, dialect) ==
    IF dialect # "mysql" THEN [form |-> "where", else |-> Null, then |-> aggregate.operand]
    ELSE [form |-> "case", else |-> 0,
          then |-> IF aggregate.operand = "*" THEN "1" ELSE aggregate.operand]

\* filter (where condition), or the aggregate of a case that gives NULL to rows
\* that do not match; count(*) counts ones.
Filter(aggregate, dialect) ==
    IF dialect # "mysql" THEN [form |-> "where", else |-> Null, then |-> aggregate.operand]
    ELSE [form |-> "case", else |-> Null,
          then |-> IF aggregate.operand = "*" THEN "1" ELSE aggregate.operand]

\* Broken variant: one operand will do.
ExtremumOfAny(construct, count, dialect) ==
    IF dialect # "sqlite" THEN construct ELSE [greatest |-> "max", least |-> "min"][construct]

\* SQLite spells them max and min, which of one operand are aggregates.
Extremum(construct, count, dialect) ==
    IF count < 2 THEN "refused"
    ELSE IF dialect # "sqlite" THEN construct
    ELSE [greatest |-> "max", least |-> "min"][construct]

Coalesce(values) ==
    IF \A i \in DOMAIN values : values[i] = Null THEN Null
    ELSE values[CHOOSE i \in DOMAIN values :
                   values[i] # Null /\ \A j \in 1 .. i - 1 : values[j] = Null]

-----------------------------------------------------------------------------
(* How the engines evaluate them: a row has a value and whether it matches, *)
(* which may be unknown.                                                    *)

OperandOf(operand, row) == IF operand \in {"*", "1"} THEN 1 ELSE row.v

\* What the aggregate is given, a value per row; `*` is never NULL.
Given(filter, rows) ==
    IF filter.form = "where"
    THEN LET kept == SelectSeq(rows, LAMBDA row : row.matches = "yes")
         IN  [i \in DOMAIN kept |-> OperandOf(filter.then, kept[i])]
    ELSE [i \in DOMAIN rows |-> IF rows[i].matches = "yes"
                                THEN OperandOf(filter.then, rows[i]) ELSE filter.else]

TotalOf(values) ==
    LET Sum[i \in 0 .. Len(values)] == IF i = 0 THEN 0 ELSE Sum[i - 1] + values[i]
    IN  Sum[Len(values)]

\* A value, and what it is divided by.
Evaluate(aggregate, values) ==
    LET present == SelectSeq(values, LAMBDA v : v # Null)
        all == {present[i] : i \in DOMAIN present}
        name == aggregate.name
    IN  CASE name = "count" ->
                <<IF aggregate.distinct THEN Cardinality(all) ELSE Len(present), 1>>
          [] all = {} /\ name # "count" -> <<Null, 1>>
          [] name = "sum" -> <<TotalOf(present), 1>>
          [] name = "avg" -> <<TotalOf(present), Len(present)>>
          [] name = "min" -> <<Min(all), 1>>
          [] name = "max" -> <<Max(all), 1>>

\* PostgreSQL passes over NULLs; the others are NULL with any.
Chosen(function, values, dialect) ==
    LET present == {values[i] : i \in DOMAIN values} \ {Null}
    IN  IF present = {} \/ (dialect # "postgres" /\ Null \in {values[i] : i \in DOMAIN values})
        THEN Null
        ELSE IF function \in {"greatest", "max"} THEN Max(present) ELSE Min(present)

-----------------------------------------------------------------------------
(* Bounds *)

Values == {Null, 0, 2, 5}
ScalarRows == [v : Values, matches : {"yes", "no", "unknown"}]

ScalarSamples ==
    [rows : {<<>>} \cup {<<a, b, c>> : a, b \in ScalarRows, c \in {[v |-> 2, matches |-> "yes"],
                                                                [v |-> -3, matches |-> "no"]}}]
    \cup [operands : UNION {[1 .. n -> Values] : n \in 1 .. 3}]

Dialects == {"postgres", "mysql", "sqlite"}

\* A conditional aggregate is, on every dialect, the aggregate of the rows that
\* match; and the greatest and the least of operands that cannot be NULL are that
\* of them, of at least two.
ScalarsMean(s) ==
    \A dialect \in Dialects :
        IF "rows" \in DOMAIN s
        THEN LET kept == SelectSeq(s.rows, LAMBDA row : row.matches = "yes")
             IN  \A aggregate \in Aggregates :
                    Evaluate(aggregate, Given(Filter(aggregate, dialect), s.rows))
                    = Evaluate(aggregate, [i \in DOMAIN kept |-> OperandOf(aggregate.operand, kept[i])])
        ELSE LET count == Len(s.operands)
                 operands == [i \in 1 .. count |-> Coalesce(<<s.operands[i], Null, 1>>)]
                 all == {operands[i] : i \in 1 .. count}
                 chosen(construct) == Chosen(Extremum(construct, count, dialect), operands, dialect)
             IN  IF count < 2
                 THEN \A construct \in {"greatest", "least"} :
                         Extremum(construct, count, dialect) = "refused"
                 ELSE /\ chosen("greatest") \in all /\ \A v \in all : v <= chosen("greatest")
                      /\ chosen("least") \in all /\ \A v \in all : chosen("least") <= v
=============================================================================
