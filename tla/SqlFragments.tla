---------------------------- MODULE SqlFragments ----------------------------
(***************************************************************************)
(* SQL fragments (packages/core/src/sql.ts): immutable lists of chunks     *)
(* that are rendered, per dialect, into text with parameter markers and    *)
(* the list of parameters; the conditions of packages/core/src/operators   *)
(* .ts built from them, what they mean and small ones to compare; and, as  *)
(* the reference, how an SQL engine reads the text that is sent to it.     *)
(*                                                                         *)
(* Text is a sequence of tokens; a token is a record with its kind.  Truth *)
(* values are those of SQL: 0 false, 1 unknown, 2 true.                    *)
(***************************************************************************)
EXTENDS Integers, FiniteSets, Sequences, SequencesExt

Null == 0  \* column values are positive integers

\* Chunks: a word of text, a column, a value, a placeholder, a fragment, a
\* guard, and a fragment per dialect.
Word(w) == <<[kind |-> "text", word |-> w]>>
Ident(c) == <<[kind |-> "ident", name |-> c]>>
Param(v) == <<[kind |-> "param", value |-> v]>>
Placeholder(n) == <<[kind |-> "placeholder", name |-> n]>>
Nested(frag) == <<[kind |-> "sql", frag |-> frag]>>
Guard(unsupported) == <<[kind |-> "guard", unsupported |-> unsupported]>>
PerDialect(variants) == <<[kind |-> "dialect", variants |-> variants]>>

\* joinSql: the items, with the separator between them.
JoinSql(items, separator) ==
    FlattenSeq([i \in 1 .. Len(items) |->
        (IF i > 1 THEN Nested(separator) ELSE <<>>) \o Nested(items[i])])

Parenthesized(frag) == Word("(") \o Nested(frag) \o Word(")")

-----------------------------------------------------------------------------
(* Rendering *)

\* A guard throws unless its dialects are others; an exception to it that
\* asks for a version needs a version that is known.
GuardApplies(guard, identity) ==
    /\ \E t \in guard.targets :
          /\ t.dialect = identity.dialect
          /\ t.variant \in {"any", identity.variant}
    /\ ~ \E e \in guard.unless :
          /\ e.variant \in {"any", identity.variant}
          /\ e.base => identity.variant = "none"
          /\ e.minVersion > 0 => identity.version >= e.minVersion

\* Broken variant: every marker of PostgreSQL is the first.
SameMarker(identity, count) ==
    IF identity.dialect = "postgres" THEN [kind |-> "mark", at |-> 1]
                                     ELSE [kind |-> "mark", at |-> 0]

\* `$N` on PostgreSQL, `?` (which has no number: 0) elsewhere.
PositionalMarker(identity, count) ==
    [kind |-> "mark",
     at |-> IF identity.dialect = "postgres" THEN count ELSE 0]

Throw == <<[kind |-> "throw"]>>

RECURSIVE RenderInto(_, _)
\* renderSqlInto: a nested fragment and the variant of the dialect are rendered
\* in their place.
RenderChunk(chunk, identity) ==
    CASE chunk.kind = "guard" ->
            IF GuardApplies(chunk.unsupported, identity) THEN Throw ELSE <<>>
      [] chunk.kind = "dialect" ->
            IF identity.dialect \in DOMAIN chunk.variants
            THEN RenderInto(chunk.variants[identity.dialect], identity)
            ELSE Throw
      [] chunk.kind = "sql" -> RenderInto(chunk.frag, identity)
      [] OTHER -> <<chunk>>
RenderInto(frag, identity) ==
    FlattenSeq([i \in DOMAIN frag |-> RenderChunk(frag[i], identity)])

IsParam(chunk) == chunk.kind \in {"param", "placeholder"}

\* The text, with a marker for every parameter, and the parameters in turn.
RenderToPlan(frag, identity) ==
    LET chunks == RenderInto(frag, identity)
        count(i) == Cardinality({j \in 1 .. i : IsParam(chunks[j])})
    IN  [text   |-> [i \in DOMAIN chunks |->
                        IF IsParam(chunks[i])
                        THEN PositionalMarker(identity, count(i)) ELSE chunks[i]],
         params |-> SelectSeq(chunks, IsParam),
         thrown |-> Throw[1] \in Range(chunks)]

\* The values of a run of the prepared plan; a placeholder needs one.
FillPreparedPlan(plan, values) ==
    [i \in DOMAIN plan.params |->
        IF plan.params[i].kind = "param" THEN plan.params[i].value
                                         ELSE values[plan.params[i].name]]

-----------------------------------------------------------------------------
(* Conditions *)

BinaryCondition(col, op, operand) == Ident(col) \o Word(op) \o Nested(operand)

BetweenCondition(col, min, max, negated) ==
    Ident(col) \o Word(IF negated THEN "not between" ELSE "between")
        \o Nested(min) \o Word("and") \o Nested(max)

\* IN (); is no SQL: an empty list is a constant.
InArrayCondition(col, operands, negated) ==
    IF operands = <<>>
    THEN Word("1") \o Word("=") \o Word(IF negated THEN "1" ELSE "0")
    ELSE Ident(col) \o Word(IF negated THEN "not in" ELSE "in")
            \o Word("(") \o JoinSql(operands, Word(",")) \o Word(")")

IsNullCondition(col, negated) ==
    Ident(col) \o Word(IF negated THEN "is not null" ELSE "is null")

Not(cond) == Word("not") \o Parenthesized(cond)

\* Broken variant: the parts are not put in parentheses.
CombineBare(op, conds) ==
    IF Len(conds) = 1 THEN conds[1] ELSE JoinSql(conds, Word(op))

\* One condition stays as it is; several are parenthesized and joined.
CombineConditions(op, conds) ==
    IF Len(conds) = 1 THEN conds[1]
    ELSE JoinSql([i \in DOMAIN conds |-> Parenthesized(conds[i])], Word(op))

\* expandedKeysetSql: (a > x) or (a = x and b < y) or ...
ExpandedKeyset(terms, operands) ==
    JoinSql([i \in DOMAIN terms |->
                Parenthesized(JoinSql(
                    [j \in 1 .. i |->
                        BinaryCondition(terms[j].column,
                            IF j < i THEN "="
                            ELSE IF terms[j].direction = "desc" THEN "<"
                            ELSE ">", operands[j])],
                    Word("and")))],
            Word("or"))

\* rowValueKeysetSql: (a, b) > (x, y), in one direction.
RowValueKeyset(terms, operands) ==
    Word("(") \o JoinSql([i \in DOMAIN terms |-> Ident(terms[i].column)],
                         Word(","))
        \o Word(")")
        \o Word(IF terms[1].direction = "desc" THEN "<" ELSE ">")
        \o Word("(") \o JoinSql(operands, Word(",")) \o Word(")")

-----------------------------------------------------------------------------
(* How the engine reads the text: OR binds weaker than AND, AND weaker than *)
(* NOT, and a parenthesis is matched.  Between's AND is not a connective.   *)

Is(tok, w) == tok.kind = "text" /\ tok.word = w
SqlAnd(vs) == CHOOSE v \in vs : \A w \in vs : v <= w
SqlOr(vs) == CHOOSE v \in vs : \A w \in vs : v >= w
Truth(b) == IF b THEN 2 ELSE 0
Compare(op, x, y) ==
    IF Null \in {x, y} THEN 1
    ELSE Truth(CASE op = "=" -> x = y [] op = "<>" -> x # y
                 [] op = "<" -> x < y [] op = ">" -> x > y
                 [] op = "<=" -> x <= y [] op = ">=" -> x >= y)

\* How deep position i of the text is inside parentheses.
Depth(text, i) ==
    Cardinality({j \in 1 .. i - 1 : Is(text[j], "(")})
        - Cardinality({j \in 1 .. i : Is(text[j], ")")})

\* A lexicographic comparison of rows of values.
RECURSIVE CompareRows(_, _, _)
CompareRows(op, xs, ys) ==
    IF Len(xs) = 1 THEN Compare(op, xs[1], ys[1])
    ELSE SqlOr({Compare(op, xs[1], ys[1]),
                SqlAnd({Compare("=", xs[1], ys[1]),
                        CompareRows(op, Tail(xs), Tail(ys))})})

\* Positions of a word outside parentheses.
Tops(text, ws) ==
    {i \in DOMAIN text : /\ text[i].kind = "text"
                         /\ text[i].word \in ws
                         /\ Depth(text, i) = 0}

\* The first AND after a BETWEEN belongs to it.
Connectives(text, w) ==
    LET ands == Tops(text, {"and"})
        of(b) == CHOOSE i \in ands : i > b /\ \A j \in ands : j > b => i <= j
    IN  Tops(text, {w}) \ (IF w = "and"
            THEN {of(b) : b \in Tops(text, {"between", "not between"})}
            ELSE {})

\* The parts of a text between the positions of a separator.
Pieces(text, at) ==
    LET ends == SetToSortSeq(at \cup {0, Len(text) + 1}, <)
    IN  [i \in 1 .. Len(ends) - 1 |->
            SubSeq(text, ends[i] + 1, ends[i + 1] - 1)]

\* The operands of a comparison: one, or a parenthesized list.
Operands(text) ==
    IF Is(Head(text), "(")
    THEN LET inner == SubSeq(text, 2, Len(text) - 1)
         IN  Pieces(inner, Tops(inner, {","}))
    ELSE <<text>>

Comparisons == {"=", "<>", "<", ">", "<=", ">=", "in", "not in", "between",
                "not between", "is null", "is not null"}

RECURSIVE Truth3(_, _)
\* The value of a text whose markers are bound already, on a row.
Truth3(text, row) ==
    LET ors == Connectives(text, "or")
        ands == Connectives(text, "and")
        ops == Tops(text, Comparisons)
        value(t) == IF t[1].kind = "ident" THEN row[t[1].name]
                    ELSE IF t[1].kind = "value" THEN t[1].value
                    ELSE IF Is(t[1], "1") THEN 1 ELSE 2
        values(t) == LET parts == Operands(t)
                     IN  [i \in DOMAIN parts |-> value(parts[i])]
    IN  IF ors # {} THEN SqlOr({Truth3(p, row) : p \in Range(Pieces(text, ors))})
        ELSE IF ands # {}
        THEN SqlAnd({Truth3(p, row) : p \in Range(Pieces(text, ands))})
        ELSE IF Is(text[1], "not") THEN 2 - Truth3(Tail(text), row)
        ELSE IF ops = {} THEN Truth3(SubSeq(text, 2, Len(text) - 1), row)
        ELSE LET at == CHOOSE i \in ops : TRUE
                 op == text[at].word
                 left == values(SubSeq(text, 1, at - 1))
                 rest == SubSeq(text, at + 1, Len(text))
                 among == SqlOr({Compare("=", left[1], v) :
                                    v \in Range(values(rest))})
                 ends == Pieces(rest, Tops(rest, {"and"}))
                 within == SqlAnd({Compare(">=", left[1], value(ends[1])),
                                   Compare("<=", left[1], value(ends[2]))})
             IN  CASE op = "is null" -> Truth(left[1] = Null)
                   [] op = "is not null" -> Truth(left[1] # Null)
                   [] op = "in" -> among
                   [] op = "not in" -> 2 - among
                   [] op = "between" -> within
                   [] op = "not between" -> 2 - within
                   [] OTHER -> CompareRows(op, left, values(rest))

\* The markers of a text replaced by the values they stand for: `$N` is the
\* N-th value, the N-th `?` too.
Bound(text, params) ==
    [i \in DOMAIN text |->
        IF text[i].kind # "mark" THEN text[i]
        ELSE [kind |-> "value",
              value |-> params[
                  IF text[i].at > 0 THEN text[i].at
                  ELSE Cardinality({j \in 1 .. i : text[j].kind = "mark"})]]]

\* What the engine finds for a row, given the text and parameters it is sent.
Engine(frag, identity, values, row) ==
    LET plan == RenderToPlan(frag, identity)
    IN  Truth3(Bound(plan.text, FillPreparedPlan(plan, values)), row)

-----------------------------------------------------------------------------
(* What a composed condition of packages/core/src/operators.ts means, and   *)
(* the small conditions on which its rendering is compared with that.       *)

\* How a program composes a condition: the calls it makes.
Val(v) == [by |-> "value", value |-> v]
Named(n) == [by |-> "placeholder", name |-> n]

OperandSql(o) == IF o.by = "value" THEN Param(o.value) ELSE Placeholder(o.name)
OperandsSql(os) == [i \in DOMAIN os |-> OperandSql(os[i])]

RECURSIVE Compose(_)
Compose(c) ==
    CASE c.call = "compare" -> BinaryCondition(c.col, c.op, OperandSql(c.with))
      [] c.call = "between" -> BetweenCondition(c.col, OperandSql(c.min),
                                                OperandSql(c.max), c.negated)
      [] c.call = "inArray" -> InArrayCondition(c.col, OperandsSql(c.values),
                                                c.negated)
      [] c.call = "isNull" -> IsNullCondition(c.col, c.negated)
      [] c.call = "keyset" -> ExpandedKeyset(c.terms, OperandsSql(c.after))
      [] c.call = "rowValue" -> RowValueKeyset(c.terms, OperandsSql(c.after))
      [] c.call = "perDialect" -> PerDialect([d \in DOMAIN c.forms |->
                                                 Compose(c.forms[d])])
      [] c.call = "not" -> Not(Compose(c.of[1]))
      [] c.call \in {"and", "or"} ->
             CombineConditions(c.call, [i \in DOMAIN c.of |-> Compose(c.of[i])])

\* The value of an operand, a placeholder's is supplied with the run.
Value(o, values) == IF o.by = "value" THEN o.value ELSE values[o.name]

\* The rows that come after a cursor: by the first term they differ in.
ComesAfter(terms, after, row) ==
    SqlOr({SqlAnd(
        {Compare(IF terms[i].direction = "desc" THEN "<" ELSE ">",
                 row[terms[i].column], after[i])}
        \cup {Compare("=", row[terms[j].column], after[j]) : j \in 1 .. i - 1})
        : i \in DOMAIN terms})

RECURSIVE Meaning(_, _, _, _)
Meaning(c, dialect, values, row) ==
    CASE c.call = "compare" ->
            Compare(c.op, row[c.col], Value(c.with, values))
      [] c.call = "between" ->
            LET within == SqlAnd(
                    {Compare(">=", row[c.col], Value(c.min, values)),
                     Compare("<=", row[c.col], Value(c.max, values))})
            IN  IF c.negated THEN 2 - within ELSE within
      [] c.call = "inArray" ->
            LET among == SqlOr({0} \cup
                    {Compare("=", row[c.col], Value(c.values[i], values)) :
                        i \in DOMAIN c.values})
            IN  IF c.negated THEN 2 - among ELSE among
      [] c.call = "isNull" -> Truth((row[c.col] = Null) # c.negated)
      [] c.call \in {"keyset", "rowValue"} ->
            ComesAfter(c.terms, [i \in DOMAIN c.after |->
                                    Value(c.after[i], values)], row)
      [] c.call = "perDialect" -> Meaning(c.forms[dialect], dialect, values, row)
      [] c.call = "not" -> 2 - Meaning(c.of[1], dialect, values, row)
      [] c.call = "and" -> SqlAnd({Meaning(c.of[i], dialect, values, row) :
                                      i \in DOMAIN c.of})
      [] c.call = "or" -> SqlOr({Meaning(c.of[i], dialect, values, row) :
                                    i \in DOMAIN c.of})

-----------------------------------------------------------------------------
(* Bounds: the conditions, the rows, the engines. *)

Cmp(col, op, o) == [call |-> "compare", col |-> col, op |-> op, with |-> o]
In(col, os, negated) ==
    [call |-> "inArray", col |-> col, values |-> os, negated |-> negated]
Both(x, y) == [call |-> "and", of |-> <<x, y>>]
Either(x, y) == [call |-> "or", of |-> <<x, y>>]
Neither(x) == [call |-> "not", of |-> <<x>>]
Terms(dir1, dir2) == <<[column |-> "a", direction |-> dir1],
                       [column |-> "b", direction |-> dir2]>>

Simple ==
    {Cmp("a", ">", Val(1)), Cmp("b", "=", Named("p")), Cmp("a", "<>", Val(Null)),
     [call |-> "between", col |-> "a", min |-> Val(1), max |-> Named("p"),
      negated |-> FALSE],
     [call |-> "isNull", col |-> "b", negated |-> TRUE]}

Lists ==
    {In("a", <<Val(1), Named("p")>>, FALSE), In("b", <<Val(2), Val(Null)>>, TRUE),
     In("a", <<>>, FALSE), In("b", <<>>, TRUE)}

\* Forms with different numbers of parameters, and one read twice.
OfDialect ==
    [call |-> "perDialect",
     forms |-> [postgres |-> In("a", <<Val(2), Named("p"), Val(1)>>, TRUE),
                mysql |-> Cmp("b", "<=", Named("p"))]]

Keysets ==
    {[call |-> "keyset", terms |-> Terms(d1, d2), after |-> <<Val(2), Named("p")>>] :
        d1 \in {"asc", "desc"}, d2 \in {"asc", "desc"}}
    \cup {[call |-> "rowValue", terms |-> Terms(d, d),
           after |-> <<Named("p"), Val(1)>>] : d \in {"asc", "desc"}}

Leaves == Simple \cup Lists \cup Keysets \cup {OfDialect}
Pairs == {Both(x, y) : x \in Leaves, y \in Leaves}
            \cup {Either(x, y) : x \in Leaves, y \in Leaves}
Few == {Cmp("a", ">", Val(1)), Cmp("b", "=", Named("p")), OfDialect}
            \cup {k \in Keysets : k.terms = Terms("desc", "asc")}
Nestings ==
    {[call |-> op, of |-> <<inner, z>>] :
        op \in {"and", "or"},
        inner \in {Both(x, y) : x \in Few, y \in Few}
                  \cup {Either(x, y) : x \in Few, y \in Few}
                  \cup {Neither(Either(x, y)) : x \in Few, y \in Few},
        z \in Few}

ConditionSamples == Leaves \cup {Neither(x) : x \in Leaves} \cup Pairs
                    \cup Nestings

ConditionRows == [{"a", "b"} -> 0 .. 3]
Engines == {[dialect |-> d, variant |-> "none", version |-> 0] :
               d \in {"postgres", "mysql"}}

\* The text and parameters of a condition mean what was composed, on every
\* row, with NULLs, on numbered and on positional markers, and for every run
\* of a prepared plan.
RenderedMeans(c) ==
    LET frag == Compose(c)
    IN  \A e \in Engines :
            LET plan == RenderToPlan(frag, e)
            IN  \A p \in {Null, 2} :
                    LET values == [n \in {"p"} |-> p]
                        text == Bound(plan.text, FillPreparedPlan(plan, values))
                    IN  \A row \in ConditionRows :
                            Truth3(text, row) =
                                Meaning(c, e.dialect, values, row)
=============================================================================
