----------------------------- MODULE Analytics ------------------------------
(***************************************************************************)
(* Analytical queries (packages/analytics/src/query.ts): dimensions,       *)
(* metrics and windowed metrics are declared by key, and compiled into one *)
(* grouped SELECT in which every windowed metric spells out the            *)
(* expressions of the keys it names.                                       *)
(*                                                                         *)
(* A query is what the builder has: maps of keys to expressions and to     *)
(* descriptors.  Source rows have columns post, day and votes.             *)
(***************************************************************************)
EXTENDS Integers, FiniteSets, FiniteSetsExt, Sequences, SequencesExt, TLC

Null == -1000  \* no number of votes, and no difference of two

Column(c) == [fn |-> "column", of |-> c]
Bucket(width) == [fn |-> "bucket", of |-> "day", width |-> width]
Sum == [fn |-> "sum", of |-> "votes"]
Count == [fn |-> "count", of |-> "votes"]

\* A descriptor: what it computes of a key, over which keys.
Windowed(fn, ref, offset, partitionBy, orderBy) ==
    [fn |-> fn, ref |-> ref, offset |-> offset,
     partitionBy |-> partitionBy, orderBy |-> orderBy]
Ascending(key) == <<[ref |-> key, direction |-> "asc"]>>
Descending(key) == <<[ref |-> key, direction |-> "desc"]>>

-----------------------------------------------------------------------------
(* The builder: each call yields a new query, or throws *)

Thrown == [thrown |-> TRUE]
Accepted(qs) == {q \in qs : ~q.thrown}

From == [thrown |-> FALSE, minVotes |-> 0, dims |-> <<>>, metrics |-> <<>>,
         windows |-> <<>>, order |-> <<>>, limit |-> 0]

Keys(q) == DOMAIN q.dims \cup DOMAIN q.metrics
Fresh(q, added) ==
    DOMAIN added \cap (Keys(q) \cup DOMAIN q.windows) = {}

Dimensions(q, added) ==
    IF Fresh(q, added) THEN [q EXCEPT !.dims = @ @@ added] ELSE Thrown
Metrics(q, added) ==
    IF Fresh(q, added) THEN [q EXCEPT !.metrics = @ @@ added] ELSE Thrown

\* The keys a descriptor names; a rank has no metric of its own.
Named(w) == Range(w.partitionBy) \cup {w.orderBy[i].ref : i \in DOMAIN w.orderBy}
            \cup {w.ref}

Windows(q, added) ==
    IF Fresh(q, added) /\ \A k \in DOMAIN added : Named(added[k]) \subseteq Keys(q)
    THEN [q EXCEPT !.windows = @ @@ added] ELSE Thrown

\* Broken variant: every dimension partitions, the time axis too.
OtherDimensionsAndTime(q, timeKey) == SetToSeq(DOMAIN q.dims)

\* By default a comparison is among the rows that differ in their time alone.
OtherDimensions(q, timeKey) == SetToSeq(DOMAIN q.dims \ {timeKey})

\* compareToPreviousWindow: along the one time bucket, unless told otherwise
\* (orderBy is a set of at most one key; partitionBy of one list, or none).
CompareToPreviousWindow(q, metric, orderBy, partitionBy) ==
    LET timeKeys == {k \in DOMAIN q.dims : q.dims[k].fn = "bucket"}
        axis == IF orderBy # {} THEN orderBy ELSE timeKeys
    IN  IF metric \notin DOMAIN q.metrics \/ Cardinality(axis) # 1
           \/ ~(axis \cup UNION {Range(p) : p \in partitionBy} \subseteq DOMAIN q.dims)
        THEN Thrown
        ELSE LET timeKey == CHOOSE k \in axis : TRUE
                 within == IF partitionBy # {} THEN CHOOSE p \in partitionBy : TRUE
                           ELSE OtherDimensions(q, timeKey)
                 like(fn) == Windowed(fn, metric, 1, within, Ascending(timeKey))
             IN  Windows(q, metric \o "Previous" :> like("lag")
                            @@ metric \o "Delta" :> like("delta"))

OrderBy(q, terms) == IF terms # <<>> THEN [q EXCEPT !.order = @ \o terms] ELSE Thrown
Limit(q, count) == IF count >= 1 THEN [q EXCEPT !.limit = count] ELSE Thrown

-----------------------------------------------------------------------------
(* toSql *)

Compiles(q) ==
    /\ Keys(q) \cup DOMAIN q.windows # {}
    /\ \A i \in DOMAIN q.order : q.order[i].ref \in Keys(q) \cup DOMAIN q.windows

ResolveOperand(q, key) ==
    IF key \in DOMAIN q.dims THEN q.dims[key] ELSE q.metrics[key]

\* Broken variant: so many rows before the current one.
MovingAvgFrameWide(count) == count

\* The frame of a moving average of `count` rows, the current one included.
MovingAvgFrame(count) == count - 1

Over(q, w) ==
    [fn |-> "over", call |-> w.fn, operand |-> ResolveOperand(q, w.ref),
     offset |-> IF w.fn = "moving-avg" THEN MovingAvgFrame(w.offset) ELSE w.offset,
     partitionBy |-> [i \in DOMAIN w.partitionBy |->
                        ResolveOperand(q, w.partitionBy[i])],
     orderBy |-> [i \in DOMAIN w.orderBy |->
                    [expr |-> ResolveOperand(q, w.orderBy[i].ref),
                     direction |-> w.orderBy[i].direction]]]

CompileWindowedMetric(q, w) ==
    IF w.fn = "delta"
    THEN [fn |-> "minus", left |-> ResolveOperand(q, w.ref),
          right |-> Over(q, [w EXCEPT !.fn = "lag"])]
    ELSE Over(q, w)

ToSql(q) ==
    [select  |-> q.dims @@ q.metrics
                 @@ [k \in DOMAIN q.windows |-> CompileWindowedMetric(q, q.windows[k])],
     where   |-> q.minVotes,
     groupBy |-> {q.dims[k] : k \in DOMAIN q.dims},
     orderBy |-> q.order, limit |-> q.limit]

-----------------------------------------------------------------------------
(* How an engine evaluates it: rows are filtered, grouped, aggregated, and  *)
(* only then do the windows range over the groups                           *)

Total(rows) == FoldSet(LAMBDA r, sum : sum + r.votes, 0, rows)

Aggregate(e, group) ==
    CASE e.fn = "column" -> (CHOOSE r \in group : TRUE)[e.of]
      [] e.fn = "bucket" -> (CHOOSE r \in group : TRUE)[e.of] \div e.width
      [] e.fn = "sum"    -> IF group = {} THEN Null ELSE Total(group)
      [] e.fn = "count"  -> Cardinality(group)

\* The first term in which two differ decides which comes before.
Precedes(terms, value1(_), value2(_)) ==
    \E i \in DOMAIN terms :
        /\ \A j \in 1 .. i - 1 : value1(terms[j]) = value2(terms[j])
        /\ IF terms[i].direction = "asc" THEN value1(terms[i]) < value2(terms[i])
                                         ELSE value2(terms[i]) < value1(terms[i])

\* Of numbers: their sum and count, for the average; missing ones are skipped.
SumAndCount(values) ==
    LET known == SelectSeq(values, LAMBDA v : v # Null)
    IN  <<FoldLeft(+, 0, known), Len(known)>>

EvalOver(e, group, groups) ==
    LET before(g, h) == Precedes(e.orderBy, LAMBDA t : Aggregate(t.expr, g),
                                            LAMBDA t : Aggregate(t.expr, h))
        partition == {g \in groups : \A i \in DOMAIN e.partitionBy :
                        Aggregate(e.partitionBy[i], g)
                        = Aggregate(e.partitionBy[i], group)}
        earlier == {g \in partition : before(g, group)}
        place(g) == Cardinality({h \in partition : before(h, g)})
        back(n) == {g \in partition : place(g) = place(group) - n}
        valueOf(gs) == IF gs = {} THEN Null
                       ELSE Aggregate(e.operand, CHOOSE g \in gs : TRUE)
    IN  CASE e.call = "rank" -> Cardinality(earlier) + 1
          [] e.call = "lag" -> valueOf(back(e.offset))
          [] e.call = "lead" -> valueOf(back(-e.offset))
          [] e.call = "moving-avg" ->
                SumAndCount([i \in 1 .. e.offset + 1 |->
                                IF i = 1 THEN Aggregate(e.operand, group)
                                         ELSE valueOf(back(i - 1))])

Minus(x, y) == IF Null \in {x, y} THEN Null ELSE x - y

Eval(e, group, groups) ==
    CASE e.fn = "over" -> EvalOver(e, group, groups)
      [] e.fn = "minus" -> Minus(Aggregate(e.left, group),
                                 EvalOver(e.right, group, groups))
      [] OTHER -> Aggregate(e, group)

\* The rows that come first by output keys; the orders compared are total.
FirstRows(rows, order, limit) ==
    LET before(r, s) == Precedes(order, LAMBDA t : r[t.ref], LAMBDA t : s[t.ref])
    IN  {r \in rows : limit > 0 => Cardinality({s \in rows : before(s, r)}) < limit}

Execute(s, source) ==
    LET chosen == {r \in source : r.votes >= s.where}
        like(r) == {o \in chosen : \A e \in s.groupBy : Aggregate(e, {o}) = Aggregate(e, {r})}
        groups == IF s.groupBy = {} THEN {chosen} ELSE {like(r) : r \in chosen}
    IN  FirstRows({[k \in DOMAIN s.select |-> Eval(s.select[k], g, groups)] : g \in groups},
                  s.orderBy, s.limit)

-----------------------------------------------------------------------------
(* What was asked: the keys of result rows, without any SQL *)

Base(q, source) ==
    LET chosen == {r \in source : r.votes >= q.minVotes}
        tuple(r) == [k \in DOMAIN q.dims |-> Aggregate(q.dims[k], {r})]
        row(t) == LET its == {r \in chosen : tuple(r) = t}
                  IN  t @@ [k \in DOMAIN q.metrics |-> Aggregate(q.metrics[k], its)]
    IN  IF q.dims = <<>> THEN {row(<<>>)} ELSE {row(tuple(r)) : r \in chosen}

\* The rows a window ranges over are a line; each row has its place in it.
WindowMeaning(w, row, base) ==
    LET before(r, s) == Precedes(w.orderBy, LAMBDA t : r[t.ref], LAMBDA t : s[t.ref])
        line == SetToSortSeq({r \in base : \A k \in Range(w.partitionBy) : r[k] = row[k]},
                             before)
        here == CHOOSE i \in DOMAIN line : line[i] = row
        at(i) == IF i \in DOMAIN line THEN line[i][w.ref] ELSE Null
    IN  CASE w.fn = "lag"   -> at(here - w.offset)
          [] w.fn = "lead"  -> at(here + w.offset)
          [] w.fn = "delta" -> Minus(row[w.ref], at(here - 1))
          [] w.fn = "rank"  -> Len(SelectSeq(line, LAMBDA r : before(r, row))) + 1
          [] w.fn = "moving-avg" ->
                SumAndCount([i \in 1 .. Len(SubSeq(line, 1, here)) |->
                                IF i > here - w.offset THEN at(i) ELSE Null])

Meaning(q, source) ==
    LET base == Base(q, source)
    IN  FirstRows({row @@ [k \in DOMAIN q.windows |->
                             WindowMeaning(q.windows[k], row, base)] : row \in base},
                  q.order, q.limit)

-----------------------------------------------------------------------------
(* Samples *)

Row(post, day, votes) == [post |-> post, day |-> day, votes |-> votes]

\* Ties, buckets with several rows, a bucket with none, and no rows at all.
Sources ==
    {{Row(1, 0, 5), Row(1, 1, 2), Row(1, 2, 7), Row(1, 6, 1),
      Row(2, 1, 4), Row(2, 2, 4), Row(2, 3, 9), Row(3, 2, 11)}, {}}

SampleDimensions ==
    {<<>>, [day |-> Bucket(1)], [post |-> Column("post"), week |-> Bucket(2)],
     [week |-> Bucket(2), day |-> Bucket(1)], [post |-> Column("post")]}

TimeKeys(q) == {k \in DOMAIN q.dims : q.dims[k].fn = "bucket"}

Described(q) ==
    {[best |-> Windowed("rank", key, 1, within, Descending("total"))] :
        key \in {"total"}, within \in {<<>>} \cup {<<k>> : k \in DOMAIN q.dims}}
    \cup {[of |-> Windowed(fn, "total", n, OtherDimensions(q, key), Ascending(key))] :
            fn \in {"moving-avg", "lag", "lead"}, n \in 1 .. 3, key \in TimeKeys(q)}

AnalyticsSamples ==
    LET grouped == Accepted({Metrics(Dimensions(From, d), [total |-> Sum, rows |-> Count]) :
                        d \in SampleDimensions})
        windowed == grouped
            \cup Accepted(UNION {{Windows(q, w) : w \in Described(q)} : q \in grouped})
        compared == windowed
            \cup Accepted(UNION {{CompareToPreviousWindow(q, metric, axis, {}) :
                            metric \in {"total", "rows"},
                            axis \in {{}} \cup {{k} : k \in DOMAIN q.dims}} : q \in windowed})
        ordered == compared
            \cup UNION {{Limit(OrderBy(q, SetToSeq({Descending(k)[1] : k \in DOMAIN q.dims})), n) :
                            n \in 1 .. 3} : q \in {c \in compared : c.dims # <<>>}}
    IN  ordered \cup {[q EXCEPT !.minVotes = 4] : q \in ordered}

\* A comparison is with the latest earlier row among those that differ from it
\* in time alone.  (Where a bucket has no rows that is not the window before.)
ComparesWithBefore(q, metric, rows) ==
    LET previous == metric \o "Previous"
        time == q.windows[previous].orderBy[1].ref
        earlier(r) == {s \in rows : s[time] < r[time]
                        /\ \A k \in DOMAIN q.dims \ {time} : s[k] = r[k]}
        latest(r) == CHOOSE s \in earlier(r) : \A o \in earlier(r) : o[time] <= s[time]
    IN  previous \in DOMAIN q.windows =>
            \A r \in rows :
                r[previous] = IF earlier(r) = {} THEN Null ELSE latest(r)[metric]

\* A query's result rows hold, under the keys that were declared, what the
\* descriptors say of the rows' keys: every window ranges over the grouped
\* rows, in the partition and order its keys name; a comparison is with the
\* row before in time.
AnalyticsMeans(q) ==
    Compiles(q) => \A source \in Sources :
        /\ Execute(ToSql(q), source) = Meaning(q, source)
        /\ \A metric \in DOMAIN q.metrics :
              ComparesWithBefore(q, metric, Execute(ToSql([q EXCEPT !.limit = 0]), source))
=============================================================================
