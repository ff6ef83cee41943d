-------------------------------- MODULE Json --------------------------------
(***************************************************************************)
(* Reading JSON documents (packages/core/src/json.ts): a field at a path,  *)
(* and an array of objects as rows, each by another function of the three  *)
(* dialects.                                                               *)
(*                                                                         *)
(* A path is the sequence of its keys; indexes, which PostgreSQL would take*)
(* for part of a key, are not modelled.  A document is a tree of records.  *)
(***************************************************************************)
EXTENDS Integers, Sequences, SequencesExt, TLC

Dialects == {"postgres", "mysql", "sqlite"}

Missing == [is |-> "missing"]  \* what is not in a document
Null == "(null)"               \* SQL's NULL

-----------------------------------------------------------------------------
(* Rendering *)

\* Broken variant: the keys after the first.
PathTail(path) == SubSeq(path, 2, Len(path))

\* `$.a.b` is the keys a and b.
PathKeys(path) == path

\* jsonExtract: one call, of one function or another.
JsonExtract(path, dialect) ==
    CASE dialect = "postgres" -> [fn |-> "extract_path_text", keys |-> PathKeys(path)]
      [] dialect = "mysql"    -> [fn |-> "unquote", keys |-> path]
      [] dialect = "sqlite"   -> [fn |-> "extract", keys |-> path]

\* Broken variant: json_each is not told where the array is.
FromSource(arrayPath, dialect) ==
    CASE dialect = "postgres" -> [fn |-> "recordset", keys |-> PathKeys(arrayPath)]
      [] dialect = "mysql"    -> [fn |-> "table", keys |-> arrayPath]
      [] dialect = "sqlite"   -> [fn |-> "each", keys |-> <<>>]

\* The FROM fragment of jsonTable: the array at the path, one row per element.
\* (The columns' types are left out: values are compared as text.)
JsonFrom(arrayPath, dialect) ==
    CASE dialect = "postgres" -> [fn |-> "recordset", keys |-> PathKeys(arrayPath)]
      [] dialect = "mysql"    -> [fn |-> "table", keys |-> arrayPath]
      [] dialect = "sqlite"   -> [fn |-> "each", keys |-> arrayPath]

\* A column reference: PostgreSQL knows a field by the column's name, MySQL by
\* the path in the FROM, SQLite by the path in the reference.
JsonColumn(name, path, dialect) ==
    CASE dialect = "postgres" -> [fn |-> "name", keys |-> <<name>>]
      [] dialect = "mysql"    -> [fn |-> "table", keys |-> path]
      [] dialect = "sqlite"   -> [fn |-> "extract", keys |-> path]

-----------------------------------------------------------------------------
(* How the engines read documents *)

Step(value, key) ==
    IF value.is = "object" /\ key \in DOMAIN value.of THEN value.of[key] ELSE Missing

At(value, keys) == FoldLeft(Step, value, keys)

\* As text.  MySQL unquotes a JSON null to a word; booleans are numbers to SQLite.
Read(fn, value) ==
    CASE value.is = "missing" -> Null
      [] value.is = "null" -> IF fn = "unquote" THEN "null" ELSE Null
      [] value.is = "true" -> IF fn = "extract" THEN "1" ELSE "true"
      [] value.is = "scalar" -> value.of

Extract(call, document) == Read(call.fn, At(document, call.keys))

\* A document without the array has no rows.
Elements(from, document) ==
    LET array == At(document, from.keys)
    IN  IF array.is = "array" THEN array.of ELSE <<>>

TableRows(spec, arrayPath, document, dialect) ==
    LET elements == Elements(JsonFrom(arrayPath, dialect), document)
        column(name) == JsonColumn(name, spec[name], dialect)
    IN  [i \in DOMAIN elements |->
            [name \in DOMAIN spec |-> Extract(column(name), elements[i])]]

-----------------------------------------------------------------------------
(* Samples *)

Scalar(text) == [is |-> "scalar", of |-> text]
True == [is |-> "true"]
JsonNull == [is |-> "null"]
Object(fields) == [is |-> "object", of |-> fields]
ArrayOf(values) == [is |-> "array", of |-> values]

Items == ArrayOf(<<Object([sku |-> Scalar("x"), qty |-> Scalar("2")]),
                   Object([sku |-> Scalar("y")]),
                   Object([sku |-> Scalar("x"), qty |-> JsonNull])>>)
Documents ==
    <<Object([items |-> Items, sku |-> Scalar("z"), order |-> Object([items |-> ArrayOf(<<>>)])]),
      Object([order |-> Object([items |-> Items, sku |-> Scalar("7")]), gift |-> True]),
      Object([order |-> JsonNull]), Items, Missing>>

JsonPaths == {<<"sku">>, <<"order", "sku">>, <<"order", "items">>, <<"items">>, <<"gift">>}
Specs == {[sku |-> <<"sku">>], [sku |-> <<"sku">>, qty |-> <<"qty">>]}

JsonSamples ==
    [document : DOMAIN Documents, path : JsonPaths \cup {<<>>}, spec : Specs]

\* The text at the path, if there is a scalar.
Wanted(value) == IF value.is = "scalar" THEN value.of ELSE Null

\* On every dialect, a field is the text the path leads to, and a table has one
\* row per element of the array, in its order, with what the element has under
\* the column's path.  Excepted are what the dialects read differently, a path
\* that ends at a JSON null or a boolean, and the empty path, which PostgreSQL
\* cannot parse; and a column has its field's name, for PostgreSQL goes by that.
JsonMeans(s) ==
    LET document == Documents[s.document]
        value == At(document, s.path)
    IN  \A dialect \in Dialects :
            /\ s.path # <<>> /\ value.is \in {"scalar", "missing"} =>
                  Extract(JsonExtract(s.path, dialect), document) = Wanted(value)
            /\ TableRows(s.spec, s.path, document, dialect) =
                  IF value.is # "array" THEN <<>>
                  ELSE [i \in DOMAIN value.of |-> [name \in DOMAIN s.spec |->
                          Wanted(At(value.of[i], s.spec[name]))]]
=============================================================================
