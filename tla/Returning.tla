------------------------------ MODULE Returning -----------------------------
(***************************************************************************)
(* insertReturning of the MySQL adapter (packages/mysql/src/orm/returning  *)
(* .ts): rows are inserted and handed back, with INSERT ... RETURNING      *)
(* where the server has it, and otherwise read back by their keys, in one  *)
(* transaction, while other sessions insert and delete rows.               *)
(*                                                                         *)
(* A row is its key, a tuple of parts, and a value.  A part is an integer, *)
(* p + Respelled one that the program gave in another spelling than the    *)
(* server reads back, as "07" for 7.                                       *)
(***************************************************************************)
EXTENDS Integers, FiniteSets, Sequences, SequencesExt

CONSTANTS
    Batches,     \* the rows a call may be given: tuples of rows; a key that
                 \* a row leaves out is <<>>
    KeyColumns,  \* columns of the primary key: 0, 1 or more
    MaxId,       \* bound: identifiers the server hands out
    MaxOthers    \* bound: what other sessions do during a call

ASSUME ReturningAssumption ==
    /\ MaxId \in Nat /\ MaxOthers \in Nat /\ KeyColumns \subseteq Nat
    /\ \A b \in Batches : b \in Seq([key : Seq(Nat), value : STRING])

VARIABLES
    step,     \* what the call does next
    batch,    \* the rows it was given
    server,   \* what the server does: RETURNING or not, and whether the key
              \* is an AUTO_INCREMENT column
    width,    \* columns of the primary key
    rows,     \* the rows of the table
    nextId,   \* the identifier the server hands out next
    keys,     \* the keys of the rows inserted so far
    own,      \* ghost: the rows this call inserted, in turn
    result,   \* what the call returned
    others    \* what other sessions did

returningVars ==
    <<step, batch, server, width, rows, nextId, keys, own, result, others>>

\* No call at all.
NoCall ==
    /\ step = "none" /\ batch = <<>> /\ width = 0
    /\ server = [returning |-> FALSE, auto |-> FALSE]
    /\ rows = {} /\ nextId = 1 /\ keys = <<>> /\ own = <<>>
    /\ result = <<>> /\ others = 0

ReturningInit ==
    /\ step = "attempt"
    /\ batch \in Batches
    /\ server \in [returning : BOOLEAN, auto : BOOLEAN]
    /\ width \in KeyColumns
    /\ \A i \in DOMAIN batch : Len(batch[i].key) \in {0, width}
    /\ rows = {} /\ nextId = 1 /\ keys = <<>> /\ own = <<>>
    /\ result = <<>> /\ others = 0

-----------------------------------------------------------------------------
(* The server *)

IdKey(n) == <<n>>

Respelled == 100

\* A key as the server has it.
Canonical(key) == [i \in DOMAIN key |-> key[i] % Respelled]

\* The row as stored: a key that is left out is the next identifier, or one
\* that the server makes up and does not report.
Stored(row, id) ==
    IF row.key # <<>> THEN [row EXCEPT !.key = Canonical(@)]
    ELSE [row EXCEPT !.key = IF server.auto THEN IdKey(id) ELSE IdKey(-id)]

\* The identifier after a key: an explicit one moves the counter.
After(id, key) == IF \E n \in id .. MaxId : key = IdKey(n)
                  THEN 1 + CHOOSE n \in id .. MaxId : key = IdKey(n) ELSE id

Free(key) == \A r \in rows : r.key # key

\* A statement that fails rolls the call's transaction back.
RollBack(outcome) ==
    /\ step' = outcome
    /\ rows' = rows \ Range(own)
    /\ UNCHANGED <<batch, server, width, nextId, keys, own, result, others>>

-----------------------------------------------------------------------------
(* The call *)

AllExplicit == \A i \in DOMAIN batch : batch[i].key # <<>>

\* The first try is INSERT ... RETURNING: a server that has it inserts and
\* returns the rows in one statement; elsewhere the renderer's guard throws,
\* and the rows' keys have to be known or reported.
Attempt ==
    /\ step = "attempt" /\ ~server.returning
    /\ step' = IF width = 0 \/ (~AllExplicit /\ width > 1) THEN "refused"
               ELSE IF AllExplicit THEN "insert all" ELSE "insert"
    /\ UNCHANGED <<batch, server, width, rows, nextId, keys, own, result, others>>

\* All rows of a statement, in turn; the keys left out are handed out one
\* after another.
Inserting(i) == Stored(batch[i],
    nextId + Cardinality({j \in 1 .. i - 1 : batch[j].key = <<>>}))

\* One INSERT of all rows; then they are returned, or have to be read.
InsertAll(then) ==
    LET new == [i \in DOMAIN batch |-> Inserting(i)]
    IN  IF \A i, j \in DOMAIN new : Free(new[i].key)
                                    /\ (i # j => new[i].key # new[j].key)
        THEN /\ rows' = rows \cup Range(new)
             /\ own' = new
             /\ nextId' = FoldLeft(LAMBDA id, r : After(id, r.key), nextId, new)
             /\ step' = then
             /\ result' = IF then = "done" THEN new ELSE result
             /\ keys' = IF then = "done" THEN keys
                        ELSE [i \in DOMAIN batch |-> batch[i].key]
             /\ UNCHANGED <<batch, server, width, others>>
        ELSE RollBack("failed")

InsertReturning ==
    /\ step = "attempt" /\ server.returning /\ nextId + Len(batch) <= MaxId
    /\ InsertAll("done")

\* Every key is given: what was inserted can be read by them.
InsertExplicit == step = "insert all" /\ InsertAll("read")

\* Broken variant: the first identifier, and as many after it.
IdByOffset(i, inserted) ==
    IF i = 1 \/ \A j \in 1 .. i - 1 : batch[j].key # <<>> THEN inserted.key
    ELSE LET first == CHOOSE j \in 1 .. i - 1 :
                          batch[j].key = <<>>
                          /\ \A k \in 1 .. j - 1 : batch[k].key # <<>>
         IN  IdKey(own[first].key[1] + (i - first))

\* The identifier that the statement reports for its own row.
ReportedKey(i, inserted) == inserted.key

\* One INSERT per row; without an identifier there is no way back to it.
InsertOne ==
    /\ step = "insert" /\ nextId <= MaxId
    /\ LET i == Len(own) + 1
           row == Stored(batch[i], nextId)
       IN  IF ~Free(row.key) THEN RollBack("failed")
           ELSE IF batch[i].key = <<>> /\ ~server.auto THEN RollBack("refused")
           ELSE /\ rows' = rows \cup {row}
                /\ own' = Append(own, row)
                /\ nextId' = After(nextId, row.key)
                /\ keys' = Append(keys, IF batch[i].key # <<>> THEN batch[i].key
                                        ELSE ReportedKey(i, row))
                /\ step' = IF i = Len(batch) THEN "read" ELSE "insert"
                /\ UNCHANGED <<batch, server, width, result, others>>

\* keyFingerprint: the text of the parts, as they were given or read.
Fingerprint(key) == key

\* fetchInKeyOrder: one SELECT by the keys, where the server compares, then
\* the rows in input order, by the fingerprints of their keys.
FetchInKeyOrder ==
    /\ step = "read"
    /\ LET fetched == {r \in rows : \E i \in DOMAIN keys : r.key = Canonical(keys[i])}
           byKey(i) == {r \in fetched : Fingerprint(r.key) = Fingerprint(keys[i])}
       IN  IF \E i \in DOMAIN keys : byKey(i) = {} THEN RollBack("failed")
           ELSE /\ result' = [i \in DOMAIN keys |-> CHOOSE r \in byKey(i) : TRUE]
                /\ step' = "done"
                /\ UNCHANGED <<batch, server, width, rows, nextId, keys, own, others>>

-----------------------------------------------------------------------------
(* Other sessions *)

Busy == step \in {"attempt", "insert all", "insert", "read"}

OtherInserts ==
    /\ Busy /\ others < MaxOthers
    /\ server.auto /\ width = 1 /\ nextId < MaxId
    /\ \E key \in {IdKey(nextId), IdKey(nextId + 1)} :
          /\ Free(key)
          /\ rows' = rows \cup {[key |-> key, value |-> "other"]}
          /\ nextId' = After(nextId, key)
    /\ others' = others + 1
    /\ UNCHANGED <<step, batch, server, width, keys, own, result>>

\* The rows of an open transaction are locked.
OtherDeletes ==
    /\ Busy /\ others < MaxOthers
    /\ \E r \in rows \ Range(own) : rows' = rows \ {r}
    /\ others' = others + 1
    /\ UNCHANGED <<step, batch, server, width, nextId, keys, own, result>>

ReturningNext ==
    \/ Attempt
    \/ InsertReturning
    \/ InsertExplicit
    \/ InsertOne
    \/ FetchInKeyOrder
    \/ OtherInserts
    \/ OtherDeletes

-----------------------------------------------------------------------------
\* A call returns the rows it inserted, in the order they were given, and never
\* another session's; when it is refused or fails, none of its rows stays.
ReturnsOwnRows ==
    /\ step = "done" => /\ result = own
                        /\ \A i \in DOMAIN batch : own[i].value = batch[i].value
    /\ step \in {"refused", "failed"} => rows \cap Range(own) = {}
=============================================================================
