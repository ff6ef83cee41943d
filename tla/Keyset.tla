------------------------------- MODULE Keyset -------------------------------
(***************************************************************************)
(* Keyset pagination (packages/orm/src/core/builders.ts): a reader fetches *)
(* the rows after a cursor page by page, in an order of mixed directions   *)
(* with ties, while other sessions insert and delete rows.                 *)
(*                                                                         *)
(* A row is the tuple of its order columns, the last of them unique; a row *)
(* with a NULL in one is not modelled, and a row's columns do not change.  *)
(***************************************************************************)
EXTENDS Integers, Sequences, SequencesExt

CONSTANTS
    Rows,       \* the rows there may be: tuples of integers
    Width,      \* order columns of a row
    PageSizes,  \* the page sizes a reader may ask for
    MaxWrites   \* bound: inserts and deletes while the reader pages

ASSUME KeysetAssumption ==
    /\ Width \in Nat \ {0} /\ MaxWrites \in Nat
    /\ PageSizes \subseteq Nat \ {0}
    /\ IsFiniteSet(Rows) /\ Rows \subseteq [1 .. Width -> Int]
    /\ \A r, q \in Rows : r[Width] = q[Width] => r = q

VARIABLES
    table,       \* the rows of the table
    dirs,        \* the direction of each order term
    limit,       \* the page size
    cursor,      \* the cursor: <<>> for the first page, else <<row>>
    paged,       \* the rows of the pages so far
    more,        \* the last nextCursor was not null
    throughout,  \* the rows that have been in the table since the first page
    written      \* the rows inserted or deleted by others, and how often

keysetVars == <<table, dirs, limit, cursor, paged, more, throughout, written>>

KeysetInit ==
    /\ table \in SUBSET Rows
    /\ dirs \in [1 .. Width -> {"asc", "desc"}]
    /\ limit \in PageSizes
    /\ cursor = <<>>
    /\ paged = <<>>
    /\ more = TRUE
    /\ throughout = table
    /\ written = <<>>

\* The comparison of one term: `>` ascending, `<` descending.
Beyond(i, x, y) == IF dirs[i] = "asc" THEN x[i] > y[i] ELSE x[i] < y[i]

\* expandedKeysetSql: beyond in one term, equal in those before it.
Expanded(x, y) ==
    \E i \in 1 .. Width : Beyond(i, x, y) /\ \A j \in 1 .. i - 1 : x[j] = y[j]

\* How many of the rows come before one.
Rank(row, rows) == Cardinality({r \in rows : Expanded(row, r)})

\* ORDER BY the same terms: the i-th row is the one that i - 1 come before.
Ordered(rows) ==
    [i \in 1 .. Cardinality(rows) |->
        CHOOSE row \in rows : Rank(row, rows) = i - 1]

\* Broken variant: no row is fetched beyond the page.
NoProbe(size) == size

\* limit(): one row more than the page, to know whether there is another.
Fetched(size) == size + 1

\* execute(): one statement, then the page and the cursor of the next.
FetchPage ==
    /\ more
    /\ LET found == Ordered({r \in table :
                        \A i \in DOMAIN cursor : Expanded(r, cursor[i])})
           fetched == SubSeq(found, 1, IF Len(found) < Fetched(limit)
                                       THEN Len(found) ELSE Fetched(limit))
           page == IF Len(fetched) <= limit THEN fetched
                   ELSE SubSeq(fetched, 1, limit)
       IN  /\ paged' = paged \o page
           /\ more' = (Len(fetched) > limit)
           /\ cursor' = IF Len(fetched) > limit THEN <<Last(page)>> ELSE cursor
    /\ UNCHANGED <<table, dirs, limit, throughout, written>>

\* Another session inserts a row, or deletes one.
Write ==
    /\ more /\ Len(written) < MaxWrites
    /\ \E r \in Rows \ Range(written) :
          /\ written' = Append(written, r)
          /\ table' = IF r \in table THEN table \ {r} ELSE table \cup {r}
          /\ throughout' = throughout \ {r}
    /\ UNCHANGED <<dirs, limit, cursor, paged, more>>

KeysetNext == FetchPage \/ Write

-----------------------------------------------------------------------------
\* The pages have each row once at most, in the order asked for; and when
\* there is no next cursor, every row that was there all along has been on a
\* page, whatever was inserted or deleted between the pages and however many
\* rows share the first columns.
PagesCoverOnce ==
    /\ \A i, j \in DOMAIN paged : i < j => Expanded(paged[j], paged[i])
    /\ ~more => throughout \subseteq Range(paged)
=============================================================================
