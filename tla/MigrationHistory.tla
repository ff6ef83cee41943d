-------------------------- MODULE MigrationHistory --------------------------
(***************************************************************************)
(* What the migrator promises of one database: a migration is applied or   *)
(* rolled back as a whole, its effect and its row in the history table     *)
(* together, in the order of the ids, and only on top of a history that    *)
(* the same migration files wrote.                                         *)
(***************************************************************************)
EXTENDS Integers

CONSTANTS
    Ids,         \* migration ids, in order: 1 .. N
    Statements,  \* SQL statements of a migration's step
    Versions     \* checksums a migration file may have

NotApplied == 0

VARIABLES
    history,  \* per migration, the checksum recorded, or NotApplied
    ran       \* per migration, how many statements of `up` its schema shows

historyVars == <<history, ran>>

Recorded == {i \in Ids : history[i] # NotApplied}

HistoryInit ==
    /\ history = [i \in Ids |-> NotApplied]
    /\ ran = [i \in Ids |-> 0]

\* Everything before i is in, everything recorded comes from version v.
ApplyWhole(i, v) ==
    /\ i \notin Recorded
    /\ \A j \in Ids : j < i => j \in Recorded
    /\ \A j \in Recorded : history[j] = v
    /\ history' = [history EXCEPT ![i] = v]
    /\ ran' = [ran EXCEPT ![i] = Statements]

RevertWhole(i) ==
    /\ i \in Recorded
    /\ \A j \in Recorded : j <= i
    /\ history' = [history EXCEPT ![i] = NotApplied]
    /\ ran' = [ran EXCEPT ![i] = 0]

HistoryNext ==
    \E i \in Ids : (\E v \in Versions : ApplyWhole(i, v)) \/ RevertWhole(i)

HistorySpec == HistoryInit /\ [][HistoryNext]_historyVars
=============================================================================
