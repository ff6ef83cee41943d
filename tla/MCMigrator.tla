----------------------------- MODULE MCMigrator -----------------------------
(***************************************************************************)
(* Instances of Migrator for TLC: three calls on two migrations of two     *)
(* statements, in the combinations of engine, lock and direction the       *)
(* adapters give.                                                          *)
(***************************************************************************)
EXTENDS Migrator

CONSTANTS m1, m2, m3

\* The ids, named by their position.
TwoIds == 1 .. 2

AllUp == [m \in Migrators |-> "up"]

\* m1 has been up before m2 and m3 roll back.
UpThenDown == [m \in Migrators |-> IF m = m1 THEN "up" ELSE "down"]

\* m3 runs with migration files that were edited.
OneEdited == [m \in Migrators |-> IF m = m3 THEN 2 ELSE 1]

SameFiles == [m \in Migrators |-> 1]
=============================================================================
