------------------------ MODULE MCMigrationSessions -------------------------
(***************************************************************************)
(* Two calls on one migrator with a pool, and one of a second process.     *)
(***************************************************************************)
EXTENDS MigrationSessions, TLC

CONSTANTS c1, c2, c3, s1, s2, k1, k2, k3, k4

MCStoreOf == (c1 :> s1) @@ (c2 :> s1) @@ (c3 :> s2)
MCHome == (k1 :> s1) @@ (k2 :> s1) @@ (k3 :> s2) @@ (k4 :> s2)

\* Two calls that overlap on one migrator, with a pool of three.
MCOneStoreOf == [c \in Calls |-> s1]
MCOneHome == [k \in Conns |-> s1]
=============================================================================
