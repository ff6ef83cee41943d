---------------------------- MODULE AtomicCalls -----------------------------
(***************************************************************************)
(* What Database.transaction and Database.batch promise of what other      *)
(* sessions can see: the writes of one call become visible in one step, or *)
(* never; and so do those of a plain statement.                            *)
(***************************************************************************)
EXTENDS Naturals

CONSTANTS
    Calls,   \* calls of transaction(), batch() or execute()
    StepsOf  \* how many statements each call runs

VARIABLE committed  \* the writes other sessions see

Writes(c) == {c} \X (1 .. StepsOf[c])

AtomicInit == committed = {}

CommitOnce(c) ==
    /\ committed \cap Writes(c) = {}
    /\ \E some \in SUBSET Writes(c) : committed' = committed \cup some

AtomicSpec == AtomicInit /\ [][\E c \in Calls : CommitOnce(c)]_committed
=============================================================================
