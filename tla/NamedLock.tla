----------------------------- MODULE NamedLock ------------------------------
(***************************************************************************)
(* What a migration lock promises its callers: one call is inside at a     *)
(* time, the next may enter when the one before has left.                  *)
(***************************************************************************)

CONSTANT Calls  \* calls of migrate()

VARIABLE inside  \* the calls between their acquireLock and releaseLock

LockInit == inside = {}

Enter(c) == inside = {} /\ inside' = {c}

Leave(c) == inside = {c} /\ inside' = {}

LockSpec == LockInit /\ [][\E c \in Calls : Enter(c) \/ Leave(c)]_inside
=============================================================================
