------------------------------ MODULE Migrator ------------------------------
(***************************************************************************)
(* The migrator of packages/migrate/src/core/mod.ts on a history store of  *)
(* an adapter (packages/pg, packages/mysql): several processes call up or  *)
(* down on one database.                                                   *)
(*                                                                         *)
(* A call reads the history and decides what it will run before it asks    *)
(* for the lock, and does not read it again once it has it.  The lock is a *)
(* server-side session lock, held on a connection of its own.              *)
(***************************************************************************)
EXTENDS Integers

CONSTANTS
    Migrators,      \* calls of up() or down()
    DirOf,          \* "up" or "down", per call
    VersionOf,      \* the checksum of the migration files, per call
    Ids,            \* migration ids, in order: 1 .. N
    Statements,     \* SQL statements of a migration's step
    Versions,       \* checksums a migration file may have
    Transactional,  \* a step and its history row commit together
    HasLock,        \* the store implements acquireLock
    Dropping,       \* calls whose lock session may drop while they go on
    Free            \* nobody holds the lock

NotApplied == 0

ASSUME MigratorAssumption ==
    /\ DirOf \in [Migrators -> {"up", "down"}]
    /\ VersionOf \in [Migrators -> Versions]
    /\ Versions \subseteq Nat \ {NotApplied}
    /\ Ids \subseteq Nat \ {0}
    /\ Statements \in Nat \ {0}
    /\ {Transactional, HasLock} \subseteq BOOLEAN
    /\ Dropping \subseteq Migrators
    /\ Free \notin Migrators

VARIABLES
    history,  \* per migration, the checksum recorded, or NotApplied
    ran,      \* per migration, how many statements of `up` its schema shows
    holder,   \* whose session holds the migration lock
    pc,       \* where each call stands
    goal,     \* the migrations it decided to run
    todo,     \* those it has not run yet
    stmt      \* statements of the current one it has executed

vars == <<history, ran, holder, pc, goal, todo, stmt>>

Pcs == {"idle", "planned", "running", "failing", "done", "failed", "dead"}

Recorded == {i \in Ids : history[i] # NotApplied}

Init ==
    /\ history = [i \in Ids |-> NotApplied]
    /\ ran = [i \in Ids |-> 0]
    /\ holder = Free
    /\ pc = [m \in Migrators |-> "idle"]
    /\ goal = [m \in Migrators |-> {}]
    /\ todo = [m \in Migrators |-> {}]
    /\ stmt = [m \in Migrators |-> 0]

Goto(m, from, to) == pc[m] = from /\ pc' = [pc EXCEPT ![m] = to]

\* The order in which a call takes its migrations: ids ascending going up,
\* descending going down.
Before(m, i, j) == IF DirOf[m] = "up" THEN i < j ELSE j < i

\* The sets a call may select: all of what is pending (going up) or applied
\* (going down), or a first part of it, cut by `steps` or by `to`.
Selections(m) ==
    LET open == IF DirOf[m] = "up" THEN Ids \ Recorded ELSE Recorded
    IN  IF open = {}
        THEN {{}}
        ELSE {{i \in open : ~Before(m, last, i)} : last \in open}

\* Broken variant: a changed migration file is not noticed.
NeverDirty(m) == TRUE

\* assertCleanPlan: every recorded checksum is that of the file.
CleanPlan(m) == \A i \in Recorded : history[i] = VersionOf[m]

\* listApplied, createMigrationPlan and the selection, before any lock.
Plan(m) ==
    /\ \/ /\ CleanPlan(m)
          /\ Goto(m, "idle", "planned")
          /\ goal' \in {[goal EXCEPT ![m] = s] : s \in Selections(m)}
       \/ /\ ~CleanPlan(m)
          /\ Goto(m, "idle", "failed")
          /\ UNCHANGED goal
    /\ todo' = [todo EXCEPT ![m] = goal'[m]]
    /\ UNCHANGED <<history, ran, holder, stmt>>

\* Broken variant: the try-lock's answer is not looked at.
AcquireAnyway(m) ==
    /\ Goto(m, "planned", "running")
    /\ holder' = IF HasLock THEN m ELSE holder
    /\ UNCHANGED <<history, ran, goal, todo, stmt>>

\* #acquireLock: a try-lock; a store without one is used unlocked.
AcquireLock(m) ==
    /\ \/ /\ HasLock /\ holder = Free
          /\ Goto(m, "planned", "running")
          /\ holder' = m
       \/ /\ HasLock /\ holder # Free
          /\ Goto(m, "planned", "failed")
          /\ UNCHANGED holder
       \/ /\ ~HasLock
          /\ Goto(m, "planned", "running")
          /\ UNCHANGED holder
    /\ UNCHANGED <<history, ran, goal, todo, stmt>>

\* Broken variant: the selection is walked from its far end.
BackwardsCurrent(m, i) == i \in todo[m] /\ \A j \in todo[m] : ~Before(m, i, j)

\* The loop takes the selection in its order.
Current(m, i) == i \in todo[m] /\ \A j \in todo[m] : ~Before(m, j, i)

\* markApplied inserts a row and fails on one already there; unmarkApplied
\* deletes one, and that there was none is not looked at.
Recordable(m, i) == DirOf[m] = "up" => i \notin Recorded

Record(m, i) ==
    history' = [history EXCEPT ![i] =
                   IF DirOf[m] = "up" THEN VersionOf[m] ELSE NotApplied]

\* The effect of n more statements of the step.
Effect(m, i, n) ==
    ran' = [ran EXCEPT ![i] = IF DirOf[m] = "up" THEN @ + n ELSE @ - n]

\* Broken variant: the step commits although its history row was refused.
CommitUnrecorded(m) ==
    /\ Transactional /\ pc[m] = "running"
    /\ \E i \in Ids :
        /\ Current(m, i)
        /\ Effect(m, i, Statements)
        /\ IF Recordable(m, i) THEN Record(m, i) ELSE UNCHANGED history
        /\ todo' = [todo EXCEPT ![m] = @ \ {i}]
    /\ UNCHANGED <<holder, pc, goal, stmt>>

\* One migration in a transaction: its statements and its row commit together,
\* or the row is refused and all of it rolls back.
RunInTransaction(m) ==
    /\ Transactional /\ pc[m] = "running"
    /\ \E i \in Ids :
        /\ Current(m, i)
        /\ \/ /\ Recordable(m, i)
              /\ Effect(m, i, Statements)
              /\ Record(m, i)
              /\ todo' = [todo EXCEPT ![m] = @ \ {i}]
              /\ UNCHANGED pc
           \/ /\ ~Recordable(m, i)
              /\ Goto(m, "running", "failing")
              /\ UNCHANGED <<history, ran, todo>>
    /\ UNCHANGED <<holder, goal, stmt>>

\* Broken variant: one statement too many is taken from the step.
ExecutePastEnd(m) ==
    /\ ~Transactional /\ pc[m] = "running" /\ stmt[m] <= Statements
    /\ \E i \in Ids : Current(m, i) /\ Effect(m, i, 1)
    /\ stmt' = [stmt EXCEPT ![m] = @ + 1]
    /\ UNCHANGED <<history, holder, pc, goal, todo>>

\* Without one, each statement takes effect by itself.
Execute(m) ==
    /\ ~Transactional /\ pc[m] = "running" /\ stmt[m] < Statements
    /\ \E i \in Ids : Current(m, i) /\ Effect(m, i, 1)
    /\ stmt' = [stmt EXCEPT ![m] = @ + 1]
    /\ UNCHANGED <<history, holder, pc, goal, todo>>

\* Broken variant: the row is written before the step has run to its end.
MarkEarly(m) ==
    /\ ~Transactional /\ pc[m] = "running" /\ stmt[m] >= Statements - 1
    /\ \E i \in Ids :
        /\ Current(m, i) /\ Recordable(m, i) /\ Record(m, i)
        /\ todo' = [todo EXCEPT ![m] = @ \ {i}]
    /\ stmt' = [stmt EXCEPT ![m] = 0]
    /\ UNCHANGED <<ran, holder, pc, goal>>

\* Then the history row is written, or refused with the step already run.
Mark(m) ==
    /\ ~Transactional /\ pc[m] = "running" /\ stmt[m] = Statements
    /\ \E i \in Ids :
        /\ Current(m, i)
        /\ \/ /\ Recordable(m, i)
              /\ Record(m, i)
              /\ todo' = [todo EXCEPT ![m] = @ \ {i}]
              /\ UNCHANGED pc
           \/ /\ ~Recordable(m, i)
              /\ Goto(m, "running", "failing")
              /\ UNCHANGED <<history, todo>>
    /\ stmt' = [stmt EXCEPT ![m] = 0]
    /\ UNCHANGED <<ran, holder, goal>>

\* A statement is rejected: one of the plan or of the lock ends the call, one
\* of the step goes to its `finally`; outside a transaction what ran stays.
\* A rejected insert or commit may have been executed, its answer lost.
StepFails(m) ==
    /\ \/ \E at \in {"idle", "planned"} : Goto(m, at, "failed")
       \/ Goto(m, "running", "failing")
    /\ stmt' = [stmt EXCEPT ![m] = 0]
    /\ UNCHANGED <<history, ran, holder, goal, todo>>

\* Broken variant: `finally` returns and swallows what the step threw.
ReleaseQuietly(m) ==
    /\ \/ pc[m] = "running" /\ todo[m] = {} /\ Goto(m, "running", "done")
       \/ Goto(m, "failing", "done")
    /\ holder' = IF holder = m THEN Free ELSE holder
    /\ UNCHANGED <<history, ran, goal, todo, stmt>>

\* finally: the lock is released.  A session that lost it makes the release
\* throw, which turns a finished call into a failed one.
ReleaseLock(m) ==
    /\ \/ /\ pc[m] = "running" /\ todo[m] = {}
          /\ Goto(m, "running",
                  IF HasLock /\ holder # m THEN "failed" ELSE "done")
       \/ Goto(m, "failing", "failed")
    /\ holder' = IF holder = m THEN Free ELSE holder
    /\ UNCHANGED <<history, ran, goal, todo, stmt>>

\* The process dies: the server ends its sessions and frees the lock.
Crash(m) ==
    /\ \E at \in {"planned", "running", "failing"} : Goto(m, at, "dead")
    /\ holder' = IF holder = m THEN Free ELSE holder
    /\ UNCHANGED <<history, ran, goal, todo, stmt>>

\* The lock's connection drops while the call goes on with other connections
\* of its pool.
DropSession(m) ==
    /\ m \in Dropping /\ holder = m
    /\ holder' = Free
    /\ UNCHANGED <<history, ran, pc, goal, todo, stmt>>

Finished ==
    /\ \A m \in Migrators : pc[m] \in {"done", "failed", "dead"}
    /\ UNCHANGED vars

Next ==
    \/ \E m \in Migrators :
        \/ Plan(m) \/ AcquireLock(m) \/ RunInTransaction(m) \/ Execute(m)
        \/ Mark(m) \/ StepFails(m) \/ ReleaseLock(m) \/ Crash(m)
        \/ DropSession(m)
    \/ Finished

Spec == Init /\ [][Next]_vars

-----------------------------------------------------------------------------

\* The variables keep their types; a call never executes more statements than
\* the step it is at has.
TypeOK ==
    /\ history \in [Ids -> Versions \cup {NotApplied}]
    /\ ran \in [Ids -> Int]
    /\ holder \in Migrators \cup {Free}
    /\ pc \in [Migrators -> Pcs]
    /\ goal \in [Migrators -> SUBSET Ids]
    /\ todo \in [Migrators -> SUBSET Ids]
    /\ stmt \in [Migrators -> 0 .. Statements]

\* "Concurrent migrators are excluded": no step runs again over a schema that
\* already shows it, and none is reverted twice.
RunsOnce == \A i \in Ids : 0 <= ran[i] /\ ran[i] <= Statements

\* A recorded migration has run to its end, whoever crashed or lost the lock.
RecordedMeansRan == \A i \in Recorded : ran[i] >= Statements

\* The history has no gap: calls that plan on a stale history still apply the
\* migrations in the order of their ids.
AppliedInOrder == \A i \in Recorded : \A j \in Ids : j < i => j \in Recorded

\* The history comes from one version of the migration files.
OneVersion == \A i, j \in Recorded : history[i] = history[j]

\* A call of up() that returned has its selection in the history.
DoneMeansApplied ==
    \A m \in Migrators :
        pc[m] = "done" /\ DirOf[m] = "up" => goal[m] \subseteq Recorded

\* Calls of up() only: no theorem about the history survives a stale down().
OnlyUp == \A m \in Migrators : DirOf[m] = "up"

\* What a call has left to run has no gap that the history does not fill, and
\* what it has run is in the history.
PlanHolds ==
    \A m \in Migrators :
        /\ goal[m] \ todo[m] \subseteq Recorded
        /\ pc[m] = "idle" => goal[m] = {} /\ todo[m] = {}
        /\ pc[m] = "done" => todo[m] = {}
        /\ \A j \in todo[m] : \A i \in Ids : i < j => i \in Recorded \cup todo[m]

\* A call whose plan went stale to the point that others recorded another
\* version will find a row of theirs where it wants to write its own.
StaleMeansRefused ==
    \A m \in Migrators :
        \/ todo[m] = {}
        \/ todo[m] \cap Recorded # {}
        \/ CleanPlan(m)

\* The schema shows what a call has executed of its current step; in
\* transactions it shows whole steps, and those the history records.
SchemaShows ==
    /\ \A i \in Ids : ran[i] >= 0
    /\ \A m \in Migrators :
        /\ pc[m] = "idle" => stmt[m] = 0
        /\ \A i \in Ids : Current(m, i) => stmt[m] <= ran[i]
    /\ Transactional =>
          \A i \in Ids : ran[i] = IF i \in Recorded THEN Statements ELSE 0

\* The inductive invariant of calls of up().
MigInv ==
    /\ TypeOK /\ AppliedInOrder /\ OneVersion /\ RecordedMeansRan
    /\ PlanHolds /\ StaleMeansRefused /\ SchemaShows

\* Seen from the history and the schema alone, whole migrations come and go.
Contract == INSTANCE MigrationHistory WITH history <- history, ran <- ran
HistoryHolds == Contract!HistorySpec

\* No two calls whose lock sessions last are between taking and giving up the
\* lock, whatever becomes of the sessions of others.
Excluded ==
    \A m, n \in Migrators \ Dropping :
        pc[m] \in {"running", "failing"} /\ pc[n] \in {"running", "failing"}
        => m = n
=============================================================================
