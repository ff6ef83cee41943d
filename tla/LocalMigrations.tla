-------------------------- MODULE LocalMigrations ---------------------------
(***************************************************************************)
(* Calls of migrate() on a local database: packages/sqlite and             *)
(* packages/libsql, whose history stores have no lock.  SQLite's executor  *)
(* has one connection, and no queue as the one of queries has: statements  *)
(* of one call fall between those of another, and inside its transaction.  *)
(* libSQL opens a write transaction apart; given a client that has none,   *)
(* its executor runs a step as it is.                                      *)
(***************************************************************************)
EXTENDS Integers, FiniteSets

CONSTANT Ups  \* calls of migrate() in one process

VARIABLES
    adapter, \* "sqlite", "libsql", or "bare": no transactions
    sure,    \* the store's `ensured`
    saved,   \* the database: whether the history table is there, its rows, and
             \* how many statements of each step the schema shows
    draft,   \* what it is inside the open transaction
    opener,  \* the call whose transaction is open
    upPc,    \* where each call stands
    left,    \* the migrations it has still to run
    done,    \* those it has run
    part     \* statements of the current one it has run

localVars == <<adapter, sure, saved, draft, opener, upPc, left, done, part>>

Nobody == 0

ASSUME LocalAssumption == Nobody \notin Ups

Files == {1, 2}  \* migrations, in the order of their ids
StepSize == 2    \* statements of each

Blank == [table |-> FALSE, rows |-> {}, shows |-> [f \in Files |-> 0]]

Atomic == adapter # "bare"

\* On the one connection everybody reads what is not committed.
View(u) ==
    IF opener = u \/ (adapter = "sqlite" /\ opener # Nobody) THEN draft ELSE saved

\* A write lands in the transaction open on the call's connection, or by itself;
\* beside a write transaction of libSQL it is refused.
Land(u, db) ==
    IF opener = Nobody THEN saved' = db /\ UNCHANGED draft
    ELSE /\ adapter = "libsql" => opener = u
         /\ draft' = db /\ UNCHANGED saved

GoOn(u, from, to) == upPc[u] = from /\ upPc' = [upPc EXCEPT ![u] = to]

First(u) == CHOOSE f \in left[u] : \A g \in left[u] : f <= g

-----------------------------------------------------------------------------

\* `create table if not exists`, until it has succeeded once.
Ensure(u) ==
    /\ GoOn(u, "idle", "listing")
    /\ IF sure \/ View(u).table THEN UNCHANGED <<saved, draft>>
       ELSE Land(u, [View(u) EXCEPT !.table = TRUE])
    /\ sure' = TRUE
    /\ UNCHANGED <<adapter, opener, left, done, part>>

\* listApplied, and the plan.
List(u) ==
    /\ GoOn(u, "listing", "next")
    /\ View(u).table
    /\ left' = [left EXCEPT ![u] = Files \ View(u).rows]
    /\ UNCHANGED <<adapter, sure, saved, draft, opener, done, part>>

\* begin, or transaction("write"): one at a time.
BeginStep(u) ==
    /\ GoOn(u, "next", "stepping") /\ left[u] # {}
    /\ IF Atomic THEN opener = Nobody /\ opener' = u /\ draft' = saved
       ELSE UNCHANGED <<opener, draft>>
    /\ part' = [part EXCEPT ![u] = 0]
    /\ UNCHANGED <<adapter, sure, saved, left, done>>

\* Broken variant: `begin` is sent inside the try whose catch rolls back.
BeginRolledBack(u) ==
    /\ left[u] # {} /\ Atomic
    /\ GoOn(u, "next", "unwinding")
    /\ UNCHANGED <<adapter, sure, saved, draft, opener, left, done, part>>

\* It is refused: nothing to roll back yet.
BeginRefused(u) ==
    /\ left[u] # {} /\ Atomic
    /\ GoOn(u, "next", "refused")
    /\ UNCHANGED <<adapter, sure, saved, draft, opener, left, done, part>>

\* The step's next statement.  It defines something, so it cannot run where the
\* schema shows it already, nor before those it builds on.
RunNext(u) ==
    LET db == View(u)
    IN  /\ GoOn(u, "stepping", "stepping")
        /\ part[u] < StepSize /\ db.shows[First(u)] = part[u]
        /\ Land(u, [db EXCEPT !.shows[First(u)] = @ + 1])
        /\ part' = [part EXCEPT ![u] = @ + 1]
        /\ UNCHANGED <<adapter, sure, opener, left, done>>

\* The loop goes on to the next migration.
RanFirst(u) ==
    /\ done' = [done EXCEPT ![u] = @ \cup {First(u)}]
    /\ left' = [left EXCEPT ![u] = @ \ {First(u)}]

\* markApplied, on libSQL through a store of the transaction's own, which ensures
\* the table again; the primary key refuses a row that is there.
MarkRow(u) ==
    LET db == View(u)
    IN  /\ GoOn(u, "stepping", IF Atomic THEN "committing" ELSE "next")
        /\ part[u] = StepSize /\ First(u) \notin db.rows
        /\ Land(u, [db EXCEPT !.table = TRUE, !.rows = @ \cup {First(u)}])
        /\ IF Atomic THEN UNCHANGED <<left, done>> ELSE RanFirst(u)
        /\ UNCHANGED <<adapter, sure, opener, part>>

\* commit ends the transaction of the connection, whoever began it.
CommitStep(u) ==
    /\ GoOn(u, "committing", "next")
    /\ IF adapter = "sqlite" THEN opener # Nobody ELSE opener = u
    /\ saved' = draft /\ opener' = Nobody
    /\ RanFirst(u)
    /\ UNCHANGED <<adapter, sure, draft, part>>

\* A statement is refused or fails: the plan's ends the call, the step's is
\* rolled back where there is a transaction, which a failure leaves open.
Refused(u) ==
    /\ \/ \E at \in {"idle", "listing"} : GoOn(u, at, "refused")
       \/ ~Atomic /\ GoOn(u, "stepping", "refused")
       \/ Atomic /\ \E at \in {"stepping", "committing"} : GoOn(u, at, "unwinding")
    /\ UNCHANGED <<adapter, sure, saved, draft, opener, left, done, part>>

\* A remote libSQL commits, and its answer is lost.
AnswerLost(u) ==
    /\ adapter = "libsql" /\ opener = u
    /\ GoOn(u, "committing", "unwinding")
    /\ saved' = draft /\ opener' = Nobody
    /\ UNCHANGED <<adapter, sure, draft, left, done, part>>

\* rollback: of what is open on the connection, or of the transaction's handle.
RollbackStep(u) ==
    /\ GoOn(u, "unwinding", "refused")
    /\ opener' = IF adapter = "sqlite" \/ opener = u THEN Nobody ELSE opener
    /\ UNCHANGED <<adapter, sure, saved, draft, left, done, part>>

Return(u) ==
    /\ left[u] = {} /\ GoOn(u, "next", "returned")
    /\ UNCHANGED <<adapter, sure, saved, draft, opener, left, done, part>>

\* The process dies, with all its calls.
ProcessDies ==
    /\ \E u \in Ups : upPc[u] \notin {"none", "returned", "refused", "dead"}
    /\ upPc' = [u \in Ups |-> "dead"] /\ opener' = Nobody
    /\ UNCHANGED <<adapter, sure, saved, draft, left, done, part>>

LocalNext ==
    \/ \E u \in Ups :
        \/ Ensure(u) \/ List(u) \/ BeginStep(u) \/ BeginRefused(u)
        \/ RunNext(u) \/ MarkRow(u) \/ CommitStep(u) \/ Refused(u)
        \/ AnswerLost(u) \/ RollbackStep(u) \/ Return(u)
    \/ ProcessDies

Resting(pc0) ==
    /\ sure = FALSE /\ saved = Blank /\ draft = Blank /\ opener = Nobody
    /\ upPc = [u \in Ups |-> pc0]
    /\ left = [u \in Ups |-> {}] /\ done = [u \in Ups |-> {}]
    /\ part = [u \in Ups |-> 0]

LocalInit == adapter \in {"sqlite", "libsql", "bare"} /\ Resting("idle")

NoLocal == adapter = "none" /\ Resting("none")

-----------------------------------------------------------------------------

\* What is planned is done: the history has no gap, and a call that returned
\* leaves nothing pending.
PlansHold ==
    /\ \A f \in saved.rows : \A g \in Files : g < f => g \in saved.rows
    /\ \A u \in Ups : upPc[u] = "returned" => Files \subseteq saved.rows

\* Whatever falls between whose statements, and wherever a call fails: a
\* recorded migration has run to its end, in a database with transactions no
\* other has left anything, what a call says it ran is recorded, and the store is
\* not sure of a table that is not there.  What is planned is done, but on
\* SQLite's one connection: there a plan may be made of rows which another call's
\* transaction wrote and then takes back.
LocalHistoryHolds ==
    /\ \A f \in Files :
          /\ f \in saved.rows => saved.shows[f] = StepSize
          /\ Atomic /\ f \notin saved.rows => saved.shows[f] = 0
    /\ \A u \in Ups : done[u] \subseteq saved.rows
    /\ sure => saved.table
    /\ adapter # "sqlite" => PlansHold
=============================================================================
