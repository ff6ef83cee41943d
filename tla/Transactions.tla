---------------------------- MODULE Transactions ----------------------------
(***************************************************************************)
(* The statements and transactions of one Database facade over the         *)
(* connections of an adapter's executor.  A call is one execute(), batch() *)
(* or transaction(); while it awaits, any other call may go on.            *)
(*                                                                         *)
(* The adapters differ in where a call gets its connection.  SQLite has    *)
(* one, behind a promise-chain mutex; pg, mysql and neon check one out of  *)
(* a pool for the length of the call; given a single client, pg, mysql and *)
(* neon hand that client to every call at once.                            *)
(***************************************************************************)
EXTENDS Integers, Sequences, FiniteSets

CONSTANTS
    Calls,         \* calls of transaction(), batch() or execute()
    StepsOf,       \* how many statements each call runs
    Transactions,  \* the calls that wrap them in begin .. commit
    Parent,        \* the call whose callback makes and awaits this one
    Conns,         \* connections of the executor's source
    Exclusive,     \* a connection is one call's at a time
    AbortsOnError, \* a failed statement dooms its transaction (PostgreSQL)
    None

ASSUME TransactionsAssumption ==
    /\ StepsOf \in [Calls -> Nat \ {0}]
    /\ Transactions \subseteq Calls
    /\ \A c \in Calls \ Transactions : StepsOf[c] = 1
    /\ Parent \in [Calls -> Calls \cup {None}]
    /\ {Exclusive, AbortsOnError} \subseteq BOOLEAN
    /\ None \notin Calls \cup Conns

VARIABLES
    pc,         \* where each call stands
    line,       \* the calls waiting for a connection, first come first
    at,         \* the connection each call was given last
    sent,       \* how many statements it has sent; one more with its commit
    succeeded,  \* which of them returned a result
    tx,         \* per connection: "none", "open" or "aborted"
    work,       \* per connection, the writes of its open transaction
    committed   \* the writes other sessions see

vars == <<pc, line, at, sent, succeeded, tx, work, committed>>

Holding == {"beginning", "running", "unwinding", "returning", "throwing"}

Settled == {"resolved", "rejected"}

Pcs == Holding \cup Settled \cup {"idle", "waiting"}

Holds(c, k) == at[c] = k /\ pc[c] \in Holding

Goto(c, from, to) == pc[c] = from /\ pc' = [pc EXCEPT ![c] = to]

Leave(c) == line' = SelectSeq(line, LAMBDA d : d # c)

Init ==
    /\ pc = [c \in Calls |-> "idle"]
    /\ line = <<>>
    /\ at = [c \in Calls |-> None]
    /\ sent = [c \in Calls |-> 0]
    /\ succeeded = [c \in Calls |-> {}]
    /\ tx = [k \in Conns |-> "none"]
    /\ work = [k \in Conns |-> {}]
    /\ committed = {}

-----------------------------------------------------------------------------

\* The caller makes the call; inside a callback it goes to the outer facade.
Request(c) ==
    /\ Parent[c] # None => pc[Parent[c]] = "running"
    /\ Goto(c, "idle", "waiting")
    /\ line' = Append(line, c)
    /\ UNCHANGED <<at, sent, succeeded, tx, work, committed>>

\* Broken variant: the tail is not awaited.
AvailableAnyway(c, k) == TRUE

\* A slot of the mutex, a connection of the pool, or the one client.
Available(c, k) ==
    Exclusive => c = Head(line) /\ \A d \in Calls : ~Holds(d, k)

Acquire(c) ==
    /\ Goto(c, "waiting",
            IF c \in Transactions THEN "beginning" ELSE "running")
    /\ \E k \in Conns : Available(c, k) /\ at' = [at EXCEPT ![c] = k]
    /\ Leave(c)
    /\ UNCHANGED <<sent, succeeded, tx, work, committed>>

\* Broken variant: a call that got no connection stays in the line.
StartFailsInLine(c) ==
    /\ \/ Goto(c, "waiting", "rejected")
       \/ Goto(c, "beginning", "throwing")
    /\ UNCHANGED <<line, at, sent, succeeded, tx, work, committed>>

\* The source gives no connection, or `begin` fails: nothing to roll back.
StartFails(c) ==
    /\ \/ Goto(c, "waiting", "rejected")
       \/ Goto(c, "beginning", "throwing")
    /\ Leave(c)
    /\ UNCHANGED <<at, sent, succeeded, tx, work, committed>>

\* begin; only on a shared client is a transaction open already, and then it
\* changes nothing (PostgreSQL warns).
Begin(c) ==
    /\ Goto(c, "beginning", "running")
    /\ tx' = [tx EXCEPT ![at[c]] = IF @ = "none" THEN "open" ELSE @]
    /\ UNCHANGED <<line, at, sent, succeeded, work, committed>>

\* The callback goes on once the calls it awaits have settled.
Ready(c) ==
    /\ pc[c] = "running"
    /\ \A d \in Calls : Parent[d] = c => pc[d] \in Settled \cup {"idle"}

\* The write lands in the connection's transaction, or by itself.
Land(k, write) ==
    IF tx[k] = "open"
    THEN work' = [work EXCEPT ![k] = @ \cup {write}] /\ UNCHANGED committed
    ELSE committed' = committed \cup {write} /\ UNCHANGED work

\* The next statement succeeds; a plain execute() ends with it.
Statement(c) ==
    /\ Ready(c) /\ sent[c] < StepsOf[c]
    /\ tx[at[c]] # "aborted"
    /\ Land(at[c], <<c, sent[c] + 1>>)
    /\ sent' = [sent EXCEPT ![c] = @ + 1]
    /\ succeeded' = [succeeded EXCEPT ![c] = @ \cup {sent[c] + 1}]
    /\ pc' = IF c \in Transactions THEN pc
             ELSE [pc EXCEPT ![c] = "returning"]
    /\ UNCHANGED <<line, at, tx>>

\* The next statement fails, in the driver or on the server, where it may doom
\* the transaction; the callback throws, or catches and goes on.
StatementFails(c) ==
    /\ Ready(c) /\ sent[c] < StepsOf[c]
    /\ sent' = [sent EXCEPT ![c] = @ + 1]
    /\ \/ UNCHANGED tx
       \/ /\ AbortsOnError /\ tx[at[c]] = "open"
          /\ tx' = [tx EXCEPT ![at[c]] = "aborted"]
    /\ IF c \in Transactions
       THEN UNCHANGED pc \/ pc' = [pc EXCEPT ![c] = "unwinding"]
       ELSE pc' = [pc EXCEPT ![c] = "throwing"]
    /\ UNCHANGED <<line, at, succeeded, work, committed>>

\* Broken variant: a callback that threw is not rolled back.
ThrowUnrolled(c) ==
    /\ Ready(c) /\ c \in Transactions
    /\ pc' = [pc EXCEPT ![c] = "throwing"]
    /\ UNCHANGED <<line, at, sent, succeeded, tx, work, committed>>

\* The callback throws for a reason of its own.
Throw(c) ==
    /\ Ready(c) /\ c \in Transactions
    /\ pc' = [pc EXCEPT ![c] = "unwinding"]
    /\ UNCHANGED <<line, at, sent, succeeded, tx, work, committed>>

\* The server ends the transaction of k, keeping its writes or not.  One that
\* was aborted keeps none, and answers `commit` without an error.
EndTx(k, kept) ==
    /\ tx' = [tx EXCEPT ![k] = "none"]
    /\ work' = [work EXCEPT ![k] = {}]
    /\ committed' = IF kept /\ tx[k] = "open"
                    THEN committed \cup work[k] ELSE committed

CommitSent(c) ==
    /\ Ready(c) /\ c \in Transactions /\ sent[c] = StepsOf[c]
    /\ sent' = [sent EXCEPT ![c] = @ + 1]

\* Broken variant: the callback's result is returned without its commit.
ReturnUncommitted(c) ==
    /\ CommitSent(c) /\ EndTx(at[c], FALSE)
    /\ pc' = [pc EXCEPT ![c] = "returning"]
    /\ UNCHANGED <<line, at, succeeded>>

\* Broken variant: the commit is sent in two halves.
CommitHalf(c) ==
    /\ Ready(c) /\ c \in Transactions /\ sent[c] = StepsOf[c]
    /\ \/ /\ Cardinality(work[at[c]]) > 1
          /\ \E write \in work[at[c]] :
                /\ committed' = committed \cup {write}
                /\ work' = [work EXCEPT ![at[c]] = @ \ {write}]
          /\ UNCHANGED <<pc, sent, tx>>
       \/ /\ Cardinality(work[at[c]]) <= 1
          /\ CommitSent(c) /\ EndTx(at[c], TRUE)
          /\ pc' = [pc EXCEPT ![c] = "returning"]
    /\ UNCHANGED <<line, at, succeeded>>

Commit(c) ==
    /\ CommitSent(c) /\ EndTx(at[c], TRUE)
    /\ pc' = [pc EXCEPT ![c] = "returning"]
    /\ UNCHANGED <<line, at, succeeded>>

\* commit fails: it never arrived, was refused, or its answer was lost.
CommitFails(c) ==
    /\ CommitSent(c)
    /\ \/ UNCHANGED <<tx, work, committed>>
       \/ EndTx(at[c], FALSE)
       \/ EndTx(at[c], TRUE)
    /\ pc' = [pc EXCEPT ![c] = "unwinding"]
    /\ UNCHANGED <<line, at, succeeded>>

\* Broken variant: the way out of an error commits like that of a success.
RollbackKeeps(c) ==
    /\ Goto(c, "unwinding", "throwing")
    /\ EndTx(at[c], TRUE)
    /\ UNCHANGED <<line, at, sent, succeeded>>

\* rollback; if it fails its session is gone, which the server rolls back too.
Rollback(c) ==
    /\ Goto(c, "unwinding", "throwing")
    /\ EndTx(at[c], FALSE)
    /\ UNCHANGED <<line, at, sent, succeeded>>

\* Broken variant: only the way out of a success gives the connection back.
ReleaseOnSuccess(c) ==
    /\ Goto(c, "returning", "resolved")
    /\ UNCHANGED <<line, at, sent, succeeded, tx, work, committed>>

\* finally { acquired.release() }, or the end of the mutex's slot.
Release(c) ==
    /\ \/ Goto(c, "returning", "resolved")
       \/ Goto(c, "throwing", "rejected")
    /\ UNCHANGED <<line, at, sent, succeeded, tx, work, committed>>

\* Every call that was made has settled.
Finished == (\A c \in Calls : pc[c] \in Settled \cup {"idle"}) /\ UNCHANGED vars

\* What a call does once it was made.
Step(c) ==
    \/ Acquire(c) \/ StartFails(c) \/ Begin(c) \/ Statement(c)
    \/ StatementFails(c) \/ Throw(c) \/ Commit(c) \/ CommitFails(c)
    \/ Rollback(c) \/ Release(c)

Next ==
    \/ \E c \in Calls : Request(c) \/ Step(c)
    \/ Finished

Spec == Init /\ [][Next]_vars

-----------------------------------------------------------------------------

Writes(c) == {c} \X (1 .. StepsOf[c])

\* The variables keep their types; a call that holds a connection has one, and
\* only transactions begin and roll back.
TypeOK ==
    /\ pc \in [Calls -> Pcs]
    /\ at \in [Calls -> Conns \cup {None}]
    /\ \A c \in Calls :
          /\ pc[c] \in Holding => at[c] \in Conns
          /\ pc[c] \in {"beginning", "unwinding"} => c \in Transactions
    /\ sent \in [Calls -> Nat]
    /\ succeeded \in [Calls -> SUBSET Nat]
    /\ tx \in [Conns -> {"none", "open", "aborted"}]
    /\ work \in [Conns -> SUBSET (Calls \X Nat)]
    /\ committed \subseteq Calls \X Nat

OneHolder ==
    \A k \in Conns : \A c, d \in Calls : Holds(c, k) /\ Holds(d, k) => c = d

\* A transaction is open on a connection exactly while its holder is between
\* begin and the end.
OpenWhileInside ==
    \A k \in Conns :
        tx[k] # "none"
        => \E c \in Transactions :
              Holds(c, k) /\ pc[c] \in {"running", "unwinding"}

\* What is not committed yet was written by the holder.
WorkIsTheHolders ==
    \A k \in Conns : \A w \in work[k] :
        tx[k] # "none" /\ Holds(w[1], k) /\ w \in Writes(w[1])

\* Statements are counted as they are sent, from the first after the begin.
SentInOrder ==
    \A c \in Calls :
        /\ pc[c] \in {"idle", "waiting", "beginning"} => sent[c] = 0
        /\ sent[c] <= StepsOf[c] + 1 /\ succeeded[c] \subseteq 1 .. sent[c]
        /\ c \notin Transactions /\ pc[c] \notin {"returning", "resolved"}
           => succeeded[c] = {}

ToldOf(c) == {c} \X succeeded[c]

\* A statement of c failed, and the server dooms the transaction for it.
Doomed(c) ==
    AbortsOnError /\ \E j \in 1 .. StepsOf[c] : j <= sent[c] /\ j \notin succeeded[c]

\* While the callback runs its transaction is open, and holds every write it
\* was told of; after the commit they are committed.
NothingForgotten ==
    \A c \in Transactions :
        /\ pc[c] = "running"
           => /\ tx[at[c]] # "none"
              /\ ToldOf(c) \subseteq work[at[c]]
              /\ tx[at[c]] = "aborted" => Doomed(c)
        /\ pc[c] \in {"returning", "resolved"}
           => ToldOf(c) \subseteq committed \/ Doomed(c)

\* Other sessions see no write of a call that has not sent its commit, or, a
\* plain statement, has not succeeded.
UnseenUntilSent ==
    \A c \in Calls :
        (IF c \in Transactions THEN sent[c] <= StepsOf[c] ELSE succeeded[c] = {})
        => committed \cap Writes(c) = {}

\* What every step preserves when a connection is one call's at a time.
TxInv ==
    /\ TypeOK /\ OneHolder /\ OpenWhileInside /\ WorkIsTheHolders
    /\ SentInOrder /\ NothingForgotten /\ UnseenUntilSent

\* "The transaction owns the connection exclusively for its duration": an open
\* transaction holds writes of the call that holds its connection only, and of
\* one call only.
NoForeignWork ==
    \A k \in Conns : \A v, w \in work[k] : v[1] = w[1] /\ Holds(w[1], k)

\* The line holds the calls that wait, once each: one that failed does not
\* block those behind it.
LineIsOfWaiting ==
    /\ \A c \in Calls : pc[c] = "waiting" <=> \E i \in DOMAIN line : line[i] = c
    /\ \A i, j \in DOMAIN line : line[i] = line[j] => i = j

\* A connection nobody holds is not left inside a transaction, so the next
\* call that gets it starts from nothing, however the last one ended.
CleanWhenFree ==
    \A k \in Conns :
        (\A c \in Calls : ~Holds(c, k)) => tx[k] = "none" /\ work[k] = {}

\* A transaction() that resolved has committed every write its callback was
\* told of.  PostgreSQL gives this up when the callback swallowed an error.
ResolvedMeansCommitted ==
    \A c \in Transactions :
        pc[c] = "resolved"
        => \/ {c} \X (succeeded[c] \cap 1 .. StepsOf[c]) \subseteq committed
           \/ AbortsOnError /\ succeeded[c] # 1 .. StepsOf[c]

\* A call that was rejected before it sent a commit left nothing behind.
RejectedMeansUndone ==
    \A c \in Calls :
        pc[c] = "rejected" /\ sent[c] <= StepsOf[c]
        => committed \cap Writes(c) = {}

\* "The callback's statements commit together and roll back together".
Contract == INSTANCE AtomicCalls WITH committed <- committed
CommitTogether == Contract!AtomicSpec

\* The driver settles every statement, and a callback ends.
FairSpec == Spec /\ \A c \in Calls : WF_vars(Step(c))

\* Every call that was made settles: nobody waits for a connection for ever.
EveryCallSettles == \A c \in Calls : pc[c] = "waiting" ~> pc[c] \in Settled
=============================================================================
