----------------------------- MODULE Connections ----------------------------
(***************************************************************************)
(* The connection source of an adapter (packages/pg/src/orm/pool.ts,       *)
(* postgres_js_pool.ts, packages/mysql/src/orm/pool.ts, mariadb_pool.ts)   *)
(* and the close() of its executor: the driver is imported and its pool is *)
(* made when the first call needs a connection, while other calls and      *)
(* close() go on; a pool that the program made is not closed for it.       *)
(***************************************************************************)
EXTENDS Integers, Sequences

CONSTANTS
    Callers,  \* calls of execute() or transaction()
    Closers   \* calls of close()

VARIABLES
    ours,      \* the pool was not given by the program (ownsPool)
    opening,   \* the promise of a pool that is kept; 0 is undefined
    pools,     \* what became of the promises, in the order they were made:
               \* "importing", "failed", "open" or "ended"
    calls,     \* where each call stands, and the promise it awaits
    closed,    \* the executor's #closed
    late,      \* ghost: a pool was opened after close() was called
    closers    \* where each close() stands, and the promise it awaits

connectionVars == <<ours, opening, pools, calls, closed, late, closers>>

Stage(at, promise) == [at |-> at, promise |-> promise]

ConnectionsInit ==
    /\ ours \in BOOLEAN
    /\ opening = IF ours THEN 0 ELSE 1
    /\ pools = IF ours THEN <<>> ELSE <<"open">>
    /\ calls = [c \in Callers |-> Stage("idle", 0)]
    /\ closed = FALSE /\ late = FALSE
    /\ closers = [k \in Closers |-> Stage("idle", 0)]

\* No executor at all.
NoConnections ==
    /\ ours = TRUE /\ opening = 0 /\ pools = <<>>
    /\ closed = FALSE /\ late = FALSE
    /\ calls = [c \in Callers |-> Stage("done", 0)]
    /\ closers = [k \in Closers |-> Stage("done", 0)]

-----------------------------------------------------------------------------

\* Broken variant: the pool is kept once it is there, not its promise.
KeptPool(promise) == promise # 0 /\ pools[promise] \notin {"importing", "failed"}

\* What `??=` finds: a promise, kept or even broken.
Kept(promise) == promise # 0

\* A call opens the pool, unless that was begun before.
Request(c) ==
    /\ calls[c].at = "idle"
    /\ IF Kept(opening) THEN UNCHANGED <<opening, pools, late>>
       ELSE /\ pools' = Append(pools, "importing")
            /\ opening' = Len(pools')
            /\ late' = (late \/ closed)
    /\ calls' = [calls EXCEPT ![c] = Stage("opening", opening')]
    /\ UNCHANGED <<ours, closed, closers>>

\* The driver is imported and makes its pool, or the import fails.
Import(promise) ==
    /\ promise \in DOMAIN pools /\ pools[promise] = "importing"
    /\ \E outcome \in {"open", "failed"} :
          pools' = [pools EXCEPT ![promise] = outcome]
    /\ UNCHANGED <<ours, opening, calls, closed, late, closers>>

\* The pool is there and gives a connection; or it does not, as one that was
\* ended never does, or there is none.
Connect(c) ==
    LET pool == pools[calls[c].promise]
    IN  /\ calls[c].at = "opening" /\ pool # "importing"
        /\ \E at \in {"holding", "failed"} :
              /\ at = "holding" => pool = "open"
              /\ calls' = [calls EXCEPT ![c].at = at]
        /\ UNCHANGED <<ours, opening, pools, closed, late, closers>>

\* The call's statements are run, or fail with the pool, and the connection is
\* released.
Settle(c) ==
    /\ calls[c].at = "holding"
    /\ calls' = [calls EXCEPT ![c].at = "done"]
    /\ UNCHANGED <<ours, opening, pools, closed, late, closers>>

\* Broken variant: a pool that is not there yet needs no end.
EndsWhatIsThere == Kept(opening) /\ pools[opening] # "importing"

\* end() has something to end: a pool, or one that is on its way.
EndAwaits == Kept(opening)

\* Broken variant: a pool is ended whoever made it.
EndsAnyPool == TRUE

\* Only a pool of its own is ended.
EndsPool == ours

\* close(): the first one ends the pool, the others do nothing.
Close(k) ==
    /\ closers[k].at = "idle"
    /\ closed' = TRUE
    /\ closers' = [closers EXCEPT ![k] =
          IF ~closed /\ EndsPool /\ EndAwaits THEN Stage("ending", opening)
          ELSE IF ~closed THEN Stage("closed", 0) ELSE Stage("done", 0)]
    /\ UNCHANGED <<ours, opening, pools, calls, late>>

\* The pool that close() awaited is ended; without one close() throws.
End(k) ==
    LET promise == closers[k].promise
    IN  /\ closers[k].at = "ending" /\ pools[promise] # "importing"
        /\ \/ /\ pools[promise] = "failed" /\ UNCHANGED pools
              /\ closers' = [closers EXCEPT ![k].at = "failed"]
           \/ /\ pools[promise] = "open"
              /\ pools' = [pools EXCEPT ![promise] = "ended"]
              /\ closers' = [closers EXCEPT ![k].at = "closed"]
        /\ UNCHANGED <<ours, opening, calls, closed, late>>

ConnectionsNext ==
    \/ \E c \in Callers : Request(c) \/ Connect(c) \/ Settle(c)
    \/ \E promise \in DOMAIN pools : Import(promise)
    \/ \E k \in Closers : Close(k) \/ End(k)

-----------------------------------------------------------------------------

\* There is one pool at most, however many calls come while it is opened; it is
\* ended when the close() that is to end it resolves, although it may have been
\* on its way when close() was called; and a pool of the program's is left to
\* it.  A call that opens the pool after close() found none leaves it open.
PoolEnded ==
    /\ Len(pools) <= 1
    /\ (\E k \in Closers : closers[k].at = "closed") /\ ours /\ ~late
       => \A promise \in DOMAIN pools : pools[promise] \in {"failed", "ended"}
    /\ ~ours => pools = <<"open">>
=============================================================================
