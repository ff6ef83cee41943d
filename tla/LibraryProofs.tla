---------------------------- MODULE LibraryProofs ----------------------------
(***************************************************************************)
(* What the connection source of an executor, the migrations of a local    *)
(* database, a reader of pages, the RETURNING fallback, the logging of a   *)
(* call, `sisal generate`, an ETL job's statement and the codecs of dates  *)
(* and times guarantee, whatever the calls, rows, sessions, settings,      *)
(* schemas, windows and values are.                                        *)
(***************************************************************************)
EXTENDS Connections, LocalMigrations, Keyset, Returning, Logging, SchemaDiff,
        Rollup, TemporalValues, FiniteSetTheorems, SequenceTheorems, TLAPS

-----------------------------------------------------------------------------

\* One executor's connections, by themselves.
ConnectionsSpec == ConnectionsInit /\ [][ConnectionsNext]_connectionVars

\* The one promise is kept from when it is made.  A pool of the program's is
\* open throughout; a close() that ends a pool has the promise of one, and one
\* that has closed left none open, unless it was made later.
ConnectionsInv ==
    /\ ours \in BOOLEAN /\ closed \in BOOLEAN /\ late \in BOOLEAN
    /\ pools \in Seq({"importing", "failed", "open", "ended"})
    /\ Len(pools) <= 1 /\ opening = Len(pools)
    /\ closers \in [Closers ->
          [at : {"idle", "ending", "closed", "failed", "done"}, promise : Nat]]
    /\ ~ours => pools = <<"open">>
    /\ \A k \in Closers :
          /\ closers[k].at # "idle" => closed
          /\ closers[k].at = "ending" =>
                ours /\ closers[k].promise \in DOMAIN pools
          /\ closers[k].at = "closed" /\ ours /\ ~late
             => \A promise \in DOMAIN pools : pools[promise] = "ended"

\* Before the first call.
LEMMA ConnectionsStart == ConnectionsInit => ConnectionsInv
<1> SUFFICES ASSUME ConnectionsInit PROVE ConnectionsInv
  OBVIOUS
<1>1. pools \in Seq({"importing", "failed", "open", "ended"})
      /\ Len(pools) <= 1 /\ opening = Len(pools)
  BY DEF ConnectionsInit
<1> QED
  BY <1>1 DEF ConnectionsInit, ConnectionsInv, Stage

\* Every step of a call, of an import and of close() keeps it.
LEMMA ConnectionsStep ==
    ConnectionsInv /\ [ConnectionsNext]_connectionVars => ConnectionsInv'
<1> SUFFICES ASSUME ConnectionsInv, [ConnectionsNext]_connectionVars
             PROVE  ConnectionsInv'
  OBVIOUS
<1>0. DOMAIN pools = 1 .. Len(pools) /\ Len(pools) \in {0, 1}
  BY DEF ConnectionsInv
<1>1. ASSUME NEW c \in Callers, Request(c) PROVE ConnectionsInv'
  <2>1. CASE Kept(opening)
    BY <1>1, <2>1 DEF Request, ConnectionsInv
  <2>2. CASE ~Kept(opening)
    <3>1. pools = <<>> /\ ours
      BY <1>0, <2>2 DEF Kept, ConnectionsInv
    <3>2. pools' = <<"importing">> /\ opening' = 1 /\ late' = (late \/ closed)
          /\ UNCHANGED <<ours, closed, closers>>
      BY <1>1, <2>2, <3>1 DEF Request
    <3>3. pools' \in Seq({"importing", "failed", "open", "ended"})
          /\ Len(pools') = 1 /\ DOMAIN pools' = {1}
      BY <3>2
    <3>4. late' \in BOOLEAN /\ (closed => late')
      BY <3>2 DEF ConnectionsInv
    <3> QED
      BY <3>1, <3>2, <3>3, <3>4 DEF ConnectionsInv
  <2> QED
    BY <2>1, <2>2
<1>2. ASSUME NEW promise \in DOMAIN pools, Import(promise)
      PROVE  ConnectionsInv'
  <2>1. PICK outcome \in {"open", "failed"} :
           pools' = [pools EXCEPT ![promise] = outcome]
    BY <1>2 DEF Import
  <2>2. /\ pools' \in Seq({"importing", "failed", "open", "ended"})
        /\ Len(pools') = Len(pools) /\ DOMAIN pools' = DOMAIN pools
    BY <1>0, <2>1 DEF ConnectionsInv
  <2>3. promise = 1 /\ pools[1] = "importing" /\ ours
    BY <1>0, <1>2 DEF Import, ConnectionsInv
  <2> QED
    BY <1>0, <1>2, <2>2, <2>3 DEF Import, ConnectionsInv
<1>3. ASSUME NEW c \in Callers, Connect(c) \/ Settle(c) PROVE ConnectionsInv'
  <2>1. UNCHANGED <<ours, opening, pools, closed, late, closers>>
    BY <1>3 DEF Connect, Settle
  <2> QED
    BY <2>1 DEF ConnectionsInv
<1>4. ASSUME NEW k \in Closers, Close(k) PROVE ConnectionsInv'
  BY <1>0, <1>4 DEF Close, ConnectionsInv, EndsPool, EndAwaits, Kept, Stage
<1>5. ASSUME NEW k \in Closers, End(k) PROVE ConnectionsInv'
  <2> DEFINE promise == closers[k].promise
  <2>1. promise \in DOMAIN pools /\ ours
    BY <1>5 DEF End, ConnectionsInv
  <2>2. CASE UNCHANGED pools
    BY <1>5, <2>1, <2>2 DEF End, ConnectionsInv
  <2>3. CASE pools' = [pools EXCEPT ![promise] = "ended"]
    <3>1. /\ pools' \in Seq({"importing", "failed", "open", "ended"})
          /\ Len(pools') = Len(pools) /\ DOMAIN pools' = DOMAIN pools
          /\ \A p \in DOMAIN pools : pools'[p] = "ended"
      BY <1>0, <2>1, <2>3 DEF ConnectionsInv
    <3>2. /\ closers[k].at = "ending"
          /\ \/ closers' = [closers EXCEPT ![k].at = "failed"]
             \/ closers' = [closers EXCEPT ![k].at = "closed"]
          /\ UNCHANGED <<ours, opening, closed, late>>
      BY <1>5 DEF End
    <3>3. closers' \in [Closers ->
             [at : {"idle", "ending", "closed", "failed", "done"},
              promise : Nat]]
      BY <3>2 DEF ConnectionsInv
    <3>4. ASSUME NEW j \in Closers
          PROVE  /\ closers'[j].at # "idle" => closed
                 /\ closers'[j].at = "ending" =>
                       closers'[j].promise \in DOMAIN pools
      BY <3>2 DEF ConnectionsInv
    <3> QED
      BY <2>1, <3>1, <3>2, <3>3, <3>4 DEF ConnectionsInv
  <2> QED
    BY <1>5, <2>2, <2>3 DEF End
<1>6. CASE UNCHANGED connectionVars
  BY <1>6 DEF connectionVars, ConnectionsInv
<1> QED
  BY <1>1, <1>2, <1>3, <1>4, <1>5, <1>6 DEF ConnectionsNext

\* However many calls ask for a connection while the pool is on its way, one
\* pool is made; the close() that is to end it has ended it when it resolves,
\* and a pool of the program's is left to it.
THEOREM OnePoolEnded == ConnectionsSpec => []PoolEnded
<1>1. ConnectionsInv => PoolEnded
  BY DEF ConnectionsInv, PoolEnded
<1> QED
  BY <1>1, ConnectionsStart, ConnectionsStep, PTL DEF ConnectionsSpec

-----------------------------------------------------------------------------

\* Calls of migrate() on one local database, by themselves.
LocalSpec == LocalInit /\ [][LocalNext]_localVars

\* Where a call stands that has begun a step.
Inside == {"stepping", "committing", "unwinding"}

\* The type of the local database and of its calls.
LocalTypeOK ==
    /\ adapter \in {"sqlite", "libsql", "bare"} /\ sure \in BOOLEAN
    /\ {saved, draft} \subseteq
          [table : BOOLEAN, rows : SUBSET Files,
           shows : [Files -> 0 .. StepSize]]
    /\ opener \in {Nobody} \cup Ups
    /\ upPc \in [Ups -> {"idle", "listing", "next", "returned", "refused",
                          "dead"} \cup Inside]
    /\ left \in [Ups -> SUBSET Files] /\ done \in [Ups -> SUBSET Files]
    /\ part \in [Ups -> 0 .. StepSize]
    /\ \A u \in Ups : upPc[u] \in {"stepping", "committing"} => left[u] # {}

\* Nobody reads or writes before the history table is there.
TableFirst ==
    /\ sure => saved.table
    /\ opener # Nobody => saved.table /\ draft.table
    /\ \A u \in Ups : upPc[u] \in {"next"} \cup Inside => saved.table

\* Who is inside a transaction of the database has opened it, and on SQLite's
\* one connection nobody else is inside one.
OpenerInside ==
    /\ adapter = "bare" => opener = Nobody
    /\ opener # Nobody => upPc[opener] \in Inside
    /\ \A u \in Ups :
          /\ Atomic /\ upPc[u] \in {"stepping", "committing"} => opener = u
          /\ adapter = "sqlite" /\ upPc[u] \in Inside => opener = u
          /\ adapter = "bare" => upPc[u] \notin {"committing", "unwinding"}

\* A database holds whole migrations: those it records, and nothing of others.
HoldsWhole(db, except) ==
    \A f \in Files : /\ f \in db.rows => db.shows[f] = StepSize
                     /\ f \notin db.rows \cup except => db.shows[f] = 0

\* The saved database does; the draft of a transaction does but for the
\* migration its opener is running, and it has all that is saved.
StatesWhole ==
    /\ Atomic => HoldsWhole(saved, {})
    /\ ~Atomic => \A f \in saved.rows : saved.shows[f] = StepSize
    /\ ~Atomic => \A u \in Ups : upPc[u] = "stepping" =>
                     part[u] <= saved.shows[First(u)]
    /\ \A u \in Ups : opener = u /\ upPc[u] \in {"stepping", "committing"} =>
          /\ saved.rows \subseteq draft.rows
          /\ draft.rows \subseteq saved.rows \cup {First(u)}
          /\ HoldsWhole(draft, {First(u)})
          /\ upPc[u] = "stepping" /\ First(u) \notin draft.rows
               => draft.shows[First(u)] = part[u]
          /\ upPc[u] = "committing" => First(u) \in draft.rows

\* What a call says it ran is recorded; where nobody reads another's draft, so
\* is what it does not plan to run.
PlansStand ==
    \A u \in Ups : /\ done[u] \subseteq saved.rows
                   /\ adapter # "sqlite" /\ upPc[u] \in {"next"} \cup Inside
                      => Files \ left[u] \subseteq saved.rows

\* Together; what a call plans is not undone where nobody reads a draft.
LocalInv ==
    /\ LocalTypeOK /\ TableFirst /\ OpenerInside /\ StatesWhole /\ PlansStand
    /\ adapter # "sqlite" => PlansHold

\* The first of the migrations a call has left.
LEMMA FirstLeft ==
    ASSUME LocalTypeOK, NEW u \in Ups, left[u] # {}
    PROVE  /\ First(u) \in left[u] /\ First(u) \in Files
           /\ \A g \in left[u] : First(u) <= g
<1>1. left[u] \in SUBSET {1, 2}
  BY DEF LocalTypeOK, Files
<1>2. \E f \in left[u] : \A g \in left[u] : f <= g
  <2>1. CASE 1 \in left[u]
    BY <1>1, <2>1
  <2>2. CASE 1 \notin left[u]
    BY <1>1, <2>2
  <2> QED
    BY <2>1, <2>2
<1> QED
  BY <1>1, <1>2 DEF First, Files

\* A step that moves calls only among the places outside transactions.
LEMMA EnsureKeeps == ASSUME LocalInv, NEW u \in Ups, Ensure(u) PROVE LocalInv'
<1> USE LocalAssumption DEF GoOn, Inside
<1>1. LocalTypeOK /\ TableFirst /\ OpenerInside /\ StatesWhole /\ PlansStand
      /\ (adapter # "sqlite" => PlansHold)
  BY DEF LocalInv
<1>2. /\ UNCHANGED <<adapter, opener, left, done, part>>
      /\ upPc' = [upPc EXCEPT ![u] = "listing"] /\ upPc[u] = "idle"
      /\ sure' = TRUE
      /\ UNCHANGED draft
      /\ saved' = [saved EXCEPT !.table = TRUE]
  <2>1. saved = [saved EXCEPT !.table = saved.table]
    BY <1>1 DEF LocalTypeOK
  <2>2. View(u).table => saved.table
    BY <1>1 DEF View, TableFirst
  <2>3. CASE sure \/ View(u).table
    BY <1>1, <2>1, <2>2, <2>3 DEF Ensure, TableFirst
  <2>4. CASE ~sure /\ ~View(u).table
    <3>1. opener = Nobody
      BY <1>1, <2>4 DEF View, TableFirst, Ensure, Land, OpenerInside
    <3> QED
      BY <2>4, <3>1 DEF Ensure, Land, View
  <2> QED
    BY <2>3, <2>4 DEF Ensure
<1>3. LocalTypeOK'
  BY <1>1, <1>2 DEF LocalTypeOK
<1>4. TableFirst' /\ OpenerInside'
  BY <1>1, <1>2 DEF TableFirst, OpenerInside, LocalTypeOK, Atomic
<1>5. StatesWhole'
  BY <1>1, <1>2 DEF StatesWhole, HoldsWhole, LocalTypeOK, Atomic, First
<1>6. PlansStand' /\ (adapter' # "sqlite" => PlansHold')
  BY <1>1, <1>2 DEF PlansStand, PlansHold, LocalTypeOK
<1> QED
  BY <1>3, <1>4, <1>5, <1>6 DEF LocalInv

\* A step that only moves the call or makes its plan, keeps it; a plan is made
\* of what is saved where nobody reads a draft.
LEMMA PlanningKeeps ==
    ASSUME LocalInv, NEW u \in Ups,
           List(u) \/ BeginRefused(u) \/ Refused(u) \/ Return(u)
    PROVE  LocalInv'
<1> USE LocalAssumption DEF GoOn, Inside
<1>1. LocalTypeOK /\ TableFirst /\ OpenerInside /\ StatesWhole /\ PlansStand
      /\ (adapter # "sqlite" => PlansHold)
  BY DEF LocalInv
<1>2. UNCHANGED <<adapter, sure, saved, draft, opener, done, part>>
  BY DEF List, BeginRefused, Refused, Return
<1>3. CASE List(u)
  <2>1. /\ upPc[u] = "listing" /\ upPc' = [upPc EXCEPT ![u] = "next"]
        /\ left' = [left EXCEPT ![u] = Files \ View(u).rows]
        /\ View(u).table
    BY <1>3 DEF List
  <2>2. saved.table /\ (adapter # "sqlite" => View(u) = saved)
    BY <1>1, <2>1 DEF View, TableFirst, OpenerInside
  <2>3. LocalTypeOK'
    BY <1>1, <1>2, <2>1 DEF LocalTypeOK
  <2>4. TableFirst' /\ OpenerInside'
    BY <1>1, <1>2, <2>1, <2>2 DEF TableFirst, OpenerInside, LocalTypeOK, Atomic
  <2>5. StatesWhole'
    BY <1>1, <1>2, <2>1 DEF StatesWhole, HoldsWhole, LocalTypeOK, Atomic, First
  <2>6. PlansStand' /\ (adapter' # "sqlite" => PlansHold')
    BY <1>1, <1>2, <2>1, <2>2 DEF PlansStand, PlansHold, LocalTypeOK
  <2> QED
    BY <2>3, <2>4, <2>5, <2>6 DEF LocalInv
<1>4. CASE BeginRefused(u) \/ Refused(u) \/ Return(u)
  <2>1. /\ left' = left
        /\ \E at : /\ upPc' = [upPc EXCEPT ![u] = at]
                   /\ \/ at = "refused"
                         /\ upPc[u] \notin {"committing", "unwinding"}
                         /\ (Atomic => upPc[u] # "stepping")
                      \/ at = "unwinding" /\ Atomic
                         /\ upPc[u] \in {"stepping", "committing"}
                      \/ at = "returned" /\ upPc[u] = "next" /\ left[u] = {}
    BY <1>4 DEF BeginRefused, Refused, Return
  <2>2. LocalTypeOK'
    BY <1>1, <1>2, <2>1 DEF LocalTypeOK
  <2>3. TableFirst'
    BY <1>1, <1>2, <2>1 DEF TableFirst, LocalTypeOK
  <2>4. OpenerInside'
    BY <1>1, <1>2, <2>1 DEF OpenerInside, LocalTypeOK, Atomic
  <2>5. StatesWhole'
    BY <1>1, <1>2, <2>1 DEF StatesWhole, HoldsWhole, LocalTypeOK, Atomic, First
  <2>6. PlansStand' /\ (adapter' # "sqlite" => PlansHold')
    BY <1>1, <1>2, <2>1 DEF PlansStand, PlansHold, LocalTypeOK, Atomic
  <2> QED
    BY <2>2, <2>3, <2>4, <2>5, <2>6 DEF LocalInv
<1> QED
  BY <1>3, <1>4

\* A transaction begins with what is saved.
LEMMA BeginKeeps ==
    ASSUME LocalInv, NEW u \in Ups, BeginStep(u) PROVE LocalInv'
<1> USE LocalAssumption DEF GoOn, Inside
<1>1. LocalTypeOK /\ TableFirst /\ OpenerInside /\ StatesWhole /\ PlansStand
      /\ (adapter # "sqlite" => PlansHold)
  BY DEF LocalInv
<1>2. /\ upPc[u] = "next" /\ upPc' = [upPc EXCEPT ![u] = "stepping"]
      /\ left[u] # {}
      /\ part' = [part EXCEPT ![u] = 0]
      /\ UNCHANGED <<adapter, sure, saved, left, done>>
      /\ Atomic => opener = Nobody /\ opener' = u /\ draft' = saved
      /\ ~Atomic => UNCHANGED <<opener, draft>>
  BY DEF BeginStep
<1>3. LocalTypeOK'
  BY <1>1, <1>2 DEF LocalTypeOK, StepSize
<1>4. TableFirst'
  BY <1>1, <1>2 DEF TableFirst, LocalTypeOK
<1>5. OpenerInside'
  BY <1>1, <1>2 DEF OpenerInside, LocalTypeOK, Atomic
<1>6. StatesWhole'
  <2>0. /\ First(u) \in Files /\ First(u)' = First(u)
        /\ \A v \in Ups : First(v)' = First(v)
    BY <1>1, <1>2, FirstLeft DEF First
  <2>1. CASE Atomic
    BY <1>1, <1>2, <2>0, <2>1
       DEF StatesWhole, HoldsWhole, LocalTypeOK, Atomic, OpenerInside
  <2>2. CASE ~Atomic
    <3>1. ASSUME NEW v \in Ups, upPc'[v] = "stepping"
          PROVE  part'[v] <= saved.shows[First(v)]
      BY <1>1, <1>2, <2>0, <2>2, <3>1 DEF StatesWhole, LocalTypeOK, StepSize
    <3> QED
      BY <1>1, <1>2, <2>0, <2>2, <3>1 DEF StatesWhole, Atomic, OpenerInside
  <2> QED
    BY <2>1, <2>2
<1>7. PlansStand' /\ (adapter' # "sqlite" => PlansHold')
  BY <1>1, <1>2 DEF PlansStand, PlansHold, LocalTypeOK
<1> QED
  BY <1>3, <1>4, <1>5, <1>6, <1>7 DEF LocalInv

\* rollback, or the end of the process, leaves what is saved.
LEMMA UndoKeeps ==
    ASSUME LocalInv, (\E u \in Ups : RollbackStep(u)) \/ ProcessDies
    PROVE  LocalInv'
<1> USE LocalAssumption DEF GoOn, Inside
<1>1. LocalTypeOK /\ TableFirst /\ OpenerInside /\ StatesWhole /\ PlansStand
      /\ (adapter # "sqlite" => PlansHold)
  BY DEF LocalInv
<1>2. /\ UNCHANGED <<adapter, sure, saved, draft, left, done, part>>
      /\ opener' \in {opener, Nobody}
      /\ \A v \in Ups : \/ upPc'[v] = upPc[v] /\ (opener = v => opener' = v)
                        \/ upPc'[v] \in {"refused", "dead"} /\ opener' # v
      /\ upPc' \in [Ups -> {"idle", "listing", "next", "returned", "refused",
                            "dead"}
                          \cup Inside]
  <2>1. ASSUME NEW u \in Ups, RollbackStep(u)
        PROVE  <1>2!2 /\ <1>2!3 /\ <1>2!4
    BY <1>1, <2>1 DEF RollbackStep, LocalTypeOK, OpenerInside
  <2> QED
    BY <1>1, <2>1 DEF RollbackStep, ProcessDies, LocalTypeOK
<1>3. LocalTypeOK'
  BY <1>1, <1>2 DEF LocalTypeOK
<1>4. TableFirst' /\ OpenerInside'
  BY <1>1, <1>2 DEF TableFirst, OpenerInside, LocalTypeOK, Atomic
<1>5. StatesWhole'
  BY <1>1, <1>2 DEF StatesWhole, HoldsWhole, LocalTypeOK, Atomic, First
<1>6. PlansStand' /\ (adapter' # "sqlite" => PlansHold')
  BY <1>1, <1>2 DEF PlansStand, PlansHold, LocalTypeOK
<1> QED
  BY <1>3, <1>4, <1>5, <1>6 DEF LocalInv

\* A statement of a step runs in the transaction of its call, or by itself
\* where there is none.
LEMMA RunKeeps == ASSUME LocalInv, NEW u \in Ups, RunNext(u) PROVE LocalInv'
<1> USE LocalAssumption DEF GoOn, Inside
<1>1. LocalTypeOK /\ TableFirst /\ OpenerInside /\ StatesWhole /\ PlansStand
      /\ (adapter # "sqlite" => PlansHold)
  BY DEF LocalInv
<1> DEFINE f == First(u)
           Next1(db) == [db EXCEPT !.shows[f] = @ + 1]
<1>2. /\ upPc[u] = "stepping" /\ upPc' = upPc
      /\ part[u] < StepSize /\ part' = [part EXCEPT ![u] = @ + 1]
      /\ UNCHANGED <<adapter, sure, opener, left, done>>
      /\ f \in Files /\ left[u] # {}
      /\ \A v \in Ups : First(v)' = First(v)
  BY <1>1, FirstLeft DEF RunNext, LocalTypeOK, First
<1>3. CASE Atomic
  <2>1. /\ opener = u /\ draft.shows[f] = part[u]
        /\ draft' = Next1(draft) /\ saved' = saved
    BY <1>1, <1>2, <1>3 DEF RunNext, OpenerInside, View, Land, LocalTypeOK
  <2>2. f \notin draft.rows
    <3>1. \A g \in Files : g \in draft.rows => draft.shows[g] = StepSize
      BY <1>1, <1>2, <2>1 DEF StatesWhole, HoldsWhole
    <3> QED
      BY <1>1, <1>2, <2>1, <3>1 DEF LocalTypeOK, StepSize
  <2>3. /\ draft'.table = draft.table /\ draft'.rows = draft.rows
        /\ draft'.shows = [draft.shows EXCEPT ![f] = part[u] + 1]
        /\ draft' \in [table : BOOLEAN, rows : SUBSET Files,
                       shows : [Files -> 0 .. StepSize]]
    BY <1>1, <1>2, <2>1 DEF LocalTypeOK, StepSize
  <2>4. LocalTypeOK'
    BY <1>1, <1>2, <2>1, <2>3 DEF LocalTypeOK, StepSize
  <2>5. TableFirst' /\ OpenerInside'
    BY <1>1, <1>2, <2>1, <2>3 DEF TableFirst, OpenerInside, LocalTypeOK, Atomic
  <2>6. StatesWhole'
    BY <1>1, <1>2, <1>3, <2>1, <2>2, <2>3
       DEF StatesWhole, HoldsWhole, LocalTypeOK, Atomic
  <2>7. PlansStand' /\ (adapter' # "sqlite" => PlansHold')
    BY <1>1, <1>2, <2>1 DEF PlansStand, PlansHold, LocalTypeOK
  <2> QED
    BY <2>4, <2>5, <2>6, <2>7 DEF LocalInv
<1>4. CASE ~Atomic
  <2>1. /\ opener = Nobody /\ saved.shows[f] = part[u]
        /\ saved' = Next1(saved) /\ draft' = draft
    BY <1>1, <1>2, <1>4 DEF RunNext, OpenerInside, View, Land, Atomic
  <2>2. f \notin saved.rows
    BY <1>1, <1>2, <1>4, <2>1 DEF StatesWhole, LocalTypeOK
  <2>3. /\ saved'.table = saved.table /\ saved'.rows = saved.rows
        /\ saved'.shows = [saved.shows EXCEPT ![f] = part[u] + 1]
        /\ saved' \in [table : BOOLEAN, rows : SUBSET Files,
                       shows : [Files -> 0 .. StepSize]]
    BY <1>1, <1>2, <2>1 DEF LocalTypeOK, StepSize
  <2>4. LocalTypeOK'
    BY <1>1, <1>2, <2>1, <2>3 DEF LocalTypeOK, StepSize
  <2>5. TableFirst' /\ OpenerInside'
    BY <1>1, <1>2, <2>1, <2>3 DEF TableFirst, OpenerInside, LocalTypeOK, Atomic
  <2>6. StatesWhole'
    <3>1. ASSUME NEW v \in Ups, upPc[v] = "stepping"
          PROVE  part'[v] <= saved'.shows[First(v)]
      <4>1. part[v] <= saved.shows[First(v)] /\ First(v) \in Files
            /\ saved.shows[First(v)] \in Int /\ part[v] \in Int
        BY <1>1, <1>4, <3>1, FirstLeft DEF StatesWhole, LocalTypeOK
      <4> QED
        BY <1>1, <1>2, <2>1, <2>3, <4>1 DEF LocalTypeOK
    <3>2. \A g \in saved'.rows : saved'.shows[g] = StepSize
      BY <1>1, <1>4, <2>2, <2>3 DEF StatesWhole, LocalTypeOK
    <3> QED
      BY <1>2, <1>4, <2>1, <3>1, <3>2, LocalAssumption DEF StatesWhole, Atomic
  <2>7. PlansStand' /\ (adapter' # "sqlite" => PlansHold')
    BY <1>1, <1>2, <2>3 DEF PlansStand, PlansHold, LocalTypeOK
  <2> QED
    BY <2>4, <2>5, <2>6, <2>7 DEF LocalInv
<1> QED
  BY <1>3, <1>4

\* A row is recorded when the step has run to its end, after those before it.
LEMMA MarkKeeps == ASSUME LocalInv, NEW u \in Ups, MarkRow(u) PROVE LocalInv'
<1> USE LocalAssumption DEF GoOn, Inside
<1>1. LocalTypeOK /\ TableFirst /\ OpenerInside /\ StatesWhole /\ PlansStand
      /\ (adapter # "sqlite" => PlansHold)
  BY DEF LocalInv
<1> DEFINE f == First(u)
           Marked(db) == [db EXCEPT !.table = TRUE, !.rows = @ \cup {f}]
<1>2. /\ upPc[u] = "stepping" /\ part[u] = StepSize
      /\ UNCHANGED <<adapter, sure, opener, part>>
      /\ f \in Files /\ left[u] # {} /\ \A g \in left[u] : f <= g
      /\ upPc' = [upPc EXCEPT ![u] = IF Atomic THEN "committing" ELSE "next"]
  BY <1>1, FirstLeft DEF MarkRow, LocalTypeOK
<1>3. CASE Atomic
  <2>1. /\ opener = u /\ f \notin draft.rows
        /\ draft' = Marked(draft) /\ saved' = saved
        /\ UNCHANGED <<left, done>>
        /\ \A v \in Ups : First(v)' = First(v)
    BY <1>1, <1>2, <1>3
       DEF MarkRow, OpenerInside, View, Land, LocalTypeOK, First
  <2>2. /\ draft'.table = TRUE /\ draft'.rows = draft.rows \cup {f}
        /\ draft'.shows = draft.shows
        /\ draft' \in [table : BOOLEAN, rows : SUBSET Files,
                       shows : [Files -> 0 .. StepSize]]
    BY <1>1, <1>2, <2>1 DEF LocalTypeOK
  <2>3. LocalTypeOK'
    BY <1>1, <1>2, <2>1, <2>2 DEF LocalTypeOK
  <2>4. TableFirst' /\ OpenerInside'
    BY <1>1, <1>2, <1>3, <2>1, <2>2
       DEF TableFirst, OpenerInside, LocalTypeOK, Atomic
  <2>5. StatesWhole'
    BY <1>1, <1>2, <1>3, <2>1, <2>2
       DEF StatesWhole, HoldsWhole, LocalTypeOK, Atomic
  <2>6. PlansStand' /\ (adapter' # "sqlite" => PlansHold')
    BY <1>1, <1>2, <1>3, <2>1 DEF PlansStand, PlansHold, LocalTypeOK
  <2> QED
    BY <2>3, <2>4, <2>5, <2>6 DEF LocalInv
<1>4. CASE ~Atomic
  <2>1. /\ opener = Nobody /\ f \notin saved.rows
        /\ saved' = Marked(saved) /\ draft' = draft
        /\ done' = [done EXCEPT ![u] = @ \cup {f}]
        /\ left' = [left EXCEPT ![u] = @ \ {f}]
        /\ adapter = "bare"
    BY <1>1, <1>2, <1>4
       DEF MarkRow, OpenerInside, View, Land, RanFirst, Atomic, LocalTypeOK
  <2>2. /\ saved'.table = TRUE /\ saved'.rows = saved.rows \cup {f}
        /\ saved'.shows = saved.shows
        /\ saved' \in [table : BOOLEAN, rows : SUBSET Files,
                       shows : [Files -> 0 .. StepSize]]
    BY <1>1, <1>2, <2>1 DEF LocalTypeOK
  <2>3. LocalTypeOK'
    BY <1>1, <1>2, <1>4, <2>1, <2>2 DEF LocalTypeOK
  <2>4. TableFirst' /\ OpenerInside'
    BY <1>1, <1>2, <1>4, <2>1, <2>2
       DEF TableFirst, OpenerInside, LocalTypeOK, Atomic
  <2>5. StatesWhole'
    <3>1. saved.shows[f] = StepSize
      BY <1>1, <1>2, <1>4 DEF StatesWhole, LocalTypeOK, StepSize
    <3>2. \A v \in Ups \ {u} : First(v)' = First(v) /\ upPc'[v] = upPc[v]
      BY <1>1, <1>2, <2>1 DEF First, LocalTypeOK
    <3>3. upPc'[u] = "next"
      BY <1>1, <1>2, <1>4 DEF LocalTypeOK
    <3> QED
      BY <1>1, <1>2, <1>4, <2>1, <2>2, <3>1, <3>2, <3>3 DEF StatesWhole, Atomic
  <2>6. PlansStand' /\ PlansHold'
    <3>1. \A v \in Ups \ {u} : left'[v] = left[v] /\ done'[v] = done[v]
                               /\ upPc'[v] = upPc[v]
      BY <1>1, <1>2, <2>1 DEF LocalTypeOK
    <3>2. /\ left'[u] = left[u] \ {f} /\ done'[u] = done[u] \cup {f}
          /\ upPc'[u] = "next" /\ Files \ left[u] \subseteq saved.rows
      BY <1>1, <1>2, <1>4, <2>1 DEF LocalTypeOK, PlansStand
    <3>3. PlansStand'
      BY <1>1, <1>2, <2>1, <2>2, <3>1, <3>2 DEF PlansStand
    <3>4. \A g \in Files : g < f => g \in saved.rows
      <4>1. \A g \in Files : g < f => g \notin left[u]
        BY <1>2 DEF Files
      <4> QED
        BY <3>2, <4>1
    <3> QED
      BY <1>1, <2>1, <2>2, <3>1, <3>2, <3>3, <3>4 DEF PlansHold
  <2> QED
    BY <2>1, <2>3, <2>4, <2>5, <2>6 DEF LocalInv
<1> QED
  BY <1>3, <1>4

\* commit makes the draft what is saved, with or without an answer.
LEMMA CommitKeeps ==
    ASSUME LocalInv, NEW u \in Ups, CommitStep(u) \/ AnswerLost(u)
    PROVE  LocalInv'
<1> USE LocalAssumption DEF GoOn, Inside
<1>1. LocalTypeOK /\ TableFirst /\ OpenerInside /\ StatesWhole /\ PlansStand
      /\ (adapter # "sqlite" => PlansHold)
  BY DEF LocalInv
<1> DEFINE f == First(u)
<1>2. /\ opener = u /\ opener' = Nobody /\ saved' = draft /\ draft' = draft
      /\ upPc[u] = "committing" /\ UNCHANGED <<adapter, sure, part>>
      /\ upPc' \in [Ups -> {"idle", "listing", "next", "returned", "refused",
                            "dead"} \cup Inside]
      /\ upPc'[u] \in {"next", "unwinding"}
      /\ upPc'[u] = "unwinding" => adapter = "libsql"
      /\ \A v \in Ups \ {u} : upPc'[v] = upPc[v]
  BY <1>1 DEF CommitStep, AnswerLost, OpenerInside, LocalTypeOK
<1>3. Atomic /\ Atomic' /\ f \in left[u] /\ f \in Files
      /\ \A g \in left[u] : f <= g
  BY <1>1, <1>2, FirstLeft DEF LocalTypeOK, OpenerInside, Atomic
<1>4. /\ saved.rows \subseteq draft.rows
      /\ draft.rows \subseteq saved.rows \cup {f}
      /\ f \in draft.rows /\ HoldsWhole(draft, {})
  BY <1>1, <1>2, <1>3 DEF StatesWhole, HoldsWhole
<1>5. /\ left' \in [Ups -> SUBSET Files] /\ done' \in [Ups -> SUBSET Files]
      /\ left'[u] \in {left[u], left[u] \ {f}}
      /\ done'[u] \in {done[u], done[u] \cup {f}}
      /\ upPc'[u] = "next" => left'[u] = left[u] \ {f}
      /\ \A v \in Ups \ {u} : left'[v] = left[v] /\ done'[v] = done[v]
  BY <1>1, <1>3 DEF CommitStep, AnswerLost, RanFirst, LocalTypeOK
<1>6. \A v \in Ups : upPc[v] \in {"stepping", "committing"} => v = u
  BY <1>1, <1>2, <1>3 DEF OpenerInside
<1>7. LocalTypeOK'
  BY <1>1, <1>2, <1>5, <1>6 DEF LocalTypeOK
<1>8. TableFirst' /\ OpenerInside'
  <2>1. saved.table /\ draft.table
    BY <1>1, <1>2, <1>3 DEF TableFirst, LocalTypeOK
  <2>2. TableFirst'
    BY <1>2, <2>1 DEF TableFirst
  <2>3. \A v \in Ups \ {u} :
           upPc[v] \notin {"stepping", "committing"}
           /\ (adapter = "sqlite" => upPc[v] \notin Inside)
    BY <1>1, <1>2, <1>3 DEF OpenerInside
  <2>4. OpenerInside'
    BY <1>2, <1>3, <2>3 DEF OpenerInside, Atomic
  <2> QED
    BY <2>2, <2>4
<1>9. StatesWhole'
  <2>1. HoldsWhole(saved, {})'
    BY <1>2, <1>4 DEF HoldsWhole
  <2> QED
    BY <1>2, <1>3, <2>1 DEF StatesWhole
<1>10. PlansStand' /\ (adapter' # "sqlite" => PlansHold')
  <2>1. \A v \in Ups : done'[v] \subseteq draft.rows
    BY <1>1, <1>4, <1>5 DEF PlansStand
  <2>2. adapter # "sqlite" => Files \ left[u] \subseteq saved.rows
    BY <1>1, <1>2 DEF PlansStand
  <2>3. ASSUME NEW v \in Ups, adapter # "sqlite",
               upPc'[v] \in {"next"} \cup Inside
        PROVE  Files \ left'[v] \subseteq draft.rows
    <3>1. CASE v = u
      BY <1>4, <1>5, <2>2, <2>3, <3>1
    <3>2. CASE v # u
      BY <1>1, <1>2, <1>4, <1>5, <2>3, <3>2 DEF PlansStand
    <3> QED
      BY <3>1, <3>2
  <2>4. PlansStand'
    BY <1>2, <2>1, <2>3 DEF PlansStand
  <2>5. ASSUME adapter # "sqlite" PROVE PlansHold'
    <3>1. \A g \in Files : g < f => g \in saved.rows
      <4>1. \A g \in Files : g < f => g \notin left[u]
        BY <1>3 DEF Files
      <4> QED
        BY <2>2, <2>5, <4>1
    <3>2. \A h \in draft.rows : \A g \in Files : g < h => g \in draft.rows
      BY <1>1, <1>4, <2>5, <3>1 DEF PlansHold
    <3>3. \A v \in Ups : upPc'[v] = "returned" => Files \subseteq draft.rows
      BY <1>1, <1>2, <1>4, <2>5 DEF PlansHold
    <3> QED
      BY <1>2, <3>2, <3>3 DEF PlansHold
  <2> QED
    BY <1>2, <2>4, <2>5
<1> QED
  BY <1>7, <1>8, <1>9, <1>10 DEF LocalInv

\* Before the first call.
LEMMA LocalStart == LocalInit => LocalInv
<1> SUFFICES ASSUME LocalInit PROVE LocalInv
  OBVIOUS
<1> USE LocalAssumption DEF Inside, StepSize
<1>1. LocalTypeOK
  <2>1. saved \in [table : BOOLEAN, rows : SUBSET Files,
                   shows : [Files -> 0 .. StepSize]] /\ draft = saved
    BY DEF LocalInit, Resting, Blank
  <2>2. /\ adapter \in {"sqlite", "libsql", "bare"} /\ sure \in BOOLEAN
        /\ opener = Nobody
    BY DEF LocalInit, Resting
  <2>3. /\ upPc \in [Ups -> {"idle"}] /\ left \in [Ups -> {{}}]
        /\ done \in [Ups -> {{}}] /\ part \in [Ups -> {0}]
    BY DEF LocalInit, Resting
  <2> QED
    BY <2>1, <2>2, <2>3 DEF LocalTypeOK
<1>2. TableFirst /\ OpenerInside
  BY DEF LocalInit, Resting, Blank, TableFirst, OpenerInside
<1>3. StatesWhole
  BY DEF LocalInit, Resting, Blank, StatesWhole, HoldsWhole
<1>4. PlansStand /\ PlansHold
  BY DEF LocalInit, Resting, Blank, PlansStand, PlansHold
<1> QED
  BY <1>1, <1>2, <1>3, <1>4 DEF LocalInv

\* Every step of every call keeps it, and the end of the process.
LEMMA LocalStep == LocalInv /\ [LocalNext]_localVars => LocalInv'
<1> SUFFICES ASSUME LocalInv, [LocalNext]_localVars PROVE LocalInv'
  OBVIOUS
<1>1. ASSUME NEW u \in Ups,
             \/ Ensure(u) \/ List(u) \/ BeginStep(u) \/ BeginRefused(u)
             \/ RunNext(u) \/ MarkRow(u) \/ CommitStep(u) \/ Refused(u)
             \/ AnswerLost(u) \/ RollbackStep(u) \/ Return(u)
      PROVE  LocalInv'
  BY <1>1, EnsureKeeps, PlanningKeeps, BeginKeeps, UndoKeeps, RunKeeps,
     MarkKeeps, CommitKeeps
<1>2. CASE ProcessDies
  BY <1>2, UndoKeeps
<1>3. CASE UNCHANGED localVars
  BY <1>3
     DEF localVars, LocalInv, LocalTypeOK, TableFirst, OpenerInside,
         StatesWhole, HoldsWhole, PlansStand, PlansHold, Atomic, First
<1> QED
  BY <1>1, <1>2, <1>3 DEF LocalNext

\* However the statements of any number of calls of migrate() fall, and
\* wherever one fails or the process ends: what is recorded has run to its end,
\* and what is not has left nothing in a database with transactions; what a
\* call says it ran is recorded; and but on SQLite's one connection the history
\* has no gap and a call that returned left nothing pending.
THEOREM LocalHistory == LocalSpec => []LocalHistoryHolds
<1>1. LocalInv => LocalHistoryHolds
  BY DEF LocalInv, TableFirst, StatesWhole, HoldsWhole, PlansStand,
         LocalHistoryHolds, LocalTypeOK
<1> QED
  BY <1>1, LocalStart, LocalStep, PTL DEF LocalSpec

-----------------------------------------------------------------------------

\* Every order term has a direction.
Directions == dirs \in [1 .. Width -> {"asc", "desc"}]

\* Two rows differ in a first place: the last column is unique.
LEMMA FirstDifference ==
    ASSUME NEW x \in Rows, NEW y \in Rows, x # y
    PROVE  \E i \in 1 .. Width :
              x[i] # y[i] /\ \A j \in 1 .. i - 1 : x[j] = y[j]
<1> DEFINE D == {i \in 1 .. Width : x[i] # y[i]}
<1>1. Width \in D /\ D \subseteq Nat
  BY KeysetAssumption
<1>2. \E i \in D : \A j \in D : ~(j < i)
  <2>1. PICK i \in D : \A j \in D : <<j, i>> \notin OpToRel(<, Nat)
    BY <1>1, NatLessThanWellFounded, WFMin, Zenon
  <2>2. \A j \in D : ~(j < i)
    BY <1>1, <2>1 DEF OpToRel
  <2> QED
    BY <2>2
<1>3. PICK i \in D : \A j \in D : ~(j < i)
  BY <1>2
<1>4. ASSUME NEW j \in 1 .. i - 1 PROVE x[j] = y[j]
  BY <1>1, <1>3, KeysetAssumption
<1> QED
  BY <1>3, <1>4

\* The expanded comparison of the order terms is a strict order of the rows,
\* and total.
LEMMA ExpandedOrders ==
    ASSUME Directions, NEW x \in Rows, NEW y \in Rows
    PROVE  /\ ~Expanded(x, x)
           /\ x # y => Expanded(x, y) \/ Expanded(y, x)
           /\ \A z \in Rows :
                 Expanded(x, y) /\ Expanded(y, z) => Expanded(x, z)
<1>1. \A r \in Rows : \A i \in 1 .. Width : r[i] \in Int
  BY KeysetAssumption
<1>2. Width \in Nat
  BY KeysetAssumption
<1>3. ~Expanded(x, x)
  BY <1>2, <1>1 DEF Expanded, Beyond
<1>4. ASSUME x # y PROVE Expanded(x, y) \/ Expanded(y, x)
  <2>1. PICK i \in 1 .. Width :
           x[i] # y[i] /\ \A j \in 1 .. i - 1 : x[j] = y[j]
    BY <1>4, FirstDifference
  <2>2. Beyond(i, x, y) \/ Beyond(i, y, x)
    BY <1>1, <2>1 DEF Beyond, Directions
  <2> QED
    BY <2>1, <2>2 DEF Expanded
<1>5. ASSUME NEW z \in Rows, Expanded(x, y), Expanded(y, z)
      PROVE  Expanded(x, z)
  <2>1. PICK i \in 1 .. Width :
           Beyond(i, x, y) /\ \A j \in 1 .. i - 1 : x[j] = y[j]
    BY <1>5 DEF Expanded
  <2>2. PICK k \in 1 .. Width :
           Beyond(k, y, z) /\ \A j \in 1 .. k - 1 : y[j] = z[j]
    BY <1>5 DEF Expanded
  <2>3. CASE i < k
    <3>1. y[i] = z[i] /\ \A j \in 1 .. i - 1 : x[j] = z[j]
      BY <1>2, <2>1, <2>2, <2>3
    <3> QED
      BY <2>1, <3>1 DEF Expanded, Beyond
  <2>4. CASE k < i
    <3>1. x[k] = y[k] /\ \A j \in 1 .. k - 1 : x[j] = z[j]
      BY <1>2, <2>1, <2>2, <2>4
    <3> QED
      BY <2>2, <3>1 DEF Expanded, Beyond
  <2>5. CASE i = k
    <3>1. Beyond(i, x, z)
      BY <1>1, <2>1, <2>2, <2>5 DEF Beyond
    <3>2. \A j \in 1 .. i - 1 : x[j] = z[j]
      BY <2>1, <2>2, <2>5
    <3> QED
      BY <3>1, <3>2 DEF Expanded
  <2> QED
    BY <1>2, <2>3, <2>4, <2>5
<1> QED
  BY <1>3, <1>4, <1>5

\* A row's rank is below the number of rows, and grows with the order.
LEMMA RanksApart ==
    ASSUME Directions, NEW S \in SUBSET Rows, NEW x \in S
    PROVE  /\ Rank(x, S) \in 0 .. Cardinality(S) - 1
           /\ \A y \in S : Expanded(y, x) => Rank(x, S) < Rank(y, S)
<1> DEFINE Earlier(z) == {r \in S : Expanded(z, r)}
<1>1. IsFiniteSet(S) /\ x \in Rows
  BY FS_Subset, KeysetAssumption
<1>2. \A z \in S :
         IsFiniteSet(Earlier(z)) /\ Rank(z, S) = Cardinality(Earlier(z))
  BY <1>1, FS_Subset DEF Rank
<1>3. x \notin Earlier(x)
  BY ExpandedOrders
<1>4. Rank(x, S) \in 0 .. Cardinality(S) - 1
  <2>1. Earlier(x) \in SUBSET S /\ Earlier(x) # S
    BY <1>3
  <2>2. Cardinality(Earlier(x)) <= Cardinality(S)
        /\ Cardinality(Earlier(x)) # Cardinality(S)
    BY <1>1, <2>1, FS_Subset
  <2>3. Cardinality(Earlier(x)) \in Nat /\ Cardinality(S) \in Nat
    BY <1>1, <1>2, FS_CardinalityType
  <2> QED
    BY <1>2, <2>2, <2>3
<1>5. ASSUME NEW y \in S, Expanded(y, x) PROVE Rank(x, S) < Rank(y, S)
  <2>1. Earlier(x) \in SUBSET Earlier(y) /\ Earlier(x) # Earlier(y)
    <3>1. \A r \in Earlier(x) : Expanded(y, r)
      BY <1>5, ExpandedOrders
    <3>2. x \in Earlier(y)
      BY <1>5
    <3> QED
      BY <1>3, <3>1, <3>2
  <2>2. Cardinality(Earlier(x)) <= Cardinality(Earlier(y))
        /\ Cardinality(Earlier(x)) # Cardinality(Earlier(y))
    BY <1>2, <2>1, FS_Subset
  <2>3. Cardinality(Earlier(x)) \in Nat /\ Cardinality(Earlier(y)) \in Nat
    BY <1>2, FS_CardinalityType
  <2> QED
    BY <1>2, <2>2, <2>3
<1> QED
  BY <1>4, <1>5

\* ORDER BY gives each row its place: every row is there, in the order asked
\* for.
LEMMA OrderedSorts ==
    ASSUME Directions, NEW S \in SUBSET Rows
    PROVE  /\ Ordered(S) \in Seq(S)
           /\ \A x \in S : \E i \in DOMAIN Ordered(S) : Ordered(S)[i] = x
           /\ \A i, j \in DOMAIN Ordered(S) :
                 i < j => Expanded(Ordered(S)[j], Ordered(S)[i])
<1> DEFINE n == Cardinality(S)
           rank == [x \in S |-> Rank(x, S)]
           s == Ordered(S)
<1>1. IsFiniteSet(S) /\ n \in Nat
  BY FS_Subset, FS_CardinalityType, KeysetAssumption
<1>2. rank \in Injection(S, 0 .. n - 1)
  <2>1. rank \in [S -> 0 .. n - 1]
    BY RanksApart
  <2>2. ASSUME NEW x \in S, NEW y \in S, x # y PROVE rank[x] # rank[y]
    <3>1. CASE Expanded(x, y)
      BY <2>1, <3>1, RanksApart
    <3>2. CASE Expanded(y, x)
      BY <2>1, <3>2, RanksApart
    <3> QED
      BY <2>2, <3>1, <3>2, ExpandedOrders
  <2> QED
    BY <2>1, <2>2 DEF Injection, IsInjective
<1>3. IsFiniteSet(0 .. n - 1) /\ Cardinality(0 .. n - 1) = n
  BY <1>1, FS_Interval
<1>4. rank \in Surjection(S, 0 .. n - 1)
  BY <1>1, <1>2, <1>3, FS_Injection
<1>5. \A i \in 1 .. n : s[i] \in S /\ Rank(s[i], S) = i - 1
  <2>1. ASSUME NEW i \in 1 .. n PROVE s[i] \in S /\ Rank(s[i], S) = i - 1
    <3>1. i - 1 \in 0 .. n - 1
      BY <1>1
    <3>2. \E x \in S : rank[x] = i - 1
      BY <1>4, <3>1 DEF Surjection
    <3>3. s[i] = CHOOSE row \in S : Rank(row, S) = i - 1
      BY DEF Ordered
    <3> QED
      BY <3>2, <3>3
  <2> QED
    BY <2>1
<1>6. s \in Seq(S) /\ DOMAIN s = 1 .. n
  BY <1>1, <1>5 DEF Ordered
<1>7. ASSUME NEW x \in S PROVE \E i \in DOMAIN s : s[i] = x
  <2>1. Rank(x, S) + 1 \in 1 .. n
    BY <1>1, RanksApart
  <2>2. Rank(s[Rank(x, S) + 1], S) = Rank(x, S) /\ s[Rank(x, S) + 1] \in S
    BY <1>5, <2>1, RanksApart, <1>1
  <2>3. s[Rank(x, S) + 1] = x
    BY <1>2, <2>2 DEF Injection, IsInjective
  <2> QED
    BY <1>6, <2>1, <2>3
<1>8. ASSUME NEW i \in 1 .. n, NEW j \in 1 .. n, i < j
      PROVE  Expanded(s[j], s[i])
  <2>1. /\ s[i] \in S /\ s[j] \in S /\ s[i] # s[j]
        /\ Rank(s[i], S) < Rank(s[j], S)
    BY <1>1, <1>5, <1>8
  <2>2. ~Expanded(s[i], s[j])
    <3>1. SUFFICES ASSUME Expanded(s[i], s[j]) PROVE FALSE
      OBVIOUS
    <3>2. Rank(s[j], S) < Rank(s[i], S)
      BY <2>1, <3>1, RanksApart
    <3> QED
      BY <1>1, <1>5, <1>8, <3>2
  <2> QED
    BY <2>1, <2>2, ExpandedOrders
<1> QED
  BY <1>6, <1>7, <1>8

\* One reader, by itself, and the writers.
KeysetSpec == KeysetInit /\ [][KeysetNext]_keysetVars

\* The type of a reader's state.
ReaderTypeOK ==
    /\ table \in SUBSET Rows /\ throughout \in SUBSET table
    /\ Directions /\ limit \in Nat \ {0}
    /\ cursor \in Seq(Rows) /\ Len(cursor) <= 1
    /\ paged \in Seq(Rows) /\ more \in BOOLEAN

\* The rows of the pages are in the order asked for, so none is there twice.
InOrder == \A i, j \in DOMAIN paged : i < j => Expanded(paged[j], paged[i])

\* The cursor is the last row read, while there is a next page.
AtLast ==
    more => IF cursor = <<>> THEN paged = <<>>
            ELSE paged # <<>> /\ cursor[1] = paged[Len(paged)]

\* A row that was there all along has been read, or comes after the cursor.
NoneSkipped ==
    \A r \in throughout :
       \/ \E i \in DOMAIN paged : paged[i] = r
       \/ more /\ \A i \in DOMAIN cursor : Expanded(r, cursor[i])

\* What holds before every page.
ReaderInv == ReaderTypeOK /\ InOrder /\ AtLast /\ NoneSkipped

\* A row that another session inserts or deletes was not there all along.
LEMMA WriteKeeps == ASSUME ReaderInv, Write PROVE ReaderInv'
<1>1. /\ table' \in SUBSET Rows /\ throughout' \in SUBSET table'
      /\ throughout' \subseteq throughout
      /\ UNCHANGED <<dirs, limit, cursor, paged, more>>
  BY DEF Write, ReaderInv, ReaderTypeOK
<1> QED
  BY <1>1
     DEF ReaderInv, ReaderTypeOK, Directions, InOrder, AtLast, NoneSkipped,
         Expanded, Beyond

\* What the statement of a page fetches, and the page that is cut from it.
FetchedOf(found, n) ==
    SubSeq(found, 1,
           IF Len(found) < Fetched(n) THEN Len(found) ELSE Fetched(n))

PageOf(found, n) ==
    IF Len(FetchedOf(found, n)) <= n THEN FetchedOf(found, n)
    ELSE SubSeq(FetchedOf(found, n), 1, n)

\* A page is the first rows found, and one row more tells of a next page.
LEMMA FirstPage ==
    ASSUME NEW S, NEW found \in Seq(S), NEW n \in Nat \ {0}
    PROVE  /\ (Len(FetchedOf(found, n)) > n) <=> (Len(found) > n)
           /\ PageOf(found, n) \in Seq(S)
           /\ Len(PageOf(found, n)) = IF Len(found) <= n THEN Len(found) ELSE n
           /\ \A i \in DOMAIN PageOf(found, n) :
                 i \in DOMAIN found /\ PageOf(found, n)[i] = found[i]
           /\ Len(found) > n => Last(PageOf(found, n)) = PageOf(found, n)[n]
<1>1. CASE Len(found) <= n
  <2>1. FetchedOf(found, n) = SubSeq(found, 1, Len(found))
    BY <1>1 DEF FetchedOf, Fetched
  <2>2. FetchedOf(found, n) = found
    BY <2>1
  <2>3. PageOf(found, n) = found
    BY <1>1, <2>2 DEF PageOf
  <2> QED
    BY <1>1, <2>2, <2>3
<1>2. CASE Len(found) > n
  <2>1. n + 1 \in 0 .. Len(found)
    BY <1>2
  <2>2. FetchedOf(found, n) = SubSeq(found, 1, n + 1)
    BY <1>2 DEF FetchedOf, Fetched
  <2> DEFINE f == SubSeq(found, 1, n + 1)
  <2>3. /\ f \in Seq(S) /\ Len(f) = n + 1
        /\ \A i \in 1 .. n + 1 : f[i] = found[i]
    BY <2>1
  <2>4. PageOf(found, n) = SubSeq(f, 1, n)
    BY <2>2, <2>3 DEF PageOf
  <2> HIDE DEF f
  <2>5. /\ PageOf(found, n) \in Seq(S) /\ Len(PageOf(found, n)) = n
        /\ \A i \in 1 .. n : PageOf(found, n)[i] = f[i]
    BY <2>3, <2>4
  <2> QED
    BY <1>2, <2>2, <2>3, <2>5 DEF Last, f
<1> QED
  BY <1>1, <1>2

\* A page goes on where the last one ended, and leaves no row out.
LEMMA PageKeeps == ASSUME ReaderInv, FetchPage PROVE ReaderInv'
<1> DEFINE beyond == {r \in table :
                         \A i \in DOMAIN cursor : Expanded(r, cursor[i])}
           found == Ordered(beyond)
           page == PageOf(found, limit)
<1>1. ReaderTypeOK /\ InOrder /\ AtLast /\ NoneSkipped /\ more
  BY DEF ReaderInv, FetchPage
<1>2. beyond \in SUBSET Rows /\ limit \in Nat \ {0} /\ Directions
      /\ beyond \subseteq table
  BY <1>1 DEF ReaderTypeOK
<1>3. /\ found \in Seq(beyond)
      /\ \A x \in beyond : \E i \in DOMAIN found : found[i] = x
      /\ \A i, j \in DOMAIN found : i < j => Expanded(found[j], found[i])
  BY <1>2, OrderedSorts
<1> HIDE DEF beyond, found
<1>4. DOMAIN found = 1 .. Len(found) /\ Len(found) \in Nat
  BY <1>3
<1>5. /\ page \in Seq(beyond)
      /\ Len(page) = IF Len(found) <= limit THEN Len(found) ELSE limit
      /\ \A i \in DOMAIN page : i \in DOMAIN found /\ page[i] = found[i]
  BY <1>2, <1>3, FirstPage
<1>6. /\ paged' = paged \o page
      /\ more' \in BOOLEAN /\ (more' <=> Len(found) > limit)
      /\ cursor' = IF Len(found) > limit THEN <<page[limit]>> ELSE cursor
      /\ UNCHANGED <<table, dirs, limit, throughout>>
  <2>1. /\ (Len(FetchedOf(found, limit)) > limit) <=> (Len(found) > limit)
        /\ Len(found) > limit => Last(page) = page[limit]
    BY <1>2, <1>3, FirstPage
  <2>2. /\ paged' = paged \o page
        /\ more' = (Len(FetchedOf(found, limit)) > limit)
        /\ cursor' = IF Len(FetchedOf(found, limit)) > limit
                     THEN <<Last(page)>> ELSE cursor
        /\ UNCHANGED <<table, dirs, limit, throughout>>
    BY DEF FetchPage, FetchedOf, PageOf, beyond, found
  <2> HIDE DEF page
  <2>3. more' \in BOOLEAN
        /\ (more' <=> (Len(FetchedOf(found, limit)) > limit))
    <3> DEFINE b == Len(FetchedOf(found, limit)) > limit
    <3>1. b \in BOOLEAN
      OBVIOUS
    <3>2. more' = b
      BY <2>2
    <3> HIDE DEF b
    <3>3. more' \in BOOLEAN /\ (more' <=> b)
      BY <3>1, <3>2
    <3> QED
      BY <3>3 DEF b
  <2>4. more' <=> (Len(found) > limit)
    BY <2>1, <2>3
  <2> QED
    BY <2>1, <2>2, <2>3, <2>4
<1>7. /\ \A r \in beyond, i \in DOMAIN cursor : Expanded(r, cursor[i])
      /\ \A r \in throughout :
            (\A i \in DOMAIN cursor : Expanded(r, cursor[i])) => r \in beyond
  BY <1>1 DEF ReaderTypeOK, beyond
<1> HIDE DEF page
<1>8. /\ paged \in Seq(Rows) /\ page \in Seq(Rows) /\ paged' \in Seq(Rows)
      /\ Len(paged') = Len(paged) + Len(page)
      /\ \A i \in 1 .. Len(paged) : paged'[i] = paged[i]
      /\ \A i \in 1 .. Len(page) : paged'[Len(paged) + i] = page[i]
      /\ \A i \in DOMAIN paged' :
            \/ i \in DOMAIN paged
            \/ /\ i - Len(paged) \in DOMAIN page
               /\ paged'[i] = page[i - Len(paged)]
      /\ DOMAIN paged = 1 .. Len(paged) /\ Len(paged) \in Nat
      /\ DOMAIN page = 1 .. Len(page) /\ Len(page) \in Nat
      /\ DOMAIN paged' = 1 .. Len(paged')
  <2>1. paged \in Seq(Rows) /\ page \in Seq(Rows)
    BY <1>1, <1>2, <1>5 DEF ReaderTypeOK
  <2> QED
    BY <1>6, <2>1
<1>9. ReaderTypeOK'
  <2>1. cursor' \in Seq(Rows) /\ Len(cursor') <= 1
    BY <1>1, <1>2, <1>4, <1>5, <1>6, <1>8 DEF ReaderTypeOK
  <2> QED
    BY <1>1, <1>6, <1>8, <2>1 DEF ReaderTypeOK, Directions
<1>10. InOrder'
  <2>1. ASSUME NEW i \in DOMAIN paged, NEW j \in DOMAIN page
        PROVE  Expanded(page[j], paged[i])
    <3>1. cursor # <<>> /\ cursor[1] = paged[Len(paged)] /\ 1 \in DOMAIN cursor
      BY <1>1, <2>1 DEF AtLast, ReaderTypeOK
    <3>2. page[j] \in beyond /\ page[j] \in Rows /\ paged[i] \in Rows
      BY <1>2, <1>5, <1>8, <2>1
    <3>3. Expanded(page[j], paged[Len(paged)])
      BY <1>7, <3>1, <3>2
    <3>4. paged[Len(paged)] \in Rows
          /\ (i # Len(paged) => Expanded(paged[Len(paged)], paged[i]))
      BY <1>1, <1>8, <2>1 DEF InOrder
    <3> QED
      BY <1>2, <3>2, <3>3, <3>4, ExpandedOrders
  <2>2. \A i, j \in DOMAIN paged' : i < j => Expanded(paged'[j], paged'[i])
    <3> SUFFICES ASSUME NEW i \in DOMAIN paged', NEW j \in DOMAIN paged', i < j
                 PROVE  Expanded(paged'[j], paged'[i])
      OBVIOUS
    <3>1. CASE j \in DOMAIN paged
      BY <1>1, <1>8, <3>1 DEF InOrder
    <3>2. CASE j \notin DOMAIN paged /\ i \in DOMAIN paged
      BY <1>8, <2>1, <3>2
    <3>3. CASE j \notin DOMAIN paged /\ i \notin DOMAIN paged
      BY <1>3, <1>5, <1>8, <3>3
    <3> QED
      BY <3>1, <3>2, <3>3
  <2>3. ASSUME NEW i \in DOMAIN paged', NEW j \in DOMAIN paged', i < j
        PROVE  Expanded(paged[j], paged[i])'
    <3>1. Expanded(paged'[j], paged'[i])
      BY <2>2, <2>3
    <3> QED
      BY <1>6, <3>1 DEF Expanded, Beyond
  <2> QED
    BY <2>3 DEF InOrder
<1>11. AtLast'
  <2>1. ASSUME more'
        PROVE  /\ cursor' = <<page[limit]>> /\ paged' # <<>>
               /\ page[limit] = paged'[Len(paged')]
    <3>1. Len(found) > limit /\ Len(page) = limit /\ limit \in DOMAIN page
      BY <1>2, <1>5, <1>6, <1>8, <2>1
    <3>2. Len(paged') > 0 /\ paged'[Len(paged')] = page[limit]
      <4>1. Len(paged') = Len(paged) + limit /\ Len(paged) \in Nat
        BY <1>8, <3>1
      <4>2. paged'[Len(paged) + limit] = page[limit]
        BY <1>2, <1>8, <3>1
      <4> QED
        BY <1>2, <4>1, <4>2
    <3> QED
      BY <1>6, <3>1, <3>2
  <2> QED
    BY <2>1 DEF AtLast
<1>12. NoneSkipped'
  <2>1. ASSUME NEW r \in throughout
        PROVE  \/ \E i \in DOMAIN paged' : paged'[i] = r
               \/ more' /\ \A i \in DOMAIN cursor' : Expanded(r, cursor'[i])
    <3>1. CASE \E i \in DOMAIN paged : paged[i] = r
      BY <1>8, <3>1
    <3>2. CASE r \in beyond
      <4>1. PICK k \in DOMAIN found : found[k] = r
        BY <1>3, <3>2
      <4>2. CASE k \in DOMAIN page
        <5>1. Len(paged) + k \in DOMAIN paged' /\ paged'[Len(paged) + k] = r
          BY <1>5, <1>8, <4>1, <4>2
        <5> QED
          BY <5>1
      <4>3. CASE k \notin DOMAIN page
        <5>1. more' /\ limit < k /\ limit \in DOMAIN page
          BY <1>2, <1>4, <1>5, <1>6, <4>3
        <5>2. Expanded(r, page[limit])
          BY <1>3, <1>5, <4>1, <5>1
        <5>3. cursor' = <<page[limit]>>
          BY <1>6, <5>1
        <5> QED
          BY <5>1, <5>2, <5>3
      <4> QED
        BY <4>2, <4>3
    <3> QED
      BY <1>1, <1>7, <2>1, <3>1, <3>2 DEF NoneSkipped
  <2> QED
    BY <1>6, <2>1 DEF NoneSkipped, Expanded, Beyond
<1> QED
  BY <1>9, <1>10, <1>11, <1>12 DEF ReaderInv

\* For all rows, page sizes and mixed directions, and whatever others insert
\* or delete between the pages: no row is read twice, the rows come in the
\* order asked for, and when there is no next cursor every row that was there
\* all along has been read.
THEOREM PagesCover == KeysetSpec => []PagesCoverOnce
<1>1. KeysetInit => ReaderInv
  BY KeysetAssumption
     DEF KeysetInit, ReaderInv, ReaderTypeOK, Directions, InOrder, AtLast,
         NoneSkipped
<1>2. ReaderInv /\ [KeysetNext]_keysetVars => ReaderInv'
  <2> SUFFICES ASSUME ReaderInv, [KeysetNext]_keysetVars PROVE ReaderInv'
    OBVIOUS
  <2>1. CASE UNCHANGED keysetVars
    BY <2>1
       DEF keysetVars, ReaderInv, ReaderTypeOK, Directions, InOrder, AtLast,
           NoneSkipped, Expanded, Beyond
  <2> QED
    BY <2>1, PageKeeps, WriteKeeps DEF KeysetNext
<1>3. ReaderInv => PagesCoverOnce
  BY DEF ReaderInv, ReaderTypeOK, InOrder, NoneSkipped, PagesCoverOnce, Range
<1> QED
  BY <1>1, <1>2, <1>3, PTL DEF KeysetSpec

-----------------------------------------------------------------------------

\* One call of insertReturning, by itself, and the other sessions.
ReturningSpec == ReturningInit /\ [][ReturningNext]_returningVars

\* A row as it is given, and as it is stored.
GivenRow == [key : Seq(Nat), value : STRING]
TableRow == [key : Seq(Int), value : STRING]

\* The type of the call and of the table.
CallTypeOK ==
    /\ step \in {"attempt", "insert all", "insert", "read", "done", "refused",
                 "failed"}
    /\ batch \in Seq(GivenRow)
    /\ own \in Seq(TableRow) /\ keys \in Seq(Seq(Int))
    /\ step \in {"attempt", "insert all", "insert"} => nextId \in Int

\* What the call has inserted is there until it fails, with the values it was
\* given.
OwnThere ==
    /\ \A r, q \in rows : r.key = q.key => r = q
    /\ step \in {"refused", "failed"} => rows \cap Range(own) = {}
    /\ step \notin {"refused", "failed"} => Range(own) \subseteq rows
    /\ \A i \in DOMAIN own :
          i \in DOMAIN batch /\ own[i].value = batch[i].value

\* A key it keeps is that of the row it inserted, as the server has it or as it
\* was given.
OwnKeysKept ==
    /\ step \in {"attempt", "insert all"} => own = <<>> /\ keys = <<>>
    /\ step = "insert all" => AllExplicit
    /\ step = "insert" => Len(own) < Len(batch)
    /\ step \in {"read", "done"} => Len(own) = Len(batch)
    /\ step \in {"insert", "read"} =>
          /\ Len(keys) = Len(own)
          /\ \A i \in DOMAIN own : \/ own[i].key = keys[i]
                                   \/ own[i].key = Canonical(keys[i])
    /\ step = "done" => result = own

ReturningInv == CallTypeOK /\ OwnThere /\ OwnKeysKept

\* A key as the server has it is spelled the same when it is read again.
LEMMA CanonicalTwice ==
    ASSUME NEW key \in Seq(Int)
    PROVE  /\ Canonical(key) \in Seq(Int)
           /\ Canonical(Canonical(key)) = Canonical(key)
<1>1. /\ Canonical(key) = [i \in 1 .. Len(key) |-> key[i] % 100]
      /\ \A i \in 1 .. Len(key) : key[i] \in Int
  BY DEF Canonical, Respelled
<1>2. /\ Canonical(key) \in Seq(Int) /\ Len(Canonical(key)) = Len(key)
      /\ \A i \in 1 .. Len(key) : Canonical(key)[i] = key[i] % 100
  BY <1>1
<1>3. \A i \in 1 .. Len(key) : (key[i] % 100) % 100 = key[i] % 100
  BY <1>1
<1>4. Canonical(Canonical(key)) =
         [i \in 1 .. Len(key) |-> Canonical(key)[i] % 100]
  BY <1>2 DEF Canonical, Respelled
<1> QED
  BY <1>1, <1>2, <1>3, <1>4

\* A row is stored with the value it was given, and under its key.
LEMMA StoredIsRow ==
    ASSUME NEW row \in GivenRow, NEW id \in Int
    PROVE  /\ Stored(row, id) \in TableRow /\ Stored(row, id).value = row.value
           /\ row.key # <<>> => Stored(row, id).key = Canonical(row.key)
<1>1. row.key \in Seq(Int) /\ Canonical(row.key) \in Seq(Int)
  BY CanonicalTwice DEF GivenRow
<1>2. IdKey(id) \in Seq(Int) /\ IdKey(-id) \in Seq(Int)
  BY DEF IdKey
<1> QED
  BY <1>1, <1>2 DEF Stored, TableRow, GivenRow

\* A statement that fails takes the call's rows back.
LEMMA RollBackKeeps ==
    ASSUME ReturningInv, NEW outcome \in {"refused", "failed"},
           RollBack(outcome)
    PROVE  ReturningInv'
<1>1. /\ step' = outcome /\ rows' = rows \ Range(own)
      /\ UNCHANGED <<batch, own, keys>>
  BY DEF RollBack
<1> QED
  BY <1>1 DEF ReturningInv, CallTypeOK, OwnThere, OwnKeysKept, AllExplicit

\* One statement that inserts all rows.
LEMMA InsertAllKeeps ==
    ASSUME ReturningInv, InsertReturning \/ InsertExplicit
    PROVE  ReturningInv'
<1> DEFINE new == [i \in DOMAIN batch |-> Inserting(i)]
<1>1. CallTypeOK /\ OwnThere /\ OwnKeysKept
  BY DEF ReturningInv
<1>2. /\ DOMAIN batch = 1 .. Len(batch) /\ Len(batch) \in Nat
      /\ \A i \in DOMAIN batch : batch[i] \in GivenRow
  <2>1. batch \in Seq(GivenRow)
    BY <1>1 DEF CallTypeOK
  <2> QED
    BY <2>1
<1>3. \/ step = "attempt" /\ InsertAll("done")
      \/ step = "insert all" /\ InsertAll("read")
  BY DEF InsertReturning, InsertExplicit
<1>4. CASE \E outcome \in {"failed"} : RollBack(outcome)
  BY <1>4, RollBackKeeps
<1>5. CASE ~ \E outcome \in {"failed"} : RollBack(outcome)
  <2>1. /\ \A i, j \in DOMAIN new : Free(new[i].key)
                                    /\ (i # j => new[i].key # new[j].key)
        /\ rows' = rows \cup Range(new) /\ own' = new
        /\ UNCHANGED batch
    BY <1>5, <1>3 DEF InsertAll
  <2>2. \/ step' = "done" /\ result' = new /\ keys' = keys
        \/ /\ step = "insert all" /\ step' = "read"
           /\ keys' = [i \in DOMAIN batch |-> batch[i].key]
    BY <1>5, <1>3 DEF InsertAll
  <2>3. \A i \in DOMAIN batch :
           /\ batch[i] \in GivenRow
           /\ new[i] \in TableRow /\ new[i].value = batch[i].value
           /\ batch[i].key # <<>> => new[i].key = Canonical(batch[i].key)
    <3> SUFFICES ASSUME NEW i \in DOMAIN batch
                 PROVE  /\ batch[i] \in GivenRow
                        /\ new[i] \in TableRow /\ new[i].value = batch[i].value
                        /\ batch[i].key # <<>> =>
                              new[i].key = Canonical(batch[i].key)
      OBVIOUS
    <3> DEFINE before == {j \in 1 .. i - 1 : batch[j].key = <<>>}
    <3>1. batch[i] \in GivenRow /\ i \in Nat
      BY <1>2
    <3>2. Cardinality(before) \in Nat
      <4>1. 1 \in Int /\ i - 1 \in Int
        BY <3>1
      <4>2. IsFiniteSet(1 .. i - 1)
        BY <4>1, FS_Interval
      <4> QED
        BY <4>2, FS_Subset, FS_CardinalityType
    <3>3. nextId + Cardinality(before) \in Int
      <4>1. nextId \in Int
        BY <1>1, <1>3 DEF CallTypeOK
      <4> QED
        BY <3>2, <4>1
    <3>4. new[i] = Stored(batch[i], nextId + Cardinality(before))
      BY DEF Inserting
    <3> QED
      BY <3>1, <3>3, <3>4, StoredIsRow
  <2> HIDE DEF new
  <2>4. /\ new \in Seq(TableRow)
        /\ DOMAIN new = DOMAIN batch /\ Len(new) = Len(batch)
    <3>1. new = [i \in 1 .. Len(batch) |-> Inserting(i)]
      BY <1>2 DEF new
    <3> QED
      BY <1>2, <2>3, <3>1
  <2>5. Range(new) = {new[i] : i \in DOMAIN new}
    BY DEF Range
  <2>6. /\ keys' \in Seq(Seq(Int))
        /\ step' = "read" => /\ Len(keys') = Len(batch)
                             /\ \A i \in DOMAIN batch : keys'[i] = batch[i].key
    <3> DEFINE given == [i \in 1 .. Len(batch) |-> batch[i].key]
    <3>1. given \in Seq(Seq(Int)) /\ Len(given) = Len(batch)
          /\ \A i \in DOMAIN batch : given[i] = batch[i].key
      BY <1>2 DEF GivenRow
    <3>2. (step' = "done" /\ keys' = keys) \/ keys' = given
      BY <1>2, <2>2
    <3> HIDE DEF given
    <3> QED
      BY <1>1, <3>1, <3>2 DEF CallTypeOK
  <2>7. CallTypeOK'
    BY <1>1, <2>1, <2>2, <2>4, <2>5, <2>6 DEF CallTypeOK
  <2>8. OwnThere'
    <3>1. \A r, q \in rows' : r.key = q.key => r = q
      BY <1>1, <2>1, <2>5 DEF OwnThere, Free
    <3> QED
      BY <2>1, <2>2, <2>3, <2>4, <3>1 DEF OwnThere
  <2>9. OwnKeysKept'
    <3>1. step' = "read" =>
             \A i \in DOMAIN batch : new[i].key = Canonical(batch[i].key)
      BY <1>1, <1>3, <2>2, <2>3 DEF OwnKeysKept, AllExplicit
    <3> QED
      BY <2>1, <2>2, <2>4, <2>6, <3>1 DEF OwnKeysKept
  <2> QED
    BY <2>7, <2>8, <2>9 DEF ReturningInv
<1> QED
  BY <1>4, <1>5

\* A row and the key that its own statement reports.
LEMMA InsertOneKeeps == ASSUME ReturningInv, InsertOne PROVE ReturningInv'
<1> DEFINE i == Len(own) + 1
           row == Stored(batch[i], nextId)
<1>1. CallTypeOK /\ OwnThere /\ OwnKeysKept /\ step = "insert"
  BY DEF ReturningInv, InsertOne
<1>2. CASE \E outcome \in {"refused", "failed"} : RollBack(outcome)
  BY <1>2, RollBackKeeps
<1>3. CASE ~ \E outcome \in {"refused", "failed"} : RollBack(outcome)
  <2>1. i \in DOMAIN batch /\ batch[i] \in GivenRow
        /\ nextId \in Int /\ i = Len(own) + 1
    <3>1. Len(own) \in Nat /\ Len(batch) \in Nat /\ Len(own) < Len(batch)
          /\ DOMAIN batch = 1 .. Len(batch) /\ nextId \in Int
      BY <1>1 DEF CallTypeOK, OwnKeysKept
    <3>2. i \in DOMAIN batch
      BY <3>1
    <3> QED
      BY <1>1, <3>1, <3>2 DEF CallTypeOK
  <2>2. row \in TableRow /\ row.value = batch[i].value
        /\ (batch[i].key # <<>> => row.key = Canonical(batch[i].key))
    BY <2>1, StoredIsRow
  <2>3. /\ Free(row.key) /\ rows' = rows \cup {row} /\ own' = Append(own, row)
        /\ nextId' = After(nextId, row.key)
        /\ keys' = Append(keys, IF batch[i].key # <<>> THEN batch[i].key
                                ELSE row.key)
        /\ step' = IF i = Len(batch) THEN "read" ELSE "insert"
        /\ UNCHANGED batch
    BY <1>3 DEF InsertOne, ReportedKey
  <2> DEFINE kept == IF batch[i].key # <<>> THEN batch[i].key ELSE row.key
  <2>4. kept \in Seq(Int) /\ (row.key = kept \/ row.key = Canonical(kept))
        /\ keys' = Append(keys, kept)
    BY <2>1, <2>2, <2>3 DEF TableRow, GivenRow
  <2> HIDE DEF row, kept, i
  <2>5. nextId' \in Int
    BY <2>1, <2>3, ReturningAssumption DEF After
  <2>6. /\ own' \in Seq(TableRow) /\ Len(own') = i /\ own'[i] = row
        /\ \A j \in DOMAIN own : own'[j] = own[j]
        /\ DOMAIN own' = DOMAIN own \cup {i} /\ i \notin DOMAIN own
    BY <1>1, <2>1, <2>2, <2>3 DEF CallTypeOK
  <2>7. /\ keys' \in Seq(Seq(Int)) /\ Len(keys') = i /\ keys'[i] = kept
        /\ \A j \in DOMAIN own : keys'[j] = keys[j]
    BY <1>1, <2>1, <2>4 DEF CallTypeOK, OwnKeysKept
  <2>8. Range(own') = Range(own) \cup {row}
    BY <2>6 DEF Range
  <2>9. CallTypeOK'
    BY <1>1, <2>2, <2>3, <2>5, <2>6, <2>7 DEF CallTypeOK
  <2>10. OwnThere'
    <3>1. \A r, q \in rows' : r.key = q.key => r = q
      BY <1>1, <2>3 DEF OwnThere, Free
    <3>2. Range(own') \subseteq rows' /\ step' \notin {"refused", "failed"}
      BY <1>1, <2>3, <2>8 DEF OwnThere
    <3>3. \A j \in DOMAIN own' :
             j \in DOMAIN batch /\ own'[j].value = batch[j].value
      BY <1>1, <2>1, <2>2, <2>6 DEF OwnThere
    <3> QED
      BY <2>3, <3>1, <3>2, <3>3 DEF OwnThere
  <2>11. OwnKeysKept'
    <3>1. step' = "insert" => i < Len(batch)
      BY <1>1, <2>1, <2>3 DEF OwnKeysKept, CallTypeOK
    <3>2. step' = "read" => i = Len(batch)
      BY <2>3
    <3>3. \A j \in DOMAIN own' : \/ own'[j].key = keys'[j]
                                 \/ own'[j].key = Canonical(keys'[j])
      BY <1>1, <2>4, <2>6, <2>7 DEF OwnKeysKept
    <3> QED
      BY <2>3, <2>6, <2>7, <3>1, <3>2, <3>3 DEF OwnKeysKept
  <2> QED
    BY <2>9, <2>10, <2>11 DEF ReturningInv
<1> QED
  BY <1>2, <1>3

\* Reading by key finds the rows inserted, and puts each in its place: a row
\* fetched under the fingerprint of a key is the row of that key.
LEMMA FetchKeeps == ASSUME ReturningInv, FetchInKeyOrder PROVE ReturningInv'
<1> DEFINE fetched == {r \in rows :
                          \E i \in DOMAIN keys : r.key = Canonical(keys[i])}
           byKey(i) == {r \in fetched :
                           Fingerprint(r.key) = Fingerprint(keys[i])}
<1>1. CallTypeOK /\ OwnThere /\ OwnKeysKept /\ step = "read"
  BY DEF ReturningInv, FetchInKeyOrder
<1>2. CASE \E outcome \in {"refused", "failed"} : RollBack(outcome)
  BY <1>2, RollBackKeeps
<1>3. CASE ~ \E outcome \in {"refused", "failed"} : RollBack(outcome)
  <2>1. /\ \A i \in DOMAIN keys : byKey(i) # {}
        /\ result' = [i \in DOMAIN keys |-> CHOOSE r \in byKey(i) : TRUE]
        /\ step' = "done" /\ UNCHANGED <<batch, rows, nextId, keys, own>>
    BY <1>3 DEF FetchInKeyOrder
  <2>2. ASSUME NEW i \in DOMAIN keys, NEW r \in byKey(i) PROVE r = own[i]
    <3>1. /\ r \in rows /\ r.key = keys[i]
          /\ \E j \in DOMAIN keys : r.key = Canonical(keys[j])
      BY DEF Fingerprint
    <3>2. PICK j \in DOMAIN keys : r.key = Canonical(keys[j])
      BY <3>1
    <3>3. keys[j] \in Seq(Int) /\ i \in DOMAIN own
      BY <1>1 DEF CallTypeOK, OwnKeysKept
    <3>4. Canonical(r.key) = r.key
      BY <3>2, <3>3, CanonicalTwice
    <3>5. own[i].key = r.key
      BY <1>1, <3>1, <3>3, <3>4 DEF OwnKeysKept
    <3>6. own[i] \in rows
      BY <1>1, <3>3 DEF OwnThere, Range
    <3> QED
      BY <1>1, <3>1, <3>5, <3>6 DEF OwnThere
  <2>3. \A i \in DOMAIN keys : (CHOOSE r \in byKey(i) : TRUE) = own[i]
    BY <2>1, <2>2
  <2> HIDE DEF byKey
  <2>4. result' = own
    <3>1. DOMAIN own = DOMAIN keys /\ own = [i \in DOMAIN own |-> own[i]]
      BY <1>1 DEF CallTypeOK, OwnKeysKept
    <3>2. result' = [i \in DOMAIN keys |-> own[i]]
      BY <2>1, <2>3
    <3> QED
      BY <3>1, <3>2
  <2> QED
    BY <1>1, <2>1, <2>4 DEF ReturningInv, CallTypeOK, OwnThere, OwnKeysKept
<1> QED
  BY <1>2, <1>3

\* Other sessions take keys that are free, and no row of the call's; the first
\* try, where the server has no RETURNING, changes no row.
LEMMA OthersKeep ==
    ASSUME ReturningInv, OtherInserts \/ OtherDeletes \/ Attempt
    PROVE  ReturningInv'
<1>1. CallTypeOK /\ OwnThere /\ OwnKeysKept
  BY DEF ReturningInv
<1>2. CASE OtherInserts
  <2>1. PICK key \in {IdKey(nextId), IdKey(nextId + 1)} :
           /\ Free(key) /\ rows' = rows \cup {[key |-> key, value |-> "other"]}
           /\ nextId' = After(nextId, key)
    BY <1>2 DEF OtherInserts
  <2>2. UNCHANGED <<step, batch, keys, own, result>> /\ Busy
    BY <1>2 DEF OtherInserts
  <2>3. nextId \in Int => nextId' \in Int
    BY <2>1, ReturningAssumption DEF After
  <2>4. CallTypeOK' /\ OwnKeysKept'
    BY <1>1, <2>2, <2>3 DEF CallTypeOK, OwnKeysKept, AllExplicit
  <2>5. OwnThere'
    <3>1. \A r, q \in rows' : r.key = q.key => r = q
      BY <1>1, <2>1 DEF OwnThere, Free
    <3> QED
      BY <1>1, <2>1, <2>2, <3>1 DEF OwnThere, Busy
  <2> QED
    BY <2>4, <2>5 DEF ReturningInv
<1>3. CASE OtherDeletes
  BY <1>1, <1>3
     DEF OtherDeletes, ReturningInv, CallTypeOK, OwnThere, OwnKeysKept, Busy,
         AllExplicit
<1>4. CASE Attempt
  <2>1. /\ step = "attempt" /\ UNCHANGED <<batch, rows, nextId, keys, own>>
        /\ step' \in {"refused", "insert all", "insert"}
        /\ step' = "insert all" => AllExplicit
        /\ step' = "insert" => ~AllExplicit
    BY <1>4 DEF Attempt
  <2>2. step' = "insert" => Len(batch) > 0
    BY <1>1, <2>1 DEF CallTypeOK, AllExplicit
  <2>3. /\ own = <<>> /\ keys = <<>>
        /\ DOMAIN own = {} /\ Range(own) = {} /\ Len(own) = 0
    <3>1. own = <<>> /\ keys = <<>>
      BY <1>1, <2>1 DEF OwnKeysKept
    <3>2. DOMAIN own = {} /\ Len(own) = 0
      BY <3>1
    <3> QED
      BY <3>1, <3>2 DEF Range
  <2>4. CallTypeOK'
    BY <1>1, <2>1 DEF CallTypeOK
  <2>5. OwnThere'
    BY <1>1, <2>1, <2>3 DEF OwnThere, Range
  <2>6. OwnKeysKept'
    BY <2>1, <2>2, <2>3 DEF OwnKeysKept, AllExplicit
  <2> QED
    BY <2>4, <2>5, <2>6 DEF ReturningInv
<1> QED
  BY <1>2, <1>3, <1>4

\* Whatever other sessions insert or delete, and wherever a statement fails: a
\* call returns the rows it inserted, in the order given, and a call that is
\* refused or fails leaves none of them.
THEOREM OwnRowsReturned == ReturningSpec => []ReturnsOwnRows
<1>1. ReturningInit => ReturningInv
  <2>1. ReturningInit => CallTypeOK
    BY ReturningAssumption DEF ReturningInit, CallTypeOK, GivenRow
  <2>2. ReturningInit => OwnThere /\ OwnKeysKept
    BY DEF ReturningInit, OwnThere, OwnKeysKept, Range
  <2> QED
    BY <2>1, <2>2 DEF ReturningInv
<1>2. ReturningInv /\ [ReturningNext]_returningVars => ReturningInv'
  <2> SUFFICES ASSUME ReturningInv, [ReturningNext]_returningVars
               PROVE  ReturningInv'
    OBVIOUS
  <2>1. CASE UNCHANGED returningVars
    BY <2>1 DEF returningVars, ReturningInv, CallTypeOK, OwnThere, OwnKeysKept,
                AllExplicit
  <2>2. CASE InsertReturning \/ InsertExplicit
    BY <2>2, InsertAllKeeps
  <2> QED
    BY <2>1, <2>2, InsertOneKeeps, FetchKeeps, OthersKeep DEF ReturningNext
<1>3. ReturningInv => ReturnsOwnRows
  <2> SUFFICES ASSUME ReturningInv PROVE ReturnsOwnRows
    OBVIOUS
  <2>1. ASSUME step = "done"
        PROVE  /\ result = own
               /\ \A i \in DOMAIN batch : own[i].value = batch[i].value
    <3>1. result = own /\ Len(own) = Len(batch)
      BY <2>1 DEF ReturningInv, OwnKeysKept
    <3>2. own \in Seq(TableRow) /\ batch \in Seq(GivenRow)
      BY DEF ReturningInv, CallTypeOK
    <3>3. DOMAIN own = DOMAIN batch
      BY <3>1, <3>2
    <3> QED
      BY <3>1, <3>3 DEF ReturningInv, OwnThere
  <2>2. step \in {"refused", "failed"} => rows \cap Range(own) = {}
    BY DEF ReturningInv, OwnThere
  <2> QED
    BY <2>1, <2>2 DEF ReturnsOwnRows
<1> QED
  BY <1>1, <1>2, <1>3, PTL DEF ReturningSpec

-----------------------------------------------------------------------------

\* One call and its sink, by themselves.
LoggingSpec == LoggingInit /\ [][LoggingNext]_loggingVars

\* An event that one of these calls logs.
Logged == [level : {"error", "debug", "trace"}, category : LogCategories,
           what : {"started", "parameters", "completed", "failed"}]

\* Nothing that the settings keep quiet.
Loud(e) == /\ made.settings.level # "silent"
           /\ made.settings.categories[e.category] \notin {"off", "silent"}

\* The statements have taken effect from when the driver has answered; what is
\* logged as completed has, and what is logged as failed is rejected.
LoggingInv ==
    /\ made.kind \in DOMAIN LogCategory
    /\ told \in Seq(Logged)
    /\ logPc \in {"sql", "bind", "gate", "running", "completed", "decoding",
                  "failed", "resolved", "rejected"}
    /\ landed \in BOOLEAN /\ unreadable \in BOOLEAN
    /\ logPc \in {"sql", "bind", "gate", "running"} => ~landed
    /\ logPc \in {"completed", "decoding", "resolved"} => landed
    /\ logPc \in {"failed", "rejected"} => ~landed \/ unreadable
    /\ \A i \in DOMAIN told :
          /\ Loud(told[i])
          /\ told[i].what = "completed" => landed
          /\ told[i].what = "failed" => logPc = "rejected"

\* An event that the sink may be handed passes the settings: an own level of
\* "silent" is below that of every event.
LEMMA YesIsLoud ==
    ASSUME NEW e \in Logged, "yes" \in Asked(e) PROVE Loud(e)
<1>1. Passes(made.settings, e)
  BY DEF Asked
<1>2. Order[e.level] \in {0, 3, 4} /\ Order["silent"] = -1
  BY DEF Order, Logged
<1> QED
  BY <1>1, <1>2 DEF Passes, Loud

\* A sink that answers neither stops the call nor adds anything to the event.
LEMMA AnnounceTells ==
    ASSUME "throws" \notin Answers, NEW e \in Logged, NEW next, NEW thrown,
           told \in Seq(Logged),
           Announce(e, next, thrown) \/ Emit(e, next, thrown) \/ Skip(next)
    PROVE  /\ logPc' = next
           /\ \/ told' = told
              \/ Loud(e) /\ told' = Append(told, e)
<1>1. \A answer \in Asked(e) : answer # "throws"
  BY DEF Asked
<1> QED
  BY <1>1, YesIsLoud DEF Announce, Emit, Skip

\* Every step of a call keeps it.
LEMMA LoggingStep ==
    ASSUME "throws" \notin Answers, LoggingInv, [LoggingNext]_loggingVars
    PROVE  LoggingInv'
<1> DEFINE Tells(e, next) ==
               /\ logPc' = next
               /\ \/ told' = told
                  \/ Loud(e) /\ told' = Append(told, e)
<1>1. LogCategory[made.kind] \in LogCategories
  BY DEF LoggingInv, LogCategory, LogCategories
<1>2. ASSUME NEW e \in Logged, NEW next, Tells(e, next), UNCHANGED made
      PROVE  /\ told' \in Seq(Logged)
             /\ \A i \in DOMAIN told' :
                   \/ i \in DOMAIN told /\ told'[i] = told[i]
                   \/ told'[i] = e /\ Loud(e)
  BY <1>2 DEF LoggingInv
<1> HIDE DEF Tells
<1>3. CASE LogSql \/ LogBind
  <2> DEFINE sql == Event("debug", "orm.sql", "started")
             bind == Event("trace", "orm.bind", "parameters")
  <2>1. /\ sql \in Logged /\ sql.what = "started"
        /\ bind \in Logged /\ bind.what = "parameters"
    BY DEF Event, Logged, LogCategories
  <2>2. /\ logPc \in {"sql", "bind"} /\ UNCHANGED <<made, landed, unreadable>>
        /\ \/ Announce(sql, "bind", "rejected")
           \/ Announce(bind, "gate", "rejected") \/ Skip("gate")
    BY <1>3 DEF LogSql, LogBind
  <2> HIDE DEF sql, bind
  <2>3. Tells(sql, "bind") \/ Tells(bind, "gate")
    BY <2>1, <2>2, AnnounceTells DEF Tells, LoggingInv
  <2> QED
    BY <1>2, <2>1, <2>2, <2>3 DEF LoggingInv, Loud, Tells
<1>4. CASE Gate
  <2> DEFINE e == Event("debug", LogCategory[made.kind], "started")
  <2>1. e \in Logged /\ e.what = "started"
    BY <1>1 DEF Event, Logged
  <2>2. /\ logPc = "gate" /\ UNCHANGED <<made, landed, unreadable>>
        /\ \/ Skip("running") \/ Emit(e, "running", "rejected")
           \/ \E answer \in Asked(e) \ {"yes"} :
                 Skip(IF answer = "throws" THEN "rejected" ELSE "running")
    BY <1>4 DEF Gate
  <2>3. \A answer \in Asked(e) : answer # "throws"
    BY DEF Asked
  <2> HIDE DEF e
  <2>4. Tells(e, "running")
    BY <2>1, <2>2, <2>3, AnnounceTells DEF Tells, LoggingInv
  <2> QED
    BY <1>2, <2>1, <2>2, <2>4 DEF LoggingInv, Loud, Tells
<1>5. CASE Ran \/ Decode
  BY <1>5 DEF Ran, Decode, Skip, LoggingInv, Loud
<1>6. CASE LogCompleted
  <2> DEFINE e == Event("debug", LogCategory[made.kind], "completed")
             next == IF made.kind = "execute" THEN "decoding" ELSE "resolved"
  <2>1. e \in Logged /\ e.what = "completed"
    BY <1>1 DEF Event, Logged
  <2>2. /\ logPc = "completed" /\ UNCHANGED <<made, landed, unreadable>>
        /\ Emit(e, next, "failed") \/ Skip(next)
    BY <1>6 DEF LogCompleted
  <2> HIDE DEF e
  <2>3. Tells(e, next) /\ next \in {"decoding", "resolved"}
    BY <2>1, <2>2, AnnounceTells DEF Tells, LoggingInv
  <2> HIDE DEF next
  <2> QED
    BY <1>2, <2>1, <2>2, <2>3 DEF LoggingInv, Loud, Tells
<1>7. CASE LogFailed
  <2> DEFINE category == IF made.kind = "execute" THEN "orm.query"
                         ELSE LogCategory[made.kind]
             e == Event("error", category, "failed")
  <2>1. e \in Logged /\ e.what = "failed"
    BY <1>1 DEF Event, Logged, LogCategories
  <2>2. /\ logPc = "failed" /\ UNCHANGED <<made, landed, unreadable>>
        /\ Announce(e, "rejected", "rejected") \/ Skip("rejected")
    BY <1>7 DEF LogFailed
  <2> HIDE DEF e
  <2>3. Tells(e, "rejected")
    BY <2>1, <2>2, AnnounceTells DEF Tells, LoggingInv
  <2> QED
    BY <1>2, <2>1, <2>2, <2>3 DEF LoggingInv, Loud, Tells
<1>8. CASE UNCHANGED loggingVars
  BY <1>8 DEF loggingVars, LoggingInv, Loud
<1> QED
  BY <1>3, <1>4, <1>5, <1>6, <1>7, <1>8 DEF LoggingNext

\* Whatever the settings are and whatever the sink answers, as long as
\* isEnabled does not throw: a caller is told that its call took effect just
\* when it did (but for values that cannot be read), what is logged is what
\* happened, and nothing is logged that the settings keep quiet.
THEOREM LogsChangeNothing ==
    ASSUME "throws" \notin Answers PROVE LoggingSpec => []LogsHarmless
<1>1. LoggingInit => LoggingInv
  <2> SUFFICES ASSUME LoggingInit PROVE LoggingInv
    OBVIOUS
  <2>1. told \in Seq(Logged) /\ DOMAIN told = {}
    BY DEF LoggingInit
  <2>2. made.kind \in DOMAIN LogCategory
    BY DEF LoggingInit
  <2> QED
    BY <2>1, <2>2 DEF LoggingInit, LoggingInv
<1>2. LoggingInv => LogsHarmless
  BY DEF LoggingInv, LogsHarmless, Loud
<1> QED
  BY <1>1, <1>2, LoggingStep, PTL DEF LoggingSpec

-----------------------------------------------------------------------------

\* Whether an object is created on the engine's dialect.
Mine(o) == o.dialect \in {"any", identity.dialect}

\* A table is a record of its parts, a schema one of its tables and objects.
TableShape(body) ==
    /\ body = [cols |-> body.cols, pk |-> body.pk, uniques |-> body.uniques,
                indexes |-> body.indexes, fks |-> body.fks]
    /\ body.cols = [c \in DOMAIN body.cols |-> body.cols[c]]

Shape(s) ==
    /\ s = [tables |-> s.tables, objects |-> s.objects]
    /\ s.tables = [t \in DOMAIN s.tables |-> s.tables[t]]
    /\ \A t \in DOMAIN s.tables : TableShape(s.tables[t])

\* A schema that the program may define.
Defines(s) == Shape(s) /\ Valid(s) /\ Whole(s) /\ WellKeyed(s)

\* One statement of each kind.
KeyStatement(t, f) == [do |-> "add foreign key", table |-> t, fk |-> f]
IndexStatement(t, i) == [do |-> "create index", table |-> t, index |-> i]
ObjectStatement(o) == [do |-> "create object", object |-> o]

\* A statement that takes a database towards the program's schema, and that
\* nothing but the statements before it is wanted for.
Wanted(s, db) ==
    \/ \E t \in DOMAIN schema.tables \ DOMAIN db.tables :
          LET body == schema.tables[t]
          IN  /\ s = CreateTable(t)
              /\ identity.dialect = "mysql" =>
                    \A c \in DOMAIN body.cols :
                        body.cols[c].type = "serial"
                           => c \in body.pk \cup body.uniques
    \/ \E t \in DOMAIN schema.tables \cap DOMAIN db.tables :
          \E c \in DOMAIN schema.tables[t].cols \ DOMAIN db.tables[t].cols :
              /\ s = AddColumn(t, c)
              /\ s.as.nullable \/ s.as.default
    \/ \E t \in DOMAIN schema.tables : \E f \in schema.tables[t].fks :
          s = KeyStatement(t, f)
    \/ \E t \in DOMAIN schema.tables : \E i \in schema.tables[t].indexes :
          s = IndexStatement(t, i)
    \/ \E o \in schema.objects : s = ObjectStatement(o) /\ Mine(o)

\* What a table of the database lacks of the schema's is among the statements.
Lacks(t, body, statements) ==
    LET to == schema.tables[t]
    IN  /\ body.pk = to.pk /\ body.uniques = to.uniques
        /\ DOMAIN body.cols \subseteq DOMAIN to.cols
        /\ \A c \in DOMAIN body.cols : body.cols[c] = to.cols[c]
        /\ \A c \in DOMAIN to.cols \ DOMAIN body.cols :
              AddColumn(t, c) \in statements
        /\ body.fks \subseteq to.fks
        /\ \A f \in to.fks \ body.fks : KeyStatement(t, f) \in statements
        /\ body.indexes \subseteq to.indexes
        /\ \A i \in to.indexes \ body.indexes :
              IndexStatement(t, i) \in statements

\* The statements take the database to the program's schema.
Towards(db, statements) ==
    /\ Shape(db)
    /\ \A s \in statements : Wanted(s, db)
    /\ DOMAIN db.tables \subseteq DOMAIN schema.tables
    /\ \A t \in DOMAIN db.tables : Lacks(t, db.tables[t], statements)
    /\ \A t \in DOMAIN schema.tables \ DOMAIN db.tables :
          /\ CreateTable(t) \in statements
          /\ ForeignKeys(t) \cup CreateIndexes(t) \subseteq statements
    /\ db.objects \subseteq {o \in schema.objects : Mine(o)}
    /\ \A o \in schema.objects \ db.objects :
          Mine(o) => ObjectStatement(o) \in statements

\* The database is what the snapshot says.
Settled ==
    /\ database = [tables |-> recorded.tables,
                   objects |-> {o \in recorded.objects : Mine(o)}]

\* The database is what the latest snapshot says, or is on its way there.
SchemaInv ==
    /\ ~failed
    /\ Defines(schema) /\ Defines(recorded)
    /\ recorded.objects \subseteq schema.objects
    /\ KeysKept(schema) /\ Addable(schema)
    /\ pending = {} => Settled
    /\ pending # {} => schema = recorded /\ Towards(database, pending)

\* A database that no statement is left for is what the snapshot says.
LEMMA Arrived ==
    ASSUME NEW db, Towards(db, {}), Shape(schema)
    PROVE  db = [tables |-> schema.tables,
                 objects |-> {o \in schema.objects : Mine(o)}]
<1>1. DOMAIN db.tables = DOMAIN schema.tables
  BY DEF Towards
<1>2. ASSUME NEW t \in DOMAIN schema.tables
      PROVE  db.tables[t] = schema.tables[t]
  <2> DEFINE body == db.tables[t]
             to == schema.tables[t]
  <2>1. Lacks(t, body, {}) /\ TableShape(body) /\ TableShape(to)
    BY <1>1, <1>2 DEF Towards, Shape
  <2>2. /\ body.pk = to.pk /\ body.uniques = to.uniques
        /\ body.fks = to.fks /\ body.indexes = to.indexes
        /\ DOMAIN body.cols = DOMAIN to.cols
        /\ \A c \in DOMAIN body.cols : body.cols[c] = to.cols[c]
    BY <2>1 DEF Lacks
  <2>3. body.cols = to.cols
    BY <2>1, <2>2 DEF TableShape
  <2> QED
    BY <2>1, <2>2, <2>3 DEF TableShape
<1>3. db.tables = schema.tables
  BY <1>1, <1>2 DEF Towards, Shape
<1>4. db.objects = {o \in schema.objects : Mine(o)}
  BY DEF Towards
<1> QED
  BY <1>3, <1>4 DEF Towards, Shape

\* The same statements lead to the same schema in the next state.
LEMMA SameWay ==
    ASSUME UNCHANGED <<schema, identity>>, NEW db, NEW statements,
           database' = db, pending' = statements, Towards(db, statements)
    PROVE  Towards(database, pending)'
<1>1. \A t : /\ CreateTable(t)' = CreateTable(t)
             /\ ForeignKeys(t)' = ForeignKeys(t)
             /\ CreateIndexes(t)' = CreateIndexes(t)
             /\ \A c : AddColumn(t, c)' = AddColumn(t, c)
  BY DEF CreateTable, ForeignKeys, CreateIndexes, AddColumn
<1>2. \A o : Mine(o)' <=> Mine(o)
  BY DEF Mine
<1>3. \A s : Wanted(s, database)' <=> Wanted(s, db)
  BY <1>1, <1>2 DEF Wanted, KeyStatement, IndexStatement, ObjectStatement
<1>4. \A t : Lacks(t, database.tables[t], pending)'
             <=> Lacks(t, db.tables[t], statements)
  BY <1>1 DEF Lacks, KeyStatement, IndexStatement
<1>5. Shape(database)' <=> Shape(db)
  BY DEF Shape, TableShape
<1> QED
  BY <1>1, <1>2, <1>3, <1>4, <1>5 DEF Towards, ObjectStatement

\* What `generate` writes takes the database to the program's schema: nothing
\* that would need a destructive change, and everything else.
LEMMA GenerateKeeps == ASSUME SchemaInv, Generate PROVE SchemaInv'
<1> DEFINE diff == Diff(recorded, schema)
<1>1. /\ ~failed /\ Settled /\ Defines(schema) /\ Defines(recorded)
      /\ recorded.objects \subseteq schema.objects
      /\ KeysKept(schema) /\ Addable(schema)
  BY DEF SchemaInv, Generate
<1>2. /\ ~Throws(diff) /\ ~Destructive(diff)
      /\ pending' = UpStatements(diff) /\ recorded' = schema
      /\ UNCHANGED <<identity, schema, database, failed, edits>>
  BY DEF Generate
<1>3. /\ diff.added = DOMAIN schema.tables \ DOMAIN recorded.tables
      /\ diff.changed =
            {t \in DOMAIN recorded.tables \cap DOMAIN schema.tables :
                recorded.tables[t] # schema.tables[t]}
      /\ \A t \in diff.changed :
            /\ DOMAIN recorded.tables[t].cols
                  \subseteq DOMAIN schema.tables[t].cols
            /\ \A c \in DOMAIN recorded.tables[t].cols :
                  recorded.tables[t].cols[c] = schema.tables[t].cols[c]
            /\ diff.columns[t].added =
                  DOMAIN schema.tables[t].cols \ DOMAIN recorded.tables[t].cols
      /\ DOMAIN recorded.tables \subseteq DOMAIN schema.tables
  BY <1>2 DEF Destructive, Diff, DiffColumns
<1>4. /\ database.tables = recorded.tables
      /\ database.objects = {o \in recorded.objects : Mine(o)}
      /\ Shape(database)
  BY <1>1 DEF Settled, Defines, Shape
<1>5. ASSUME NEW t \in diff.added, identity.dialect = "mysql",
             NEW c \in DOMAIN schema.tables[t].cols,
             schema.tables[t].cols[c].type = "serial"
      PROVE  c \in schema.tables[t].pk \cup schema.tables[t].uniques
  <2>1. ~MysqlTableRefused(t)
    BY <1>2, <1>5 DEF Throws
  <2>2. t \in DOMAIN schema.tables /\ WellKeyed(schema)
    BY <1>1, <1>3, <1>5 DEF Defines
  <2> QED
    BY <1>5, <2>1, <2>2 DEF MysqlTableRefused, WellKeyed
<1> HIDE DEF diff
<1>6. \A s : s \in UpStatements(diff) <=>
              \/ \E t \in diff.added : s = CreateTable(t)
              \/ \E t \in diff.changed :
                    \E c \in diff.columns[t].added : s = AddColumn(t, c)
              \/ \E t \in diff.added :
                    s \in ForeignKeys(t) \cup CreateIndexes(t)
              \/ s \in ObjectStatements
  <2> DEFINE A == {CreateTable(t) : t \in diff.added}
             B == UNION {{AddColumn(t, c) : c \in diff.columns[t].added} :
                            t \in diff.changed}
             C == UNION {ForeignKeys(t) \cup CreateIndexes(t) :
                            t \in diff.added}
  <2>1. \A s : s \in A <=> \E t \in diff.added : s = CreateTable(t)
    OBVIOUS
  <2>2. \A s : s \in B <=>
           \E t \in diff.changed :
              \E c \in diff.columns[t].added : s = AddColumn(t, c)
    OBVIOUS
  <2>3. \A s : s \in C <=> \E t \in diff.added :
                               s \in ForeignKeys(t) \cup CreateIndexes(t)
    OBVIOUS
  <2>4. UpStatements(diff) = A \cup B \cup C \cup ObjectStatements
    BY DEF UpStatements
  <2> HIDE DEF A, B, C
  <2> QED
    BY <2>1, <2>2, <2>3, <2>4
<1>7. ASSUME NEW s \in UpStatements(diff) PROVE Wanted(s, database)
  <2>1. CASE \E t \in diff.added : s = CreateTable(t)
    BY <1>3, <1>4, <1>5, <2>1 DEF Wanted
  <2>2. CASE \E t \in diff.changed : \E c \in diff.columns[t].added :
                s = AddColumn(t, c)
    <3>1. PICK t \in diff.changed : \E c \in diff.columns[t].added :
             s = AddColumn(t, c)
      BY <2>2
    <3>2. PICK c \in diff.columns[t].added : s = AddColumn(t, c)
      BY <3>1
    <3>3. s.as = schema.tables[t].cols[c]
      BY <3>2 DEF AddColumn
    <3>4. s.as.nullable \/ s.as.default
      BY <1>1, <1>3, <3>3 DEF Addable
    <3> QED
      BY <1>3, <1>4, <3>2, <3>4 DEF Wanted
  <2>3. CASE \E t \in diff.added : s \in ForeignKeys(t) \cup CreateIndexes(t)
    BY <1>3, <2>3
       DEF Wanted, ForeignKeys, CreateIndexes, KeyStatement, IndexStatement
  <2>4. CASE s \in ObjectStatements
    BY <2>4 DEF Wanted, ObjectStatements, SelectObjects, ObjectStatement, Mine
  <2> QED
    BY <1>7, <1>6, <2>1, <2>2, <2>3, <2>4
<1>8. ASSUME NEW t \in DOMAIN recorded.tables
      PROVE  Lacks(t, recorded.tables[t], UpStatements(diff))
  <2>1. Keys(schema.tables[t]) = Keys(recorded.tables[t])
    BY <1>1, <1>3 DEF KeysKept
  <2>2. CASE t \in diff.changed
    <3>1. \A c \in diff.columns[t].added :
             AddColumn(t, c) \in UpStatements(diff)
      BY <1>6, <2>2
    <3> QED
      BY <1>3, <2>1, <2>2, <3>1 DEF Lacks, Keys
  <2>3. CASE t \notin diff.changed
    BY <1>3, <2>3 DEF Lacks
  <2> QED
    BY <2>2, <2>3
<1>9. Towards(database, UpStatements(diff))
  <2>1. ASSUME NEW o \in schema.objects \ database.objects, Mine(o)
        PROVE  ObjectStatement(o) \in UpStatements(diff)
    BY <1>4, <1>6, <2>1 DEF ObjectStatements, SelectObjects,
       ObjectStatement, Mine
  <2>2. ASSUME NEW t \in DOMAIN schema.tables \ DOMAIN database.tables
        PROVE  /\ CreateTable(t) \in UpStatements(diff)
               /\ ForeignKeys(t) \cup CreateIndexes(t)
                     \subseteq UpStatements(diff)
    BY <1>3, <1>4, <1>6
  <2> QED
    BY <1>1, <1>3, <1>4, <1>7, <1>8, <2>1, <2>2 DEF Towards
<1>10. pending' = {} => Settled'
  <2> SUFFICES ASSUME UpStatements(diff) = {} PROVE Settled'
    BY <1>2
  <2>1. database = [tables |-> schema.tables,
                    objects |-> {o \in schema.objects : Mine(o)}]
    BY <1>1, <1>9, Arrived DEF Defines
  <2> QED
    BY <1>2, <2>1 DEF Settled, Mine
<1>11. Towards(database, pending)'
  BY <1>2, <1>9, SameWay
<1>12. Defines(schema)' /\ Defines(recorded)'
  BY <1>1, <1>2
     DEF Defines, Shape, TableShape, Valid, ValidTable, Whole, WellKeyed
<1>13. KeysKept(schema)' /\ Addable(schema)'
  BY <1>1, <1>2 DEF KeysKept, Addable, Keys
<1> QED
  BY <1>1, <1>2, <1>10, <1>11, <1>12, <1>13 DEF SchemaInv

\* The parts of the statement that creates a table,
LEMMA CreateTableParts ==
    \A t : /\ CreateTable(t).do = "create table"
           /\ CreateTable(t).table = t
BY DEF CreateTable

\* ... of an added column,
LEMMA AddColumnParts ==
    \A t, c : /\ AddColumn(t, c).do = "add column"
              /\ AddColumn(t, c).table = t
              /\ AddColumn(t, c).col = c
              /\ AddColumn(t, c).as = schema.tables[t].cols[c]
BY DEF AddColumn

\* ... of an added foreign key,
LEMMA KeyParts ==
    \A t, f : /\ KeyStatement(t, f).do = "add foreign key"
              /\ KeyStatement(t, f).table = t
              /\ KeyStatement(t, f).fk = f
BY DEF KeyStatement

\* ... of an index,
LEMMA IndexParts ==
    \A t, i : /\ IndexStatement(t, i).do = "create index"
              /\ IndexStatement(t, i).table = t
              /\ IndexStatement(t, i).index = i
BY DEF IndexStatement

\* ... and of an object.
LEMMA ObjectParts ==
    \A o : /\ ObjectStatement(o).do = "create object"
           /\ ObjectStatement(o).object = o
BY DEF ObjectStatement

\* A table's foreign keys and indexes are statements of these kinds.
LEMMA TableStatements ==
    /\ \A t : \A s \in ForeignKeys(t) : \E f : s = KeyStatement(t, f)
    /\ \A t : \A s \in CreateIndexes(t) : \E i : s = IndexStatement(t, i)
BY DEF ForeignKeys, KeyStatement, CreateIndexes, IndexStatement

\* The statement of another table is another one.
LEMMA OtherTables ==
    ASSUME NEW s, NEW u, s.table # u
    PROVE  /\ CreateTable(u) # s
           /\ s \notin ForeignKeys(u) \cup CreateIndexes(u)
           /\ \A c : AddColumn(u, c) # s
           /\ \A f : KeyStatement(u, f) # s
           /\ \A i : IndexStatement(u, i) # s
<1>1. CreateTable(u) # s
  BY CreateTableParts
<1>2. \A c : AddColumn(u, c) # s
  BY AddColumnParts
<1>3. \A f : KeyStatement(u, f) # s
  BY KeyParts
<1>4. \A i : IndexStatement(u, i) # s
  BY IndexParts
<1>5. s \notin ForeignKeys(u) \cup CreateIndexes(u)
  BY <1>3, <1>4, TableStatements
<1> QED
  BY <1>1, <1>2, <1>3, <1>4, <1>5

\* ... as is one of another kind.
LEMMA OtherKinds ==
    ASSUME NEW s
    PROVE  /\ s.do # "create table" => \A t : CreateTable(t) # s
           /\ s.do # "add column" => \A t, c : AddColumn(t, c) # s
           /\ s.do # "add foreign key" =>
                 /\ \A t, f : KeyStatement(t, f) # s
                 /\ \A t : s \notin ForeignKeys(t)
           /\ s.do # "create index" =>
                 /\ \A t, i : IndexStatement(t, i) # s
                 /\ \A t : s \notin CreateIndexes(t)
           /\ s.do # "create object" => \A o : ObjectStatement(o) # s
<1>1. s.do # "create table" => \A t : CreateTable(t) # s
  BY CreateTableParts
<1>2. ASSUME NEW t, NEW c, AddColumn(t, c) = s PROVE s.do = "add column"
  BY <1>2, AddColumnParts
<1>3. ASSUME NEW t, NEW f, KeyStatement(t, f) = s
      PROVE  s.do = "add foreign key"
  BY <1>3, KeyParts
<1>4. ASSUME NEW t, NEW i, IndexStatement(t, i) = s PROVE s.do = "create index"
  BY <1>4, IndexParts
<1>5. s.do # "create object" => \A o : ObjectStatement(o) # s
  BY ObjectParts
<1> QED
  BY <1>1, <1>2, <1>3, <1>4, <1>5, TableStatements

\* A statement about one table leaves what the others want.
LEMMA TableChanges ==
    ASSUME Towards(database, pending), NEW s \in pending,
           s.do # "create object", NEW t \in DOMAIN database.tables,
           s.table = t, NEW body, TableShape(body),
           Lacks(t, body, pending \ {s}),
           \A c \in DOMAIN body.cols :
              c \in DOMAIN database.tables[t].cols \/ s = AddColumn(t, c)
    PROVE  Towards([tables  |-> [database.tables EXCEPT ![t] = body],
                    objects |-> database.objects], pending \ {s})
<1> DEFINE D == database.tables
           db == [tables |-> [D EXCEPT ![t] = body],
                  objects |-> database.objects]
<1>1. /\ DOMAIN db.tables = DOMAIN D /\ db.objects = database.objects
      /\ db.tables[t] = body
      /\ \A u \in DOMAIN D \ {t} : db.tables[u] = D[u]
      /\ db = [tables |-> db.tables, objects |-> db.objects]
      /\ db.tables = [u \in DOMAIN db.tables |-> db.tables[u]]
  OBVIOUS
<1> HIDE DEF db
<1>2. \A u : u # t =>
         /\ CreateTable(u) # s /\ s \notin ForeignKeys(u) \cup CreateIndexes(u)
         /\ \A c : AddColumn(u, c) # s
         /\ \A f : KeyStatement(u, f) # s
         /\ \A i : IndexStatement(u, i) # s
  BY OtherTables
<1>3. \A o : ObjectStatement(o) # s
  BY OtherKinds
<1>4. Shape(db)
  BY <1>1 DEF Towards, Shape
<1>5. ASSUME NEW o \in pending \ {s} PROVE Wanted(o, db)
  <2>1. Wanted(o, database)
    BY <1>5 DEF Towards
  <2>2. ASSUME NEW u \in DOMAIN schema.tables \cap DOMAIN D,
               NEW c \in DOMAIN schema.tables[u].cols \ DOMAIN D[u].cols,
               o = AddColumn(u, c)
        PROVE  c \notin DOMAIN db.tables[u].cols
    BY <1>1, <1>5, <2>2
  <2> QED
    BY <1>1, <2>1, <2>2 DEF Wanted
<1>6. ASSUME NEW u \in DOMAIN D
      PROVE  Lacks(u, db.tables[u], pending \ {s})
  <2>1. CASE u = t
    BY <1>1, <2>1
  <2>2. CASE u # t
    <3>1. Lacks(u, D[u], pending)
      BY DEF Towards
    <3>2. /\ \A c : AddColumn(u, c) \in pending
                       => AddColumn(u, c) \in pending \ {s}
          /\ \A f : KeyStatement(u, f) \in pending
                       => KeyStatement(u, f) \in pending \ {s}
          /\ \A i : IndexStatement(u, i) \in pending
                       => IndexStatement(u, i) \in pending \ {s}
      BY <1>2, <2>2
    <3> HIDE DEF D
    <3>3. Lacks(u, D[u], pending \ {s})
      BY <3>1, <3>2 DEF Lacks
    <3> QED
      BY <1>1, <1>6, <2>2, <3>3
  <2> QED
    BY <2>1, <2>2
<1>7. ASSUME NEW u \in DOMAIN schema.tables \ DOMAIN D
      PROVE  /\ CreateTable(u) \in pending \ {s}
             /\ ForeignKeys(u) \cup CreateIndexes(u) \subseteq pending \ {s}
  BY <1>2, <1>7 DEF Towards
<1>8. ASSUME NEW o \in schema.objects \ database.objects, Mine(o)
      PROVE  ObjectStatement(o) \in pending \ {s}
  BY <1>3, <1>8 DEF Towards
<1>9. Towards(db, pending \ {s})
  BY <1>1, <1>4, <1>5, <1>6, <1>7, <1>8 DEF Towards
<1> QED
  BY <1>9 DEF db

\* ... and one that creates a table.
LEMMA TableAppears ==
    ASSUME Defines(schema), Towards(database, pending),
           NEW t \in DOMAIN schema.tables \ DOMAIN database.tables,
           CreateTable(t) \in pending,
           NEW body, TableShape(body),
           Lacks(t, body, pending \ {CreateTable(t)}),
           body.cols = schema.tables[t].cols
    PROVE  Towards([tables  |-> With(database.tables, t, body),
                    objects |-> database.objects], pending \ {CreateTable(t)})
<1> DEFINE D == database.tables
           s == CreateTable(t)
           db == [tables |-> With(D, t, body), objects |-> database.objects]
<1>1. /\ DOMAIN db.tables = DOMAIN D \cup {t} /\ db.objects = database.objects
      /\ db.tables[t] = body
      /\ \A u \in DOMAIN D : db.tables[u] = D[u]
      /\ db = [tables |-> db.tables, objects |-> db.objects]
      /\ db.tables = [u \in DOMAIN db.tables |-> db.tables[u]]
  <2> DEFINE T == With(D, t, body)
  <2>1. /\ DOMAIN T = DOMAIN D \cup {t}
        /\ T = [u \in DOMAIN T |-> T[u]]
        /\ T[t] = body
        /\ \A u \in DOMAIN D : T[u] = D[u]
    BY DEF With, Over
  <2> HIDE DEF T
  <2>2. db = [tables |-> T, objects |-> database.objects]
    BY DEF T
  <2> QED
    BY <2>1, <2>2
<1> HIDE DEF db
<1>2. \A u : /\ u # t => CreateTable(u) # s
             /\ s \notin ForeignKeys(u) \cup CreateIndexes(u)
             /\ \A c : AddColumn(u, c) # s
             /\ \A f : KeyStatement(u, f) # s
             /\ \A i : IndexStatement(u, i) # s
  <2>1. s.do = "create table" /\ s.table = t
    BY CreateTableParts
  <2> HIDE DEF s
  <2> QED
    BY <2>1, OtherTables, OtherKinds
<1>3. \A o : ObjectStatement(o) # s
  <2>1. s.do = "create table"
    BY CreateTableParts
  <2> HIDE DEF s
  <2> QED
    BY <2>1, OtherKinds
<1> HIDE DEF s
<1>4. Shape(db)
  BY <1>1 DEF Towards, Shape
<1>5. ASSUME NEW o \in pending \ {s} PROVE Wanted(o, db)
  <2>1. Wanted(o, database)
    BY <1>5 DEF Towards
  <2>2. o # CreateTable(t)
    BY <1>5 DEF s
  <2> QED
    BY <1>1, <2>1, <2>2 DEF Wanted
<1>6. ASSUME NEW u \in DOMAIN D \cup {t}
      PROVE  Lacks(u, db.tables[u], pending \ {s})
  <2>1. CASE u = t
    BY <1>1, <2>1 DEF s
  <2>2. CASE u # t
    <3>1. Lacks(u, D[u], pending)
      BY <2>2 DEF Towards
    <3>2. /\ \A c : AddColumn(u, c) \in pending
                       => AddColumn(u, c) \in pending \ {s}
          /\ \A f : KeyStatement(u, f) \in pending
                       => KeyStatement(u, f) \in pending \ {s}
          /\ \A i : IndexStatement(u, i) \in pending
                       => IndexStatement(u, i) \in pending \ {s}
      BY <1>2, <2>2
    <3> HIDE DEF D
    <3>3. Lacks(u, D[u], pending \ {s})
      BY <3>1, <3>2 DEF Lacks
    <3> QED
      BY <1>1, <1>6, <2>2, <3>3
  <2> QED
    BY <2>1, <2>2
<1>7. ASSUME NEW u \in DOMAIN schema.tables \ DOMAIN db.tables
      PROVE  /\ CreateTable(u) \in pending \ {s}
             /\ ForeignKeys(u) \cup CreateIndexes(u) \subseteq pending \ {s}
  BY <1>1, <1>2, <1>7 DEF Towards
<1>8. ASSUME NEW o \in schema.objects \ database.objects, Mine(o)
      PROVE  ObjectStatement(o) \in pending \ {s}
  BY <1>3, <1>8 DEF Towards
<1>9. Towards(db, pending \ {s})
  BY <1>1, <1>4, <1>5, <1>6, <1>7, <1>8 DEF Towards
<1> QED
  BY <1>9 DEF db, s

\* The database when a statement has run.
Advanced(s) ==
    [tables  |-> Changed(database.tables, s),
     objects |-> IF s.do = "create object"
                 THEN database.objects \cup {s.object}
                 ELSE database.objects]

\* No statement is due before s is.
Due(s) == \A other \in pending : Turn(s) <= Turn(other)

\* The turn of each kind of statement.
LEMMA Turns ==
    ASSUME NEW s
    PROVE  /\ s.do = "create table" => Turn(s) = 1
           /\ s.do = "add column" => Turn(s) = 2
           /\ s.do = "add foreign key" => Turn(s) = 3
           /\ s.do = "create index" => Turn(s) = 4
           /\ s.do = "create object" => Turn(s) = 5
BY DEF Turn

\* When a statement's turn comes, the tables are there ...
LEMMA TablesAreThere ==
    ASSUME Towards(database, pending), NEW s \in pending, Due(s),
           Turn(s) \in 2 .. 5
    PROVE  DOMAIN database.tables = DOMAIN schema.tables
<1> SUFFICES ASSUME NEW t \in DOMAIN schema.tables \ DOMAIN database.tables
             PROVE  FALSE
  BY DEF Towards
<1>1. CreateTable(t) \in pending
  BY DEF Towards
<1>2. Turn(CreateTable(t)) = 1
  BY CreateTableParts, Turns
<1> QED
  BY <1>1, <1>2 DEF Due

\* ... and unless it adds a column, so are their columns.
LEMMA ColumnsAreThere ==
    ASSUME Towards(database, pending), NEW s \in pending, Due(s),
           Turn(s) \in 3 .. 5, NEW t \in DOMAIN schema.tables
    PROVE  /\ t \in DOMAIN database.tables
           /\ Lacks(t, database.tables[t], pending)
           /\ DOMAIN database.tables[t].cols = DOMAIN schema.tables[t].cols
<1>1. t \in DOMAIN database.tables /\ Lacks(t, database.tables[t], pending)
  BY TablesAreThere DEF Towards
<1> SUFFICES ASSUME NEW c \in DOMAIN schema.tables[t].cols
                           \ DOMAIN database.tables[t].cols
             PROVE  FALSE
  BY <1>1 DEF Lacks
<1>2. AddColumn(t, c) \in pending
  BY <1>1 DEF Lacks
<1>3. Turn(AddColumn(t, c)) = 2
  <2>1. AddColumn(t, c).do = "add column"
    BY AddColumnParts
  <2> QED
    BY <2>1, Turns
<1> QED
  BY <1>2, <1>3 DEF Due

\* The engine takes a table that is created,
LEMMA CreateRuns ==
    ASSUME Defines(schema), Towards(database, pending),
           NEW t \in DOMAIN schema.tables \ DOMAIN database.tables,
           CreateTable(t) \in pending,
           identity.dialect = "mysql" =>
              \A c \in DOMAIN schema.tables[t].cols :
                 schema.tables[t].cols[c].type = "serial" =>
                    c \in schema.tables[t].pk \cup schema.tables[t].uniques
    PROVE  /\ Accepts(CreateTable(t))
           /\ Towards(Advanced(CreateTable(t)), pending \ {CreateTable(t)})
<1> DEFINE s == CreateTable(t)
           to == schema.tables[t]
           fks == IF identity.dialect = "sqlite" THEN to.fks ELSE {}
           body == [cols |-> to.cols, pk |-> to.pk, uniques |-> to.uniques,
                    fks |-> fks, indexes |-> {}]
<1>1. /\ s.do = "create table" /\ s.table = t /\ s.cols = to.cols
      /\ s.pk = to.pk /\ s.uniques = to.uniques /\ s.fks = fks
  BY DEF CreateTable
<1> HIDE DEF s, fks
<1>2. Accepts(s)
  BY <1>1 DEF Accepts
<1>3. Advanced(s) = [tables  |-> With(database.tables, t, body),
                  objects |-> database.objects]
  BY <1>1 DEF Advanced, Changed
<1>4. TableShape(body)
  BY DEF TableShape, Defines, Shape
<1>5. Lacks(t, body, pending \ {s})
  <2>1. ForeignKeys(t) \cup CreateIndexes(t) \subseteq pending
    BY DEF Towards
  <2>2. ASSUME NEW f \in to.fks \ fks
        PROVE  KeyStatement(t, f) \in pending \ {s}
    <3>1. KeyStatement(t, f) \in ForeignKeys(t)
      BY <2>2 DEF KeyStatement, ForeignKeys, fks
    <3> QED
      BY <1>1, <2>1, <3>1, OtherKinds
  <2>3. ASSUME NEW i \in to.indexes
        PROVE  IndexStatement(t, i) \in pending \ {s}
    <3>1. IndexStatement(t, i) \in CreateIndexes(t)
      BY DEF IndexStatement, CreateIndexes
    <3> QED
      BY <1>1, <2>1, <3>1, OtherKinds
  <2>4. fks \subseteq to.fks
    BY DEF fks
  <2> QED
    BY <2>2, <2>3, <2>4 DEF Lacks
<1> HIDE DEF body
<1>6. body.cols = to.cols
  BY DEF body
<1>7. Towards([tables  |-> With(database.tables, t, body),
               objects |-> database.objects], pending \ {s})
  BY <1>4, <1>5, <1>6, TableAppears DEF s
<1> QED
  BY <1>2, <1>3, <1>7 DEF s

\* ... a column that is added to one,
LEMMA AddRuns ==
    ASSUME Defines(schema), Towards(database, pending),
           NEW t \in DOMAIN schema.tables \cap DOMAIN database.tables,
           NEW c \in DOMAIN schema.tables[t].cols
                     \ DOMAIN database.tables[t].cols,
           AddColumn(t, c) \in pending,
           AddColumn(t, c).as.nullable \/ AddColumn(t, c).as.default
    PROVE  /\ Accepts(AddColumn(t, c))
           /\ Towards(Advanced(AddColumn(t, c)), pending \ {AddColumn(t, c)})
<1> DEFINE s == AddColumn(t, c)
           D == database.tables
           to == schema.tables[t]
           body == [D[t] EXCEPT !.cols = With(@, c, s.as)]
<1>1. /\ s.do = "add column" /\ s.table = t /\ s.col = c
      /\ s.as = to.cols[c] /\ (s.as.nullable \/ s.as.default)
  BY AddColumnParts
<1>2. s = AddColumn(t, c) /\ s \in pending
  OBVIOUS
<1> HIDE DEF s
<1>3. Accepts(s)
  BY <1>1 DEF Accepts
<1>4. Advanced(s) = [tables  |-> [D EXCEPT ![t] = body],
                  objects |-> database.objects]
  BY <1>1 DEF Advanced, Changed
<1>5. TableShape(D[t]) /\ Lacks(t, D[t], pending)
  BY DEF Towards, Shape
<1>6. /\ body = [cols |-> With(D[t].cols, c, s.as), pk |-> D[t].pk,
                 uniques |-> D[t].uniques, indexes |-> D[t].indexes,
                 fks |-> D[t].fks]
  BY <1>5 DEF TableShape
<1>7. /\ DOMAIN body.cols = DOMAIN D[t].cols \cup {c}
      /\ body.cols = [d \in DOMAIN body.cols |-> body.cols[d]]
      /\ body.cols[c] = to.cols[c]
      /\ \A d \in DOMAIN D[t].cols : body.cols[d] = D[t].cols[d]
  <2> DEFINE cols == With(D[t].cols, c, s.as)
  <2>1. /\ DOMAIN cols = DOMAIN D[t].cols \cup {c}
        /\ cols = [d \in DOMAIN cols |-> cols[d]]
        /\ cols[c] = to.cols[c]
        /\ \A d \in DOMAIN D[t].cols : cols[d] = D[t].cols[d]
    BY <1>1 DEF With, Over
  <2> HIDE DEF cols
  <2>2. body.cols = cols
    BY <1>6 DEF cols
  <2> QED
    BY <2>1, <2>2
<1>8. /\ body.pk = D[t].pk /\ body.uniques = D[t].uniques
      /\ body.indexes = D[t].indexes /\ body.fks = D[t].fks
      /\ body = [cols |-> body.cols, pk |-> body.pk, uniques |-> body.uniques,
                 indexes |-> body.indexes, fks |-> body.fks]
  BY <1>6
<1> HIDE DEF body
<1>9. Lacks(t, body, pending \ {s})
  <2>1. ASSUME NEW d \in DOMAIN to.cols \ DOMAIN body.cols
        PROVE  AddColumn(t, d) \in pending \ {s}
    <3>1. AddColumn(t, d) \in pending
      BY <1>5, <1>7, <2>1 DEF Lacks
    <3>2. AddColumn(t, d).col = d /\ d # c
      <4>1. AddColumn(t, d).col = d
        BY AddColumnParts
      <4>2. d # c
        BY <1>7, <2>1
      <4> QED
        BY <4>1, <4>2
    <3> QED
      BY <1>1, <3>1, <3>2
  <2>2. /\ \A f : KeyStatement(t, f) # s
        /\ \A i : IndexStatement(t, i) # s
    BY <1>1, OtherKinds
  <2> QED
    BY <1>5, <1>7, <1>8, <2>1, <2>2 DEF Lacks
<1>10. TableShape(body)
  BY <1>7, <1>8 DEF TableShape
<1>11. Towards([tables |-> [D EXCEPT ![t] = body],
                objects |-> database.objects], pending \ {s})
  BY <1>1, <1>2, <1>7, <1>9, <1>10, TableChanges
<1> QED
  BY <1>2, <1>3, <1>4, <1>11

\* ... a foreign key of a table and a key of the one it references,
LEMMA KeyRuns ==
    ASSUME Defines(schema), Towards(database, pending),
           NEW t \in DOMAIN schema.tables, NEW f \in schema.tables[t].fks,
           KeyStatement(t, f) \in pending, Due(KeyStatement(t, f))
    PROVE  /\ Accepts(KeyStatement(t, f))
           /\ Towards(Advanced(KeyStatement(t, f)),
                      pending \ {KeyStatement(t, f)})
<1> DEFINE s == KeyStatement(t, f)
           D == database.tables
           to == schema.tables[t]
           body == [D[t] EXCEPT !.fks = @ \cup {f}]
<1>1. s.do = "add foreign key" /\ s.table = t /\ s.fk = f
  BY KeyParts
<1>2. s = KeyStatement(t, f) /\ s \in pending /\ Due(s)
  OBVIOUS
<1> HIDE DEF s
<1>3. Turn(s) = 3
  BY <1>1, Turns
<1>4. /\ f.table \in DOMAIN schema.tables
      /\ f.ref \in DOMAIN schema.tables[f.table].cols
      /\ f.ref \in schema.tables[f.table].pk
                   \cup schema.tables[f.table].uniques
  BY DEF Defines, Valid, ValidTable, Whole, WellKeyed
<1>5. \A u \in DOMAIN schema.tables :
         /\ u \in DOMAIN D /\ Lacks(u, D[u], pending)
         /\ DOMAIN D[u].cols = DOMAIN schema.tables[u].cols
  BY <1>2, <1>3, ColumnsAreThere
<1>6. /\ D[f.table].pk = schema.tables[f.table].pk
      /\ D[f.table].uniques = schema.tables[f.table].uniques
  BY <1>4, <1>5 DEF Lacks
<1>7. Accepts(s)
  <2>1. Referable(D[f.table], f.ref)
    BY <1>4, <1>6 DEF Referable
  <2> QED
    BY <1>1, <1>4, <1>5, <2>1 DEF Accepts
<1>8. TableShape(D[t]) /\ Lacks(t, D[t], pending)
  BY <1>5 DEF Towards, Shape
<1>9. Advanced(s) = [tables  |-> [D EXCEPT ![t] = body],
                  objects |-> database.objects]
  BY <1>1 DEF Advanced, Changed
<1>10. body = [cols |-> D[t].cols, pk |-> D[t].pk, uniques |-> D[t].uniques,
               indexes |-> D[t].indexes, fks |-> D[t].fks \cup {f}]
  BY <1>8 DEF TableShape
<1> HIDE DEF body
<1>11. TableShape(body)
  BY <1>8, <1>10 DEF TableShape
<1>12. Lacks(t, body, pending \ {s})
  <2>1. ASSUME NEW g \in to.fks \ body.fks
        PROVE  KeyStatement(t, g) \in pending \ {s}
    <3>1. KeyStatement(t, g) \in pending /\ g # f
      BY <1>8, <1>10, <2>1 DEF Lacks
    <3>2. KeyStatement(t, g).fk = g
      BY KeyParts
    <3> QED
      BY <1>1, <3>1, <3>2
  <2>2. /\ \A c : AddColumn(t, c) # s
        /\ \A i : IndexStatement(t, i) # s
    BY <1>1, OtherKinds
  <2> QED
    BY <1>8, <1>10, <2>1, <2>2 DEF Lacks
<1>13. Towards([tables |-> [D EXCEPT ![t] = body],
                objects |-> database.objects], pending \ {s})
  BY <1>1, <1>2, <1>5, <1>10, <1>11, <1>12, TableChanges
<1> QED
  BY <1>2, <1>7, <1>9, <1>13

\* ... an index,
LEMMA IndexRuns ==
    ASSUME Defines(schema), Towards(database, pending),
           NEW t \in DOMAIN schema.tables, NEW i \in schema.tables[t].indexes,
           IndexStatement(t, i) \in pending, Due(IndexStatement(t, i))
    PROVE  /\ Accepts(IndexStatement(t, i))
           /\ Towards(Advanced(IndexStatement(t, i)),
                      pending \ {IndexStatement(t, i)})
<1> DEFINE s == IndexStatement(t, i)
           D == database.tables
           to == schema.tables[t]
           body == [D[t] EXCEPT !.indexes = @ \cup {i}]
<1>1. s.do = "create index" /\ s.table = t /\ s.index = i
  BY IndexParts
<1>2. s = IndexStatement(t, i) /\ s \in pending /\ Due(s)
  OBVIOUS
<1> HIDE DEF s
<1>3. Turn(s) = 4
  BY <1>1, Turns
<1>4. i.col \in DOMAIN to.cols
  BY DEF Defines, Valid, ValidTable
<1>5. /\ t \in DOMAIN D /\ Lacks(t, D[t], pending)
      /\ DOMAIN D[t].cols = DOMAIN to.cols
  BY <1>2, <1>3, ColumnsAreThere
<1>6. Accepts(s)
  BY <1>1, <1>4, <1>5 DEF Accepts
<1>7. TableShape(D[t])
  BY <1>5 DEF Towards, Shape
<1>8. Advanced(s) = [tables  |-> [D EXCEPT ![t] = body],
                  objects |-> database.objects]
  BY <1>1 DEF Advanced, Changed
<1>9. body = [cols |-> D[t].cols, pk |-> D[t].pk, uniques |-> D[t].uniques,
              indexes |-> D[t].indexes \cup {i}, fks |-> D[t].fks]
  <2> DEFINE ixs == D[t].indexes \cup {i}
  <2>1. body = [D[t] EXCEPT !.indexes = ixs]
    OBVIOUS
  <2> HIDE DEF ixs, body
  <2>2. body = [cols |-> D[t].cols, pk |-> D[t].pk, uniques |-> D[t].uniques,
                indexes |-> ixs, fks |-> D[t].fks]
    BY <1>7, <2>1 DEF TableShape
  <2> QED
    BY <2>2 DEF ixs
<1> HIDE DEF body
<1>10. TableShape(body)
  BY <1>7, <1>9 DEF TableShape
<1>11. Lacks(t, body, pending \ {s})
  <2>1. ASSUME NEW j \in to.indexes \ body.indexes
        PROVE  IndexStatement(t, j) \in pending \ {s}
    <3>1. IndexStatement(t, j) \in pending /\ j # i
      BY <1>5, <1>9, <2>1 DEF Lacks
    <3>2. IndexStatement(t, j).index = j
      BY IndexParts
    <3> QED
      BY <1>1, <3>1, <3>2
  <2>2. /\ \A c : AddColumn(t, c) # s
        /\ \A f : KeyStatement(t, f) # s
    BY <1>1, OtherKinds
  <2> QED
    BY <1>5, <1>9, <2>1, <2>2 DEF Lacks
<1>12. Towards([tables |-> [D EXCEPT ![t] = body],
                objects |-> database.objects], pending \ {s})
  BY <1>1, <1>2, <1>5, <1>9, <1>10, <1>11, TableChanges
<1> QED
  BY <1>2, <1>6, <1>8, <1>12

\* ... and what else there is.
LEMMA ObjectRuns ==
    ASSUME Defines(schema), Towards(database, pending),
           NEW o \in schema.objects, Mine(o),
           ObjectStatement(o) \in pending, Due(ObjectStatement(o))
    PROVE  /\ Accepts(ObjectStatement(o))
           /\ Towards(Advanced(ObjectStatement(o)),
                      pending \ {ObjectStatement(o)})
<1> DEFINE s == ObjectStatement(o)
           D == database.tables
           db == [tables |-> D, objects |-> database.objects \cup {o}]
<1>1. s.do = "create object" /\ s.object = o
  BY ObjectParts
<1>2. s = ObjectStatement(o) /\ s \in pending /\ Due(s)
  OBVIOUS
<1> HIDE DEF s
<1>3. Turn(s) = 5
  BY <1>1, Turns
<1>4. o.on \in DOMAIN D
  BY <1>2, <1>3, TablesAreThere DEF Defines, Whole
<1>5. Accepts(s)
  BY <1>1, <1>4 DEF Accepts
<1>6. Advanced(s) = db
  BY <1>1 DEF Advanced, Changed
<1>7. /\ db.tables = D /\ db.objects = database.objects \cup {o}
      /\ db = [tables |-> db.tables, objects |-> db.objects]
  OBVIOUS
<1> HIDE DEF db
<1>8. Shape(db)
  BY <1>7 DEF Towards, Shape
<1>9. ASSUME NEW other \in pending \ {s} PROVE Wanted(other, db)
  <2>1. Wanted(other, database)
    BY DEF Towards
  <2> QED
    BY <1>7, <2>1 DEF Wanted
<1>10. ASSUME NEW u \in DOMAIN D PROVE Lacks(u, D[u], pending \ {s})
  <2>1. Lacks(u, D[u], pending)
    BY DEF Towards
  <2>2. /\ \A c : AddColumn(u, c) # s
        /\ \A f : KeyStatement(u, f) # s
        /\ \A i : IndexStatement(u, i) # s
    BY <1>1, OtherKinds
  <2> HIDE DEF D
  <2> QED
    BY <2>1, <2>2 DEF Lacks
<1>11. ASSUME NEW u \in DOMAIN schema.tables \ DOMAIN D
       PROVE  /\ CreateTable(u) \in pending \ {s}
              /\ ForeignKeys(u) \cup CreateIndexes(u) \subseteq pending \ {s}
  BY <1>1, <1>11, OtherKinds DEF Towards
<1>12. ASSUME NEW p \in schema.objects \ db.objects, Mine(p)
       PROVE  ObjectStatement(p) \in pending \ {s}
  BY <1>1, <1>7, <1>12, ObjectParts DEF Towards
<1>13. Towards(db, pending \ {s})
  BY <1>7, <1>8, <1>9, <1>10, <1>11, <1>12 DEF Towards
<1> QED
  BY <1>2, <1>5, <1>6, <1>13

\* So the engine takes every statement when its turn comes.
LEMMA StatementKeeps ==
    ASSUME Defines(schema), Towards(database, pending),
           NEW s \in pending, Due(s)
    PROVE  Accepts(s) /\ Towards(Advanced(s), pending \ {s})
<1>1. Wanted(s, database)
  BY DEF Towards
<1>2. CASE \E t \in DOMAIN schema.tables \ DOMAIN database.tables :
              /\ s = CreateTable(t)
              /\ identity.dialect = "mysql" =>
                    \A c \in DOMAIN schema.tables[t].cols :
                       schema.tables[t].cols[c].type = "serial" =>
                          c \in schema.tables[t].pk
                                \cup schema.tables[t].uniques
  BY <1>2, CreateRuns
<1>3. CASE \E t \in DOMAIN schema.tables \cap DOMAIN database.tables :
              \E c \in DOMAIN schema.tables[t].cols
                       \ DOMAIN database.tables[t].cols :
                 /\ s = AddColumn(t, c)
                 /\ s.as.nullable \/ s.as.default
  BY <1>3, AddRuns
<1>4. CASE \E t \in DOMAIN schema.tables : \E f \in schema.tables[t].fks :
              s = KeyStatement(t, f)
  BY <1>4, KeyRuns
<1>5. CASE \E t \in DOMAIN schema.tables : \E i \in schema.tables[t].indexes :
              s = IndexStatement(t, i)
  BY <1>5, IndexRuns
<1>6. CASE \E o \in schema.objects : s = ObjectStatement(o) /\ Mine(o)
  BY <1>6, ObjectRuns
<1> QED
  BY <1>1, <1>2, <1>3, <1>4, <1>5, <1>6 DEF Wanted

\* A statement that runs takes the database further.
LEMMA RunStatementKeeps == ASSUME SchemaInv, RunStatement PROVE SchemaInv'
<1>1. PICK s \in pending :
         /\ Due(s)
         /\ IF Accepts(s)
            THEN database' = Advanced(s) /\ UNCHANGED failed
            ELSE failed' = TRUE /\ UNCHANGED database
         /\ pending' = pending \ {s}
  BY DEF RunStatement, Due, Advanced
<1>2. UNCHANGED <<identity, schema, recorded, edits>>
  BY DEF RunStatement
<1>3. /\ ~failed /\ schema = recorded /\ Towards(database, pending)
      /\ Defines(schema)
  BY <1>1 DEF SchemaInv
<1>4. /\ database' = Advanced(s) /\ UNCHANGED failed
      /\ Towards(Advanced(s), pending \ {s})
  BY <1>1, <1>3, StatementKeeps
<1>5. Towards(database, pending)'
  BY <1>1, <1>2, <1>4, SameWay
<1>6. pending' = {} => Settled'
  <2> SUFFICES ASSUME pending \ {s} = {} PROVE Settled'
    BY <1>1
  <2>1. database' = [tables |-> schema.tables,
                     objects |-> {o \in schema.objects : Mine(o)}]
    BY <1>3, <1>4, Arrived DEF Defines
  <2> QED
    BY <1>2, <1>3, <2>1 DEF Settled, Mine
<1>7. Defines(schema)' /\ Defines(recorded)'
  BY <1>2, <1>3
     DEF Defines, Shape, TableShape, Valid, ValidTable, Whole, WellKeyed
<1>8. KeysKept(schema)' /\ Addable(schema)'
  BY <1>2 DEF SchemaInv, KeysKept, Addable, Keys
<1> QED
  BY <1>2, <1>3, <1>4, <1>5, <1>6, <1>7, <1>8 DEF SchemaInv

\* A program that edits its definitions as it may.
LEMMA EditKeeps ==
    ASSUME ~KeysMayChange, ~Careless, SchemaInv,
           NEW new, Edit(new), Shape(new),
           recorded.objects \subseteq new.objects
    PROVE  SchemaInv'
<1>1. /\ Valid(new) /\ Whole(new) /\ KeysKept(new)
      /\ WellKeyed(new) /\ Addable(new) /\ pending = {}
      /\ schema' = new
      /\ UNCHANGED <<identity, recorded, database, pending, failed>>
  BY DEF Edit
<1>2. Defines(new)
  BY <1>1 DEF Defines
<1>3. Defines(schema)' /\ Defines(recorded)'
  BY <1>1, <1>2
     DEF SchemaInv, Defines, Shape, TableShape, Valid, ValidTable, Whole,
         WellKeyed
<1>4. KeysKept(schema)' /\ Addable(schema)'
  BY <1>1 DEF KeysKept, Addable, Keys
<1>5. Settled'
  BY <1>1 DEF SchemaInv, Settled, Mine
<1> QED
  BY <1>1, <1>3, <1>4, <1>5 DEF SchemaInv

\* Tables are defined that were not, together.
LEMMA DefineTablesKeeps ==
    ASSUME ~KeysMayChange, ~Careless, SchemaInv, DefineTables
    PROVE  SchemaInv'
<1>0. PICK ts \in SUBSET (Tables \ DOMAIN schema.tables) :
         \E bodies \in [ts -> Bodies] :
            Edit([schema EXCEPT !.tables = Over(bodies, @)])
  BY DEF DefineTables
<1>1. PICK bodies \in [ts -> Bodies] :
         Edit([schema EXCEPT !.tables = Over(bodies, @)])
  BY <1>0
<1> DEFINE new == [schema EXCEPT !.tables = Over(bodies, @)]
<1>2. Shape(schema) /\ recorded.objects \subseteq schema.objects
  BY DEF SchemaInv, Defines
<1>3. new = [tables  |-> Over(bodies, schema.tables),
             objects |-> schema.objects]
  BY <1>2 DEF Shape
<1>4. /\ DOMAIN Over(bodies, schema.tables) = ts \cup DOMAIN schema.tables
      /\ Over(bodies, schema.tables)
         = [t \in DOMAIN Over(bodies, schema.tables) |->
               Over(bodies, schema.tables)[t]]
      /\ \A t \in ts : Over(bodies, schema.tables)[t] \in Bodies
      /\ \A t \in DOMAIN schema.tables \ ts :
            Over(bodies, schema.tables)[t] = schema.tables[t]
  BY DEF Over
<1>5. \A body \in Bodies : TableShape(body)
  BY SchemaAssumption DEF TableShape
<1> HIDE DEF new
<1>6. Shape(new)
  BY <1>2, <1>3, <1>4, <1>5 DEF Shape
<1> QED
  BY <1>1, <1>2, <1>3, <1>6, EditKeeps DEF new

\* One table's definition is another.
LEMMA TableEditKeeps ==
    ASSUME ~KeysMayChange, ~Careless, SchemaInv,
           NEW t \in DOMAIN schema.tables, NEW body, TableShape(body),
           Edit(WithTable(t, body))
    PROVE  SchemaInv'
<1> DEFINE T == With(schema.tables, t, body)
<1>1. Shape(schema) /\ recorded.objects \subseteq schema.objects
  BY DEF SchemaInv, Defines
<1>2. WithTable(t, body) = [tables |-> T, objects |-> schema.objects]
  BY <1>1 DEF WithTable, Shape
<1>3. /\ DOMAIN T = DOMAIN schema.tables
      /\ T = [u \in DOMAIN T |-> T[u]]
      /\ T[t] = body
      /\ \A u \in DOMAIN schema.tables \ {t} : T[u] = schema.tables[u]
  BY DEF With, Over
<1> HIDE DEF T
<1>4. Shape(WithTable(t, body))
  BY <1>1, <1>2, <1>3 DEF Shape
<1>5. recorded.objects \subseteq WithTable(t, body).objects
  BY <1>1, <1>2
<1> QED
  BY <1>4, <1>5, EditKeeps

\* A column is added or defined anew.
LEMMA DefineColumnKeeps ==
    ASSUME ~KeysMayChange, ~Careless, SchemaInv, DefineColumn
    PROVE  SchemaInv'
<1>1. PICK t \in DOMAIN schema.tables, c \in Columns, as \in AddedColumns :
         Edit(WithTable(t, [schema.tables[t] EXCEPT !.cols = With(@, c, as)]))
  BY DEF DefineColumn
<1> DEFINE to == schema.tables[t]
           body == [to EXCEPT !.cols = With(@, c, as)]
<1>2. TableShape(to)
  BY DEF SchemaInv, Defines, Shape
<1> HIDE DEF to
<1>3. body = [cols |-> With(to.cols, c, as), pk |-> to.pk,
              uniques |-> to.uniques, indexes |-> to.indexes, fks |-> to.fks]
  <2> DEFINE cols == With(to.cols, c, as)
  <2>1. body = [to EXCEPT !.cols = cols]
    OBVIOUS
  <2> HIDE DEF cols, body
  <2>2. body = [cols |-> cols, pk |-> to.pk, uniques |-> to.uniques,
                indexes |-> to.indexes, fks |-> to.fks]
    BY <1>2, <2>1 DEF TableShape
  <2> QED
    BY <2>2 DEF cols
<1>4. With(to.cols, c, as)
      = [d \in DOMAIN With(to.cols, c, as) |-> With(to.cols, c, as)[d]]
  BY DEF With, Over
<1> HIDE DEF body
<1>5. TableShape(body)
  BY <1>3, <1>4 DEF TableShape
<1> QED
  BY <1>1, <1>5, TableEditKeeps DEF body, to

\* A table gets an index, which no recorded one may.
LEMMA DefineIndexKeeps ==
    ASSUME ~KeysMayChange, ~Careless, SchemaInv, DefineIndex
    PROVE  SchemaInv'
<1>1. PICK t \in DOMAIN schema.tables, i \in AddedKeys :
         Edit(WithTable(t, [schema.tables[t] EXCEPT !.indexes = @ \cup {i}]))
  BY DEF DefineIndex
<1> DEFINE to == schema.tables[t]
           body == [to EXCEPT !.indexes = @ \cup {i}]
<1>2. TableShape(to)
  BY DEF SchemaInv, Defines, Shape
<1>3. body = [cols |-> to.cols, pk |-> to.pk, uniques |-> to.uniques,
              indexes |-> to.indexes \cup {i}, fks |-> to.fks]
  BY <1>2 DEF TableShape
<1> HIDE DEF body
<1>4. TableShape(body)
  BY <1>2, <1>3 DEF TableShape
<1> QED
  BY <1>1, <1>4, TableEditKeeps DEF body

\* An object is defined.
LEMMA DefineObjectKeeps ==
    ASSUME ~KeysMayChange, ~Careless, SchemaInv, DefineObject
    PROVE  SchemaInv'
<1>1. PICK o \in Objects : Edit([schema EXCEPT !.objects = @ \cup {o}])
  BY DEF DefineObject
<1>2. Shape(schema) /\ recorded.objects \subseteq schema.objects
  BY DEF SchemaInv, Defines
<1> DEFINE new == [schema EXCEPT !.objects = @ \cup {o}]
<1>3. new = [tables |-> schema.tables, objects |-> schema.objects \cup {o}]
  BY <1>2 DEF Shape
<1> HIDE DEF new
<1>4. Shape(new) /\ recorded.objects \subseteq new.objects
  BY <1>2, <1>3 DEF Shape
<1> QED
  BY <1>1, <1>4, EditKeeps DEF new

\* A table is no longer defined.
LEMMA DropTableKeeps ==
    ASSUME ~KeysMayChange, ~Careless, SchemaInv, DropTable
    PROVE  SchemaInv'
<1>1. PICK t \in DOMAIN schema.tables :
         Edit([schema EXCEPT
             !.tables = [u \in DOMAIN schema.tables \ {t} |->
                            schema.tables[u]]])
  BY DEF DropTable
<1>2. Shape(schema) /\ recorded.objects \subseteq schema.objects
  BY DEF SchemaInv, Defines
<1> DEFINE new == [schema EXCEPT
                      !.tables = [u \in DOMAIN schema.tables \ {t} |->
                                     schema.tables[u]]]
<1>3. new = [tables  |-> [u \in DOMAIN schema.tables \ {t} |->
                            schema.tables[u]],
             objects |-> schema.objects]
  BY <1>2 DEF Shape
<1> HIDE DEF new
<1>4. Shape(new) /\ recorded.objects \subseteq new.objects
  BY <1>2, <1>3 DEF Shape
<1> QED
  BY <1>1, <1>4, EditKeeps DEF new

\* A migration is written by hand, with its snapshot.
LEMMA HandWriteKeeps == ASSUME SchemaInv, HandWrite PROVE SchemaInv'
<1>1. /\ pending = {} /\ ~failed /\ recorded' = schema
      /\ database' = [schema EXCEPT !.objects =
                         {o \in @ : o.dialect \in {"any", identity.dialect}}]
      /\ UNCHANGED <<identity, schema, pending, failed, edits>>
  BY DEF HandWrite
<1>2. Defines(schema)
  BY DEF SchemaInv
<1>3. Defines(schema)' /\ Defines(recorded)'
  BY <1>1, <1>2
     DEF Defines, Shape, TableShape, Valid, ValidTable, Whole, WellKeyed
<1>4. KeysKept(schema)' /\ Addable(schema)'
  BY <1>1 DEF KeysKept, Addable, Keys
<1>5. Settled'
  BY <1>1, <1>2 DEF Settled, Mine, Defines, Shape
<1> QED
  BY <1>1, <1>3, <1>4, <1>5 DEF SchemaInv

\* As long as the program changes no keys of a table it has deployed, and is
\* careful about what its engine takes, what is left of a migration takes the
\* database to the snapshot; when none runs, the database is what it says.
THEOREM SchemaAgrees ==
    ASSUME ~KeysMayChange, ~Careless
    PROVE  SchemaSpec => []SchemaInv
<1>1. SchemaInit => SchemaInv
  <2> SUFFICES ASSUME SchemaInit PROVE SchemaInv
    OBVIOUS
  <2>1. /\ schema = Empty /\ recorded = Empty /\ database = Empty
        /\ pending = {} /\ failed = FALSE
    BY DEF SchemaInit
  <2>2. /\ Empty.tables = << >> /\ DOMAIN Empty.tables = {}
        /\ Empty.objects = {}
        /\ Empty = [tables |-> << >>, objects |-> {}]
    BY DEF Empty
  <2>3. Shape(Empty)
    BY <2>2 DEF Shape
  <2>4. Defines(Empty)
    BY <2>2, <2>3 DEF Defines, Valid, Whole, WellKeyed
  <2>5. KeysKept(schema) /\ Addable(schema)
    BY <2>1, <2>2 DEF KeysKept, Addable
  <2>6. Settled
    BY <2>1, <2>2 DEF Settled
  <2> QED
    BY <2>1, <2>4, <2>5, <2>6 DEF SchemaInv
<1>2. SchemaInv /\ [SchemaNext]_schemaVars => SchemaInv'
  <2> SUFFICES ASSUME SchemaInv, [SchemaNext]_schemaVars PROVE SchemaInv'
    OBVIOUS
  <2>1. CASE Generate
    BY <2>1, GenerateKeeps
  <2>2. CASE RunStatement
    BY <2>2, RunStatementKeeps
  <2>3. CASE DefineTables
    BY <2>3, DefineTablesKeeps
  <2>4. CASE DefineColumn
    BY <2>4, DefineColumnKeeps
  <2>5. CASE DefineIndex
    BY <2>5, DefineIndexKeeps
  <2>6. CASE DefineObject
    BY <2>6, DefineObjectKeeps
  <2>7. CASE DropTable
    BY <2>7, DropTableKeeps
  <2>8. CASE HandWrite
    BY <2>8, HandWriteKeeps
  <2>9. CASE UNCHANGED schemaVars
    <3>1. UNCHANGED <<identity, schema, recorded, database, pending, failed,
                      edits>>
      BY <2>9 DEF schemaVars
    <3>2. Defines(schema)' /\ Defines(recorded)'
      BY <3>1 DEF SchemaInv, Defines, Shape, TableShape, Valid, ValidTable,
         Whole, WellKeyed
    <3>3. KeysKept(schema)' /\ Addable(schema)'
      BY <3>1 DEF SchemaInv, KeysKept, Addable, Keys
    <3>4. pending' = {} => Settled'
      BY <3>1 DEF SchemaInv, Settled, Mine
    <3>5. pending' # {} => Towards(database, pending)'
      BY <3>1, SameWay DEF SchemaInv
    <3> QED
      BY <3>1, <3>2, <3>3, <3>4, <3>5 DEF SchemaInv
  <2> QED
    BY <2>1, <2>2, <2>3, <2>4, <2>5, <2>6, <2>7, <2>8, <2>9 DEF SchemaNext
<1> QED
  BY <1>1, <1>2, PTL DEF SchemaSpec

\* Whatever the tables, their references and the edits between two migrations
\* are, every statement `generate` writes can run when its turn comes, in any
\* order of the tables.
THEOREM SchemaRuns ==
    ASSUME ~KeysMayChange, ~Careless
    PROVE  SchemaSpec => []StatementsRun
<1>1. SchemaInv => StatementsRun
  BY DEF SchemaInv, StatementsRun
<1> QED
  BY <1>1, SchemaAgrees, PTL

\* ... and when they have run, the database is the one the snapshot records:
\* `generate` recorded none that its statements do not produce.
THEOREM SnapshotIsProduced ==
    ASSUME ~KeysMayChange, ~Careless
    PROVE  SchemaSpec => []RecordedIsProduced
<1>1. SchemaInv => RecordedIsProduced
  BY DEF SchemaInv, RecordedIsProduced, Settled, Mine
<1> QED
  BY <1>1, SchemaAgrees, PTL

-----------------------------------------------------------------------------
(* Lists of a set's elements                                               *)

\* A sequence that has each element of a set once.
Lists(s, M) ==
    /\ s \in Seq(M)
    /\ \A x \in M : \E i \in DOMAIN s : s[i] = x
    /\ \A i, k \in DOMAIN s : s[i] = s[k] => i = k

\* A list has as many elements as its set.
LEMMA ListCounts ==
    ASSUME NEW s, NEW M, Lists(s, M)
    PROVE  ToSet(s) = M /\ Len(s) = Cardinality(M)
<1>1. s \in Seq(M) /\ DOMAIN s = 1 .. Len(s) /\ Len(s) \in Nat
  BY DEF Lists
<1>2. s \in Bijection(1 .. Len(s), M)
  BY <1>1 DEF Lists, Bijection, Injection, Surjection, IsInjective
<1>3. IsFiniteSet(1 .. Len(s)) /\ Cardinality(1 .. Len(s)) = Len(s)
  BY <1>1, FS_Interval
<1>4. Cardinality(M) = Cardinality(1 .. Len(s))
  BY <1>2, <1>3, FS_Bijection DEF ExistsBijection
<1>5. ToSet(s) = M
  BY <1>1 DEF Lists, ToSet
<1> QED
  BY <1>3, <1>4, <1>5

\* SetToSeq lists a finite set.
LEMMA SetToSeqLists ==
    ASSUME NEW M, IsFiniteSet(M)
    PROVE  Lists(SetToSeq(M), M)
<1> DEFINE n == Cardinality(M)
<1>1. n \in Nat /\ ExistsBijection(1 .. n, M)
  BY FS_CardinalityType
<1>2. PICK f : f \in Bijection(1 .. n, M)
  BY <1>1 DEF ExistsBijection
<1>3. f \in [1 .. n -> M] /\ IsInjective(f)
  BY <1>2 DEF Bijection, Injection, IsInjective
<1> DEFINE s == SetToSeq(M)
<1>4. s \in [1 .. n -> M] /\ IsInjective(s)
  BY <1>3 DEF SetToSeq
<1> HIDE DEF s, n
<1>5. s \in Injection(1 .. n, M)
  BY <1>4 DEF Injection, IsInjective
<1>6. IsFiniteSet(1 .. n) /\ Cardinality(1 .. n) = n
  BY <1>1, FS_Interval
<1>7. s \in Surjection(1 .. n, M)
  BY <1>5, <1>6, FS_Injection DEF n
<1>8. s \in Seq(M) /\ DOMAIN s = 1 .. n
  BY <1>1, <1>4
<1> QED
  BY <1>4, <1>7, <1>8 DEF Lists, Surjection, IsInjective, s

\* Lists of sets that have nothing in common, one after the other.
LEMMA AppendLists ==
    ASSUME NEW p, NEW q, NEW P, NEW Q, Lists(p, P), Lists(q, Q), P \cap Q = {}
    PROVE  Lists(p \o q, P \cup Q)
<1> DEFINE M == P \cup Q
           s == p \o q
<1>1. p \in Seq(M) /\ q \in Seq(M)
  BY DEF Lists
<1>2. /\ Len(p) \in Nat /\ Len(q) \in Nat
      /\ DOMAIN p = 1 .. Len(p) /\ DOMAIN q = 1 .. Len(q)
      /\ \A i \in DOMAIN p : p[i] \in P
      /\ \A i \in DOMAIN q : q[i] \in Q
  BY DEF Lists
<1>3. /\ s \in Seq(M) /\ Len(s) = Len(p) + Len(q)
      /\ \A i \in 1 .. Len(p) + Len(q) :
            s[i] = IF i <= Len(p) THEN p[i] ELSE q[i - Len(p)]
  BY <1>1, ConcatProperties
<1> HIDE DEF s
<1>4. DOMAIN s = 1 .. Len(p) + Len(q)
  BY <1>3
<1>5. ASSUME NEW x \in M PROVE \E i \in DOMAIN s : s[i] = x
  <2>1. CASE x \in P
    <3>1. PICK i \in DOMAIN p : p[i] = x
      BY <2>1 DEF Lists
    <3>2. i \in DOMAIN s /\ i <= Len(p)
      BY <1>2, <1>4
    <3> QED
      BY <1>3, <1>4, <3>1, <3>2
  <2>2. CASE x \in Q
    <3>1. PICK i \in DOMAIN q : q[i] = x
      BY <2>2 DEF Lists
    <3>2. /\ i + Len(p) \in DOMAIN s /\ ~(i + Len(p) <= Len(p))
          /\ (i + Len(p)) - Len(p) = i
      BY <1>2, <1>4
    <3> QED
      BY <1>3, <1>4, <3>1, <3>2
  <2> QED
    BY <2>1, <2>2
<1>6. ASSUME NEW i \in DOMAIN s, NEW k \in DOMAIN s, s[i] = s[k]
      PROVE  i = k
  <2>1. CASE i <= Len(p) /\ k <= Len(p)
    <3>1. i \in DOMAIN p /\ k \in DOMAIN p /\ p[i] = p[k]
      BY <1>2, <1>3, <1>4, <1>6, <2>1
    <3> QED
      BY <3>1 DEF Lists
  <2>2. CASE ~(i <= Len(p)) /\ ~(k <= Len(p))
    <3>1. /\ i - Len(p) \in DOMAIN q /\ k - Len(p) \in DOMAIN q
          /\ q[i - Len(p)] = q[k - Len(p)]
      BY <1>2, <1>3, <1>4, <1>6, <2>2
    <3>2. i - Len(p) = k - Len(p)
      BY <3>1 DEF Lists
    <3> QED
      BY <1>2, <1>4, <3>2
  <2>3. CASE i <= Len(p) /\ ~(k <= Len(p))
    <3>1. i \in DOMAIN p /\ k - Len(p) \in DOMAIN q /\ p[i] = q[k - Len(p)]
      BY <1>2, <1>3, <1>4, <1>6, <2>3
    <3> QED
      BY <1>2, <3>1
  <2>4. CASE ~(i <= Len(p)) /\ k <= Len(p)
    <3>1. k \in DOMAIN p /\ i - Len(p) \in DOMAIN q /\ p[k] = q[i - Len(p)]
      BY <1>2, <1>3, <1>4, <1>6, <2>4
    <3> QED
      BY <1>2, <3>1
  <2> QED
    BY <2>1, <2>2, <2>3, <2>4
<1> QED
  BY <1>3, <1>5, <1>6 DEF Lists, s

-----------------------------------------------------------------------------
(* The statement of an ETL job                                             *)

\* Where the code's promise holds: the database's buckets are the runner's, the
\* instants of the source are spelled as the bounds of a window are, and rows
\* have keys.
Agreeing ==
    /\ Spellings = {"iso"}
    /\ \A zone \in Zones : zone % Day = 0
    /\ Null \notin GroupValues

\* A row that a window folds, of a value of the group keys.
MeantRow(j, w, S, k) ==
    [key \in JobColumns(j) |->
        IF key = j.bucket THEN w
        ELSE IF key \in j.groupBy THEN k
        ELSE {s \in S : j.groupBy = {} \/ s.kind = k}]

\* All of a window's rows, and those of all windows that were folded.
RowsOf(j, w, S) == {MeantRow(j, w, S, r.kind) : r \in S}
AllOf(j, f) ==
    UNION {RowsOf(j, w, f[w]) : w \in {v \in Buckets : f[v] # NeverFolded}}

\* The rows there are in a window.
Between(w) == {r \in events : w <= r.at /\ r.at < w + Day}

\* What every step of a rollup keeps: the target lists what the rows of every
\* window, when it was last folded, mean.
RollupIInv ==
    /\ job \in Configurations /\ engine \in Engines
    /\ events \in SUBSET Events /\ IsFiniteSet(events)
    /\ seen = [w \in Buckets |-> seen[w]]
    /\ \A w \in Buckets : seen[w] = NeverFolded \/ seen[w] \subseteq Between(w)
    /\ ~broken
    /\ Defined(job) => Lists(target, AllOf(job, seen))

\* What the target is to have, of the job and what was folded.
LEMMA MeantIs == Meant = AllOf(job, seen)
BY DEF Meant, MeantOf, AllOf, RowsOf, MeantRow

\* Division by the length of a bucket.
LEMMA BucketOf ==
    ASSUME NEW t \in Int, NEW w \in Int, w % Day = 0, w <= t, t < w + Day
    PROVE  (t \div Day) * Day = w
<1>1. Day \in Nat \ {0}
  BY RollupAssumption
<1>2. /\ t \div Day \in Int /\ w \div Day \in Int
      /\ t % Day \in 0 .. Day - 1
      /\ t = Day * (t \div Day) + (t % Day)
      /\ w = Day * (w \div Day) + (w % Day)
  BY <1>1
<1> DEFINE p == t \div Day
           q == w \div Day
<1>3. /\ p \in Int /\ q \in Int /\ w = Day * q
      /\ Day * p <= t /\ t < Day * p + Day
  BY <1>1, <1>2
<1> HIDE DEF p, q
<1>4. ~(p < q)
  BY <1>1, <1>3
<1>5. ~(q < p)
  BY <1>1, <1>3
<1> QED
  BY <1>1, <1>3, <1>4, <1>5 DEF p

\* Of a job that could be defined, the roles do not overlap.
LEMMA JobParts ==
    ASSUME NEW j \in Configurations, Defined(j)
    PROVE  /\ j.bucket \in JobColumns(j) /\ j.bucket \notin j.groupBy
           /\ j.groupBy \subseteq JobColumns(j)
           /\ j.aggregates \subseteq JobColumns(j) /\ j.aggregates # {}
           /\ j.bucket \notin j.aggregates
           /\ \A key \in j.groupBy : key \notin j.aggregates
           /\ GroupKeys(j) \cup j.aggregates = JobColumns(j)
BY DEF Configurations, Defined, Claimed, JobColumns, GroupKeys

\* An engine agrees with the runner.
LEMMA EngineAgrees ==
    ASSUME NEW e \in Engines, Agreeing
    PROVE  e.spelling = "iso" /\ e.zone \in Int /\ e.zone % Day = 0
<1>1. Day \in Nat \ {0} /\ Zones \subseteq Int
  BY RollupAssumption
<1>2. 0 % Day = 0
  BY <1>1
<1> QED
  BY <1>1, <1>2 DEF Engines, Agreeing

\* The sum of two multiples of a bucket is one.
LEMMA ZoneShifts ==
    ASSUME NEW w \in Int, NEW z \in Int, w % Day = 0, z % Day = 0
    PROVE  (w + z) % Day = 0
<1>1. Day \in Nat \ {0}
  BY RollupAssumption
<1>2. /\ w = Day * (w \div Day) + (w % Day) /\ w \div Day \in Int
      /\ z = Day * (z \div Day) + (z % Day) /\ z \div Day \in Int
  BY <1>1
<1> DEFINE p == w \div Day
           q == z \div Day
<1>3. p \in Int /\ q \in Int /\ w + z = Day * (p + q)
  BY <1>1, <1>2
<1> HIDE DEF p, q
<1> DEFINE n == p + q
<1>4. n \in Int /\ w + z = Day * n
  BY <1>3
<1> HIDE DEF n
<1>5. (Day * n) % Day = 0
  BY <1>1, <1>4
<1> QED
  BY <1>4, <1>5

\* The bucket the database groups a row by is the window it is in.
LEMMA TruncatesToWindow ==
    ASSUME NEW e \in Engines, Agreeing, NEW w \in Buckets, NEW t \in Int,
           w <= t, t < w + Day
    PROVE  DateTrunc(t, e) = w
<1>1. /\ w \in Int /\ w % Day = 0 /\ Day \in Nat \ {0}
      /\ e.zone \in Int /\ e.zone % Day = 0
  BY RollupAssumption, EngineAgrees
<1> DEFINE z == e.zone
           from == w + z
           at == t + z
<1>2. from % Day = 0
  BY <1>1, ZoneShifts
<1>3. from \in Int /\ at \in Int /\ from <= at /\ at < from + Day
  BY <1>1
<1> HIDE DEF from, at
<1>4. (at \div Day) * Day = from
  BY <1>2, <1>3, BucketOf
<1> QED
  BY <1>1, <1>4 DEF DateTrunc, from, at

\* The rows a fold inserts are those the window's rows mean.
LEMMA InsertsMeant ==
    ASSUME Agreeing, RollupIInv, Defined(job), NEW from \in Buckets
    PROVE  Inserted(from, job, engine) = RowsOf(job, from, Between(from))
<1>1. job \in Configurations /\ engine \in Engines /\ events \subseteq Events
  BY DEF RollupIInv
<1>2. \A r \in events : r.at \in Int
  BY <1>1, RollupAssumption
<1>3. from \in Int /\ Day \in Int
  BY RollupAssumption
<1>4. Read(from, engine) = Between(from)
  <2>1. engine.spelling = "iso"
    BY <1>1, EngineAgrees
  <2>2. \A r \in events : Sorts(r.at, engine.spelling) = 3 * r.at
    BY <1>2, <2>1 DEF Sorts
  <2> QED
    BY <1>2, <1>3, <2>2 DEF Read, Between
<1> DEFINE S == Between(from)
<1>5. \A r \in S : DateTrunc(r.at, engine) = from
  BY <1>1, <1>2, TruncatesToWindow DEF Between
<1>6. ASSUME NEW r \in S, NEW key
      PROVE  Projected(key, r, job, engine)
             = IF key = job.bucket THEN from ELSE r.kind
  BY <1>5 DEF Projected
<1> HIDE DEF S
<1>7. ASSUME NEW r \in S
      PROVE  Group(r, S, job, engine)
             = {s \in S : job.groupBy = {} \/ s.kind = r.kind}
  <2>1. ASSUME NEW s \in S
        PROVE  (\A key \in GroupKeys(job) :
                   Projected(key, s, job, engine)
                   = Projected(key, r, job, engine))
               <=> (job.groupBy = {} \/ s.kind = r.kind)
    <3>1. \A key : /\ Projected(key, s, job, engine)
                      = IF key = job.bucket THEN from ELSE s.kind
                   /\ Projected(key, r, job, engine)
                      = IF key = job.bucket THEN from ELSE r.kind
      BY <1>6
    <3>2. \A key \in job.groupBy : key # job.bucket
      BY <1>1, JobParts
    <3> QED
      BY <3>1, <3>2 DEF GroupKeys
  <2> QED
    BY <2>1 DEF Group
<1>8. ASSUME NEW r \in S
      PROVE  Folded(r, S, job, engine) = MeantRow(job, from, S, r.kind)
  <2>1. GroupKeys(job) \cup job.aggregates = JobColumns(job)
    BY <1>1, JobParts
  <2>2. ASSUME NEW key \in JobColumns(job)
        PROVE  (IF key \in GroupKeys(job) THEN Projected(key, r, job, engine)
                ELSE Group(r, S, job, engine))
               = (IF key = job.bucket THEN from
                  ELSE IF key \in job.groupBy THEN r.kind
                  ELSE {s \in S : job.groupBy = {} \/ s.kind = r.kind})
    <3>1. /\ Projected(key, r, job, engine)
             = IF key = job.bucket THEN from ELSE r.kind
          /\ Group(r, S, job, engine)
             = {s \in S : job.groupBy = {} \/ s.kind = r.kind}
      BY <1>6, <1>7
    <3>2. key \in GroupKeys(job) <=> key = job.bucket \/ key \in job.groupBy
      BY DEF GroupKeys
    <3> QED
      BY <3>1, <3>2
  <2> QED
    BY <2>1, <2>2 DEF Folded, MeantRow
<1> QED
  BY <1>4, <1>8 DEF Inserted, RowsOf, S

\* What a row of a job shows.
LEMMA MeantShows ==
    ASSUME NEW j \in Configurations, Defined(j), NEW w, NEW S, NEW k
    PROVE  /\ DOMAIN MeantRow(j, w, S, k) = JobColumns(j)
           /\ MeantRow(j, w, S, k)[j.bucket] = w
           /\ \A key \in j.groupBy : MeantRow(j, w, S, k)[key] = k
           /\ \A key \in j.aggregates :
                 MeantRow(j, w, S, k)[key]
                 = {s \in S : j.groupBy = {} \/ s.kind = k}
BY JobParts DEF MeantRow

\* Rows are of the same bucket and group.
Alike(j, w, k, v, l) == w = v /\ (j.groupBy = {} \/ k = l)

\* Of one bucket and group, a window means one row.
LEMMA AlikeSame ==
    ASSUME NEW j, NEW w, NEW k, NEW v, NEW l, Alike(j, w, k, v, l), NEW S
    PROVE  MeantRow(j, w, S, k) = MeantRow(j, v, S, l)
BY DEF Alike, MeantRow

\* The rows of the target that a row conflicts with are those like it.
LEMMA ConflictsAlike ==
    ASSUME NEW j \in Configurations, Defined(j), NEW list,
           NEW i \in DOMAIN list, NEW w, NEW S, NEW k, k # Null,
           NEW v, NEW T, NEW l,
           list[i] = MeantRow(j, v, T, l)
    PROVE  i \in Conflicts(MeantRow(j, w, S, k), list, j)
           <=> Alike(j, w, k, v, l)
<1> DEFINE row == MeantRow(j, w, S, k)
           old == MeantRow(j, v, T, l)
<1>1. /\ row[j.bucket] = w /\ old[j.bucket] = v
      /\ \A key \in j.groupBy : row[key] = k /\ old[key] = l
  BY MeantShows
<1> HIDE DEF row, old
<1>2. (\A key \in UniqueKey(j) :
          (key = j.bucket \/ row[key] # Null) /\ old[key] = row[key])
      <=> Alike(j, w, k, v, l)
  BY <1>1 DEF UniqueKey, Alike
<1> QED
  BY <1>2 DEF Conflicts, row, old

\* A row that a like one overwrites is that one.
LEMMA OverwritesAlike ==
    ASSUME NEW j \in Configurations, Defined(j), NEW w, NEW S, NEW k,
           NEW v, NEW T, NEW l, Alike(j, w, k, v, l)
    PROVE  Overwrite(MeantRow(j, v, T, l), MeantRow(j, w, S, k), j)
           = MeantRow(j, w, S, k)
<1> DEFINE row == MeantRow(j, w, S, k)
           old == MeantRow(j, v, T, l)
<1>0. row = [key \in JobColumns(j) |-> row[key]]
  BY DEF MeantRow
<1>1. /\ DOMAIN old = JobColumns(j)
      /\ row[j.bucket] = w /\ old[j.bucket] = v
      /\ \A key \in j.groupBy : row[key] = k /\ old[key] = l
  BY MeantShows
<1>2. ASSUME NEW key \in JobColumns(j), key \notin j.aggregates
      PROVE  old[key] = row[key]
  BY <1>1, <1>2 DEF Alike, JobColumns
<1> HIDE DEF row, old
<1> QED
  BY <1>0, <1>1, <1>2 DEF Overwrite, Overwritten, row, old

\* Rows that are the same are of the same bucket and group.
LEMMA SameAlike ==
    ASSUME NEW j \in Configurations, Defined(j), NEW w, NEW S, NEW k,
           NEW v, NEW T, NEW l, MeantRow(j, w, S, k) = MeantRow(j, v, T, l)
    PROVE  Alike(j, w, k, v, l)
<1> DEFINE row == MeantRow(j, w, S, k)
           old == MeantRow(j, v, T, l)
<1>1. /\ row[j.bucket] = w /\ old[j.bucket] = v
      /\ \A key \in j.groupBy : row[key] = k /\ old[key] = l
  BY MeantShows
<1>2. row = old
  OBVIOUS
<1> HIDE DEF row, old
<1> QED
  BY <1>1, <1>2 DEF Alike

\* A fold leaves the target with what the rows of its window mean, beside what
\* the other windows folded.
LEMMA FoldKeeps ==
    ASSUME Agreeing, RollupIInv, Defined(job), NEW from \in Buckets
    PROVE  Lists(Upserted(target, Inserted(from, job, engine), job),
                 AllOf(job, [seen EXCEPT ![from] = Between(from)]))
<1> DEFINE S == Between(from)
           after == [seen EXCEPT ![from] = S]
           inserted == RowsOf(job, from, S)
           Conflicting(i) == {row \in inserted :
                                 i \in Conflicts(row, target, job)}
           p == [i \in DOMAIN target |->
                    IF Conflicting(i) = {} THEN target[i]
                    ELSE Overwrite(target[i],
                                   CHOOSE row \in Conflicting(i) : TRUE, job)]
           fresh == {row \in inserted : Conflicts(row, target, job) = {}}
<1>1. /\ job \in Configurations
      /\ events \subseteq Events /\ IsFiniteSet(events)
      /\ Lists(target, AllOf(job, seen))
      /\ seen = [w \in Buckets |-> seen[w]]
      /\ \A w \in Buckets :
            seen[w] = NeverFolded \/ seen[w] \subseteq Between(w)
  BY DEF RollupIInv
<1>2. Inserted(from, job, engine) = inserted
  BY InsertsMeant
<1>3. Upserted(target, inserted, job) = p \o SetToSeq(fresh)
  BY DEF Upserted
<1>4. /\ S \subseteq events /\ \A r \in S : r.kind # Null
      /\ S # NeverFolded
  BY <1>1, RollupAssumption DEF Between, Agreeing, NeverFolded, Row
<1>5. /\ after[from] = S
      /\ \A w \in Buckets : w # from => after[w] = seen[w]
  BY <1>1
<1> HIDE DEF S, after, inserted
<1>6. ASSUME NEW i \in DOMAIN target
      PROVE  \E w, r :
                /\ w \in Buckets /\ r \in seen[w]
                /\ seen[w] # NeverFolded /\ r \in after[w]
                /\ target[i] = MeantRow(job, w, seen[w], r.kind)
                /\ p[i] = MeantRow(job, w, after[w], r.kind)
  <2>1. target[i] \in AllOf(job, seen)
    BY <1>1 DEF Lists
  <2>2. PICK w \in Buckets : /\ seen[w] # NeverFolded
                             /\ target[i] \in RowsOf(job, w, seen[w])
    BY <2>1 DEF AllOf
  <2>3. PICK r \in seen[w] : target[i] = MeantRow(job, w, seen[w], r.kind)
    BY <2>2 DEF RowsOf
  <2>4. CASE w # from
    <3>1. Conflicting(i) = {}
      <4> SUFFICES ASSUME NEW row \in inserted,
                          i \in Conflicts(row, target, job)
                   PROVE  FALSE
        OBVIOUS
      <4>1. PICK q \in S : row = MeantRow(job, from, S, q.kind)
        BY DEF inserted, RowsOf
      <4>2. Alike(job, from, q.kind, w, r.kind)
        BY <1>1, <1>4, <2>3, <4>1, ConflictsAlike
      <4> QED
        BY <2>4, <4>2 DEF Alike
    <3>2. p[i] = target[i]
      BY <3>1
    <3> HIDE DEF p
    <3> QED
      BY <1>5, <2>2, <2>3, <2>4, <3>2
  <2>5. CASE w = from
    <3>1. r \in S
      BY <1>1, <2>2, <2>3, <2>5 DEF S
    <3> DEFINE mine == MeantRow(job, from, S, r.kind)
    <3>2. mine \in Conflicting(i)
      <4>1. mine \in inserted
        BY <3>1 DEF inserted, RowsOf
      <4>2. Alike(job, from, r.kind, w, r.kind) /\ r.kind # Null
        BY <1>4, <2>5, <3>1 DEF Alike
      <4>3. i \in Conflicts(mine, target, job)
        BY <1>1, <2>3, <4>2, ConflictsAlike
      <4> QED
        BY <4>1, <4>3
    <3>3. PICK row \in Conflicting(i) : p[i] = Overwrite(target[i], row, job)
      BY <3>2
    <3>4. PICK q \in S : row = MeantRow(job, from, S, q.kind)
      BY <3>3 DEF inserted, RowsOf
    <3>5. q.kind # Null /\ i \in Conflicts(row, target, job)
      BY <1>4, <3>3
    <3>6. Alike(job, from, q.kind, w, r.kind)
      BY <1>1, <2>3, <3>4, <3>5, ConflictsAlike
    <3>7. p[i] = row
      <4> HIDE DEF p
      <4> QED
        BY <1>1, <2>3, <3>3, <3>4, <3>6, OverwritesAlike
    <3>8. row = MeantRow(job, w, S, r.kind)
      BY <3>4, <3>6, AlikeSame
    <3> HIDE DEF p, mine
    <3> QED
      BY <1>5, <2>2, <2>3, <2>5, <3>1, <3>7, <3>8
  <2> QED
    BY <2>4, <2>5
<1> DEFINE P == {p[i] : i \in DOMAIN target}
<1>7. target \in Seq(AllOf(job, seen)) /\ DOMAIN target = 1 .. Len(target)
      /\ Len(target) \in Nat
  BY <1>1 DEF Lists
<1>8. Lists(p, P)
  <2>1. p \in Seq(P) /\ DOMAIN p = DOMAIN target
    <3>1. DOMAIN p = DOMAIN target /\ p = [i \in DOMAIN target |-> p[i]]
      OBVIOUS
    <3> HIDE DEF p
    <3>2. p \in [1 .. Len(target) -> P]
      BY <1>7, <3>1
    <3> QED
      BY <1>7, <3>1, <3>2
  <2> HIDE DEF p
  <2>2. ASSUME NEW i \in DOMAIN target, NEW k \in DOMAIN target, p[i] = p[k]
        PROVE  i = k
    <3>1. PICK w, r :
             /\ w \in Buckets /\ r \in seen[w]
             /\ target[i] = MeantRow(job, w, seen[w], r.kind)
             /\ p[i] = MeantRow(job, w, after[w], r.kind)
      BY <1>6
    <3>2. PICK v, q :
             /\ v \in Buckets /\ q \in seen[v]
             /\ target[k] = MeantRow(job, v, seen[v], q.kind)
             /\ p[k] = MeantRow(job, v, after[v], q.kind)
      BY <1>6
    <3>3. Alike(job, w, r.kind, v, q.kind)
      BY <1>1, <2>2, <3>1, <3>2, SameAlike
    <3>4. w = v
      BY <3>3 DEF Alike
    <3>5. target[i] = target[k]
      BY <3>1, <3>2, <3>3, <3>4, AlikeSame
    <3> QED
      BY <1>1, <3>5 DEF Lists
  <2> QED
    BY <2>1, <2>2 DEF Lists
<1> HIDE DEF p
<1>9. Lists(SetToSeq(fresh), fresh)
  <2> DEFINE f == [r \in S |-> MeantRow(job, from, S, r.kind)]
  <2>1. f \in Surjection(S, inserted)
    BY DEF Surjection, inserted, RowsOf
  <2>2. IsFiniteSet(S)
    BY <1>1, <1>4, FS_Subset
  <2>3. IsFiniteSet(inserted)
    <3> HIDE DEF f
    <3> QED
      BY <2>1, <2>2, FS_Surjection
  <2>4. IsFiniteSet(fresh)
    BY <2>3, FS_Subset
  <2> HIDE DEF fresh
  <2> QED
    BY <2>4, SetToSeqLists
<1>10. ASSUME NEW i \in DOMAIN target, p[i] \in inserted
       PROVE  p[i] \notin fresh
  <2>1. PICK w, r :
           /\ w \in Buckets /\ r \in seen[w]
           /\ target[i] = MeantRow(job, w, seen[w], r.kind)
           /\ p[i] = MeantRow(job, w, after[w], r.kind)
    BY <1>6
  <2>2. PICK q \in S : p[i] = MeantRow(job, from, S, q.kind)
    BY <1>10 DEF inserted, RowsOf
  <2>3. Alike(job, from, q.kind, w, r.kind)
    BY <1>1, <2>1, <2>2, SameAlike
  <2>4. i \in Conflicts(p[i], target, job)
    BY <1>1, <1>4, <2>1, <2>2, <2>3, ConflictsAlike
  <2> QED
    BY <2>4
<1>11. P \cap fresh = {}
  BY <1>10
<1>12. P \cup fresh \subseteq AllOf(job, after)
  <2>1. ASSUME NEW i \in DOMAIN target PROVE p[i] \in AllOf(job, after)
    <3>1. PICK w, r :
             /\ w \in Buckets /\ r \in seen[w]
             /\ seen[w] # NeverFolded /\ r \in after[w]
             /\ p[i] = MeantRow(job, w, after[w], r.kind)
      BY <1>6
    <3>2. after[w] # NeverFolded
      BY <1>4, <1>5, <3>1
    <3> QED
      BY <3>1, <3>2 DEF AllOf, RowsOf
  <2>2. fresh \subseteq AllOf(job, after)
    BY <1>4, <1>5 DEF AllOf, inserted
  <2> QED
    BY <2>1, <2>2
<1>13. ASSUME NEW x \in AllOf(job, after) PROVE x \in P \cup fresh
  <2>1. PICK v \in Buckets :
           after[v] # NeverFolded /\ x \in RowsOf(job, v, after[v])
    BY <1>13 DEF AllOf
  <2>2. PICK q \in after[v] : x = MeantRow(job, v, after[v], q.kind)
    BY <2>1 DEF RowsOf
  <2>3. ASSUME NEW i \in DOMAIN target, NEW w, NEW r,
               p[i] = MeantRow(job, w, after[w], r.kind),
               Alike(job, w, r.kind, v, q.kind)
        PROVE  x \in P
    <3>1. w = v
      BY <2>3 DEF Alike
    <3>2. p[i] = x
      BY <2>2, <2>3, <3>1, AlikeSame
    <3> QED
      BY <3>2
  <2>4. CASE v # from
    <3>1. after[v] = seen[v]
      BY <1>5, <2>4
    <3>2. x \in AllOf(job, seen)
      BY <2>1, <3>1 DEF AllOf
    <3>3. PICK i \in DOMAIN target : target[i] = x
      BY <1>1, <3>2 DEF Lists
    <3>4. PICK w, r :
             /\ w \in Buckets /\ r \in seen[w]
             /\ target[i] = MeantRow(job, w, seen[w], r.kind)
             /\ p[i] = MeantRow(job, w, after[w], r.kind)
      BY <1>6
    <3>5. Alike(job, w, r.kind, v, q.kind)
      BY <1>1, <2>2, <3>3, <3>4, SameAlike
    <3> QED
      BY <2>3, <3>4, <3>5
  <2>5. CASE v = from /\ x \notin fresh
    <3>1. q \in S /\ x = MeantRow(job, from, S, q.kind) /\ x \in inserted
      BY <1>5, <2>2, <2>5 DEF inserted, RowsOf
    <3>2. PICK i \in Conflicts(x, target, job) : TRUE
      BY <2>5, <3>1
    <3>3. i \in DOMAIN target
      BY DEF Conflicts
    <3>4. PICK w, r :
             /\ w \in Buckets /\ r \in seen[w]
             /\ target[i] = MeantRow(job, w, seen[w], r.kind)
             /\ p[i] = MeantRow(job, w, after[w], r.kind)
      BY <1>6, <3>3
    <3>5. Alike(job, from, q.kind, w, r.kind)
      BY <1>1, <1>4, <3>1, <3>2, <3>3, <3>4, ConflictsAlike
    <3>6. Alike(job, w, r.kind, v, q.kind)
      BY <2>5, <3>5 DEF Alike
    <3> QED
      BY <2>3, <3>3, <3>4, <3>6
  <2> QED
    BY <2>4, <2>5
<1>14. P \cup fresh = AllOf(job, after)
  BY <1>12, <1>13
<1> HIDE DEF P, fresh
<1>15. Lists(p \o SetToSeq(fresh), P \cup fresh)
  BY <1>8, <1>9, <1>11, AppendLists
<1> QED
  BY <1>2, <1>3, <1>14, <1>15 DEF after, S

\* A job that could be defined has a statement that runs.
LEMMA DefinedRuns ==
    ASSUME NEW j \in Configurations, Defined(j), NEW e
    PROVE  Runs(j, e)
BY DEF Runs, Defined, Covered, JobColumns, GroupKeys, ConflictTarget, UniqueKey

\* Nothing is folded at first.
LEMMA RollupStart ==
    ASSUME RollupInit PROVE RollupIInv
<1>1. AllOf(job, seen) = {}
  BY DEF RollupInit, AllOf
<1>2. Lists(target, AllOf(job, seen))
  BY <1>1 DEF RollupInit, Lists
<1>3. IsFiniteSet(events)
  BY FS_EmptySet DEF RollupInit
<1> QED
  BY <1>2, <1>3 DEF RollupInit, RollupIInv

\* Every step of a rollup, a row that arrives and a fold, keeps it.
LEMMA RollupStep ==
    ASSUME Agreeing, RollupIInv, [RollupNext]_rollupVars
    PROVE  RollupIInv'
<1> USE DEF RollupIInv
<1>1. CASE UNCHANGED rollupVars
  <2>1. UNCHANGED <<job, engine, events, target, seen, broken>>
    BY <1>1 DEF rollupVars
  <2>2. \A w \in Buckets : Between(w)' = Between(w)
    BY <2>1 DEF Between
  <2>3. Defined(job)' => Lists(target, AllOf(job, seen))'
    BY <2>1
  <2> QED
    BY <2>1, <2>2, <2>3
<1>2. ASSUME NEW r \in Events, Arrive(r) PROVE RollupIInv'
  <2>1. /\ events' = events \cup {r}
        /\ UNCHANGED <<job, engine, target, seen, broken>>
    BY <1>2 DEF Arrive
  <2>2. IsFiniteSet(events')
    BY <2>1, FS_AddElement
  <2>3. \A w \in Buckets : Between(w) \subseteq Between(w)'
    BY <2>1 DEF Between
  <2>4. Defined(job)' => Lists(target, AllOf(job, seen))'
    BY <2>1
  <2> QED
    BY <2>1, <2>2, <2>3, <2>4
<1>3. ASSUME NEW from \in Buckets, FoldWindow(from) PROVE RollupIInv'
  <2>1. /\ Defined(job) /\ UNCHANGED <<job, engine, events>>
        /\ Runs(job, engine)
    BY <1>3, DefinedRuns DEF FoldWindow
  <2>2. /\ target' = Upserted(target, Inserted(from, job, engine), job)
        /\ seen' = [seen EXCEPT ![from] = Between(from)]
        /\ broken' = broken
    BY <1>3, <2>1 DEF FoldWindow, Between
  <2>3. Lists(target', AllOf(job, seen'))
    BY <2>1, <2>2, FoldKeeps
  <2>4. \A w \in Buckets : Between(w)' = Between(w)
    BY <2>1 DEF Between
  <2>5. Lists(target, AllOf(job, seen))'
    BY <2>1, <2>3
  <2> QED
    BY <2>1, <2>2, <2>4, <2>5
<1> QED
  BY <1>1, <1>2, <1>3 DEF RollupNext

\* "A re-run of the same window overwrites rather than double-counts", and "the
\* window edges the runner computes and the buckets the database groups by can
\* never disagree": for any job that could be defined, any rows and any windows
\* folded in any order, again and again while rows arrive late.
THEOREM RollupIsRight ==
    ASSUME Agreeing
    PROVE  RollupSpec => []RollupMeans
<1>1. RollupIInv => RollupMeans
  BY MeantIs, ListCounts DEF RollupIInv, RollupMeans
<1>2. RollupInit => RollupIInv
  BY RollupStart
<1>3. RollupIInv /\ [RollupNext]_rollupVars => RollupIInv'
  BY RollupStep
<1> QED
  BY <1>1, <1>2, <1>3, PTL DEF RollupSpec

\* No window overwrites what another one folded.
THEOREM NoRowIsLost ==
    ASSUME Agreeing
    PROVE  RollupSpec => []NoRowLost
<1>1. RollupIInv => NoRowLost
  <2> SUFFICES ASSUME RollupIInv, Defined(job), NEW w \in Buckets,
                      seen[w] # NeverFolded, NEW r \in seen[w]
               PROVE  \E i \in DOMAIN target : \E key \in job.aggregates :
                         r \in target[i][key]
    BY DEF NoRowLost
  <2>1. job \in Configurations /\ Lists(target, AllOf(job, seen))
    BY DEF RollupIInv
  <2> DEFINE row == MeantRow(job, w, seen[w], r.kind)
  <2>2. row \in AllOf(job, seen)
    BY DEF AllOf, RowsOf
  <2>3. PICK i \in DOMAIN target : target[i] = row
    BY <2>1, <2>2 DEF Lists
  <2>4. PICK key \in job.aggregates : TRUE
    BY <2>1, JobParts
  <2>5. row[key] = {s \in seen[w] : job.groupBy = {} \/ s.kind = r.kind}
    BY <2>1, MeantShows
  <2> QED
    BY <2>3, <2>4, <2>5
<1>2. RollupInit => RollupIInv
  BY RollupStart
<1>3. RollupIInv /\ [RollupNext]_rollupVars => RollupIInv'
  BY RollupStep
<1> QED
  BY <1>1, <1>2, <1>3, PTL DEF RollupSpec

-----------------------------------------------------------------------------
(* Dates, times and instants                                               *)

\* The parts of a value, and its wall clock.
Proper(type, day, minute) ==
    /\ type \in {"date", "time", "timestamp", "timestamptz"}
    /\ day \in Int /\ minute \in 0 .. 1439
    /\ type = "date" => minute = 0
    /\ type = "time" => day = 0

\* Minutes, by a wall clock.
Wall(day, minute) == day * 1440 + minute

\* The Dates that are local ones.
LEMMA LocalDates ==
    ASSUME NEW type, driver \in {"pg", "neon"},
           type \in {"date", "timestamp", "timestamptz"}
    PROVE  LocalDate(type)
           <=> type = "timestamp" \/ (driver = "neon" /\ type = "date")
<1>1. CASE driver = "pg"
  BY <1>1 DEF LocalDate
<1>2. CASE driver = "neon"
  BY <1>2 DEF LocalDate
<1> QED
  BY <1>1, <1>2

\* What each driver hands over of a text, in a process at UTC if it is a local
\* Date.
LEMMA HandsOver ==
    ASSUME NEW type, NEW day, NEW sep, NEW minute, NEW mark, NEW zone,
           driver \in {"pg", "neon", "mysql", "sqlite"},
           Proper(type, day, minute), LocalDate(type) => zone = 0
    PROVE  LET text == Text(day, sep, minute, mark)
               read == HandedOver(type, text, zone)
           IN  \/ read = text
               \/ read = Spaced(text)
               \/ type # "time" /\ read = Date(Wall(day, minute))
<1> DEFINE text == Text(day, sep, minute, mark)
           read == HandedOver(type, text, zone)
           wall == text.day * 1440 + text.minute
<1>1. text.day = day /\ text.minute = minute
  BY DEF Text
<1>2. type \in {"date", "time", "timestamp", "timestamptz"}
  BY DEF Proper
<1> HIDE DEF text
<1>3. driver = "sqlite" => read = text
  BY DEF HandedOver
<1>4. driver = "mysql" /\ type \in {"date", "time"} => read = text
  BY DEF HandedOver
<1>5. driver = "mysql" /\ type \in {"timestamp", "timestamptz"} =>
         read = Spaced(text)
  BY DEF HandedOver
<1>6. driver \in {"pg", "neon"} /\ type = "time" => read = text
  BY DEF HandedOver
<1>7. ASSUME driver \in {"pg", "neon"}, type # "time"
      PROVE  read = Date(IF LocalDate(type) THEN wall - zone ELSE wall)
  <2>1. read
        = CASE type = "time" -> text
            [] type = "timestamptz" -> Date(wall)
            [] type = "timestamp" -> Date(wall - zone)
            [] type = "date" ->
                  Date(IF driver = "neon" THEN wall - zone ELSE wall)
    BY <1>7 DEF HandedOver
  <2>2. LocalDate(type)
        <=> type = "timestamp" \/ (driver = "neon" /\ type = "date")
    BY <1>2, <1>7, LocalDates
  <2> HIDE DEF read, wall
  <2>3. CASE type = "timestamptz"
    BY <2>1, <2>2, <2>3
  <2>4. CASE type = "timestamp"
    BY <2>1, <2>2, <2>4
  <2>5. CASE type = "date"
    BY <2>1, <2>2, <2>5
  <2> QED
    BY <1>2, <1>7, <2>3, <2>4, <2>5
<1>8. wall = day * 1440 + minute
  BY <1>1
<1> HIDE DEF read, wall
<1>9. driver \in {"pg", "neon"} /\ type # "time" =>
          read = Date(Wall(day, minute))
  <2>1. day \in Int /\ minute \in Int
    BY DEF Proper
  <2>2. wall = Wall(day, minute) /\ wall - 0 = wall
    BY <1>8, <2>1 DEF Wall
  <2> QED
    BY <1>7, <2>2
<1>10. driver = "sqlite" \/ type = "time"
          \/ (driver = "mysql" /\ type = "date") => read = text
  BY <1>3, <1>4, <1>6
<1> QED
  BY <1>2, <1>5, <1>9, <1>10 DEF read, text

\* What a value is written as, on every database.
LEMMA Writes ==
    ASSUME NEW value \in Moments,
           driver \in {"pg", "neon", "mysql", "sqlite"}
    PROVE  /\ value.type = "date" =>
                 Literal(value) = Text(value.day, "", 0, Unzoned)
           /\ value.type = "time" =>
                 Literal(value) = Text(0, "", value.minute, Unzoned)
           /\ value.type = "timestamp" =>
                 Literal(value) = Text(value.day, "T", value.minute, Unzoned)
           /\ value.type = "timestamptz" /\ driver # "mysql" =>
                 Literal(value) = Text(value.day, "T", value.minute, Z)
           /\ value.type = "timestamptz" /\ driver = "mysql" =>
                 Literal(value) = Text(value.day, " ", value.minute, Unzoned)
<1>1. CASE value.type = "date"
  BY <1>1 DEF Literal, Serialize
<1>2. CASE value.type = "time"
  BY <1>2 DEF Literal, Serialize
<1>3. CASE value.type = "timestamp"
  BY <1>3 DEF Literal, Serialize
<1>4. CASE value.type = "timestamptz"
  <2>1. Serialize(value) = Text(value.day, "T", value.minute, Z)
    BY <1>4 DEF Serialize
  <2>2. CASE driver = "mysql"
    <3>1. Literal(value) = Spaced(Serialize(value))
      BY <1>4, <2>2 DEF Literal
    <3>2. Literal(value) = Spaced(Text(value.day, "T", value.minute, Z))
      BY <2>1, <3>1
    <3> QED
      BY <1>4, <2>2, <3>2 DEF Spaced, Text
  <2>3. CASE driver # "mysql"
    BY <1>4, <2>1, <2>3 DEF Literal
  <2> QED
    BY <2>2, <2>3
<1>5. value.type \in {"date", "time", "timestamp", "timestamptz"}
  BY MomentsAssumption
<1> QED
  BY <1>1, <1>2, <1>3, <1>4, <1>5

\* A value's text, or a Date of its wall clock, is parsed as the value.
LEMMA Parses ==
    ASSUME NEW type, NEW day, NEW minute, NEW sep, NEW zone,
           Proper(type, day, minute), zone = Unzoned \/ zone = Z
    PROVE  /\ Parse(type, Text(day, sep, minute, zone))
              = Val(type, day, minute)
           /\ type # "time" => Parse(type, Date(Wall(day, minute)))
                               = Val(type, day, minute)
<1>1. /\ type \in {"date", "time", "timestamp", "timestamptz"}
      /\ day \in Int /\ minute \in 0 .. 1439
      /\ type = "date" => minute = 0
      /\ type = "time" => day = 0
  BY DEF Proper
<1> DEFINE text == Text(day, sep, minute, zone)
           iso == Text(day, "T", minute, Z)
           wall == day * 1440 + minute
           date == Date(wall)
<1>2. wall \in Int /\ wall \div 1440 = day /\ wall % 1440 = minute
      /\ wall - 0 = wall
  <2>1. wall \in Int /\ wall - 0 = wall
    BY <1>1
  <2>2. wall \div 1440 = day /\ wall % 1440 = minute
    BY <1>1
  <2> QED
    BY <2>1, <2>2
<1>3. ~IsDate(text) /\ text.day = day /\ text.minute = minute
      /\ text.zone = zone
  BY DEF IsDate, Text
<1>4. /\ Unmarked(text) = Text(day, sep, minute, Unzoned)
      /\ Unmarked(text).day = day /\ Unmarked(text).minute = minute
  BY DEF Unmarked, Text
<1>5. IsDate(date) /\ ToIsoString(date) = iso
  <2>1. IsDate(date) /\ date.instant = wall
    BY DEF IsDate, Date
  <2> HIDE DEF wall, date
  <2> QED
    BY <1>2, <2>1 DEF ToIsoString
<1>6. /\ iso.day = day /\ iso.minute = minute /\ iso.zone = Z
      /\ Unmarked(iso).day = day /\ Unmarked(iso).minute = minute
  BY DEF Unmarked, Text
<1>7. Z # Unzoned /\ Z[1] = 0
  BY DEF Z, Unzoned
<1>8. ASSUME NEW t, t.zone = Z, t.day = day, t.minute = minute
      PROVE  InstantFrom(t) = Val("timestamptz", day, minute)
  <2>1. t.day * 1440 + t.minute - t.zone[1] = wall
    BY <1>2, <1>7, <1>8
  <2> HIDE DEF wall
  <2> QED
    BY <1>2, <1>7, <1>8, <2>1 DEF InstantFrom
<1> HIDE DEF text, iso, wall, date
<1>9. InstantText(text).zone = Z /\ InstantText(text).day = day
      /\ InstantText(text).minute = minute
  <2>1. CASE zone = Unzoned
    <3>1. InstantText(text) = Text(day, text.sep, minute, Z)
      BY <1>3, <2>1 DEF InstantText
    <3> QED
      BY <3>1 DEF Text
  <2>2. CASE zone = Z
    <3>1. InstantText(text) = text
      BY <1>3, <1>7, <2>2 DEF InstantText
    <3> QED
      BY <1>3, <2>2, <3>1
  <2> QED
    BY <2>1, <2>2
<1>10. Parse(type, text) = Val(type, day, minute)
  <2>1. CASE type = "date"
    BY <1>1, <1>3, <2>1 DEF Parse, DateText
  <2>2. CASE type = "time"
    BY <1>1, <1>3, <1>4, <2>2 DEF Parse, PlainText, DateText
  <2>3. CASE type = "timestamp"
    BY <1>1, <1>3, <1>4, <2>3 DEF Parse, PlainText, DateText
  <2>4. CASE type = "timestamptz"
    <3>1. InstantFrom(InstantText(text)) = Val(type, day, minute)
      BY <1>8, <1>9, <2>4
    <3> QED
      BY <2>4, <3>1 DEF Parse
  <2> QED
    BY <1>1, <2>1, <2>2, <2>3, <2>4
<1>11. type # "time" => Parse(type, date) = Val(type, day, minute)
  <2>1. CASE type = "date"
    BY <1>1, <1>5, <1>6, <2>1 DEF Parse, DateText
  <2>2. CASE type = "timestamp"
    BY <1>1, <1>5, <1>6, <2>2 DEF Parse, PlainText, DateText
  <2>3. CASE type = "timestamptz"
    <3>1. InstantText(date) = iso
      BY <1>5 DEF InstantText
    <3>2. InstantFrom(InstantText(date)) = Val(type, day, minute)
      BY <1>6, <1>8, <2>3, <3>1
    <3> QED
      BY <2>3, <3>2 DEF Parse
  <2> QED
    BY <1>1, <2>1, <2>2, <2>3
<1> QED
  BY <1>10, <1>11 DEF text, date, wall, Wall

\* What is read of a value, in a process at UTC if the driver makes a local
\* Date of it, is that value.
LEMMA ReadsBack ==
    ASSUME NEW value \in Moments, NEW zone \in ProcessZones,
           driver \in {"pg", "neon", "mysql", "sqlite"},
           LocalDate(value.type) => zone = 0
    PROVE  Parse(value.type, HandedOver(value.type, Literal(value), zone))
           = value
<1>1. PICK type, day, minute :
         type = value.type /\ day = value.day /\ minute = value.minute
  OBVIOUS
<1>2. /\ Proper(type, day, minute) /\ value = Val(type, day, minute)
      /\ type \in {"date", "time", "timestamp", "timestamptz"}
      /\ type = "date" => minute = 0
      /\ type = "time" => day = 0
      /\ LocalDate(type) => zone = 0
  BY <1>1, MomentsAssumption DEF Proper
<1> DEFINE sent == Literal(value)
           read == HandedOver(type, sent, zone)
<1>3. PICK sep, mark : /\ sent = Text(day, sep, minute, mark)
                       /\ mark = Unzoned \/ mark = Z
  <2>1. /\ value.type = "date" =>
              sent = Text(value.day, "", 0, Unzoned)
        /\ value.type = "time" =>
              sent = Text(0, "", value.minute, Unzoned)
        /\ value.type = "timestamp" =>
              sent = Text(value.day, "T", value.minute, Unzoned)
        /\ value.type = "timestamptz" /\ driver # "mysql" =>
              sent = Text(value.day, "T", value.minute, Z)
        /\ value.type = "timestamptz" /\ driver = "mysql" =>
              sent = Text(value.day, " ", value.minute, Unzoned)
    BY Writes
  <2> HIDE DEF sent
  <2>2. CASE type = "date" \/ type = "time"
    <3>1. sent = Text(day, "", minute, Unzoned)
      BY <1>1, <1>2, <2>1, <2>2
    <3> QED
      BY <3>1
  <2>4. CASE type = "timestamp"
    BY <1>1, <2>1, <2>4
  <2>5. CASE type = "timestamptz"
    BY <1>1, <2>1, <2>5
  <2> QED
    BY <1>2, <2>2, <2>4, <2>5
<1> HIDE DEF sent
<1>4. /\ Parse(type, sent) = Val(type, day, minute)
      /\ type # "time" =>
            Parse(type, Date(Wall(day, minute))) = Val(type, day, minute)
  BY <1>2, <1>3, Parses
<1>5. Parse(type, Spaced(sent)) = Val(type, day, minute)
  <2>1. ASSUME NEW space, NEW other, other = Unzoned
        PROVE  Parse(type, Text(day, space, minute, other))
               = Val(type, day, minute)
    BY <1>2, <2>1, Parses
  <2>2. PICK space, other : space = " " /\ other = Unzoned
    OBVIOUS
  <2>3. Spaced(sent) = Text(day, " ", minute, Unzoned)
    BY <1>3 DEF Spaced, Text
  <2> QED
    BY <2>1, <2>2, <2>3, Zenon
<1>6. \/ read = sent
      \/ read = Spaced(sent)
      \/ type # "time" /\ read = Date(Wall(day, minute))
  BY <1>2, <1>3, HandsOver
<1> HIDE DEF read
<1>7. Parse(type, read) = value
  BY <1>2, <1>4, <1>5, <1>6
<1> QED
  BY <1>1, <1>7 DEF read, sent

\* What is stored is what the value is written as, and what was read was read
\* of it in some process.
TemporalIInv ==
    /\ driver \in {"pg", "neon", "mysql", "sqlite"} /\ moment \in Moments
    /\ stored # <<>> => stored = <<Literal(moment)>>
    /\ reads # <<>> =>
          \E zone \in ProcessZones :
             reads = <<[zone |-> zone,
                        value |-> Parse(moment.type,
                                        HandedOver(moment.type,
                                                   Literal(moment),
                                                   zone))]>>

\* "ISO in, Temporal out": a date, a time, a timestamp and an instant are read
\* as they were stored, whatever the database, its driver and the zone of the
\* process that reads; a local Date only where that zone is UTC.
THEOREM ValuesReadBack == TemporalSpec => []ValuesKept
<1>1. TemporalInit => TemporalIInv
  BY DEF TemporalInit, TemporalIInv
<1>2. TemporalIInv /\ [TemporalNext]_temporalVars => TemporalIInv'
  <2> SUFFICES ASSUME TemporalIInv, [TemporalNext]_temporalVars
               PROVE  TemporalIInv'
    OBVIOUS
  <2> DEFINE Sent == Literal(moment)
             Got(zone) == Parse(moment.type,
                                HandedOver(moment.type, Sent, zone))
             Given == driver \in {"pg", "neon", "mysql", "sqlite"}
                      /\ moment \in Moments
             SentIt == stored # <<>> => stored = <<Sent>>
             GotIt == reads # <<>> =>
                         \E zone \in ProcessZones :
                            reads = <<[zone |-> zone, value |-> Got(zone)]>>
  <2>1. UNCHANGED <<driver, moment>>
    BY DEF TemporalNext, StoreValue, ReadValue, temporalVars
  <2>2. Sent' = Sent
    BY <2>1 DEF Literal
  <2>3. \A zone : Got(zone)' = Got(zone)
    <3>1. ASSUME NEW type, NEW text, NEW zone
          PROVE  HandedOver(type, text, zone)' = HandedOver(type, text, zone)
      BY <2>1 DEF HandedOver
    <3> HIDE DEF Sent
    <3> QED
      BY <2>1, <2>2, <3>1
  <2>4. Given /\ SentIt /\ GotIt
    BY DEF TemporalIInv
  <2>5. StoreValue => stored' = <<Sent>> /\ reads' = reads
    BY DEF StoreValue
  <2>6. ASSUME NEW zone \in ProcessZones, ReadValue(zone)
        PROVE  stored' = stored
               /\ reads' = <<[zone |-> zone, value |-> Got(zone)]>>
    <3>1. stored # <<>> /\ stored' = stored
          /\ reads' = <<[zone |-> zone,
                         value |-> Parse(moment.type,
                            HandedOver(moment.type, stored[1], zone))]>>
      BY <2>6 DEF ReadValue
    <3> HIDE DEF Sent
    <3>2. stored[1] = Sent
      BY <2>4, <3>1
    <3> QED
      BY <3>1, <3>2
  <2>7. UNCHANGED temporalVars => stored' = stored /\ reads' = reads
    BY DEF temporalVars
  <2>8. Given' /\ SentIt' /\ GotIt' => TemporalIInv'
    BY DEF TemporalIInv
  <2>9. Given'
    BY <2>1, <2>4
  <2> HIDE DEF Sent, Got
  <2>10. SentIt'
    BY <2>2, <2>4, <2>5, <2>6, <2>7 DEF TemporalNext
  <2>11. GotIt'
    BY <2>3, <2>4, <2>5, <2>6, <2>7 DEF TemporalNext
  <2> QED
    BY <2>8, <2>9, <2>10, <2>11
<1>3. TemporalIInv => ValuesKept
  <2> SUFFICES ASSUME TemporalIInv, reads # <<>>,
                      LocalDate(moment.type) => reads[1].zone = 0
               PROVE  reads[1].value = moment
    BY DEF ValuesKept
  <2> DEFINE Got(zone) == Parse(moment.type,
                                HandedOver(moment.type, Literal(moment), zone))
  <2>1. PICK zone \in ProcessZones :
           reads = <<[zone |-> zone, value |-> Got(zone)]>>
    BY DEF TemporalIInv
  <2> HIDE DEF Got
  <2>2. reads[1].zone = zone /\ reads[1].value = Got(zone)
    BY <2>1
  <2>3. moment \in Moments /\ driver \in {"pg", "neon", "mysql", "sqlite"}
    BY DEF TemporalIInv
  <2> QED
    BY <2>2, <2>3, ReadsBack DEF Got
<1> QED
  BY <1>1, <1>2, <1>3, PTL DEF TemporalSpec
=============================================================================
