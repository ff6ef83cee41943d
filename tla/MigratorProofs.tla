--------------------------- MODULE MigratorProofs ---------------------------
(***************************************************************************)
(* What the history table gives calls of up(), for any number of calls,    *)
(* migrations and statements, whichever version of the files each has and  *)
(* whatever becomes of their lock sessions: the plans are stale, and yet   *)
(* the history is written in order, by one version of the files.           *)
(***************************************************************************)
EXTENDS Migrator, TLAPS

-----------------------------------------------------------------------------

\* Initially nothing is recorded and nobody has a plan.
LEMMA MigInit == Init => MigInv
<1> SUFFICES ASSUME Init PROVE MigInv
  OBVIOUS
<1> USE MigratorAssumption DEF Init
<1>1. Recorded = {}
  BY DEF Recorded
<1>2. TypeOK
  BY DEF TypeOK, Pcs, NotApplied
<1>3. AppliedInOrder /\ OneVersion /\ RecordedMeansRan
  BY <1>1 DEF AppliedInOrder, OneVersion, RecordedMeansRan
<1>4. PlanHolds /\ StaleMeansRefused
  BY DEF PlanHolds, StaleMeansRefused
<1>5. SchemaShows
  BY <1>1 DEF SchemaShows, Current
<1> QED
  BY <1>2, <1>3, <1>4, <1>5 DEF MigInv

\* A call is at one migration at a time.
LEMMA OneCurrent ==
    ASSUME OnlyUp, TypeOK, NEW m \in Migrators, NEW i \in Ids, NEW j \in Ids,
           Current(m, i), Current(m, j)
    PROVE  i = j
BY MigratorAssumption DEF OnlyUp, Current, Before

\* The row a call is about to insert is free only if all it has left is, and
\* then the history comes from its own files.
LEMMA FreeRow ==
    ASSUME OnlyUp, MigInv, NEW m \in Migrators, NEW i \in Ids,
           Current(m, i), i \notin Recorded
    PROVE  /\ todo[m] \cap Recorded = {}
           /\ CleanPlan(m)
           /\ \A j \in Ids : j < i => j \in Recorded
<1> USE MigratorAssumption DEF MigInv, TypeOK
<1>1. i \in todo[m] /\ \A j \in todo[m] : ~(j < i)
  BY DEF OnlyUp, Current, Before
<1>2. \A j \in Ids : j < i => j \in Recorded
  BY <1>1 DEF PlanHolds
<1>3. todo[m] \cap Recorded = {}
  <2> SUFFICES ASSUME NEW j \in todo[m], j \in Recorded PROVE FALSE
    OBVIOUS
  <2>1. j \in Ids /\ i < j
    BY <1>1
  <2> QED
    BY <2>1 DEF AppliedInOrder
<1>4. CleanPlan(m)
  BY <1>1, <1>3 DEF StaleMeansRefused
<1> QED
  BY <1>2, <1>3, <1>4

\* Every other call with something left has the row just written among it, or
\* one that was written before.
LEMMA OthersAreRefused ==
    ASSUME OnlyUp, MigInv, NEW m \in Migrators, NEW i \in Ids,
           Current(m, i), i \notin Recorded, NEW n \in Migrators, todo[n] # {}
    PROVE  todo[n] \cap (Recorded \cup {i}) # {}
<1> USE MigratorAssumption DEF MigInv, TypeOK
<1> SUFFICES ASSUME todo[n] \cap Recorded = {} PROVE i \in todo[n]
  OBVIOUS
<1>1. PICK j \in todo[n] : TRUE
  OBVIOUS
<1>2. j \in Ids /\ j \notin Recorded
  BY <1>1
<1>3. ~(j < i)
  BY <1>2, FreeRow
<1>4. CASE j = i
  BY <1>1, <1>4
<1>5. CASE i < j
  BY <1>1, <1>5 DEF PlanHolds
<1> QED
  BY <1>2, <1>3, <1>4, <1>5

-----------------------------------------------------------------------------

\* What inserting the row of a migration does to the history.
LEMMA RowInserted ==
    ASSUME OnlyUp, MigInv, NEW m \in Migrators, NEW i \in Ids,
           Current(m, i), Recordable(m, i), Record(m, i)
    PROVE  /\ i \notin Recorded
           /\ history' \in [Ids -> Versions \cup {NotApplied}]
           /\ history'[i] = VersionOf[m]
           /\ \A j \in Ids \ {i} : history'[j] = history[j]
           /\ Recorded' = Recorded \cup {i}
           /\ AppliedInOrder'
           /\ OneVersion'
<1> USE MigratorAssumption DEF MigInv, TypeOK
<1>1. i \notin Recorded
  BY DEF OnlyUp, Recordable
<1>2. history' = [history EXCEPT ![i] = VersionOf[m]]
  BY DEF OnlyUp, Record
<1>3. /\ history' \in [Ids -> Versions \cup {NotApplied}]
      /\ history'[i] = VersionOf[m]
      /\ \A j \in Ids \ {i} : history'[j] = history[j]
  BY <1>2
<1>4. VersionOf[m] # NotApplied
  OBVIOUS
<1>5. Recorded' = Recorded \cup {i}
  BY <1>3, <1>4 DEF Recorded
<1>6. AppliedInOrder'
  BY <1>1, <1>5, FreeRow DEF AppliedInOrder
<1>7. \A j \in Recorded' : history'[j] = VersionOf[m]
  BY <1>1, <1>3, <1>5, FreeRow DEF CleanPlan, Recorded
<1>8. OneVersion'
  BY <1>7 DEF OneVersion
<1> QED
  BY <1>1, <1>3, <1>5, <1>6, <1>8

\* And to the plans, as the migration leaves what the call has left.
LEMMA RowLeavesPlans ==
    ASSUME OnlyUp, MigInv, NEW m \in Migrators, NEW i \in Ids,
           Current(m, i), Recordable(m, i), Record(m, i),
           pc[m] = "running", UNCHANGED <<pc, goal>>,
           todo' = [todo EXCEPT ![m] = @ \ {i}]
    PROVE  PlanHolds' /\ StaleMeansRefused'
<1> USE MigratorAssumption DEF MigInv, TypeOK
<1>1. /\ i \notin Recorded
      /\ Recorded' = Recorded \cup {i}
      /\ OneVersion'
      /\ history'[i] = VersionOf[m]
  BY RowInserted
<1>2. PlanHolds'
  <2> SUFFICES ASSUME NEW n \in Migrators
      PROVE  /\ goal'[n] \ todo'[n] \subseteq Recorded'
             /\ pc'[n] = "idle" => goal'[n] = {} /\ todo'[n] = {}
             /\ pc'[n] = "done" => todo'[n] = {}
             /\ \A j \in todo'[n] : \A k \in Ids :
                   k < j => k \in Recorded' \cup todo'[n]
    BY DEF PlanHolds
  <2>1. CASE n = m
    BY <1>1, <2>1 DEF PlanHolds
  <2>2. CASE n # m
    BY <1>1, <2>2 DEF PlanHolds
  <2> QED
    BY <2>1, <2>2
<1>3. StaleMeansRefused'
  <2> SUFFICES ASSUME NEW n \in Migrators, todo'[n] # {}
      PROVE  todo'[n] \cap Recorded' # {} \/ CleanPlan(n)'
    BY DEF StaleMeansRefused
  <2>1. CASE n = m
    <3>1. \A j \in Recorded' : history'[j] = VersionOf[m]
      BY <1>1 DEF OneVersion
    <3> QED
      BY <2>1, <3>1 DEF CleanPlan
  <2>2. CASE n # m
    <3>1. todo'[n] = todo[n]
      BY <2>2
    <3> QED
      BY <1>1, <3>1, OthersAreRefused
  <2> QED
    BY <2>1, <2>2
<1> QED
  BY <1>2, <1>3

-----------------------------------------------------------------------------

\* A plan: what is pending, or a first part of it, over a history of the
\* call's own files; or nothing.
LEMMA PlanStep ==
    ASSUME OnlyUp, MigInv, NEW m \in Migrators, Plan(m)
    PROVE  MigInv'
<1> USE MigratorAssumption DEF MigInv, TypeOK
<1>1. UNCHANGED <<history, ran, holder, stmt>> /\ pc[m] = "idle"
  BY DEF Plan, Goto
<1>2. Recorded' = Recorded
  BY <1>1 DEF Recorded
<1>3. goal[m] = {} /\ todo[m] = {}
  BY <1>1 DEF PlanHolds
<1>4. PICK s \in SUBSET Ids :
        /\ goal' = [goal EXCEPT ![m] = s]
        /\ todo' = [todo EXCEPT ![m] = s]
        /\ s \cap Recorded = {}
        /\ \A j \in s : \A i \in Ids : i < j => i \in Recorded \cup s
        /\ s = {} \/ CleanPlan(m)
  <2>1. CASE CleanPlan(m) /\ goal' \in {[goal EXCEPT ![m] = s] : s \in Selections(m)}
    <3>1. PICK s \in Selections(m) : goal' = [goal EXCEPT ![m] = s]
      BY <2>1
    <3>2. /\ s \subseteq Ids \ Recorded
          /\ \A j \in s : \A i \in Ids : i < j => i \in Recorded \cup s
      <4> DEFINE open == Ids \ Recorded
      <4>1. CASE open = {}
        BY <3>1, <4>1 DEF Selections, OnlyUp
      <4>2. CASE open # {}
        <5>1. PICK last \in open : s = {i \in open : ~(last < i)}
          BY <3>1, <4>2 DEF Selections, OnlyUp, Before
        <5>2. last \in Nat /\ Ids \subseteq Nat
          OBVIOUS
        <5>3. s \subseteq open
          BY <5>1
        <5>4. ASSUME NEW j \in s, NEW i \in Ids, i < j, i \notin Recorded
              PROVE  i \in s
          <6>1. ~(last < j) /\ i \in open /\ j \in Nat
            BY <5>1, <5>3, <5>4
          <6>2. ~(last < i)
            BY <5>2, <5>4, <6>1
          <6> QED
            BY <5>1, <6>1, <6>2
        <5> QED
          BY <5>3, <5>4
      <4> QED
        BY <4>1, <4>2
    <3>3. todo' = [todo EXCEPT ![m] = s]
      BY <3>1 DEF Plan
    <3>4. s \in SUBSET Ids /\ s \cap Recorded = {}
      BY <3>2
    <3> USE <3>4
    <3> WITNESS s \in SUBSET Ids
    <3> QED
      BY <2>1, <3>1, <3>2, <3>3, <3>4
  <2>2. CASE UNCHANGED goal
    <3>1. goal' = [goal EXCEPT ![m] = {}] /\ todo' = [todo EXCEPT ![m] = {}]
      BY <1>3, <2>2 DEF Plan
    <3> QED
      BY <3>1
  <2> QED
    BY <2>1, <2>2 DEF Plan
<1>5. /\ pc' \in [Migrators -> Pcs]
      /\ pc'[m] \in {"planned", "failed"}
      /\ \A n \in Migrators \ {m} : pc'[n] = pc[n]
  BY DEF Plan, Goto, Pcs
<1>6. TypeOK'
  BY <1>1, <1>4, <1>5
<1>7. AppliedInOrder' /\ OneVersion' /\ RecordedMeansRan'
  BY <1>1, <1>2 DEF AppliedInOrder, OneVersion, RecordedMeansRan
<1>8. PlanHolds'
  BY <1>2, <1>4, <1>5 DEF PlanHolds
<1>9. StaleMeansRefused'
  <2> SUFFICES ASSUME NEW n \in Migrators
      PROVE  todo'[n] = {} \/ todo'[n] \cap Recorded' # {} \/ CleanPlan(n)'
    BY DEF StaleMeansRefused
  <2>1. CleanPlan(n)' = CleanPlan(n)
    BY <1>1, <1>2 DEF CleanPlan
  <2> QED
    BY <1>2, <1>4, <2>1 DEF StaleMeansRefused
<1>10. SchemaShows'
  <2>1. \A n \in Migrators : \A i \in Ids : Current(n, i)' => stmt[n] <= ran[i]
    <3> SUFFICES ASSUME NEW n \in Migrators, NEW i \in Ids, Current(n, i)'
        PROVE  stmt[n] <= ran[i]
      OBVIOUS
    <3>1. CASE n = m
      BY <1>1, <3>1 DEF SchemaShows
    <3>2. CASE n # m
      <4>1. Current(n, i)
        BY <1>4, <3>2 DEF Current
      <4> QED
        BY <4>1 DEF SchemaShows
    <3> QED
      BY <3>1, <3>2
  <2> QED
    BY <1>1, <1>2, <1>5, <2>1 DEF SchemaShows
<1> QED
  BY <1>6, <1>7, <1>8, <1>9, <1>10

\* Steps that move only a call, the lock or a statement counter.
LEMMA QuietStep ==
    ASSUME OnlyUp, MigInv, NEW m \in Migrators,
           UNCHANGED <<history, ran, goal, todo>>,
           holder' \in {holder, m, Free},
           stmt' \in {stmt, [stmt EXCEPT ![m] = 0]},
           pc' \in [Migrators -> Pcs],
           pc'[m] # "idle",
           pc'[m] = "done" => todo[m] = {},
           \A n \in Migrators \ {m} : pc'[n] = pc[n]
    PROVE  MigInv'
<1> USE MigratorAssumption DEF MigInv, TypeOK
<1>1. Recorded' = Recorded
  BY DEF Recorded
<1>2. stmt' \in [Migrators -> 0 .. Statements]
  OBVIOUS
<1>3. \A n \in Migrators : stmt'[n] \in {stmt[n], 0}
  OBVIOUS
<1>4. TypeOK'
  BY <1>2
<1>5. AppliedInOrder' /\ OneVersion' /\ RecordedMeansRan'
  BY <1>1 DEF AppliedInOrder, OneVersion, RecordedMeansRan
<1>6. PlanHolds'
  BY <1>1 DEF PlanHolds
<1>7. StaleMeansRefused'
  BY <1>1 DEF StaleMeansRefused, CleanPlan
<1>8. SchemaShows'
  <2>1. \A n \in Migrators : \A i \in Ids : Current(n, i)' => stmt'[n] <= ran[i]
    <3> SUFFICES ASSUME NEW n \in Migrators, NEW i \in Ids, Current(n, i)'
        PROVE  stmt'[n] <= ran[i]
      OBVIOUS
    <3>1. Current(n, i)
      BY DEF Current
    <3>2. stmt[n] <= ran[i] /\ 0 <= ran[i]
      BY <3>1 DEF SchemaShows
    <3> QED
      BY <1>3, <3>2
  <2>2. \A n \in Migrators : pc'[n] = "idle" => stmt'[n] = 0
    BY DEF SchemaShows
  <2> QED
    BY <1>1, <2>1, <2>2 DEF SchemaShows
<1> QED
  BY <1>4, <1>5, <1>6, <1>7, <1>8

LEMMA LockStep ==
    ASSUME OnlyUp, MigInv, NEW m \in Migrators, AcquireLock(m)
    PROVE  MigInv'
<1>1. /\ UNCHANGED <<history, ran, goal, todo, stmt>>
      /\ holder' \in {holder, m, Free}
      /\ pc[m] = "planned"
      /\ pc' \in {[pc EXCEPT ![m] = "running"], [pc EXCEPT ![m] = "failed"]}
  BY DEF AcquireLock, Goto
<1> QED
  BY <1>1, QuietStep DEF MigInv, TypeOK, Pcs

LEMMA FailStep ==
    ASSUME OnlyUp, MigInv, NEW m \in Migrators, StepFails(m)
    PROVE  MigInv'
<1>1. /\ UNCHANGED <<history, ran, holder, goal, todo>>
      /\ stmt' = [stmt EXCEPT ![m] = 0]
      /\ pc' \in {[pc EXCEPT ![m] = p] : p \in {"failed", "failing"}}
  BY DEF StepFails, Goto
<1> QED
  BY <1>1, QuietStep DEF MigInv, TypeOK, Pcs

LEMMA ReleaseStep ==
    ASSUME OnlyUp, MigInv, NEW m \in Migrators, ReleaseLock(m)
    PROVE  MigInv'
<1>1. /\ UNCHANGED <<history, ran, goal, todo, stmt>>
      /\ holder' \in {holder, m, Free}
  BY DEF ReleaseLock
<1>2. /\ pc[m] \in {"running", "failing"}
      /\ \/ pc' = [pc EXCEPT ![m] = "failed"]
         \/ todo[m] = {} /\ pc' = [pc EXCEPT ![m] = "done"]
  BY DEF ReleaseLock, Goto
<1> QED
  BY <1>1, <1>2, QuietStep DEF MigInv, TypeOK, Pcs

LEMMA CrashStep ==
    ASSUME OnlyUp, MigInv, NEW m \in Migrators, Crash(m)
    PROVE  MigInv'
<1>1. /\ UNCHANGED <<history, ran, goal, todo, stmt>>
      /\ holder' \in {holder, m, Free}
      /\ pc[m] # "idle" /\ pc' = [pc EXCEPT ![m] = "dead"]
  BY DEF Crash, Goto
<1> QED
  BY <1>1, QuietStep DEF MigInv, TypeOK, Pcs

-----------------------------------------------------------------------------

\* One migration in a transaction, or its rollback.
LEMMA TransactionStep ==
    ASSUME OnlyUp, MigInv, NEW m \in Migrators, RunInTransaction(m)
    PROVE  MigInv'
<1>1. PICK i \in Ids :
        /\ Current(m, i)
        /\ \/ /\ Recordable(m, i) /\ Effect(m, i, Statements) /\ Record(m, i)
              /\ todo' = [todo EXCEPT ![m] = @ \ {i}]
              /\ UNCHANGED pc
           \/ Goto(m, "running", "failing") /\ UNCHANGED <<history, ran, todo>>
  BY DEF RunInTransaction
<1>2. Transactional /\ pc[m] = "running" /\ UNCHANGED <<holder, goal, stmt>>
  BY DEF RunInTransaction
<1>3. CASE Goto(m, "running", "failing") /\ UNCHANGED <<history, ran, todo>>
  BY <1>2, <1>3, QuietStep DEF Goto, MigInv, TypeOK, Pcs
<1>4. CASE /\ Recordable(m, i) /\ Effect(m, i, Statements) /\ Record(m, i)
           /\ todo' = [todo EXCEPT ![m] = @ \ {i}]
           /\ UNCHANGED pc
  <2> USE MigratorAssumption DEF MigInv, TypeOK
  <2>1. /\ i \notin Recorded
        /\ Recorded' = Recorded \cup {i}
        /\ history' \in [Ids -> Versions \cup {NotApplied}]
        /\ AppliedInOrder' /\ OneVersion'
    BY <1>1, <1>4, RowInserted
  <2>2. PlanHolds' /\ StaleMeansRefused'
    BY <1>1, <1>2, <1>4, RowLeavesPlans
  <2>3. ran' = [ran EXCEPT ![i] = @ + Statements]
    BY <1>4 DEF Effect, OnlyUp
  <2>4. ran[i] = 0
    BY <1>2, <2>1 DEF SchemaShows
  <2>5. \A j \in Ids : ran'[j] = IF j \in Recorded' THEN Statements ELSE 0
    BY <1>2, <2>1, <2>3, <2>4 DEF SchemaShows
  <2>6. TypeOK'
    BY <1>2, <1>4, <2>1, <2>3
  <2>7. RecordedMeansRan'
    <3>1. \A j \in Recorded' : j \in Ids /\ ran'[j] = Statements
      BY <2>1, <2>5 DEF Recorded
    <3> QED
      BY <3>1 DEF RecordedMeansRan
  <2>8. SchemaShows'
    <3>1. \A j \in Ids : ran[j] <= ran'[j] /\ 0 <= ran'[j]
      BY <2>3 DEF SchemaShows
    <3>2. \A n \in Migrators : \A j \in Ids : Current(n, j)' => stmt[n] <= ran'[j]
      <4> SUFFICES ASSUME NEW n \in Migrators, NEW j \in Ids, Current(n, j)'
          PROVE  stmt[n] <= ran'[j]
        OBVIOUS
      <4>1. CASE n = m
        <5>1. stmt[m] <= ran[i]
          BY <1>1 DEF SchemaShows
        <5> QED
          BY <2>4, <3>1, <4>1, <5>1
      <4>2. CASE n # m
        <5>1. Current(n, j)
          BY <1>4, <4>2 DEF Current
        <5>2. stmt[n] <= ran[j] /\ stmt[n] \in Int /\ ran[j] \in Int
          BY <5>1 DEF SchemaShows
        <5> QED
          BY <2>6, <3>1, <5>2
      <4> QED
        BY <4>1, <4>2
    <3> QED
      BY <1>2, <1>4, <2>5, <3>1, <3>2 DEF SchemaShows
  <2> QED
    BY <2>1, <2>2, <2>6, <2>7, <2>8
<1> QED
  BY <1>1, <1>3, <1>4

\* A statement of a step that is not in a transaction.
LEMMA ExecuteStep ==
    ASSUME OnlyUp, MigInv, NEW m \in Migrators, Execute(m)
    PROVE  MigInv'
<1> USE MigratorAssumption DEF MigInv, TypeOK
<1>1. PICK i \in Ids : Current(m, i) /\ Effect(m, i, 1)
  BY DEF Execute
<1>2. /\ ~Transactional /\ pc[m] = "running" /\ stmt[m] < Statements
      /\ stmt' = [stmt EXCEPT ![m] = @ + 1]
      /\ UNCHANGED <<history, holder, pc, goal, todo>>
  BY DEF Execute
<1>3. ran' = [ran EXCEPT ![i] = @ + 1]
  BY <1>1 DEF Effect, OnlyUp
<1>4. Recorded' = Recorded
  BY <1>2 DEF Recorded
<1>5. TypeOK'
  BY <1>2, <1>3
<1>6. AppliedInOrder' /\ OneVersion'
  BY <1>2, <1>4 DEF AppliedInOrder, OneVersion
<1>7. \A j \in Ids : ran[j] <= ran'[j] /\ 0 <= ran'[j]
  BY <1>3 DEF SchemaShows
<1>8. RecordedMeansRan'
  <2> SUFFICES ASSUME NEW j \in Recorded PROVE ran'[j] >= Statements
    BY <1>4 DEF RecordedMeansRan
  <2>1. j \in Ids /\ ran[j] >= Statements
    BY DEF RecordedMeansRan, Recorded
  <2> QED
    BY <1>3, <1>7, <2>1
<1>9. PlanHolds' /\ StaleMeansRefused'
  BY <1>2, <1>4 DEF PlanHolds, StaleMeansRefused, CleanPlan
<1>10. SchemaShows'
  <2>1. \A n \in Migrators : \A j \in Ids : Current(n, j)' => stmt'[n] <= ran'[j]
    <3> SUFFICES ASSUME NEW n \in Migrators, NEW j \in Ids, Current(n, j)'
        PROVE  stmt'[n] <= ran'[j]
      OBVIOUS
    <3>1. Current(n, j)
      BY <1>2 DEF Current
    <3>2. stmt[n] <= ran[j]
      BY <3>1 DEF SchemaShows
    <3>3. CASE n = m
      <4>1. j = i
        BY <1>1, <3>1, <3>3, OneCurrent
      <4> QED
        BY <1>2, <1>3, <3>2, <3>3, <4>1
    <3>4. CASE n # m
      BY <1>2, <1>3, <1>7, <3>2, <3>4
    <3> QED
      BY <3>3, <3>4
  <2> QED
    BY <1>2, <1>7, <2>1 DEF SchemaShows
<1> QED
  BY <1>5, <1>6, <1>8, <1>9, <1>10

\* The history row of such a step.
LEMMA MarkStep ==
    ASSUME OnlyUp, MigInv, NEW m \in Migrators, Mark(m)
    PROVE  MigInv'
<1>1. PICK i \in Ids :
        /\ Current(m, i)
        /\ \/ /\ Recordable(m, i) /\ Record(m, i)
              /\ todo' = [todo EXCEPT ![m] = @ \ {i}]
              /\ UNCHANGED pc
           \/ Goto(m, "running", "failing") /\ UNCHANGED <<history, todo>>
  BY DEF Mark
<1>2. /\ ~Transactional /\ pc[m] = "running" /\ stmt[m] = Statements
      /\ stmt' = [stmt EXCEPT ![m] = 0]
      /\ UNCHANGED <<ran, holder, goal>>
  BY DEF Mark
<1>3. CASE Goto(m, "running", "failing") /\ UNCHANGED <<history, todo>>
  BY <1>2, <1>3, QuietStep DEF Goto, MigInv, TypeOK, Pcs
<1>4. CASE /\ Recordable(m, i) /\ Record(m, i)
           /\ todo' = [todo EXCEPT ![m] = @ \ {i}]
           /\ UNCHANGED pc
  <2> USE MigratorAssumption DEF MigInv, TypeOK
  <2>1. /\ i \notin Recorded
        /\ Recorded' = Recorded \cup {i}
        /\ history' \in [Ids -> Versions \cup {NotApplied}]
        /\ AppliedInOrder' /\ OneVersion'
    BY <1>1, <1>4, RowInserted
  <2>2. PlanHolds' /\ StaleMeansRefused'
    BY <1>1, <1>2, <1>4, RowLeavesPlans
  <2>3. TypeOK'
    BY <1>2, <1>4, <2>1
  <2>4. Statements <= ran[i]
    BY <1>1, <1>2 DEF SchemaShows
  <2>5. RecordedMeansRan'
    BY <1>2, <2>1, <2>4 DEF RecordedMeansRan
  <2>6. SchemaShows'
    <3>1. \A n \in Migrators : \A j \in Ids : Current(n, j)' => stmt'[n] <= ran[j]
      <4> SUFFICES ASSUME NEW n \in Migrators, NEW j \in Ids, Current(n, j)'
          PROVE  stmt'[n] <= ran[j]
        OBVIOUS
      <4>1. CASE n = m
        BY <1>2, <4>1 DEF SchemaShows
      <4>2. CASE n # m
        <5>1. Current(n, j)
          BY <1>4, <4>2 DEF Current
        <5> QED
          BY <1>2, <4>2, <5>1 DEF SchemaShows
      <4> QED
        BY <4>1, <4>2
    <3> QED
      BY <1>2, <1>4, <3>1 DEF SchemaShows
  <2> QED
    BY <2>1, <2>2, <2>3, <2>5, <2>6
<1> QED
  BY <1>1, <1>3, <1>4

\* A dropped lock session is nothing to the history.
LEMMA DropStep ==
    ASSUME OnlyUp, MigInv, NEW m \in Migrators, DropSession(m) \/ UNCHANGED vars
    PROVE  MigInv'
<1>1. /\ UNCHANGED <<history, ran, pc, goal, todo, stmt>>
      /\ holder' \in {holder, Free}
  BY DEF DropSession, vars
<1>2. Recorded' = Recorded
  BY <1>1 DEF Recorded
<1> QED
  BY <1>1, <1>2 DEF MigInv, TypeOK, AppliedInOrder, OneVersion, RecordedMeansRan,
     PlanHolds, StaleMeansRefused, CleanPlan, SchemaShows, Current

LEMMA MigStep == ASSUME OnlyUp, MigInv, [Next]_vars PROVE MigInv'
<1>1. ASSUME NEW m \in Migrators,
             \/ Plan(m) \/ AcquireLock(m) \/ RunInTransaction(m) \/ Execute(m)
             \/ Mark(m) \/ StepFails(m) \/ ReleaseLock(m) \/ Crash(m)
             \/ DropSession(m)
      PROVE  MigInv'
  BY <1>1, PlanStep, LockStep, TransactionStep, ExecuteStep, MarkStep, FailStep,
     ReleaseStep, CrashStep, DropStep
<1>2. CASE UNCHANGED vars
  <2>1. /\ UNCHANGED <<history, ran, holder, pc, goal, todo, stmt>>
        /\ Recorded' = Recorded
    BY <1>2 DEF vars, Recorded
  <2> QED
    BY <2>1 DEF MigInv, TypeOK, AppliedInOrder, OneVersion, RecordedMeansRan,
       PlanHolds, StaleMeansRefused, CleanPlan, SchemaShows, Current
<1> QED
  BY <1>1, <1>2 DEF Next, Finished

-----------------------------------------------------------------------------

\* The inductive invariant holds for any calls of up(), with transactions or
\* without, with a lock or without.
THEOREM MigInvariant == ASSUME OnlyUp PROVE Spec => []MigInv
<1>1. Init => MigInv
  BY MigInit
<1>2. MigInv /\ [Next]_vars => MigInv'
  BY MigStep
<1> QED
  BY <1>1, <1>2, PTL DEF Spec

\* The history has no gap, although every call plans on a stale history.
THEOREM InOrder == ASSUME OnlyUp PROVE Spec => []AppliedInOrder
<1>1. MigInv => AppliedInOrder
  BY DEF MigInv
<1> QED
  BY <1>1, MigInvariant, PTL

\* The history comes from one version of the files, although every call checks
\* the checksums only before it takes the lock.
THEOREM FromOneVersion == ASSUME OnlyUp PROVE Spec => []OneVersion
<1>1. MigInv => OneVersion
  BY DEF MigInv
<1> QED
  BY <1>1, MigInvariant, PTL

\* A recorded migration has run to its end.
THEOREM RecordedRan == ASSUME OnlyUp PROVE Spec => []RecordedMeansRan
<1>1. MigInv => RecordedMeansRan
  BY DEF MigInv
<1> QED
  BY <1>1, MigInvariant, PTL

\* A call of up() that returned has its selection in the history.
THEOREM DoneIsApplied == ASSUME OnlyUp PROVE Spec => []DoneMeansApplied
<1>1. MigInv => DoneMeansApplied
  BY DEF MigInv, PlanHolds, DoneMeansApplied
<1> QED
  BY <1>1, MigInvariant, PTL

-----------------------------------------------------------------------------

\* A step that commits a migration with its row is one of MigrationHistory.
LEMMA CommitIsWhole ==
    ASSUME OnlyUp, MigInv, NEW m \in Migrators, RunInTransaction(m)
    PROVE  Contract!HistoryNext \/ UNCHANGED <<history, ran>>
<1> USE MigratorAssumption DEF MigInv, TypeOK
<1>1. PICK i \in Ids :
        /\ Current(m, i)
        /\ \/ Recordable(m, i) /\ Effect(m, i, Statements) /\ Record(m, i)
           \/ UNCHANGED <<history, ran>>
  BY DEF RunInTransaction
<1>2. CASE Recordable(m, i) /\ Effect(m, i, Statements) /\ Record(m, i)
  <2>1. /\ i \notin Recorded
        /\ \A j \in Ids : j < i => j \in Recorded
        /\ \A j \in Recorded : history[j] = VersionOf[m]
    BY <1>1, <1>2, RowInserted, FreeRow DEF CleanPlan
  <2>2. history' = [history EXCEPT ![i] = VersionOf[m]]
    BY <1>2 DEF Record, OnlyUp
  <2>3. ran[i] = 0
    BY <2>1 DEF SchemaShows, RunInTransaction
  <2>4. ran' = [ran EXCEPT ![i] = Statements]
    <3>1. ran' = [ran EXCEPT ![i] = @ + Statements]
      BY <1>2 DEF Effect, OnlyUp
    <3>2. ran[i] + Statements = Statements
      BY <2>3
    <3> QED
      BY <3>1, <3>2
  <2>5. Contract!Recorded = Recorded
    BY DEF Recorded, Contract!Recorded, NotApplied, Contract!NotApplied
  <2>6. Contract!ApplyWhole(i, VersionOf[m])
    BY <2>1, <2>2, <2>4, <2>5 DEF Contract!ApplyWhole
  <2>7. VersionOf[m] \in Versions
    OBVIOUS
  <2> QED
    BY <2>6, <2>7 DEF Contract!HistoryNext
<1> QED
  BY <1>1, <1>2

\* In transactions, calls of up() implement MigrationHistory: the history and
\* the schema change by whole migrations, in order, without any lock.
THEOREM WholeMigrations == ASSUME OnlyUp, Transactional PROVE Spec => HistoryHolds
<1>1. Init => Contract!HistoryInit
  BY DEF Init, Contract!HistoryInit, NotApplied, Contract!NotApplied
<1>2. MigInv /\ [Next]_vars => [Contract!HistoryNext]_(Contract!historyVars)
  <2> SUFFICES ASSUME MigInv, [Next]_vars
      PROVE  Contract!HistoryNext \/ UNCHANGED <<history, ran>>
    BY DEF Contract!historyVars
  <2>1. ASSUME NEW m \in Migrators,
               \/ Plan(m) \/ AcquireLock(m) \/ RunInTransaction(m) \/ Execute(m)
               \/ Mark(m) \/ StepFails(m) \/ ReleaseLock(m) \/ Crash(m)
               \/ DropSession(m)
        PROVE  Contract!HistoryNext \/ UNCHANGED <<history, ran>>
    BY <2>1, CommitIsWhole DEF Plan, AcquireLock, Execute, Mark, StepFails,
       ReleaseLock, Crash, DropSession
  <2> QED
    BY <2>1 DEF Next, Finished, vars
<1> QED
  BY <1>1, <1>2, MigInvariant, PTL DEF Spec, HistoryHolds, Contract!HistorySpec

-----------------------------------------------------------------------------

\* A call whose session lasts holds the lock while it is inside.
InsideHoldsLock ==
    \A m \in Migrators \ Dropping :
        pc[m] \in {"running", "failing"} => holder = m

\* The lock keeps apart the calls whose sessions last, going up or down.
THEOREM LockExcludes == ASSUME HasLock PROVE Spec => []Excluded
<1> DEFINE Inv == /\ holder \in Migrators \cup {Free}
                  /\ pc \in [Migrators -> Pcs]
                  /\ InsideHoldsLock
<1>1. Init => Inv
  BY DEF Init, InsideHoldsLock, Pcs
<1>2. Inv /\ [Next]_vars => Inv'
  <2> SUFFICES ASSUME Inv, [Next]_vars PROVE Inv'
    OBVIOUS
  <2> USE DEF InsideHoldsLock
  <2>1. ASSUME NEW m \in Migrators, AcquireLock(m) PROVE Inv'
    BY <2>1, MigratorAssumption DEF AcquireLock, Goto, Pcs
  <2>2. ASSUME NEW m \in Migrators, ReleaseLock(m) \/ Crash(m) PROVE Inv'
    <3>1. /\ holder' = IF holder = m THEN Free ELSE holder
          /\ pc' \in {[pc EXCEPT ![m] = p] : p \in {"done", "failed", "dead"}}
      BY <2>2 DEF ReleaseLock, Crash, Goto
    <3> QED
      BY <3>1 DEF Pcs
  <2>3. ASSUME NEW m \in Migrators,
               \/ Plan(m) \/ RunInTransaction(m) \/ Execute(m) \/ Mark(m)
               \/ StepFails(m)
        PROVE  Inv'
    <3>1. /\ holder' = holder
          /\ \/ pc' = pc
             \/ pc' \in {[pc EXCEPT ![m] = p] : p \in {"planned", "failed"}}
             \/ pc[m] = "running" /\ pc' = [pc EXCEPT ![m] = "failing"]
      BY <2>3 DEF Plan, RunInTransaction, Execute, Mark, StepFails, Goto
    <3>2. CASE pc' = pc
      BY <3>1, <3>2
    <3>3. CASE \E p \in {"planned", "failed"} : pc' = [pc EXCEPT ![m] = p]
      BY <3>1, <3>3 DEF Pcs
    <3>4. CASE pc[m] = "running" /\ pc' = [pc EXCEPT ![m] = "failing"]
      BY <3>1, <3>4 DEF Pcs
    <3> QED
      BY <3>1, <3>2, <3>3, <3>4
  <2>4. ASSUME NEW m \in Migrators, DropSession(m) PROVE Inv'
    BY <2>4 DEF DropSession
  <2>5. CASE UNCHANGED vars
    BY <2>5 DEF vars
  <2> QED
    BY <2>1, <2>2, <2>3, <2>4, <2>5 DEF Next, Finished
<1>3. Inv => Excluded
  BY DEF InsideHoldsLock, Excluded
<1> QED
  BY <1>1, <1>2, <1>3, PTL DEF Spec
=============================================================================
