------------------------ MODULE MigrationFilesProofs ------------------------
(***************************************************************************)
(* What the migrations directory, the schemas the developers work on and   *)
(* the deployed database say of each other, for any number of developers,  *)
(* columns and migrations.                                                 *)
(***************************************************************************)
EXTENDS MigrationFiles, FiniteSetTheorems, TLAPS

\* Induction over a finite set, of a property given as the set of the sets that
\* have it: the empty one does, and adding an element keeps it.
LEMMA FiniteInduction ==
    ASSUME NEW S, IsFiniteSet(S), NEW Good, {} \in Good,
           \A T \in SUBSET S, x \in S : T \in Good => T \cup {x} \in Good
    PROVE  S \in Good
<1> SUFFICES ASSUME S \notin Good PROVE FALSE
  OBVIOUS
<1> DEFINE Bad == {T \in SUBSET S : T \notin Good}
<1>1. Bad # {} /\ Bad \subseteq FiniteSubsetsOf(S)
  BY FS_Subset DEF FiniteSubsetsOf
<1>2. PICK T \in Bad : \A U \in Bad : <<U, T>> \notin StrictSubsetOrdering(S)
  BY <1>1, FS_StrictSubsetOrderingWellFounded, WFMin
<1>3. PICK x \in T : TRUE
  BY <1>2
<1>4. T \ {x} \in Good
  <2>1. T \ {x} \in SUBSET S /\ T \ {x} \subseteq T /\ T \ {x} # T
    BY <1>2, <1>3
  <2>2. <<T \ {x}, T>> \in StrictSubsetOrdering(S)
    BY <1>2, <2>1 DEF StrictSubsetOrdering
  <2> QED
    BY <1>2, <2>1, <2>2
<1>5. (T \ {x}) \cup {x} = T
  BY <1>3
<1> QED
  BY <1>2, <1>3, <1>4, <1>5

\* Ids are ordered: by sequence, then by name.
LEMMA IdsOrdered ==
    /\ \A i \in Ids : /\ i[1] \in 1 .. MaxSeq /\ i[2] \in Nat
                      /\ i = <<i[1], i[2]>>
    /\ \A i, j \in Ids : i = j \/ Before(i, j) \/ Before(j, i)
    /\ \A i, j, k \in Ids : Before(i, j) /\ Before(j, k) => Before(i, k)
    /\ \A i \in Ids : ~Before(i, i)
<1>1. \A i \in Ids : i[1] \in 1 .. MaxSeq /\ i[2] \in Nat /\ i = <<i[1], i[2]>>
  BY FilesAssumption DEF Ids
<1>2. \A i \in Ids : i[1] \in Int /\ i[2] \in Int
  BY <1>1, FilesAssumption
<1> QED
  BY <1>1, <1>2 DEF Before

\* There are finitely many.
LEMMA IdsFinite == IsFiniteSet(Ids)
<1> DEFINE names == {NameOf[d] : d \in Devs}
<1>1. NameOf \in Surjection(Devs, names)
  BY FilesAssumption DEF Surjection
<1>2. IsFiniteSet(names)
  BY <1>1, FilesAssumption, FS_Surjection
<1>3. IsFiniteSet(1 .. MaxSeq)
  BY FilesAssumption, FS_Interval
<1> QED
  BY <1>2, <1>3, FS_Product DEF Ids

\* A set of migrations that is not empty has a first and a last one.
LEMMA EndsExist ==
    ASSUME NEW S \in SUBSET Ids, S # {}
    PROVE  /\ LastOf(S) \in S
           /\ \A j \in S : j = LastOf(S) \/ Before(j, LastOf(S))
           /\ FirstOf(S) \in S
           /\ \A j \in S : j = FirstOf(S) \/ Before(FirstOf(S), j)
<1> DEFINE Ended(T) ==
             /\ \E i \in T : \A j \in T : j = i \/ Before(j, i)
             /\ \E i \in T : \A j \in T : j = i \/ Before(i, j)
           Good == {T \in SUBSET Ids : T = {} \/ Ended(T)}
<1>1. {} \in Good
  OBVIOUS
<1>2. ASSUME NEW T \in SUBSET S, NEW x \in S, T \in Good
      PROVE  T \cup {x} \in Good
  <2>1. CASE T = {}
    BY <1>2, <2>1
  <2>2. CASE Ended(T)
    <3>1. PICK i \in T : \A j \in T : j = i \/ Before(j, i)
      BY <2>2
    <3>2. PICK k \in T : \A j \in T : j = k \/ Before(k, j)
      BY <2>2
    <3>3. \E l \in T \cup {x} : \A j \in T \cup {x} : j = l \/ Before(j, l)
      <4>1. CASE x = i \/ Before(x, i)
        BY <3>1, <4>1
      <4>2. CASE Before(i, x)
        BY <3>1, <4>2, IdsOrdered
      <4> QED
        BY <4>1, <4>2, IdsOrdered
    <3>4. \E l \in T \cup {x} : \A j \in T \cup {x} : j = l \/ Before(l, j)
      <4>1. CASE x = k \/ Before(k, x)
        BY <3>2, <4>1
      <4>2. CASE Before(x, k)
        BY <3>2, <4>2, IdsOrdered
      <4> QED
        BY <4>1, <4>2, IdsOrdered
    <3> QED
      BY <3>3, <3>4
  <2> QED
    BY <1>2, <2>1, <2>2
<1>3. IsFiniteSet(S)
  BY IdsFinite, FS_Subset
<1> HIDE DEF Good
<1>4. S \in Good
  BY <1>1, <1>2, <1>3, FiniteInduction
<1>5. Ended(S)
  BY <1>4 DEF Good
<1>6. LastOf(S) \in S /\ \A j \in S : j = LastOf(S) \/ Before(j, LastOf(S))
  BY <1>5 DEF LastOf
<1>7. FirstOf(S) \in S /\ \A j \in S : j = FirstOf(S) \/ Before(FirstOf(S), j)
  BY <1>5 DEF FirstOf
<1> QED
  BY <1>6, <1>7

\* nextMigrationSequence is one more than the last migration's.
LEMMA NextIsFree ==
    ASSUME FilesTypeOK
    PROVE  /\ NextSequence \in Nat \ {0}
           /\ \A i \in Listed : i[1] < NextSequence
           /\ Listed = {} => NextSequence = 1
           /\ Listed # {} => NextSequence = LastOf(Listed)[1] + 1
<1> DEFINE found == {i[1] : i \in Listed} \cup {0}
<1>1. Listed \in SUBSET Ids /\ \A i \in Listed : i[1] \in Nat
  BY IdsOrdered, FilesAssumption DEF Listed
<1>2. \E m \in found : /\ \A y \in found : m >= y
                       /\ Listed = {} => m = 0
                       /\ Listed # {} => m = LastOf(Listed)[1]
  <2>1. CASE Listed = {}
    BY <2>1
  <2>2. CASE Listed # {}
    <3>1. LastOf(Listed) \in Listed
          /\ \A j \in Listed : j = LastOf(Listed) \/ Before(j, LastOf(Listed))
      BY <1>1, <2>2, EndsExist
    <3>2. \A j \in Listed : j[1] <= LastOf(Listed)[1]
      BY <1>1, <3>1 DEF Before
    <3> QED
      BY <1>1, <2>2, <3>1, <3>2
  <2> QED
    BY <2>1, <2>2
<1>3. /\ Max(found) \in found /\ \A y \in found : Max(found) >= y
  BY <1>2 DEF Max
<1>4. found \subseteq Nat
  BY <1>1
<1>5. PICK m \in found : /\ \A y \in found : m >= y
                         /\ Listed = {} => m = 0
                         /\ Listed # {} => m = LastOf(Listed)[1]
  BY <1>2
<1>6. NextSequence = Max(found) + 1
  BY DEF NextSequence
<1> HIDE DEF found
<1>7. Max(found) \in Nat /\ m \in Nat /\ Max(found) >= m /\ m >= Max(found)
  BY <1>3, <1>4, <1>5
<1>8. Max(found) = m
  BY <1>7
<1> QED
  <2>1. \A i \in Listed : i[1] <= m
    <3>1. \A i \in Listed : i[1] \in found
      BY DEF found
    <3> QED
      BY <1>5, <3>1
  <2>2. NextSequence = m + 1
    BY <1>6, <1>8
  <2> QED
    BY <1>1, <1>5, <1>7, <2>1, <2>2

-----------------------------------------------------------------------------

\* What is complete stays as it is: generates write to files of their own that
\* are not complete yet, and only incomplete ones are deleted.
LEMMA CompleteKept ==
    ASSUME FilesTypeOK, WrittenInTurn, [Next]_vars
    PROVE  \A i \in Ids : Complete(i) => files'[i] = files[i]
<1>1. ASSUME NEW d \in Devs,
             Generate(d) \/ OpenSql(d) \/ FillSql(d) \/ OpenSnapshot(d)
               \/ FillSnapshot(d) \/ Crash(d)
      PROVE  \A i \in Ids : Complete(i) => files'[i] = files[i]
  <2>1. CASE Generate(d) \/ Crash(d)
    BY <2>1 DEF Generate, Crash
  <2>2. CASE OpenSql(d)
    <3>1. PICK t \in Partial(gen[d].adds) :
             files' = [files EXCEPT ![gen[d].id].sql = t]
      BY <2>2 DEF OpenSql
    <3>2. ~Complete(gen[d].id)
      BY <2>2 DEF OpenSql, Advance, WrittenInTurn, Complete
    <3> QED
      BY <3>1, <3>2 DEF FilesTypeOK
  <2>3. CASE FillSql(d) \/ OpenSnapshot(d) \/ FillSnapshot(d)
    BY <2>3 DEF FillSql, OpenSnapshot, FillSnapshot, Advance, FilesTypeOK,
                WrittenInTurn, Complete
  <2> QED
    BY <1>1, <2>1, <2>2, <2>3
<1>2. ASSUME NEW i \in Ids, Discard(i)
      PROVE  \A j \in Ids : Complete(j) => files'[j] = files[j]
  BY <1>2 DEF Discard, FilesTypeOK, Complete
<1>3. ASSUME \/ Edit \/ Apply \/ Killed \/ ReadForDrift \/ Report
             \/ \E dirty, steps \in BOOLEAN : ReadForMigrate(dirty, steps)
             \/ UNCHANGED vars
      PROVE  \A j \in Ids : Complete(j) => files'[j] = files[j]
  BY <1>3 DEF Edit, Apply, Killed, ReadForDrift, Report, ReadForMigrate, vars
<1> QED
  BY <1>1, <1>2, <1>3 DEF Next

\* So what was built on is still there.
LEMMA StillContinues ==
    ASSUME \A i \in Ids : Complete(i) => files'[i] = files[i]
    PROVE  /\ \A s, adds, snap :
                BuildsOn(s, adds, snap) => BuildsOn(s, adds, snap)'
           /\ \A i, adds, snap :
                Continues(i, adds, snap) => Continues(i, adds, snap)'
<1>1. \A i \in Ids : Complete(i) => Complete(i)'
  BY DEF Complete
<1>2. \A s, adds, snap : BuildsOn(s, adds, snap) => BuildsOn(s, adds, snap)'
  BY <1>1 DEF BuildsOn
<1>3. \A i, column : AddedBefore(i, column) => AddedBefore(i, column)'
  BY <1>1 DEF AddedBefore
<1> QED
  BY <1>2, <1>3 DEF Continues

-----------------------------------------------------------------------------

\* A generate that is under way writes a migration of its developer's name.
LEMMA Underway ==
    ASSUME FilesTypeOK, WrittenInTurn, NEW d \in Devs, gen[d].pc # "idle"
    PROVE  /\ gen[d].id \in Ids /\ gen[d].id[2] = NameOf[d]
           /\ gen[d].adds \in SUBSET Columns /\ gen[d].snap \in SUBSET Columns
           /\ gen[d].pc \in {"sql", "inSql", "snap", "inSnap"}
<1>1. gen[d] \in [pc : {"sql", "inSql", "snap", "inSnap"}, id : Ids,
                  adds : SUBSET Columns, snap : SUBSET Columns]
  BY DEF FilesTypeOK, Idle
<1>2. gen[d].id[2] = NameOf[d]
  BY DEF WrittenInTurn
<1> QED
  BY <1>1, <1>2

\* Types: a generate.
LEMMA GenerateTypes ==
    ASSUME FilesTypeOK, NEW d \in Devs, Generate(d)
    PROVE  FilesTypeOK'
<1>1. <<NextSequence, NameOf[d]>> \in Ids
  BY NextIsFree, FilesAssumption DEF Generate, Ids
<1>2. gen' \in [Devs -> {Idle} \cup
                 [pc : {"sql", "inSql", "snap", "inSnap"}, id : Ids,
                  adds : SUBSET Columns, snap : SUBSET Columns]]
  <2>1. [pc |-> "sql", id |-> <<NextSequence, NameOf[d]>>,
         adds |-> config \ DiffBase, snap |-> config]
        \in [pc : {"sql", "inSql", "snap", "inSnap"}, id : Ids,
             adds : SUBSET Columns, snap : SUBSET Columns]
    BY <1>1 DEF FilesTypeOK
  <2> QED
    BY <2>1 DEF FilesTypeOK, Generate
<1> QED
  BY <1>2 DEF FilesTypeOK, Generate

\* Types: its writes.
LEMMA WriteTypes ==
    ASSUME FilesTypeOK, WrittenInTurn, NEW d \in Devs,
           OpenSql(d) \/ FillSql(d) \/ OpenSnapshot(d) \/ FillSnapshot(d)
             \/ Crash(d)
    PROVE  FilesTypeOK'
<1> DEFINE Record == [pc : {"sql", "inSql", "snap", "inSnap"}, id : Ids,
                      adds : SUBSET Columns, snap : SUBSET Columns]
           Pair == [sql : {None} \cup Text,
                    snap : {None, Torn} \cup SUBSET Columns]
<1>1. gen[d].pc # "idle" /\ gen[d] \in Record
  BY DEF OpenSql, FillSql, OpenSnapshot, FillSnapshot, Crash, Advance,
         FilesTypeOK, Idle
<1>2. \A to \in {"inSql", "snap", "inSnap"} :
         [gen[d] EXCEPT !.pc = to] \in Record
  BY <1>1
<1>3. gen' \in [Devs -> {Idle} \cup Record]
  BY <1>1, <1>2 DEF OpenSql, FillSql, OpenSnapshot, FillSnapshot, Crash,
                    Advance, FilesTypeOK
<1>4. files' \in [Ids -> Pair]
  <2>1. files \in [Ids -> Pair] /\ gen[d].id \in Ids
    BY <1>1 DEF FilesTypeOK
  <2>2. CASE OpenSql(d)
    <3>1. Partial(gen[d].adds) \subseteq Text
      BY <1>1 DEF Partial, Text
    <3>2. PICK t \in Text : files' = [files EXCEPT ![gen[d].id].sql = t]
      BY <2>2, <3>1 DEF OpenSql
    <3> QED
      BY <2>1, <3>2
  <2>3. CASE FillSql(d)
    <3>1. [adds |-> gen[d].adds, state |-> "whole"] \in Text
      BY <1>1 DEF Text
    <3> QED
      BY <2>1, <2>3, <3>1 DEF FillSql
  <2>4. CASE OpenSnapshot(d) \/ FillSnapshot(d)
    BY <1>1, <2>1, <2>4 DEF OpenSnapshot, FillSnapshot
  <2>5. CASE Crash(d)
    BY <2>1, <2>5 DEF Crash
  <2> QED
    BY <2>2, <2>3, <2>4, <2>5
<1>5. UNCHANGED <<config, edits, command, db, history>>
  BY DEF OpenSql, FillSql, OpenSnapshot, FillSnapshot, Crash, Advance
<1> QED
  BY <1>3, <1>4, <1>5 DEF FilesTypeOK

\* Types: the commands.
LEMMA CommandTypes ==
    ASSUME FilesTypeOK,
           \/ Apply \/ Killed \/ ReadForDrift \/ Report
           \/ \E dirty, steps \in BOOLEAN : ReadForMigrate(dirty, steps)
    PROVE  FilesTypeOK'
<1>1. Listed \in SUBSET Ids /\ \A i \in Listed : files[i].sql \in Text
  BY DEF Listed, FilesTypeOK
<1>2. CASE Apply
  <2> DEFINE i == FirstOf(DOMAIN command.todo)
             t == command.todo[i]
  <2>1. /\ command.pc = "run"
        /\ DOMAIN command.todo \in SUBSET Ids /\ DOMAIN command.todo # {}
        /\ command.todo \in [DOMAIN command.todo -> Text]
    <3>1. command.pc = "run"
      BY <1>2 DEF Apply
    <3> QED
      BY <3>1 DEF FilesTypeOK
  <2>2. i \in DOMAIN command.todo /\ i \in Ids /\ t \in Text
    BY <2>1, EndsExist
  <2>3. t.adds \in SUBSET Columns
    BY <2>2 DEF Text
  <2> HIDE DEF i, t
  <2>4. \/ db' = db \cup t.adds /\ history' = [history EXCEPT ![i] = t]
           /\ command' = Rest(i)
        \/ command' = Idle /\ UNCHANGED <<db, history>>
    BY <1>2 DEF Apply, i, t
  <2>5. db' \in SUBSET Columns /\ history' \in [Ids -> {None} \cup Text]
    BY <2>2, <2>3, <2>4 DEF FilesTypeOK
  <2>6. /\ command'.pc \in {"idle", "run"}
        /\ command'.pc = "run" =>
              /\ DOMAIN command'.todo \in (SUBSET Ids) \ {{}}
              /\ command'.todo \in [DOMAIN command'.todo -> Text]
    <3>1. command' = Rest(i) \/ command' = Idle
      BY <2>4
    <3>2. CASE command' = Idle
      BY <3>2 DEF Idle
    <3>3. CASE command' = Rest(i)
      <4> DEFINE left == DOMAIN command.todo \ {i}
      <4>1. CASE left = {}
        BY <3>3, <4>1 DEF Rest, Idle
      <4>2. CASE left # {}
        <5>1. command' = [pc |-> "run",
                          todo |-> [j \in left |-> command.todo[j]]]
          BY <3>3, <4>2 DEF Rest
        <5>2. [j \in left |-> command.todo[j]] \in [left -> Text]
          BY <2>1
        <5>3. command'.pc = "run" /\ DOMAIN command'.todo = left
              /\ command'.todo \in [left -> Text]
          BY <5>1, <5>2
        <5> QED
          BY <2>1, <4>2, <5>3
      <4> QED
        BY <4>1, <4>2
    <3> QED
      BY <3>1, <3>2, <3>3
  <2> QED
    BY <1>2, <2>5, <2>6 DEF Apply, FilesTypeOK
<1>3. CASE Killed
  BY <1>3 DEF Killed, FilesTypeOK, Idle
<1>4. CASE ReadForDrift
  BY <1>1, <1>4 DEF ReadForDrift, Discovered, FilesTypeOK
<1>5. CASE Report
  BY <1>5 DEF Report, FilesTypeOK
<1>6. ASSUME NEW dirty \in BOOLEAN, NEW steps \in BOOLEAN,
             ReadForMigrate(dirty, steps)
      PROVE  FilesTypeOK'
  <2> DEFINE waiting == PendingOf(Discovered)
             todo == IF steps THEN {FirstOf(waiting)} ELSE waiting
  <2>1. waiting \in SUBSET Listed /\ waiting # {}
    BY <1>6 DEF ReadForMigrate, PendingOf, Discovered
  <2>2. FirstOf(waiting) \in waiting
    BY <1>1, <2>1, EndsExist
  <2>3. todo \in (SUBSET Ids) \ {{}} /\ \A i \in todo : files[i].sql \in Text
    <3>1. todo \subseteq waiting /\ todo # {}
      BY <2>1, <2>2
    <3> QED
      BY <1>1, <2>1, <3>1
  <2>4. command' = [pc |-> "run", todo |-> [i \in todo |-> files[i].sql]]
    BY <1>6 DEF ReadForMigrate
  <2> HIDE DEF todo
  <2>5. /\ command'.pc = "run" /\ DOMAIN command'.todo \in (SUBSET Ids) \ {{}}
        /\ command'.todo \in [DOMAIN command'.todo -> Text]
    BY <2>3, <2>4
  <2> QED
    BY <1>6, <2>5 DEF ReadForMigrate, FilesTypeOK
<1> QED
  BY <1>2, <1>3, <1>4, <1>5, <1>6

\* The variables keep their types.
LEMMA TypesKept ==
    ASSUME FilesTypeOK, WrittenInTurn, [Next]_vars PROVE FilesTypeOK'
<1>1. CASE Edit
  BY <1>1 DEF Edit, FilesTypeOK
<1>2. ASSUME NEW i \in Ids, Discard(i) PROVE FilesTypeOK'
  BY <1>2 DEF Discard, FilesTypeOK
<1>3. CASE UNCHANGED vars
  BY <1>3 DEF vars, FilesTypeOK
<1> QED
  BY <1>1, <1>2, <1>3, GenerateTypes, WriteTypes, CommandTypes DEF Next

-----------------------------------------------------------------------------

\* Developers with names of their own write migrations of their own.
LEMMA WrittenApart ==
    ASSUME FilesTypeOK, WrittenInTurn, OwnNamed,
           NEW d \in Devs, NEW e \in Devs,
           gen[d].pc # "idle", gen[e].pc # "idle", d # e
    PROVE  gen[d].id # gen[e].id
BY Underway DEF OwnNamed

\* The order of the writes: a generate starts on a migration that is not there.
LEMMA GenerateInTurn ==
    ASSUME FilesTypeOK, WrittenInTurn, NEW d \in Devs, Generate(d)
    PROVE  WrittenInTurn'
<1> DEFINE new == <<NextSequence, NameOf[d]>>
<1>1. new \in Ids /\ files[new].sql = None
  BY NextIsFree, FilesAssumption DEF Generate, Ids, Listed
<1>2. /\ files' = files
      /\ gen'[d].pc = "sql" /\ gen'[d].id = new
      /\ \A e \in Devs \ {d} : gen'[e] = gen[e]
  BY DEF Generate, FilesTypeOK
<1> QED
  BY <1>1, <1>2 DEF WrittenInTurn

\* The order of the writes: each write does its part of it.
LEMMA WriteInTurn ==
    ASSUME FilesTypeOK, WrittenInTurn, OwnNamed, NEW d \in Devs,
           OpenSql(d) \/ FillSql(d) \/ OpenSnapshot(d) \/ FillSnapshot(d)
             \/ Crash(d)
    PROVE  WrittenInTurn'
<1> DEFINE g == gen[d]
<1>1. /\ g.pc # "idle" /\ g.id \in Ids
      /\ \A e \in Devs \ {d} : gen'[e] = gen[e]
      /\ gen'[d].pc # "idle" => /\ gen'[d].id = g.id /\ gen'[d].adds = g.adds
                               /\ gen'[d].snap = g.snap
      /\ \A i \in Ids \ {g.id} : files'[i] = files[i]
  <2>1. g.pc # "idle"
    BY DEF OpenSql, FillSql, OpenSnapshot, FillSnapshot, Crash, Advance
  <2>2. g.id \in Ids
    BY <2>1, Underway
  <2>3. \E to \in {"inSql", "snap", "inSnap", "idle"} :
           gen' = [gen EXCEPT ![d] =
                     IF to = "idle" THEN Idle ELSE [@ EXCEPT !.pc = to]]
    BY DEF OpenSql, FillSql, OpenSnapshot, FillSnapshot, Crash, Advance
  <2>4. g \in [pc : {"sql", "inSql", "snap", "inSnap"}, id : Ids,
               adds : SUBSET Columns, snap : SUBSET Columns]
    BY <2>1 DEF FilesTypeOK, Idle
  <2>5. gen'[d].pc # "idle" => /\ gen'[d].id = g.id /\ gen'[d].adds = g.adds
                               /\ gen'[d].snap = g.snap
    BY <2>3, <2>4 DEF FilesTypeOK, Idle
  <2>6. \A e \in Devs \ {d} : gen'[e] = gen[e]
    BY <2>3 DEF FilesTypeOK
  <2>7. \A i \in Ids \ {g.id} : files'[i] = files[i]
    BY DEF OpenSql, FillSql, OpenSnapshot, FillSnapshot, Crash, FilesTypeOK
  <2> QED
    BY <2>1, <2>2, <2>5, <2>6, <2>7
<1>2. \A e \in Devs \ {d} : gen[e].pc # "idle" => gen[e].id # g.id
  BY <1>1, WrittenApart
<1>3. /\ files'[g.id].sql = None => files'[g.id].snap = None
      /\ gen'[d].pc # "idle" =>
          LET f == files'[g.id]
          IN  /\ gen'[d].pc = "sql" <=> f.sql = None
              /\ gen'[d].pc = "inSql" =>
                    f.sql.adds \subseteq g.adds /\ f.snap = None
              /\ gen'[d].pc \in {"snap", "inSnap"} =>
                  /\ f.sql = [adds |-> g.adds, state |-> "whole"]
                  /\ f.snap = IF gen'[d].pc = "snap" THEN None ELSE Torn
  <2>0. /\ g.id \in Ids /\ files \in [Ids -> [sql : {None} \cup Text,
                                snap : {None, Torn} \cup SUBSET Columns]]
        /\ g.adds \in SUBSET Columns
        /\ files[g.id].sql = None => files[g.id].snap = None
        /\ g.pc = "sql" => files[g.id].sql = None
        /\ g.pc # "sql" => files[g.id].sql # None
        /\ g.pc = "inSql" => files[g.id].snap = None
        /\ g.pc \in {"snap", "inSnap"} =>
             files[g.id].sql = [adds |-> g.adds, state |-> "whole"]
        /\ g.pc = "snap" => files[g.id].snap = None
    BY <1>1, Underway DEF FilesTypeOK, WrittenInTurn
  <2>1. CASE OpenSql(d)
    <3>1. g.pc = "sql" /\ gen'[d].pc = "inSql"
      BY <2>1, <1>1 DEF OpenSql, Advance, FilesTypeOK, Idle
    <3>2. PICK t \in Partial(g.adds) : files' = [files EXCEPT ![g.id].sql = t]
      BY <2>1 DEF OpenSql
    <3>3. t \in Text /\ t.adds \subseteq g.adds /\ t # None
      BY <2>0, <3>2, FilesAssumption DEF Partial, Text
    <3> QED
      BY <2>0, <3>1, <3>2, <3>3
  <2>2. CASE FillSql(d)
    <3>1. g.pc = "inSql" /\ gen'[d].pc = "snap"
      BY <2>2, <1>1 DEF FillSql, Advance, FilesTypeOK, Idle
    <3>2. [adds |-> g.adds, state |-> "whole"] # None
      BY <2>0, FilesAssumption DEF Text
    <3> QED
      BY <2>0, <2>2, <3>1, <3>2 DEF FillSql
  <2>3. CASE OpenSnapshot(d)
    <3>1. g.pc = "snap" /\ gen'[d].pc = "inSnap"
      BY <2>3, <1>1 DEF OpenSnapshot, Advance, FilesTypeOK, Idle
    <3> QED
      BY <2>0, <2>3, <3>1 DEF OpenSnapshot
  <2>4. CASE FillSnapshot(d)
    <3>1. g.pc = "inSnap" /\ gen'[d].pc = "idle"
      BY <2>4, <1>1 DEF FillSnapshot, Advance, FilesTypeOK, Idle
    <3> QED
      BY <2>0, <2>4, <3>1 DEF FillSnapshot
  <2>5. CASE Crash(d)
    <3>1. gen'[d].pc = "idle"
      BY <2>5, <1>1 DEF Crash, Advance, FilesTypeOK, Idle
    <3> QED
      BY <2>0, <2>5, <3>1 DEF Crash
  <2> QED
    BY <2>1, <2>2, <2>3, <2>4, <2>5
<1>4. gen'[d].pc # "idle" => gen'[d].id = g.id /\ gen'[d].adds = g.adds
  BY <1>1
<1>5. g.id[2] = NameOf[d]
  BY <1>1, Underway
<1>6. \A i \in Ids : files'[i].sql = None => files'[i].snap = None
  BY <1>1, <1>3 DEF WrittenInTurn
<1>7. ASSUME NEW e \in Devs \ {d}, gen'[e].pc # "idle"
      PROVE  gen'[e] = gen[e] /\ gen[e].id \in Ids
             /\ files'[gen[e].id] = files[gen[e].id]
  BY <1>1, <1>2, <1>7, Underway
<1> HIDE DEF g
<1> QED
  BY <1>1, <1>3, <1>4, <1>5, <1>6, <1>7 DEF WrittenInTurn

\* The order of the writes is kept.
LEMMA InTurnKept ==
    ASSUME FilesTypeOK, WrittenInTurn, OwnNamed, [Next]_vars
    PROVE  WrittenInTurn'
<1>1. ASSUME NEW i \in Ids, Discard(i) PROVE WrittenInTurn'
  <2>1. \A d \in Devs :
           gen[d].pc # "idle" => gen[d].id \in Ids /\ gen[d].id # i
    BY <1>1, Underway DEF Discard
  <2>2. /\ files'[i].snap = None
        /\ \A j \in Ids \ {i} : files'[j] = files[j]
        /\ gen' = gen
    BY <1>1 DEF Discard, FilesTypeOK
  <2> QED
    BY <2>1, <2>2 DEF WrittenInTurn
<1>2. ASSUME \/ Edit \/ Apply \/ Killed \/ ReadForDrift \/ Report
             \/ \E dirty, steps \in BOOLEAN : ReadForMigrate(dirty, steps)
             \/ UNCHANGED vars
      PROVE  WrittenInTurn'
  <2>1. UNCHANGED <<files, gen>>
    BY <1>2 DEF Edit, Apply, Killed, ReadForDrift, Report, ReadForMigrate, vars
  <2> QED
    BY <2>1 DEF WrittenInTurn
<1> QED
  BY <1>1, <1>2, GenerateInTurn, WriteInTurn DEF Next

-----------------------------------------------------------------------------

\* A migration that adds less, to a larger schema, builds on the same ones.
LEMMA BuildsOnLess ==
    ASSUME NEW s, NEW a, NEW b, NEW c, NEW e, BuildsOn(s, a, b),
           c \subseteq a, b \subseteq e
    PROVE  BuildsOn(s, c, e)
<1> SUFFICES ASSUME NEW t \in 1 .. s - 1
             PROVE  \E k \in Ids : /\ k[1] = t /\ Complete(k)
                                   /\ files[k].snap \subseteq e
                                   /\ files[k].snap \cap c = {}
  BY DEF BuildsOn
<1>1. PICK k \in Ids : /\ k[1] = t /\ Complete(k)
                       /\ files[k].snap \subseteq b
                       /\ files[k].snap \cap a = {}
  BY DEF BuildsOn
<1> QED
  BY <1>1

\* The chain: a generate begins where the last migration, which is complete,
\* ended.
LEMMA GenerateContinues ==
    ASSUME FilesTypeOK, WrittenInTurn, ChainHolds, NEW d \in Devs, Generate(d)
    PROVE  Continues(<<NextSequence, NameOf[d]>>, config \ DiffBase, config)
<1> DEFINE new == <<NextSequence, NameOf[d]>>
<1>1. new[1] = NextSequence /\ NextSequence \in Nat
  BY NextIsFree
<1>2. CASE Listed = {}
  <2>1. DiffBase = {} /\ NextSequence = 1
    BY <1>2, NextIsFree DEF DiffBase
  <2>2. BuildsOn(1, config \ DiffBase, config)
    BY DEF BuildsOn
  <2> QED
    BY <1>1, <2>1, <2>2 DEF Continues
<1>3. CASE Listed # {}
  <2> DEFINE last == LastOf(Listed)
             base == files[last].snap
  <2>1. last \in Listed /\ last \in Ids /\ Listed \in SUBSET Ids
    BY <1>3, EndsExist DEF Listed
  <2>2. DiffBase = base /\ base # None /\ base # Torn /\ base \subseteq config
    BY <1>3, <2>1 DEF Generate, DiffBase, Readable
  <2>3. Complete(last) /\ Continues(last, files[last].sql.adds, base)
    BY <2>1, <2>2 DEF Complete, Listed, ChainHolds
  <2>4. NextSequence = last[1] + 1 /\ last[1] \in Nat
    BY <1>3, <2>1, NextIsFree, IdsOrdered, FilesAssumption
  <2> HIDE DEF last
  <2>5. BuildsOn(NextSequence, config \ base, config)
    <3> SUFFICES ASSUME NEW t \in 1 .. NextSequence - 1
                 PROVE  \E k \in Ids :
                           /\ k[1] = t /\ Complete(k)
                           /\ files[k].snap \subseteq config
                           /\ files[k].snap \cap (config \ base) = {}
      BY DEF BuildsOn
    <3>1. CASE t = last[1]
      BY <2>1, <2>2, <2>3, <3>1
    <3>2. CASE t # last[1]
      <4>1. t \in 1 .. last[1] - 1
        BY <2>4, <3>2
      <4>2. PICK k \in Ids : /\ k[1] = t /\ Complete(k)
                             /\ files[k].snap \subseteq base
        BY <2>3, <4>1 DEF Continues, BuildsOn
      <4> QED
        BY <2>2, <4>2
    <3> QED
      BY <3>1, <3>2
  <2>6. ASSUME NEW column \in config \ (config \ base)
        PROVE  AddedBefore(new, column)
    <3>1. Before(last, new)
      BY <1>1, <2>4 DEF Before
    <3>2. column \in base
      BY <2>6
    <3>3. CASE column \in files[last].sql.adds
      BY <2>1, <2>3, <3>1, <3>3 DEF AddedBefore
    <3>4. CASE column \notin files[last].sql.adds
      <4>1. PICK k \in Ids : Complete(k) /\ Before(k, last)
                             /\ column \in files[k].sql.adds
        BY <2>3, <3>2, <3>4 DEF Continues, AddedBefore
      <4>2. k[1] < new[1]
        BY <1>1, <2>1, <2>4, <4>1, IdsOrdered DEF Before
      <4> QED
        BY <4>1, <4>2 DEF AddedBefore, Before
    <3> QED
      BY <3>3, <3>4
  <2> QED
    BY <1>1, <2>2, <2>5, <2>6 DEF Continues
<1> QED
  BY <1>2, <1>3

\* The chain: a write makes a migration part of it, as its generate set out to.
LEMMA WriteContinues ==
    ASSUME FilesIInv, OwnNamed, NEW d \in Devs,
           OpenSql(d) \/ FillSql(d) \/ OpenSnapshot(d) \/ FillSnapshot(d)
             \/ Crash(d)
    PROVE  ChainHolds'
<1> DEFINE g == gen[d]
<1>1. FilesTypeOK /\ WrittenInTurn /\ ChainHolds /\ WrittenInTurn'
      /\ \A i \in Ids : Complete(i) => files'[i] = files[i]
  <2>1. [Next]_vars
    BY DEF Next
  <2> QED
    BY <2>1, InTurnKept, CompleteKept DEF FilesIInv
<1>2. /\ g.pc # "idle" /\ g.id \in Ids
      /\ g.adds \in SUBSET Columns /\ g.snap \in SUBSET Columns
      /\ Continues(g.id, g.adds, g.snap)
  <2>1. g.pc # "idle"
    BY DEF OpenSql, FillSql, OpenSnapshot, FillSnapshot, Crash, Advance
  <2> QED
    BY <1>1, <2>1, Underway DEF ChainHolds
<1>3. \A e \in Devs : gen'[e].pc # "idle" =>
         gen[e].pc # "idle" /\ gen'[e].id = gen[e].id
         /\ gen'[e].adds = gen[e].adds /\ gen'[e].snap = gen[e].snap
  <2>1. g \in [pc : {"sql", "inSql", "snap", "inSnap"}, id : Ids,
               adds : SUBSET Columns, snap : SUBSET Columns]
    BY <1>1, <1>2 DEF FilesTypeOK, Idle
  <2>2. \E to \in {"inSql", "snap", "inSnap", "idle"} :
           gen' = [gen EXCEPT ![d] =
                     IF to = "idle" THEN Idle ELSE [@ EXCEPT !.pc = to]]
    BY DEF OpenSql, FillSql, OpenSnapshot, FillSnapshot, Crash, Advance
  <2> QED
    BY <1>1, <2>1, <2>2 DEF FilesTypeOK, Idle
<1>4. \A i \in Ids \ {g.id} : files'[i] = files[i]
  BY <1>1 DEF OpenSql, FillSql, OpenSnapshot, FillSnapshot, Crash, FilesTypeOK
<1>5. /\ files'[g.id].sql # None => \/ files'[g.id].sql.adds \subseteq g.adds
                                    \/ files'[g.id] = files[g.id]
      /\ files'[g.id].snap \notin {None, Torn} =>
            files'[g.id].sql.adds = g.adds /\ files'[g.id].snap = g.snap
  <2>0. /\ files[g.id] \in [sql : {None} \cup Text,
                            snap : {None, Torn} \cup SUBSET Columns]
        /\ files \in [Ids -> [sql : {None} \cup Text,
                              snap : {None, Torn} \cup SUBSET Columns]]
        /\ files[g.id].sql = None => files[g.id].snap = None
        /\ g.pc = "sql" => files[g.id].sql = None
        /\ g.pc = "inSql" => files[g.id].snap = None
        /\ g.pc \in {"snap", "inSnap"} =>
             /\ files[g.id].sql = [adds |-> g.adds, state |-> "whole"]
             /\ files[g.id].snap = IF g.pc = "snap" THEN None ELSE Torn
        /\ g.pc \in {"sql", "inSql", "snap", "inSnap"}
    BY <1>1, <1>2, Underway DEF FilesTypeOK, WrittenInTurn
  <2>1. CASE OpenSql(d)
    <3>1. g.pc = "sql"
      BY <2>1 DEF OpenSql, Advance
    <3>2. PICK t \in Partial(g.adds) : files' = [files EXCEPT ![g.id].sql = t]
      BY <2>1 DEF OpenSql
    <3>3. t.adds \subseteq g.adds
      BY <3>2 DEF Partial
    <3> QED
      <4>1. files'[g.id].sql = t /\ files'[g.id].snap = None
        BY <1>2, <2>0, <3>1, <3>2
      <4> QED
        BY <3>3, <4>1
  <2>2. CASE FillSql(d)
    BY <1>2, <2>0, <2>2 DEF FillSql, Advance
  <2>3. CASE OpenSnapshot(d)
    BY <1>2, <2>0, <2>3 DEF OpenSnapshot, Advance
  <2>4. CASE FillSnapshot(d)
    BY <1>2, <2>0, <2>4 DEF FillSnapshot, Advance
  <2>5. CASE Crash(d)
    BY <2>0, <2>5 DEF Crash
  <2> QED
    BY <2>1, <2>2, <2>3, <2>4, <2>5
<1> HIDE DEF g
<1>6. ASSUME NEW i \in Ids, Complete(i)'
      PROVE  Continues(i, files[i].sql.adds, files[i].snap)'
  <2>1. CASE i = g.id
    <3>1. PICK a, b : a = g.adds /\ b = g.snap
      OBVIOUS
    <3>2. Continues(i, a, b)'
      BY <1>1, <1>2, <2>1, <3>1, StillContinues
    <3>3. files'[i].sql.adds = a /\ files'[i].snap = b
      BY <1>5, <1>6, <2>1, <3>1 DEF Complete
    <3> QED
      BY <3>2, <3>3
  <2>2. CASE i # g.id
    <3>1. Complete(i) /\ files'[i] = files[i]
      BY <1>4, <1>6, <2>2 DEF Complete
    <3> QED
      BY <1>1, <3>1, StillContinues DEF ChainHolds
  <2> QED
    BY <2>1, <2>2
<1>7. ASSUME NEW i \in Listed'
      PROVE  BuildsOn(i[1], files[i].sql.adds, Columns)'
  <2>1. BuildsOn(i[1], files'[i].sql.adds, Columns)
    <3>1. CASE i \in Listed /\ files'[i] = files[i]
      BY <1>1, <3>1 DEF ChainHolds
    <3>2. CASE i = g.id /\ files'[i].sql.adds \subseteq g.adds
      BY <1>2, <3>2, BuildsOnLess DEF Continues
    <3> QED
      BY <1>4, <1>5, <1>7, <3>1, <3>2 DEF Listed
  <2> QED
    BY <1>1, <2>1, StillContinues
<1>8. ASSUME NEW e \in Devs, gen'[e].pc # "idle"
      PROVE  Continues(gen[e].id, gen[e].adds, gen[e].snap)'
  BY <1>1, <1>3, <1>8, StillContinues DEF ChainHolds
<1> QED
  BY <1>6, <1>7, <1>8 DEF ChainHolds

\* The chain is kept: what is deleted was not part of it.
LEMMA ChainKept ==
    ASSUME FilesIInv, OwnNamed, [Next]_vars PROVE ChainHolds'
<1>1. /\ FilesTypeOK /\ WrittenInTurn /\ ChainHolds
      /\ \A i \in Ids : Complete(i) => files'[i] = files[i]
  BY CompleteKept DEF FilesIInv
<1>2. ASSUME NEW d \in Devs, Generate(d) PROVE ChainHolds'
  <2>1. /\ files' = files
        /\ gen'[d].id = <<NextSequence, NameOf[d]>>
        /\ gen'[d].adds = config \ DiffBase /\ gen'[d].snap = config
        /\ \A e \in Devs \ {d} : gen'[e] = gen[e]
    BY <1>1, <1>2 DEF Generate, FilesTypeOK
  <2>2. Continues(<<NextSequence, NameOf[d]>>, config \ DiffBase, config)
    BY <1>1, <1>2, GenerateContinues
  <2> QED
    BY <1>1, <2>1, <2>2
       DEF ChainHolds, Continues, BuildsOn, AddedBefore, Complete, Listed
<1>3. ASSUME NEW i \in Ids, Discard(i) PROVE ChainHolds'
  <2>1. /\ files'[i].sql = None /\ gen' = gen
        /\ \A j \in Ids \ {i} : files'[j] = files[j]
    BY <1>1, <1>3 DEF Discard, FilesTypeOK
  <2>2. \A j \in Listed' : j \in Listed /\ files'[j] = files[j]
    BY <2>1 DEF Listed
  <2>3. ASSUME NEW j \in Ids, Complete(j)'
        PROVE  Continues(j, files[j].sql.adds, files[j].snap)'
    <3>1. Complete(j) /\ files'[j] = files[j]
      BY <2>1, <2>3 DEF Complete
    <3> QED
      BY <1>1, <3>1, StillContinues DEF ChainHolds
  <2>4. ASSUME NEW j \in Listed'
        PROVE  BuildsOn(j[1], files[j].sql.adds, Columns)'
    BY <1>1, <2>2, StillContinues DEF ChainHolds
  <2>5. ASSUME NEW e \in Devs, gen'[e].pc # "idle"
        PROVE  Continues(gen[e].id, gen[e].adds, gen[e].snap)'
    BY <1>1, <2>1, <2>5, StillContinues DEF ChainHolds
  <2> QED
    BY <2>3, <2>4, <2>5 DEF ChainHolds
<1>4. ASSUME \/ Edit \/ Apply \/ Killed \/ ReadForDrift \/ Report
             \/ \E dirty, steps \in BOOLEAN : ReadForMigrate(dirty, steps)
             \/ UNCHANGED vars
      PROVE  ChainHolds'
  <2>1. UNCHANGED <<files, gen>>
    BY <1>4 DEF Edit, Apply, Killed, ReadForDrift, Report, ReadForMigrate, vars
  <2> QED
    BY <1>1, <2>1
       DEF ChainHolds, Continues, BuildsOn, AddedBefore, Complete, Listed
<1> QED
  BY <1>2, <1>3, <1>4, WriteContinues DEF Next

\* A migration that is applied adds its columns to the database, in one step
\* with its row; drift reads a snapshot that the listed files reach.
LEMMA DeployedKept ==
    ASSUME FilesIInv, [Next]_vars PROVE DeployedHolds'
<1>1. FilesTypeOK /\ WrittenInTurn /\ ChainHolds /\ DeployedHolds
  BY DEF FilesIInv
<1>2. CASE Apply
  <2> DEFINE i == FirstOf(DOMAIN command.todo)
             t == command.todo[i]
  <2>1. \/ db' = db \cup t.adds /\ history' = [history EXCEPT ![i] = t]
           /\ command' = Rest(i)
        \/ command' = Idle /\ UNCHANGED <<db, history>>
    BY <1>2 DEF Apply
  <2>2. command'.pc # "read"
    BY <2>1 DEF Rest, Idle
  <2> HIDE DEF i, t
  <2>3. \A j \in Ids : history'[j] # None => history'[j].adds \subseteq db'
    <3>1. CASE UNCHANGED <<db, history>>
      BY <1>1, <3>1 DEF DeployedHolds
    <3>2. CASE db' = db \cup t.adds /\ history' = [history EXCEPT ![i] = t]
      <4>1. db \subseteq db' /\ t.adds \subseteq db'
        BY <3>2
      <4>2. \A j \in Ids : history'[j] = IF j = i THEN t ELSE history[j]
        BY <1>1, <3>2 DEF FilesTypeOK
      <4> QED
        BY <1>1, <4>1, <4>2 DEF DeployedHolds
    <3> QED
      BY <2>1, <3>1, <3>2
  <2> QED
    BY <2>2, <2>3 DEF DeployedHolds
<1>3. CASE ReadForDrift
  <2> DEFINE last == LastOf(Listed)
  <2>1. /\ command'.found = Discovered
        /\ command'.latest = IF Listed = {} THEN None ELSE files[last].snap
        /\ Readable /\ UNCHANGED <<db, history>>
    BY <1>3 DEF ReadForDrift
  <2>2. ASSUME command'.latest # None
        PROVE  command'.latest \subseteq
                 UNION {command'.found[i].adds : i \in DOMAIN command'.found}
    <3>1. Listed # {} /\ Listed \in SUBSET Ids
      BY <2>1, <2>2 DEF Listed
    <3>2. last \in Listed /\ command'.latest = files[last].snap
      BY <2>1, <3>1, EndsExist
    <3> HIDE DEF last
    <3>3. Complete(last)
      BY <2>1, <2>2, <3>2 DEF Complete, Listed, Readable
    <3>4. \A column \in files[last].snap : \E k \in Listed :
             column \in files[k].sql.adds
      BY <1>1, <3>1, <3>2, <3>3
         DEF ChainHolds, Continues, AddedBefore, Complete, Listed
    <3>5. DOMAIN Discovered = Listed
          /\ \A k \in Listed : Discovered[k] = files[k].sql
      BY DEF Discovered
    <3> QED
      BY <2>1, <3>2, <3>4, <3>5
  <2> QED
    BY <1>1, <2>1, <2>2 DEF DeployedHolds
<1>4. ASSUME \/ Killed \/ Report
             \/ \E dirty, steps \in BOOLEAN : ReadForMigrate(dirty, steps)
      PROVE  DeployedHolds'
  <2>1. command'.pc # "read" /\ UNCHANGED <<db, history>>
    BY <1>4 DEF Killed, Report, ReadForMigrate, Idle
  <2> QED
    BY <1>1, <2>1 DEF DeployedHolds
<1>5. ASSUME \/ Edit
             \/ \E d \in Devs :
                  \/ Generate(d) \/ OpenSql(d) \/ FillSql(d)
                  \/ OpenSnapshot(d) \/ FillSnapshot(d) \/ Crash(d)
             \/ \E i \in Ids : Discard(i)
             \/ UNCHANGED vars
      PROVE  DeployedHolds'
  <2>1. UNCHANGED <<command, db, history>>
    BY <1>5 DEF Edit, Generate, OpenSql, FillSql, OpenSnapshot, FillSnapshot,
                Crash, Advance, Discard, vars
  <2> QED
    BY <1>1, <2>1 DEF DeployedHolds
<1> QED
  BY <1>2, <1>3, <1>4, <1>5 DEF Next

-----------------------------------------------------------------------------

\* An empty directory and an empty database have it.
LEMMA FilesInit == Init => FilesIInv
<1> SUFFICES ASSUME Init PROVE FilesIInv
  OBVIOUS
<1>1. FilesTypeOK
  BY DEF Init, FilesTypeOK, Idle
<1>2. Listed = {} /\ \A i \in Ids : ~Complete(i)
  BY DEF Init, Listed, Complete
<1>3. WrittenInTurn /\ DeployedHolds
  BY DEF Init, WrittenInTurn, DeployedHolds, Idle
<1>4. ChainHolds
  BY <1>2 DEF Init, ChainHolds, Idle
<1> QED
  BY <1>1, <1>3, <1>4 DEF FilesIInv

\* Every step keeps it.
LEMMA FilesStep ==
    ASSUME OwnNamed, FilesIInv, [Next]_vars PROVE FilesIInv'
BY TypesKept, InTurnKept, ChainKept, DeployedKept DEF FilesIInv

\* Migrations in which no two share a sequence number add nothing twice: the
\* one before is what the one after builds on.
LEMMA AddedOnce == ASSUME FilesIInv PROVE NeverAddedTwice
<1> SUFFICES ASSUME \A i, j \in Listed : i[1] = j[1] => i = j,
                    NEW i \in Listed, NEW j \in Listed, i[1] < j[1]
             PROVE  files[i].sql.adds \cap files[j].sql.adds = {}
  <2>1. \A i, j \in Listed : i[1] \in Int /\ j[1] \in Int
    BY IdsOrdered DEF Listed
  <2> QED
    BY <2>1 DEF NeverAddedTwice
<1>1. i[1] \in 1 .. j[1] - 1 /\ i \in Ids
  BY IdsOrdered, FilesAssumption DEF Listed
<1>2. PICK k \in Ids : /\ k[1] = i[1] /\ Complete(k)
                       /\ files[k].snap \cap files[j].sql.adds = {}
  BY <1>1 DEF FilesIInv, ChainHolds, BuildsOn
<1>3. k = i
  BY <1>1, <1>2 DEF Complete, Listed
<1>4. files[i].sql.adds \subseteq files[i].snap
  BY <1>1, <1>2, <1>3 DEF FilesIInv, ChainHolds, Continues
<1> QED
  BY <1>2, <1>3, <1>4

\* Under names of their own the directory always describes one schema: no
\* snapshot has a column that the files before it do not add, and none is added
\* twice unless two migrations were generated at the same time.
THEOREM DirectoryAgrees == ASSUME OwnNamed PROVE Spec => []FilesInv
<1>1. FilesIInv => FilesInv
  <2> SUFFICES ASSUME FilesIInv PROVE SnapshotReached
    BY AddedOnce DEF FilesInv, FilesAgree
  <2> SUFFICES ASSUME NEW i \in Ids, Complete(i), NEW column \in files[i].snap
               PROVE  \E j \in Listed : (j = i \/ Before(j, i))
                                        /\ column \in files[j].sql.adds
    BY DEF SnapshotReached
  <2> QED
    BY DEF FilesIInv, ChainHolds, Continues, AddedBefore, Complete, Listed
<1> QED
  BY <1>1, FilesInit, FilesStep, PTL DEF Spec

\* Under names of their own no generate writes over a complete migration,
\* whoever crashes, deletes half-written files and generates again.
THEOREM CompleteMigrationsStay ==
    ASSUME OwnNamed PROVE Spec => CompleteStays
<1>1. FilesIInv /\ [Next]_vars
      => [\A i \in Ids : Complete(i) => files'[i] = files[i]]_vars
  BY CompleteKept DEF FilesIInv
<1> QED
  BY <1>1, FilesInit, FilesStep, PTL DEF Spec, CompleteStays

\* A drift report that is clean is true: what was configured when it read the
\* directory is in the database, unless a file changed after it was applied.
THEOREM CleanIsDeployed ==
    ASSUME OwnNamed PROVE Spec => CleanMeansDeployed
<1>1. FilesIInv /\ [Next]_vars
      => [ReportsClean /\ Mismatched(command.found) = {}
            => command.config \subseteq db]_vars
  <2> SUFFICES ASSUME FilesIInv, [Next]_vars, ReportsClean,
                      Mismatched(command.found) = {}
               PROVE  command.config \subseteq db
    OBVIOUS
  <2>1. FilesTypeOK /\ DeployedHolds /\ command.pc = "read"
    BY DEF FilesIInv, ReportsClean
  <2>2. ~Drift(command)
    <3>1. CASE Report
      BY <3>1 DEF Report, ReportsClean
    <3>2. CASE Apply \/ Killed \/ ReadForDrift
               \/ \E dirty, steps \in BOOLEAN : ReadForMigrate(dirty, steps)
      BY <3>2 DEF Apply, Killed, ReadForDrift, ReadForMigrate, ReportsClean
    <3>3. CASE \/ Edit
               \/ \E d \in Devs :
                    \/ Generate(d) \/ OpenSql(d) \/ FillSql(d)
                    \/ OpenSnapshot(d) \/ FillSnapshot(d) \/ Crash(d)
               \/ \E i \in Ids : Discard(i)
               \/ UNCHANGED vars
      <4>1. UNCHANGED command
        BY <3>3 DEF Edit, Generate, OpenSql, FillSql, OpenSnapshot,
                    FillSnapshot, Crash, Advance, Discard, vars
      <4> QED
        BY <4>1 DEF ReportsClean
    <3> QED
      BY <3>1, <3>2, <3>3 DEF Next
  <2>3. /\ command.config = command.latest /\ command.latest # None
        /\ DOMAIN command.found \in SUBSET Ids
        /\ \A i \in DOMAIN command.found : history[i] # None
    <3>1. /\ command.config = command.latest
          /\ PendingOf(command.found) = {}
      BY <2>2 DEF Drift
    <3>2. /\ command.config \in SUBSET Columns
          /\ DOMAIN command.found \in SUBSET Ids
      BY <2>1 DEF FilesTypeOK
    <3>3. \A i \in DOMAIN command.found : history[i] # None
      BY <3>1 DEF PendingOf
    <3> QED
      BY <3>1, <3>2, <3>3, FilesAssumption
  <2>4. \A i \in DOMAIN command.found : history[i] = command.found[i]
    BY <2>3 DEF Mismatched
  <2>5. \A i \in DOMAIN command.found : command.found[i].adds \subseteq db
    BY <2>1, <2>3, <2>4 DEF DeployedHolds
  <2> QED
    BY <2>1, <2>3, <2>5 DEF DeployedHolds
<1> QED
  BY <1>1, FilesInit, FilesStep, PTL DEF Spec, CleanMeansDeployed
=============================================================================
