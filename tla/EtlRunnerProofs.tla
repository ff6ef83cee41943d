--------------------------- MODULE EtlRunnerProofs ---------------------------
(***************************************************************************)
(* What the ETL runtime guarantees for every number of invocations, every  *)
(* length of line, width of bucket, lease and clock skew.  The lock's own  *)
(* invariant (AdvisoryLockProofs) carries over to an invocation that is    *)
(* fired again and again; on it rest the facts about the data:             *)
(*   - two invocations whose leases are live never both land a statement,  *)
(*     so a run commits the window that is due when it commits;            *)
(*   - the horizon covers what was deleted, and stays in front of it;      *)
(*   - a window is the bucket of an edge, so folding one leaves the others *)
(*     alone.                                                              *)
(***************************************************************************)
EXTENDS EtlRunner, AdvisoryLockProofs

-----------------------------------------------------------------------------

\* A number is Grain times its bucket's number, and a remainder.
LEMMA Division ==
    ASSUME NEW t \in Int
    PROVE  /\ t \div Grain \in Int
           /\ t % Grain \in 0 .. Grain - 1
           /\ t = Grain * (t \div Grain) + (t % Grain)
BY WindowAssumption

\* Multiples of Grain differ by Grain at least, and are their own floor.
LEMMA Multiples ==
    ASSUME NEW p \in Int, NEW q \in Int
    PROVE  /\ (Grain * q) % Grain = 0
           /\ Grain * p < Grain * q => Grain * p + Grain <= Grain * q
BY WindowAssumption

\* truncateToGrain takes an instant to an edge at most Grain - 1 before it,
\* and an edge to itself; it keeps the order of instants and their sign.
LEMMA FloorFacts ==
    ASSUME NEW t \in Int
    PROVE  /\ Floor(t) \in Int
           /\ Floor(t) <= t /\ t < Floor(t) + Grain
           /\ Floor(Floor(t)) = Floor(t)
           /\ t >= 0 => Floor(t) >= 0
           /\ t < 0 => Floor(t) < 0
<1>1. Grain \in Nat \ {0}
  BY WindowAssumption
<1>2. Floor(t) \in Int /\ Floor(t) <= t /\ t < Floor(t) + Grain
  BY <1>1, Division DEF Floor
<1>3. Floor(Floor(t)) = Floor(t)
  <2>1. Floor(t) = Grain * (t \div Grain) /\ t \div Grain \in Int
    BY <1>1, Division DEF Floor
  <2>2. Floor(t) % Grain = 0
    BY <2>1, Multiples
  <2> QED
    BY <1>2, <2>2 DEF Floor
<1>4. t >= 0 => Floor(t) >= 0
  BY <1>1, Division DEF Floor
<1> QED
  BY <1>2, <1>3, <1>4

\* truncateToGrain keeps the order of instants.
LEMMA FloorMonotone ==
    ASSUME NEW s \in Int, NEW t \in Int, s <= t
    PROVE  Floor(s) <= Floor(t)
BY WindowAssumption, Division, Multiples, FloorFacts DEF Floor

\* Two edges are a bucket apart, and a bucket after an edge is the next.
LEMMA EdgesApart ==
    ASSUME NEW e \in Int, NEW f \in Int, Floor(e) = e, Floor(f) = f
    PROVE  e < f => e + Grain <= f
<1>1. e % Grain = 0 /\ f % Grain = 0
  BY Division, WindowAssumption DEF Floor
<1>2. e = Grain * (e \div Grain) /\ f = Grain * (f \div Grain)
  BY <1>1, Division, WindowAssumption
<1> QED
  BY <1>2, Division, Multiples

\* A bucket after an edge is an edge.
LEMMA NextEdge ==
    ASSUME NEW e \in Int, Floor(e) = e
    PROVE  Floor(e + Grain) = e + Grain
<1>1. e % Grain = 0
  BY Division, WindowAssumption DEF Floor
<1>2. e = Grain * (e \div Grain) /\ e \div Grain \in Int
  BY <1>1, Division, WindowAssumption
<1>3. e + Grain = Grain * (e \div Grain + 1)
  BY <1>2, WindowAssumption
<1>4. (e + Grain) % Grain = 0
  BY <1>2, <1>3, Multiples
<1> QED
  BY <1>4, WindowAssumption DEF Floor

\* The edges are instants, and so is what lies in their buckets.
LEMMA EdgeFacts ==
    ASSUME NEW e \in Edges
    PROVE  /\ e \in Nat /\ Floor(e) = e /\ e + Grain <= Closed
           /\ Bucket(e) \subseteq Instants /\ e \in Bucket(e)
BY WindowAssumption DEF Edges, Instants, Bucket

\* nextWindow begins at an edge; where it yields a window, that is a bucket
\* which has closed, and it ends no earlier than the watermark.
LEMMA NextWindow ==
    ASSUME NEW mark \in {Null} \cup 0 .. Closed
    PROVE  /\ NextFrom(mark) \in Nat
           /\ Floor(NextFrom(mark)) = NextFrom(mark)
           /\ mark <= NextFrom(mark) + Grain
           /\ mark # Null => NextFrom(mark) = Floor(mark)
           /\ mark = Null => NextFrom(mark) = JobStart
           /\ Due(mark) => NextFrom(mark) \in Edges
<1>1. /\ mark \in Int /\ JobStart \in Int /\ JobStart >= 0
      /\ Grain \in Nat \ {0} /\ Closed \in Int
      /\ (mark # Null => mark >= 0) /\ (mark = Null => mark < 0)
  BY WindowAssumption DEF Null
<1>2. /\ NextFrom(mark) \in Nat
      /\ Floor(NextFrom(mark)) = NextFrom(mark)
      /\ mark <= NextFrom(mark) + Grain
      /\ mark # Null => NextFrom(mark) = Floor(mark)
      /\ mark = Null => NextFrom(mark) = JobStart
  BY <1>1, FloorFacts, StartAligned DEF NextFrom
<1> QED
  BY <1>1, <1>2 DEF Due, Edges, Instants

\* Folding the bucket of an edge leaves the other buckets' rows alone, and
\* gives it all its rows when none of its source is gone.
LEMMA FoldOne ==
    ASSUME NEW f \in Edges, NEW present \in SUBSET Instants,
           NEW old \in [Edges -> SUBSET Instants]
    PROVE  LET new == Upsert(old, Selected(present, f, f + Grain))
           IN  /\ new \in [Edges -> SUBSET Instants]
               /\ \A e \in Edges \ {f} : new[e] = old[e]
               /\ Bucket(f) \subseteq present => new[f] = Bucket(f)
<1> DEFINE read == Selected(present, f, f + Grain)
<1>1. Grain \in Nat \ {0} /\ Closed \in Nat /\ \A e \in Edges : e \in Nat
  BY WindowAssumption, EdgeFacts
<1>2. read = present \cap Bucket(f)
  <2>1. f \in Int /\ \A i \in present : i \in Int
    BY <1>1 DEF Instants
  <2>2. \A i \in present : i \in read <=> i \in Bucket(f)
    BY <1>1, <2>1 DEF Selected, Bucket
  <2> QED
    BY <2>2 DEF Selected
<1>3. \A e \in Edges \ {f} : read \cap Bucket(e) = {}
  <2> SUFFICES ASSUME NEW e \in Edges \ {f},
                      NEW i \in Bucket(f), i \in Bucket(e)
               PROVE  FALSE
    BY <1>2
  <2>1. e + Grain <= f \/ f + Grain <= e
    BY <1>1, EdgeFacts, EdgesApart
  <2> QED
    BY <1>1, <2>1 DEF Bucket
<1>4. /\ f \in Bucket(f)
      /\ Bucket(f) \subseteq present => read \cap Bucket(f) = Bucket(f)
  BY <1>2, EdgeFacts
<1>5. read \subseteq Instants
  BY <1>2
<1> HIDE DEF read
<1>6. Upsert(old, read) = [e \in Edges |->
         IF read \cap Bucket(e) = {} THEN old[e] ELSE read \cap Bucket(e)]
  BY DEF Upsert
<1>7. Upsert(old, read) \in [Edges -> SUBSET Instants]
  BY <1>5, <1>6
<1>8. \A e \in Edges \ {f} : Upsert(old, read)[e] = old[e]
  BY <1>3, <1>6
<1>9. Bucket(f) \subseteq present => Upsert(old, read)[f] = Bucket(f)
  BY <1>4, <1>6
<1> QED
  BY <1>7, <1>8, <1>9 DEF read

-----------------------------------------------------------------------------

\* Seen from the lock, a job's step is a step of the lock or fires an
\* invocation again.
LEMMA LockOrRecycle ==
    ASSUME [EtlNext]_vars
    PROVE  [LockNext]_lockVars \/ \E c \in Claims : Recycle(c)
<1>1. ASSUME NEW c \in Claims, AcquireStep(c) \/ ReleaseStep(c) \/ FaultStep(c)
      PROVE  LockNext
  BY <1>1 DEF AcquireStep, ReleaseStep, FaultStep, LockNext, LockStep
<1>2. ASSUME NEW c \in Claims,
             ReadCheckpoint(c) \/ Commit(c) \/ CheckReplayable(c)
               \/ FoldNext(c) \/ JobFails(c)
      PROVE  UNCHANGED lockVars
  BY <1>2 DEF ReadCheckpoint, Commit, CheckReplayable, FoldNext, JobFails
<1>3. ASSUME NEW p \in Pruners, RenderPrune(p) \/ Prune(p)
      PROVE  UNCHANGED lockVars
  BY <1>3 DEF RenderPrune, Prune
<1>4. EtlTick => LockNext
  BY DEF EtlTick, LockNext
<1>5. UNCHANGED vars => UNCHANGED lockVars
  BY DEF vars
<1> QED
  BY <1>1, <1>2, <1>3, <1>4, <1>5 DEF EtlNext, Invocation

\* An invocation that is fired again has no row and no lease.
LEMMA RecycleKeepsLock ==
    ASSUME LockInv, NEW c \in Claims, Recycle(c)
    PROVE  LockInv'
<1>1. /\ LockTypeOK
      /\ pc' = [pc EXCEPT ![c] = "idle"] /\ dead' = dead \ {c}
      /\ UNCHANGED <<rows, stamp, lease, now>>
  BY DEF LockInv, Recycle
<1>2. LockTypeOK'
  BY <1>1 DEF LockTypeOK, Pcs
<1>3. CutoffPast'
  BY <1>1 DEF LockInv, LockTypeOK, CutoffPast, Clock
<1>4. OneRow'
  BY <1>1 DEF LockInv, OneRow
<1>5. LeaseBacked'
  BY <1>1 DEF LockInv, LockTypeOK, LeaseBacked, Holding, Lapsed, Clock, Owned
<1> QED
  BY <1>2, <1>3, <1>4, <1>5 DEF LockInv

\* So the lock's invariant holds of a job's lock at every step.
LEMMA LockInvKept == ASSUME LockInv, [EtlNext]_vars PROVE LockInv'
<1>1. [LockNext]_lockVars => LockInv'
  BY LockTypeStep, CutoffPastStep, OneRowStep, LeaseBackedStep DEF LockInv
<1> QED
  BY <1>1, LockOrRecycle, RecycleKeepsLock

\* Two holders of tokens of their own do not both have a live lease.
LEMMA OneLive ==
    ASSUME LockInv, Leased, NEW c \in Claims, NEW d \in Claims,
           pc[c] = "held", pc[d] = "held",
           ~Lapsed(lease[c]), ~Lapsed(lease[d])
    PROVE  c = d
<1>1. PICK r \in rows : Owned(r, c)
  BY DEF LockInv, LeaseBacked, Leased, Holding
<1>2. PICK s \in rows : Owned(s, d)
  BY DEF LockInv, LeaseBacked, Leased, Holding
<1> QED
  BY <1>1, <1>2 DEF LockInv, OneRow, Owned, Leased, Sole
-----------------------------------------------------------------------------

\* The steps of the lock, and time, leave a job's own state alone.
Quiet == \/ \E c \in Claims : AcquireStep(c) \/ ReleaseStep(c) \/ FaultStep(c)
         \/ EtlTick
         \/ UNCHANGED vars

\* While they happen an invocation that works keeps the lock and its lease,
\* and what has lapsed stays so.
LEMMA QuietStep ==
    ASSUME EtlTypeOK, Quiet
    PROVE  /\ UNCHANGED etlVars
           /\ \A c \in Claims : phase[c] \in {"commit", "fold"} /\ pc[c] = "held"
                 => /\ pc'[c] = "held" /\ lease'[c] = lease[c]
                    /\ ~Lapsed(lease[c])' => ~Lapsed(lease[c])
<1>1. UNCHANGED etlVars
  BY DEF Quiet, AcquireStep, ReleaseStep, FaultStep, EtlTick, vars
<1>2. LockTypeOK
  BY DEF EtlTypeOK
<1>3. now \in Int /\ now' \in Int /\ now <= now'
  <2>1. now \in Int
    BY <1>2 DEF LockTypeOK
  <2>2. now' = now \/ now' = now + 1
    BY DEF Quiet, AcquireStep, ReleaseStep, FaultStep, EtlTick, vars, lockVars,
           Start, Reap, RenderClaim, Claim, Verify, RenderRelease, Release,
           Fail, Crash, Tick
  <2> QED
    BY <2>1, <2>2
<1>4. ASSUME NEW c \in Claims, phase[c] \in {"commit", "fold"}, pc[c] = "held"
      PROVE  /\ pc'[c] = "held" /\ lease'[c] = lease[c]
             /\ ~Lapsed(lease[c])' => ~Lapsed(lease[c])
  <2>1. ASSUME NEW d \in Claims, AcquireStep(d)
        PROVE  pc'[c] = "held" /\ lease'[c] = lease[c]
    BY <1>2, <1>4, <2>1 DEF AcquireStep, Start, Reap, RenderClaim, Claim,
       Verify, Goto, LockTypeOK
  <2>2. ASSUME NEW d \in Claims, ReleaseStep(d) \/ FaultStep(d)
        PROVE  pc'[c] = "held" /\ lease'[c] = lease[c]
    BY <1>2, <1>4, <2>2 DEF ReleaseStep, FaultStep, RenderRelease, Release,
       Fail, Crash, Goto, LockTypeOK
  <2>3. pc'[c] = "held" /\ lease'[c] = lease[c]
    BY <1>4, <2>1, <2>2 DEF Quiet, EtlTick, Tick, vars, lockVars
  <2>4. lease[c] \in Int /\ \A d \in Claims : Skew[d] \in Int
    BY <1>2, LockAssumption DEF LockTypeOK
  <2>5. \A d \in Claims : lease[c] <= Clock(d) => lease'[c] <= Clock(d)'
    BY <1>3, <2>3, <2>4 DEF Clock
  <2> QED
    BY <2>3, <2>5 DEF Lapsed
<1> QED
  BY <1>1, <1>4

\* A step is quiet, or one of those that touch the job's own state.
LEMMA StepKinds ==
    ASSUME [EtlNext]_vars
    PROVE  \/ Quiet
           \/ \E c \in Claims : \/ ReadCheckpoint(c) \/ Commit(c)
                                \/ CheckReplayable(c) \/ FoldNext(c)
                                \/ JobFails(c) \/ Recycle(c)
           \/ \E p \in Pruners : RenderPrune(p) \/ Prune(p)
BY DEF EtlNext, Invocation, Quiet

-----------------------------------------------------------------------------

\* What holds of the types and the windows, whatever the deployment does.
Sound == EtlTypeOK /\ LockInv /\ WindowsClosed

\* It holds before the first invocation.
LEMMA SoundInit == EtlInit => Sound
<1> SUFFICES ASSUME EtlInit PROVE Sound
  OBVIOUS
<1>1. LockTypeOK
  BY LockTypeInit DEF EtlInit
<1>2. LockInv
  BY <1>1 DEF EtlInit, LockInit, LockInv, CutoffPast, OneRow, LeaseBacked,
              Holding
<1>3. rollup \in [Edges -> SUBSET Instants]
  BY EdgeFacts DEF EtlInit
<1>4. windowEnd \in {Null} \cup 0 .. Closed
  BY RunnerAssumption, WindowAssumption DEF EtlInit, Instants
<1>5. EtlTypeOK
  BY <1>1, <1>3, <1>4 DEF EtlInit, EtlTypeOK, Phases
<1> QED
  BY <1>2, <1>5 DEF EtlInit, WindowsClosed, Sound

\* A run that reads the checkpoint is given a closed bucket or nothing.
LEMMA ReadCheckpointKeeps ==
    ASSUME Sound, NEW c \in Claims, ReadCheckpoint(c)
    PROVE  EtlTypeOK' /\ WindowsClosed'
<1>1. EtlTypeOK /\ WindowsClosed /\ Grain \in Nat \ {0}
  BY WindowAssumption DEF Sound
<1>2. windowEnd \in {Null} \cup 0 .. Closed
  BY <1>1 DEF EtlTypeOK
<1>3. /\ NextFrom(windowEnd) \in Int
      /\ Due(windowEnd) => NextFrom(windowEnd) \in Edges
  BY <1>2, NextWindow
<1>4. EtlTypeOK'
  BY <1>1, <1>3 DEF ReadCheckpoint, EtlTypeOK, Phases, LockTypeOK, lockVars,
                    dataVars
<1>5. WindowsClosed'
  BY <1>1, <1>3 DEF ReadCheckpoint, EtlTypeOK, WindowsClosed, Working, lockVars
<1> QED
  BY <1>4, <1>5

\* A commit moves the watermark to the end of a bucket that has closed.
LEMMA CommitKeeps ==
    ASSUME Sound, NEW c \in Claims, Commit(c)
    PROVE  EtlTypeOK' /\ WindowsClosed'
<1>1. EtlTypeOK /\ WindowsClosed /\ Grain \in Nat \ {0} /\ Closed \in Nat
  BY WindowAssumption DEF Sound
<1>2. from[c] \in Edges /\ upto[c] = from[c] + Grain
  BY <1>1 DEF Commit, Working, WindowsClosed
<1>3. upto[c] \in 0 .. Closed
  BY <1>1, <1>2, EdgeFacts
<1>4. rollup' \in [Edges -> SUBSET Instants]
  BY <1>1, <1>2, FoldOne DEF Commit, EtlTypeOK
<1>5. EtlTypeOK'
  BY <1>1, <1>3, <1>4 DEF Commit, EtlTypeOK, Phases, LockTypeOK, lockVars
<1>6. WindowsClosed'
  BY <1>1 DEF Commit, EtlTypeOK, WindowsClosed, lockVars
<1> QED
  BY <1>5, <1>6

\* A backfill's range is made of closed buckets.
LEMMA CheckReplayableKeeps ==
    ASSUME Sound, NEW c \in Claims, CheckReplayable(c)
    PROVE  EtlTypeOK' /\ WindowsClosed'
<1>1. EtlTypeOK /\ WindowsClosed /\ Grain \in Nat \ {0}
  BY WindowAssumption DEF Sound
<1>2. PICK f \in Edges, last \in Edges :
        /\ f < last + Grain
        /\ from' = [from EXCEPT ![c] = f]
        /\ upto' = [upto EXCEPT ![c] = last + Grain]
        /\ phase'[c] \in {"over", "fold"}
        /\ phase' = [phase EXCEPT ![c] = phase'[c]]
  <2>1. PICK f \in Edges, last \in Edges, off \in Offsets :
          /\ \/ "backfill" \in Entries /\ f < last + Grain
             \/ "replay" \in Entries /\ last + Grain = f + Grain /\ off = 0
          /\ from' = [from EXCEPT ![c] = f]
          /\ upto' = [upto EXCEPT ![c] = last + Grain]
          /\ phase' = [phase EXCEPT ![c] =
                          IF BehindHorizon(f, off) /\ ~AllowPruned
                          THEN "over" ELSE "fold"]
    BY DEF CheckReplayable
  <2>2. f < last + Grain
    BY <1>1, <2>1, EdgeFacts
  <2> QED
    BY <1>1, <2>1, <2>2 DEF EtlTypeOK
<1>3. f \in Int /\ last \in Int /\ last + Grain - Grain = last
  BY <1>1, EdgeFacts
<1>4. EtlTypeOK'
  BY <1>1, <1>2, <1>3 DEF CheckReplayable, EtlTypeOK, Phases, LockTypeOK,
                          lockVars, dataVars
<1>5. WindowsClosed'
  BY <1>1, <1>2, <1>3 DEF CheckReplayable, EtlTypeOK, WindowsClosed, Working,
                          lockVars
<1> QED
  BY <1>4, <1>5

\* The window after the next is the next bucket of the range, if there is one.
LEMMA FoldNextKeeps ==
    ASSUME Sound, NEW c \in Claims, FoldNext(c)
    PROVE  EtlTypeOK' /\ WindowsClosed'
<1>1. EtlTypeOK /\ WindowsClosed /\ Grain \in Nat \ {0} /\ Closed \in Nat
  BY WindowAssumption DEF Sound
<1> DEFINE f == from[c]
           last == upto[c] - Grain
<1>2. f \in Edges /\ last \in Edges /\ f < upto[c] /\ upto[c] \in Int
  BY <1>1 DEF FoldNext, Working, WindowsClosed, EtlTypeOK
<1>3. f \in Nat /\ last \in Nat /\ Floor(f) = f /\ Floor(last) = last
      /\ upto[c] = last + Grain /\ last + Grain <= Closed
  BY <1>1, <1>2, EdgeFacts
<1> HIDE DEF f, last
<1>4. f + Grain # upto[c] => f + Grain < upto[c] /\ f + Grain \in Edges
  <2>1. Floor(last + Grain) = last + Grain /\ Floor(f + Grain) = f + Grain
    BY <1>3, NextEdge
  <2>2. f + Grain <= last + Grain
    BY <1>1, <1>2, <1>3, <2>1, EdgesApart
  <2>3. f < last => f + Grain <= last
    BY <1>3, EdgesApart
  <2> QED
    BY <1>1, <1>3, <2>1, <2>2, <2>3 DEF Edges, Instants
<1>5. rollup' \in [Edges -> SUBSET Instants]
  BY <1>1, <1>2, FoldOne DEF FoldNext, EtlTypeOK, f
<1>6. /\ from' = [from EXCEPT ![c] = f + Grain]
      /\ phase'[c] \in {"over", "fold"}
      /\ phase'[c] = "fold" => f + Grain # upto[c]
      /\ phase' = [phase EXCEPT ![c] = phase'[c]]
      /\ upto' = upto /\ pc' = pc
  BY <1>1 DEF FoldNext, EtlTypeOK, lockVars, f
<1>7. EtlTypeOK'
  BY <1>1, <1>3, <1>5, <1>6
     DEF FoldNext, EtlTypeOK, Phases, LockTypeOK, lockVars
<1>8. WindowsClosed'
  BY <1>1, <1>2, <1>4, <1>6
     DEF FoldNext, Working, EtlTypeOK, WindowsClosed, last
<1> QED
  BY <1>7, <1>8

\* The lock's steps, an invocation's end and a pruner's steps keep it.
LEMMA OtherStepsKeep ==
    ASSUME Sound, LockTypeOK',
           \/ Quiet
           \/ \E c \in Claims : JobFails(c) \/ Recycle(c)
           \/ \E p \in Pruners : RenderPrune(p) \/ Prune(p)
    PROVE  EtlTypeOK' /\ WindowsClosed'
<1>1. EtlTypeOK /\ WindowsClosed /\ Closed \in Nat
  BY WindowAssumption DEF Sound
<1>2. CASE Quiet
  BY <1>1, <1>2, QuietStep
     DEF EtlTypeOK, WindowsClosed, etlVars, jobVars, dataVars
<1>3. ASSUME NEW c \in Claims, JobFails(c) \/ Recycle(c)
      PROVE  EtlTypeOK' /\ WindowsClosed'
  BY <1>1, <1>3
     DEF JobFails, Recycle, EtlTypeOK, LockTypeOK, Phases, WindowsClosed,
         lockVars, dataVars
<1>4. ASSUME NEW p \in Pruners, RenderPrune(p)
      PROVE  EtlTypeOK' /\ WindowsClosed'
  <2>1. windowEnd \in Int /\ windowEnd <= Closed
    BY <1>1 DEF EtlTypeOK, Null
  <2>2. \A b \in 1 .. (IF PruneFolded THEN Floor(windowEnd) ELSE windowEnd) :
           b \in 0 .. Closed
    BY <1>1, <2>1, FloorFacts
  <2>3. pending' \in [Pruners -> {Null} \cup 0 .. Closed]
    BY <1>1, <1>4, <2>2 DEF RenderPrune, EtlTypeOK
  <2> QED
    BY <1>1, <1>4, <2>3
       DEF RenderPrune, EtlTypeOK, LockTypeOK, WindowsClosed, lockVars,
           jobVars, dataVars
<1>5. ASSUME NEW p \in Pruners, Prune(p)
      PROVE  EtlTypeOK' /\ WindowsClosed'
  BY <1>1, <1>5
     DEF Prune, EtlTypeOK, LockTypeOK, WindowsClosed, lockVars, jobVars
<1> QED
  BY <1>2, <1>3, <1>4, <1>5

\* Every step keeps it.
LEMMA SoundStep == Sound /\ [EtlNext]_vars => Sound'
<1> SUFFICES ASSUME Sound, [EtlNext]_vars PROVE Sound'
  OBVIOUS
<1>1. LockInv'
  BY LockInvKept DEF Sound
<1>2. LockTypeOK'
  BY <1>1 DEF LockInv
<1> QED
  BY <1>1, <1>2, StepKinds, ReadCheckpointKeeps, CommitKeeps,
     CheckReplayableKeeps, FoldNextKeeps, OtherStepsKeep DEF Sound

\* Whatever the deployment and the callers do, the watermark and the horizon
\* stay behind the reference clock, and a window is a closed bucket that is
\* folded by an invocation that has the lock.
THEOREM EtlSound == EtlSpec => []Sound
<1> QED
  BY SoundInit, SoundStep, PTL DEF EtlSpec

-----------------------------------------------------------------------------

\* A prune in flight, like the horizon, marks an instant that has passed the
\* watermark; so there is a watermark, and the prune does not seed one.
LEMMA PruneLeavesMark ==
    ASSUME Sound, MarkStands, NEW p \in Pruners, Prune(p)
    PROVE  windowEnd' = windowEnd /\ pending[p] <= windowEnd
<1>1. /\ pending[p] \in 0 .. Closed /\ pending[p] # Null
      /\ windowEnd \in Int /\ (windowEnd = Null => windowEnd < 0)
  BY DEF Sound, EtlTypeOK, Prune, Null
<1>2. pending[p] <= IF PruneFolded THEN Floor(windowEnd) ELSE windowEnd
  BY <1>1 DEF MarkStands
<1>3. windowEnd # Null /\ pending[p] <= windowEnd
  BY <1>1, <1>2, FloorFacts, WindowAssumption
<1> QED
  BY <1>3 DEF Prune

\* A run that lands its commit has a live lease; it stands at the window that
\* is due, and the watermark moves to the edge after it.
LEMMA CommitAdvances ==
    ASSUME Sound, Leased, MarkStands, NEW c \in Claims, Commit(c)
    PROVE  /\ ~Lapsed(lease[c]) /\ pc[c] = "held"
           /\ Due(windowEnd) /\ from[c] = NextFrom(windowEnd)
           /\ from[c] \in Edges
           /\ upto[c] = from[c] + Grain /\ windowEnd' = from[c] + Grain
           /\ Floor(windowEnd') = windowEnd' /\ windowEnd <= windowEnd'
<1>1. /\ windowEnd \in {Null} \cup 0 .. Closed
      /\ Closed \in Nat /\ Grain \in Nat \ {0}
  BY WindowAssumption DEF Sound, EtlTypeOK
<1>2. ~Lapsed(lease[c]) /\ phase[c] = "commit" /\ pc[c] = "held"
  BY DEF Commit, OnTime, Working, Leased
<1>3. from[c] = NextFrom(windowEnd)
  BY <1>2 DEF MarkStands
<1>4. from[c] \in Edges /\ upto[c] = from[c] + Grain
  BY <1>2 DEF Sound, WindowsClosed
<1>5. windowEnd' = from[c] + Grain
  BY <1>4 DEF Commit
<1> QED
  BY <1>1, <1>2, <1>3, <1>4, <1>5, EdgeFacts, NextEdge, NextWindow DEF Due

\* While leases outlast their jobs a live run stands at the window that is
\* due: nobody else can commit, and prunes leave the watermark alone.
LEMMA MarkStandsStep ==
    ASSUME Sound, Leased, MarkStands, [EtlNext]_vars
    PROVE  MarkStands'
<1> DEFINE limit == IF PruneFolded THEN Floor(windowEnd) ELSE windowEnd
<1>1. /\ EtlTypeOK /\ WindowsClosed /\ LockInv
      /\ windowEnd \in Int /\ limit \in Int /\ limit <= windowEnd
  BY FloorFacts DEF Sound, EtlTypeOK, Null
<1>2. CASE Quiet
  BY <1>1, <1>2, QuietStep
     DEF MarkStands, WindowsClosed, etlVars, jobVars, dataVars
<1>3. ASSUME NEW c \in Claims,
             ReadCheckpoint(c) \/ CheckReplayable(c) \/ FoldNext(c)
      PROVE  MarkStands'
  <2>1. /\ UNCHANGED <<lease, now, windowEnd, prunedBefore, pending>>
        /\ \A d \in Claims : Lapsed(lease[d])' <=> Lapsed(lease[d])
    BY <1>3 DEF ReadCheckpoint, CheckReplayable, FoldNext, lockVars, dataVars,
                Lapsed, Clock
  <2>2. \A d \in Claims : phase'[d] = "commit" =>
           \/ from'[d] = NextFrom(windowEnd)
           \/ phase[d] = "commit" /\ from'[d] = from[d]
    <3>1. CASE ReadCheckpoint(c)
      BY <1>1, <3>1 DEF ReadCheckpoint, EtlTypeOK
    <3>2. CASE CheckReplayable(c)
      BY <1>1, <3>2 DEF CheckReplayable, EtlTypeOK
    <3>3. CASE FoldNext(c)
      BY <1>1, <3>3 DEF FoldNext, EtlTypeOK
    <3> QED
      BY <1>3, <3>1, <3>2, <3>3
  <2> QED
    BY <2>1, <2>2 DEF MarkStands, NextFrom
<1>4. ASSUME NEW c \in Claims, Commit(c) PROVE MarkStands'
  <2>1. ASSUME NEW d \in Claims, phase'[d] = "commit", ~Lapsed(lease[d])'
        PROVE  FALSE
    <3>1. phase[d] = "commit" /\ d # c /\ ~Lapsed(lease[d]) /\ pc[d] = "held"
      BY <1>1, <1>4, <2>1 DEF Commit, EtlTypeOK, WindowsClosed, lockVars,
                              Lapsed, Clock
    <3> QED
      BY <1>1, <1>4, <3>1, CommitAdvances, OneLive
  <2>2. /\ windowEnd' \in Int /\ windowEnd <= windowEnd'
        /\ Floor(windowEnd') = windowEnd'
        /\ UNCHANGED <<prunedBefore, pending>>
    <3>1. from[c] \in Edges => from[c] + Grain \in Int
      BY EdgeFacts, WindowAssumption
    <3> QED
      BY <1>4, <3>1, CommitAdvances DEF Commit
  <2>3. ASSUME NEW b \in {prunedBefore} \cup {pending[p] : p \in Pruners},
               b # Null
        PROVE  b <= windowEnd'
    <3>1. b \in Int
      BY <1>1, <2>3 DEF EtlTypeOK, Null
    <3>2. b <= limit
      BY <2>3 DEF MarkStands
    <3> QED
      BY <1>1, <2>2, <3>1, <3>2
  <2> QED
    BY <2>1, <2>2, <2>3 DEF MarkStands
<1>5. ASSUME NEW c \in Claims, JobFails(c) \/ Recycle(c) PROVE MarkStands'
  <2>1. /\ UNCHANGED <<lease, now, from, windowEnd, prunedBefore, pending>>
        /\ \A d \in Claims : Lapsed(lease[d])' <=> Lapsed(lease[d])
        /\ \A d \in Claims : phase'[d] = "commit" => phase[d] = "commit"
    BY <1>1, <1>5 DEF JobFails, Recycle, lockVars, dataVars, Lapsed, Clock,
                      EtlTypeOK
  <2> QED
    BY <2>1 DEF MarkStands, NextFrom
<1>6. ASSUME NEW p \in Pruners, RenderPrune(p) PROVE MarkStands'
  <2>1. /\ UNCHANGED <<lease, now, phase, from, windowEnd, prunedBefore>>
        /\ \A d \in Claims : Lapsed(lease[d])' <=> Lapsed(lease[d])
    BY <1>6 DEF RenderPrune, lockVars, jobVars, dataVars, Lapsed, Clock
  <2>2. \A q \in Pruners : pending'[q] # Null
           => pending'[q] = pending[q] \/ pending'[q] <= limit
    BY <1>1, <1>6 DEF RenderPrune, EtlTypeOK
  <2> QED
    BY <2>1, <2>2 DEF MarkStands, NextFrom
<1>7. ASSUME NEW p \in Pruners, Prune(p) PROVE MarkStands'
  <2>1. /\ windowEnd' = windowEnd /\ UNCHANGED <<lease, now, phase, from>>
        /\ \A d \in Claims : Lapsed(lease[d])' <=> Lapsed(lease[d])
    BY <1>7, PruneLeavesMark DEF Prune, lockVars, jobVars, Lapsed, Clock
  <2>2. /\ prunedBefore' = pending[p]
        /\ \A q \in Pruners : pending'[q] \in {Null, pending[q]}
    BY <1>1, <1>7 DEF Prune, EtlTypeOK
  <2> QED
    BY <2>1, <2>2 DEF MarkStands, NextFrom
<1> QED
  BY <1>2, <1>3, <1>4, <1>5, <1>6, <1>7, StepKinds

\* No step takes the watermark back, and only a run's commit moves it.
LEMMA MarkMoves ==
    ASSUME Sound, Leased, MarkStands, [EtlNext]_vars
    PROVE  windowEnd <= windowEnd'
           /\ (windowEnd' = windowEnd \/ \E c \in Claims : Commit(c))
<1>1. windowEnd \in Int
  BY DEF Sound, EtlTypeOK, Null
<1>2. CASE Quiet
  BY <1>1, <1>2, QuietStep DEF Sound, etlVars, dataVars
<1>3. ASSUME NEW c \in Claims,
             ReadCheckpoint(c) \/ CheckReplayable(c) \/ FoldNext(c)
               \/ JobFails(c) \/ Recycle(c)
      PROVE  windowEnd' = windowEnd
  BY <1>3 DEF ReadCheckpoint, CheckReplayable, FoldNext, JobFails, Recycle,
              dataVars
<1>4. ASSUME NEW c \in Claims, Commit(c) PROVE windowEnd <= windowEnd'
  BY <1>4, CommitAdvances
<1>5. ASSUME NEW p \in Pruners, RenderPrune(p) \/ Prune(p)
      PROVE  windowEnd' = windowEnd
  BY <1>5, PruneLeavesMark DEF RenderPrune, dataVars
<1> QED
  BY <1>1, <1>2, <1>3, <1>4, <1>5, StepKinds

\* With one pruner who goes forward the horizon covers what was deleted, and a
\* prune in flight will not take it back.
LEMMA HorizonStep ==
    ASSUME Sound, OnePruner, PruneStands, HorizonCoversDeletes, [EtlNext]_vars
    PROVE  PruneStands' /\ HorizonCoversDeletes'
<1>1. /\ EtlTypeOK /\ prunedBefore \in Int
      /\ \A q \in Pruners : pending[q] \in Int
      /\ \A i \in Instants : i \in Int
  BY WindowAssumption DEF Sound, EtlTypeOK, Null, Instants
<1>2. CASE UNCHANGED <<pending, source, prunedBefore>>
  BY <1>2 DEF PruneStands, HorizonCoversDeletes
<1>3. ASSUME NEW p \in Pruners, RenderPrune(p)
      PROVE  PruneStands' /\ HorizonCoversDeletes'
  BY <1>1, <1>3 DEF RenderPrune, EtlTypeOK, dataVars, OnePruner, PruneStands,
                    HorizonCoversDeletes
<1>4. ASSUME NEW p \in Pruners, Prune(p)
      PROVE  PruneStands' /\ HorizonCoversDeletes'
  <2>1. PruneStands'
    BY <1>1, <1>4 DEF Prune, EtlTypeOK, OnePruner, PruneStands
  <2>2. prunedBefore <= pending[p]
    BY <1>4 DEF Prune, PruneStands
  <2>3. HorizonCoversDeletes'
    BY <1>1, <1>4, <2>2 DEF Prune, HorizonCoversDeletes
  <2> QED
    BY <2>1, <2>3
<1>5. ASSUME NEW c \in Claims,
             ReadCheckpoint(c) \/ Commit(c) \/ CheckReplayable(c)
               \/ FoldNext(c) \/ JobFails(c) \/ Recycle(c)
      PROVE  UNCHANGED <<pending, source, prunedBefore>>
  BY <1>5 DEF ReadCheckpoint, Commit, CheckReplayable, FoldNext, JobFails,
              Recycle, dataVars
<1>6. Quiet => UNCHANGED <<pending, source, prunedBefore>>
  BY <1>1, QuietStep DEF etlVars, dataVars
<1> QED
  BY <1>2, <1>3, <1>4, <1>5, <1>6, StepKinds

\* A backfill that was let past the horizon stays in front of it: the horizon
\* does not move while it folds, and its windows go forward.
LEMMA FoldsGuardedStep ==
    ASSUME Sound, Guarded, FoldsGuarded, [EtlNext]_vars
    PROVE  FoldsGuarded'
<1>1. /\ EtlTypeOK /\ WindowsClosed /\ prunedBefore \in Int
      /\ Grain \in Nat \ {0}
  BY WindowAssumption DEF Sound, EtlTypeOK, Null
<1>2. CASE Quiet
  BY <1>1, <1>2, QuietStep DEF FoldsGuarded, etlVars, jobVars, dataVars
<1>3. ASSUME NEW c \in Claims, ReadCheckpoint(c) PROVE FoldsGuarded'
  BY <1>1, <1>3 DEF ReadCheckpoint, EtlTypeOK, FoldsGuarded, dataVars
<1>4. ASSUME NEW c \in Claims, Commit(c) \/ JobFails(c) \/ Recycle(c)
      PROVE  FoldsGuarded'
  BY <1>1, <1>4
     DEF Commit, JobFails, Recycle, EtlTypeOK, FoldsGuarded, dataVars
<1>5. ASSUME NEW c \in Claims, CheckReplayable(c) PROVE FoldsGuarded'
  <2>1. PICK f \in Edges, u \in {e + Grain : e \in Edges}, off \in Offsets :
          /\ from' = [from EXCEPT ![c] = f]
          /\ phase' = [phase EXCEPT ![c] =
                          IF BehindHorizon(f, off) /\ ~AllowPruned
                          THEN "over" ELSE "fold"]
    BY <1>5 DEF CheckReplayable
  <2>2. f \in Int /\ off \in Int /\ off <= 0 /\ ~AllowPruned
    BY EdgeFacts, RunnerAssumption DEF Guarded
  <2>3. phase'[c] = "fold" => prunedBefore <= f
    BY <1>1, <2>1, <2>2 DEF BehindHorizon, EtlTypeOK
  <2> QED
    BY <1>1, <1>5, <2>1, <2>3 DEF CheckReplayable, EtlTypeOK, FoldsGuarded,
                                  dataVars
<1>6. ASSUME NEW c \in Claims, FoldNext(c) PROVE FoldsGuarded'
  BY <1>1, <1>6 DEF FoldNext, Working, EtlTypeOK, FoldsGuarded
<1>7. ASSUME NEW p \in Pruners, RenderPrune(p) PROVE FoldsGuarded'
  BY <1>7 DEF RenderPrune, FoldsGuarded, jobVars, dataVars
<1>8. ASSUME NEW p \in Pruners, Prune(p) PROVE FoldsGuarded'
  BY <1>1, <1>8
     DEF Prune, Apart, Guarded, Working, WindowsClosed, FoldsGuarded, jobVars
<1> QED
  BY <1>2, <1>3, <1>4, <1>5, <1>6, <1>7, <1>8, StepKinds

\* The rows of a bucket the horizon has not passed are all there.
LEMMA SourceInFront ==
    ASSUME Sound, HorizonCoversDeletes, NEW e \in Edges, prunedBefore <= e
    PROVE  Bucket(e) \subseteq source
<1>1. prunedBefore \in Int /\ e \in Int /\ Bucket(e) \subseteq Instants
  BY EdgeFacts DEF Sound, EtlTypeOK, Null
<1> QED
  BY <1>1, WindowAssumption DEF HorizonCoversDeletes, Bucket

\* Nothing the watermark has passed is lost: a commit folds the next bucket
\* while all its rows are there, and so does a backfill.
LEMMA RollupStep ==
    ASSUME Sound, Leased, OnePruner, Guarded, PruneFolded, MarkStands,
           HorizonCoversDeletes, FoldsGuarded, RollupComplete, [EtlNext]_vars
    PROVE  RollupComplete'
<1>1. /\ EtlTypeOK /\ WindowsClosed /\ Grain \in Nat \ {0} /\ JobStart \in Nat
      /\ windowEnd \in {Null} \cup 0 .. Closed /\ windowEnd \in Int
      /\ rollup \in [Edges -> SUBSET Instants] /\ source \in SUBSET Instants
      /\ prunedBefore \in {Null} \cup Nat /\ Null \in Int /\ Null < 0
  BY WindowAssumption DEF Sound, EtlTypeOK, Null
<1>2. CASE UNCHANGED <<rollup, windowEnd>>
  BY <1>2 DEF RollupComplete
<1>3. ASSUME NEW c \in Claims, Commit(c) PROVE RollupComplete'
  <2> DEFINE f == from[c]
  <2>1. /\ f \in Edges /\ f = NextFrom(windowEnd) /\ windowEnd' = f + Grain
        /\ rollup' = Upsert(rollup, Selected(source, f, f + Grain))
    BY <1>3, CommitAdvances DEF Commit
  <2> HIDE DEF f
  <2>2. f \in Nat /\ Floor(f) = f
    BY <2>1, EdgeFacts
  <2>3. prunedBefore <= f
    <3>1. prunedBefore # Null => prunedBefore <= Floor(windowEnd)
      BY DEF MarkStands
    <3>2. windowEnd = Null => Floor(windowEnd) < 0
      BY <1>1, FloorFacts
    <3>3. windowEnd # Null => f = Floor(windowEnd)
      BY <1>1, <2>1, NextWindow
    <3>4. Floor(windowEnd) \in Int
      BY <1>1, FloorFacts
    <3> QED
      BY <1>1, <2>2, <3>1, <3>2, <3>3, <3>4
  <2>4. /\ rollup'[f] = Bucket(f)
        /\ \A e \in Edges \ {f} : rollup'[e] = rollup[e]
    BY <1>1, <2>1, <2>3, SourceInFront, FoldOne
  <2>5. ASSUME NEW e \in Edges, JobStart <= e, e + Grain <= f + Grain, e # f
        PROVE  e + Grain <= windowEnd
    <3>1. e \in Int /\ Floor(e) = e /\ e < f
      BY <1>1, <2>2, <2>5, EdgeFacts
    <3>2. e + Grain <= f
      BY <2>2, <3>1, EdgesApart
    <3>3. windowEnd # Null
      BY <1>1, <2>1, <2>5, <3>1, NextWindow
    <3>4. f <= windowEnd
      BY <1>1, <2>1, <3>3, NextWindow, FloorFacts
    <3> QED
      BY <1>1, <2>2, <3>1, <3>2, <3>4
  <2> QED
    BY <2>1, <2>4, <2>5 DEF RollupComplete
<1>4. ASSUME NEW c \in Claims, FoldNext(c) PROVE RollupComplete'
  <2> DEFINE f == from[c]
  <2>1. /\ f \in Edges /\ prunedBefore <= f /\ windowEnd' = windowEnd
        /\ rollup' = Upsert(rollup, Selected(source, f, f + Grain))
    BY <1>1, <1>4 DEF FoldNext, Working, WindowsClosed, FoldsGuarded
  <2> HIDE DEF f
  <2>2. /\ rollup'[f] = Bucket(f)
        /\ \A e \in Edges \ {f} : rollup'[e] = rollup[e]
    BY <1>1, <2>1, SourceInFront, FoldOne
  <2> QED
    BY <2>1, <2>2 DEF RollupComplete
<1>5. ASSUME NEW c \in Claims,
             ReadCheckpoint(c) \/ CheckReplayable(c) \/ JobFails(c) \/ Recycle(c)
      PROVE  UNCHANGED <<rollup, windowEnd>>
  BY <1>5 DEF ReadCheckpoint, CheckReplayable, JobFails, Recycle, dataVars
<1>6. ASSUME NEW p \in Pruners, RenderPrune(p) \/ Prune(p)
      PROVE  UNCHANGED <<rollup, windowEnd>>
  BY <1>6, PruneLeavesMark DEF RenderPrune, Prune, dataVars
<1>7. Quiet => UNCHANGED <<rollup, windowEnd>>
  BY <1>1, QuietStep DEF etlVars, dataVars
<1> QED
  BY <1>2, <1>3, <1>4, <1>5, <1>6, <1>7, StepKinds

\* Before the first invocation the watermark stands where the job left it, and
\* what lies behind it is folded.
LEMMA EtlInvInit == EtlInit => EtlInv
<1> SUFFICES ASSUME EtlInit PROVE EtlInv
  OBVIOUS
<1>1. Sound
  BY SoundInit
<1>2. MarkStands /\ PruneStands /\ HorizonCoversDeletes /\ FoldsGuarded
  BY DEF EtlInit, MarkStands, PruneStands, HorizonCoversDeletes, FoldsGuarded,
         Null
<1>3. RollupComplete
  <2> SUFFICES ASSUME NEW e \in Edges, e + Grain <= windowEnd
               PROVE  {i \in Bucket(e) : i < windowEnd} = Bucket(e)
    BY DEF EtlInit, RollupComplete
  <2>1. e \in Int /\ windowEnd \in Int /\ Grain \in Nat
    BY <1>1, EdgeFacts, WindowAssumption DEF Sound, EtlTypeOK, Null
  <2> QED
    BY <2>1 DEF Bucket
<1> QED
  BY <1>1, <1>2, <1>3 DEF EtlInv, Sound

\* Every step keeps each part of EtlInv, given what that part rests on.
LEMMA EtlInvStep == EtlInv /\ [EtlNext]_vars => EtlInv'
<1> SUFFICES ASSUME EtlInv, [EtlNext]_vars PROVE EtlInv'
  OBVIOUS
<1>1. Sound /\ Sound'
  BY SoundStep DEF EtlInv, Sound
<1>2. ASSUME Leased PROVE MarkStands'
  BY <1>1, <1>2, MarkStandsStep DEF EtlInv
<1>3. ASSUME OnePruner PROVE PruneStands' /\ HorizonCoversDeletes'
  BY <1>1, <1>3, HorizonStep DEF EtlInv
<1>4. ASSUME Guarded PROVE FoldsGuarded'
  BY <1>1, <1>4, FoldsGuardedStep DEF EtlInv
<1>5. ASSUME Leased, OnePruner, Guarded, PruneFolded PROVE RollupComplete'
  BY <1>1, <1>5, RollupStep DEF EtlInv
<1>6. Leased' = Leased /\ OnePruner' = OnePruner /\ Guarded' = Guarded
  BY DEF Leased, OnePruner, Guarded, Sole
<1> QED
  BY <1>1, <1>2, <1>3, <1>4, <1>5, <1>6 DEF EtlInv, Sound

\* Every part of the invariant holds as soon as what it rests on does.
THEOREM EtlInvariant == EtlSpec => []EtlInv
<1> QED
  BY EtlInvInit, EtlInvStep, PTL DEF EtlSpec

\* With one pruner who goes forward, every row that is gone is behind the
\* horizon, whatever the leases, clocks and backfills do.
THEOREM HorizonCovers ==
    ASSUME OnePruner PROVE EtlSpec => []HorizonCoversDeletes
<1>1. EtlInv => HorizonCoversDeletes
  BY DEF EtlInv
<1> QED
  BY <1>1, EtlInvariant, PTL

\* When leases outlast their jobs, callers prune forward and whole buckets, and
\* backfills see the horizon they check, no window the watermark has passed
\* is missing a row of the rollup.
THEOREM RollupIsComplete ==
    ASSUME Leased, OnePruner, Guarded, PruneFolded
    PROVE  EtlSpec => []RollupComplete
<1>1. EtlInv => RollupComplete
  BY DEF EtlInv
<1> QED
  BY <1>1, EtlInvariant, PTL

\* When leases outlast their jobs, the lock serialises the runs: none takes
\* the watermark back.  Pruners and backfills may do what they like.
THEOREM WatermarkForward == ASSUME Leased PROVE EtlSpec => WatermarkMonotone
<1>1. EtlInv /\ [EtlNext]_vars => [windowEnd <= windowEnd']_windowEnd
  BY MarkMoves DEF EtlInv, Sound
<1> QED
  BY <1>1, EtlInvariant, PTL DEF EtlSpec, WatermarkMonotone

\* A backfill that is let past the horizon check begins in front of it, unless
\* its marker is written ahead of UTC or the caller waives the check.
THEOREM HorizonIsGuarded ==
    ASSUME ~AllowPruned, \A off \in Offsets : off <= 0
    PROVE  EtlSpec => HorizonGuards
<1>1. EtlInv /\ [EtlNext]_vars
      => [\A c \in Claims : phase[c] = "begin" /\ phase'[c] = "fold"
                             => prunedBefore <= from'[c]]_vars
  <2> SUFFICES ASSUME EtlInv, [EtlNext]_vars, NEW c \in Claims,
                      phase[c] = "begin", phase'[c] = "fold"
               PROVE  prunedBefore <= from'[c]
    OBVIOUS
  <2>1. EtlTypeOK /\ prunedBefore \in Int
    BY DEF EtlInv, EtlTypeOK, Null
  <2>2. CheckReplayable(c)
    <3>1. ~Quiet
      BY <2>1, QuietStep DEF etlVars, jobVars
    <3>2. ASSUME NEW d \in Claims,
                 ReadCheckpoint(d) \/ Commit(d) \/ FoldNext(d) \/ JobFails(d)
                   \/ Recycle(d)
          PROVE  FALSE
      BY <2>1, <3>2 DEF ReadCheckpoint, Commit, FoldNext, JobFails, Recycle,
                        Working, EtlTypeOK
    <3>3. ASSUME NEW p \in Pruners, RenderPrune(p) \/ Prune(p) PROVE FALSE
      BY <3>3 DEF RenderPrune, Prune, jobVars
    <3>4. ASSUME NEW d \in Claims, CheckReplayable(d) PROVE d = c
      BY <2>1, <3>4 DEF CheckReplayable, EtlTypeOK
    <3> QED
      BY <3>1, <3>2, <3>3, <3>4, StepKinds
  <2>3. PICK f \in Edges, off \in Offsets :
          /\ from' = [from EXCEPT ![c] = f]
          /\ ~BehindHorizon(f, off)
    BY <2>1, <2>2 DEF CheckReplayable, EtlTypeOK
  <2>4. f \in Int /\ off \in Int /\ off <= 0
    BY EdgeFacts, RunnerAssumption
  <2> QED
    BY <2>1, <2>3, <2>4 DEF BehindHorizon, EtlTypeOK
<1> QED
  BY <1>1, EtlInvariant, PTL DEF EtlSpec, HorizonGuards

-----------------------------------------------------------------------------

\* A commit is the contract's atomic advance: read, fold and move at once.
LEMMA CommitIsAdvance ==
    ASSUME Sound, Leased, MarkStands, NEW c \in Claims, Commit(c)
    PROVE  Contract!AdvanceOnce
BY CommitAdvances
   DEF Commit, Contract!AdvanceOnce, Contract!Due, Due, Contract!NextFrom,
       NextFrom, Contract!Floor, Floor, Contract!Null, Null,
       Contract!Refolded, Contract!Upsert, Upsert, Contract!Selected, Selected,
       Contract!Bucket, Bucket

\* A window of a backfill is a refold in front of the horizon.
LEMMA FoldIsRefold ==
    ASSUME Sound, FoldsGuarded, NEW c \in Claims, FoldNext(c)
    PROVE  Contract!Refold
<1>1. from[c] \in Edges /\ prunedBefore <= from[c]
  BY DEF FoldNext, Working, FoldsGuarded, Sound, WindowsClosed
<1>2. Contract!Edges = Edges
  BY DEF Contract!Edges, Edges, Contract!Instants, Instants, Contract!Floor,
         Floor
<1> QED
  BY <1>1, <1>2 DEF FoldNext, Contract!Refold, Contract!Refolded,
     Contract!Upsert, Upsert, Contract!Selected, Selected, Contract!Bucket,
     Bucket

\* A prune removes what is consolidated and moves the horizon forward.
LEMMA PruneIsPrune ==
    ASSUME Sound, MarkStands, PruneStands, NEW p \in Pruners, Prune(p)
    PROVE  Contract!PruneOnce
<1>1. windowEnd' = windowEnd /\ pending[p] <= windowEnd
  BY PruneLeavesMark
<1>2. pending[p] \in 0 .. windowEnd /\ prunedBefore <= pending[p]
  BY <1>1 DEF Prune, PruneStands, Sound, EtlTypeOK, Null
<1> QED
  BY <1>1, <1>2 DEF Prune, Contract!PruneOnce

\* Seen from the data, the invocations of a job that is deployed and called as
\* the runtime asks are one atomic job: windows folded one after the other,
\* history refolded in front of the horizon, and only consolidated rows pruned.
THEOREM ContractIsMet ==
    ASSUME Leased, OnePruner, Guarded PROVE EtlSpec => ContractHolds
<1>1. EtlInit => Contract!DataInit
  BY DEF EtlInit, Contract!DataInit, Contract!Instants, Instants,
         Contract!Edges, Edges, Contract!Floor, Floor, Contract!Bucket, Bucket,
         Contract!Null, Null
<1>2. EtlInv /\ [EtlNext]_vars
      => [Contract!ContractNext]_(Contract!dataVars)
  <2> SUFFICES ASSUME EtlInv, [EtlNext]_vars
               PROVE  Contract!ContractNext \/ UNCHANGED dataVars
    BY DEF Contract!dataVars, dataVars
  <2>1. Sound /\ MarkStands /\ PruneStands /\ FoldsGuarded
    BY DEF EtlInv, Sound
  <2>2. ASSUME NEW c \in Claims,
               ReadCheckpoint(c) \/ CheckReplayable(c) \/ JobFails(c)
                 \/ Recycle(c)
        PROVE  UNCHANGED dataVars
    BY <2>2 DEF ReadCheckpoint, CheckReplayable, JobFails, Recycle
  <2>3. ASSUME NEW p \in Pruners, RenderPrune(p) PROVE UNCHANGED dataVars
    BY <2>3 DEF RenderPrune
  <2>4. Quiet => UNCHANGED dataVars
    BY <2>1, QuietStep DEF Sound, etlVars
  <2> QED
    BY <2>1, <2>2, <2>3, <2>4, StepKinds, CommitIsAdvance, FoldIsRefold,
       PruneIsPrune DEF Contract!ContractNext
<1> QED
  BY <1>1, <1>2, EtlInvariant, PTL
     DEF EtlSpec, ContractHolds, Contract!ContractSpec
=============================================================================
