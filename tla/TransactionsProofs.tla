------------------------- MODULE TransactionsProofs -------------------------
(***************************************************************************)
(* What a call's own connection gives, for any number of calls and         *)
(* connections: as long as a connection is one call's at a time,           *)
(* transactions do not mix, end with their call, and commit all their      *)
(* callback was told of.                                                   *)
(***************************************************************************)
EXTENDS Transactions, TLAPS

-----------------------------------------------------------------------------

\* Initially nobody holds anything.
LEMMA TxInit == Init => TxInv
<1> SUFFICES ASSUME Init PROVE TxInv
  OBVIOUS
<1> USE TransactionsAssumption DEF Init, Holding
<1>1. TypeOK
  BY DEF TypeOK, Pcs, Settled
<1>2. OneHolder /\ OpenWhileInside /\ WorkIsTheHolders
  BY DEF OneHolder, OpenWhileInside, WorkIsTheHolders, Holds
<1>3. SentInOrder
  BY DEF SentInOrder
<1>4. NothingForgotten /\ UnseenUntilSent
  BY DEF NothingForgotten, UnseenUntilSent
<1> QED
  BY <1>1, <1>2, <1>3, <1>4 DEF TxInv

\* The call of a step is the only holder of its connection.
LEMMA Alone ==
    ASSUME TxInv, NEW c \in Calls, pc[c] \in Holding
    PROVE  /\ at[c] \in Conns
           /\ \A d \in Calls : Holds(d, at[c]) => d = c
           /\ Holds(c, at[c])
BY DEF TxInv, TypeOK, OneHolder, Holds

\* Getting a connection that nobody holds.
LEMMA AcquireStep ==
    ASSUME TxInv, Exclusive, NEW c \in Calls, Acquire(c)
    PROVE  TxInv'
<1> USE DEF Holding
<1>1. PICK k \in Conns : Available(c, k) /\ at' = [at EXCEPT ![c] = k]
  BY DEF Acquire
<1>2. \A d \in Calls : ~Holds(d, k)
  BY <1>1 DEF Available
<1>3. tx[k] = "none" /\ work[k] = {}
  BY <1>2, TransactionsAssumption DEF TxInv, TypeOK, OpenWhileInside, WorkIsTheHolders
<1>4. /\ pc[c] = "waiting"
      /\ pc' = [pc EXCEPT ![c] = IF c \in Transactions THEN "beginning" ELSE "running"]
      /\ UNCHANGED <<sent, succeeded, tx, work, committed>>
  BY DEF Acquire, Goto
<1>5. TypeOK'
  BY <1>1, <1>4 DEF TxInv, TypeOK, Pcs, Settled
<1>6. OneHolder'
  BY <1>1, <1>2, <1>4 DEF TxInv, TypeOK, OneHolder, Holds
<1>7. OpenWhileInside'
  BY <1>1, <1>3, <1>4, TransactionsAssumption DEF TxInv, TypeOK, OpenWhileInside, Holds
<1>8. WorkIsTheHolders'
  BY <1>1, <1>3, <1>4 DEF TxInv, TypeOK, WorkIsTheHolders, Holds, Writes
<1>9. SentInOrder'
  BY <1>4 DEF TxInv, SentInOrder
<1>10. NothingForgotten'
  BY <1>1, <1>4, TransactionsAssumption DEF TxInv, TypeOK, NothingForgotten, Doomed, ToldOf
<1>11. UnseenUntilSent'
  BY <1>4 DEF TxInv, UnseenUntilSent, Writes
<1> QED
  BY <1>5, <1>6, <1>7, <1>8, <1>9, <1>10, <1>11 DEF TxInv

\* A step that only moves a call: it is requested, finds no connection, its
\* callback throws, its commit is lost, or it gives the connection back.
LEMMA MoveStep ==
    ASSUME TxInv, NEW c \in Calls, NEW to \in Pcs \ {"running", "returning"},
           NEW n \in {sent[c], sent[c] + 1},
           pc' = [pc EXCEPT ![c] = to],
           sent' = [sent EXCEPT ![c] = n],
           UNCHANGED <<at, succeeded, tx, work, committed>>,
           n # sent[c] => to = "unwinding" /\ sent[c] = StepsOf[c],
           to \in Holding => pc[c] \in Holding,
           to \in {"waiting", "idle"} => sent[c] = 0,
           to # "beginning",
           to = "unwinding" => c \in Transactions,
           to = "resolved" <=> pc[c] = "returning",
           pc[c] \notin Settled,
           pc[c] \in {"running", "unwinding"} => to = "unwinding"
    PROVE  TxInv'
<1> USE DEF Holding
<1>0. sent[c] \in Nat /\ StepsOf[c] \in Nat \ {0} /\ succeeded[c] \subseteq 1 .. sent[c]
  BY TransactionsAssumption DEF TxInv, TypeOK, SentInOrder
<1>1. TypeOK'
  BY <1>0 DEF TxInv, TypeOK
<1>2. OneHolder'
  BY DEF TxInv, TypeOK, OneHolder, Holds
<1>3. OpenWhileInside'
  BY TransactionsAssumption DEF TxInv, TypeOK, OpenWhileInside, Holds
<1>4. WorkIsTheHolders'
  <2> SUFFICES ASSUME NEW k \in Conns, NEW w \in work[k]
               PROVE  tx[k] # "none" /\ Holds(w[1], k)' /\ w \in Writes(w[1])
    BY DEF WorkIsTheHolders, Writes
  <2>1. tx[k] # "none" /\ Holds(w[1], k) /\ w \in Writes(w[1])
    BY DEF TxInv, WorkIsTheHolders
  <2>2. PICK d \in Transactions : Holds(d, k) /\ pc[d] \in {"running", "unwinding"}
    BY <2>1 DEF TxInv, OpenWhileInside
  <2>3. w[1] \in Calls
    BY DEF TxInv, TypeOK
  <2>4. w[1] = d
    BY <2>1, <2>2, <2>3, TransactionsAssumption DEF TxInv, OneHolder
  <2> QED
    BY <2>1, <2>2, <2>3, <2>4 DEF TxInv, TypeOK, Holds
<1>5. SentInOrder'
  BY <1>0, TransactionsAssumption DEF TxInv, TypeOK, SentInOrder, Settled
<1>6. NothingForgotten'
  <2>1. \A d \in Calls : d # c => Doomed(d)' = Doomed(d)
    BY DEF TxInv, TypeOK, Doomed
  <2>2. to \in {"returning", "resolved"} => Doomed(c)' = Doomed(c)
    BY DEF TxInv, TypeOK, Doomed
  <2> QED
    BY <2>1, <2>2, TransactionsAssumption DEF TxInv, TypeOK, NothingForgotten, ToldOf
<1>7. UnseenUntilSent'
  <2> SUFFICES ASSUME NEW d \in Calls,
                 IF d \in Transactions THEN sent'[d] <= StepsOf[d] ELSE succeeded[d] = {}
               PROVE  committed \cap Writes(d) = {}
    BY DEF UnseenUntilSent, Writes
  <2>1. IF d \in Transactions THEN sent[d] <= StepsOf[d] ELSE succeeded[d] = {}
    BY <1>0 DEF TxInv, TypeOK
  <2> QED
    BY <2>1 DEF TxInv, UnseenUntilSent
<1> QED
  BY <1>1, <1>2, <1>3, <1>4, <1>5, <1>6, <1>7 DEF TxInv

\* begin finds its connection without a transaction.
LEMMA BeginStep ==
    ASSUME TxInv, NEW c \in Calls, Begin(c)
    PROVE  TxInv'
<1> USE DEF Holding
<1> DEFINE k == at[c]
<1>1. /\ pc[c] = "beginning" /\ pc' = [pc EXCEPT ![c] = "running"]
      /\ tx' = [tx EXCEPT ![k] = IF tx[k] = "none" THEN "open" ELSE tx[k]]
      /\ UNCHANGED <<at, sent, succeeded, work, committed>>
  BY DEF Begin, Goto
<1>2. k \in Conns /\ c \in Transactions /\ sent[c] = 0 /\ succeeded[c] = {}
  BY <1>1 DEF TxInv, TypeOK, SentInOrder
<1>3. tx[k] = "none"
  BY <1>1, Alone, TransactionsAssumption DEF TxInv, OpenWhileInside
<1>4. tx' = [tx EXCEPT ![k] = "open"]
  BY <1>1, <1>3
<1> HIDE DEF k
<1>5. TypeOK'
  BY <1>1, <1>2, <1>4 DEF TxInv, TypeOK, Pcs, Settled, k
<1>6. OneHolder'
  BY <1>1 DEF TxInv, TypeOK, OneHolder, Holds
<1>7. OpenWhileInside'
  BY <1>1, <1>2, <1>4, TransactionsAssumption DEF TxInv, TypeOK, OpenWhileInside, Holds, k
<1>8. WorkIsTheHolders'
  BY <1>1, <1>4 DEF TxInv, TypeOK, WorkIsTheHolders, Holds, Writes
<1>9. SentInOrder'
  BY <1>1 DEF TxInv, TypeOK, SentInOrder
<1>10. NothingForgotten'
  <2> SUFFICES ASSUME NEW d \in Transactions PROVE
         /\ pc'[d] = "running"
            => /\ tx'[at[d]] # "none"
               /\ ToldOf(d) \subseteq work[at[d]]
               /\ tx'[at[d]] = "aborted" => Doomed(d)
         /\ pc'[d] \in {"returning", "resolved"}
            => ToldOf(d) \subseteq committed \/ Doomed(d)
    BY <1>1 DEF NothingForgotten, ToldOf, Doomed
  <2>1. CASE d = c
    BY <2>1, <1>1, <1>2, <1>4 DEF TxInv, TypeOK, ToldOf, k
  <2>2. CASE d # c
    BY <2>2, <1>1, <1>4, TransactionsAssumption DEF TxInv, TypeOK, NothingForgotten, k
  <2> QED
    BY <2>1, <2>2
<1>11. UnseenUntilSent'
  BY <1>1 DEF TxInv, UnseenUntilSent, Writes
<1> QED
  BY <1>5, <1>6, <1>7, <1>8, <1>9, <1>10, <1>11 DEF TxInv

\* A statement that succeeds adds one write, to the open transaction of its
\* own call or, a plain one, to what is committed.
LEMMA StatementStep ==
    ASSUME TxInv, NEW c \in Calls, Statement(c)
    PROVE  TxInv'
<1> USE DEF Holding
<1> DEFINE k == at[c]
           i == sent[c] + 1
<1>1. /\ pc[c] = "running" /\ sent[c] < StepsOf[c] /\ tx[k] # "aborted"
      /\ Land(k, <<c, i>>)
      /\ sent' = [sent EXCEPT ![c] = i]
      /\ succeeded' = [succeeded EXCEPT ![c] = @ \cup {i}]
      /\ pc' = IF c \in Transactions THEN pc ELSE [pc EXCEPT ![c] = "returning"]
      /\ UNCHANGED <<at, tx>>
  BY DEF Statement, Ready
<1>2. /\ k \in Conns /\ Holds(c, k) /\ \A d \in Calls : Holds(d, k) => d = c
      /\ sent[c] \in Nat /\ StepsOf[c] \in Nat \ {0} /\ i \in 1 .. StepsOf[c]
      /\ succeeded[c] \subseteq 1 .. sent[c]
  <2>1. k \in Conns /\ Holds(c, k) /\ \A d \in Calls : Holds(d, k) => d = c
    BY <1>1, Alone
  <2>2. sent[c] \in Nat /\ StepsOf[c] \in Nat \ {0} /\ succeeded[c] \subseteq 1 .. sent[c]
    BY TransactionsAssumption DEF TxInv, TypeOK, SentInOrder
  <2>3. i \in 1 .. StepsOf[c]
    BY <1>1, <2>2
  <2> QED
    BY <2>1, <2>2, <2>3
<1>3. CASE c \in Transactions
  <2>1. /\ tx[k] = "open" /\ work' = [work EXCEPT ![k] = @ \cup {<<c, i>>}]
        /\ UNCHANGED <<pc, at, tx, committed>>
    BY <1>1, <1>2, <1>3 DEF TxInv, TypeOK, NothingForgotten, Land
  <2> HIDE DEF k, i
  <2>2. TypeOK'
    BY <1>1, <1>2, <2>1 DEF TxInv, TypeOK, i
  <2>3. OneHolder' /\ OpenWhileInside'
    BY <2>1 DEF TxInv, OneHolder, OpenWhileInside, Holds
  <2>4. WorkIsTheHolders'
    BY <1>2, <2>1 DEF TxInv, TypeOK, WorkIsTheHolders, Holds, Writes
  <2>5. SentInOrder'
    BY <1>1, <1>2, <2>1 DEF TxInv, TypeOK, SentInOrder, i
  <2>6. NothingForgotten'
    <3> SUFFICES ASSUME NEW d \in Transactions PROVE
           /\ pc[d] = "running"
              => /\ tx[at[d]] # "none"
                 /\ ToldOf(d)' \subseteq work'[at[d]]
                 /\ tx[at[d]] = "aborted" => Doomed(d)'
           /\ pc[d] \in {"returning", "resolved"}
              => ToldOf(d)' \subseteq committed \/ Doomed(d)'
      BY <2>1 DEF NothingForgotten, ToldOf
    <3>1. CASE d = c
      BY <3>1, <1>1, <1>2, <2>1 DEF TxInv, TypeOK, NothingForgotten, ToldOf, k, i
    <3>2. CASE d # c
      <4>1. ToldOf(d)' = ToldOf(d) /\ Doomed(d)' = Doomed(d)
        BY <3>2, <1>1, TransactionsAssumption DEF TxInv, TypeOK, ToldOf, Doomed
      <4>2. pc[d] = "running" => work[at[d]] \subseteq work'[at[d]]
        BY <2>1, TransactionsAssumption DEF TxInv, TypeOK
      <4> QED
        BY <4>1, <4>2 DEF TxInv, NothingForgotten
    <3> QED
      BY <3>1, <3>2
  <2>7. UnseenUntilSent'
    <3> SUFFICES ASSUME NEW d \in Calls,
                   IF d \in Transactions THEN sent'[d] <= StepsOf[d] ELSE succeeded'[d] = {}
                 PROVE  committed \cap Writes(d) = {}
      BY <2>1 DEF UnseenUntilSent, Writes
    <3>1. IF d \in Transactions THEN sent[d] <= StepsOf[d] ELSE succeeded[d] = {}
      BY <1>1, <1>2, <1>3 DEF TxInv, TypeOK
    <3> QED
      BY <3>1 DEF TxInv, UnseenUntilSent
  <2> QED
    BY <2>2, <2>3, <2>4, <2>5, <2>6, <2>7 DEF TxInv
<1>4. CASE c \notin Transactions
  <2>1. tx[k] = "none"
    BY <1>2, <1>4, TransactionsAssumption DEF TxInv, OpenWhileInside
  <2>2. /\ committed' = committed \cup {<<c, i>>} /\ pc' = [pc EXCEPT ![c] = "returning"]
        /\ UNCHANGED <<at, tx, work>>
    BY <1>1, <1>4, <2>1 DEF Land
  <2> HIDE DEF k, i
  <2>3. TypeOK'
    BY <1>1, <1>2, <2>2 DEF TxInv, TypeOK, Pcs, Settled, i
  <2>4. OneHolder'
    BY <1>1, <2>2 DEF TxInv, TypeOK, OneHolder, Holds
  <2>5. OpenWhileInside'
    BY <1>4, <2>2, TransactionsAssumption DEF TxInv, TypeOK, OpenWhileInside, Holds
  <2>6. WorkIsTheHolders'
    BY <1>1, <2>2 DEF TxInv, TypeOK, WorkIsTheHolders, Holds, Writes
  <2>7. SentInOrder'
    BY <1>1, <1>2, <2>2 DEF TxInv, TypeOK, SentInOrder, i
  <2>8. NothingForgotten'
    BY <1>1, <1>4, <2>2, TransactionsAssumption DEF TxInv, TypeOK, NothingForgotten, ToldOf, Doomed
  <2>9. UnseenUntilSent'
    <3> SUFFICES ASSUME NEW d \in Calls,
                   IF d \in Transactions THEN sent'[d] <= StepsOf[d] ELSE succeeded'[d] = {}
                 PROVE  committed' \cap Writes(d) = {}
      BY DEF UnseenUntilSent, Writes
    <3>1. d # c
      BY <1>1, <1>4 DEF TxInv, TypeOK
    <3>2. IF d \in Transactions THEN sent[d] <= StepsOf[d] ELSE succeeded[d] = {}
      BY <3>1, <1>1 DEF TxInv, TypeOK
    <3>3. committed \cap Writes(d) = {}
      BY <3>2 DEF TxInv, UnseenUntilSent
    <3> QED
      BY <2>2, <3>1, <3>3 DEF Writes
  <2> QED
    BY <2>3, <2>4, <2>5, <2>6, <2>7, <2>8, <2>9 DEF TxInv
<1> QED
  BY <1>3, <1>4

\* A statement that fails writes nothing, and may doom its transaction.
LEMMA FailureStep ==
    ASSUME TxInv, NEW c \in Calls, StatementFails(c)
    PROVE  TxInv'
<1> USE DEF Holding
<1> DEFINE k == at[c]
           i == sent[c] + 1
           dooms == AbortsOnError /\ tx[k] = "open"
<1>1. /\ pc[c] = "running" /\ sent[c] < StepsOf[c]
      /\ sent' = [sent EXCEPT ![c] = i]
      /\ \/ tx' = tx
         \/ dooms /\ tx' = [tx EXCEPT ![k] = "aborted"]
      /\ IF c \in Transactions
         THEN pc' = pc \/ pc' = [pc EXCEPT ![c] = "unwinding"]
         ELSE pc' = [pc EXCEPT ![c] = "throwing"]
      /\ UNCHANGED <<at, succeeded, work, committed>>
  BY DEF StatementFails, Ready
<1>2. k \in Conns /\ Holds(c, k) /\ \A d \in Calls : Holds(d, k) => d = c
  BY <1>1, Alone
<1>3. sent[c] \in Nat /\ StepsOf[c] \in Nat \ {0} /\ succeeded[c] \subseteq 1 .. sent[c]
  BY TransactionsAssumption DEF TxInv, TypeOK, SentInOrder
<1>4. i \in 1 .. StepsOf[c] /\ i \notin succeeded[c]
  BY <1>1, <1>3
<1>5. \E to \in Pcs : /\ pc' = [pc EXCEPT ![c] = to]
                      /\ IF c \in Transactions THEN to \in {"running", "unwinding"}
                         ELSE to = "throwing"
  BY <1>1 DEF TxInv, TypeOK, Pcs
<1>6. PICK to \in Pcs : /\ pc' = [pc EXCEPT ![c] = to]
                        /\ IF c \in Transactions THEN to \in {"running", "unwinding"}
                           ELSE to = "throwing"
  BY <1>5
<1>7. \A e \in Conns : tx'[e] = "none" <=> tx[e] = "none"
  BY <1>1, <1>2 DEF TxInv, TypeOK
<1>8. c \notin Transactions => tx[k] = "none"
  BY <1>2, TransactionsAssumption DEF TxInv, OpenWhileInside
<1>9. TypeOK'
  BY <1>1, <1>2, <1>3, <1>6 DEF TxInv, TypeOK
<1> HIDE DEF k, i, dooms
<1>10. OneHolder'
  BY <1>1, <1>6 DEF TxInv, TypeOK, OneHolder, Holds
<1>11. OpenWhileInside'
  BY <1>1, <1>6, <1>7, <1>8, TransactionsAssumption DEF TxInv, TypeOK, OpenWhileInside, Holds, k
<1>12. WorkIsTheHolders'
  BY <1>1, <1>6, <1>7 DEF TxInv, TypeOK, WorkIsTheHolders, Holds, Writes
<1>13. SentInOrder'
  BY <1>1, <1>3, <1>4, <1>6 DEF TxInv, TypeOK, SentInOrder, i
<1>14. \A d \in Calls : Doomed(d) => Doomed(d)'
  BY <1>1, <1>3, TransactionsAssumption DEF TxInv, TypeOK, Doomed, i
<1>15. AbortsOnError => Doomed(c)'
  BY <1>1, <1>4 DEF TxInv, TypeOK, Doomed
<1>16. NothingForgotten'
  <2> SUFFICES ASSUME NEW d \in Transactions PROVE
         /\ pc'[d] = "running"
            => /\ tx'[at[d]] # "none"
               /\ ToldOf(d) \subseteq work[at[d]]
               /\ tx'[at[d]] = "aborted" => Doomed(d)'
         /\ pc'[d] \in {"returning", "resolved"}
            => ToldOf(d) \subseteq committed \/ Doomed(d)'
    BY <1>1 DEF NothingForgotten, ToldOf
  <2>1. CASE d = c
    BY <2>1, <1>1, <1>2, <1>6, <1>7, <1>14, <1>15 DEF TxInv, TypeOK, NothingForgotten, k, dooms
  <2>2. CASE d # c
    <3>1. pc'[d] = pc[d] /\ (pc[d] = "running" => at[d] \in Conns \ {k})
      BY <2>2, <1>2, <1>6, TransactionsAssumption DEF TxInv, TypeOK, Holds
    <3>2. pc[d] = "running" => tx'[at[d]] = tx[at[d]]
      BY <3>1, <1>1 DEF TxInv, TypeOK
    <3> QED
      BY <3>1, <3>2, <1>14, TransactionsAssumption DEF TxInv, NothingForgotten
  <2> QED
    BY <2>1, <2>2
<1>17. UnseenUntilSent'
  <2> SUFFICES ASSUME NEW d \in Calls,
                 IF d \in Transactions THEN sent'[d] <= StepsOf[d] ELSE succeeded[d] = {}
               PROVE  committed \cap Writes(d) = {}
    BY <1>1 DEF UnseenUntilSent, Writes
  <2>1. IF d \in Transactions THEN sent[d] <= StepsOf[d] ELSE succeeded[d] = {}
    BY <1>1, <1>3 DEF TxInv, TypeOK
  <2> QED
    BY <2>1 DEF TxInv, UnseenUntilSent
<1> QED
  BY <1>9, <1>10, <1>11, <1>12, <1>13, <1>16, <1>17 DEF TxInv

\* The server ends the transaction of a call, which may keep its writes only
\* when the commit was sent.
LEMMA EndStep ==
    ASSUME TxInv, NEW c \in Transactions, pc[c] \in {"running", "unwinding"},
           NEW kept \in BOOLEAN, EndTx(at[c], kept),
           NEW to \in {"returning", "unwinding", "throwing"},
           pc' = [pc EXCEPT ![c] = to],
           NEW n \in {sent[c], sent[c] + 1}, sent' = [sent EXCEPT ![c] = n],
           UNCHANGED <<at, succeeded>>,
           n # sent[c] => sent[c] = StepsOf[c],
           kept => n = StepsOf[c] + 1,
           to = "returning" => kept /\ pc[c] = "running"
    PROVE  TxInv'
<1> USE DEF Holding
<1> DEFINE k == at[c]
<1>1. /\ tx' = [tx EXCEPT ![k] = "none"] /\ work' = [work EXCEPT ![k] = {}]
      /\ committed' = IF kept /\ tx[k] = "open" THEN committed \cup work[k] ELSE committed
  BY DEF EndTx
<1>2. c \in Calls /\ k \in Conns /\ Holds(c, k) /\ \A d \in Calls : Holds(d, k) => d = c
  BY Alone, TransactionsAssumption
<1>3. sent[c] \in Nat /\ StepsOf[c] \in Nat \ {0} /\ succeeded[c] \subseteq 1 .. sent[c]
  BY <1>2, TransactionsAssumption DEF TxInv, TypeOK, SentInOrder
<1>4. work[k] \subseteq Writes(c)
  <2> SUFFICES ASSUME NEW w \in work[k] PROVE w \in Writes(c)
    OBVIOUS
  <2>1. w[1] \in Calls /\ Holds(w[1], k) /\ w \in Writes(w[1])
    BY <1>2 DEF TxInv, TypeOK, WorkIsTheHolders
  <2> QED
    BY <2>1, <1>2
<1> HIDE DEF k
<1>5. TypeOK'
  BY <1>1, <1>2, <1>3 DEF TxInv, TypeOK, Pcs, Settled
<1>6. OneHolder'
  BY <1>2 DEF TxInv, TypeOK, OneHolder, Holds
<1>7. OpenWhileInside'
  BY <1>1, <1>2, TransactionsAssumption DEF TxInv, TypeOK, OpenWhileInside, Holds
<1>8. WorkIsTheHolders'
  <2> SUFFICES ASSUME NEW e \in Conns, NEW w \in work'[e]
               PROVE  tx'[e] # "none" /\ Holds(w[1], e)' /\ w \in Writes(w[1])
    BY DEF WorkIsTheHolders, Writes
  <2>1. e # k /\ w \in work[e] /\ tx'[e] = tx[e]
    BY <1>1, <1>2 DEF TxInv, TypeOK
  <2>2. tx[e] # "none" /\ Holds(w[1], e) /\ w \in Writes(w[1]) /\ w[1] \in Calls
    BY <2>1 DEF TxInv, TypeOK, WorkIsTheHolders
  <2> QED
    BY <1>2, <2>1, <2>2 DEF TxInv, TypeOK, Holds, k
<1>9. SentInOrder'
  BY <1>2, <1>3, TransactionsAssumption DEF TxInv, TypeOK, SentInOrder
<1>10. NothingForgotten'
  <2> SUFFICES ASSUME NEW d \in Transactions PROVE
         /\ pc'[d] = "running"
            => /\ tx'[at[d]] # "none"
               /\ ToldOf(d) \subseteq work'[at[d]]
               /\ tx'[at[d]] = "aborted" => Doomed(d)'
         /\ pc'[d] \in {"returning", "resolved"}
            => ToldOf(d) \subseteq committed' \/ Doomed(d)'
    BY DEF NothingForgotten, ToldOf
  <2>0. Doomed(d) => Doomed(d)'
    BY <1>2, <1>3, TransactionsAssumption DEF TxInv, TypeOK, Doomed
  <2>1. CASE d = c
    <3>1. to = "returning" => ToldOf(c) \subseteq committed' \/ Doomed(c)
      BY <1>1, <1>2 DEF TxInv, TypeOK, NothingForgotten, k
    <3> QED
      BY <2>0, <2>1, <3>1, <1>2 DEF TxInv, TypeOK
  <2>2. CASE d # c
    <3>1. pc'[d] = pc[d] /\ (pc[d] = "running" => at[d] \in Conns \ {k})
      BY <2>2, <1>2, TransactionsAssumption DEF TxInv, TypeOK, Holds
    <3>2. pc[d] = "running" => tx'[at[d]] = tx[at[d]] /\ work'[at[d]] = work[at[d]]
      BY <3>1, <1>1 DEF TxInv, TypeOK
    <3>3. committed \subseteq committed'
      BY <1>1
    <3> QED
      BY <2>0, <3>1, <3>2, <3>3 DEF TxInv, NothingForgotten
  <2> QED
    BY <2>1, <2>2
<1>11. UnseenUntilSent'
  <2> SUFFICES ASSUME NEW d \in Calls,
                 IF d \in Transactions THEN sent'[d] <= StepsOf[d] ELSE succeeded[d] = {}
               PROVE  committed' \cap Writes(d) = {}
    BY DEF UnseenUntilSent, Writes
  <2>1. IF d \in Transactions THEN sent[d] <= StepsOf[d] ELSE succeeded[d] = {}
    BY <1>2, <1>3 DEF TxInv, TypeOK
  <2>2. committed \cap Writes(d) = {}
    BY <2>1 DEF TxInv, UnseenUntilSent
  <2>3. kept => d # c
    BY <1>2, <1>3 DEF TxInv, TypeOK
  <2>4. kept => work[k] \cap Writes(d) = {}
    BY <2>3, <1>4 DEF Writes
  <2> QED
    BY <1>1, <2>2, <2>4
<1> QED
  BY <1>5, <1>6, <1>7, <1>8, <1>9, <1>10, <1>11 DEF TxInv

-----------------------------------------------------------------------------

\* One step of a call, by the kind of step it is.
LEMMA TxStep ==
    ASSUME TxInv, Exclusive, NEW c \in Calls, Request(c) \/ Step(c)
    PROVE  TxInv'
<1>1. UNCHANGED sent => sent' = [sent EXCEPT ![c] = sent[c]]
  BY DEF TxInv, TypeOK
<1>2. CASE Request(c)
  BY <1>1, <1>2, MoveStep DEF Request, Goto, TxInv, TypeOK, SentInOrder, Pcs, Holding, Settled
<1>3. CASE StartFails(c)
  BY <1>1, <1>3, MoveStep DEF StartFails, Goto, TxInv, TypeOK, Pcs, Holding, Settled
<1>4. CASE Throw(c)
  BY <1>1, <1>4, MoveStep DEF Throw, Ready, Pcs, Holding, Settled
<1>5. CASE Release(c)
  BY <1>1, <1>5, MoveStep DEF Release, Goto, Pcs, Holding, Settled
<1>6. CASE Commit(c)
  <2>1. /\ c \in Transactions /\ pc[c] = "running" /\ sent[c] = StepsOf[c]
        /\ sent' = [sent EXCEPT ![c] = sent[c] + 1]
        /\ EndTx(at[c], TRUE)
        /\ pc' = [pc EXCEPT ![c] = "returning"] /\ UNCHANGED <<at, succeeded>>
    BY <1>6 DEF Commit, CommitSent, Ready
  <2> QED
    BY <2>1, EndStep
<1>7. CASE CommitFails(c)
  <2>1. /\ c \in Transactions /\ pc[c] = "running" /\ sent[c] = StepsOf[c]
        /\ sent' = [sent EXCEPT ![c] = sent[c] + 1]
        /\ pc' = [pc EXCEPT ![c] = "unwinding"] /\ UNCHANGED <<at, succeeded>>
        /\ UNCHANGED <<tx, work, committed>> \/ EndTx(at[c], FALSE) \/ EndTx(at[c], TRUE)
    BY <1>7 DEF CommitFails, CommitSent, Ready
  <2>2. CASE UNCHANGED <<tx, work, committed>>
    BY <2>1, <2>2, MoveStep DEF Pcs, Holding, Settled
  <2>3. CASE EndTx(at[c], FALSE)
    BY <2>1, <2>3, EndStep
  <2>4. CASE EndTx(at[c], TRUE)
    BY <2>1, <2>4, EndStep
  <2> QED
    BY <2>1, <2>2, <2>3, <2>4
<1>8. CASE Rollback(c)
  <2>1. /\ c \in Transactions /\ pc[c] = "unwinding" /\ EndTx(at[c], FALSE)
        /\ pc' = [pc EXCEPT ![c] = "throwing"] /\ UNCHANGED <<at, sent, succeeded>>
    BY <1>8 DEF Rollback, Goto, TxInv, TypeOK
  <2> QED
    BY <1>1, <2>1, EndStep
<1> QED
  BY <1>2, <1>3, <1>4, <1>5, <1>6, <1>7, <1>8,
     AcquireStep, BeginStep, StatementStep, FailureStep DEF Step

\* With a connection of its own for every call, transactions never mix on a
\* connection, and no write is lost.
THEOREM TxInvariant == ASSUME Exclusive PROVE Spec => []TxInv
<1>1. TxInv /\ [Next]_vars => TxInv'
  <2> SUFFICES ASSUME TxInv, [Next]_vars PROVE TxInv'
    OBVIOUS
  <2>1. CASE UNCHANGED vars
    BY <2>1 DEF vars, TxInv, TypeOK, OneHolder, OpenWhileInside, WorkIsTheHolders,
       SentInOrder, NothingForgotten, UnseenUntilSent, Holds, Writes, ToldOf, Doomed
  <2>2. CASE \E c \in Calls : Request(c) \/ Step(c)
    BY <2>2, TxStep
  <2> QED
    BY <2>1, <2>2 DEF Next, Finished
<1> QED
  BY <1>1, TxInit, PTL DEF Spec

\* An open transaction holds writes of the call that holds its connection, and
\* of no other.
THEOREM OwnWork == ASSUME Exclusive PROVE Spec => []NoForeignWork
<1>1. TxInv => NoForeignWork
  BY DEF TxInv, TypeOK, OneHolder, WorkIsTheHolders, NoForeignWork
<1> QED
  BY <1>1, TxInvariant, PTL

\* However a call ends, its connection is given back outside a transaction.
THEOREM CleanReturn == ASSUME Exclusive PROVE Spec => []CleanWhenFree
<1>1. TxInv => CleanWhenFree
  BY TransactionsAssumption
     DEF TxInv, TypeOK, OpenWhileInside, WorkIsTheHolders, CleanWhenFree
<1> QED
  BY <1>1, TxInvariant, PTL

\* A transaction() that resolved committed every write its callback was told
\* of, unless PostgreSQL doomed it for an error the callback swallowed.
THEOREM NothingLost == ASSUME Exclusive PROVE Spec => []ResolvedMeansCommitted
<1>1. TxInv => ResolvedMeansCommitted
  BY DEF TxInv, NothingForgotten, ToldOf, Doomed, ResolvedMeansCommitted
<1> QED
  BY <1>1, TxInvariant, PTL

\* A call that was rejected before its commit was sent left nothing behind.
THEOREM NothingLeft == ASSUME Exclusive PROVE Spec => []RejectedMeansUndone
<1>1. TxInv => RejectedMeansUndone
  BY DEF TxInv, SentInOrder, UnseenUntilSent, RejectedMeansUndone
<1> QED
  BY <1>1, TxInvariant, PTL

-----------------------------------------------------------------------------

\* A step that other sessions see is one call's commit, or a plain statement.
LEMMA OneCommit ==
    ASSUME TxInv, Exclusive, [Next]_vars, committed' # committed
    PROVE  \E c \in Calls : Contract!CommitOnce(c)
<1>1. PICK c \in Calls : Statement(c) \/ Commit(c) \/ CommitFails(c) \/ Rollback(c)
  BY DEF Next, Finished, vars, Step, Request, Acquire,
     StartFails, Begin, StatementFails, Throw, Release
<1> SUFFICES /\ committed \cap Writes(c) = {}
             /\ \E some \in SUBSET Writes(c) : committed' = committed \cup some
  BY DEF Contract!CommitOnce, Contract!Writes, Writes
<1>2. CASE Statement(c)
  <2>1. pc[c] = "running" /\ sent[c] < StepsOf[c] /\ Land(at[c], <<c, sent[c] + 1>>)
    BY <1>2 DEF Statement, Ready
  <2>2. tx[at[c]] # "open" /\ committed' = committed \cup {<<c, sent[c] + 1>>}
    BY <2>1 DEF Land
  <2>3. c \notin Transactions
    BY <1>2, <2>1, <2>2, Alone DEF Statement, TxInv, TypeOK, NothingForgotten, Holding
  <2>4. sent[c] + 1 \in 1 .. StepsOf[c]
    BY <2>1, TransactionsAssumption DEF TxInv, TypeOK
  <2>5. committed \cap Writes(c) = {}
    BY <2>1, <2>3 DEF TxInv, SentInOrder, UnseenUntilSent
  <2>6. {<<c, sent[c] + 1>>} \in SUBSET Writes(c)
    BY <2>4 DEF Writes
  <2> QED
    BY <2>2, <2>5, <2>6
<1>3. CASE Commit(c) \/ CommitFails(c)
  <2>1. /\ c \in Transactions /\ pc[c] = "running" /\ sent[c] = StepsOf[c]
        /\ committed' = committed \cup work[at[c]]
    BY <1>3 DEF Commit, CommitFails, CommitSent, Ready, EndTx
  <2>2. work[at[c]] \subseteq Writes(c)
    BY <2>1, Alone DEF TxInv, TypeOK, WorkIsTheHolders, Holding
  <2>3. committed \cap Writes(c) = {}
    BY <2>1, TransactionsAssumption DEF TxInv, UnseenUntilSent
  <2> QED
    BY <2>1, <2>2, <2>3
<1>4. CASE Rollback(c)
  BY <1>4 DEF Rollback, EndTx
<1> QED
  BY <1>1, <1>2, <1>3, <1>4

\* The facade implements what it promises: the writes of one call become
\* visible in one step or never.
THEOREM CallsAreAtomic == ASSUME Exclusive PROVE Spec => CommitTogether
<1>1. Init => Contract!AtomicInit
  BY DEF Init, Contract!AtomicInit
<1>2. TxInv /\ [Next]_vars => [\E c \in Calls : Contract!CommitOnce(c)]_committed
  BY OneCommit
<1> QED
  BY <1>1, <1>2, TxInvariant, PTL DEF Spec, CommitTogether, Contract!AtomicSpec
=============================================================================
