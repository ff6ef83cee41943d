--------------------------- MODULE MCTransactions ---------------------------
(***************************************************************************)
(* Instances of Transactions for TLC: two transactions and a plain         *)
(* statement over one connection or two.                                   *)
(***************************************************************************)
EXTENDS Transactions

CONSTANTS t1, t2, s1, k1, k2

TwoStatements == [c \in Calls |-> IF c \in Transactions THEN 2 ELSE 1]

NoParent == [c \in Calls |-> None]

\* The callback of t1 uses the outer facade for the statement s1.
CalledFromT1 == [c \in Calls |-> IF c = s1 THEN t1 ELSE None]
=============================================================================
