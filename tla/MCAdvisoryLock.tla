--------------------------- MODULE MCAdvisoryLock ---------------------------
(***************************************************************************)
(* Instances of AdvisoryLock for TLC: three claims, one of them with a     *)
(* clock ahead of the others, and an instance where two claims share a     *)
(* stable owner token.                                                     *)
(***************************************************************************)
EXTENDS AdvisoryLock

CONSTANTS c1, c2, c3, o1, o2, o3

\* Tokens drawn at random: one each.
OwnTokens ==
    [c \in Claims |-> CASE c = c1 -> o1 [] c = c2 -> o2 [] OTHER -> o3]

\* The process of c1 was restarted as c3 with the stable token it supplies.
SharedToken == [c \in Claims |-> IF c = c2 THEN o2 ELSE o1]

NoSkew == [c \in Claims |-> 0]

OneAhead == [c \in Claims |-> IF c = c2 THEN 1 ELSE 0]

\* c3 only starts once the process of c1 is gone.
RestartOnly == pc[c3] # "idle" => c1 \in dead

\* A live holder keeps the lock, whichever tokens are in use: two claims with
\* different tokens hold together only if one lease has lapsed.
LiveHolderKeepsLock ==
    \A c, d \in Claims :
        /\ OwnerOf[c] # OwnerOf[d]
        /\ Alive(c) /\ Holding(c)
        /\ Alive(d) /\ Holding(d)
        => Lapsed(lease[c]) \/ Lapsed(lease[d])

\* What a state can still show: the instants no statement and no holder will
\* use again are left out, which merges states that behave alike.
LockView ==
    <<rows, pc, dead, now,
      [c \in Claims |->
         CASE pc[c] \in {"reaping", "claiming", "renewing"} -> stamp[c]
           [] OTHER -> 0],
      [c \in Claims |-> IF Holding(c) THEN lease[c] ELSE 0]>>
=============================================================================
