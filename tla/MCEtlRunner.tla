---------------------------- MODULE MCEtlRunner -----------------------------
(***************************************************************************)
(* Instances of EtlRunner for TLC: two invocations that the scheduler      *)
(* fires again and again, on two or three buckets of two instants.         *)
(***************************************************************************)
EXTENDS EtlRunner

CONSTANTS c1, c2, o1, o2, p1, p2

OwnTokens == [c \in Claims |-> IF c = c1 THEN o1 ELSE o2]

NoSkew == [c \in Claims |-> 0]

\* The job is fresh, or has folded its first bucket.
AlignedMarks == {Null, 2}

\* Or its watermark was set by hand into the middle of the first bucket.
AnyMarks == {Null, 1, 2}

NoOffset == {0}

\* A backfill's marker is in UTC or in a zone behind it.
BehindUtc == {-1, 0}

\* What a state can still show; see LockView of MCAdvisoryLock.
EtlView ==
    <<rows, pc, dead, now, phase, pending, dataVars,
      [c \in Claims |->
         CASE pc[c] \in {"reaping", "claiming"} -> stamp[c] [] OTHER -> 0],
      [c \in Claims |-> IF Holding(c) THEN lease[c] ELSE 0],
      [c \in Claims |->
         IF phase[c] \in {"commit", "fold"} THEN <<from[c], upto[c]>>
         ELSE <<0, 0>>]>>
=============================================================================
