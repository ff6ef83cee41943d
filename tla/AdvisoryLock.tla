---------------------------- MODULE AdvisoryLock ----------------------------
(***************************************************************************)
(* The lock-row lease of packages/orm/src/core/advisory_lock.ts, for one   *)
(* lock name.  A claim is one call of tryAcquireAdvisoryLock together with *)
(* the handle it returns; a process that tries again is another claim.     *)
(*                                                                         *)
(* Every database statement is two steps.  The caller renders it, which is *)
(* when it samples its own clock (`new Date()`), and the statement lands   *)
(* some time later.  pc[c] names the statement of c in flight and stamp[c] *)
(* the instant it carries.  A caller may crash at any point; what it had   *)
(* in flight may still land.                                               *)
(***************************************************************************)
EXTENDS Integers

CONSTANTS
    Claims,     \* calls of tryAcquireAdvisoryLock
    Owners,     \* owner tokens
    OwnerOf,    \* the token each claim stamps (distinct when it is a UUID)
    Ttl,        \* options.ttlMs
    RenewTtls,  \* the ttls renew() is called with
    Skew,       \* how far each claim's clock is ahead of real time
    FoundRows,  \* an UPDATE counts the rows it found, not those it changed
    MaxTime     \* bound on real time

ASSUME LockAssumption ==
    /\ OwnerOf \in [Claims -> Owners]
    /\ Ttl \in Int
    /\ RenewTtls \subseteq Int
    /\ Skew \in [Claims -> Int]
    /\ FoundRows \in BOOLEAN
    /\ MaxTime \in Nat

VARIABLES
    rows,       \* the rows of sisal_advisory_locks with this name
    pc,         \* where each claim stands
    stamp,      \* the instant the statement in flight carries
    lease,      \* the expiry in force when the claim last learnt it holds
    dead,       \* the claims whose process crashed
    now         \* real time

lockVars == <<rows, pc, stamp, lease, dead, now>>

Rows == [owner : Owners, expires : Int]

InFlight == {"reaping", "claiming", "verifying", "renewing", "releasing"}

\* "raised" is a renew() that threw, "lost" one that returned false.
Pcs == InFlight \cup {"idle", "reaped", "held", "raised", "lost",
                      "refused", "failed", "done"}

Clock(c) == now + Skew[c]

\* leaseUntil: a negative ttl is an already lapsed lease, not an error.
LeaseUntil(c, ttl) == Clock(c) + (IF ttl > 0 THEN ttl ELSE 0)

\* Broken variant: the reap compares with a rounded-up cutoff.
ExpiredRoundedUp(r, cutoff) == r.expires <= cutoff + 1

\* Broken variant: nothing ever lapses.
NeverExpired(r, cutoff) == FALSE

Expired(r, cutoff) == r.expires <= cutoff

\* Broken variant: the statement names the lock and forgets the owner.
OwnedByName(r, c) == r.owner \in Owners

Owned(r, c) == r.owner = OwnerOf[c]

Alive(c) == c \notin dead

Goto(c, from, to) == pc[c] = from /\ pc' = [pc EXCEPT ![c] = to]

-----------------------------------------------------------------------------

LockInit ==
    /\ rows = {}
    /\ pc = [c \in Claims |-> "idle"]
    /\ stamp = [c \in Claims |-> 0]
    /\ lease = [c \in Claims |-> 0]
    /\ dead = {}
    /\ now = 0

\* The call begins: the table is ensured and the reap's cutoff is sampled.
Start(c) ==
    /\ Alive(c)
    /\ Goto(c, "idle", "reaping")
    /\ stamp' = [stamp EXCEPT ![c] = Clock(c)]
    /\ UNCHANGED <<rows, lease, dead, now>>

\* delete where name = key and expires_at <= cutoff
Reap(c) ==
    /\ Goto(c, "reaping", "reaped")
    /\ rows' = {r \in rows : ~Expired(r, stamp[c])}
    /\ UNCHANGED <<stamp, lease, dead, now>>

\* The insert is rendered: its lease is sampled now, not when it lands.
RenderClaim(c) ==
    /\ Alive(c)
    /\ Goto(c, "reaped", "claiming")
    /\ stamp' = [stamp EXCEPT ![c] = LeaseUntil(c, Ttl)]
    /\ UNCHANGED <<rows, lease, dead, now>>

\* Broken variant: the insert is not keyed by the lock's name.
ClaimAnyway(c) ==
    /\ Goto(c, "claiming", "verifying")
    /\ rows' = rows \cup {[owner |-> OwnerOf[c], expires |-> stamp[c]]}
    /\ UNCHANGED <<stamp, lease, dead, now>>

\* insert ... on conflict do nothing: the primary key arbitrates.
Claim(c) ==
    /\ Goto(c, "claiming", "verifying")
    /\ rows' = IF rows = {}
               THEN {[owner |-> OwnerOf[c], expires |-> stamp[c]]}
               ELSE rows
    /\ UNCHANGED <<stamp, lease, dead, now>>

\* Broken variant: a refused claim tidies up the name it failed to claim.
VerifyAndTidy(c) ==
    /\ Alive(c)
    /\ Goto(c, "verifying",
            IF \E r \in rows : Owned(r, c) THEN "held" ELSE "refused")
    /\ rows' = IF pc'[c] = "refused" THEN {} ELSE rows
    /\ UNCHANGED <<stamp, lease, dead, now>>

\* select owner ...: the claim is granted when the row carries its token.
Verify(c) ==
    /\ Alive(c)
    /\ \/ \E r \in rows :
             /\ Owned(r, c)
             /\ Goto(c, "verifying", "held")
             /\ lease' = [lease EXCEPT ![c] = r.expires]
       \/ /\ ~\E r \in rows : Owned(r, c)
          /\ Goto(c, "verifying", "refused")
          /\ UNCHANGED lease
    /\ UNCHANGED <<rows, stamp, dead, now>>

\* renew(ttl) on a handle that was not released.
RenderRenew(c) ==
    /\ Alive(c)
    /\ Goto(c, "held", "renewing")
    /\ \E ttl \in RenewTtls : stamp' = [stamp EXCEPT ![c] = LeaseUntil(c, ttl)]
    /\ UNCHANGED <<rows, lease, dead, now>>

\* Broken variant: a renew that rewrites the same expiry counts no row.
CountedChanged(r, c) == Owned(r, c) /\ r.expires # stamp[c]

\* Whether the driver counts row r for the renewal of c.
Counted(r, c) == Owned(r, c) /\ (FoundRows \/ r.expires # stamp[c])

\* update set expires_at where name = key and owner = owner; true iff a row
\* is counted.
Renew(c) ==
    /\ rows' = {IF Owned(r, c) THEN [owner |-> r.owner, expires |-> stamp[c]]
                ELSE r : r \in rows}
    /\ \/ /\ \E r \in rows : Counted(r, c)
          /\ Goto(c, "renewing", "held")
          /\ lease' = [lease EXCEPT ![c] = stamp[c]]
       \/ /\ ~\E r \in rows : Counted(r, c)
          /\ Goto(c, "renewing", "lost")
          /\ UNCHANGED lease
    /\ UNCHANGED <<stamp, dead, now>>

\* release(): `released` is set before the delete is sent, so it is sent once.
RenderRelease(c) ==
    /\ Alive(c)
    /\ \E at \in {"held", "lost", "raised"} : Goto(c, at, "releasing")
    /\ UNCHANGED <<rows, stamp, lease, dead, now>>

\* delete where name = key and owner = owner
Release(c) ==
    /\ Goto(c, "releasing", "done")
    /\ rows' = {r \in rows : ~Owned(r, c)}
    /\ UNCHANGED <<stamp, lease, dead, now>>

\* The statement in flight fails: tryAcquire or renew() throws, and a release
\* that threw is not sent again.
Fail(c) ==
    /\ Alive(c)
    /\ \/ \E at \in {"reaping", "claiming", "verifying"} : Goto(c, at, "failed")
       \/ Goto(c, "renewing", "raised")
       \/ Goto(c, "releasing", "done")
    /\ UNCHANGED <<rows, stamp, lease, dead, now>>

Crash(c) ==
    /\ Alive(c)
    /\ pc[c] \notin {"idle", "refused", "failed", "done"}
    /\ dead' = dead \cup {c}
    /\ UNCHANGED <<rows, pc, stamp, lease, now>>

Tick ==
    /\ now < MaxTime
    /\ now' = now + 1
    /\ UNCHANGED <<rows, pc, stamp, lease, dead>>

\* Every call has returned or died and its statements have landed.
Over(c) == \/ pc[c] \in {"refused", "failed", "done"}
           \/ c \in dead /\ pc[c] \notin InFlight \ {"verifying"}

Finished == (\A c \in Claims : Over(c)) /\ UNCHANGED lockVars

LockStep(c) ==
    \/ Start(c) \/ Reap(c) \/ RenderClaim(c) \/ Claim(c) \/ Verify(c)
    \/ RenderRenew(c) \/ Renew(c) \/ RenderRelease(c) \/ Release(c)
    \/ Fail(c) \/ Crash(c)

LockNext == (\E c \in Claims : LockStep(c)) \/ Tick \/ Finished

LockSpec == LockInit /\ [][LockNext]_lockVars

-----------------------------------------------------------------------------

\* The variables keep their types; a part of LockInv.
LockTypeOK ==
    /\ rows \subseteq Rows
    /\ pc \in [Claims -> Pcs]
    /\ stamp \in [Claims -> Int]
    /\ lease \in [Claims -> Int]
    /\ dead \subseteq Claims
    /\ now \in Nat

\* The claim was granted and not given up.  A crashed holder counts: what it
\* had in flight under the lock may still land.
Holding(c) == pc[c] \in {"held", "renewing"}

\* Some claimant's clock says an expiry has passed.
Lapsed(t) == \E d \in Claims : t <= Clock(d)

\* No other claim carries the token of c: what the default random UUID gives,
\* and a stable `owner` option gives up.
Sole(c) == \A d \in Claims : OwnerOf[d] = OwnerOf[c] => d = c

\* The cutoff of a reap in flight is in its claimant's past.
CutoffPast == \A c \in Claims : pc[c] = "reaping" => stamp[c] <= Clock(c)

\* The name is the primary key.
OneRow == \A r, s \in rows : r = s

\* A live lease is backed by the row that granted it.
LeaseBacked ==
    \A c \in Claims :
        Sole(c) /\ Holding(c) /\ ~Lapsed(lease[c])
        => \E r \in rows : Owned(r, c) /\ r.expires = lease[c]

\* What every step preserves, and mutual exclusion follows from: a reap only
\* knows the past, the name has one row, and a holder whose lease is live
\* still finds the row it was granted.
LockInv == LockTypeOK /\ CutoffPast /\ OneRow /\ LeaseBacked

\* Two claims with tokens of their own hold the lock together only if the
\* lease one of them counts on has lapsed on somebody's clock: "a live holder
\* is left untouched, so we never steal an active lock".
MutualExclusion ==
    \A c, d \in Claims :
        c # d /\ Sole(c) /\ Sole(d) /\ Holding(c) /\ Holding(d)
        => Lapsed(lease[c]) \/ Lapsed(lease[d])

\* Racing claimants cannot all be refused: as long as nothing failed or
\* crashed, a refusal means some other claim was granted or still may be.
NotAllRefused ==
    (\E c \in Claims : pc[c] = "refused")
    => \E c \in Claims : pc[c] \notin {"idle", "refused"}

\* renew() returns false only when the row is gone or is another owner's:
\* "Returns true while still held, false if the lease was already lost".
RenewTruthful ==
    \A c \in Claims :
        pc[c] = "lost" /\ Sole(c) => \A r \in rows : ~Owned(r, c)

\* A row whose lease no clock has seen lapse changes hands or disappears only
\* by a release sent with its own token.
LiveRowKept ==
    [][\A r \in rows :
          ~Lapsed(r.expires) /\ (\A s \in rows' : s.owner # r.owner)
          => \E c \in Claims : Owned(r, c) /\ pc[c] = "releasing"
                               /\ pc'[c] = "done"]_lockVars
=============================================================================
