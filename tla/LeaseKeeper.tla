---------------------------- MODULE LeaseKeeper ----------------------------
(***************************************************************************)
(* The engine's hold on the session's lease, with a clock: LeaseKeeper     *)
(* renews it every third of its ttl, several renews may be in flight, and  *)
(* a deadline a margin before the lease can lapse at the store makes the   *)
(* keeper stop claiming it.  The store grants one lease at a time, extends *)
(* a live one, and never revives a lapsed one.                             *)
(*                                                                         *)
(* One host process, handed leases one after the other.  Timers fire late, *)
(* calls fail at any moment, and a request whose caller gave up may still  *)
(* reach the store.                                                        *)
(***************************************************************************)
EXTENDS Integers, FiniteSets

CONSTANTS
  Ttl,         \* the lease's life
  Cadence,     \* a third of it
  Margin,      \* how long before its end the keeper gives it up
  Late,        \* bound: how late a timer fires
  MaxHandover, \* bound: from the store's grant to adopt()
  MaxDelay,    \* bound: from a renew's start to its end, retries included
  MaxMisses,   \* bound: renews that fail in a row
  MaxSkew,     \* how far the store's clock may be from the engine's
  MaxLeases,   \* bound: leases granted
  Horizon      \* bound: the clock

ASSUME LeaseAssumption ==
  /\ Ttl \in Nat \ {0} /\ Cadence \in 1..Ttl /\ Margin \in 1..Ttl
  /\ Late \in Nat /\ MaxHandover \in Nat /\ MaxDelay \in Nat /\ MaxMisses \in Nat
  /\ MaxSkew \in Nat
  /\ MaxLeases \in Nat /\ Horizon \in Nat

VARIABLES
  now,       \* the clock
  skew,      \* the store's clock minus the engine's
  lease,     \* the store: the lease granted last
  expiry,    \* when it lapses, or lapsed
  handed,    \* the lease on its way to the keeper, and since when
  state,     \* of the keeper
  held,      \* the lease of its last holding
  deadline,  \* when it gives it up
  nextRenew, \* when it renews next
  sent,      \* renews sent so far
  lastGood,  \* the newest one that was answered well
  calls,     \* renews under way, and those their caller gave up
  misses,    \* renews that failed since one was answered well
  endedAt    \* when the last holding ended

storeVars  == <<lease, expiry>>
keeperVars == <<state, held, deadline, nextRenew, sent, lastGood, endedAt>>
leaseVars == <<now, skew, storeVars, handed, keeperVars, calls, misses>>

Leases   == 1..MaxLeases
NoLease  == 0
NoHandover == [lease |-> NoLease, at |-> 0]

\* A renew: its number, its lease, when it was sent, and how far it is: on its
\* way, answered, refused, or given up by its caller.
Call == [n: Nat, lease: Leases, sent: Nat, st: {"out", "ok", "refused", "orphan"},
         expiresAt: Int]

Live(l) == lease = l /\ l # NoLease /\ now < expiry
Mine(c) == state = "held" /\ c.lease = held

\* Every variable has its type, and a renew still under way belongs to the current
\* holding: a loss, a release, a drop or an adopt abandons the others.
LeaseTypeOK ==
  /\ now \in 0..Horizon /\ skew \in -MaxSkew..MaxSkew
  /\ lease \in Leases \cup {NoLease} /\ expiry \in Nat
  /\ handed \in [lease: Leases \cup {NoLease}, at: Nat]
  /\ state \in {"none", "held", "lost", "released", "dropped"}
  /\ held \in Leases \cup {NoLease} /\ (state = "held" => held # NoLease)
  /\ deadline \in Int /\ nextRenew \in Nat
  /\ sent \in Nat /\ lastGood \in Nat
  /\ calls \subseteq Call
  /\ \A c \in calls : c.sent <= now /\ (c.st = "out" => Mine(c))
  /\ misses \in 0..MaxMisses /\ endedAt \in Nat

LeaseInit ==
  /\ now = 0 /\ skew \in -MaxSkew..MaxSkew
  /\ lease = NoLease /\ expiry = 0 /\ handed = NoHandover
  /\ state = "none" /\ held = NoLease /\ deadline = 0 /\ nextRenew = 0
  /\ sent = 0 /\ lastGood = 0 /\ calls = {} /\ misses = 0 /\ endedAt = 0

-----------------------------------------------------------------------------
(* The store.                                                              *)

\* A lease is granted when none is live, and starts its way to the engine.
Grant ==
  /\ ~Live(lease) /\ lease < MaxLeases /\ handed = NoHandover
  /\ lease' = lease + 1 /\ expiry' = now + Ttl
  /\ handed' = [lease |-> lease + 1, at |-> now]
  /\ UNCHANGED <<now, skew, keeperVars, calls, misses>>

\* A renew reaches the store: a live lease is extended, any other refused.  The
\* caller who gave up learns nothing.
StoreRenew(c) ==
  /\ c \in calls /\ c.st \in {"out", "orphan"}
  /\ expiry' = IF Live(c.lease) THEN now + Ttl ELSE expiry
  /\ calls' = (calls \ {c}) \cup
       (IF c.st = "orphan" THEN {}
        ELSE {IF Live(c.lease) THEN [c EXCEPT !.st = "ok", !.expiresAt = now + Ttl + skew]
              ELSE [c EXCEPT !.st = "refused"]})
  /\ UNCHANGED <<now, skew, lease, handed, keeperVars, misses>>

-----------------------------------------------------------------------------
(* The keeper.                                                             *)

\* Calls under way whose holding ended are aborted: their requests are orphans.
\* An answer already there is still read, and then found to be of another holding.
Ended(cs) ==
  {IF c.st = "out" THEN [c EXCEPT !.st = "orphan"] ELSE c : c \in cs}

\* renew(): one request, and the next on the cadence whether or not it answers.
Renew(l, cs) ==
  /\ sent' = sent + 1
  /\ nextRenew' = now + Cadence
  /\ calls' = cs \cup {[n |-> sent + 1, lease |-> l, sent |-> now, st |-> "out",
                        expiresAt |-> 0]}

\* adopt(): the holding before ends, the deadline starts now, and a renew goes
\* out at once.
Adopt ==
  /\ handed # NoHandover
  /\ state' = "held" /\ held' = handed.lease
  /\ lastGood' = sent
  /\ deadline' = now + Ttl - Margin
  /\ endedAt' = IF state = "held" THEN now ELSE endedAt
  /\ Renew(handed.lease, Ended(calls))
  /\ handed' = NoHandover
  /\ misses' = 0
  /\ UNCHANGED <<now, skew, storeVars>>

\* Mutant: the end of a holding does not cancel the timer.
RenewTimerAlways ==
  /\ held # NoLease /\ now >= nextRenew
  /\ Renew(held, calls)
  /\ UNCHANGED <<now, skew, storeVars, handed, state, held, deadline, lastGood, endedAt, misses>>

\* The cadence timer.
RenewTimer ==
  /\ state = "held" /\ now >= nextRenew
  /\ Renew(held, calls)
  /\ UNCHANGED <<now, skew, storeVars, handed, state, held, deadline, lastGood, endedAt, misses>>

\* lose(), drop() and release() end the holding.
EndHolding(to) ==
  /\ state = "held"
  /\ state' = to
  /\ calls' = Ended(calls)
  /\ endedAt' = now
  /\ UNCHANGED <<held, deadline, nextRenew, sent, lastGood>>

\* The deadline timer.
DeadlineTimer ==
  /\ now >= deadline
  /\ EndHolding("lost")
  /\ UNCHANGED <<now, skew, storeVars, handed, misses>>

\* drop(): nothing is given back.
Drop ==
  /\ EndHolding("dropped")
  /\ UNCHANGED <<now, skew, storeVars, handed, misses>>

\* release(): the lease is given back, unless that call fails.
Release ==
  /\ EndHolding("released")
  /\ (Live(held) /\ expiry' = now) \/ UNCHANGED expiry
  /\ UNCHANGED <<now, skew, lease, handed, misses>>

\* Mutant: any good answer moves the deadline.
NewsAny(c) == Mine(c)

\* An answer counts for the current holding only, and only when it is newer than
\* the last good one.
News(c) == Mine(c) /\ c.n > lastGood

\* Mutant: the ttl runs from when the answer is read.
NewDeadlineLate(c) == now + Ttl - Margin

\* The ttl runs from when the renew was sent, or to the store's expires_at when
\* that is earlier.
NewDeadline(c) ==
  (IF c.expiresAt >= c.sent + Ttl THEN c.sent + Ttl ELSE c.expiresAt) - Margin

\* A good answer is read.
ReadGood(c) ==
  /\ c \in calls /\ c.st = "ok"
  /\ IF News(c) THEN lastGood' = c.n /\ deadline' = NewDeadline(c)
     ELSE UNCHANGED <<lastGood, deadline>>
  /\ misses' = IF Mine(c) THEN 0 ELSE misses
  /\ calls' = calls \ {c}
  /\ UNCHANGED <<now, skew, storeVars, handed, state, held, nextRenew, sent, endedAt>>

\* A refusal (lease_lost) of the current holding's renew loses it.
ReadRefused(c) ==
  /\ c \in calls /\ c.st = "refused"
  /\ IF Mine(c)
     THEN state' = "lost" /\ endedAt' = now /\ calls' = Ended(calls \ {c})
     ELSE UNCHANGED <<state, endedAt>> /\ calls' = calls \ {c}
  /\ UNCHANGED <<now, skew, storeVars, handed, held, deadline, nextRenew, sent, lastGood, misses>>

\* A call fails: unreachable, timed out, or its answer lost.  It is logged, and
\* its request may still be under way.
RenewFails(c) ==
  /\ c \in calls /\ c.st \in {"out", "ok", "refused"}
  /\ Mine(c) => misses < MaxMisses
  /\ misses' = IF Mine(c) THEN misses + 1 ELSE misses
  /\ calls' = (calls \ {c}) \cup (IF c.st = "out" THEN {[c EXCEPT !.st = "orphan"]} ELSE {})
  /\ UNCHANGED <<now, skew, storeVars, handed, keeperVars>>

\* An orphan is lost on its way.
Vanish(c) ==
  /\ c \in calls /\ c.st = "orphan"
  /\ calls' = calls \ {c}
  /\ UNCHANGED <<now, skew, storeVars, handed, keeperVars, misses>>

-----------------------------------------------------------------------------
\* Time passes while no timer is due for longer than Late, no call is older than
\* MaxDelay and no grant waits longer than MaxHandover.  (A deadline already past when
\* it is armed fires before time runs on.)
Tick ==
  /\ now < Horizon
  /\ state = "held" => now < deadline + Late /\ now < nextRenew + Late
  /\ \A c \in calls : now < c.sent + MaxDelay
  /\ handed # NoHandover => now < handed.at + MaxHandover
  /\ now' = now + 1
  /\ UNCHANGED <<skew, storeVars, handed, keeperVars, calls, misses>>

LeaseNext ==
  \/ Grant \/ Adopt \/ RenewTimer \/ DeadlineTimer \/ Drop \/ Release
  \/ \E c \in calls : StoreRenew(c) \/ ReadGood(c) \/ ReadRefused(c) \/ RenewFails(c) \/ Vanish(c)
  \/ Tick

LeaseSpec == LeaseInit /\ [][LeaseNext]_leaseVars

-----------------------------------------------------------------------------
(* Properties.                                                             *)

\* While the keeper claims its lease, the store would not grant the session to
\* anyone else.
HeldIsLive == state = "held" => Live(held)

\* Answers that overtake each other never bring the deadline back, unless the
\* store's clock is behind.
DeadlineNeverBack ==
  [][state = "held" /\ state' = "held" /\ held' = held /\ skew >= 0
       => deadline' >= deadline]_leaseVars

\* A holding that ended is not kept alive: its lease lapses within its ttl of the
\* last request that was under way.
EndedLapses == Live(held) /\ state \in {"lost", "dropped", "released"}
                 => expiry <= endedAt + MaxDelay + Ttl
=============================================================================
