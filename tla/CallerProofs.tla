---------------------------- MODULE CallerProofs -----------------------------
(***************************************************************************)
(* The engine as a caller of services that fail it: LeaseKeeper, which     *)
(* renews a lease at the session store, and GatewayClient, which streams a *)
(* model's answer from the gateway.                                        *)
(***************************************************************************)
EXTENDS LeaseKeeper, GatewayClient, TLAPS

-----------------------------------------------------------------------------
(* LeaseKeeper.                                                            *)
(*                                                                         *)
(* While the keeper claims its lease the store would grant it to no one    *)
(* else, for every ttl, cadence, clock skew and number of failed renews,   *)
(* as long as the hand-over and the lateness of timers fit in the margin.  *)
(*                                                                         *)
(* The invariant relates the keeper's deadline to the store's expiry: a    *)
(* held lease lapses no sooner than Margin after the deadline, less the    *)
(* time the grant took to arrive, because every good answer is to a renew  *)
(* the store took after it was sent.                                       *)
(*                                                                         *)
(* A second invariant, which needs no margin, bounds ages: of a request,   *)
(* of the expiry and of the deadline.  From it follow that an ended        *)
(* holding lapses, and that answers which overtake each other do not bring *)
(* the deadline back.                                                      *)

\* A grant on its way is of the store's newest lease, and is not older than the
\* hand-over takes.
OnItsWay ==
  handed # NoHandover =>
    /\ state # "held" /\ lease = handed.lease /\ handed.lease # NoLease
    /\ handed.at + Ttl <= expiry /\ now <= handed.at + MaxHandover

\* The store keeps a held lease past the keeper's deadline.
Covered ==
  state = "held" =>
    /\ Live(held)
    /\ deadline + Margin <= expiry + MaxHandover

\* What a good answer promises, the store keeps.
AnswerKept ==
  /\ expiry <= now + Ttl
  /\ \A c \in calls : c.st = "ok" /\ Mine(c) => c.sent + Ttl <= expiry

\* Leases are handed over in the order of their grants.
InOrder ==
  /\ held <= lease /\ \A c \in calls : c.lease <= held
  /\ handed # NoHandover => held < handed.lease

LeaseInv == LeaseTypeOK /\ InOrder /\ OnItsWay /\ Covered /\ AnswerKept

\* The margin covers the time a grant takes to arrive and the lateness of a timer.
MarginCovers == MaxHandover + Late < Margin

LEMMA LeaseInitHolds == LeaseInit => LeaseInv
<1> SUFFICES ASSUME LeaseInit PROVE LeaseInv
  OBVIOUS
<1> QED
  BY LeaseAssumption DEF LeaseInit, LeaseInv, LeaseTypeOK, InOrder, OnItsWay, Covered, AnswerKept, NoLease,
     NoHandover, Leases

\* Calls under way of an ended holding become orphans, and nothing else changes.
LEMMA EndedCalls ==
  ASSUME NEW cs \in SUBSET Call
  PROVE  /\ Ended(cs) \in SUBSET Call
         /\ \A c \in Ended(cs) : c.st # "out"
         /\ \A c \in Ended(cs) : \E d \in cs : c.sent = d.sent /\ c.lease = d.lease
                                   /\ (c.st # "orphan" => c = d)
  BY DEF Ended, Call

LEMMA StepHolds ==
  ASSUME MarginCovers, LeaseInv, [LeaseNext]_leaseVars
  PROVE  LeaseInv'
<1> USE LeaseAssumption DEF MarginCovers, LeaseInv, LeaseTypeOK, InOrder, OnItsWay, Covered, AnswerKept,
        Live, Mine, NoLease, NoHandover, Leases, storeVars, keeperVars
<1>1. CASE Grant
  BY <1>1 DEF Grant
<1>2. CASE Adopt
  <2>1. Ended(calls) \in SUBSET Call /\ \A c \in Ended(calls) : c.st # "out"
    BY EndedCalls
  <2>2. \A c \in Ended(calls) : c.sent <= now
    BY EndedCalls
  <2> DEFINE new == [n |-> sent + 1, lease |-> handed.lease, sent |-> now, st |-> "out",
                     expiresAt |-> 0]
  <2>3. calls' = Ended(calls) \cup {new}
    BY <1>2 DEF Adopt, Renew
  <2>4. new \in Call
    BY <1>2 DEF Adopt, Call
  <2>5. LeaseTypeOK'
    BY <1>2, <2>1, <2>2, <2>3, <2>4 DEF Adopt, Renew
  <2>8. InOrder'
    BY <1>2, <2>1, <2>3, EndedCalls DEF Adopt, Renew, Call
  <2>6. OnItsWay' /\ Covered'
    BY <1>2 DEF Adopt, Renew
  <2>7. AnswerKept'
    <3>1. \A c \in Ended(calls) : c.lease # handed.lease
      BY <1>2, EndedCalls DEF Adopt, Call
    <3> QED
      BY <1>2, <2>1, <2>3, <3>1 DEF Adopt, Renew
  <2> QED
    BY <2>5, <2>6, <2>7, <2>8
<1>3. CASE RenewTimer
  BY <1>3 DEF RenewTimer, Renew, Call
<1>4. ASSUME NEW to \in {"lost", "released", "dropped"}, EndHolding(to)
      PROVE  /\ calls' \in SUBSET Call /\ state' = to /\ endedAt' = now
             /\ \A c \in calls' : c.sent <= now /\ c.st # "out" /\ c.lease <= held
  BY <1>4, EndedCalls DEF EndHolding
<1>5. CASE DeadlineTimer
  BY <1>4, <1>5 DEF DeadlineTimer, EndHolding
<1>6. CASE Drop
  BY <1>4, <1>6 DEF Drop, EndHolding
<1>7. CASE Release
  BY <1>4, <1>7 DEF Release, EndHolding
<1>8. ASSUME NEW c \in calls, StoreRenew(c)
      PROVE  LeaseInv'
  <2>5. now + Ttl + skew \in Int
    OBVIOUS
  <2>6. InOrder'
    BY <1>8 DEF StoreRenew, Call
  <2>1. calls' \in SUBSET Call /\ \A d \in calls' : d.sent <= now /\ (d.st = "out" => Mine(d))
    BY <1>8, <2>5 DEF StoreRenew, Call
  <2>2. expiry' \in Nat /\ expiry <= expiry' /\ expiry' <= now + Ttl
    BY <1>8 DEF StoreRenew
  <2>3. LeaseTypeOK' /\ OnItsWay' /\ Covered'
    BY <1>8, <2>1, <2>2 DEF StoreRenew
  <2>4. AnswerKept'
    <3> SUFFICES ASSUME NEW d \in calls', d.st = "ok", Mine(d)'
                 PROVE  d.sent + Ttl <= expiry'
      BY <1>8, <2>2 DEF StoreRenew
    <3>1. CASE d \in calls
      BY <1>8, <2>2, <3>1 DEF StoreRenew, Call
    <3>2. CASE d \notin calls
      <4>1. d.sent = c.sent /\ expiry' = now + Ttl
        BY <1>8, <3>2 DEF StoreRenew, Call
      <4> QED
        BY <1>8, <4>1 DEF Call
    <3> QED
      BY <3>1, <3>2
  <2> QED
    BY <2>3, <2>4, <2>6
<1>9. ASSUME NEW c \in calls, ReadGood(c)
      PROVE  LeaseInv'
  BY <1>9 DEF ReadGood, News, NewDeadline, Call
<1>10. ASSUME NEW c \in calls, ReadRefused(c)
       PROVE  LeaseInv'
  <2>1. /\ Ended(calls \ {c}) \in SUBSET Call
        /\ \A d \in Ended(calls \ {c}) : d.sent <= now /\ d.st # "out" /\ d.lease <= held
    BY EndedCalls, calls \ {c} \in SUBSET Call
  <2>2. CASE Mine(c)
    <3>1. state' = "lost" /\ calls' = Ended(calls \ {c}) /\ endedAt' = now
      BY <1>10, <2>2 DEF ReadRefused
    <3>2. UNCHANGED <<now, skew, lease, expiry, handed, held, deadline, nextRenew, sent,
                      lastGood, misses>>
      BY <1>10 DEF ReadRefused
    <3>6. calls' \in SUBSET Call /\ \A d \in calls' : d.sent <= now' /\ d.st # "out"
      BY <2>1, <3>1, <3>2
    <3>7. endedAt' \in Nat /\ state' = "lost"
      BY <3>1
    <3>3. LeaseTypeOK'
      BY <3>2, <3>6, <3>7
    <3>4. InOrder' /\ Covered' /\ AnswerKept'
      BY <2>1, <3>1, <3>2
    <3>5. OnItsWay'
      BY <3>1, <3>2
    <3> QED
      BY <3>3, <3>4, <3>5
  <2>3. CASE ~Mine(c)
    BY <1>10, <2>3 DEF ReadRefused
  <2> QED
    BY <2>2, <2>3
<1>11. ASSUME NEW c \in calls, RenewFails(c)
       PROVE  LeaseInv'
  BY <1>11 DEF RenewFails, Call
<1>12. ASSUME NEW c \in calls, Vanish(c)
       PROVE  LeaseInv'
  BY <1>12 DEF Vanish
<1>13. CASE Tick
  <2>6. \A c \in calls : c.sent <= now + 1
    BY DEF Call
  <2>1. LeaseTypeOK'
    BY <1>13, <2>6 DEF Tick
  <2>2. OnItsWay'
    <3>1. handed.at \in Nat /\ now \in Nat
      OBVIOUS
    <3>2. CASE handed = NoHandover
      BY <1>13, <3>2 DEF Tick
    <3>3. CASE handed # NoHandover
      <4>1. now < handed.at + MaxHandover /\ now' = now + 1 /\ handed' = handed
        BY <1>13, <3>3 DEF Tick
      <4>2. now' <= handed'.at + MaxHandover
        BY <3>1, <4>1
      <4> QED
        BY <1>13, <3>3, <4>1, <4>2 DEF Tick
    <3> QED
      BY <3>2, <3>3
  <2>5. InOrder'
    BY <1>13 DEF Tick
  <2>3. Covered'
    BY <1>13 DEF Tick
  <2>4. AnswerKept'
    BY <1>13 DEF Tick
  <2> QED
    BY <2>1, <2>2, <2>3, <2>4, <2>5
<1>14. CASE UNCHANGED leaseVars
  BY <1>14 DEF leaseVars
<1> QED
  BY <1>1, <1>2, <1>3, <1>5, <1>6, <1>7, <1>8, <1>9, <1>10, <1>11, <1>12, <1>13, <1>14
     DEF LeaseNext

\* While the keeper claims its lease, the store grants the session to no one else:
\* adopt(), renewOnce() and the deadline timer against the store's lease routes.
THEOREM HeldStaysLive ==
  ASSUME MarginCovers
  PROVE  LeaseSpec => []HeldIsLive
<1>1. LeaseInit => LeaseInv
  BY LeaseInitHolds
<1>2. LeaseInv /\ [LeaseNext]_leaseVars => LeaseInv'
  BY StepHolds
<1>3. LeaseInv => HeldIsLive
  BY DEF LeaseInv, Covered, HeldIsLive
<1> QED
  BY <1>1, <1>2, <1>3, PTL DEF LeaseSpec
-----------------------------------------------------------------------------
(* What the margin is not needed for: how old a deadline, a request and an  *)
(* expiry can be.                                                           *)

HasEnded == state \in {"lost", "dropped", "released"}

\* The grant on its way is the newest; renews are numbered in the order they were
\* sent, and none is under way for longer than a call may take.
Numbered ==
  /\ handed # NoHandover => handed.lease = lease
  /\ lastGood <= sent
  /\ \A c \in calls : c.n <= sent /\ now <= c.sent + MaxDelay
  /\ \A c, d \in calls : c.n < d.n => c.sent <= d.sent

\* An expiry is within a ttl of now, and so is a deadline with its margin; a renew
\* whose answer would move the deadline was sent no earlier than a ttl before it.
WithinTtl ==
  /\ expiry <= now + Ttl
  /\ state = "held" =>
       /\ deadline + Margin <= now + Ttl
       /\ \A c \in calls : Mine(c) /\ c.n > lastGood => deadline + Margin <= c.sent + Ttl

\* A store whose clock is not behind promises at least the ttl.
FullTtl == skew >= 0 => \A c \in calls : c.st = "ok" => c.expiresAt >= c.sent + Ttl

\* After a holding ended no request of it is newer than its end.
NoneAfterEnd == HasEnded => (\A c \in calls : c.sent <= endedAt) /\ EndedLapses

AgeInv == LeaseTypeOK /\ InOrder /\ Numbered /\ WithinTtl /\ FullTtl /\ NoneAfterEnd

LEMMA AgeInit == LeaseInit => AgeInv
<1> SUFFICES ASSUME LeaseInit PROVE AgeInv
  OBVIOUS
<1> QED
  BY LeaseAssumption DEF LeaseInit, AgeInv, LeaseTypeOK, InOrder, Numbered, WithinTtl, FullTtl, NoneAfterEnd,
     HasEnded, NoLease, NoHandover, Leases

\* The keeper's steps that end a holding at this moment, whatever they end it with:
\* the calls left are older than the end, and the expiry within a ttl of it.
LEMMA AgeEnded ==
  ASSUME AgeInv, NEW cs \in SUBSET calls,
         calls' = Ended(cs), state' \in {"lost", "released", "dropped"}, endedAt' = now,
         expiry' \in Nat, expiry' <= expiry, misses' = misses, state = "held",
         UNCHANGED <<now, skew, lease, handed, held, deadline, nextRenew, sent, lastGood>>
  PROVE  AgeInv'
<1> USE LeaseAssumption DEF AgeInv
<1>1. cs \in SUBSET Call
  BY DEF LeaseTypeOK
<1>2. /\ calls' \in SUBSET Call
      /\ \A c \in calls' : c.st # "out" /\ \E d \in calls : c.n = d.n /\ c.sent = d.sent
           /\ c.lease = d.lease /\ (c.st # "orphan" => c = d)
  BY <1>1 DEF Ended, Call
<1>3. \A c \in calls' : c.sent <= now /\ c.n <= sent /\ now <= c.sent + MaxDelay /\ c.lease <= held
  BY <1>2 DEF LeaseTypeOK, Numbered, InOrder
<1>4. now \in Nat
  BY DEF LeaseTypeOK
<1>5. LeaseTypeOK'
  BY <1>2, <1>3, <1>4 DEF LeaseTypeOK
<1>6. InOrder'
  BY <1>3 DEF InOrder
<1>7. Numbered'
  <2>1. \A c, d \in calls' : c.n < d.n => c.sent <= d.sent
    BY <1>2 DEF Numbered
  <2> QED
    BY <1>3, <2>1 DEF Numbered
<1>8. WithinTtl'
  BY <1>4 DEF WithinTtl, LeaseTypeOK
<1>9. FullTtl'
  BY <1>2 DEF FullTtl
<1>10. NoneAfterEnd'
  <2>1. \A c \in calls' : c.sent <= endedAt'
    BY <1>3
  <2>2. expiry' <= endedAt' + MaxDelay + Ttl
    BY <1>4 DEF WithinTtl, LeaseTypeOK
  <2> QED
    BY <2>1, <2>2 DEF NoneAfterEnd, EndedLapses
<1> QED
  BY <1>5, <1>6, <1>7, <1>8, <1>9, <1>10

\* A request goes out now: it has the next number and is the newest.
LEMMA AgeRenewed ==
  ASSUME AgeInv, NEW l \in Leases, NEW cs \in SUBSET Call, Renew(l, cs),
         \A c \in cs : c.st # "orphan" => c \in calls,
         \A c \in cs : \E d \in calls : c.n = d.n /\ c.sent = d.sent /\ c.lease = d.lease
  PROVE  /\ calls' \in SUBSET Call /\ sent' \in Nat /\ nextRenew' \in Nat /\ lastGood <= sent'
         /\ \A c \in calls' : c.sent <= now /\ c.n <= sent' /\ now <= c.sent + MaxDelay
         /\ \A c, d \in calls' : c.n < d.n => c.sent <= d.sent
         /\ skew >= 0 => \A c \in calls' : c.st = "ok" => c.expiresAt >= c.sent + Ttl
<1> USE LeaseAssumption DEF AgeInv
<1> DEFINE new == [n |-> sent + 1, lease |-> l, sent |-> now, st |-> "out", expiresAt |-> 0]
<1>1. calls' = cs \cup {new} /\ sent' = sent + 1 /\ nextRenew' = now + Cadence
  BY DEF Renew
<1>2. now \in Nat /\ sent \in Nat /\ lastGood \in Nat /\ lastGood <= sent
  BY DEF LeaseTypeOK, Numbered
<1>3. new \in Call
  BY <1>2 DEF Call
<1>4. \A c \in cs : c.sent <= now /\ c.n <= sent /\ now <= c.sent + MaxDelay /\ c.n \in Nat
  BY DEF LeaseTypeOK, Numbered, Call
<1>5. \A c, d \in cs : c.n < d.n => c.sent <= d.sent
  BY DEF Numbered
<1>6. \A c, d \in calls' : c.n < d.n => c.sent <= d.sent
  <2> SUFFICES ASSUME NEW c \in calls', NEW d \in calls', c.n < d.n PROVE c.sent <= d.sent
    OBVIOUS
  <2>1. c # new
    <3>1. d.n <= sent + 1 /\ d.n \in Nat
      BY <1>1, <1>2, <1>4
    <3> QED
      BY <1>2, <3>1
  <2> QED
    BY <1>1, <1>2, <1>4, <1>5, <2>1
<1>7. \A c \in calls' : c.sent <= now /\ c.n <= sent' /\ now <= c.sent + MaxDelay
  BY <1>1, <1>2, <1>4
<1>8. skew >= 0 => \A c \in calls' : c.st = "ok" => c.expiresAt >= c.sent + Ttl
  BY <1>1 DEF FullTtl
<1> QED
  BY <1>1, <1>2, <1>3, <1>6, <1>7, <1>8

LEMMA AgeStep ==
  ASSUME AgeInv, [LeaseNext]_leaseVars
  PROVE  AgeInv'
<1> USE LeaseAssumption DEF AgeInv
<1>a. /\ now \in Nat /\ expiry \in Nat /\ deadline \in Int /\ sent \in Nat /\ lastGood \in Nat
      /\ endedAt \in Nat /\ calls \subseteq Call /\ skew \in Int
  BY DEF LeaseTypeOK
<1>1. CASE Grant
  <2>1. lease' = lease + 1 /\ expiry' = now + Ttl /\ handed' = [lease |-> lease + 1, at |-> now]
    BY <1>1 DEF Grant
  <2>2. lease + 1 \in Leases /\ lease + 1 # held /\ held <= lease /\ lease \in Nat /\ held \in Nat
    BY <1>1 DEF Grant, LeaseTypeOK, InOrder, Leases, NoLease
  <2>3. UNCHANGED <<now, skew, keeperVars, calls, misses>>
    BY <1>1 DEF Grant
  <2>4. LeaseTypeOK'
    BY <1>a, <2>1, <2>2, <2>3 DEF LeaseTypeOK, keeperVars, Mine
  <2>5. InOrder'
    BY <2>1, <2>2, <2>3 DEF InOrder, keeperVars
  <2>6. Numbered' /\ FullTtl'
    BY <2>1, <2>3 DEF Numbered, FullTtl, keeperVars
  <2>7. WithinTtl'
    BY <1>a, <2>1, <2>3 DEF WithinTtl, keeperVars, Mine
  <2>8. NoneAfterEnd'
    BY <2>1, <2>2, <2>3 DEF NoneAfterEnd, HasEnded, EndedLapses, Live, keeperVars
  <2> QED
    BY <2>4, <2>5, <2>6, <2>7, <2>8
<1>2. CASE Adopt
  <2>1. /\ state' = "held" /\ held' = handed.lease /\ lastGood' = sent
        /\ deadline' = now + Ttl - Margin /\ handed' = NoHandover /\ misses' = 0
        /\ endedAt' \in Nat /\ Renew(handed.lease, Ended(calls))
        /\ UNCHANGED <<now, skew, lease, expiry>>
    BY <1>2, <1>a DEF Adopt, storeVars
  <2>2. handed.lease \in Leases /\ handed.lease = lease /\ held < handed.lease
    BY <1>2 DEF Adopt, LeaseTypeOK, Numbered, InOrder, NoHandover, NoLease, Leases
  <2>3. /\ Ended(calls) \in SUBSET Call
        /\ \A c \in Ended(calls) : c.st # "out" /\ (c.st # "orphan" => c \in calls)
        /\ \A c \in Ended(calls) : \E d \in calls : c.n = d.n /\ c.sent = d.sent /\ c.lease = d.lease
    BY <1>a DEF Ended, Call
  <2>4. /\ calls' \in SUBSET Call /\ sent' \in Nat /\ nextRenew' \in Nat
        /\ \A c \in calls' : c.sent <= now /\ c.n <= sent' /\ now <= c.sent + MaxDelay
        /\ \A c, d \in calls' : c.n < d.n => c.sent <= d.sent
        /\ skew >= 0 => \A c \in calls' : c.st = "ok" => c.expiresAt >= c.sent + Ttl
    BY <2>1, <2>2, <2>3, AgeRenewed
  <2>5. sent' = sent + 1
    BY <2>1 DEF Renew
  <2>6. \A c \in calls' : (c.lease = handed.lease /\ c.sent = now) \/ c \in Ended(calls)
    BY <2>1 DEF Renew
  <2>7. \A c \in Ended(calls) : c.lease <= held /\ c.lease \in Nat
    BY <2>3 DEF InOrder, Call, Leases
  <2>8. LeaseTypeOK'
    <3>1. \A c \in calls' : c.st = "out" => Mine(c)'
      BY <2>1, <2>3, <2>6 DEF Mine
    <3>2. handed.lease # NoLease
      BY <2>2 DEF Leases, NoLease
    <3> QED
      BY <1>a, <2>1, <2>2, <2>4, <3>1, <3>2 DEF LeaseTypeOK, NoHandover, NoLease
  <2>9. InOrder'
    BY <2>1, <2>2, <2>6, <2>7 DEF InOrder, NoHandover, LeaseTypeOK, Leases, NoLease
  <2>10. Numbered'
    BY <1>a, <2>1, <2>4, <2>5 DEF Numbered
  <2>11. WithinTtl'
    <3>1. \A c \in calls' : c.lease = handed.lease => c.sent = now
      BY <2>2, <2>6, <2>7 DEF LeaseTypeOK, Leases, NoLease
    <3> QED
      BY <1>a, <2>1, <3>1 DEF WithinTtl, Mine
  <2>12. FullTtl' /\ NoneAfterEnd'
    BY <2>1, <2>4 DEF FullTtl, NoneAfterEnd, HasEnded
  <2> QED
    BY <2>8, <2>9, <2>10, <2>11, <2>12
<1>3. CASE RenewTimer
  <2>1. /\ state = "held" /\ held \in Leases /\ Renew(held, calls)
        /\ UNCHANGED <<now, skew, lease, expiry, handed, state, held, deadline, lastGood, endedAt,
                       misses>>
    BY <1>3 DEF RenewTimer, LeaseTypeOK, storeVars
  <2>2. /\ calls' \in SUBSET Call /\ sent' \in Nat /\ nextRenew' \in Nat /\ lastGood <= sent'
        /\ \A c \in calls' : c.sent <= now /\ c.n <= sent' /\ now <= c.sent + MaxDelay
        /\ \A c, d \in calls' : c.n < d.n => c.sent <= d.sent
        /\ skew >= 0 => \A c \in calls' : c.st = "ok" => c.expiresAt >= c.sent + Ttl
    BY <1>a, <2>1, AgeRenewed
  <2>3. \A c \in calls' : c \in calls \/ (c.lease = held /\ c.sent = now)
    BY <2>1 DEF Renew
  <2>4. LeaseTypeOK'
    BY <1>a, <2>1, <2>2, <2>3 DEF LeaseTypeOK, Mine
  <2>5. InOrder' /\ Numbered' /\ FullTtl'
    BY <2>1, <2>2, <2>3 DEF InOrder, Numbered, FullTtl, Leases
  <2>6. WithinTtl' /\ NoneAfterEnd'
    BY <2>1, <2>3 DEF WithinTtl, NoneAfterEnd, HasEnded, Mine
  <2> QED
    BY <2>4, <2>5, <2>6
<1>4. CASE DeadlineTimer
  BY <1>4, <1>a, AgeEnded DEF DeadlineTimer, EndHolding, storeVars
<1>5. CASE Drop
  BY <1>5, <1>a, AgeEnded DEF Drop, EndHolding, storeVars
<1>6. CASE Release
  <2>1. expiry' \in Nat /\ expiry' <= expiry
    BY <1>6, <1>a DEF Release, Live
  <2> QED
    BY <1>6, <2>1, AgeEnded DEF Release, EndHolding
<1>7. ASSUME NEW c \in calls, StoreRenew(c)
      PROVE  AgeInv'
  <2>1. /\ c \in Call /\ c.st \in {"out", "orphan"}
        /\ UNCHANGED <<now, skew, lease, handed, state, held, deadline, nextRenew, sent, lastGood,
                       endedAt, misses>>
    BY <1>7, <1>a DEF StoreRenew, keeperVars
  <2>2. expiry' \in Nat /\ expiry' <= now + Ttl
    BY <1>7, <1>a DEF StoreRenew, WithinTtl
  <2>8. now + Ttl + skew \in Int
    BY <1>a
  <2>3. calls' \in SUBSET Call
    BY <1>7, <1>a, <2>1, <2>8 DEF StoreRenew, Call
  <2>4. \A d \in calls' : d \in calls \/ (d.n = c.n /\ d.lease = c.lease /\ d.sent = c.sent
                            /\ c.st = "out" /\ d.st # "out"
                            /\ (d.st = "ok" => d.expiresAt = now + Ttl + skew))
    BY <1>7, <2>1 DEF StoreRenew, Call
  <2>5. LeaseTypeOK'
    BY <1>a, <2>1, <2>2, <2>3, <2>4 DEF LeaseTypeOK, Mine
  <2>6. InOrder' /\ Numbered'
    BY <2>1, <2>4 DEF InOrder, Numbered
  <2>7. WithinTtl'
    BY <2>1, <2>2, <2>4 DEF WithinTtl, Mine
  <2>9. FullTtl'
    <3> SUFFICES ASSUME skew >= 0, NEW d \in calls', d.st = "ok" PROVE d.expiresAt >= d.sent + Ttl
      BY <2>1 DEF FullTtl
    <3>1. CASE d \in calls
      BY <3>1 DEF FullTtl
    <3>2. CASE d \notin calls
      <4>1. d.expiresAt = now + Ttl + skew /\ d.sent = c.sent /\ c.sent <= now /\ c.sent \in Nat
        BY <2>1, <2>4, <3>2 DEF LeaseTypeOK, Call
      <4> QED
        BY <1>a, <4>1
    <3> QED
      BY <3>1, <3>2
  <2>10. NoneAfterEnd'
    <3> SUFFICES ASSUME HasEnded
                 PROVE  (\A d \in calls' : d.sent <= endedAt) /\ EndedLapses'
      BY <2>1 DEF NoneAfterEnd, HasEnded
    <3>1. \A d \in calls' : d.sent <= endedAt
      BY <2>4 DEF NoneAfterEnd
    <3>2. c.sent <= endedAt /\ now <= c.sent + MaxDelay /\ c.sent \in Nat
      BY <2>1 DEF NoneAfterEnd, Numbered, Call
    <3>3. now + Ttl <= endedAt + MaxDelay + Ttl
      BY <1>a, <3>2
    <3>4. expiry' = now + Ttl \/ expiry' = expiry
      BY <1>7 DEF StoreRenew
    <3>5. EndedLapses'
      BY <2>1, <3>3, <3>4 DEF NoneAfterEnd, EndedLapses, Live
    <3> QED
      BY <3>1, <3>5
  <2> QED
    BY <2>5, <2>6, <2>7, <2>9, <2>10
<1>8. ASSUME NEW c \in calls, ReadGood(c)
      PROVE  AgeInv'
  <2>1. /\ c \in Call /\ c.st = "ok" /\ calls' = calls \ {c} /\ misses' \in {0, misses}
        /\ UNCHANGED <<now, skew, lease, expiry, handed, state, held, nextRenew, sent, endedAt>>
    BY <1>8, <1>a DEF ReadGood, storeVars
  <2>2. \/ UNCHANGED <<lastGood, deadline>>
        \/ News(c) /\ lastGood' = c.n /\ deadline' = NewDeadline(c)
    BY <1>8 DEF ReadGood
  <2>3. NewDeadline(c) \in Int /\ NewDeadline(c) + Margin <= c.sent + Ttl
    BY <2>1 DEF NewDeadline, Call
  <2>4. lastGood' \in Nat /\ deadline' \in Int /\ lastGood' <= sent
    BY <1>a, <2>1, <2>2, <2>3 DEF Call, Numbered
  <2>5. LeaseTypeOK'
    BY <1>a, <2>1, <2>4 DEF LeaseTypeOK, Mine
  <2>6. InOrder' /\ Numbered' /\ FullTtl'
    BY <2>1, <2>4 DEF InOrder, Numbered, FullTtl
  <2>7. WithinTtl'
    <3>1. CASE UNCHANGED <<lastGood, deadline>>
      BY <2>1, <3>1 DEF WithinTtl, Mine
    <3>2. CASE News(c) /\ lastGood' = c.n /\ deadline' = NewDeadline(c)
      <4>1. c.sent <= now /\ c.sent \in Nat
        BY <2>1 DEF LeaseTypeOK, Call
      <4>2. \A d \in calls' : d.n > c.n => c.sent <= d.sent /\ d.sent \in Nat
        BY <1>a, <2>1 DEF Numbered, Call
      <4>3. deadline' + Margin <= now + Ttl
        BY <1>a, <2>3, <3>2, <4>1
      <4>4. \A d \in calls' : d.n > c.n => deadline' + Margin <= d.sent + Ttl
        BY <2>3, <3>2, <4>1, <4>2
      <4> QED
        BY <2>1, <3>2, <4>3, <4>4 DEF WithinTtl, Mine
    <3> QED
      BY <2>2, <3>1, <3>2
  <2>8. NoneAfterEnd'
    BY <2>1 DEF NoneAfterEnd, HasEnded, EndedLapses, Live
  <2> QED
    BY <2>5, <2>6, <2>7, <2>8
<1>9. ASSUME NEW c \in calls, ReadRefused(c)
      PROVE  AgeInv'
  <2>1. CASE Mine(c)
    BY <1>9, <1>a, <2>1, AgeEnded DEF ReadRefused, storeVars, Mine
  <2>2. CASE ~Mine(c)
    <3>1. /\ calls' = calls \ {c}
          /\ UNCHANGED <<now, skew, lease, expiry, handed, state, held, deadline, nextRenew, sent,
                         lastGood, endedAt, misses>>
      BY <1>9, <2>2 DEF ReadRefused, storeVars
    <3> QED
      BY <3>1 DEF LeaseTypeOK, InOrder, Numbered, WithinTtl, FullTtl, NoneAfterEnd, HasEnded,
         EndedLapses, Live, Mine
  <2> QED
    BY <2>1, <2>2
<1>10. ASSUME NEW c \in calls, RenewFails(c) \/ Vanish(c)
       PROVE  AgeInv'
  <2>1. /\ misses' \in 0..MaxMisses
        /\ UNCHANGED <<now, skew, lease, expiry, handed, state, held, deadline, nextRenew, sent,
                       lastGood, endedAt>>
    <3>1. misses \in 0..MaxMisses
      BY DEF LeaseTypeOK
    <3> QED
      BY <1>10, <3>1 DEF RenewFails, Vanish, storeVars, keeperVars
  <2>2. calls' \in SUBSET Call
    BY <1>10, <1>a DEF RenewFails, Vanish, Call
  <2>3. \A d \in calls' : d \in calls \/ (d.n = c.n /\ d.lease = c.lease /\ d.sent = c.sent
                                          /\ d.st = "orphan")
    BY <1>10, <1>a DEF RenewFails, Vanish, Call
  <2>4. LeaseTypeOK'
    BY <1>a, <2>1, <2>2, <2>3 DEF LeaseTypeOK, Mine
  <2>5. InOrder' /\ Numbered' /\ FullTtl'
    BY <2>1, <2>3 DEF InOrder, Numbered, FullTtl
  <2>6. WithinTtl' /\ NoneAfterEnd'
    BY <2>1, <2>3 DEF WithinTtl, NoneAfterEnd, HasEnded, EndedLapses, Live, Mine
  <2> QED
    BY <2>4, <2>5, <2>6
<1>11. CASE Tick
  <2>1. /\ now' = now + 1 /\ now < Horizon
        /\ UNCHANGED <<skew, lease, expiry, handed, state, held, deadline, nextRenew, sent,
                       lastGood, endedAt, calls, misses>>
    BY <1>11 DEF Tick, storeVars, keeperVars
  <2>2. \A c \in calls : now + 1 <= c.sent + MaxDelay /\ c.sent <= now + 1
    BY <1>11, <1>a DEF Tick, LeaseTypeOK, Call
  <2>3. LeaseTypeOK'
    BY <1>a, <2>1, <2>2 DEF LeaseTypeOK, Mine
  <2>4. InOrder' /\ Numbered' /\ FullTtl'
    BY <2>1, <2>2 DEF InOrder, Numbered, FullTtl
  <2>5. WithinTtl'
    BY <1>a, <2>1 DEF WithinTtl, Mine
  <2>6. NoneAfterEnd'
    BY <1>a, <2>1 DEF NoneAfterEnd, HasEnded, EndedLapses, Live
  <2> QED
    BY <2>3, <2>4, <2>5, <2>6
<1>12. CASE UNCHANGED leaseVars
  BY <1>12 DEF leaseVars, storeVars, keeperVars, LeaseTypeOK, InOrder, Numbered, WithinTtl, FullTtl,
     NoneAfterEnd, HasEnded, EndedLapses, Live, Mine
<1> QED
  BY <1>1, <1>2, <1>3, <1>4, <1>5, <1>6, <1>7, <1>8, <1>9, <1>10, <1>11, <1>12 DEF LeaseNext

\* A good answer never brings the deadline back while the store's clock is not behind:
\* renewOnce() reads the answers in any order, and counts the newer ones only.
LEMMA NeverBack ==
  ASSUME AgeInv, [LeaseNext]_leaseVars
  PROVE  state = "held" /\ state' = "held" /\ held' = held /\ skew >= 0 => deadline' >= deadline
<1> SUFFICES ASSUME state = "held", state' = "held", held' = held, skew >= 0
             PROVE  deadline' >= deadline
  OBVIOUS
<1> USE LeaseAssumption DEF AgeInv
<1>1. deadline \in Int
  BY DEF LeaseTypeOK
<1>2. ASSUME NEW c \in calls, ReadGood(c)
      PROVE  deadline' >= deadline
  <2>1. CASE News(c)
    <3>1. deadline' = NewDeadline(c) /\ c.st = "ok" /\ c \in Call
      BY <1>2, <2>1 DEF ReadGood, LeaseTypeOK
    <3>2. c.expiresAt >= c.sent + Ttl
      BY <3>1 DEF FullTtl
    <3>3. deadline + Margin <= c.sent + Ttl
      BY <2>1 DEF WithinTtl, News
    <3> QED
      BY <1>1, <3>1, <3>2, <3>3 DEF NewDeadline, Call
  <2>2. CASE ~News(c)
    BY <1>1, <1>2, <2>2 DEF ReadGood
  <2> QED
    BY <2>1, <2>2
<1>3. ~Adopt
  BY DEF Adopt, InOrder, LeaseTypeOK, Leases, NoLease
<1>4. CASE UNCHANGED deadline
  BY <1>1, <1>4
<1> QED
  BY <1>2, <1>3, <1>4 DEF LeaseNext, leaseVars, keeperVars, Grant, RenewTimer, DeadlineTimer, Drop, Release,
     EndHolding, StoreRenew, ReadRefused, RenewFails, Vanish, Tick

\* A lease whose holding was lost, dropped or released is not kept alive by the renews that
\* were under way when end() aborted them: it lapses within a ttl of the last of them.
THEOREM EndedHoldingLapses == LeaseSpec => []EndedLapses
<1>1. AgeInv => EndedLapses
  BY DEF AgeInv, NoneAfterEnd, HasEnded, EndedLapses
<1> QED
  BY <1>1, AgeInit, AgeStep, PTL DEF LeaseSpec

\* Answers that overtake each other never bring the keeper's deadline back: renewOnce()'s
\* sequence number against the store's clock.
THEOREM DeadlineOnlyForward == LeaseSpec => DeadlineNeverBack
<1>1. LeaseSpec => []AgeInv
  BY AgeInit, AgeStep, PTL DEF LeaseSpec
<1>2. AgeInv /\ [LeaseNext]_leaseVars =>
        [state = "held" /\ state' = "held" /\ held' = held /\ skew >= 0
           => deadline' >= deadline]_leaseVars
  BY NeverBack
<1> QED
  BY <1>1, <1>2, PTL DEF LeaseSpec, DeadlineNeverBack

-----------------------------------------------------------------------------
(* GatewayClient.                                                          *)
(*                                                                         *)
(* For every ladder and all retry budgets: the screen and the result show  *)
(* one attempt's answer, no other model is heard unannounced, and a call   *)
(* is no more than so many requests.                                       *)
(*                                                                         *)
(* The invariant says where an attempt may have content (Content), that    *)
(* whoever may be heard was announced (Heard), and counts requests by the  *)
(* budgets spent (Spent): each attempt that is over was at most            *)
(* MaxRetries + 2 of them, and every new one spends one budget or more.    *)

Content ==
  /\ emitted => pc \in {"stream", "failed", "done"}
  /\ emitted => Len(shown) = told /\ \A i \in DOMAIN shown : shown[i] = <<requests, served>>
  /\ ~emitted => shown = <<>> /\ told = 0
  /\ shown \in Seq(Nat \X Models)

ResultTrue ==
  outcome.st = "result" =>
    /\ pc = "done"
    /\ outcome = [st |-> "result", model |-> served, content |-> told, request |-> requests,
                  fallback |-> last # <<>>]

Named(m) == m # 1 => ~deny /\ \E from \in Models : <<from, m>> \in announced
Heard == Named(served) /\ Named(rung)

\* The attempts made before this one, at most.
Before == (rung - 1 + resume + streamResume) * (MaxStreamRetry + 1) + attempt

\* The requests of this one.
Now == tries + (IF reread THEN 1 ELSE 0) + (IF pc \in {"connect", "waits"} THEN 0 ELSE 1)

Spent == requests <= Before * (MaxRetries + 2) + Now

IInv == TypeOK /\ Content /\ ResultTrue /\ Heard /\ Spent

\* What the types say of the numbers.
LEMMA Ladders == ASSUME deny \in BOOLEAN PROVE Ladder \in 1..Rungs /\ (deny => Ladder = 1)
  BY GatewayAssumption DEF Ladder

LEMMA Budgets ==
  /\ Rungs \in Nat \ {0} /\ MaxRetries \in Nat /\ MaxStreamRetry \in Nat
  /\ MaxResume \in Nat /\ MaxStreamResume \in Nat /\ MaxDeltas \in Nat
  BY GatewayAssumption

LEMMA Pair == \A a, b : <<a, b>> # <<>>
  OBVIOUS

LEMMA InitHolds == Init => IInv
<1> SUFFICES ASSUME Init PROVE IInv
  OBVIOUS
<1> USE GatewayAssumption
<1>0. deny \in BOOLEAN
  BY DEF Init
<1>1. TypeOK
  <2>1. /\ deny \in BOOLEAN /\ aborted \in BOOLEAN /\ reread \in BOOLEAN /\ timedOut \in BOOLEAN
        /\ emitted \in BOOLEAN /\ phantom \in BOOLEAN
    BY <1>0, Zenon DEF Init
  <2> QED
    BY <1>0, <2>1, Ladders, Budgets DEF Init, TypeOK, Models
<1>2. Content
  BY DEF Init, Content, Models
<1>3. ResultTrue /\ Heard
  BY DEF Init, ResultTrue, Heard, Named
<1>4. Before = 0 /\ Now = 0 /\ requests = 0
  BY DEF Init, Before, Now
<1>5. Spent
  BY <1>4 DEF Spent
<1> QED
  BY <1>1, <1>2, <1>3, <1>5 DEF IInv

-----------------------------------------------------------------------------
(* Types.                                                                  *)

LEMMA TypeStep == ASSUME TypeOK, [Next]_vars PROVE TypeOK'
<1> USE DEF handshake, budget, switches, reply, TypeOK, Failures, Retryable
<1>0. /\ deny \in BOOLEAN /\ aborted \in BOOLEAN /\ reread \in BOOLEAN /\ timedOut \in BOOLEAN
      /\ emitted \in BOOLEAN
      /\ Ladder \in 1..Rungs /\ (deny' = deny => Ladder' = Ladder)
  BY Ladders DEF Ladder
<1> USE Budgets
<1>a. \A m \in 1..Rungs : m \in Models
  BY DEF Models
<1>b. ASSUME NEW next \in {"connect", "waits"}, NEW m \in Models, Again(next, m)
      PROVE  /\ reread' \in BOOLEAN /\ timedOut' \in BOOLEAN /\ emitted' \in BOOLEAN
             /\ tries' \in 0..MaxRetries /\ told' \in 0..MaxDeltas /\ served' \in Models
             /\ err' = "none"
             /\ pc' \in {"connect", "sent", "open", "stream", "failed", "waits", "done"}
  <2>1. reread' \in BOOLEAN /\ timedOut' \in BOOLEAN /\ emitted' \in BOOLEAN
    BY <1>b, Zenon DEF Again
  <2>2. tries' \in 0..MaxRetries /\ told' \in 0..MaxDeltas /\ served' \in Models
    BY <1>b, SMT DEF Again
  <2> QED
    BY <1>b, <2>1, <2>2 DEF Again
<1>c. rung \in Models /\ (rung < Ladder => rung + 1 \in 1..Ladder /\ rung + 1 \in Models)
  BY <1>0, <1>a
<1>d. ASSUME rung < Ladder, NextRung
      PROVE  /\ rung' \in 1..Ladder /\ attempt' \in 0..MaxStreamRetry
             /\ announced' \subseteq Models \X Models /\ (last' = <<>> <=> announced' = {})
             /\ Again("connect", rung + 1)
  BY <1>0, <1>c, <1>d, Pair DEF NextRung
<1>1. CASE Connect
  BY <1>0, <1>1 DEF Connect, Fail
<1>2. CASE Accepted
  BY <1>0, <1>2 DEF Accepted
<1>3. CASE Unreachable
  BY <1>0, <1>3 DEF Unreachable, TryAgain, Fail
<1>4. CASE FetchAborted
  <2>1. timedOut' \in BOOLEAN
    BY <1>0, <1>4, Zenon DEF FetchAborted
  <2> QED
    BY <1>0, <1>4, <2>1 DEF FetchAborted, TryAgain, Fail
<1>5. CASE Wake
  BY <1>0, <1>5 DEF Wake
<1>6. ASSUME NEW why \in {"busy", "token", "refused", "fatal"}, Answered(why) PROVE TypeOK'
  <2>1. reread' \in BOOLEAN
    BY <1>0, <1>6, Zenon DEF Answered
  <2> QED
    BY <1>0, <1>6, <2>1 DEF Answered, TryAgain, Fail
<1>7. ASSUME NEW m \in Swaps \cup {rung}, Start(m) PROVE TypeOK'
  <2>1. m \in Models /\ rung \in Models
    BY <1>0, <1>a, GatewayAssumption
  <2> QED
    BY <1>0, <1>7, <2>1 DEF Start, Fail, Announce
<1>8. CASE Delta
  BY <1>0, <1>8 DEF Delta
<1>9. CASE Complete
  BY <1>0, <1>9 DEF Complete
<1>10. CASE Breaks
  BY <1>0, <1>10 DEF Breaks, Fail
<1>11. CASE Silence
  BY <1>0, <1>11 DEF Silence, Fail
<1>12. CASE Abort
  BY <1>0, <1>12 DEF Abort
<1>13. CASE Resume
  BY <1>0, <1>b, <1>c, <1>13 DEF Resume, Resumes, FromTheTop
<1>14. CASE Restream
  BY <1>0, <1>b, <1>c, <1>14 DEF Restream, Restreams, FromTheTop
<1>15. CASE Skip
  BY <1>0, <1>b, <1>c, <1>d, <1>15 DEF Skip, Skips
<1>16. CASE RetryStream
  BY <1>0, <1>b, <1>c, <1>16 DEF RetryStream
<1>17. CASE FailOver
  BY <1>0, <1>b, <1>c, <1>d, <1>17 DEF FailOver, Transient
<1>18. CASE Throw
  BY <1>0, <1>18 DEF Throw
<1>19. CASE UNCHANGED vars
  BY <1>0, <1>19 DEF vars
<1> QED
  BY <1>1, <1>2, <1>3, <1>4, <1>5, <1>6, <1>7, <1>8, <1>9, <1>10, <1>11, <1>12, <1>13, <1>14,
     <1>15, <1>16, <1>17, <1>18, <1>19 DEF Next

-----------------------------------------------------------------------------
(* What is shown.                                                          *)

LEMMA ContentStep == ASSUME TypeOK, Content, ResultTrue, [Next]_vars PROVE Content'
<1> USE DEF handshake, budget, switches, reply, TypeOK, Content
<1>0. requests \in Nat /\ served \in Models /\ shown \in Seq(Nat \X Models)
  OBVIOUS
<1>1. CASE Connect
  BY <1>1 DEF Connect, Fail
<1>2. CASE Accepted
  BY <1>2 DEF Accepted
<1>3. CASE Unreachable
  BY <1>3 DEF Unreachable, TryAgain, Fail
<1>4. CASE FetchAborted
  BY <1>4 DEF FetchAborted, TryAgain, Fail
<1>5. CASE Wake
  BY <1>5 DEF Wake
<1>6. ASSUME NEW why \in {"busy", "token", "refused", "fatal"}, Answered(why) PROVE Content'
  BY <1>6 DEF Answered, TryAgain, Fail
<1>7. ASSUME NEW m \in Swaps \cup {rung}, Start(m) PROVE Content'
  BY <1>7 DEF Start, Fail, Announce
<1>8. CASE Delta
  <2> DEFINE word == <<requests, served>>
  <2>1. word \in Nat \X Models /\ shown' = Append(shown, word)
    BY <1>0, <1>8 DEF Delta
  <2>2. /\ shown' \in Seq(Nat \X Models) /\ Len(shown') = Len(shown) + 1
        /\ \A i \in DOMAIN shown' : (i \in DOMAIN shown /\ shown'[i] = shown[i]) \/ shown'[i] = word
    <3> HIDE DEF word
    <3> QED
      BY <1>0, <2>1
  <2>3. Len(shown) = told /\ \A i \in DOMAIN shown : shown[i] = word
    OBVIOUS
  <2>4. emitted' = TRUE /\ pc' = "stream" /\ told' = told + 1 /\ requests' = requests /\ served' = served
    BY <1>8 DEF Delta
  <2> QED
    BY <2>2, <2>3, <2>4
<1>9. CASE Complete
  BY <1>9 DEF Complete
<1>10. CASE Breaks
  BY <1>10 DEF Breaks, Fail
<1>11. CASE Silence
  BY <1>11 DEF Silence, Fail
<1>12. CASE Abort
  BY <1>12 DEF Abort
<1>13. CASE Resume
  BY <1>13 DEF Resume, FromTheTop, Again
<1>14. CASE Restream
  BY <1>14 DEF Restream, FromTheTop, Again
<1>15. CASE Skip
  BY <1>15 DEF Skip, Skips, NextRung, Again
<1>16. CASE RetryStream
  BY <1>16 DEF RetryStream, Transient, Again
<1>17. CASE FailOver
  BY <1>17 DEF FailOver, Transient, NextRung, Again
<1>18. CASE Throw
  BY <1>18 DEF Throw
<1>19. CASE UNCHANGED vars
  BY <1>19 DEF vars
<1> QED
  BY <1>1, <1>2, <1>3, <1>4, <1>5, <1>6, <1>7, <1>8, <1>9, <1>10, <1>11, <1>12, <1>13, <1>14,
     <1>15, <1>16, <1>17, <1>18, <1>19 DEF Next

\* Nothing happens after the end.
LEMMA ResultTrueStep == ASSUME TypeOK, ResultTrue, [Next]_vars PROVE ResultTrue'
<1> USE DEF ResultTrue
<1>1. CASE Complete
  BY <1>1 DEF Complete, switches, reply
<1>2. CASE Throw
  BY <1>2 DEF Throw
<1>3. CASE UNCHANGED vars
  BY <1>3 DEF vars
<1>4. CASE outcome' = outcome /\ pc # "done"
  BY <1>4
<1> QED
  BY <1>1, <1>2, <1>3, <1>4 DEF Next, Connect, Accepted, Unreachable, FetchAborted, Wake, Answered,
     Start, Delta, Breaks, Silence, Abort, Resume, Restream, Skip, RetryStream, FailOver

-----------------------------------------------------------------------------
(* Who is heard.                                                           *)

LEMMA HeardStep == ASSUME TypeOK, Heard, [Next]_vars PROVE Heard'
<1> USE DEF Heard, Named, budget, switches, reply
<1>0. /\ rung \in Models /\ (deny => Ladder = 1)
      /\ rung \in 1..Ladder /\ Ladder \in 1..Rungs
  BY Ladders, Budgets DEF TypeOK, Models
<1>1. CASE UNCHANGED <<deny, rung, announced>> /\ served' \in {served, rung}
  BY <1>1
<1>2. ASSUME NEW m \in Swaps \cup {rung}, Start(m) PROVE Heard'
  <2>1. CASE m = rung
    BY <1>2, <2>1 DEF Start, Fail
  <2>2. CASE m # rung /\ deny
    BY <1>2, <2>2 DEF Start, Fail
  <2>3. CASE m # rung /\ ~deny
    <3>1. served' = m /\ rung' = rung /\ deny' = deny /\ Announce(rung, m)
      BY <1>2, <2>3 DEF Start
    <3>2. announced \subseteq announced' /\ <<rung, m>> \in announced'
      BY <3>1 DEF Announce
    <3> QED
      BY <1>0, <2>3, <3>1, <3>2
  <2> QED
    BY <2>1, <2>2, <2>3
<1>3. CASE rung < Ladder /\ NextRung /\ deny' = deny
  <2>1. rung' = rung + 1 /\ served' = rung + 1 /\ <<rung, rung + 1>> \in announced' /\ ~deny
    BY <1>0, <1>3 DEF NextRung, Again
  <2> QED
    BY <1>0, <1>3, <2>1
<1>4. CASE Skip \/ FailOver
  BY <1>3, <1>4 DEF Skip, FailOver
<1>5. CASE Resume \/ Restream \/ RetryStream
  BY <1>1, <1>5 DEF Resume, Restream, RetryStream, FromTheTop, Again
<1>6. CASE Connect \/ Accepted \/ Unreachable \/ FetchAborted \/ Wake
  BY <1>1, <1>6 DEF Connect, Accepted, Unreachable, FetchAborted, Wake
<1>7. ASSUME NEW why \in {"busy", "token", "refused", "fatal"}, Answered(why) PROVE Heard'
  BY <1>1, <1>7 DEF Answered
<1>8. CASE Delta \/ Complete \/ Breaks \/ Silence \/ Abort \/ Throw
  BY <1>1, <1>8 DEF Delta, Complete, Breaks, Silence, Abort, Throw
<1>9. CASE UNCHANGED vars
  BY <1>1, <1>9 DEF vars
<1> QED
  BY <1>2, <1>4, <1>5, <1>6, <1>7, <1>8, <1>9 DEF Next

-----------------------------------------------------------------------------
(* How much is asked.                                                      *)

LEMMA Product == \A a, b, k \in Nat : a < b => a * k + k <= b * k
<1> TAKE a, b, k \in Nat
<1> HAVE a < b
<1>1. PICK d \in Nat : b = a + 1 + d
  <2>1. b - a - 1 \in Nat /\ b = a + 1 + (b - a - 1)
    OBVIOUS
  <2> QED
    BY <2>1
<1>2. b * k = a * k + k + d * k
  BY <1>1
<1>3. d * k \in Nat /\ a * k \in Nat
  OBVIOUS
<1> QED
  BY <1>2, <1>3

\* The sums are numbers, and an attempt is at most MaxRetries + 2 requests.
LEMMA Counts ==
  ASSUME TypeOK
  PROVE  /\ Before \in Nat /\ Now \in Nat /\ Now <= MaxRetries + 2
         /\ rung - 1 + resume + streamResume \in Nat
         /\ rung - 1 + resume + streamResume <= Rungs - 1 + MaxResume + MaxStreamResume
         /\ attempt \in Nat /\ attempt < MaxStreamRetry + 1
<1> USE Budgets DEF TypeOK
<1>1. Ladder \in 1..Rungs
  BY Ladders
<1>2. /\ rung - 1 + resume + streamResume \in Nat
      /\ rung - 1 + resume + streamResume <= Rungs - 1 + MaxResume + MaxStreamResume
  BY <1>1
<1>3. attempt \in Nat /\ attempt < MaxStreamRetry + 1
  OBVIOUS
<1>4. (rung - 1 + resume + streamResume) * (MaxStreamRetry + 1) \in Nat
  BY <1>2
<1>5. Now \in Nat /\ Now <= MaxRetries + 2
  BY DEF Now
<1> QED
  BY <1>2, <1>3, <1>4, <1>5 DEF Before

\* A step within an attempt asks no more than it counts.
LEMMA SpentGoesOn ==
  ASSUME TypeOK, Spent, Before' = Before, Now' \in Nat, requests' \in Nat,
         requests' - requests <= Now' - Now
  PROVE  Spent'
<1>1. \A r, s, o, n, k \in Int : r <= o + n /\ s - r <= k - n => s <= o + k
  OBVIOUS
<1>2. Before * (MaxRetries + 2) \in Int /\ requests \in Int /\ Now \in Int
  BY Counts, Budgets DEF TypeOK
<1>3. requests <= Before * (MaxRetries + 2) + Now
  BY DEF Spent
<1>4. requests' \in Int /\ Now' \in Int /\ requests' - requests <= Now' - Now
  OBVIOUS
<1>5. requests' <= Before * (MaxRetries + 2) + Now'
  <2> DEFINE o == Before * (MaxRetries + 2)
  <2>1. o \in Int /\ requests <= o + Now
    BY <1>2, <1>3
  <2> HIDE DEF o
  <2>2. requests' <= o + Now'
    BY <1>1, <1>2, <1>4, <2>1
  <2> QED
    BY <2>2 DEF o
<1> QED
  BY <1>5 DEF Spent

\* A new attempt spends a budget.
LEMMA SpentAgain ==
  ASSUME TypeOK, Spent, Before' \in Nat, Before < Before', Now' = 0, requests' = requests
  PROVE  Spent'
<1>1. Before * (MaxRetries + 2) + (MaxRetries + 2) <= Before' * (MaxRetries + 2)
  BY Counts, Budgets, Product
<1>2. requests <= Before * (MaxRetries + 2) + Now
  BY DEF Spent
<1>3. /\ Before * (MaxRetries + 2) \in Int /\ Before' * (MaxRetries + 2) \in Int
      /\ requests \in Int /\ Now \in Int /\ Now <= MaxRetries + 2 /\ MaxRetries + 2 \in Int
  BY Counts, Budgets DEF TypeOK
<1>4. \A r, o, n, k, p \in Int : r <= o + n /\ n <= k /\ o + k <= p => r <= p + 0
  OBVIOUS
<1>5. requests' <= Before' * (MaxRetries + 2) + Now'
  BY <1>1, <1>2, <1>3, <1>4
<1> QED
  BY <1>5 DEF Spent

LEMMA SpentStep == ASSUME TypeOK, Content, Spent, [Next]_vars PROVE Spent'
<1> USE DEF handshake, budget, switches, reply, TypeOK
<1>0. /\ Before \in Nat /\ Now \in Nat /\ requests \in Nat /\ tries \in Nat
      /\ rung \in Nat /\ resume \in Nat /\ streamResume \in Nat /\ attempt \in Nat
      /\ rung - 1 + resume + streamResume \in Nat /\ attempt <= MaxStreamRetry
      /\ MaxStreamRetry \in Nat /\ rung - 1 \in Nat
  BY Counts, Budgets
\* Steps that leave the budgets alone.
<1>1. ASSUME UNCHANGED <<rung, attempt, resume, streamResume>>, Now' \in Nat, requests' \in Nat,
             requests' - requests <= Now' - Now
      PROVE  Spent'
  BY <1>1, SpentGoesOn DEF Before
<1>2. CASE Connect
  BY <1>0, <1>1, <1>2 DEF Connect, Fail, Now
<1>3. CASE Accepted
  BY <1>0, <1>1, <1>3 DEF Accepted, Now
<1>4. CASE Unreachable
  BY <1>0, <1>1, <1>4 DEF Unreachable, TryAgain, Fail, Now
<1>5. CASE FetchAborted
  BY <1>0, <1>1, <1>5 DEF FetchAborted, TryAgain, Fail, Now
<1>6. CASE Wake
  BY <1>0, <1>1, <1>6 DEF Wake, Now
<1>7. ASSUME NEW why \in {"busy", "token", "refused", "fatal"}, Answered(why) PROVE Spent'
  BY <1>0, <1>1, <1>7 DEF Answered, TryAgain, Fail, Now
<1>8. ASSUME NEW m \in Swaps \cup {rung}, Start(m) PROVE Spent'
  BY <1>0, <1>1, <1>8 DEF Start, Fail, Now
<1>9. CASE Delta
  BY <1>0, <1>1, <1>9 DEF Delta, Now
<1>10. CASE Complete
  BY <1>0, <1>1, <1>10 DEF Complete, Now
<1>11. CASE Breaks
  BY <1>0, <1>1, <1>11 DEF Breaks, Fail, Now
<1>12. CASE Silence
  BY <1>0, <1>1, <1>12 DEF Silence, Fail, Now
<1>13. CASE Abort
  BY <1>0, <1>1, <1>13 DEF Abort, Now
<1>14. CASE Throw
  BY <1>0, <1>1, <1>14 DEF Throw, Now
<1>15. CASE UNCHANGED vars
  BY <1>0, <1>1, <1>15 DEF vars, Now
\* Steps that begin another attempt.
<1>16. ASSUME NEW next \in {"connect", "waits"}, NEW m, Again(next, m) PROVE Now' = 0
  BY <1>16 DEF Again, Now
<1>17. ASSUME rung' - 1 + resume' + streamResume' = (rung - 1 + resume + streamResume) + 1,
              attempt' = 0, Now' = 0, requests' = requests
       PROVE  Spent'
  <2> DEFINE n == rung - 1 + resume + streamResume
             b == MaxStreamRetry + 1
  <2>1. n \in Nat /\ b \in Nat /\ attempt < b
    BY <1>0
  <2>2. n * b + b <= (n + 1) * b /\ n * b \in Nat /\ (n + 1) * b \in Nat
    <3> HIDE DEF n, b
    <3> QED
      BY <2>1, Product
  <2>3. Before' = (n + 1) * b + 0 /\ Before = n * b + attempt
    BY <1>17 DEF Before
  <2>4. Before' \in Nat /\ Before < Before'
    <3> HIDE DEF n, b
    <3> QED
      BY <1>0, <2>1, <2>2, <2>3
  <2> QED
    BY <1>17, <2>4, SpentAgain
<1>18. CASE Resume
  BY <1>0, <1>16, <1>17, <1>18 DEF Resume, FromTheTop
<1>19. CASE Restream
  BY <1>0, <1>16, <1>17, <1>19 DEF Restream, FromTheTop
<1>20. CASE Skip
  BY <1>0, <1>16, <1>17, <1>20 DEF Skip, NextRung
<1>21. CASE FailOver
  BY <1>0, <1>16, <1>17, <1>21 DEF FailOver, NextRung
<1>22. CASE RetryStream
  <2>1. Before' = Before + 1
    BY <1>0, <1>22 DEF RetryStream, Before
  <2>2. Now' = 0 /\ requests' = requests
    BY <1>16, <1>22 DEF RetryStream
  <2> QED
    BY <1>0, <2>1, <2>2, SpentAgain
<1> QED
  BY <1>2, <1>3, <1>4, <1>5, <1>6, <1>7, <1>8, <1>9, <1>10, <1>11, <1>12, <1>13, <1>14, <1>15,
     <1>18, <1>19, <1>20, <1>21, <1>22 DEF Next

-----------------------------------------------------------------------------
(* The theorems.                                                           *)

LEMMA Inductive == Spec => []IInv
<1>1. Init => IInv
  BY InitHolds
<1>2. IInv /\ [Next]_vars => IInv'
  BY TypeStep, ContentStep, ResultTrueStep, HeardStep, SpentStep DEF IInv
<1> QED
  BY <1>1, <1>2, PTL DEF Spec

\* Every variable of the client keeps its type: no retry or resume exceeds its budget
\* (connect, stream).
THEOREM TypeCorrect == Spec => []TypeOK
<1>1. IInv => TypeOK
  BY DEF IInv
<1> QED
  BY <1>1, Inductive, PTL

\* Whatever breaks and is run again (stream's resumes, reset events), the screen shows
\* exactly one attempt's words, and a result is what is shown.
THEOREM ShownOnce == Spec => []ShownIsAnswer
<1>1. IInv => ShownIsAnswer
  BY DEF IInv, Content, ResultTrue, ShownIsAnswer, TypeOK
<1> QED
  BY <1>1, Inductive, PTL

\* No model but the one requested is heard before its switch was announced, none under
\* deny, and the result says so (consume's served-model check, stream's ladder).
THEOREM SwitchesAnnounced == Spec => []SwitchAnnounced
<1>1. ASSUME IInv PROVE SwitchAnnounced
  <2>1. Named(served) /\ (last = <<>> <=> announced = {})
    BY <1>1 DEF IInv, Heard, TypeOK
  <2>2. \A i \in DOMAIN shown : shown[i][2] = served
    BY <1>1 DEF IInv, Content
  <2>3. outcome.st = "result" => outcome.model = served /\ outcome.fallback = (last # <<>>)
    BY <1>1 DEF IInv, ResultTrue
  <2>4. outcome.st = "result" /\ served # 1 => outcome.fallback
    BY <2>1, <2>3, Zenon DEF Named
  <2> QED
    BY <2>1, <2>2, <2>3, <2>4 DEF SwitchAnnounced, Named
<1> QED
  BY <1>1, Inductive, PTL

\* The nested budgets of stream and connect bound the requests of a call, for every
\* value of them.
THEOREM RequestsAreBounded == Spec => []RequestsBounded
<1>1. ASSUME IInv PROVE RequestsBounded
  <2> DEFINE n == rung - 1 + resume + streamResume
             t == Rungs - 1 + MaxResume + MaxStreamResume
             b == MaxStreamRetry + 1
             k == MaxRetries + 2
  <2>0. TypeOK /\ Spent
    BY <1>1 DEF IInv
  <2>1. /\ n \in Nat /\ t \in Nat /\ b \in Nat /\ k \in Nat /\ n <= t /\ attempt \in Nat /\ attempt < b
        /\ Before \in Nat /\ Now \in Nat /\ Now <= k /\ requests \in Nat
    BY <2>0, Counts, Budgets DEF TypeOK
  <2>2. Before = n * b + attempt /\ requests <= Before * k + Now
    BY <2>0 DEF Before, Spent
  <2>3. Attempts = (t + 1) * b
    BY Budgets DEF Attempts
  <2> HIDE DEF n, t, b, k
  <2>4. n * b + b <= (t + 1) * b /\ n * b \in Nat /\ (t + 1) * b \in Nat
    BY <2>1, Product
  <2>5. Before < (t + 1) * b
    BY <2>1, <2>2, <2>4
  <2>6. Before * k + k <= ((t + 1) * b) * k /\ Before * k \in Nat /\ ((t + 1) * b) * k \in Nat
    BY <2>1, <2>4, <2>5, Product
  <2>7. requests <= Attempts * k
    BY <2>1, <2>2, <2>3, <2>6
  <2> QED
    BY <2>7 DEF RequestsBounded, k
<1> QED
  BY <1>1, Inductive, PTL

=============================================================================
