----------------------------- MODULE DurableLog -----------------------------
(***************************************************************************)
(* What the remote backend promises its callers, with the queue, the       *)
(* batches, the retries and the network left out: one log, one writer at a *)
(* time; each engine's events enter in the order they were pushed, without *)
(* a gap except the events their caller was told are refused; a promise    *)
(* resolves to the place its event has; once a promise failed, the engine  *)
(* pushes nothing more, and what failed may or may not be in the log.      *)
(***************************************************************************)
EXTENDS Naturals, Sequences

CONSTANTS Engines, Nobody

VARIABLES
  log,    \* sequence of [eng, n]: the n-th event engine eng pushed
  fate,   \* what each engine was told of each event: [st, seq]
  writer  \* the only engine whose events enter the log

dvars == <<log, fate, writer>>

Unknown == [st |-> "pending", seq |-> 0]

Init ==
  /\ log = <<>>
  /\ fate = [e \in Engines |-> <<>>]
  /\ writer = Nobody

Stored(e, n) == \E i \in DOMAIN log : log[i] = [eng |-> e, n |-> n]
Skipped(e, n) == fate[e][n].st = "refused"

Take(e) ==
  /\ writer = Nobody
  /\ writer' = e
  /\ UNCHANGED <<log, fate>>

Yield ==
  /\ writer # Nobody
  /\ writer' = Nobody
  /\ UNCHANGED <<log, fate>>

\* One event, or the two of a consuming append.
Push(e) ==
  /\ \A n \in DOMAIN fate[e] : fate[e][n].st # "failed"
  /\ \E k \in {1, 2} : fate' = [fate EXCEPT ![e] = @ \o [j \in 1..k |-> Unknown]]
  /\ UNCHANGED <<log, writer>>

\* The events first..last of the writer, the next ones in its order.
Commit(e) ==
  /\ writer = e
  /\ \E first, last \in DOMAIN fate[e] :
       /\ first <= last
       /\ \A n \in 1..(first - 1) : Stored(e, n) \/ Skipped(e, n)
       /\ \A n \in first..last : ~Stored(e, n) /\ fate[e][n].st \in {"pending", "failed"}
       /\ log' = log \o [j \in 1..(last - first + 1) |-> [eng |-> e, n |-> first + j - 1]]
  /\ UNCHANGED <<fate, writer>>

\* The promises first..last settle together, each from pending to what Told says.
Tell(e, May(_), Told(_)) ==
  /\ \E first, last \in DOMAIN fate[e] :
       /\ \A n \in first..last : fate[e][n] = Unknown /\ May(n)
       /\ fate' = [fate EXCEPT ![e] = [n \in DOMAIN @ |->
                     IF n \in first..last THEN Told(n) ELSE @[n]]]
  /\ UNCHANGED <<log, writer>>

Place(e, n) == CHOOSE i \in DOMAIN log : log[i] = [eng |-> e, n |-> n]

Resolve(e) ==
  Tell(e, LAMBDA n : Stored(e, n), LAMBDA n : [st |-> "acked", seq |-> Place(e, n)])

Refuse(e) ==
  Tell(e, LAMBDA n : ~Stored(e, n), LAMBDA n : [st |-> "refused", seq |-> 0])

\* All that is open fails together.
Fail(e) ==
  /\ Tell(e, LAMBDA n : TRUE, LAMBDA n : [st |-> "failed", seq |-> 0])
  /\ \A n \in DOMAIN fate[e] : fate'[e][n] # Unknown

Next == Yield \/ \E e \in Engines :
          Take(e) \/ Push(e) \/ Commit(e) \/ Resolve(e) \/ Refuse(e) \/ Fail(e)

Spec == Init /\ [][Next]_dvars
=============================================================================
