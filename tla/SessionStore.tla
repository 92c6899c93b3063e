---------------------------- MODULE SessionStore ----------------------------
(***************************************************************************)
(* The P1 session store as one engine's writer sees it: an append-only log *)
(* of one session, the lease that names its only writer, the record of     *)
(* appends that makes a retry idempotent, and the inbox items a consuming  *)
(* append takes.  Translated from the repository's own reference store     *)
(* (packages/harness/test/fake-session-store.ts); the inbox side, which    *)
(* that reference leaves out, is modelled from how the client uses it.     *)
(*                                                                         *)
(* Time is abstracted here: a lease may lapse at any moment.  The module   *)
(* LeaseKeeper has the clock.                                              *)
(***************************************************************************)
EXTENDS Naturals, Sequences, FiniteSets, Functions, SequencesExt

CONSTANTS
  Engines,        \* engine incarnations; an incarnation holds one lease, its id is the incarnation
  NoEngine,       \* no live lease
  Items,          \* inbox items of the session
  NoItem,         \* an append that consumes nothing
  StoreMaxEvents, \* MAX_EVENTS of a shared batch
  StoreMaxBytes,  \* MAX_DATA_BYTES of a shared batch
  MaxEventBytes   \* max_event_bytes of one event alone

ASSUME StoreAssumption ==
  /\ NoEngine \notin Engines
  /\ NoItem \notin Items
  /\ StoreMaxEvents \in Nat \ {0}
  /\ StoreMaxBytes \in Nat \ {0}
  /\ MaxEventBytes \in Nat \ {0}

VARIABLES
  log,      \* the session's events, in seq order
  appends,  \* the append requests committed so far, for the replay lookup
  holder,   \* whose lease is live
  items     \* what became of each inbox item

storeVars == <<log, appends, holder, items>>

\* An event is named by its author and its place in the author's push order.
Event == [eng: Engines, n: Nat \ {0}, bytes: Nat]

\* The body of an append: assembled once, so every retry sends the same.
Body == [lease: Engines, after: Nat, evs: Seq(Event), item: Items \cup {NoItem}]

ItemState == {"pending", "consumed", "withdrawn"}

Bytes(evs) == FoldFunction(LAMBDA ev, sum : sum + ev.bytes, 0, evs)

StoreTypeOK ==
  /\ log \in Seq(Event)
  /\ appends \subseteq Body
  /\ holder \in Engines \cup {NoEngine}
  /\ items \in [Items -> ItemState]

StoreInit ==
  /\ log = <<>>
  /\ appends = {}
  /\ holder = NoEngine
  /\ items = [i \in Items |-> "pending"]

-----------------------------------------------------------------------------

\* POST /lease: only when no lease is live.
GrantLease(e) ==
  /\ holder = NoEngine
  /\ holder' = e
  /\ UNCHANGED <<log, appends, items>>

\* The live lease reached its expiry; a lapsed lease is never revived.
LapseLease ==
  /\ holder # NoEngine
  /\ holder' = NoEngine
  /\ UNCHANGED <<log, appends, items>>

\* A stop or a supersession takes an item that is still pending.
WithdrawItem(i) ==
  /\ items[i] = "pending"
  /\ items' = [items EXCEPT ![i] = "withdrawn"]
  /\ UNCHANGED <<log, appends, holder>>

-----------------------------------------------------------------------------

\* One event alone may be large; a shared batch has limits of its own.
EventTooLarge(b) == Len(b.evs) = 1 /\ b.evs[1].bytes > MaxEventBytes

BatchTooLarge(b) ==
  /\ Len(b.evs) > 1
  /\ Len(b.evs) > StoreMaxEvents \/ Bytes(b.evs) > StoreMaxBytes

\* Mutant: the lease alone decides, neither a replay nor the seq is checked.
AppendCodeLeaseOnly(b) ==
  IF EventTooLarge(b) THEN "event_too_large"
  ELSE IF BatchTooLarge(b) THEN "batch_too_large"
  ELSE IF holder # b.lease THEN "lease_lost"
  ELSE "commit"

\* Mutant: neither the lease nor the seq is checked.
AppendCodeUnfenced(b) ==
  IF EventTooLarge(b) THEN "event_too_large"
  ELSE IF BatchTooLarge(b) THEN "batch_too_large"
  ELSE IF b \in appends THEN "replay"
  ELSE "commit"

\* Mutant: the item is looked at before the replay.
AppendCodeItemFirst(b) ==
  IF EventTooLarge(b) THEN "event_too_large"
  ELSE IF BatchTooLarge(b) THEN "batch_too_large"
  ELSE IF b.item # NoItem /\ items[b.item] # "pending" THEN "not_pending"
  ELSE IF b \in appends THEN "replay"
  ELSE IF holder # b.lease THEN "lease_lost"
  ELSE IF b.after # Len(log) THEN "seq_conflict"
  ELSE "commit"

\* Answered in this order; a replay is recognised before the lease is looked at.
AppendCode(b) ==
  IF EventTooLarge(b) THEN "event_too_large"
  ELSE IF BatchTooLarge(b) THEN "batch_too_large"
  ELSE IF b \in appends THEN "replay"
  ELSE IF holder # b.lease THEN "lease_lost"
  ELSE IF b.after # Len(log) THEN "seq_conflict"
  ELSE IF b.item # NoItem /\ items[b.item] # "pending" THEN "not_pending"
  ELSE "commit"

\* Mutant: one seq too low.
FirstSeqLow(b) == b.after

\* The seqs an accepted body was, or is, given.
FirstSeq(b) == b.after + 1
LastSeq(b)  == b.after + Len(b.evs)

HandleAppend(b) ==
  IF AppendCode(b) = "commit"
  THEN /\ log' = log \o b.evs
       /\ appends' = appends \cup {b}
       /\ items' = [i \in Items |-> IF i = b.item THEN "consumed" ELSE items[i]]
       /\ UNCHANGED holder
  ELSE UNCHANGED storeVars
=============================================================================
