---------------------------- MODULE AppendBatcher ---------------------------
(***************************************************************************)
(* The engine's single writer to the session store: RemoteStore.write and  *)
(* RemoteStore.consume push into AppendBatcher's one in-order queue, its   *)
(* drain loop keeps at most one batch in flight, and SessionStoreClient's  *)
(* call retries that batch with the same body.  Several engine             *)
(* incarnations compete for the session's lease; their requests may be     *)
(* delayed past the caller's timeout, past its retry and past its death.   *)
(*                                                                         *)
(* One action is one uninterrupted stretch of the JavaScript event loop,   *)
(* except that the settling of a batch and the loop's next turn are two    *)
(* ("settle", then DrainStep): nothing the first does reads what another   *)
(* action could change in between, so the split adds no behaviour.         *)
(***************************************************************************)
EXTENDS SessionStore

CONSTANTS
  BatchMaxEvents, \* the batcher's event limit
  BatchMaxBytes,  \* the batcher's byte limit; an event over it goes alone
  HostLimit,      \* sessionStore.maxEventBytes when the host sets it
  NoLimit,        \* the per-event limit is not known yet
  MaxAttempts,    \* MAX_ATTEMPTS of one call
  Sizes,          \* bound: the event sizes pushed
  RecordSizes,    \* bound: those of session records
  MaxPushed       \* bound: events one incarnation pushes

ASSUME BatcherAssumption ==
  /\ BatchMaxEvents \in Nat \ {0}
  /\ BatchMaxBytes \in Nat \ {0}
  /\ NoLimit \notin Nat
  /\ HostLimit \in Nat \cup {NoLimit}
  /\ MaxAttempts \in Nat \ {0}
  /\ Sizes \subseteq Nat \ {0}
  /\ RecordSizes \subseteq Sizes
  /\ MaxPushed \in Nat

VARIABLES
  phase,    \* of the incarnation: new, leased, open, dead
  lost,     \* the LeaseKeeper lost the lease: leaseId throws
  queue,    \* the batcher's queue
  inFlight, \* the batch being sent
  acked,    \* the last seq the store acknowledged
  fatal,    \* what stopped the writer
  limit,    \* the per-event limit, configured or learned
  draining, \* where drain() is
  kicked,   \* a kick() microtask is queued
  attempt,  \* of the call in flight
  wire,     \* the call waits for an answer, or for the retry
  answer,   \* the store's answer to the current attempt, not read yet
  outcome,  \* the promise of each event pushed
  kept,     \* the events the memory views hold, a record once it is acknowledged
  folded,   \* the session records merged into the record view when they were pushed
  stored,   \* RemoteStore.events(): read at open and acknowledged since
  net       \* requests on their way to the store

callVars   == <<attempt, wire, answer, net>>
engineVars == <<phase, lost, queue, inFlight, acked, fatal, limit, draining, kicked,
                outcome, kept, folded, stored>>
vars == <<storeVars, callVars, engineVars>>

\* An entry of the queue; the first event of a consuming batch names the item
\* and how many events its batch holds.
Queued == [ev: Event, item: Items \cup {NoItem}, size: Nat]

Promise == [st: {"pending", "acked", "refused", "withdrawn", "failed"},
            seq: Nat, item: Items \cup {NoItem}]

Codes  == {"commit", "replay", "event_too_large", "batch_too_large", "lease_lost",
           "seq_conflict", "not_pending", "busy"}
NoAnswer == [code |-> "none", first |-> 0, last |-> 0]
Answer == [code: Codes, first: Nat, last: Nat] \cup {NoAnswer}
Causes == {"none", "no_lease", "unreachable"} \cup Codes

TypeOK ==
  /\ StoreTypeOK
  /\ phase \in [Engines -> {"new", "leased", "open", "dead"}]
  /\ lost \in [Engines -> BOOLEAN]
  /\ queue \in [Engines -> Seq(Queued)]
  /\ inFlight \in [Engines -> Seq(Queued)]
  /\ acked \in [Engines -> Nat]
  /\ fatal \in [Engines -> Causes]
  /\ limit \in [Engines -> Nat \cup {NoLimit}]
  /\ draining \in [Engines -> {"none", "loop", "await", "unwinding"}]
  /\ kicked \in [Engines -> BOOLEAN]
  /\ attempt \in [Engines -> 0..MaxAttempts]
  /\ wire \in [Engines -> {"idle", "sent", "backoff"}]
  /\ answer \in [Engines -> Answer]
  /\ outcome \in [Engines -> Seq(Promise)]
  /\ kept \in [Engines -> SUBSET (Nat \ {0})]
  /\ folded \in [Engines -> SUBSET (Nat \ {0})]
  /\ stored \in [Engines -> Seq(Event)]
  /\ net \subseteq [body: Body, attempt: 1..MaxAttempts]

Init ==
  /\ StoreInit
  /\ phase = [e \in Engines |-> "new"]
  /\ lost = [e \in Engines |-> FALSE]
  /\ queue = [e \in Engines |-> <<>>]
  /\ inFlight = [e \in Engines |-> <<>>]
  /\ acked = [e \in Engines |-> 0]
  /\ fatal = [e \in Engines |-> "none"]
  /\ limit = [e \in Engines |-> HostLimit]
  /\ draining = [e \in Engines |-> "none"]
  /\ kicked = [e \in Engines |-> FALSE]
  /\ attempt = [e \in Engines |-> 0]
  /\ wire = [e \in Engines |-> "idle"]
  /\ answer = [e \in Engines |-> NoAnswer]
  /\ outcome = [e \in Engines |-> <<>>]
  /\ kept = [e \in Engines |-> {}]
  /\ folded = [e \in Engines |-> {}]
  /\ stored = [e \in Engines |-> <<>>]
  /\ net = {}

-----------------------------------------------------------------------------
(* Opening the session.                                                    *)

\* The incarnation is handed its lease.
Adopt(e) ==
  /\ phase[e] = "new"
  /\ GrantLease(e)
  /\ phase' = [phase EXCEPT ![e] = "leased"]
  /\ UNCHANGED <<lost, queue, inFlight, acked, fatal, limit, draining, kicked, outcome,
                 kept, folded, stored, callVars>>

\* RemoteStore.open: the whole log is read; the writer starts after its last seq.
Open(e) ==
  /\ phase[e] = "leased"
  /\ phase' = [phase EXCEPT ![e] = "open"]
  /\ stored' = [stored EXCEPT ![e] = log]
  /\ acked' = [acked EXCEPT ![e] = Len(log)]
  /\ UNCHANGED <<lost, queue, inFlight, fatal, limit, draining, kicked, outcome, kept, folded,
                 storeVars, callVars>>

-----------------------------------------------------------------------------
(* Pushing.                                                                *)

Writable(e) == phase[e] = "open" /\ fatal[e] = "none"

NextEvent(e, k, size) == [eng |-> e, n |-> Len(outcome[e]) + k, bytes |-> size]
Pending(item) == [st |-> "pending", seq |-> 0, item |-> item]

\* RemoteStore.write: a small event enters the memory views at once, one over
\* the batch size only when it is acknowledged.  A session record is merged into
\* the record before it, and its write passes no drop.
Write(e, size, record) ==
  /\ Writable(e)
  /\ Len(outcome[e]) < MaxPushed
  /\ limit[e] # NoLimit => size <= limit[e]
  /\ queue' = [queue EXCEPT ![e] = Append(@, [ev |-> NextEvent(e, 1, size),
                                              item |-> NoItem, size |-> 1])]
  /\ outcome' = [outcome EXCEPT ![e] = Append(@, Pending(NoItem))]
  /\ kept' = IF size > BatchMaxBytes \/ record THEN kept
             ELSE [kept EXCEPT ![e] = @ \cup {Len(outcome[e]) + 1}]
  /\ folded' = IF size > BatchMaxBytes \/ ~record THEN folded
               ELSE [folded EXCEPT ![e] = @ \cup {Len(outcome[e]) + 1}]
  /\ kicked' = [kicked EXCEPT ![e] = TRUE]
  /\ UNCHANGED <<phase, lost, inFlight, acked, fatal, limit, draining, stored,
                 storeVars, callVars>>

\* The entries of a consuming batch, and their promises.
Opening(e, i, sizes) ==
  [k \in DOMAIN sizes |-> [ev |-> NextEvent(e, k, sizes[k]),
                           item |-> IF k = 1 THEN i ELSE NoItem,
                           size |-> IF k = 1 THEN Len(sizes) ELSE 1]]

OpeningPromises(i, sizes) == [k \in DOMAIN sizes |-> Pending(i)]

\* RemoteStore.consume: one or two events (an answer, then its user entry) that
\* go out as a batch of their own.  The engine awaits it, so it has one at a time.
Consume(e, i, sizes) ==
  /\ Writable(e)
  /\ Len(outcome[e]) + Len(sizes) <= MaxPushed
  /\ items[i] = "pending"
  /\ \A n \in DOMAIN outcome[e] : outcome[e][n].st = "pending" => outcome[e][n].item = NoItem
  /\ queue' = [queue EXCEPT ![e] = @ \o Opening(e, i, sizes)]
  /\ outcome' = [outcome EXCEPT ![e] = @ \o OpeningPromises(i, sizes)]
  /\ kicked' = [kicked EXCEPT ![e] = TRUE]
  /\ UNCHANGED <<phase, lost, inFlight, acked, fatal, limit, draining, kept, folded, stored,
                 storeVars, callVars>>

-----------------------------------------------------------------------------
(* The drain loop.                                                         *)

StartsDrain(e) == draining[e] = "none" /\ fatal[e] = "none" /\ queue[e] # <<>>

\* The microtask a push queued.
Kick(e) ==
  /\ kicked[e]
  /\ kicked' = [kicked EXCEPT ![e] = FALSE]
  /\ draining' = IF StartsDrain(e) THEN [draining EXCEPT ![e] = "loop"] ELSE draining
  /\ UNCHANGED <<phase, lost, queue, inFlight, acked, fatal, limit, outcome, kept, folded, stored,
                 storeVars, callVars>>

\* Mutant: the finally does not kick again.
UnwoundNoKick(e) ==
  /\ draining[e] = "unwinding"
  /\ draining' = [draining EXCEPT ![e] = "none"]
  /\ UNCHANGED <<phase, lost, queue, inFlight, acked, fatal, limit, kicked, outcome, kept, folded,
                 stored, storeVars, callVars>>

\* drain()'s finally: the drain is over, and whatever came meanwhile is kicked.
Unwound(e) ==
  /\ draining[e] = "unwinding"
  /\ draining' = [draining EXCEPT ![e] =
                    IF fatal[e] = "none" /\ queue[e] # <<>> THEN "loop" ELSE "none"]
  /\ UNCHANGED <<phase, lost, queue, inFlight, acked, fatal, limit, kicked, outcome, kept, folded,
                 stored, storeVars, callVars>>

QueuedBytes(q) == Bytes([k \in DOMAIN q |-> q[k].ev])

\* Whether the first n of the queue go out together: not past a consuming
\* batch, within the limits, except that one event always goes.
Fits(q, n) ==
  /\ n <= BatchMaxEvents
  /\ \A k \in 1..n : q[k].item = NoItem
  /\ n = 1 \/ QueuedBytes(SubSeq(q, 1, n)) <= BatchMaxBytes

\* How many of the queue go out: a consuming batch alone; else one more while
\* what goes out still fits.
CutOf(q) ==
  IF q[1].item # NoItem THEN q[1].size
  ELSE Cardinality({n \in DOMAIN q : \A m \in 1..n : Fits(q, m)})

\* The body of the batch in flight; neither part changes until the call settles.
BodyOf(e, batch) ==
  [lease |-> e, after |-> acked[e], evs |-> [k \in DOMAIN batch |-> batch[k].ev],
   item |-> batch[1].item]

\* The promises of a batch settle together.
Settled(e, batch, st, first) ==
  [n \in DOMAIN outcome[e] |->
     IF \E k \in DOMAIN batch : batch[k].ev.n = n
     THEN [outcome[e][n] EXCEPT !.st = st,
                                !.seq = IF st = "acked" THEN first + (n - batch[1].ev.n) ELSE 0]
     ELSE outcome[e][n]]

Numbers(batch) == {batch[k].ev.n : k \in DOMAIN batch}

\* stop(): everything in flight and queued is rejected.
Stop(e, batch, rest, cause) ==
  /\ fatal' = [fatal EXCEPT ![e] = cause]
  /\ outcome' = [outcome EXCEPT ![e] = Settled(e, batch \o rest, "failed", 0)]
  /\ queue' = [queue EXCEPT ![e] = <<>>]
  /\ inFlight' = [inFlight EXCEPT ![e] = <<>>]

HangUp(e) ==
  /\ attempt' = [attempt EXCEPT ![e] = 0]
  /\ wire' = [wire EXCEPT ![e] = "idle"]
  /\ answer' = [answer EXCEPT ![e] = NoAnswer]

\* A turn of drain()'s loop: cut a batch and send it, or leave the loop.  A lost
\* lease makes leaseId throw, inside the try.
DrainStep(e) ==
  /\ draining[e] = "loop"
  /\ \/ /\ queue[e] = <<>> \/ fatal[e] # "none"
        /\ draining' = [draining EXCEPT ![e] = "unwinding"]
        /\ UNCHANGED <<queue, inFlight, fatal, outcome, callVars>>
     \/ /\ queue[e] # <<>> /\ fatal[e] = "none" /\ lost[e]
        /\ Stop(e, <<>>, queue[e], "no_lease")
        /\ draining' = [draining EXCEPT ![e] = "unwinding"]
        /\ UNCHANGED callVars
     \/ /\ queue[e] # <<>> /\ fatal[e] = "none" /\ ~lost[e]
        /\ LET n == CutOf(queue[e])
               batch == SubSeq(queue[e], 1, n)
           IN /\ inFlight' = [inFlight EXCEPT ![e] = batch]
              /\ queue' = [queue EXCEPT ![e] = SubSeq(@, n + 1, Len(@))]
              /\ net' = net \cup {[body |-> BodyOf(e, batch), attempt |-> 1]}
        /\ attempt' = [attempt EXCEPT ![e] = 1]
        /\ wire' = [wire EXCEPT ![e] = "sent"]
        /\ draining' = [draining EXCEPT ![e] = "await"]
        /\ UNCHANGED <<fatal, outcome, answer>>
  /\ UNCHANGED <<phase, lost, acked, limit, kicked, kept, folded, stored, storeVars>>

-----------------------------------------------------------------------------
(* The client's call, and the network.                                     *)

\* Whether this request is the one its sender is waiting on.
Awaited(m) ==
  LET e == m.body.lease IN
  /\ wire[e] = "sent"
  /\ attempt[e] = m.attempt
  /\ answer[e] = NoAnswer
  /\ inFlight[e] # <<>>
  /\ m.body = BodyOf(e, inFlight[e])

Answered(m, code) ==
  answer' = IF Awaited(m)
            THEN [answer EXCEPT ![m.body.lease] =
                    [code |-> code, first |-> FirstSeq(m.body), last |-> LastSeq(m.body)]]
            ELSE answer

\* The request reaches the store, however late; its answer reaches a sender
\* that still waits for this attempt.
Deliver(m) ==
  /\ m \in net
  /\ net' = net \ {m}
  /\ HandleAppend(m.body)
  /\ Answered(m, AppendCode(m.body))
  /\ UNCHANGED <<attempt, wire, engineVars>>

\* The store answers 503 and does nothing.
DeliverBusy(m) ==
  /\ m \in net
  /\ net' = net \ {m}
  /\ Answered(m, "busy")
  /\ UNCHANGED <<attempt, wire, engineVars, storeVars>>

\* After a network failure, a timeout or a 5xx: another attempt while the
\* attempts and the retry budget last, else the call throws.
RetryOrThrow(e, cause) ==
  \/ /\ attempt[e] < MaxAttempts
     /\ wire' = [wire EXCEPT ![e] = "backoff"]
     /\ answer' = [answer EXCEPT ![e] = NoAnswer]
     /\ UNCHANGED <<attempt, fatal, outcome, queue, inFlight, draining>>
  \/ /\ Stop(e, inFlight[e], queue[e], cause)
     /\ draining' = [draining EXCEPT ![e] = "unwinding"]
     /\ HangUp(e)

\* No answer in time, lost on the way there or on the way back.
Timeout(e) ==
  /\ wire[e] = "sent"
  /\ RetryOrThrow(e, "unreachable")
  /\ UNCHANGED <<phase, lost, acked, limit, kicked, kept, folded, stored, net, storeVars>>

\* The wait is over: the same body once more.
Retry(e) ==
  /\ wire[e] = "backoff"
  /\ attempt' = [attempt EXCEPT ![e] = @ + 1]
  /\ wire' = [wire EXCEPT ![e] = "sent"]
  /\ net' = net \cup {[body |-> BodyOf(e, inFlight[e]), attempt |-> attempt[e] + 1]}
  /\ UNCHANGED <<answer, engineVars, storeVars>>

-----------------------------------------------------------------------------
(* The answer to the batch in flight.                                      *)

Accepted(e) == answer[e].code \in {"commit", "replay"}

\* Acknowledged: the promises resolve, and what waited for the ack is kept.
OnAck(e) ==
  /\ Accepted(e)
  /\ acked' = [acked EXCEPT ![e] = answer[e].last]
  /\ outcome' = [outcome EXCEPT ![e] = Settled(e, inFlight[e], "acked", answer[e].first)]
  /\ kept' = [kept EXCEPT ![e] = @ \cup Numbers(inFlight[e])]
  /\ UNCHANGED folded
  /\ stored' = [stored EXCEPT ![e] = @ \o [k \in DOMAIN inFlight[e] |-> inFlight[e][k].ev]]
  /\ inFlight' = [inFlight EXCEPT ![e] = <<>>]
  /\ draining' = [draining EXCEPT ![e] = "loop"]
  /\ HangUp(e)
  /\ UNCHANGED <<phase, lost, queue, fatal, limit, kicked, net, storeVars>>

\* Mutant: no refused event leaves the memory views.
OnRefusalKept(e) ==
  /\ answer[e].code = "event_too_large" /\ Len(inFlight[e]) = 1
  /\ outcome' = [outcome EXCEPT ![e] = Settled(e, inFlight[e], "refused", 0)]
  /\ limit' = [limit EXCEPT ![e] = MaxEventBytes]
  /\ inFlight' = [inFlight EXCEPT ![e] = <<>>]
  /\ draining' = [draining EXCEPT ![e] = "loop"]
  /\ HangUp(e)
  /\ UNCHANGED <<phase, lost, queue, acked, fatal, kicked, kept, folded, stored, net, storeVars>>

\* Nothing was written and the writer goes on: a withdrawn item, or one event
\* alone that is too large: its limit is learned, and the snapshot its caller
\* kept is dropped; a record stays folded.
OnRefusal(e) ==
  /\ \/ /\ answer[e].code = "not_pending" /\ inFlight[e][1].item # NoItem
        /\ outcome' = [outcome EXCEPT ![e] = Settled(e, inFlight[e], "withdrawn", 0)]
        /\ UNCHANGED <<limit, kept>>
     \/ /\ answer[e].code = "event_too_large" /\ Len(inFlight[e]) = 1
        /\ outcome' = [outcome EXCEPT ![e] = Settled(e, inFlight[e], "refused", 0)]
        /\ limit' = [limit EXCEPT ![e] = MaxEventBytes]
        /\ kept' = [kept EXCEPT ![e] = @ \ Numbers(inFlight[e])]
  /\ inFlight' = [inFlight EXCEPT ![e] = <<>>]
  /\ draining' = [draining EXCEPT ![e] = "loop"]
  /\ HangUp(e)
  /\ UNCHANGED <<phase, lost, queue, acked, fatal, kicked, folded, stored, net, storeVars>>

OnBusy(e) ==
  /\ answer[e].code = "busy"
  /\ RetryOrThrow(e, "busy")
  /\ UNCHANGED <<phase, lost, acked, limit, kicked, kept, folded, stored, net, storeVars>>

\* Anything else ends the writer: a hole would contradict what memory holds.
OnFatal(e) ==
  /\ \/ answer[e].code \in {"lease_lost", "seq_conflict", "batch_too_large"}
     \/ answer[e].code = "event_too_large" /\ Len(inFlight[e]) # 1
     \/ answer[e].code = "not_pending" /\ inFlight[e][1].item = NoItem
  /\ Stop(e, inFlight[e], queue[e], answer[e].code)
  /\ draining' = [draining EXCEPT ![e] = "unwinding"]
  /\ HangUp(e)
  /\ UNCHANGED <<phase, lost, acked, limit, kicked, kept, folded, stored, net, storeVars>>

-----------------------------------------------------------------------------
(* Losing the lease, closing, dying.                                       *)

\* The keeper's deadline passed, or a renew was answered lease_lost.
LoseLease(e) ==
  /\ phase[e] \in {"leased", "open"} /\ ~lost[e]
  /\ lost' = [lost EXCEPT ![e] = TRUE]
  /\ UNCHANGED <<phase, queue, inFlight, acked, fatal, limit, draining, kicked, outcome,
                 kept, folded, stored, storeVars, callVars>>

\* The process is gone (after a close, or killed) with all it held in memory;
\* requests it sent may still arrive.  Its promises stay, as history.
Gone(e) ==
  /\ phase' = [phase EXCEPT ![e] = "dead"]
  /\ lost' = [lost EXCEPT ![e] = FALSE]
  /\ queue' = [queue EXCEPT ![e] = <<>>]
  /\ inFlight' = [inFlight EXCEPT ![e] = <<>>]
  /\ acked' = [acked EXCEPT ![e] = 0]
  /\ fatal' = [fatal EXCEPT ![e] = "none"]
  /\ limit' = [limit EXCEPT ![e] = HostLimit]
  /\ draining' = [draining EXCEPT ![e] = "none"]
  /\ kicked' = [kicked EXCEPT ![e] = FALSE]
  /\ kept' = [kept EXCEPT ![e] = {}]
  /\ folded' = [folded EXCEPT ![e] = {}]
  /\ stored' = [stored EXCEPT ![e] = <<>>]
  /\ HangUp(e)
  /\ UNCHANGED <<outcome, net, log, appends, items>>

\* RemoteStore.close: flush, then give the lease back, even when the flush
\* failed; a release that fails leaves the lease to lapse.
Close(e) ==
  /\ phase[e] = "open"
  /\ ~kicked[e] /\ draining[e] = "none"
  /\ queue[e] = <<>> \/ fatal[e] # "none"
  /\ Gone(e)
  /\ \/ holder = e /\ ~lost[e] /\ holder' = NoEngine
     \/ UNCHANGED holder

Crash(e) ==
  /\ phase[e] \in {"leased", "open"}
  /\ Gone(e)
  /\ UNCHANGED holder

-----------------------------------------------------------------------------
OnAnswer(e) == OnAck(e) \/ OnRefusal(e) \/ OnBusy(e) \/ OnFatal(e)

EngineStep(e) ==
  \/ Adopt(e) \/ Open(e) \/ Kick(e) \/ Unwound(e) \/ DrainStep(e)
  \/ Timeout(e) \/ Retry(e) \/ OnAnswer(e)
  \/ LoseLease(e) \/ Close(e) \/ Crash(e)

\* One and two events are what the callers send (inbox-consume).
Calls(e) ==
  \/ \E size \in Sizes : Write(e, size, FALSE)
  \/ \E size \in RecordSizes : Write(e, size, TRUE)
  \/ \E i \in Items : \E size \in Sizes : Consume(e, i, <<size>>)
  \/ \E i \in Items : \E s1, s2 \in Sizes : Consume(e, i, <<s1, s2>>)

StoreStep ==
  /\ \/ LapseLease
     \/ \E i \in Items : WithdrawItem(i)
  /\ UNCHANGED <<engineVars, callVars>>

Next ==
  \/ \E e \in Engines : EngineStep(e) \/ Calls(e)
  \/ \E m \in net : Deliver(m) \/ DeliverBusy(m)
  \/ StoreStep

Spec == Init /\ [][Next]_vars

\* Microtasks run, timers fire and an answer that arrived is read.  Nothing is
\* assumed of the network or of the store.
Fairness ==
  \A e \in Engines :
    /\ WF_vars(Kick(e))
    /\ WF_vars(Unwound(e))
    /\ WF_vars(DrainStep(e))
    /\ WF_vars(Timeout(e))
    /\ WF_vars(Retry(e))
    /\ WF_vars(OnAnswer(e))

LiveSpec == Spec /\ Fairness

-----------------------------------------------------------------------------
(* Properties.                                                             *)

Outcome(ev) == outcome[ev.eng][ev.n]
InLog(e, n) == \E i \in DOMAIN log : log[i].eng = e /\ log[i].n = n

\* No event is stored twice, whatever is lost, delayed or retried.
NoDuplicate ==
  \A i, j \in DOMAIN log : log[i].eng = log[j].eng /\ log[i].n = log[j].n => i = j

\* A seq the batcher resolved is where that event is stored.
AckedIsDurable ==
  \A e \in Engines : \A n \in DOMAIN outcome[e] :
    outcome[e][n].st = "acked" =>
      /\ outcome[e][n].seq \in DOMAIN log
      /\ log[outcome[e][n].seq].eng = e
      /\ log[outcome[e][n].seq].n = n

\* RemoteStore.events() is exactly the store's log up to the last acknowledged
\* seq: no event of another engine is missing from it.
StoredIsLogPrefix ==
  \A e \in Engines : phase[e] = "open" => stored[e] = SubSeq(log, 1, acked[e])

\* The log has an engine's events in the order they were pushed, and skips one
\* only when its promise said so: the log has no hole memory does not know of.
NoSilentHole ==
  \A i \in DOMAIN log : \A m \in 1..(log[i].n - 1) :
    \/ \E j \in 1..(i - 1) : log[j].eng = log[i].eng /\ log[j].n = m
    \/ outcome[log[i].eng][m].st \in {"refused", "withdrawn"}

\* The events of an engine are one stretch of the log: a late request of an
\* engine that was replaced never lands between another's.
Fenced ==
  \A i, j, k \in DOMAIN log :
    i < j /\ j < k /\ log[i].eng = log[k].eng => log[j].eng = log[i].eng

\* An inbox item is consumed exactly when the opening events written for it are
\* in the log, all of them, side by side, and nothing else in their append.
ConsumedIffOpened ==
  \A i \in Items :
    LET opening == {k \in DOMAIN log : Outcome(log[k]).item = i}
        taken   == {b \in appends : b.item = i} IN
    /\ items[i] = "consumed" <=> opening # {}
    /\ Cardinality(taken) <= 1
    /\ \A b \in taken : opening = FirstSeq(b)..LastSeq(b)

View(e) == kept[e] \cup folded[e]

\* With nothing queued or in flight and the writer alive, the memory views hold
\* exactly the events of this engine that the store holds, and the session
\* records that it refused.
QuietViewIsLog ==
  \A e \in Engines :
    phase[e] = "open" /\ fatal[e] = "none" /\ queue[e] = <<>> /\ inFlight[e] = <<>> =>
      View(e) = {n \in DOMAIN outcome[e] : InLog(e, n)}
                  \cup {n \in folded[e] : outcome[e][n].st = "refused"}

\* "a later refusal calls `drop`": what the store refused is in no view.
RefusedIsDropped ==
  \A e \in Engines : \A n \in DOMAIN outcome[e] : outcome[e][n].st = "refused" => n \notin View(e)

\* What the header of batcher.ts says of an event over the limit: it is refused
\* on its own and the writer carries on.
TooLargeNeverStops ==
  \A e \in Engines : fatal[e] \notin {"event_too_large", "batch_too_large"}

\* The batcher implements the durable log: bytes, items and the reason of a
\* refusal are its detail.
Durable == INSTANCE DurableLog WITH
  Nobody <- NoEngine,
  log    <- [i \in DOMAIN log |-> [eng |-> log[i].eng, n |-> log[i].n]],
  fate   <- [e \in Engines |-> [n \in DOMAIN outcome[e] |->
              [st  |-> IF outcome[e][n].st = "withdrawn" THEN "refused" ELSE outcome[e][n].st,
               seq |-> outcome[e][n].seq]]],
  writer <- holder

\* Every step of the writer, the client, the network and the store is a step of
\* the durable log, or one it does not see.
ImplementsDurableLog == Durable!Spec

-----------------------------------------------------------------------------
(* Why no event is stored twice and every ack is true: the inductive       *)
(* invariant of AppendBatcherProofs.                                       *)

\* A consuming batch waits in a queue as a whole.
Whole(q) ==
  \A k \in DOMAIN q : q[k].item # NoItem => q[k].size \in 1..(Len(q) - k + 1)

\* The entries are one engine's events, numbered on from the t-th.
NumberedFrom(q, e, t) == \A k \in DOMAIN q : q[k].ev.eng = e /\ q[k].ev.n = t + k

\* A call is under way exactly while a batch is in flight.
CallTracksFlight(e) ==
  /\ wire[e] = "idle" <=> inFlight[e] = <<>>
  /\ wire[e] # "idle" => attempt[e] >= 1
  /\ wire[e] = "backoff" => attempt[e] < MaxAttempts
  /\ answer[e] # NoAnswer => wire[e] = "sent"
  /\ draining[e] # "await" => inFlight[e] = <<>>
  /\ phase[e] # "open" => queue[e] = <<>> /\ inFlight[e] = <<>> /\ draining[e] = "none"

\* How many of the engine's events were taken out of its queue.
Taken(e) == Len(outcome[e]) - Len(queue[e])

\* What is in flight and queued is the tail of what was pushed, in order.
Numbered(e) ==
  /\ Len(inFlight[e]) <= Taken(e)
  /\ NumberedFrom(queue[e], e, Taken(e))
  /\ NumberedFrom(inFlight[e], e, Taken(e) - Len(inFlight[e]))

Shape == \A e \in Engines : Whole(queue[e]) /\ CallTracksFlight(e) /\ Numbered(e)

\* Every body that was sent and may still matter to the store.
Bodies == {m.body : m \in net} \cup appends

\* A body holds consecutive events of its sender, none still queued.
BodyShape ==
  \A b \in Bodies : \A k \in DOMAIN b.evs :
    /\ b.evs[k].eng = b.lease
    /\ b.evs[k].n = b.evs[1].n + k - 1
    /\ b.evs[k].n <= Taken(b.lease)

\* An event is only ever sent in one body, the one in flight included.
OneBody ==
  /\ \A b, c \in Bodies : \A k \in DOMAIN b.evs, l \in DOMAIN c.evs :
       b.lease = c.lease /\ b.evs[k].n = c.evs[l].n => b = c
  /\ \A e \in Engines : \A b \in Bodies : \A k \in DOMAIN b.evs, l \in DOMAIN inFlight[e] :
       b.lease = e /\ b.evs[k].n = inFlight[e][l].ev.n => b = BodyOf(e, inFlight[e])

\* The log is the appends committed, each at its after_seq.
LogIsAppends ==
  /\ \A i \in DOMAIN log : \E b \in appends : \E k \in DOMAIN b.evs :
       i = b.after + k /\ log[i] = b.evs[k]
  /\ \A b \in appends : b.after + Len(b.evs) <= Len(log)
  /\ \A b \in appends : \A k \in DOMAIN b.evs : log[b.after + k] = b.evs[k]

\* An answer that was not read yet tells the truth about the batch in flight.
AnswerIsTrue ==
  \A e \in Engines : Accepted(e) =>
    /\ BodyOf(e, inFlight[e]) \in appends
    /\ answer[e].first = acked[e] + 1
    /\ answer[e].last = acked[e] + Len(inFlight[e])

\* Everything above, with the types and the property of the acknowledged events.
Inductive ==
  /\ TypeOK /\ Shape
  /\ BodyShape /\ OneBody /\ LogIsAppends /\ AnswerIsTrue /\ AckedIsDurable

\* An engine that is open owes nobody an answer.
AllSettled(e) == phase[e] = "open" => \A n \in DOMAIN outcome[e] : outcome[e][n].st # "pending"

\* Every push settles while its engine lives: a drain that unwinds while a push
\* arrives, a lost answer or a lost lease never leaves a promise open.  (Pushes are
\* bounded, so a promise left open would be open for good.)
EverySettles == \A e \in Engines : []<>AllSettled(e)

\* What take-overs must keep of the log (SessionStore's append handler, drain, Stop): it
\* only grows by whole batches, has no hole nobody was told of, and no fenced writer's events.
LogSound == StoredIsLogPrefix /\ NoSilentHole /\ Fenced

\* An inbox item is consumed exactly when its turn was opened, and a writer at rest shows
\* the log (consume, onAck).
OpenedAndShown == ConsumedIffOpened /\ QuietViewIsLog
=============================================================================
