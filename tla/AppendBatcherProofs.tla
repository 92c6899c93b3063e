------------------------- MODULE AppendBatcherProofs ------------------------
(***************************************************************************)
(* For any number of engine incarnations, events, retries, items and       *)
(* limits: types, no event is stored twice, an acknowledged seq is where   *)
(* the event is (the invariant is AppendBatcher!Inductive); then what      *)
(* take-overs, refusals and withdrawn items leave of the log and of the    *)
(* memory views, and that the batcher implements DurableLog.               *)
(*                                                                         *)
(* The second argument: an engine's promises settle from the front, a      *)
(* batch at a time (SettledInOrder), so a body is only ever sent once      *)
(* every event before it was acknowledged or refused (Told); what the      *)
(* store refused it will always refuse, because an event keeps its size    *)
(* and an item never becomes pending again (AnswerStands); and an engine   *)
(* that lost its lease never gets it back, so its events are one stretch   *)
(* of the log (AtEnd).                                                     *)
(***************************************************************************)
EXTENDS AppendBatcher, SequenceTheorems, FiniteSetTheorems, TLAPS

-----------------------------------------------------------------------------
(* Data.                                                                   *)

\* A function on 1..n is a sequence: how the queue entries, bodies and
\* promises of the model are built.
LEMMA FunIsSeq ==
  ASSUME NEW S, NEW n \in Nat, NEW f \in [1..n -> S]
  PROVE  f \in Seq(S) /\ Len(f) = n
BY SMT

LEMMA BelowDifference ==
  ASSUME NEW x \in Nat, NEW y \in Nat, NEW z \in Nat, z <= x - y
  PROVE  0 <= x - y
OBVIOUS

\* What a sequence has at an index, and that one that is not empty has a first.
LEMMA SeqAt ==
  ASSUME NEW S, NEW s \in Seq(S)
  PROVE  /\ Len(s) \in Nat /\ DOMAIN s = 1..Len(s)
         /\ \A k \in DOMAIN s : s[k] \in S
         /\ s # <<>> => Len(s) >= 1 /\ 1 \in DOMAIN s /\ s[1] \in S
BY SMT

\* Where the elements of a concatenation come from.
LEMMA ConcatAt ==
  ASSUME NEW S, NEW s \in Seq(S), NEW t \in Seq(S)
  PROVE  /\ s \o t \in Seq(S)
         /\ Len(s \o t) = Len(s) + Len(t)
         /\ DOMAIN (s \o t) = 1..(Len(s) + Len(t))
         /\ \A k \in 1..Len(s) : (s \o t)[k] = s[k]
         /\ \A k \in 1..Len(t) : (s \o t)[Len(s) + k] = t[k]
BY SMT

\* What is left of a sequence once its first n are cut off.
LEMMA RestFacts ==
  ASSUME NEW S, NEW s \in Seq(S), NEW n \in 1..Len(s)
  PROVE  /\ SubSeq(s, n + 1, Len(s)) \in Seq(S)
         /\ Len(SubSeq(s, n + 1, Len(s))) = Len(s) - n
         /\ DOMAIN SubSeq(s, n + 1, Len(s)) = 1..(Len(s) - n)
         /\ \A k \in 1..(Len(s) - n) : SubSeq(s, n + 1, Len(s))[k] = s[n + k]
<1>1. /\ SubSeq(s, n + 1, Len(s)) \in Seq(S)
      /\ Len(SubSeq(s, n + 1, Len(s))) = Len(s) - n
  OBVIOUS
<1>2. DOMAIN SubSeq(s, n + 1, Len(s)) = 1..(Len(s) - n)
  BY <1>1
<1> QED  BY <1>1, <1>2

\* To append an element is to concatenate it.
LEMMA AddIsConcat ==
  ASSUME NEW S, NEW s \in Seq(S), NEW x \in S
  PROVE  Append(s, x) = s \o <<x>>
OBVIOUS

\* A call pushes one event, or one or two that consume an item.
LEMMA CallCases ==
  ASSUME NEW e \in Engines, Calls(e)
  PROVE  \/ \E size \in Sizes : \E record \in BOOLEAN : Write(e, size, record)
         \/ \E i \in Items : \E sizes \in Seq(Sizes) : Len(sizes) \in {1, 2} /\ Consume(e, i, sizes)
<1>1. RecordSizes \subseteq Sizes
  BY BatcherAssumption
<1>2. \A s1, s2 \in Sizes :
        /\ <<s1>> \in Seq(Sizes) /\ <<s1, s2>> \in Seq(Sizes)
        /\ Len(<<s1>>) \in {1, 2} /\ Len(<<s1, s2>>) \in {1, 2}
  OBVIOUS
<1>3. CASE \/ \E size \in Sizes : Write(e, size, FALSE)
          \/ \E size \in RecordSizes : Write(e, size, TRUE)
  BY <1>1, <1>3
<1>4. CASE \/ \E i \in Items : \E size \in Sizes : Consume(e, i, <<size>>)
          \/ \E i \in Items : \E s1, s2 \in Sizes : Consume(e, i, <<s1, s2>>)
  BY <1>2, <1>4
<1> QED  BY <1>3, <1>4 DEF Calls

\* What was taken out of a queue of q after l pushes, once n more are.
LEMMA AfterCut ==
  ASSUME NEW l \in Nat, NEW q \in Nat, NEW n \in Nat
  PROVE  l - (q - n) = (l - q) + n
OBVIOUS

\* The events of a batch are a sequence of events, as long as the batch.
LEMMA BatchEvents ==
  ASSUME NEW batch \in Seq(Queued)
  PROVE  LET evs == [k \in DOMAIN batch |-> batch[k].ev] IN
         evs \in Seq(Event) /\ Len(evs) = Len(batch)
<1>1. DOMAIN batch = 1..Len(batch) /\ Len(batch) \in Nat
  OBVIOUS
<1>2. ASSUME NEW k \in DOMAIN batch PROVE batch[k].ev \in Event
  <2>1. batch[k] \in Queued
    OBVIOUS
  <2> QED  BY <2>1 DEF Queued
<1>3. [k \in DOMAIN batch |-> batch[k].ev] \in [1..Len(batch) -> Event]
  BY <1>1, <1>2
<1> QED  BY <1>1, <1>3, FunIsSeq

\* What a batch is sent as is an append body.
LEMMA BodyOfType ==
  ASSUME TypeOK, NEW e \in Engines, NEW batch \in Seq(Queued), batch # <<>>
  PROVE  /\ BodyOf(e, batch) \in Body
         /\ Len(BodyOf(e, batch).evs) = Len(batch)
<1>1. /\ [k \in DOMAIN batch |-> batch[k].ev] \in Seq(Event)
      /\ Len([k \in DOMAIN batch |-> batch[k].ev]) = Len(batch)
  BY BatchEvents
<1>2. batch[1].item \in Items \cup {NoItem}
  <2>1. batch[1] \in Queued
    BY SeqAt
  <2> QED  BY <2>1 DEF Queued
<1>3. acked[e] \in Nat
  BY DEF TypeOK
<1> QED  BY <1>1, <1>2, <1>3 DEF BodyOf, Body

\* Settling a batch keeps every promise a promise, and their number.
LEMMA SettledType ==
  ASSUME TypeOK, NEW e \in Engines, NEW batch \in Seq(Queued),
         NEW st \in {"acked", "refused", "withdrawn", "failed"}, NEW first \in Nat,
         st = "acked" => \A k \in DOMAIN batch : batch[k].ev.n >= batch[1].ev.n
  PROVE  /\ Settled(e, batch, st, first) \in Seq(Promise)
         /\ Len(Settled(e, batch, st, first)) = Len(outcome[e])
         /\ DOMAIN Settled(e, batch, st, first) = DOMAIN outcome[e]
<1>1. outcome[e] \in Seq(Promise)
  BY DEF TypeOK
<1>2. ASSUME NEW n \in DOMAIN outcome[e]
      PROVE  Settled(e, batch, st, first)[n] \in Promise
  <2>1. outcome[e][n] \in Promise
    BY <1>1
  <2>2. CASE \E k \in DOMAIN batch : batch[k].ev.n = n
    <3>1. PICK k \in DOMAIN batch : batch[k].ev.n = n
      BY <2>2
    <3>2. batch[1].ev.n \in Nat /\ n \in Nat /\ (st = "acked" => n >= batch[1].ev.n)
      <4>1. batch[1] \in Queued
        BY <3>1, SeqAt
      <4> QED  BY <4>1, <3>1, <1>1, SMTT(30) DEF Queued, Event
    <3>3. st = "acked" => first + (n - batch[1].ev.n) \in Nat
      BY <3>2
    <3> QED  BY <2>1, <2>2, <3>3 DEF Settled, Promise
  <2>3. CASE ~\E k \in DOMAIN batch : batch[k].ev.n = n
    BY <2>1, <2>3 DEF Settled
  <2> QED  BY <2>2, <2>3
<1>3. /\ DOMAIN Settled(e, batch, st, first) = DOMAIN outcome[e]
      /\ Settled(e, batch, st, first) =
           [n \in DOMAIN outcome[e] |-> Settled(e, batch, st, first)[n]]
  BY DEF Settled
<1>4. DOMAIN outcome[e] = 1..Len(outcome[e]) /\ Len(outcome[e]) \in Nat
  BY <1>1
<1>5. Settled(e, batch, st, first) \in [1..Len(outcome[e]) -> Promise]
  BY <1>2, <1>3, <1>4
<1> QED  BY <1>3, <1>4, <1>5, FunIsSeq

\* A drain step sends at least one event and no more than are queued.
LEMMA CutOfRange ==
  ASSUME TypeOK, Shape, NEW e \in Engines, queue[e] # <<>>
  PROVE  CutOf(queue[e]) \in 1..Len(queue[e])
<1> DEFINE q == queue[e]
           C == {n \in DOMAIN q : \A m \in 1..n : Fits(q, m)}
<1>1. q \in Seq(Queued) /\ Len(q) \in Nat /\ Len(q) >= 1 /\ DOMAIN q = 1..Len(q)
  BY DEF TypeOK
<1>2. CASE q[1].item # NoItem
  <2>1. 1 \in DOMAIN queue[e]
    BY <1>1
  <2>2. queue[e][1].size \in 1..(Len(queue[e]) - 1 + 1)
    BY <1>2, <2>1 DEF Shape, Whole
  <2> QED  BY <1>1, <1>2, <2>2 DEF CutOf
<1>3. CASE q[1].item = NoItem
  <2>1. 1 \in C
    BY <1>1, <1>3, BatcherAssumption DEF Fits
  <2>2. IsFiniteSet(1..Len(q)) /\ Cardinality(1..Len(q)) = Len(q)
    BY <1>1, FS_Interval
  <2>3. C \in SUBSET (1..Len(q))
    BY <1>1
  <2>4. IsFiniteSet(C) /\ Cardinality(C) <= Len(q)
    BY <2>2, <2>3, FS_Subset
  <2>5. Cardinality(C) \in Nat /\ Cardinality(C) # 0
    BY <2>1, <2>4, FS_CardinalityType, FS_EmptySet
  <2> QED  BY <1>1, <1>3, <2>4, <2>5 DEF CutOf
<1> QED  BY <1>2, <1>3

-----------------------------------------------------------------------------
(* Types.                                                                  *)

\* What an action leaves alone keeps its type.
LEMMA TypeStutter == TypeOK /\ UNCHANGED vars => TypeOK'
BY DEF TypeOK, StoreTypeOK, vars, storeVars, callVars, engineVars

LEMMA TypeInit == Init => TypeOK
BY BatcherAssumption, StoreAssumption
DEF Init, StoreInit, TypeOK, StoreTypeOK, ItemState, Causes, Answer

LEMMA TypeAdopt == ASSUME TypeOK, NEW e \in Engines, Adopt(e) PROVE TypeOK'
BY DEF Adopt, GrantLease, TypeOK, StoreTypeOK, callVars

LEMMA TypeOpen == ASSUME TypeOK, NEW e \in Engines, Open(e) PROVE TypeOK'
<1>1. log \in Seq(Event) /\ Len(log) \in Nat
  BY DEF TypeOK, StoreTypeOK
<1>2. /\ phase' \in [Engines -> {"new", "leased", "open", "dead"}]
      /\ acked' \in [Engines -> Nat]
      /\ stored' \in [Engines -> Seq(Event)]
  BY <1>1 DEF Open, TypeOK
<1>3. UNCHANGED <<lost, queue, inFlight, fatal, limit, draining, kicked, outcome, kept,
                  folded, storeVars, callVars>>
  BY DEF Open
<1> QED  BY <1>2, <1>3 DEF TypeOK, StoreTypeOK, callVars, storeVars

LEMMA TypeKick == ASSUME TypeOK, NEW e \in Engines, Kick(e) PROVE TypeOK'
BY DEF Kick, TypeOK, StoreTypeOK, callVars, storeVars

LEMMA TypeUnwound == ASSUME TypeOK, NEW e \in Engines, Unwound(e) PROVE TypeOK'
BY DEF Unwound, TypeOK, StoreTypeOK, callVars, storeVars

LEMMA TypeLoseLease == ASSUME TypeOK, NEW e \in Engines, LoseLease(e) PROVE TypeOK'
BY DEF LoseLease, TypeOK, StoreTypeOK, callVars, storeVars

LEMMA TypeGone ==
  ASSUME TypeOK, NEW e \in Engines, Gone(e), holder' \in {holder, NoEngine}
  PROVE  TypeOK'
<1>1. HostLimit \in Nat \cup {NoLimit} /\ 0 \in 0..MaxAttempts /\ "none" \in Causes
  BY BatcherAssumption DEF Causes
<1>2. NoAnswer \in Answer
  BY DEF Answer
<1>3. StoreTypeOK' /\ net' \subseteq [body: Body, attempt: 1..MaxAttempts]
  BY DEF Gone, TypeOK, StoreTypeOK
<1>4. /\ attempt' \in [Engines -> 0..MaxAttempts]
      /\ wire' \in [Engines -> {"idle", "sent", "backoff"}]
      /\ answer' \in [Engines -> Answer]
  BY <1>1, <1>2 DEF Gone, HangUp, TypeOK
<1>5. /\ limit' \in [Engines -> Nat \cup {NoLimit}]
      /\ fatal' \in [Engines -> Causes]
      /\ outcome' \in [Engines -> Seq(Promise)]
      /\ kept' \in [Engines -> SUBSET (Nat \ {0})]
      /\ folded' \in [Engines -> SUBSET (Nat \ {0})]
      /\ stored' \in [Engines -> Seq(Event)]
  BY <1>1 DEF Gone, TypeOK
<1>6. /\ phase' \in [Engines -> {"new", "leased", "open", "dead"}]
      /\ lost' \in [Engines -> BOOLEAN]
      /\ queue' \in [Engines -> Seq(Queued)]
      /\ inFlight' \in [Engines -> Seq(Queued)]
      /\ acked' \in [Engines -> Nat]
      /\ draining' \in [Engines -> {"none", "loop", "await", "unwinding"}]
      /\ kicked' \in [Engines -> BOOLEAN]
  BY DEF Gone, TypeOK
<1> QED  BY <1>3, <1>4, <1>5, <1>6 DEF TypeOK

LEMMA TypeRetry ==
  ASSUME TypeOK, Shape, NEW e \in Engines, Retry(e) PROVE TypeOK'
<1>1. /\ BodyOf(e, inFlight[e]) \in Body
      /\ attempt[e] + 1 \in 1..MaxAttempts
  <2>1. inFlight[e] \in Seq(Queued) /\ inFlight[e] # <<>>
    BY DEF Retry, Shape, CallTracksFlight, TypeOK
  <2>2. attempt[e] \in 1..MaxAttempts /\ attempt[e] < MaxAttempts
    BY DEF Retry, Shape, CallTracksFlight, TypeOK
  <2> QED  BY <2>1, <2>2, BodyOfType, BatcherAssumption
<1> QED  BY <1>1 DEF Retry, TypeOK, StoreTypeOK, storeVars, engineVars

LEMMA TypeWrite ==
  ASSUME TypeOK, NEW e \in Engines, NEW size \in Sizes, NEW record \in BOOLEAN,
         Write(e, size, record)
  PROVE  TypeOK'
<1>1. /\ queue[e] \in Seq(Queued) /\ outcome[e] \in Seq(Promise)
      /\ size \in Nat /\ Len(outcome[e]) + 1 \in Nat \ {0}
  BY BatcherAssumption DEF TypeOK
<1>2. [ev |-> NextEvent(e, 1, size), item |-> NoItem, size |-> 1] \in Queued
  BY <1>1 DEF NextEvent, Queued, Event
<1>3. Pending(NoItem) \in Promise
  BY DEF Pending, Promise
<1>4. queue' \in [Engines -> Seq(Queued)] /\ outcome' \in [Engines -> Seq(Promise)]
  BY <1>1, <1>2, <1>3 DEF Write, TypeOK
<1>5. kept' \in [Engines -> SUBSET (Nat \ {0})]
  BY <1>1 DEF Write, TypeOK
<1>6. folded' \in [Engines -> SUBSET (Nat \ {0})]
  BY <1>1 DEF Write, TypeOK
<1> QED  BY <1>4, <1>5, <1>6 DEF Write, TypeOK, StoreTypeOK, callVars, storeVars

\* What a consuming append queues.
LEMMA OpeningFacts ==
  ASSUME TypeOK, NEW e \in Engines, NEW i \in Items, NEW sizes \in Seq(Sizes)
  PROVE  /\ Opening(e, i, sizes) \in Seq(Queued)
         /\ OpeningPromises(i, sizes) \in Seq(Promise)
         /\ Len(Opening(e, i, sizes)) = Len(sizes)
         /\ Len(OpeningPromises(i, sizes)) = Len(sizes)
         /\ \A k \in 1..Len(sizes) :
              /\ Opening(e, i, sizes)[k].ev.eng = e
              /\ Opening(e, i, sizes)[k].ev.n = Len(outcome[e]) + k
              /\ Opening(e, i, sizes)[k].item # NoItem =>
                   k = 1 /\ Opening(e, i, sizes)[k].size = Len(sizes)
<1> DEFINE qs == Opening(e, i, sizes)
           ps == OpeningPromises(i, sizes)
<1>1. DOMAIN sizes = 1..Len(sizes) /\ Len(sizes) \in Nat /\ Len(outcome[e]) \in Nat
  BY DEF TypeOK
<1>2. ASSUME NEW k \in DOMAIN sizes
      PROVE  qs[k] \in Queued /\ ps[k] \in Promise
  <2>1. sizes[k] \in Nat /\ Len(outcome[e]) + k \in Nat \ {0}
    <3>1. sizes[k] \in Sizes
      BY <1>1
    <3>2. sizes[k] \in Nat
      BY <3>1, BatcherAssumption
    <3>3. k \in Nat /\ k >= 1
      BY <1>1
    <3> QED  BY <1>1, <3>2, <3>3
  <2> QED  BY <1>1, <2>1 DEF Opening, OpeningPromises, NextEvent, Queued, Event, Pending, Promise
<1>3. qs \in [1..Len(sizes) -> Queued] /\ ps \in [1..Len(sizes) -> Promise]
  BY <1>1, <1>2 DEF Opening, OpeningPromises
<1>4. /\ qs \in Seq(Queued) /\ ps \in Seq(Promise)
      /\ Len(qs) = Len(sizes) /\ Len(ps) = Len(sizes)
  BY <1>1, <1>3, FunIsSeq
<1>5. \A k \in 1..Len(sizes) :
        /\ qs[k].ev.eng = e /\ qs[k].ev.n = Len(outcome[e]) + k
        /\ qs[k].item # NoItem => k = 1 /\ qs[k].size = Len(sizes)
  BY <1>1 DEF Opening, NextEvent
<1> QED  BY <1>4, <1>5

LEMMA TypeConsume ==
  ASSUME TypeOK, NEW e \in Engines, NEW i \in Items, NEW sizes \in Seq(Sizes),
         Consume(e, i, sizes)
  PROVE  TypeOK'
<1>1. /\ queue[e] \o Opening(e, i, sizes) \in Seq(Queued)
      /\ outcome[e] \o OpeningPromises(i, sizes) \in Seq(Promise)
  BY OpeningFacts, ConcatProperties DEF TypeOK
<1>2. queue' \in [Engines -> Seq(Queued)] /\ outcome' \in [Engines -> Seq(Promise)]
  BY <1>1 DEF Consume, TypeOK
<1> QED  BY <1>2 DEF Consume, TypeOK, StoreTypeOK, callVars, storeVars

LEMMA TypeStop ==
  ASSUME TypeOK, NEW e \in Engines, NEW batch \in Seq(Queued), NEW rest \in Seq(Queued),
         NEW cause \in Causes, Stop(e, batch, rest, cause)
  PROVE  /\ fatal' \in [Engines -> Causes]
         /\ outcome' \in [Engines -> Seq(Promise)]
         /\ queue' \in [Engines -> Seq(Queued)]
         /\ inFlight' \in [Engines -> Seq(Queued)]
<1>1. batch \o rest \in Seq(Queued)
  BY ConcatProperties
<1>2. Settled(e, batch \o rest, "failed", 0) \in Seq(Promise)
  BY <1>1, SettledType
<1>3. /\ fatal \in [Engines -> Causes] /\ outcome \in [Engines -> Seq(Promise)]
      /\ queue \in [Engines -> Seq(Queued)] /\ inFlight \in [Engines -> Seq(Queued)]
  BY DEF TypeOK
<1>4. outcome' \in [Engines -> Seq(Promise)]
  BY <1>2, <1>3 DEF Stop
<1> QED  BY <1>3, <1>4 DEF Stop

LEMMA TypeHangUp ==
  ASSUME TypeOK, NEW e \in Engines, HangUp(e)
  PROVE  /\ attempt' \in [Engines -> 0..MaxAttempts]
         /\ wire' \in [Engines -> {"idle", "sent", "backoff"}]
         /\ answer' \in [Engines -> Answer]
BY BatcherAssumption DEF HangUp, TypeOK, Answer

LEMMA TypeRetryOrThrow ==
  ASSUME TypeOK, NEW e \in Engines, NEW cause \in Causes, RetryOrThrow(e, cause),
         UNCHANGED <<phase, lost, acked, limit, kicked, kept, folded, stored, net, storeVars>>
  PROVE  TypeOK'
<1>1. CASE /\ wire' = [wire EXCEPT ![e] = "backoff"]
           /\ answer' = [answer EXCEPT ![e] = NoAnswer]
           /\ UNCHANGED <<attempt, fatal, outcome, queue, inFlight, draining>>
  BY <1>1 DEF TypeOK, StoreTypeOK, storeVars, Answer
<1>2. CASE /\ Stop(e, inFlight[e], queue[e], cause)
           /\ draining' = [draining EXCEPT ![e] = "unwinding"]
           /\ HangUp(e)
  <2>1. inFlight[e] \in Seq(Queued) /\ queue[e] \in Seq(Queued)
    BY DEF TypeOK
  <2> QED  BY <1>2, <2>1, TypeStop, TypeHangUp DEF TypeOK, StoreTypeOK, storeVars
<1> QED  BY <1>1, <1>2 DEF RetryOrThrow

LEMMA TypeTimeout == ASSUME TypeOK, NEW e \in Engines, Timeout(e) PROVE TypeOK'
BY TypeRetryOrThrow DEF Timeout, Causes

LEMMA TypeOnBusy == ASSUME TypeOK, NEW e \in Engines, OnBusy(e) PROVE TypeOK'
BY TypeRetryOrThrow DEF OnBusy, Causes, Codes

LEMMA TypeDrainStep ==
  ASSUME TypeOK, Shape, NEW e \in Engines, DrainStep(e) PROVE TypeOK'
<1>1. CASE /\ draining' = [draining EXCEPT ![e] = "unwinding"]
           /\ UNCHANGED <<queue, inFlight, fatal, outcome, callVars>>
  BY <1>1 DEF DrainStep, TypeOK, StoreTypeOK, callVars, storeVars
<1>2. CASE /\ Stop(e, <<>>, queue[e], "no_lease")
           /\ draining' = [draining EXCEPT ![e] = "unwinding"]
           /\ UNCHANGED callVars
  <2>1. <<>> \in Seq(Queued) /\ queue[e] \in Seq(Queued) /\ "no_lease" \in Causes
    BY DEF TypeOK, Causes
  <2> QED  BY <1>2, <2>1, TypeStop DEF DrainStep, TypeOK, StoreTypeOK, callVars, storeVars
<1> DEFINE n == CutOf(queue[e])
           batch == SubSeq(queue[e], 1, n)
           rest == SubSeq(queue[e], n + 1, Len(queue[e]))
<1>3. CASE /\ queue[e] # <<>>
           /\ inFlight' = [inFlight EXCEPT ![e] = batch]
           /\ queue' = [queue EXCEPT ![e] = rest]
           /\ net' = net \cup {[body |-> BodyOf(e, batch), attempt |-> 1]}
           /\ attempt' = [attempt EXCEPT ![e] = 1]
           /\ wire' = [wire EXCEPT ![e] = "sent"]
           /\ draining' = [draining EXCEPT ![e] = "await"]
           /\ UNCHANGED <<fatal, outcome, answer>>
  <2>1. queue[e] \in Seq(Queued) /\ n \in 1..Len(queue[e])
    BY <1>3, CutOfRange DEF TypeOK
  <2>2. batch \in Seq(Queued) /\ Len(batch) = n /\ rest \in Seq(Queued) /\ batch # <<>>
    BY <2>1
  <2>3. BodyOf(e, batch) \in Body /\ 1 \in 1..MaxAttempts /\ 1 \in 0..MaxAttempts
    <3>1. BodyOf(e, batch) \in Body
      BY <2>2, BodyOfType
    <3> QED  BY <3>1, BatcherAssumption
  <2>4. inFlight' \in [Engines -> Seq(Queued)] /\ queue' \in [Engines -> Seq(Queued)]
    BY <1>3, <2>2 DEF TypeOK
  <2>5. net' \subseteq [body: Body, attempt: 1..MaxAttempts]
    BY <1>3, <2>3 DEF TypeOK
  <2>6. attempt' \in [Engines -> 0..MaxAttempts]
    BY <1>3, <2>3 DEF TypeOK
  <2> QED  BY <1>3, <2>4, <2>5, <2>6 DEF DrainStep, TypeOK, StoreTypeOK, storeVars
<1> QED  BY <1>1, <1>2, <1>3 DEF DrainStep

LEMMA CodeType == ASSUME NEW b PROVE AppendCode(b) \in Codes
BY DEF AppendCode, Codes

LEMMA TypeAnswered ==
  ASSUME TypeOK, NEW m \in net, NEW code \in Codes, Answered(m, code)
  PROVE  answer' \in [Engines -> Answer]
<1>1. m.body \in Body /\ m.body.lease \in Engines
  BY DEF TypeOK, Body
<1>2. FirstSeq(m.body) \in Nat /\ LastSeq(m.body) \in Nat
  BY <1>1 DEF FirstSeq, LastSeq, Body
<1> QED  BY <1>1, <1>2 DEF Answered, TypeOK, Answer

LEMMA TypeDeliver == ASSUME TypeOK, NEW m \in net, Deliver(m) PROVE TypeOK'
<1>1. answer' \in [Engines -> Answer]
  BY CodeType, TypeAnswered DEF Deliver
<1>2. m.body \in Body
  BY DEF TypeOK
<1>3. StoreTypeOK'
  <2>1. CASE AppendCode(m.body) = "commit"
    <3>1. log' = log \o m.body.evs /\ log \in Seq(Event) /\ m.body.evs \in Seq(Event)
      BY <1>2, <2>1 DEF Deliver, HandleAppend, TypeOK, StoreTypeOK, Body
    <3>2. log' \in Seq(Event)
      BY <3>1, ConcatProperties
    <3>3. items' \in [Items -> ItemState]
      BY <2>1 DEF Deliver, HandleAppend, TypeOK, StoreTypeOK, ItemState
    <3> QED  BY <1>2, <2>1, <3>2, <3>3 DEF Deliver, HandleAppend, TypeOK, StoreTypeOK
  <2>2. CASE AppendCode(m.body) # "commit"
    BY <2>2 DEF Deliver, HandleAppend, TypeOK, StoreTypeOK, storeVars
  <2> QED  BY <2>1, <2>2
<1> QED  BY <1>1, <1>3 DEF Deliver, TypeOK, engineVars

LEMMA TypeDeliverBusy == ASSUME TypeOK, NEW m \in net, DeliverBusy(m) PROVE TypeOK'
<1>1. answer' \in [Engines -> Answer]
  BY TypeAnswered DEF DeliverBusy, Codes
<1> QED  BY <1>1 DEF DeliverBusy, TypeOK, StoreTypeOK, engineVars, storeVars

\* The events in flight are numbered upwards.
LEMMA InFlightAscends ==
  ASSUME TypeOK, Shape, NEW e \in Engines
  PROVE  \A k \in DOMAIN inFlight[e] : inFlight[e][k].ev.n >= inFlight[e][1].ev.n
<1> TAKE k \in DOMAIN inFlight[e]
<1>1. /\ Len(outcome[e]) \in Nat /\ Len(queue[e]) \in Nat /\ Len(inFlight[e]) \in Nat
      /\ DOMAIN inFlight[e] = 1..Len(inFlight[e])
  BY DEF TypeOK
<1>2. 1 \in DOMAIN inFlight[e] /\ k \in Nat /\ k >= 1
  BY <1>1
<1>3. Taken(e) \in Int
  BY <1>1 DEF Taken
<1> HIDE DEF Taken
<1>4. /\ inFlight[e][k].ev.n = Taken(e) - Len(inFlight[e]) + k
      /\ inFlight[e][1].ev.n = Taken(e) - Len(inFlight[e]) + 1
  BY <1>2 DEF Shape, Numbered, NumberedFrom
<1> QED  BY <1>1, <1>2, <1>3, <1>4

LEMMA TypeOnAck ==
  ASSUME TypeOK, Shape, NEW e \in Engines, OnAck(e) PROVE TypeOK'
<1> DEFINE evs == [k \in DOMAIN inFlight[e] |-> inFlight[e][k].ev]
<1>1. /\ inFlight[e] \in Seq(Queued) /\ answer[e] \in Answer
      /\ DOMAIN inFlight[e] = 1..Len(inFlight[e])
  BY DEF TypeOK
<1>2. answer[e].first \in Nat /\ answer[e].last \in Nat
  BY <1>1 DEF Answer, NoAnswer
<1>3. \A k \in DOMAIN inFlight[e] : inFlight[e][k].ev.n >= inFlight[e][1].ev.n
  BY InFlightAscends
<1>4. Settled(e, inFlight[e], "acked", answer[e].first) \in Seq(Promise)
  BY <1>1, <1>2, <1>3, SettledType
<1>5. outcome' \in [Engines -> Seq(Promise)]
  BY <1>4 DEF OnAck, TypeOK
<1>6. Numbers(inFlight[e]) \in SUBSET (Nat \ {0})
  <2>1. \A k \in DOMAIN inFlight[e] : inFlight[e][k].ev.n \in Nat \ {0}
    <3> TAKE k \in DOMAIN inFlight[e]
    <3>1. inFlight[e][k] \in Queued
      BY <1>1
    <3> QED  BY <3>1 DEF Queued, Event
  <2> QED  BY <2>1 DEF Numbers
<1>7. kept' \in [Engines -> SUBSET (Nat \ {0})]
  BY <1>6 DEF OnAck, TypeOK
<1>8. evs \in Seq(Event)
  BY <1>1, BatchEvents
<1>9. stored[e] \o evs \in Seq(Event)
  BY <1>8, ConcatProperties DEF TypeOK
<1>10. stored' \in [Engines -> Seq(Event)]
  BY <1>9 DEF OnAck, TypeOK
<1>11. /\ attempt' \in [Engines -> 0..MaxAttempts]
       /\ wire' \in [Engines -> {"idle", "sent", "backoff"}]
       /\ answer' \in [Engines -> Answer]
  BY TypeHangUp DEF OnAck
<1>12. /\ acked' \in [Engines -> Nat]
       /\ inFlight' \in [Engines -> Seq(Queued)]
       /\ draining' \in [Engines -> {"none", "loop", "await", "unwinding"}]
  BY <1>2 DEF OnAck, TypeOK
<1> QED  BY <1>5, <1>7, <1>10, <1>11, <1>12 DEF OnAck, TypeOK, StoreTypeOK, storeVars

LEMMA TypeOnRefusal ==
  ASSUME TypeOK, NEW e \in Engines, OnRefusal(e) PROVE TypeOK'
<1>1. inFlight[e] \in Seq(Queued)
  BY DEF TypeOK
<1>2. /\ Settled(e, inFlight[e], "withdrawn", 0) \in Seq(Promise)
      /\ Settled(e, inFlight[e], "refused", 0) \in Seq(Promise)
  BY <1>1, SettledType
<1>3. outcome' \in [Engines -> Seq(Promise)]
  BY <1>2, ZenonT(40) DEF OnRefusal, TypeOK
<1>4. MaxEventBytes \in Nat
  BY StoreAssumption
<1>5. limit' \in [Engines -> Nat \cup {NoLimit}]
  BY <1>4 DEF OnRefusal, TypeOK
<1>6. kept' \in [Engines -> SUBSET (Nat \ {0})]
  <2>1. kept[e] \ Numbers(inFlight[e]) \in SUBSET (Nat \ {0})
    BY DEF TypeOK
  <2> QED  BY <2>1, ZenonT(40) DEF OnRefusal, TypeOK
<1>7. /\ attempt' \in [Engines -> 0..MaxAttempts]
      /\ wire' \in [Engines -> {"idle", "sent", "backoff"}]
      /\ answer' \in [Engines -> Answer]
  BY TypeHangUp DEF OnRefusal
<1>8. /\ inFlight' \in [Engines -> Seq(Queued)]
      /\ draining' \in [Engines -> {"none", "loop", "await", "unwinding"}]
  BY DEF OnRefusal, TypeOK
<1> QED  BY <1>3, <1>5, <1>6, <1>7, <1>8 DEF OnRefusal, TypeOK, StoreTypeOK, storeVars

LEMMA TypeOnFatal == ASSUME TypeOK, NEW e \in Engines, OnFatal(e) PROVE TypeOK'
<1>1. inFlight[e] \in Seq(Queued) /\ queue[e] \in Seq(Queued)
  BY DEF TypeOK
<1>2. answer[e].code \in Causes
  BY DEF TypeOK, Answer, NoAnswer, Causes
<1> QED  BY <1>1, <1>2, TypeStop, TypeHangUp DEF OnFatal, TypeOK, StoreTypeOK, storeVars

LEMMA TypeStoreStep == ASSUME TypeOK, StoreStep PROVE TypeOK'
BY DEF StoreStep, LapseLease, WithdrawItem, TypeOK, StoreTypeOK, ItemState, engineVars, callVars

\* Every step keeps the types, given how the queue and the batch in flight are numbered.
LEMMA TypeNext ==
  ASSUME TypeOK, Shape, [Next]_vars
  PROVE  TypeOK'
<1>1. CASE UNCHANGED vars
  BY <1>1, TypeStutter
<1>2. ASSUME NEW e \in Engines, EngineStep(e) PROVE TypeOK'
  <2>1. CASE Close(e)
    BY <2>1, TypeGone DEF Close
  <2>2. CASE Crash(e)
    BY <2>2, TypeGone DEF Crash
  <2> QED  BY <1>2, <2>1, <2>2, TypeAdopt, TypeOpen, TypeKick, TypeUnwound, TypeDrainStep,
              TypeTimeout, TypeRetry, TypeOnAck, TypeOnRefusal, TypeOnBusy, TypeOnFatal,
              TypeLoseLease
           DEF EngineStep, OnAnswer
<1>3. ASSUME NEW e \in Engines, Calls(e) PROVE TypeOK'
  BY <1>3, CallCases, TypeWrite, TypeConsume
<1>4. ASSUME NEW m \in net, Deliver(m) \/ DeliverBusy(m) PROVE TypeOK'
  BY <1>4, TypeDeliver, TypeDeliverBusy
<1>5. CASE StoreStep
  BY <1>5, TypeStoreStep
<1> QED  BY <1>1, <1>2, <1>3, <1>4, <1>5 DEF Next

-----------------------------------------------------------------------------
(* The queue, the batch in flight and the call.                            *)

\* Pushing whole batches behind a queue of whole batches.
LEMMA WholeConcat ==
  ASSUME NEW q \in Seq(Queued), NEW r \in Seq(Queued), Whole(q), Whole(r)
  PROVE  Whole(q \o r)
<1>1. /\ Len(q \o r) = Len(q) + Len(r) /\ DOMAIN (q \o r) = 1..(Len(q) + Len(r))
      /\ Len(q) \in Nat /\ Len(r) \in Nat /\ DOMAIN q = 1..Len(q) /\ DOMAIN r = 1..Len(r)
  OBVIOUS
<1> SUFFICES ASSUME NEW k \in 1..(Len(q) + Len(r)), (q \o r)[k].item # NoItem
             PROVE  (q \o r)[k].size \in 1..(Len(q) + Len(r) - k + 1)
  BY <1>1 DEF Whole
<1>2. CASE k <= Len(q)
  <2>1. k \in DOMAIN q /\ (q \o r)[k] = q[k]
    BY <1>1, <1>2
  <2>2. q[k].size \in 1..(Len(q) - k + 1)
    BY <2>1 DEF Whole
  <2> QED  BY <1>1, <2>1, <2>2
<1>3. CASE k > Len(q)
  <2>1. k - Len(q) \in DOMAIN r /\ (q \o r)[k] = r[k - Len(q)]
    BY <1>1, <1>3
  <2>2. r[k - Len(q)].size \in 1..(Len(r) - (k - Len(q)) + 1)
    BY <2>1 DEF Whole
  <2> QED  BY <1>1, <2>1, <2>2
<1> QED  BY <1>1, <1>2, <1>3

\* Pushing events numbered on from the end of the queue.
LEMMA NumberedConcat ==
  ASSUME NEW q \in Seq(Queued), NEW r \in Seq(Queued), NEW e, NEW t \in Int,
         NumberedFrom(q, e, t), NumberedFrom(r, e, t + Len(q))
  PROVE  NumberedFrom(q \o r, e, t)
<1>1. /\ DOMAIN (q \o r) = 1..(Len(q) + Len(r))
      /\ Len(q) \in Nat /\ Len(r) \in Nat /\ DOMAIN q = 1..Len(q) /\ DOMAIN r = 1..Len(r)
  OBVIOUS
<1> SUFFICES ASSUME NEW k \in 1..(Len(q) + Len(r))
             PROVE  (q \o r)[k].ev.eng = e /\ (q \o r)[k].ev.n = t + k
  BY <1>1 DEF NumberedFrom
<1>2. CASE k <= Len(q)
  <2>1. k \in DOMAIN q /\ (q \o r)[k] = q[k]
    BY <1>1, <1>2
  <2> QED  BY <2>1 DEF NumberedFrom
<1>3. CASE k > Len(q)
  <2>1. k - Len(q) \in DOMAIN r /\ (q \o r)[k] = r[k - Len(q)]
    BY <1>1, <1>3
  <2>2. r[k - Len(q)].ev.eng = e /\ r[k - Len(q)].ev.n = t + Len(q) + (k - Len(q))
    BY <2>1 DEF NumberedFrom
  <2> QED  BY <1>1, <2>1, <2>2
<1> QED  BY <1>1, <1>2, <1>3

\* Cutting a batch off the front.
LEMMA CutNumbered ==
  ASSUME NEW q \in Seq(Queued), NEW n \in 1..Len(q), NEW e, NEW t \in Int,
         NumberedFrom(q, e, t)
  PROVE  /\ NumberedFrom(SubSeq(q, 1, n), e, t)
         /\ NumberedFrom(SubSeq(q, n + 1, Len(q)), e, t + n)
<1>1. Len(q) \in Nat /\ DOMAIN q = 1..Len(q)
  OBVIOUS
<1>2. NumberedFrom(SubSeq(q, 1, n), e, t)
  <2>1. DOMAIN SubSeq(q, 1, n) = 1..n /\ \A k \in 1..n : SubSeq(q, 1, n)[k] = q[k]
    BY <1>1
  <2> QED  BY <1>1, <2>1 DEF NumberedFrom
<1>3. NumberedFrom(SubSeq(q, n + 1, Len(q)), e, t + n)
  <2> SUFFICES ASSUME NEW k \in 1..(Len(q) - n)
               PROVE  /\ SubSeq(q, n + 1, Len(q))[k].ev.eng = e
                      /\ SubSeq(q, n + 1, Len(q))[k].ev.n = t + n + k
    <3>1. DOMAIN SubSeq(q, n + 1, Len(q)) = 1..(Len(q) - n)
      BY RestFacts
    <3> QED  BY <3>1 DEF NumberedFrom
  <2>1. SubSeq(q, n + 1, Len(q))[k] = q[n + k] /\ n + k \in DOMAIN q
    BY <1>1, RestFacts
  <2>2. q[n + k].ev.eng = e /\ q[n + k].ev.n = t + (n + k)
    BY <2>1 DEF NumberedFrom
  <2> QED  BY <1>1, <2>1, <2>2
<1> QED  BY <1>2, <1>3

LEMMA CutWhole ==
  ASSUME NEW q \in Seq(Queued), NEW n \in 1..Len(q), Whole(q)
  PROVE  Whole(SubSeq(q, n + 1, Len(q)))
<1>1. Len(q) \in Nat /\ DOMAIN q = 1..Len(q)
  OBVIOUS
<1>2. /\ DOMAIN SubSeq(q, n + 1, Len(q)) = 1..(Len(q) - n)
      /\ Len(SubSeq(q, n + 1, Len(q))) = Len(q) - n
  BY RestFacts
<1> SUFFICES ASSUME NEW k \in 1..(Len(q) - n), SubSeq(q, n + 1, Len(q))[k].item # NoItem
             PROVE  SubSeq(q, n + 1, Len(q))[k].size \in 1..(Len(q) - n - k + 1)
  BY <1>2 DEF Whole
<1>3. SubSeq(q, n + 1, Len(q))[k] = q[n + k] /\ n + k \in DOMAIN q
  <2>1. SubSeq(q, n + 1, Len(q))[k] = q[n + k]
    BY RestFacts
  <2>2. n + k \in DOMAIN q
    BY <1>1
  <2> QED  BY <2>1, <2>2
<1>4. q[n + k].size \in 1..(Len(q) - (n + k) + 1)
  BY <1>3 DEF Whole
<1> QED  BY <1>1, <1>3, <1>4

ShapeOf(e) == Whole(queue[e]) /\ CallTracksFlight(e) /\ Numbered(e)

\* An engine whose part of the state is left alone keeps its shape.
LEMMA ShapeKept ==
  ASSUME NEW f \in Engines, ShapeOf(f),
         queue'[f] = queue[f], inFlight'[f] = inFlight[f], outcome'[f] = outcome[f],
         phase'[f] = phase[f], draining'[f] = draining[f], attempt'[f] = attempt[f],
         wire'[f] = wire[f], answer'[f] = answer[f]
  PROVE  ShapeOf(f)'
<1>1. Whole(queue[f])'
  BY DEF ShapeOf, Whole
<1>2. CallTracksFlight(f)'
  BY DEF ShapeOf, CallTracksFlight
<1>3. Numbered(f)'
  BY DEF ShapeOf, Numbered, NumberedFrom, Taken
<1> QED  BY <1>1, <1>2, <1>3 DEF ShapeOf

LEMMA ShapeInit == Init => Shape
BY DEF Init, Shape, Whole, CallTracksFlight, Numbered, NumberedFrom, Taken

\* The number of events taken out of a queue is a number.
LEMMA TakenNat ==
  ASSUME TypeOK, NEW e \in Engines, ShapeOf(e)
  PROVE  Taken(e) \in Nat /\ Len(inFlight[e]) <= Taken(e)
<1>1. Len(inFlight[e]) \in Nat /\ Len(outcome[e]) \in Nat /\ Len(queue[e]) \in Nat
  BY DEF TypeOK
<1>2. Taken(e) \in Int
  BY <1>1 DEF Taken
<1>3. Len(inFlight[e]) <= Taken(e)
  BY DEF ShapeOf, Numbered
<1> HIDE DEF Taken
<1> QED  BY <1>1, <1>2, <1>3

\* The batch in flight is gone, the queue too or as it was, and no promise was
\* added: what a settled, stopped or dead call leaves behind.
LEMMA ShapeEmptied ==
  ASSUME TypeOK, NEW e \in Engines, ShapeOf(e),
         inFlight'[e] = <<>>, queue'[e] = queue[e] \/ queue'[e] = <<>>,
         Len(outcome'[e]) = Len(outcome[e]),
         wire'[e] = "idle", answer'[e] = NoAnswer,
         phase'[e] # "open" => queue'[e] = <<>> /\ draining'[e] = "none"
  PROVE  ShapeOf(e)'
<1>1. Whole(queue[e])'
  BY DEF ShapeOf, Whole
<1>2. CallTracksFlight(e)'
  BY DEF CallTracksFlight
<1>3. Numbered(e)'
  <2>1. Len(outcome[e]) \in Nat /\ Len(queue[e]) \in Nat /\ Taken(e) \in Nat
    BY TakenNat DEF TypeOK
  <2>2. CASE queue'[e] = queue[e]
    <3>1. Taken(e)' = Taken(e)
      BY <2>2 DEF Taken
    <3>2. NumberedFrom(queue[e], e, Taken(e))
      BY DEF ShapeOf, Numbered
    <3>3. NumberedFrom(<<>>, e, Taken(e) - Len(<<>>)) /\ Len(<<>>) <= Taken(e)
      BY <2>1 DEF NumberedFrom
    <3> HIDE DEF Taken
    <3> QED  BY <2>2, <3>1, <3>2, <3>3 DEF Numbered
  <2>3. CASE queue'[e] = <<>>
    BY <2>1, <2>3 DEF Numbered, NumberedFrom, Taken
  <2> QED  BY <2>2, <2>3
<1> QED  BY <1>1, <1>2, <1>3 DEF ShapeOf

\* Whole batches numbered on from the last event pushed are queued.
LEMMA ShapePushed ==
  ASSUME TypeOK, NEW e \in Engines, ShapeOf(e),
         NEW qs \in Seq(Queued), NEW ps \in Seq(Promise), Len(ps) = Len(qs),
         Whole(qs), NumberedFrom(qs, e, Len(outcome[e])),
         queue'[e] = queue[e] \o qs, outcome'[e] = outcome[e] \o ps,
         inFlight'[e] = inFlight[e], phase'[e] = "open", draining'[e] = draining[e],
         phase[e] = "open", attempt'[e] = attempt[e], wire'[e] = wire[e],
         answer'[e] = answer[e]
  PROVE  ShapeOf(e)'
<1>1. /\ queue[e] \in Seq(Queued) /\ outcome[e] \in Seq(Promise)
      /\ Len(outcome[e]) \in Nat /\ Len(queue[e]) \in Nat /\ Len(qs) \in Nat
  BY DEF TypeOK
<1>2. /\ Len(queue'[e]) = Len(queue[e]) + Len(qs)
      /\ Len(outcome'[e]) = Len(outcome[e]) + Len(qs)
  <2>1. Len(queue[e] \o qs) = Len(queue[e]) + Len(qs)
    BY <1>1, ConcatAt
  <2>2. Len(outcome[e] \o ps) = Len(outcome[e]) + Len(ps)
    BY <1>1, ConcatAt
  <2> QED  BY <2>1, <2>2
<1>3. Taken(e) \in Nat
  BY TakenNat
<1>4. Taken(e)' = Taken(e) /\ Taken(e) + Len(queue[e]) = Len(outcome[e])
  BY <1>1, <1>2 DEF Taken
<1>5. Whole(queue'[e])
  BY <1>1, WholeConcat DEF ShapeOf
<1>6. NumberedFrom(queue'[e], e, Taken(e))
  <2>1. NumberedFrom(queue[e], e, Taken(e))
    BY DEF ShapeOf, Numbered
  <2> HIDE DEF Taken
  <2>2. Taken(e) \in Int
    BY <1>3
  <2> QED  BY <1>1, <1>4, <2>1, <2>2, NumberedConcat
<1>7. CallTracksFlight(e)'
  BY DEF ShapeOf, CallTracksFlight
<1>8. Numbered(e)'
  BY <1>4, <1>6 DEF ShapeOf, Numbered
<1> QED  BY <1>5, <1>7, <1>8 DEF ShapeOf

LEMMA ShapeWrite ==
  ASSUME TypeOK, Shape, NEW e \in Engines, NEW size \in Sizes, NEW record \in BOOLEAN,
         Write(e, size, record)
  PROVE  Shape'
<1> SUFFICES ASSUME NEW f \in Engines PROVE ShapeOf(f)'
  BY DEF Shape, ShapeOf
<1>1. ShapeOf(f)
  BY DEF Shape, ShapeOf
<1>2. CASE f # e
  BY <1>1, <1>2, ShapeKept DEF Write, callVars, TypeOK
<1>3. CASE f = e
  <2> DEFINE new == [ev |-> NextEvent(e, 1, size), item |-> NoItem, size |-> 1]
  <2>1. queue[e] \in Seq(Queued) /\ outcome[e] \in Seq(Promise) /\ Len(outcome[e]) \in Nat
    BY DEF TypeOK
  <2>2. new \in Queued /\ Pending(NoItem) \in Promise
    <3>1. size \in Nat /\ Len(outcome[e]) + 1 \in Nat \ {0}
      BY <2>1, BatcherAssumption
    <3> QED  BY <3>1 DEF Queued, Event, NextEvent, Promise, Pending
  <2>3. Whole(<<new>>) /\ NumberedFrom(<<new>>, e, Len(outcome[e]))
    BY <2>1 DEF Whole, NumberedFrom, NextEvent
  <2>4. /\ queue'[e] = queue[e] \o <<new>> /\ outcome'[e] = outcome[e] \o <<Pending(NoItem)>>
        /\ <<new>> \in Seq(Queued) /\ <<Pending(NoItem)>> \in Seq(Promise)
        /\ Len(<<new>>) = Len(<<Pending(NoItem)>>)
    <3>1. queue'[e] = Append(queue[e], new) /\ outcome'[e] = Append(outcome[e], Pending(NoItem))
      BY DEF Write, TypeOK
    <3>2. /\ Append(queue[e], new) = queue[e] \o <<new>>
          /\ Append(outcome[e], Pending(NoItem)) = outcome[e] \o <<Pending(NoItem)>>
      <4> HIDE DEF new
      <4>1. Append(queue[e], new) = queue[e] \o <<new>>
        BY <2>1, <2>2, AddIsConcat
      <4>2. Append(outcome[e], Pending(NoItem)) = outcome[e] \o <<Pending(NoItem)>>
        BY <2>1
      <4> QED  BY <4>1, <4>2
    <3>3. /\ <<new>> \in Seq(Queued) /\ <<Pending(NoItem)>> \in Seq(Promise)
          /\ Len(<<new>>) = 1 /\ Len(<<Pending(NoItem)>>) = 1
      <4> HIDE DEF new
      <4> QED  BY <2>2
    <3> QED  BY <3>1, <3>2, <3>3
  <2>5. /\ phase[e] = "open" /\ phase' = phase /\ inFlight' = inFlight
        /\ draining' = draining /\ attempt' = attempt /\ wire' = wire /\ answer' = answer
    BY DEF Write, Writable, callVars
  <2> HIDE DEF new
  <2> QED  BY <1>1, <1>3, <2>3, <2>4, <2>5, ShapePushed
<1> QED  BY <1>2, <1>3

\* The entries of a consuming batch are a whole batch, numbered on.
LEMMA OpeningShape ==
  ASSUME TypeOK, NEW e \in Engines, NEW i \in Items, NEW sizes \in Seq(Sizes)
  PROVE  /\ Whole(Opening(e, i, sizes))
         /\ NumberedFrom(Opening(e, i, sizes), e, Len(outcome[e]))
<1> DEFINE qs == Opening(e, i, sizes)
<1>1. /\ Len(qs) = Len(sizes) /\ Len(sizes) \in Nat /\ DOMAIN qs = 1..Len(sizes)
      /\ \A k \in 1..Len(sizes) :
           /\ qs[k].ev.eng = e
           /\ qs[k].ev.n = Len(outcome[e]) + k
           /\ qs[k].item # NoItem => k = 1 /\ qs[k].size = Len(sizes)
  BY OpeningFacts
<1> HIDE DEF qs
<1>2. Whole(qs)
  BY <1>1 DEF Whole
<1>3. NumberedFrom(qs, e, Len(outcome[e]))
  BY <1>1 DEF NumberedFrom
<1> QED  BY <1>2, <1>3 DEF qs

LEMMA ShapeConsume ==
  ASSUME TypeOK, Shape, NEW e \in Engines, NEW i \in Items, NEW sizes \in Seq(Sizes),
         Consume(e, i, sizes)
  PROVE  Shape'
<1> SUFFICES ASSUME NEW f \in Engines PROVE ShapeOf(f)'
  BY DEF Shape, ShapeOf
<1>1. ShapeOf(f)
  BY DEF Shape, ShapeOf
<1>2. CASE f # e
  BY <1>1, <1>2, ShapeKept DEF Consume, callVars, TypeOK
<1>3. CASE f = e
  <2>1. /\ Opening(e, i, sizes) \in Seq(Queued) /\ OpeningPromises(i, sizes) \in Seq(Promise)
        /\ Len(OpeningPromises(i, sizes)) = Len(Opening(e, i, sizes))
        /\ Whole(Opening(e, i, sizes))
        /\ NumberedFrom(Opening(e, i, sizes), e, Len(outcome[e]))
    BY OpeningFacts, OpeningShape
  <2>2. /\ queue'[e] = queue[e] \o Opening(e, i, sizes)
        /\ outcome'[e] = outcome[e] \o OpeningPromises(i, sizes)
    BY DEF Consume, TypeOK
  <2>3. /\ phase[e] = "open" /\ phase' = phase /\ inFlight' = inFlight
        /\ draining' = draining /\ attempt' = attempt /\ wire' = wire /\ answer' = answer
    BY DEF Consume, Writable, callVars
  <2> QED  BY <1>1, <1>3, <2>1, <2>2, <2>3, ShapePushed
<1> QED  BY <1>2, <1>3

\* What a drain step that sends does to its engine.
LEMMA CutFacts ==
  ASSUME TypeOK, Shape, NEW e \in Engines, queue[e] # <<>>,
         NEW n, n = CutOf(queue[e])
  PROVE  /\ n \in 1..Len(queue[e]) /\ n \in Nat
         /\ SubSeq(queue[e], 1, n) \in Seq(Queued)
         /\ SubSeq(queue[e], n + 1, Len(queue[e])) \in Seq(Queued)
         /\ SubSeq(queue[e], 1, n) # <<>>
         /\ Len(SubSeq(queue[e], 1, n)) = n
         /\ Len(SubSeq(queue[e], n + 1, Len(queue[e]))) = Len(queue[e]) - n
<1>1. queue[e] \in Seq(Queued) /\ n \in 1..Len(queue[e])
  BY CutOfRange DEF TypeOK
<1> QED  BY <1>1

LEMMA ShapeSend ==
  ASSUME TypeOK, Shape, NEW e \in Engines, draining[e] = "loop", queue[e] # <<>>,
         NEW n, n = CutOf(queue[e]),
         queue'[e] = SubSeq(queue[e], n + 1, Len(queue[e])),
         inFlight'[e] = SubSeq(queue[e], 1, n), outcome'[e] = outcome[e],
         attempt'[e] = 1, wire'[e] = "sent", draining'[e] = "await",
         answer'[e] = answer[e], phase'[e] = phase[e]
  PROVE  ShapeOf(e)'
<1>1. /\ queue[e] \in Seq(Queued) /\ Len(outcome[e]) \in Nat /\ Len(queue[e]) \in Nat
      /\ n \in 1..Len(queue[e]) /\ n \in Nat
      /\ inFlight'[e] # <<>> /\ Len(inFlight'[e]) = n
      /\ Len(queue'[e]) = Len(queue[e]) - n
  <2>1. queue[e] \in Seq(Queued) /\ Len(outcome[e]) \in Nat /\ Len(queue[e]) \in Nat
    BY DEF TypeOK
  <2> QED  BY <2>1, CutFacts
<1>2. ShapeOf(e) /\ inFlight[e] = <<>> /\ phase[e] = "open"
  BY DEF Shape, ShapeOf, CallTracksFlight
<1>3. Taken(e) \in Nat /\ NumberedFrom(queue[e], e, Taken(e)) /\ Whole(queue[e])
  BY <1>2, TakenNat DEF ShapeOf, Numbered
<1>4. Taken(e)' = Taken(e) + n
  <2>1. Len(outcome[e]) - (Len(queue[e]) - n) = (Len(outcome[e]) - Len(queue[e])) + n
    BY <1>1, AfterCut
  <2> QED  BY <1>1, <2>1 DEF Taken
<1> HIDE DEF Taken
<1>5. Whole(queue'[e])
  BY <1>1, <1>3, CutWhole
<1>6. NumberedFrom(inFlight'[e], e, Taken(e)) /\ NumberedFrom(queue'[e], e, Taken(e) + n)
  <2>1. Taken(e) \in Int
    BY <1>3
  <2> QED  BY <1>1, <1>3, <2>1, CutNumbered
<1>7. CallTracksFlight(e)'
  BY <1>1, <1>2 DEF ShapeOf, CallTracksFlight
<1>8. Numbered(e)'
  <2>1. (Taken(e) + n) - n = Taken(e) /\ n <= Taken(e) + n
    BY <1>1, <1>3
  <2> QED  BY <1>1, <1>4, <1>6, <2>1 DEF Numbered
<1> QED  BY <1>5, <1>7, <1>8 DEF ShapeOf

\* Stopping keeps the number of promises.
LEMMA StopFacts ==
  ASSUME TypeOK, NEW e \in Engines, NEW batch \in Seq(Queued), NEW rest \in Seq(Queued),
         NEW cause, Stop(e, batch, rest, cause)
  PROVE  /\ Len(outcome'[e]) = Len(outcome[e])
         /\ queue'[e] = <<>> /\ inFlight'[e] = <<>>
         /\ \A f \in Engines \ {e} :
              outcome'[f] = outcome[f] /\ queue'[f] = queue[f] /\ inFlight'[f] = inFlight[f]
<1>1. batch \o rest \in Seq(Queued)
  BY ConcatProperties
<1>2. Len(Settled(e, batch \o rest, "failed", 0)) = Len(outcome[e])
  BY <1>1, SettledType
<1>3. outcome'[e] = Settled(e, batch \o rest, "failed", 0)
  BY DEF Stop, TypeOK
<1> QED  BY <1>2, <1>3 DEF Stop, TypeOK

LEMMA ShapeDrainStep ==
  ASSUME TypeOK, Shape, NEW e \in Engines, DrainStep(e) PROVE Shape'
<1> SUFFICES ASSUME NEW f \in Engines PROVE ShapeOf(f)'
  BY DEF Shape, ShapeOf
<1>1. ShapeOf(f) /\ ShapeOf(e) /\ draining[e] = "loop"
  BY DEF Shape, ShapeOf, DrainStep
<1>2. /\ phase' = phase /\ queue[e] \in Seq(Queued) /\ phase[e] = "open"
      /\ inFlight[e] = <<>> /\ wire[e] = "idle" /\ answer[e] = NoAnswer
  BY <1>1 DEF DrainStep, ShapeOf, CallTracksFlight, TypeOK
<1>3. CASE f # e
  <2>1. /\ queue'[f] = queue[f] /\ inFlight'[f] = inFlight[f] /\ outcome'[f] = outcome[f]
        /\ draining'[f] = draining[f] /\ attempt'[f] = attempt[f]
        /\ wire'[f] = wire[f] /\ answer'[f] = answer[f]
    BY <1>3 DEF DrainStep, Stop, callVars, TypeOK
  <2> QED  BY <1>1, <1>2, <2>1, ShapeKept
<1>4. CASE f = e
  <2>1. CASE /\ queue[e] = <<>> \/ fatal[e] # "none"
             /\ draining' = [draining EXCEPT ![e] = "unwinding"]
             /\ UNCHANGED <<queue, inFlight, fatal, outcome, callVars>>
    BY <1>1, <1>2, <1>4, <2>1, ShapeEmptied DEF callVars
  <2>2. CASE /\ queue[e] # <<>> /\ fatal[e] = "none" /\ lost[e]
             /\ Stop(e, <<>>, queue[e], "no_lease")
             /\ draining' = [draining EXCEPT ![e] = "unwinding"]
             /\ UNCHANGED callVars
    <3>1. <<>> \in Seq(Queued)
      OBVIOUS
    <3>2. Len(outcome'[e]) = Len(outcome[e]) /\ queue'[e] = <<>> /\ inFlight'[e] = <<>>
      BY <1>2, <2>2, <3>1, StopFacts
    <3> QED  BY <1>1, <1>2, <1>4, <2>2, <3>2, ShapeEmptied DEF callVars
  <2>3. CASE queue[e] # <<>> /\ fatal[e] = "none" /\ ~lost[e]
    <3> DEFINE n == CutOf(queue[e])
    <3>1. /\ queue'[e] = SubSeq(queue[e], n + 1, Len(queue[e]))
          /\ inFlight'[e] = SubSeq(queue[e], 1, n) /\ outcome' = outcome
          /\ attempt'[e] = 1 /\ wire'[e] = "sent" /\ draining'[e] = "await"
          /\ answer' = answer
      BY <2>3 DEF DrainStep, TypeOK
    <3> HIDE DEF n
    <3>2. n = CutOf(queue[e])
      BY DEF n
    <3> QED  BY <1>1, <1>2, <1>4, <2>3, <3>1, <3>2, ShapeSend
  <2> QED  BY <2>1, <2>2, <2>3 DEF DrainStep
<1> QED  BY <1>3, <1>4

\* A call that failed: another attempt, or the writer stops.
LEMMA ShapeRetryOrThrow ==
  ASSUME TypeOK, Shape, NEW e \in Engines, NEW cause, RetryOrThrow(e, cause),
         wire[e] = "sent", phase' = phase
  PROVE  Shape'
<1> SUFFICES ASSUME NEW f \in Engines PROVE ShapeOf(f)'
  BY DEF Shape, ShapeOf
<1>1. ShapeOf(f) /\ ShapeOf(e)
  BY DEF Shape, ShapeOf
<1>2. inFlight[e] # <<>> /\ inFlight[e] \in Seq(Queued) /\ queue[e] \in Seq(Queued)
  BY <1>1 DEF ShapeOf, CallTracksFlight, TypeOK
<1>3. draining[e] = "await" /\ phase[e] = "open" /\ attempt[e] >= 1
  BY <1>1, <1>2 DEF ShapeOf, CallTracksFlight
<1>4. CASE /\ attempt[e] < MaxAttempts
           /\ wire' = [wire EXCEPT ![e] = "backoff"]
           /\ answer' = [answer EXCEPT ![e] = NoAnswer]
           /\ UNCHANGED <<attempt, fatal, outcome, queue, inFlight, draining>>
  <2>1. CASE f # e
    BY <1>1, <1>4, <2>1, ShapeKept DEF TypeOK
  <2>2. CASE f = e
    <3>1. Whole(queue[e])' /\ Numbered(e)'
      BY <1>1, <1>4 DEF ShapeOf, Whole, Numbered, NumberedFrom, Taken
    <3>2. wire'[e] = "backoff" /\ answer'[e] = NoAnswer
      BY <1>4 DEF TypeOK
    <3>3. CallTracksFlight(e)'
      BY <1>2, <1>3, <1>4, <3>2 DEF CallTracksFlight
    <3> QED  BY <2>2, <3>1, <3>3 DEF ShapeOf
  <2> QED  BY <2>1, <2>2
<1>5. CASE /\ Stop(e, inFlight[e], queue[e], cause)
           /\ draining' = [draining EXCEPT ![e] = "unwinding"]
           /\ HangUp(e)
  <2>1. /\ Len(outcome'[e]) = Len(outcome[e]) /\ queue'[e] = <<>> /\ inFlight'[e] = <<>>
        /\ \A g \in Engines \ {e} :
             outcome'[g] = outcome[g] /\ queue'[g] = queue[g] /\ inFlight'[g] = inFlight[g]
    BY <1>2, <1>5, StopFacts
  <2>2. wire'[e] = "idle" /\ answer'[e] = NoAnswer
    BY <1>5 DEF HangUp, TypeOK
  <2>3. CASE f # e
    BY <1>1, <1>5, <2>1, <2>3, ShapeKept DEF HangUp, TypeOK
  <2>4. CASE f = e
    BY <1>1, <1>3, <2>1, <2>2, <2>4, ShapeEmptied
  <2> QED  BY <2>3, <2>4
<1> QED  BY <1>4, <1>5 DEF RetryOrThrow

\* A call that ended with an answer the writer survives.
LEMMA ShapeAnswered ==
  ASSUME TypeOK, Shape, NEW e \in Engines, HangUp(e), phase' = phase, queue' = queue,
         NEW st \in {"acked", "refused", "withdrawn", "failed"}, NEW first \in Nat,
         outcome' = [outcome EXCEPT ![e] = Settled(e, inFlight[e], st, first)],
         inFlight' = [inFlight EXCEPT ![e] = <<>>],
         draining' = [draining EXCEPT ![e] = "loop"], phase[e] = "open"
  PROVE  Shape'
<1> SUFFICES ASSUME NEW f \in Engines PROVE ShapeOf(f)'
  BY DEF Shape, ShapeOf
<1>1. ShapeOf(f) /\ ShapeOf(e)
  BY DEF Shape, ShapeOf
<1>2. CASE f # e
  BY <1>1, <1>2, ShapeKept DEF HangUp, TypeOK
<1>3. CASE f = e
  <2>1. Len(outcome'[e]) = Len(outcome[e])
    <3>1. Len(Settled(e, inFlight[e], st, first)) = Len(outcome[e])
      <4>1. inFlight[e] \in Seq(Queued)
        BY DEF TypeOK
      <4> QED  BY <4>1, InFlightAscends, SettledType
    <3> QED  BY <3>1 DEF TypeOK
  <2>2. wire'[e] = "idle" /\ answer'[e] = NoAnswer /\ inFlight'[e] = <<>>
    BY DEF HangUp, TypeOK
  <2> QED  BY <1>1, <1>3, <2>1, <2>2, ShapeEmptied
<1> QED  BY <1>2, <1>3

\* An engine that waits for an answer, or has one, has a batch in flight.
LEMMA CallFacts ==
  ASSUME TypeOK, Shape, NEW e \in Engines, wire[e] = "sent" \/ answer[e] # NoAnswer
  PROVE  /\ wire[e] = "sent" /\ phase[e] = "open"
         /\ inFlight[e] \in Seq(Queued) /\ inFlight[e] # <<>>
         /\ queue[e] \in Seq(Queued)
BY DEF Shape, CallTracksFlight, TypeOK

LEMMA ShapeOnAck ==
  ASSUME TypeOK, Shape, NEW e \in Engines, OnAck(e) PROVE Shape'
<1>1. answer[e] # NoAnswer /\ answer[e] \in Answer
  BY DEF OnAck, Accepted, NoAnswer, TypeOK
<1>2. answer[e].first \in Nat
  BY <1>1 DEF Answer, NoAnswer
<1> QED  BY <1>1, <1>2, CallFacts, ShapeAnswered DEF OnAck

LEMMA ShapeOnRefusal ==
  ASSUME TypeOK, Shape, NEW e \in Engines, OnRefusal(e) PROVE Shape'
<1>1. answer[e] # NoAnswer
  BY DEF OnRefusal, NoAnswer
<1>2. /\ \/ outcome' = [outcome EXCEPT ![e] = Settled(e, inFlight[e], "withdrawn", 0)]
         \/ outcome' = [outcome EXCEPT ![e] = Settled(e, inFlight[e], "refused", 0)]
      /\ inFlight' = [inFlight EXCEPT ![e] = <<>>]
      /\ draining' = [draining EXCEPT ![e] = "loop"]
      /\ HangUp(e) /\ phase' = phase /\ queue' = queue
  BY DEF OnRefusal
<1> QED  BY <1>1, <1>2, CallFacts, ShapeAnswered

LEMMA ShapeOnFatal ==
  ASSUME TypeOK, Shape, NEW e \in Engines, OnFatal(e) PROVE Shape'
<1>1. answer[e] # NoAnswer
  BY DEF OnFatal, NoAnswer
<1>2. RetryOrThrow(e, answer[e].code) /\ phase' = phase
  BY DEF OnFatal, RetryOrThrow
<1> QED  BY <1>1, <1>2, CallFacts, ShapeRetryOrThrow

\* A dead engine's part of the state is empty.
LEMMA ShapeGone ==
  ASSUME TypeOK, Shape, NEW e \in Engines, Gone(e) PROVE Shape'
<1> SUFFICES ASSUME NEW f \in Engines PROVE ShapeOf(f)'
  BY DEF Shape, ShapeOf
<1>1. ShapeOf(f) /\ ShapeOf(e)
  BY DEF Shape, ShapeOf
<1>2. CASE f # e
  BY <1>1, <1>2, ShapeKept DEF Gone, HangUp, TypeOK
<1>3. CASE f = e
  <2>1. /\ inFlight'[e] = <<>> /\ queue'[e] = <<>> /\ outcome' = outcome
        /\ wire'[e] = "idle" /\ answer'[e] = NoAnswer /\ draining'[e] = "none"
    BY DEF Gone, HangUp, TypeOK
  <2> QED  BY <1>1, <1>3, <2>1, ShapeEmptied
<1> QED  BY <1>2, <1>3

\* What only moves the phase on, or the drain loop between calls.
LEMMA ShapeAround ==
  ASSUME TypeOK, Shape, NEW e \in Engines,
         Adopt(e) \/ Open(e) \/ Kick(e) \/ Unwound(e) \/ LoseLease(e)
  PROVE  Shape'
<1> SUFFICES ASSUME NEW f \in Engines PROVE ShapeOf(f)'
  BY DEF Shape, ShapeOf
<1>1. ShapeOf(f) /\ ShapeOf(e)
  BY DEF Shape, ShapeOf
<1>2. UNCHANGED <<queue, inFlight, outcome, attempt, wire, answer>>
  BY DEF Adopt, Open, Kick, Unwound, LoseLease, callVars
<1>3. Whole(queue[f])' /\ Numbered(f)'
  BY <1>1, <1>2 DEF ShapeOf, Whole, Numbered, NumberedFrom, Taken
<1>4. CallTracksFlight(f)'
  <2>1. CASE Adopt(e)
    BY <1>1, <1>2, <2>1 DEF Adopt, ShapeOf, CallTracksFlight, TypeOK
  <2>2. CASE Open(e)
    BY <1>1, <1>2, <2>2 DEF Open, ShapeOf, CallTracksFlight, TypeOK
  <2>3. CASE Kick(e)
    BY <1>1, <1>2, <2>3 DEF Kick, StartsDrain, ShapeOf, CallTracksFlight, TypeOK
  <2>4. CASE Unwound(e)
    BY <1>1, <1>2, <2>4 DEF Unwound, ShapeOf, CallTracksFlight, TypeOK
  <2>5. CASE LoseLease(e)
    BY <1>1, <1>2, <2>5 DEF LoseLease, ShapeOf, CallTracksFlight
  <2> QED  BY <2>1, <2>2, <2>3, <2>4, <2>5
<1> QED  BY <1>3, <1>4 DEF ShapeOf

LEMMA ShapeRetry ==
  ASSUME TypeOK, Shape, NEW e \in Engines, Retry(e) PROVE Shape'
<1> SUFFICES ASSUME NEW f \in Engines PROVE ShapeOf(f)'
  BY DEF Shape, ShapeOf
<1>1. ShapeOf(f) /\ ShapeOf(e)
  BY DEF Shape, ShapeOf
<1>2. Whole(queue[f])' /\ Numbered(f)'
  BY <1>1 DEF Retry, engineVars, ShapeOf, Whole, Numbered, NumberedFrom, Taken
<1>3. CallTracksFlight(f)'
  <2>1. attempt[e] \in Nat /\ attempt'[e] = attempt[e] + 1 /\ wire'[e] = "sent"
        /\ \A g \in Engines \ {e} : attempt'[g] = attempt[g] /\ wire'[g] = wire[g]
    BY BatcherAssumption DEF Retry, TypeOK
  <2> QED  BY <1>1, <2>1 DEF Retry, engineVars, ShapeOf, CallTracksFlight
<1> QED  BY <1>2, <1>3 DEF ShapeOf

\* A request that reaches the store changes at most its sender's answer.
LEMMA ShapeDelivered ==
  ASSUME TypeOK, Shape, NEW m \in net, NEW code, Answered(m, code),
         UNCHANGED <<attempt, wire, engineVars>>
  PROVE  Shape'
<1> SUFFICES ASSUME NEW f \in Engines PROVE ShapeOf(f)'
  BY DEF Shape, ShapeOf
<1>1. ShapeOf(f)
  BY DEF Shape, ShapeOf
<1>2. Whole(queue[f])' /\ Numbered(f)'
  BY <1>1 DEF engineVars, ShapeOf, Whole, Numbered, NumberedFrom, Taken
<1>3. answer'[f] = answer[f] \/ wire[f] = "sent"
  BY DEF Answered, Awaited, TypeOK
<1>4. CallTracksFlight(f)'
  BY <1>1, <1>3 DEF engineVars, ShapeOf, CallTracksFlight
<1> QED  BY <1>2, <1>4 DEF ShapeOf

LEMMA ShapeStutter ==
  ASSUME Shape, UNCHANGED <<callVars, engineVars>> PROVE Shape'
<1> SUFFICES ASSUME NEW f \in Engines PROVE ShapeOf(f)'
  BY DEF Shape, ShapeOf
<1> QED  BY ShapeKept DEF Shape, ShapeOf, callVars, engineVars

\* The shape is kept by every step.
LEMMA ShapeNext == TypeOK /\ Shape /\ [Next]_vars => Shape'
<1> SUFFICES ASSUME TypeOK, Shape, [Next]_vars PROVE Shape'
  OBVIOUS
<1>1. CASE UNCHANGED vars
  BY <1>1, ShapeStutter DEF vars
<1>2. ASSUME NEW e \in Engines, EngineStep(e) PROVE Shape'
  <2>1. CASE Adopt(e) \/ Open(e) \/ Kick(e) \/ Unwound(e) \/ LoseLease(e)
    BY <2>1, ShapeAround
  <2>2. CASE Timeout(e)
    BY <2>2, ShapeRetryOrThrow DEF Timeout
  <2>3. CASE OnBusy(e)
    BY <2>3, CallFacts, ShapeRetryOrThrow DEF OnBusy, NoAnswer
  <2>4. CASE Close(e) \/ Crash(e)
    BY <2>4, ShapeGone DEF Close, Crash
  <2> QED  BY <1>2, <2>1, <2>2, <2>3, <2>4, ShapeDrainStep, ShapeRetry, ShapeOnAck,
              ShapeOnRefusal, ShapeOnFatal
           DEF EngineStep, OnAnswer
<1>3. ASSUME NEW e \in Engines, Calls(e) PROVE Shape'
  BY <1>3, CallCases, ShapeWrite, ShapeConsume
<1>4. ASSUME NEW m \in net, Deliver(m) \/ DeliverBusy(m) PROVE Shape'
  BY <1>4, ShapeDelivered DEF Deliver, DeliverBusy
<1>5. CASE StoreStep
  BY <1>5, ShapeStutter DEF StoreStep
<1> QED  BY <1>1, <1>2, <1>3, <1>4, <1>5 DEF Next

-----------------------------------------------------------------------------
(* Theorems.                                                               *)

\* Every reachable state is made of well-typed values, and what is in flight and
\* queued is the unsettled tail of what was pushed, in push order: batcher.ts's
\* one queue, cut from the front into one batch at a time.
THEOREM TypeCorrect == Spec => [](TypeOK /\ Shape)
<1>1. Init => TypeOK /\ Shape
  BY TypeInit, ShapeInit
<1>2. TypeOK /\ Shape /\ [Next]_vars => (TypeOK /\ Shape)'
  BY TypeNext, ShapeNext
<1> QED  BY <1>1, <1>2, PTL DEF Spec

-----------------------------------------------------------------------------
(* Stored once.                                                            *)
(*                                                                         *)
(* An event is cut into one batch only, so it only ever goes out in one    *)
(* request body (OneBody); the log is the bodies the store committed, each *)
(* at its after_seq (LogIsAppends); and the store's record of appends      *)
(* answers a body it has already committed with a replay, whatever the     *)
(* network loses, delays or reorders.                                      *)

Once == BodyShape /\ OneBody /\ LogIsAppends /\ AnswerIsTrue /\ AckedIsDurable

LEMMA OnceInit == Init => Once
BY DEF Init, StoreInit, Once, BodyShape, OneBody, LogIsAppends, AnswerIsTrue, AckedIsDurable,
       Bodies, Accepted, NoAnswer

\* Every body on the network or committed is an append body.
LEMMA BodyTypes ==
  ASSUME TypeOK, NEW b \in Bodies
  PROVE  /\ b \in Body /\ b.lease \in Engines
         /\ Len(b.evs) \in Nat /\ DOMAIN b.evs = 1..Len(b.evs)
         /\ b.after \in Nat
         /\ \A k \in DOMAIN b.evs : b.evs[k] \in Event /\ b.evs[k].n \in Nat
<1>1. b \in Body
  BY DEF Bodies, TypeOK, StoreTypeOK
<1>2. b.evs \in Seq(Event) /\ b.lease \in Engines /\ b.after \in Nat
  BY <1>1 DEF Body
<1>3. \A k \in DOMAIN b.evs : b.evs[k] \in Event
  BY <1>2
<1>4. \A k \in DOMAIN b.evs : b.evs[k].n \in Nat
  BY <1>3 DEF Event
<1> QED  BY <1>1, <1>2, <1>3, <1>4

\* The numbers taken out of the queues are numbers.
LEMMA TakenType == TypeOK /\ Shape => \A e \in Engines : Taken(e) \in Nat
BY TakenNat DEF Shape, ShapeOf

\* The store's part and the network's are left alone, and an engine keeps its batch
\* in flight or drops it.
LEMMA BodiesKept ==
  ASSUME TypeOK, Shape, Once,
         TypeOK', Shape',
         UNCHANGED <<log, appends>>, net' \subseteq net,
         \A f \in Engines : Taken(f)' >= Taken(f),
         \A f \in Engines :
           \/ inFlight'[f] = <<>>
           \/ inFlight'[f] = inFlight[f] /\ acked'[f] = acked[f],
         \A f \in Engines : Accepted(f)' =>
           answer'[f] = answer[f] /\ inFlight'[f] = inFlight[f] /\ acked'[f] = acked[f]
  PROVE  BodyShape' /\ OneBody' /\ LogIsAppends' /\ AnswerIsTrue'
<1>1. Bodies' \subseteq Bodies
  BY DEF Bodies
<1>2. BodyShape'
  <2> SUFFICES ASSUME NEW b \in Bodies', NEW k \in DOMAIN b.evs
               PROVE  /\ b.evs[k].eng = b.lease
                      /\ b.evs[k].n = b.evs[1].n + k - 1
                      /\ b.evs[k].n <= Taken(b.lease)'
    BY DEF BodyShape
  <2>1. b \in Bodies /\ b.lease \in Engines /\ b.evs[k].n \in Nat
    BY <1>1, BodyTypes
  <2>2. /\ b.evs[k].eng = b.lease /\ b.evs[k].n = b.evs[1].n + k - 1
        /\ b.evs[k].n <= Taken(b.lease)
    BY <2>1 DEF Once, BodyShape
  <2>3. Taken(b.lease) \in Nat /\ Taken(b.lease)' \in Int /\ Taken(b.lease)' >= Taken(b.lease)
    <3>1. \A f \in Engines : Taken(f) \in Nat
      BY TakenType
    <3>2. \A f \in Engines : Taken(f)' \in Int
      <4> TAKE f \in Engines
      <4>1. Len(outcome'[f]) \in Nat /\ Len(queue'[f]) \in Nat
        BY DEF TypeOK
      <4> QED  BY <4>1 DEF Taken
    <3> HIDE DEF Taken
    <3> QED  BY <2>1, <3>1, <3>2
  <2> HIDE DEF Taken
  <2> QED  BY <2>1, <2>2, <2>3
<1>3. OneBody'
  <2>1. ASSUME NEW b \in Bodies', NEW c \in Bodies', NEW k \in DOMAIN b.evs,
               NEW l \in DOMAIN c.evs, b.lease = c.lease, b.evs[k].n = c.evs[l].n
        PROVE  b = c
    BY <1>1, <2>1 DEF Once, OneBody
  <2>2. ASSUME NEW f \in Engines, NEW b \in Bodies', NEW k \in DOMAIN b.evs,
               NEW l \in DOMAIN inFlight'[f], b.lease = f,
               b.evs[k].n = inFlight'[f][l].ev.n
        PROVE  b = BodyOf(f, inFlight[f])'
    <3>1. inFlight'[f] = inFlight[f] /\ acked'[f] = acked[f]
      BY <2>2
    <3>2. b = BodyOf(f, inFlight[f])
      BY <1>1, <2>2, <3>1 DEF Once, OneBody
    <3> QED  BY <3>1, <3>2 DEF BodyOf
  <2> QED  BY <2>1, <2>2 DEF OneBody
<1>4. LogIsAppends'
  BY DEF Once, LogIsAppends
<1>5. AnswerIsTrue'
  <2> SUFFICES ASSUME NEW f \in Engines, Accepted(f)'
               PROVE  /\ BodyOf(f, inFlight[f])' \in appends
                      /\ answer'[f].first = acked'[f] + 1
                      /\ answer'[f].last = acked'[f] + Len(inFlight'[f])
    BY DEF AnswerIsTrue
  <2>1. answer'[f] = answer[f] /\ inFlight'[f] = inFlight[f] /\ acked'[f] = acked[f]
    OBVIOUS
  <2>2. Accepted(f)
    BY <2>1 DEF Accepted
  <2>3. BodyOf(f, inFlight[f])' = BodyOf(f, inFlight[f])
    BY <2>1 DEF BodyOf
  <2> QED  BY <2>1, <2>2, <2>3 DEF Once, AnswerIsTrue
<1> QED  BY <1>2, <1>3, <1>4, <1>5

\* The same when no promise becomes acknowledged.
LEMMA OnceKept ==
  ASSUME TypeOK, Shape, Once,
         TypeOK', Shape',
         UNCHANGED <<log, appends>>, net' \subseteq net,
         \A f \in Engines : Taken(f)' >= Taken(f),
         \A f \in Engines :
           \/ inFlight'[f] = <<>>
           \/ inFlight'[f] = inFlight[f] /\ acked'[f] = acked[f],
         \A f \in Engines : Accepted(f)' =>
           answer'[f] = answer[f] /\ inFlight'[f] = inFlight[f] /\ acked'[f] = acked[f],
         \A f \in Engines : \A n \in DOMAIN outcome'[f] :
           outcome'[f][n].st = "acked" =>
             n \in DOMAIN outcome[f] /\ outcome'[f][n] = outcome[f][n]
  PROVE  Once'
<1>1. AckedIsDurable'
  BY DEF Once, AckedIsDurable
<1> QED  BY <1>1, BodiesKept DEF Once

LEMMA EqualShift ==
  ASSUME NEW l \in Nat, NEW q \in Nat, NEW n \in Nat
  PROVE  (l + n) - (q + n) = l - q
OBVIOUS

\* What the actions that leave the log, the network and the acknowledged promises
\* alone do to the number of events taken out of a queue.
LEMMA TakenKept ==
  ASSUME NEW f \in Engines, Len(outcome'[f]) = Len(outcome[f]), queue'[f] = queue[f]
  PROVE  Taken(f)' = Taken(f)
BY DEF Taken

LEMMA TakenCleared ==
  ASSUME TypeOK, NEW f \in Engines, Len(outcome'[f]) = Len(outcome[f]), queue'[f] = <<>>
  PROVE  Taken(f)' >= Taken(f)
<1>1. Len(outcome[f]) \in Nat /\ Len(queue[f]) \in Nat
  BY DEF TypeOK
<1> QED  BY <1>1 DEF Taken

\* Settling a batch any way but by an ack acknowledges nothing.
LEMMA SettledNotAcked ==
  ASSUME NEW e \in Engines, NEW batch, NEW st \in {"refused", "withdrawn", "failed"},
         NEW n \in DOMAIN outcome[e], TypeOK,
         Settled(e, batch, st, 0)[n].st = "acked"
  PROVE  Settled(e, batch, st, 0)[n] = outcome[e][n]
<1>1. CASE \E k \in DOMAIN batch : batch[k].ev.n = n
  <2>1. outcome[e][n] \in Promise
    BY DEF TypeOK
  <2> QED  BY <1>1, <2>1 DEF Settled, Promise
<1>2. CASE ~\E k \in DOMAIN batch : batch[k].ev.n = n
  BY <1>2 DEF Settled
<1> QED  BY <1>1, <1>2

\* An accepted answer is the answer to a batch in flight.
LEMMA AcceptedFacts ==
  ASSUME TypeOK, Shape, NEW e \in Engines, Accepted(e)
  PROVE  /\ answer[e] # NoAnswer /\ wire[e] = "sent" /\ phase[e] = "open"
         /\ draining[e] = "await" /\ inFlight[e] # <<>>
<1>1. answer[e] # NoAnswer
  BY DEF Accepted, NoAnswer
<1> QED  BY <1>1 DEF Shape, CallTracksFlight

\* The steps between calls: opening, pushing, kicking, unwinding, losing the lease.
LEMMA OnceAround ==
  ASSUME TypeOK, Shape, Once, TypeOK', Shape', NEW e \in Engines,
         Adopt(e) \/ Open(e) \/ Kick(e) \/ Unwound(e) \/ LoseLease(e)
  PROVE  Once'
<1>1. UNCHANGED <<log, appends, net, queue, outcome, inFlight, answer>>
  BY DEF Adopt, Open, Kick, Unwound, LoseLease, GrantLease, storeVars, callVars
<1>2. \A f \in Engines : Taken(f)' >= Taken(f)
  <2> TAKE f \in Engines
  <2>1. Taken(f)' = Taken(f) /\ Taken(f) \in Nat
    BY <1>1, TakenType, TakenKept
  <2> HIDE DEF Taken
  <2> QED  BY <2>1
<1>3. \A f \in Engines : inFlight[f] = <<>> \/ acked'[f] = acked[f]
  BY DEF Adopt, Open, Kick, Unwound, LoseLease, GrantLease, callVars, Shape,
         CallTracksFlight, TypeOK
<1>4. \A f \in Engines : Accepted(f)' => acked'[f] = acked[f]
  <2> SUFFICES ASSUME NEW f \in Engines, Accepted(f)' PROVE acked'[f] = acked[f]
    OBVIOUS
  <2>1. Accepted(f)
    BY <1>1 DEF Accepted
  <2> QED  BY <1>3, <2>1, AcceptedFacts
<1> QED  BY <1>1, <1>2, <1>3, <1>4, OnceKept

\* Pending promises are added behind the others, and as many entries queued.
LEMMA OncePushed ==
  ASSUME TypeOK, Shape, Once, TypeOK', Shape', NEW e \in Engines,
         NEW qs \in Seq(Queued), NEW ps \in Seq(Promise), Len(ps) = Len(qs),
         \A k \in DOMAIN ps : ps[k].st = "pending",
         queue' = [queue EXCEPT ![e] = @ \o qs],
         outcome' = [outcome EXCEPT ![e] = @ \o ps],
         UNCHANGED <<log, appends, net, inFlight, answer, acked>>
  PROVE  Once'
<1>1. /\ queue[e] \in Seq(Queued) /\ outcome[e] \in Seq(Promise)
      /\ queue'[e] = queue[e] \o qs /\ outcome'[e] = outcome[e] \o ps
      /\ \A f \in Engines \ {e} : queue'[f] = queue[f] /\ outcome'[f] = outcome[f]
  BY DEF TypeOK
<1>2. /\ Len(queue'[e]) = Len(queue[e]) + Len(qs)
      /\ Len(outcome'[e]) = Len(outcome[e]) + Len(qs)
      /\ Len(queue[e]) \in Nat /\ Len(outcome[e]) \in Nat /\ Len(qs) \in Nat
  <2>0. queue[e] \in Seq(Queued) /\ outcome[e] \in Seq(Promise)
    BY <1>1
  <2>1. Len(queue[e] \o qs) = Len(queue[e]) + Len(qs)
    BY <2>0, ConcatAt
  <2>2. Len(outcome[e] \o ps) = Len(outcome[e]) + Len(ps)
    BY <2>0, ConcatAt, ZenonT(40)
  <2>3. Len(queue[e]) \in Nat /\ Len(outcome[e]) \in Nat /\ Len(qs) \in Nat
    BY <1>1
  <2> QED  BY <1>1, <2>1, <2>2, <2>3
<1>3. \A f \in Engines : Taken(f)' >= Taken(f)
  <2> TAKE f \in Engines
  <2>1. CASE f = e
    <3>1. Taken(e)' = Taken(e)
      <4>1. (Len(outcome[e]) + Len(qs)) - (Len(queue[e]) + Len(qs))
              = Len(outcome[e]) - Len(queue[e])
        BY <1>2, EqualShift
      <4> QED  BY <1>2, <4>1 DEF Taken
    <3>2. Taken(e) \in Nat
      BY TakenType
    <3> HIDE DEF Taken
    <3> QED  BY <2>1, <3>1, <3>2
  <2>2. CASE f # e
    <3>1. Taken(f)' = Taken(f) /\ Taken(f) \in Nat
      BY <1>1, <2>2, TakenType, TakenKept
    <3> HIDE DEF Taken
    <3> QED  BY <3>1
  <2> QED  BY <2>1, <2>2
<1>4. \A f \in Engines : \A n \in DOMAIN outcome'[f] :
        outcome'[f][n].st = "acked" =>
          n \in DOMAIN outcome[f] /\ outcome'[f][n] = outcome[f][n]
  <2> TAKE f \in Engines
  <2>1. CASE f = e
    <3>1. ASSUME NEW n \in DOMAIN (outcome[e] \o ps), (outcome[e] \o ps)[n].st = "acked"
          PROVE  n \in DOMAIN outcome[e] /\ (outcome[e] \o ps)[n] = outcome[e][n]
      <4>1. n \in 1..(Len(outcome[e]) + Len(ps)) /\ Len(ps) \in Nat
        BY <1>1
      <4>2. CASE n <= Len(outcome[e])
        BY <1>1, <4>1, <4>2
      <4>3. CASE n > Len(outcome[e])
        <5>1. (outcome[e] \o ps)[n] = ps[n - Len(outcome[e])]
          BY <1>1, <4>1, <4>3
        <5>2. n - Len(outcome[e]) \in DOMAIN ps
          BY <1>1, <4>1, <4>3
        <5> QED  BY <3>1, <5>1, <5>2
      <4> QED  BY <1>1, <4>1, <4>2, <4>3
    <3> QED  BY <1>1, <2>1, <3>1
  <2>2. CASE f # e
    BY <1>1, <2>2
  <2> QED  BY <2>1, <2>2
<1> QED  BY <1>3, <1>4, OnceKept DEF Accepted

LEMMA OnceWrite ==
  ASSUME TypeOK, Shape, Once, TypeOK', Shape', NEW e \in Engines, NEW size \in Sizes,
         NEW record \in BOOLEAN, Write(e, size, record)
  PROVE  Once'
<1> DEFINE new == [ev |-> NextEvent(e, 1, size), item |-> NoItem, size |-> 1]
<1>1. queue[e] \in Seq(Queued) /\ outcome[e] \in Seq(Promise) /\ Len(outcome[e]) \in Nat
  BY DEF TypeOK
<1>2. new \in Queued /\ Pending(NoItem) \in Promise /\ Pending(NoItem).st = "pending"
  <2>1. size \in Nat /\ Len(outcome[e]) + 1 \in Nat \ {0}
    BY <1>1, BatcherAssumption
  <2> QED  BY <2>1 DEF Queued, Event, NextEvent, Promise, Pending
<1>3. /\ queue' = [queue EXCEPT ![e] = Append(@, new)]
      /\ outcome' = [outcome EXCEPT ![e] = Append(@, Pending(NoItem))]
      /\ UNCHANGED <<log, appends, net, inFlight, answer, acked>>
  BY DEF Write, storeVars, callVars
<1> HIDE DEF new
<1>4. Append(queue[e], new) = queue[e] \o <<new>>
  BY <1>1, <1>2, AddIsConcat
<1>5. Append(outcome[e], Pending(NoItem)) = outcome[e] \o <<Pending(NoItem)>>
  BY <1>1, <1>2, AddIsConcat
<1>6. /\ queue' = [queue EXCEPT ![e] = @ \o <<new>>]
      /\ outcome' = [outcome EXCEPT ![e] = @ \o <<Pending(NoItem)>>]
  BY <1>3, <1>4, <1>5
<1> DEFINE qs == <<new>>
           ps == <<Pending(NoItem)>>
<1>7. /\ qs \in Seq(Queued) /\ ps \in Seq(Promise) /\ Len(ps) = Len(qs)
      /\ \A k \in DOMAIN ps : ps[k].st = "pending"
  BY <1>2
<1>8. queue' = [queue EXCEPT ![e] = @ \o qs] /\ outcome' = [outcome EXCEPT ![e] = @ \o ps]
  BY <1>6
<1>9. UNCHANGED <<log, appends, net, inFlight, answer, acked>>
  BY <1>3
<1> HIDE DEF qs, ps
<1> QED  BY <1>7, <1>8, <1>9, OncePushed

LEMMA OnceConsume ==
  ASSUME TypeOK, Shape, Once, TypeOK', Shape', NEW e \in Engines, NEW i \in Items,
         NEW sizes \in Seq(Sizes), Consume(e, i, sizes)
  PROVE  Once'
<1>1. /\ Opening(e, i, sizes) \in Seq(Queued) /\ OpeningPromises(i, sizes) \in Seq(Promise)
      /\ Len(OpeningPromises(i, sizes)) = Len(Opening(e, i, sizes))
  BY OpeningFacts
<1>2. \A k \in DOMAIN OpeningPromises(i, sizes) :
        OpeningPromises(i, sizes)[k].st = "pending"
  BY DEF OpeningPromises, Pending
<1>3. /\ queue' = [queue EXCEPT ![e] = @ \o Opening(e, i, sizes)]
      /\ outcome' = [outcome EXCEPT ![e] = @ \o OpeningPromises(i, sizes)]
      /\ UNCHANGED <<log, appends, net, inFlight, answer, acked>>
  BY DEF Consume, storeVars, callVars
<1> QED  BY <1>1, <1>2, <1>3, OncePushed

\* Stopping: everything queued and in flight fails.
LEMMA OnceStop ==
  ASSUME TypeOK, Shape, Once, TypeOK', Shape', NEW e \in Engines,
         NEW batch \in Seq(Queued), NEW rest \in Seq(Queued), NEW cause,
         Stop(e, batch, rest, cause), UNCHANGED <<log, appends, net, acked>>,
         answer' = [answer EXCEPT ![e] = NoAnswer] \/ UNCHANGED answer,
         answer'[e] = NoAnswer
  PROVE  Once'
<1>1. /\ Len(outcome'[e]) = Len(outcome[e]) /\ queue'[e] = <<>> /\ inFlight'[e] = <<>>
      /\ \A f \in Engines \ {e} :
           outcome'[f] = outcome[f] /\ queue'[f] = queue[f] /\ inFlight'[f] = inFlight[f]
  BY StopFacts
<1>2. \A f \in Engines : Taken(f)' >= Taken(f)
  <2> TAKE f \in Engines
  <2>1. CASE f = e
    BY <1>1, <2>1, TakenCleared
  <2>2. CASE f # e
    <3>1. Taken(f)' = Taken(f) /\ Taken(f) \in Nat
      BY <1>1, <2>2, TakenType, TakenKept
    <3> HIDE DEF Taken
    <3> QED  BY <3>1
  <2> QED  BY <2>1, <2>2
<1>3. \A f \in Engines : \A n \in DOMAIN outcome'[f] :
        outcome'[f][n].st = "acked" =>
          n \in DOMAIN outcome[f] /\ outcome'[f][n] = outcome[f][n]
  <2>1. outcome'[e] = Settled(e, batch \o rest, "failed", 0)
    BY DEF Stop, TypeOK
  <2>2. DOMAIN outcome'[e] = DOMAIN outcome[e]
    BY <2>1 DEF Settled
  <2> QED  BY <1>1, <2>1, <2>2, SettledNotAcked
<1>4. \A f \in Engines : Accepted(f)' =>
        f # e /\ answer'[f] = answer[f] /\ inFlight'[f] = inFlight[f]
  <2> TAKE f \in Engines
  <2>1. CASE f = e
    BY <2>1 DEF Accepted, NoAnswer
  <2>2. CASE f # e
    BY <1>1, <2>2 DEF TypeOK
  <2> QED  BY <2>1, <2>2
<1> QED  BY <1>1, <1>2, <1>3, <1>4, OnceKept

\* A call that failed: another attempt, or the writer stops.
LEMMA OnceRetryOrThrow ==
  ASSUME TypeOK, Shape, Once, TypeOK', Shape', NEW e \in Engines, NEW cause,
         RetryOrThrow(e, cause), wire[e] = "sent",
         UNCHANGED <<log, appends, net, acked>>
  PROVE  Once'
<1>1. inFlight[e] \in Seq(Queued) /\ queue[e] \in Seq(Queued)
  BY DEF TypeOK
<1>2. CASE /\ answer' = [answer EXCEPT ![e] = NoAnswer]
           /\ UNCHANGED <<attempt, fatal, outcome, queue, inFlight, draining>>
  <2>1. \A f \in Engines : Taken(f)' >= Taken(f)
    <3> TAKE f \in Engines
    <3>1. Taken(f)' = Taken(f) /\ Taken(f) \in Nat
      BY <1>2, TakenType, TakenKept
    <3> HIDE DEF Taken
    <3> QED  BY <3>1
  <2>2. \A f \in Engines : Accepted(f)' => answer'[f] = answer[f]
    <3> TAKE f \in Engines
    <3>1. CASE f = e
      BY <1>2, <3>1 DEF Accepted, NoAnswer, TypeOK
    <3>2. CASE f # e
      BY <1>2, <3>2 DEF TypeOK
    <3> QED  BY <3>1, <3>2
  <2> QED  BY <1>2, <2>1, <2>2, OnceKept
<1>3. CASE /\ Stop(e, inFlight[e], queue[e], cause)
           /\ HangUp(e)
  <2>1. answer' = [answer EXCEPT ![e] = NoAnswer] /\ answer'[e] = NoAnswer
    BY <1>3 DEF HangUp, TypeOK
  <2> QED  BY <1>1, <1>3, <2>1, OnceStop
<1> QED  BY <1>2, <1>3 DEF RetryOrThrow

\* A refusal settles the batch without acknowledging it.
LEMMA OnceOnRefusal ==
  ASSUME TypeOK, Shape, Once, TypeOK', Shape', NEW e \in Engines, OnRefusal(e)
  PROVE  Once'
<1>1. PICK st \in {"refused", "withdrawn"} :
        outcome' = [outcome EXCEPT ![e] = Settled(e, inFlight[e], st, 0)]
  BY DEF OnRefusal
<1>2. /\ inFlight' = [inFlight EXCEPT ![e] = <<>>]
      /\ answer' = [answer EXCEPT ![e] = NoAnswer]
      /\ UNCHANGED <<log, appends, net, acked, queue>>
  BY DEF OnRefusal, HangUp, storeVars
<1>3. /\ outcome'[e] = Settled(e, inFlight[e], st, 0)
      /\ inFlight'[e] = <<>> /\ answer'[e] = NoAnswer
      /\ \A f \in Engines \ {e} :
           outcome'[f] = outcome[f] /\ inFlight'[f] = inFlight[f] /\ answer'[f] = answer[f]
  BY <1>1, <1>2 DEF TypeOK
<1>4. Len(outcome'[e]) = Len(outcome[e]) /\ DOMAIN outcome'[e] = DOMAIN outcome[e]
  <2>1. inFlight[e] \in Seq(Queued) /\ st \in {"acked", "refused", "withdrawn", "failed"}
    BY DEF TypeOK
  <2>2. /\ Len(Settled(e, inFlight[e], st, 0)) = Len(outcome[e])
        /\ DOMAIN Settled(e, inFlight[e], st, 0) = DOMAIN outcome[e]
    BY <2>1, SettledType
  <2> QED  BY <1>3, <2>2
<1>5. \A f \in Engines : Taken(f)' >= Taken(f)
  <2> TAKE f \in Engines
  <2>1. Len(outcome'[f]) = Len(outcome[f])
    BY <1>3, <1>4
  <2>2. Taken(f)' = Taken(f) /\ Taken(f) \in Nat
    BY <1>2, <2>1, TakenType, TakenKept
  <2> HIDE DEF Taken
  <2> QED  BY <2>2
<1>6. \A f \in Engines : \A n \in DOMAIN outcome'[f] :
        outcome'[f][n].st = "acked" =>
          n \in DOMAIN outcome[f] /\ outcome'[f][n] = outcome[f][n]
  BY <1>3, <1>4, SettledNotAcked
<1>7. \A f \in Engines : Accepted(f)' => f # e
  BY <1>3 DEF Accepted, NoAnswer
<1> QED  BY <1>2, <1>3, <1>5, <1>6, <1>7, OnceKept

\* A dead engine has nothing queued, in flight or awaited.
LEMMA OnceGone ==
  ASSUME TypeOK, Shape, Once, TypeOK', Shape', NEW e \in Engines, Gone(e)
  PROVE  Once'
<1>1. /\ queue'[e] = <<>> /\ inFlight'[e] = <<>> /\ answer'[e] = NoAnswer
      /\ \A f \in Engines \ {e} :
           /\ queue'[f] = queue[f] /\ inFlight'[f] = inFlight[f]
           /\ answer'[f] = answer[f] /\ acked'[f] = acked[f]
      /\ UNCHANGED <<log, appends, net, outcome>>
  BY DEF Gone, HangUp, TypeOK
<1>2. \A f \in Engines : Taken(f)' >= Taken(f)
  <2> TAKE f \in Engines
  <2>1. CASE f = e
    BY <1>1, <2>1, TakenCleared
  <2>2. CASE f # e
    <3>1. Taken(f)' = Taken(f) /\ Taken(f) \in Nat
      BY <1>1, <2>2, TakenType, TakenKept
    <3> HIDE DEF Taken
    <3> QED  BY <3>1
  <2> QED  BY <2>1, <2>2
<1>3. \A f \in Engines : Accepted(f)' => f # e
  BY <1>1 DEF Accepted, NoAnswer
<1> QED  BY <1>1, <1>2, <1>3, OnceKept

-----------------------------------------------------------------------------
(* Sending, and sending again.                                             *)

\* The batch in flight goes out once more, or for the first time: its body carries
\* consecutive events, taken out of the queue, and no other body carries any of them.
LEMMA OnceSent ==
  ASSUME TypeOK, Shape, Once, TypeOK', Shape', NEW e \in Engines,
         UNCHANGED <<log, appends, acked, answer, outcome>>,
         NEW B, B = BodyOf(e, inFlight'[e]),
         Bodies' \subseteq Bodies \cup {B},
         \A f \in Engines : Taken(f)' \in Nat /\ Taken(f)' >= Taken(f),
         \A f \in Engines \ {e} : inFlight'[f] = inFlight[f],
         ~Accepted(e),
         \A k \in DOMAIN B.evs :
           /\ B.evs[k].eng = e
           /\ B.evs[k].n = B.evs[1].n + k - 1
           /\ B.evs[k].n <= Taken(e)',
         \A b \in Bodies : \A k \in DOMAIN b.evs, l \in DOMAIN B.evs :
           b.lease = e /\ b.evs[k].n = B.evs[l].n => b = B
  PROVE  Once'
<1>0. /\ B.lease = e /\ DOMAIN B.evs = DOMAIN inFlight'[e]
      /\ \A k \in DOMAIN inFlight'[e] : B.evs[k] = inFlight'[e][k].ev
      /\ B = BodyOf(e, inFlight[e])'
  BY DEF BodyOf
<1>1. BodyShape'
  <2> SUFFICES ASSUME NEW b \in Bodies', NEW k \in DOMAIN b.evs
               PROVE  /\ b.evs[k].eng = b.lease
                      /\ b.evs[k].n = b.evs[1].n + k - 1
                      /\ b.evs[k].n <= Taken(b.lease)'
    BY DEF BodyShape
  <2>1. CASE b \in Bodies
    <3>1. b.lease \in Engines /\ b.evs[k].n \in Nat
      BY <2>1, BodyTypes
    <3>2. /\ b.evs[k].eng = b.lease /\ b.evs[k].n = b.evs[1].n + k - 1
          /\ b.evs[k].n <= Taken(b.lease)
      BY <2>1 DEF Once, BodyShape
    <3>3. Taken(b.lease) \in Nat /\ Taken(b.lease)' \in Nat
          /\ Taken(b.lease)' >= Taken(b.lease)
      BY <3>1, TakenType
    <3> HIDE DEF Taken
    <3> QED  BY <3>1, <3>2, <3>3
  <2>2. CASE b = B
    BY <1>0, <2>2
  <2> QED  BY <2>1, <2>2
<1>2. OneBody'
  <2>1. ASSUME NEW b \in Bodies', NEW c \in Bodies', NEW k \in DOMAIN b.evs,
               NEW l \in DOMAIN c.evs, b.lease = c.lease, b.evs[k].n = c.evs[l].n
        PROVE  b = c
    <3>1. CASE b \in Bodies /\ c \in Bodies
      BY <2>1, <3>1 DEF Once, OneBody
    <3>2. CASE b \in Bodies /\ c = B
      BY <1>0, <2>1, <3>2
    <3>3. CASE b = B /\ c \in Bodies
      BY <1>0, <2>1, <3>3
    <3> QED  BY <3>1, <3>2, <3>3
  <2>2. ASSUME NEW f \in Engines, NEW b \in Bodies', NEW k \in DOMAIN b.evs,
               NEW l \in DOMAIN inFlight'[f], b.lease = f,
               b.evs[k].n = inFlight'[f][l].ev.n
        PROVE  b = BodyOf(f, inFlight[f])'
    <3>1. CASE f = e
      <4>1. l \in DOMAIN B.evs /\ B.evs[l].n = inFlight'[e][l].ev.n
        BY <1>0, <2>2, <3>1
      <4> QED  BY <1>0, <2>2, <3>1, <4>1
    <3>2. CASE f # e
      <4>1. b \in Bodies /\ inFlight'[f] = inFlight[f]
        BY <1>0, <2>2, <3>2
      <4>2. b = BodyOf(f, inFlight[f])
        BY <2>2, <4>1 DEF Once, OneBody
      <4> QED  BY <4>1, <4>2 DEF BodyOf
    <3> QED  BY <3>1, <3>2
  <2> QED  BY <2>1, <2>2 DEF OneBody
<1>3. LogIsAppends'
  BY DEF Once, LogIsAppends
<1>4. AnswerIsTrue'
  <2> SUFFICES ASSUME NEW f \in Engines, Accepted(f)'
               PROVE  /\ BodyOf(f, inFlight[f])' \in appends
                      /\ answer'[f].first = acked'[f] + 1
                      /\ answer'[f].last = acked'[f] + Len(inFlight'[f])
    BY DEF AnswerIsTrue
  <2>1. Accepted(f) /\ f # e
    BY DEF Accepted
  <2>2. BodyOf(f, inFlight[f])' = BodyOf(f, inFlight[f])
    BY <2>1 DEF BodyOf
  <2> QED  BY <2>1, <2>2 DEF Once, AnswerIsTrue
<1>5. AckedIsDurable'
  BY DEF Once, AckedIsDurable
<1> QED  BY <1>1, <1>2, <1>3, <1>4, <1>5 DEF Once

LEMMA OnceRetry ==
  ASSUME TypeOK, Shape, Once, TypeOK', Shape', NEW e \in Engines, Retry(e)
  PROVE  Once'
<1> DEFINE B == BodyOf(e, inFlight[e])
           T == Taken(e) - Len(inFlight[e])
<1>1. /\ UNCHANGED <<log, appends, acked, answer, outcome, queue, inFlight>>
      /\ net' = net \cup {[body |-> B, attempt |-> attempt[e] + 1]}
  BY DEF Retry, storeVars, engineVars
<1>2. /\ inFlight[e] \in Seq(Queued) /\ inFlight[e] # <<>> /\ answer[e] = NoAnswer
      /\ Len(inFlight[e]) <= Taken(e) /\ NumberedFrom(inFlight[e], e, T)
  BY DEF Retry, Shape, CallTracksFlight, Numbered, TypeOK
<1>3. \A f \in Engines : Taken(f)' = Taken(f) /\ Taken(f) \in Nat
  BY <1>1, TakenType, TakenKept
<1>4. \A f \in Engines : Taken(f)' \in Nat /\ Taken(f)' >= Taken(f)
  <2> HIDE DEF Taken
  <2> QED  BY <1>3
<1>5. Bodies' \subseteq Bodies \cup {B}
  BY <1>1 DEF Bodies
<1>6. ~Accepted(e)
  BY <1>2 DEF Accepted, NoAnswer
<1>7. /\ DOMAIN B.evs = DOMAIN inFlight[e]
      /\ \A k \in DOMAIN inFlight[e] : B.evs[k] = inFlight[e][k].ev
  BY DEF BodyOf
<1>8. /\ DOMAIN inFlight[e] = 1..Len(inFlight[e]) /\ Len(inFlight[e]) \in Nat
      /\ Len(inFlight[e]) >= 1 /\ Taken(e) \in Nat
  BY <1>2, <1>3
<1> HIDE DEF Taken
<1>9. \A k \in DOMAIN B.evs :
        /\ B.evs[k].eng = e
        /\ B.evs[k].n = B.evs[1].n + k - 1
        /\ B.evs[k].n <= Taken(e)'
  <2> SUFFICES ASSUME NEW k \in 1..Len(inFlight[e])
               PROVE  /\ inFlight[e][k].ev.eng = e
                      /\ inFlight[e][k].ev.n = inFlight[e][1].ev.n + k - 1
                      /\ inFlight[e][k].ev.n <= Taken(e)
    <3>1. 1 \in DOMAIN inFlight[e] /\ DOMAIN B.evs = 1..Len(inFlight[e])
      BY <1>7, <1>8
    <3>2. \A k \in 1..Len(inFlight[e]) : B.evs[k] = inFlight[e][k].ev
      BY <1>7, <1>8
    <3>3. B.evs[1] = inFlight[e][1].ev /\ Taken(e)' = Taken(e)
      BY <1>3, <1>7, <3>1
    <3> HIDE DEF B, T
    <3> QED  BY <3>1, <3>2, <3>3
  <2>1. /\ inFlight[e][k].ev.eng = e /\ inFlight[e][k].ev.n = T + k
        /\ inFlight[e][1].ev.n = T + 1
    BY <1>2, <1>8 DEF NumberedFrom
  <2> QED  BY <1>2, <1>8, <2>1
<1>10. \A b \in Bodies : \A k \in DOMAIN b.evs, l \in DOMAIN B.evs :
         b.lease = e /\ b.evs[k].n = B.evs[l].n => b = B
  BY <1>7 DEF Once, OneBody
<1> HIDE DEF B
<1>11. B = BodyOf(e, inFlight'[e])
  BY <1>1 DEF B
<1> QED  BY <1>1, <1>4, <1>5, <1>6, <1>9, <1>10, <1>11, OnceSent

LEMMA OnceSend ==
  ASSUME TypeOK, Shape, Once, TypeOK', Shape', NEW e \in Engines,
         draining[e] = "loop", queue[e] # <<>>, NEW n, n = CutOf(queue[e]),
         queue' = [queue EXCEPT ![e] = SubSeq(@, n + 1, Len(@))],
         inFlight' = [inFlight EXCEPT ![e] = SubSeq(queue[e], 1, n)],
         net' = net \cup {[body |-> BodyOf(e, SubSeq(queue[e], 1, n)), attempt |-> 1]},
         UNCHANGED <<log, appends, acked, answer, outcome>>
  PROVE  Once'
<1> DEFINE batch == SubSeq(queue[e], 1, n)
           B == BodyOf(e, batch)
<1>1. /\ queue[e] \in Seq(Queued) /\ n \in 1..Len(queue[e]) /\ n \in Nat
      /\ batch # <<>> /\ Len(batch) = n /\ batch \in Seq(Queued)
      /\ Len(SubSeq(queue[e], n + 1, Len(queue[e]))) = Len(queue[e]) - n
  BY CutFacts DEF TypeOK
<1>2. /\ inFlight'[e] = batch /\ queue'[e] = SubSeq(queue[e], n + 1, Len(queue[e]))
      /\ \A f \in Engines \ {e} : inFlight'[f] = inFlight[f] /\ queue'[f] = queue[f]
  BY DEF TypeOK
<1>3. Bodies' \subseteq Bodies \cup {B}
  BY DEF Bodies
<1> HIDE DEF batch
<1>4. /\ DOMAIN B.evs = 1..n /\ \A k \in 1..n : B.evs[k] = batch[k].ev
      /\ B.lease = e
  <2>1. DOMAIN batch = 1..n
    BY <1>1
  <2> QED  BY <2>1 DEF BodyOf
<1>5. NumberedFrom(queue[e], e, Taken(e)) /\ Taken(e) \in Nat
  BY TakenType DEF Shape, Numbered
<1>6. NumberedFrom(batch, e, Taken(e))
  <2>1. Taken(e) \in Int
    BY <1>5
  <2> HIDE DEF Taken
  <2> QED  BY <1>1, <1>5, <2>1, CutNumbered DEF batch
<1>7. \A k \in 1..n : B.evs[k].eng = e /\ B.evs[k].n = Taken(e) + k
  <2>1. DOMAIN batch = 1..n
    BY <1>1
  <2> HIDE DEF B
  <2> QED  BY <1>4, <1>6, <2>1 DEF NumberedFrom
<1>8. Taken(e)' = Taken(e) + n
  <2>1. Len(outcome[e]) \in Nat /\ Len(queue[e]) \in Nat
    BY DEF TypeOK
  <2>2. Len(outcome[e]) - (Len(queue[e]) - n) = (Len(outcome[e]) - Len(queue[e])) + n
    BY <1>1, <2>1, AfterCut
  <2> QED  BY <1>1, <1>2, <2>2 DEF Taken
<1>9. \A f \in Engines \ {e} : Taken(f)' = Taken(f) /\ Taken(f) \in Nat
  BY <1>2, TakenType, TakenKept
<1> HIDE DEF B, Taken
<1>10. \A f \in Engines : Taken(f)' \in Nat /\ Taken(f)' >= Taken(f)
  BY <1>1, <1>5, <1>8, <1>9
<1>11. ~Accepted(e)
  BY AcceptedFacts
<1>12. \A k \in DOMAIN B.evs :
         /\ B.evs[k].eng = e
         /\ B.evs[k].n = B.evs[1].n + k - 1
         /\ B.evs[k].n <= Taken(e)'
  <2> SUFFICES ASSUME NEW k \in 1..n
               PROVE  /\ B.evs[k].eng = e
                      /\ B.evs[k].n = B.evs[1].n + k - 1
                      /\ B.evs[k].n <= Taken(e)'
    BY <1>4
  <2>1. /\ B.evs[k].eng = e /\ B.evs[k].n = Taken(e) + k /\ B.evs[1].n = Taken(e) + 1
    BY <1>1, <1>7
  <2>2. /\ k \in Nat /\ n \in Nat /\ k <= n /\ Taken(e) \in Nat
    BY <1>1, <1>5
  <2>3. B.evs[k].n = B.evs[1].n + k - 1
    BY <2>1, <2>2
  <2>4. B.evs[k].n <= Taken(e)'
    BY <1>8, <2>1, <2>2
  <2> QED  BY <2>1, <2>3, <2>4
<1>13. ASSUME NEW b \in Bodies, NEW k \in DOMAIN b.evs, NEW l \in DOMAIN B.evs,
              b.lease = e, b.evs[k].n = B.evs[l].n
       PROVE  FALSE
  <2>1. b.evs[k].n <= Taken(e)
    BY <1>13 DEF Once, BodyShape
  <2>2. B.evs[l].n = Taken(e) + l /\ l \in 1..n
    BY <1>4, <1>7
  <2> QED  BY <1>1, <1>5, <1>13, <2>1, <2>2
<1>14. B = BodyOf(e, inFlight'[e])
  BY <1>2 DEF B
<1>15. \A b \in Bodies : \A k \in DOMAIN b.evs, l \in DOMAIN B.evs :
         b.lease = e /\ b.evs[k].n = B.evs[l].n => b = B
  BY <1>13
<1>16. \A f \in Engines \ {e} : inFlight'[f] = inFlight[f]
  BY <1>2
<1> QED  BY <1>3, <1>10, <1>11, <1>12, <1>14, <1>15, <1>16, OnceSent

LEMMA OnceDrainStep ==
  ASSUME TypeOK, Shape, Once, TypeOK', Shape', NEW e \in Engines, DrainStep(e)
  PROVE  Once'
<1>1. /\ queue[e] \in Seq(Queued) /\ <<>> \in Seq(Queued)
      /\ UNCHANGED <<log, appends, acked>>
  BY DEF DrainStep, storeVars, TypeOK
<1>2. answer[e] = NoAnswer
  BY DEF DrainStep, Shape, CallTracksFlight
<1>3. CASE UNCHANGED <<queue, inFlight, fatal, outcome, callVars>>
  <2>1. \A f \in Engines : Taken(f)' >= Taken(f)
    <3> TAKE f \in Engines
    <3>1. Taken(f)' = Taken(f) /\ Taken(f) \in Nat
      BY <1>3, TakenType, TakenKept
    <3> HIDE DEF Taken
    <3> QED  BY <3>1
  <2> QED  BY <1>1, <1>3, <2>1, OnceKept DEF callVars
<1>4. CASE /\ Stop(e, <<>>, queue[e], "no_lease")
           /\ UNCHANGED callVars
  BY <1>1, <1>2, <1>4, OnceStop DEF callVars
<1>5. CASE queue[e] # <<>> /\ fatal[e] = "none" /\ ~lost[e]
  <2> DEFINE n == CutOf(queue[e])
  <2>1. /\ queue' = [queue EXCEPT ![e] = SubSeq(@, n + 1, Len(@))]
        /\ inFlight' = [inFlight EXCEPT ![e] = SubSeq(queue[e], 1, n)]
        /\ net' = net \cup {[body |-> BodyOf(e, SubSeq(queue[e], 1, n)), attempt |-> 1]}
        /\ UNCHANGED <<answer, outcome>> /\ draining[e] = "loop"
    BY <1>5 DEF DrainStep
  <2> HIDE DEF n
  <2>2. n = CutOf(queue[e])
    BY DEF n
  <2> QED  BY <1>1, <1>5, <2>1, <2>2, OnceSend
<1> QED  BY <1>3, <1>4, <1>5 DEF DrainStep

-----------------------------------------------------------------------------
(* What the store and its answers do.                                      *)

\* A request leaves the network and changes nothing but, maybe, the answer its
\* sender waits for, which then does not accept.
LEMMA OnceNotTaken ==
  ASSUME TypeOK, Shape, Once, TypeOK', Shape',
         UNCHANGED <<log, appends, engineVars>>, net' \subseteq net,
         \A f \in Engines : Accepted(f)' => answer'[f] = answer[f]
  PROVE  Once'
<1>1. \A f \in Engines : Taken(f)' >= Taken(f)
  <2> TAKE f \in Engines
  <2>1. Taken(f)' = Taken(f) /\ Taken(f) \in Nat
    BY TakenType, TakenKept DEF engineVars
  <2> HIDE DEF Taken
  <2> QED  BY <2>1
<1> QED  BY <1>1, OnceKept DEF engineVars

\* What the store's answer says of a request.
LEMMA AnsweredFacts ==
  ASSUME TypeOK, NEW m \in net, NEW code, Answered(m, code), NEW f \in Engines,
         answer'[f] # answer[f]
  PROVE  /\ f = m.body.lease /\ m.body = BodyOf(f, inFlight[f])
         /\ answer'[f] = [code |-> code, first |-> FirstSeq(m.body), last |-> LastSeq(m.body)]
BY DEF Answered, Awaited, TypeOK

LEMMA OnceDeliverBusy ==
  ASSUME TypeOK, Shape, Once, TypeOK', Shape', NEW m \in net, DeliverBusy(m)
  PROVE  Once'
<1>1. UNCHANGED <<log, appends, engineVars>> /\ net' \subseteq net
  BY DEF DeliverBusy, storeVars
<1>2. ASSUME NEW f \in Engines, Accepted(f)' PROVE answer'[f] = answer[f]
  <2>1. answer'[f].code \in {"commit", "replay"}
    BY <1>2 DEF Accepted
  <2>2. answer'[f] # answer[f] => answer'[f].code = "busy"
    <3> SUFFICES ASSUME answer'[f] # answer[f] PROVE answer'[f].code = "busy"
      OBVIOUS
    <3>1. Answered(m, "busy")
      BY DEF DeliverBusy
    <3>2. answer'[f] = [code |-> "busy", first |-> FirstSeq(m.body), last |-> LastSeq(m.body)]
      BY <3>1, AnsweredFacts
    <3> QED  BY <3>2
  <2> QED  BY <2>1, <2>2
<1> QED  BY <1>1, <1>2, OnceNotTaken

LEMMA OnceStoreStep ==
  ASSUME TypeOK, Shape, Once, TypeOK', Shape', StoreStep
  PROVE  Once'
<1>1. UNCHANGED <<log, appends, engineVars, net, answer>>
  BY DEF StoreStep, LapseLease, WithdrawItem, callVars
<1> QED  BY <1>1, OnceNotTaken

\* A committed or replayed body is in the record of appends, and the log with it.
LEMMA CommitFacts ==
  ASSUME NEW b, HandleAppend(b)
  PROVE  /\ AppendCode(b) = "commit" =>
              b.after = Len(log) /\ log' = log \o b.evs /\ appends' = appends \cup {b}
         /\ AppendCode(b) # "commit" => UNCHANGED <<log, appends>>
         /\ AppendCode(b) = "replay" => b \in appends
<1>1. AppendCode(b) = "commit" => b.after = Len(log)
  BY DEF AppendCode
<1>2. AppendCode(b) = "replay" => b \in appends
  BY DEF AppendCode
<1> QED  BY <1>1, <1>2 DEF HandleAppend, storeVars

LEMMA OnceDeliver ==
  ASSUME TypeOK, Shape, Once, TypeOK', Shape', NEW m \in net, Deliver(m)
  PROVE  Once'
<1> DEFINE B == m.body
<1>0. B \in Bodies
  BY DEF Bodies
<1>1. /\ B \in Body /\ B.lease \in Engines /\ B.evs \in Seq(Event) /\ B.after \in Nat
      /\ Len(B.evs) \in Nat /\ DOMAIN B.evs = 1..Len(B.evs)
  <2>1. B \in Body
    BY <1>0, BodyTypes
  <2> QED  BY <1>0, <2>1, BodyTypes DEF Body
<1>2. /\ HandleAppend(B) /\ net' = net \ {m} /\ UNCHANGED engineVars
      /\ Answered(m, AppendCode(B))
  BY DEF Deliver
<1>3. CASE AppendCode(B) # "commit"
  <2>1. UNCHANGED <<log, appends>> /\ (AppendCode(B) = "replay" => B \in appends)
    BY <1>2, <1>3, CommitFacts
  <2>2. BodyShape' /\ OneBody' /\ LogIsAppends'
    <3>1. Bodies' \subseteq Bodies
      BY <1>2, <2>1 DEF Bodies
    <3>2. BodyShape'
      BY <1>2, <3>1 DEF Once, BodyShape, engineVars, Taken
    <3>3. OneBody'
      BY <1>2, <3>1 DEF Once, OneBody, engineVars, BodyOf
    <3>4. LogIsAppends'
      BY <2>1 DEF Once, LogIsAppends
    <3> QED  BY <3>2, <3>3, <3>4
  <2>3. AnswerIsTrue'
    <3> SUFFICES ASSUME NEW f \in Engines, Accepted(f)'
                 PROVE  /\ BodyOf(f, inFlight[f])' \in appends
                        /\ answer'[f].first = acked[f] + 1
                        /\ answer'[f].last = acked[f] + Len(inFlight[f])
      BY <1>2, <2>1 DEF AnswerIsTrue, engineVars
    <3>1. BodyOf(f, inFlight[f])' = BodyOf(f, inFlight[f])
      BY <1>2 DEF BodyOf, engineVars
    <3>2. CASE answer'[f] = answer[f]
      BY <3>1, <3>2 DEF Once, AnswerIsTrue, Accepted
    <3>3. CASE answer'[f] # answer[f]
      <4>1. /\ B = BodyOf(f, inFlight[f])
            /\ answer'[f] = [code |-> AppendCode(B), first |-> FirstSeq(B), last |-> LastSeq(B)]
        BY <1>2, <3>3, AnsweredFacts
      <4>2. AppendCode(B) = "replay"
        BY <1>3, <4>1 DEF Accepted
      <4>3. B.after = acked[f] /\ Len(B.evs) = Len(inFlight[f])
        <5>1. inFlight[f] \in Seq(Queued)
          BY DEF TypeOK
        <5>2. Len([k \in DOMAIN inFlight[f] |-> inFlight[f][k].ev]) = Len(inFlight[f])
          BY <5>1, BatchEvents
        <5> HIDE DEF B
        <5> QED  BY <4>1, <5>2 DEF BodyOf
      <4> HIDE DEF B
      <4> QED  BY <2>1, <3>1, <4>1, <4>2, <4>3 DEF FirstSeq, LastSeq
    <3> QED  BY <3>2, <3>3
  <2>4. AckedIsDurable'
    BY <1>2, <2>1 DEF Once, AckedIsDurable, engineVars
  <2> QED  BY <2>2, <2>3, <2>4 DEF Once
<1>4. CASE AppendCode(B) = "commit"
  <2>1. B.after = Len(log) /\ log' = log \o B.evs /\ appends' = appends \cup {B}
    BY <1>2, <1>4, CommitFacts
  <2>2. BodyShape' /\ OneBody'
    <3>1. Bodies' \subseteq Bodies
      BY <1>0, <1>2, <2>1 DEF Bodies
    <3>2. BodyShape'
      BY <1>2, <3>1 DEF Once, BodyShape, engineVars, Taken
    <3>3. OneBody'
      BY <1>2, <3>1 DEF Once, OneBody, engineVars, BodyOf
    <3> QED  BY <3>2, <3>3
  <2>3. /\ Len(log') = Len(log) + Len(B.evs) /\ DOMAIN log' = 1..(Len(log) + Len(B.evs))
        /\ \A i \in 1..Len(log) : log'[i] = log[i]
        /\ \A k \in 1..Len(B.evs) : log'[Len(log) + k] = B.evs[k]
        /\ Len(log) \in Nat /\ DOMAIN log = 1..Len(log)
    <3>1. log \in Seq(Event)
      BY DEF TypeOK, StoreTypeOK
    <3>2. /\ Len(log \o B.evs) = Len(log) + Len(B.evs)
          /\ DOMAIN (log \o B.evs) = 1..(Len(log) + Len(B.evs))
          /\ \A i \in 1..Len(log) : (log \o B.evs)[i] = log[i]
          /\ \A k \in 1..Len(B.evs) : (log \o B.evs)[Len(log) + k] = B.evs[k]
      <4> HIDE DEF B
      <4> QED  BY <1>1, <3>1, ConcatAt
    <3> QED  BY <2>1, <3>1, <3>2
  <2>4. LogIsAppends'
    <3>1. \A b \in appends : b.after + Len(b.evs) <= Len(log) /\ b \in Bodies
      BY DEF Once, LogIsAppends, Bodies
    <3>2. ASSUME NEW i \in DOMAIN log'
          PROVE  \E b \in appends' : \E k \in DOMAIN b.evs :
                   i = b.after + k /\ log'[i] = b.evs[k]
      <4>1. CASE i <= Len(log)
        <5>1. i \in DOMAIN log /\ log'[i] = log[i]
          BY <1>1, <2>3, <4>1
        <5> QED  BY <2>1, <5>1 DEF Once, LogIsAppends
      <4>2. CASE i > Len(log)
        <5>1. i - Len(log) \in 1..Len(B.evs) /\ i = Len(log) + (i - Len(log))
          BY <1>1, <2>3, <4>2
        <5> DEFINE k == i - Len(log)
        <5>2. B.evs[k] = log'[i]
          BY <2>3, <5>1
        <5>3. k \in DOMAIN B.evs /\ i = B.after + k /\ B \in appends'
          BY <1>1, <2>1, <5>1
        <5> HIDE DEF B, k
        <5> QED  BY <5>2, <5>3
      <4> QED  BY <2>3, <4>1, <4>2
    <3>3. ASSUME NEW b \in appends'
          PROVE  /\ b.after + Len(b.evs) <= Len(log')
                 /\ \A k \in DOMAIN b.evs : log'[b.after + k] = b.evs[k]
      <4>1. CASE b \in appends
        <5>1. /\ b.after \in Nat /\ Len(b.evs) \in Nat /\ DOMAIN b.evs = 1..Len(b.evs)
              /\ b.after + Len(b.evs) <= Len(log)
          BY <3>1, <4>1, BodyTypes
        <5>2. \A k \in DOMAIN b.evs : log[b.after + k] = b.evs[k]
          BY <4>1 DEF Once, LogIsAppends
        <5>3. \A k \in DOMAIN b.evs : b.after + k \in 1..Len(log)
          BY <2>3, <5>1
        <5> HIDE DEF B
        <5> QED  BY <1>1, <2>3, <5>1, <5>2, <5>3
      <4>2. CASE b = B
        <5>1. b.after + Len(b.evs) <= Len(log')
          <6> HIDE DEF B
          <6> QED  BY <1>1, <2>1, <2>3, <4>2
        <5>2. \A k \in DOMAIN b.evs : log'[b.after + k] = b.evs[k]
          <6> HIDE DEF B
          <6>1. \A k \in DOMAIN B.evs : log'[Len(log) + k] = B.evs[k]
            BY <1>1, <2>3
          <6> QED  BY <2>1, <4>2, <6>1
        <5> QED  BY <5>1, <5>2
      <4> QED  BY <2>1, <4>1, <4>2
    <3> QED  BY <3>2, <3>3 DEF LogIsAppends
  <2>5. AnswerIsTrue'
    <3> SUFFICES ASSUME NEW f \in Engines, Accepted(f)'
                 PROVE  /\ BodyOf(f, inFlight[f])' \in appends'
                        /\ answer'[f].first = acked[f] + 1
                        /\ answer'[f].last = acked[f] + Len(inFlight[f])
      BY <1>2 DEF AnswerIsTrue, engineVars
    <3>1. BodyOf(f, inFlight[f])' = BodyOf(f, inFlight[f])
      BY <1>2 DEF BodyOf, engineVars
    <3>2. CASE answer'[f] = answer[f]
      BY <2>1, <3>1, <3>2 DEF Once, AnswerIsTrue, Accepted
    <3>3. CASE answer'[f] # answer[f]
      <4>1. /\ B = BodyOf(f, inFlight[f])
            /\ answer'[f] = [code |-> AppendCode(B), first |-> FirstSeq(B), last |-> LastSeq(B)]
        BY <1>2, <3>3, AnsweredFacts
      <4>3. B.after = acked[f] /\ Len(B.evs) = Len(inFlight[f])
        <5>1. inFlight[f] \in Seq(Queued)
          BY DEF TypeOK
        <5>2. Len([k \in DOMAIN inFlight[f] |-> inFlight[f][k].ev]) = Len(inFlight[f])
          BY <5>1, BatchEvents
        <5> HIDE DEF B
        <5> QED  BY <4>1, <5>2 DEF BodyOf
      <4> HIDE DEF B
      <4> QED  BY <2>1, <3>1, <4>1, <4>3 DEF FirstSeq, LastSeq
    <3> QED  BY <3>2, <3>3
  <2>6. AckedIsDurable'
    <3> SUFFICES ASSUME NEW f \in Engines, NEW n \in DOMAIN outcome[f],
                        outcome[f][n].st = "acked"
                 PROVE  /\ outcome[f][n].seq \in DOMAIN log'
                        /\ log'[outcome[f][n].seq].eng = f
                        /\ log'[outcome[f][n].seq].n = n
      BY <1>2 DEF AckedIsDurable, engineVars
    <3>1. /\ outcome[f][n].seq \in DOMAIN log
          /\ log[outcome[f][n].seq].eng = f /\ log[outcome[f][n].seq].n = n
      BY DEF Once, AckedIsDurable
    <3> QED  BY <1>1, <2>3, <3>1
  <2> QED  BY <2>2, <2>4, <2>5, <2>6 DEF Once
<1> QED  BY <1>3, <1>4

LEMMA AckShift ==
  ASSUME NEW a \in Nat, NEW t \in Int, NEW k \in Nat
  PROVE  (a + 1) + ((t + k) - (t + 1)) = a + k
OBVIOUS

\* The seqs of an acknowledged batch are those its body was committed at.
LEMMA OnceOnAck ==
  ASSUME TypeOK, Shape, Once, TypeOK', Shape', NEW e \in Engines, OnAck(e)
  PROVE  Once'
<1> DEFINE batch == inFlight[e]
           B == BodyOf(e, batch)
           T == Taken(e) - Len(batch)
           first == answer[e].first
<1>1. /\ UNCHANGED <<log, appends, net, queue>> /\ Accepted(e)
      /\ inFlight' = [inFlight EXCEPT ![e] = <<>>]
      /\ answer' = [answer EXCEPT ![e] = NoAnswer]
      /\ acked' = [acked EXCEPT ![e] = answer[e].last]
      /\ outcome' = [outcome EXCEPT ![e] = Settled(e, batch, "acked", first)]
  BY DEF OnAck, HangUp, storeVars
<1>2. /\ inFlight'[e] = <<>> /\ answer'[e] = NoAnswer
      /\ outcome'[e] = Settled(e, batch, "acked", first)
      /\ \A f \in Engines \ {e} :
           /\ outcome'[f] = outcome[f] /\ inFlight'[f] = inFlight[f]
           /\ answer'[f] = answer[f] /\ acked'[f] = acked[f]
  BY <1>1 DEF TypeOK
<1>3. batch \in Seq(Queued) /\ acked[e] \in Nat /\ B \in appends /\ first = acked[e] + 1
  BY <1>1 DEF TypeOK, Once, AnswerIsTrue
<1>4. first \in Nat /\ \A k \in DOMAIN batch : batch[k].ev.n >= batch[1].ev.n
  BY <1>3, InFlightAscends
<1>5. /\ Len(outcome'[e]) = Len(outcome[e]) /\ DOMAIN outcome'[e] = DOMAIN outcome[e]
  <2>1. /\ Len(Settled(e, batch, "acked", first)) = Len(outcome[e])
        /\ DOMAIN Settled(e, batch, "acked", first) = DOMAIN outcome[e]
    <3> HIDE DEF batch, first
    <3> QED  BY <1>3, <1>4, SettledType
  <2> QED  BY <1>2, <2>1
<1>6. \A f \in Engines : Taken(f)' >= Taken(f)
  <2> TAKE f \in Engines
  <2>1. Len(outcome'[f]) = Len(outcome[f])
    BY <1>2, <1>5
  <2>2. Taken(f)' = Taken(f) /\ Taken(f) \in Nat
    BY <1>1, <2>1, TakenType, TakenKept
  <2> HIDE DEF Taken
  <2> QED  BY <2>2
<1>7. \A f \in Engines : Accepted(f)' => f # e
  BY <1>2 DEF Accepted, NoAnswer
<1>8. BodyShape' /\ OneBody' /\ LogIsAppends' /\ AnswerIsTrue'
  BY <1>1, <1>2, <1>6, <1>7, BodiesKept
<1>9. /\ Len(batch) \in Nat /\ DOMAIN batch = 1..Len(batch) /\ Taken(e) \in Nat
      /\ NumberedFrom(batch, e, T)
  BY <1>3, TakenType DEF Shape, Numbered
<1>10. ASSUME NEW n \in DOMAIN outcome[e], outcome'[e][n].st = "acked"
       PROVE  /\ outcome'[e][n].seq \in DOMAIN log
              /\ log[outcome'[e][n].seq].eng = e
              /\ log[outcome'[e][n].seq].n = n
  <2>1. CASE ~\E k \in DOMAIN batch : batch[k].ev.n = n
    <3>1. outcome'[e][n] = outcome[e][n]
      BY <1>2, <2>1 DEF Settled
    <3> QED  BY <1>10, <3>1 DEF Once, AckedIsDurable
  <2>2. ASSUME NEW k \in DOMAIN batch, batch[k].ev.n = n
        PROVE  /\ outcome'[e][n].seq = B.after + k
               /\ B.after + k \in DOMAIN log
               /\ log[B.after + k] = batch[k].ev /\ batch[k].ev.eng = e
    <3>1. outcome'[e][n].seq = first + (n - batch[1].ev.n)
      <4>1. outcome[e][n] \in Promise
        BY DEF TypeOK
      <4>2. outcome'[e][n] =
              [outcome[e][n] EXCEPT !.st = "acked", !.seq = first + (n - batch[1].ev.n)]
        <5> HIDE DEF batch, first
        <5> QED  BY <1>2, <2>2 DEF Settled
      <4> HIDE DEF batch, first
      <4> QED  BY <4>1, <4>2 DEF Promise
    <3>2. n = T + k /\ batch[1].ev.n = T + 1 /\ batch[k].ev.eng = e
      <4>1. 1 \in DOMAIN batch
        BY <1>9
      <4> HIDE DEF batch, T
      <4> QED  BY <1>9, <2>2, <4>1 DEF NumberedFrom
    <3>3. T \in Int
      <4> HIDE DEF Taken
      <4> QED  BY <1>9
    <3>4. first + ((T + k) - (T + 1)) = acked[e] + k
      <4>1. k \in Nat /\ acked[e] \in Nat /\ first = acked[e] + 1
        BY <1>3, <1>9
      <4> HIDE DEF T, first
      <4>2. (acked[e] + 1) + ((T + k) - (T + 1)) = acked[e] + k
        BY <3>3, <4>1, AckShift
      <4> QED  BY <4>1, <4>2
    <3>5. B.after = acked[e]
      BY DEF BodyOf
    <3>6. /\ DOMAIN B.evs = DOMAIN batch /\ B.evs[k] = batch[k].ev
          /\ Len(B.evs) = Len(batch)
      <4>1. Len([j \in DOMAIN batch |-> batch[j].ev]) = Len(batch)
        BY <1>3, BatchEvents
      <4> QED  BY <4>1 DEF BodyOf
    <3>7. log[B.after + k] = B.evs[k] /\ B.after + Len(B.evs) <= Len(log)
      <4> HIDE DEF B
      <4> QED  BY <1>3, <3>6 DEF Once, LogIsAppends
    <3>8. B.after + k \in DOMAIN log
      <4>1. DOMAIN log = 1..Len(log) /\ Len(log) \in Nat
        BY DEF TypeOK, StoreTypeOK
      <4> HIDE DEF B, batch
      <4> QED  BY <1>3, <1>9, <3>5, <3>6, <3>7, <4>1
    <3> HIDE DEF B, T, first, batch
    <3> QED  BY <2>2, <3>1, <3>2, <3>4, <3>5, <3>6, <3>7, <3>8
  <2> HIDE DEF B, batch
  <2> QED  BY <2>1, <2>2
<1>11. AckedIsDurable'
  <2> SUFFICES ASSUME NEW f \in Engines, NEW n \in DOMAIN outcome'[f],
                      outcome'[f][n].st = "acked"
               PROVE  /\ outcome'[f][n].seq \in DOMAIN log
                      /\ log[outcome'[f][n].seq].eng = f
                      /\ log[outcome'[f][n].seq].n = n
    BY <1>1 DEF AckedIsDurable
  <2>1. CASE f = e
    BY <1>5, <1>10, <2>1
  <2>2. CASE f # e
    BY <1>2, <2>2 DEF Once, AckedIsDurable
  <2> QED  BY <2>1, <2>2
<1> QED  BY <1>8, <1>11 DEF Once

-----------------------------------------------------------------------------
(* Theorems.                                                               *)

LEMMA OnceNext == TypeOK /\ Shape /\ Once /\ TypeOK' /\ Shape' /\ [Next]_vars => Once'
<1> SUFFICES ASSUME TypeOK, Shape, Once, TypeOK', Shape', [Next]_vars PROVE Once'
  OBVIOUS
<1>1. CASE UNCHANGED vars
  BY <1>1, OnceNotTaken DEF vars, storeVars, callVars
<1>2. ASSUME NEW e \in Engines, EngineStep(e) PROVE Once'
  <2>1. CASE Adopt(e) \/ Open(e) \/ Kick(e) \/ Unwound(e) \/ LoseLease(e)
    BY <2>1, OnceAround
  <2>2. CASE Timeout(e)
    BY <2>2, OnceRetryOrThrow DEF Timeout, storeVars
  <2>3. CASE OnBusy(e)
    BY <2>3, CallFacts, OnceRetryOrThrow DEF OnBusy, NoAnswer, storeVars
  <2>4. CASE OnFatal(e)
    <3>1. RetryOrThrow(e, answer[e].code) /\ UNCHANGED <<log, appends, net, acked>>
      BY <2>4 DEF OnFatal, RetryOrThrow, storeVars
    <3>2. wire[e] = "sent"
      BY <2>4, CallFacts DEF OnFatal, NoAnswer
    <3> QED  BY <3>1, <3>2, OnceRetryOrThrow
  <2>5. CASE Close(e) \/ Crash(e)
    BY <2>5, OnceGone DEF Close, Crash
  <2> QED  BY <1>2, <2>1, <2>2, <2>3, <2>4, <2>5, OnceDrainStep, OnceRetry, OnceOnAck,
              OnceOnRefusal
           DEF EngineStep, OnAnswer
<1>3. ASSUME NEW e \in Engines, Calls(e) PROVE Once'
  BY <1>3, CallCases, OnceWrite, OnceConsume
<1>4. ASSUME NEW m \in net, Deliver(m) \/ DeliverBusy(m) PROVE Once'
  BY <1>4, OnceDeliver, OnceDeliverBusy
<1>5. CASE StoreStep
  BY <1>5, OnceStoreStep
<1> QED  BY <1>1, <1>2, <1>3, <1>4, <1>5 DEF Next

\* An event in the log is in one place only.
LEMMA OnceNoDuplicate == TypeOK /\ Once => NoDuplicate
<1> SUFFICES ASSUME TypeOK, Once, NEW i \in DOMAIN log, NEW j \in DOMAIN log,
                    log[i].eng = log[j].eng, log[i].n = log[j].n
             PROVE  i = j
  BY DEF NoDuplicate
<1>1. PICK b \in appends : \E k \in DOMAIN b.evs : i = b.after + k /\ log[i] = b.evs[k]
  BY DEF Once, LogIsAppends
<1>2. PICK c \in appends : \E l \in DOMAIN c.evs : j = c.after + l /\ log[j] = c.evs[l]
  BY DEF Once, LogIsAppends
<1>11. PICK k \in DOMAIN b.evs : i = b.after + k /\ log[i] = b.evs[k]
  BY <1>1
<1>12. PICK l \in DOMAIN c.evs : j = c.after + l /\ log[j] = c.evs[l]
  BY <1>2
<1>3. b \in Bodies /\ c \in Bodies
  BY DEF Bodies
<1>4. b.lease = c.lease
  BY <1>11, <1>12, <1>3 DEF Once, BodyShape
<1>5. b = c
  BY <1>11, <1>12, <1>3, <1>4 DEF Once, OneBody
<1>6. /\ b.evs[k].n = b.evs[1].n + k - 1 /\ b.evs[l].n = b.evs[1].n + l - 1
      /\ b.evs[k].n = b.evs[l].n
  BY <1>11, <1>12, <1>3, <1>5 DEF Once, BodyShape
<1>7. /\ DOMAIN b.evs = 1..Len(b.evs) /\ Len(b.evs) \in Nat
      /\ \A x \in DOMAIN b.evs : b.evs[x].n \in Nat
  BY <1>3, BodyTypes
<1>8. k = l
  <2>1. 1 \in DOMAIN b.evs /\ k \in Nat /\ l \in Nat
    BY <1>5, <1>7
  <2> QED  BY <1>5, <1>6, <1>7, <2>1
<1> QED  BY <1>11, <1>12, <1>5, <1>8

\* The conjunction of the parts is inductive and holds in every reachable state.
LEMMA InductiveHolds == Spec => [](TypeOK /\ Shape /\ Once)
<1>1. Init => TypeOK /\ Shape /\ Once
  BY TypeInit, ShapeInit, OnceInit
<1>2. TypeOK /\ Shape /\ Once /\ [Next]_vars => (TypeOK /\ Shape /\ Once)'
  BY TypeNext, ShapeNext, OnceNext
<1> QED  BY <1>1, <1>2, PTL DEF Spec

\* No event is stored twice, whatever the network does with the requests of any
\* number of engines: a batch's retries, late ones and those of a dead engine
\* included (client.ts appendEncoded's same-body retry).
THEOREM StoredOnce == Spec => []NoDuplicate
<1>1. TypeOK /\ Shape /\ Once => NoDuplicate
  BY OnceNoDuplicate
<1> QED  BY <1>1, InductiveHolds, PTL

\* The seq a push resolved with is the place of that event in the store's log,
\* for good (batcher.ts onAck).
THEOREM AckIsDurable == Spec => []AckedIsDurable
<1>1. TypeOK /\ Shape /\ Once => AckedIsDurable
  BY DEF Once
<1> QED  BY <1>1, InductiveHolds, PTL

-----------------------------------------------------------------------------
(* The strengthening.                                                      *)

\* What a promise settles to while the writer goes on.
Sorted == {"acked", "refused", "withdrawn"}

\* How many of the engine's events are neither queued nor in flight.
Done(e) == Taken(e) - Len(inFlight[e])

\* Promises settle from the front: what is in flight and queued is pending, and what
\* is not has been sorted out, as long as the writer goes on.
SettledInOrder(e) ==
  /\ \A n \in DOMAIN outcome[e] : n > Done(e) =>
       outcome[e][n].st = "pending" /\ outcome[e][n].seq = 0
  /\ phase[e] = "open" /\ fatal[e] = "none" =>
       \A n \in DOMAIN outcome[e] : n <= Done(e) => outcome[e][n].st \in Sorted
  /\ fatal[e] # "none" => queue[e] = <<>> /\ inFlight[e] = <<>>
  /\ phase[e] \in {"new", "leased"} => outcome[e] = <<>> /\ kept[e] = {}

\* The item of the promise an entry of the queue is for.
ItemOf(e, entry) == outcome[e][entry.ev.n].item

\* The promises of the batch in flight are for its item.
FlightOfOneItem(e) ==
  \A k \in DOMAIN inFlight[e] : ItemOf(e, inFlight[e][k]) = inFlight[e][1].item

\* In the queue, the entries for an item are those of the batch its first event opens.
QueuedByItem(e) ==
  /\ \A k \in DOMAIN queue[e] : ItemOf(e, queue[e][k]) # NoItem =>
       \E h \in 1..k : queue[e][h].item # NoItem /\ k < h + queue[e][h].size
  /\ \A h \in DOMAIN queue[e] : queue[e][h].item # NoItem =>
       \A k \in h..(h + queue[e][h].size - 1) :
         /\ ItemOf(e, queue[e][k]) = queue[e][h].item
         /\ k > h => queue[e][k].item = NoItem

\* The memory views hold what was acknowledged and, of what was not settled yet,
\* nothing of a consuming batch.
Shows(e) ==
  phase[e] = "open" /\ fatal[e] = "none" =>
    /\ kept[e] \subseteq DOMAIN outcome[e]
    /\ \A n \in DOMAIN outcome[e] :
         /\ n <= Done(e) => (n \in kept[e] <=> outcome[e][n].st = "acked")
         /\ n > Done(e) /\ n \in kept[e] => outcome[e][n].item = NoItem

EngineOK(e) == SettledInOrder(e) /\ FlightOfOneItem(e) /\ QueuedByItem(e) /\ Shows(e)

\* The store refused, or would refuse, the body for its item.
Withdrawn(b) == b \notin appends /\ b.item # NoItem /\ items[b.item] # "pending"

\* A body is sent once all its engine pushed before it is sorted out, for the item of
\* its events; and what was refused or withdrawn stays so.
ToldOf(b) ==
  /\ b.evs # <<>>
  /\ b \in appends => ~EventTooLarge(b)
  /\ \A m \in 1..(b.evs[1].n - 1) : outcome[b.lease][m].st \in Sorted
  /\ \A k \in DOMAIN b.evs :
       /\ outcome[b.lease][b.evs[k].n].item = b.item
       /\ outcome[b.lease][b.evs[k].n].st = "refused" => EventTooLarge(b)
       /\ outcome[b.lease][b.evs[k].n].st = "withdrawn" => Withdrawn(b)

Told == \A b \in Bodies : ToldOf(b)

\* A refusal not read yet is one the store will stand by.
AnswerStands ==
  \A e \in Engines :
    /\ answer[e].code = "event_too_large" => EventTooLarge(BodyOf(e, inFlight[e]))
    /\ answer[e].code = "not_pending" => Withdrawn(BodyOf(e, inFlight[e]))

\* An item is consumed by one append.
TakenOnce ==
  /\ \A i \in Items : items[i] = "consumed" <=> \E b \in appends : b.item = i
  /\ \A b, c \in appends : b.item = c.item /\ b.item # NoItem => b = c

\* An incarnation that was not handed its lease yet has sent nothing.
Fresh == \A e \in Engines : phase[e] = "new" => holder # e /\ \A b \in Bodies : b.lease # e

\* Once the holder of the lease has an event in the log, the last one is its own.
AtEnd == \A i \in DOMAIN log : log[i].eng = holder => log[Len(log)].eng = holder

\* What an open engine was acknowledged is in the log.
AckedWithin == \A e \in Engines : phase[e] = "open" => acked[e] <= Len(log)

Writers == \A e \in Engines : EngineOK(e)

\* What is folded was pushed on its own, so that no item takes it away.
FoldedPlain ==
  \A e \in Engines : \A n \in folded[e] :
    /\ n \in DOMAIN outcome[e]
    /\ outcome[e][n].item = NoItem /\ outcome[e][n].st # "withdrawn"

Lasting == Told /\ AnswerStands /\ TakenOnce /\ Fresh /\ AtEnd /\ AckedWithin /\ FoldedPlain

\* The inductive invariant, with TypeOK, Shape and Once.
LogInv == Writers /\ Lasting /\ LogSound

LEMMA LogInit == Init => LogInv
<1> SUFFICES ASSUME Init PROVE LogInv
  OBVIOUS
<1>1. Writers
  BY DEF Init, Writers, EngineOK, SettledInOrder, FlightOfOneItem, QueuedByItem, Shows
<1>2. Bodies = {} /\ DOMAIN log = {} /\ appends = {} /\ items = [i \in Items |-> "pending"]
  BY DEF Init, StoreInit, Bodies
<1>3. Told /\ TakenOnce /\ AtEnd /\ Fresh
  BY <1>2, StoreAssumption DEF Init, StoreInit, Told, TakenOnce, AtEnd, Fresh
<1>4. AnswerStands
  BY DEF Init, AnswerStands, NoAnswer
<1>5. AckedWithin /\ StoredIsLogPrefix
  BY DEF Init, AckedWithin, StoredIsLogPrefix
<1>6. NoSilentHole /\ Fenced
  BY <1>2 DEF NoSilentHole, Fenced
<1>7. FoldedPlain
  BY DEF Init, FoldedPlain
<1> QED  BY <1>1, <1>3, <1>4, <1>5, <1>6, <1>7 DEF LogInv, Lasting, LogSound

-----------------------------------------------------------------------------
(* Counting an engine's events.                                            *)

\* The events pushed are those done with, then those in flight, then those queued.
LEMMA Counts ==
  ASSUME TypeOK, Shape, NEW e \in Engines
  PROVE  /\ Done(e) \in Nat /\ Taken(e) \in Nat
         /\ inFlight[e] \in Seq(Queued) /\ Len(inFlight[e]) \in Nat
         /\ DOMAIN inFlight[e] = 1..Len(inFlight[e])
         /\ queue[e] \in Seq(Queued) /\ Len(queue[e]) \in Nat
         /\ DOMAIN queue[e] = 1..Len(queue[e])
         /\ outcome[e] \in Seq(Promise) /\ Len(outcome[e]) \in Nat
         /\ DOMAIN outcome[e] = 1..Len(outcome[e])
         /\ Taken(e) = Done(e) + Len(inFlight[e])
         /\ Len(outcome[e]) = Taken(e) + Len(queue[e])
         /\ \A k \in DOMAIN inFlight[e] :
              inFlight[e][k].ev.eng = e /\ inFlight[e][k].ev.n = Done(e) + k
         /\ \A k \in DOMAIN queue[e] :
              queue[e][k].ev.eng = e /\ queue[e][k].ev.n = Taken(e) + k
<1>1. /\ inFlight[e] \in Seq(Queued) /\ Len(inFlight[e]) \in Nat
      /\ DOMAIN inFlight[e] = 1..Len(inFlight[e])
      /\ queue[e] \in Seq(Queued) /\ Len(queue[e]) \in Nat
      /\ DOMAIN queue[e] = 1..Len(queue[e])
      /\ outcome[e] \in Seq(Promise) /\ Len(outcome[e]) \in Nat
      /\ DOMAIN outcome[e] = 1..Len(outcome[e])
  BY DEF TypeOK
<1>2. /\ Taken(e) \in Nat /\ Len(inFlight[e]) <= Taken(e)
      /\ NumberedFrom(queue[e], e, Taken(e))
      /\ NumberedFrom(inFlight[e], e, Done(e))
  BY TakenType DEF Shape, Numbered, Done
<1>3. Len(outcome[e]) = Taken(e) + Len(queue[e])
  BY <1>1 DEF Taken
<1> HIDE DEF Taken
<1>4. Done(e) \in Nat /\ Taken(e) = Done(e) + Len(inFlight[e])
  BY <1>1, <1>2 DEF Done
<1> QED  BY <1>1, <1>2, <1>3, <1>4 DEF NumberedFrom

\* The seq a settled promise tells: the n-th event's, when the a-th was given the first.
SeqTold(st, first, a, n) == IF st = "acked" THEN first + (n - a) ELSE 0

\* Settling a stretch of an engine's promises settles those, and no other.
LEMMA SettledAt ==
  ASSUME TypeOK, NEW e \in Engines, NEW batch \in Seq(Queued), NEW t \in Nat,
         NumberedFrom(batch, e, t), NEW st \in {"acked", "refused", "withdrawn", "failed"},
         NEW first \in Nat, NEW n \in DOMAIN outcome[e]
  PROVE  /\ n \in (t + 1)..(t + Len(batch)) =>
              /\ Settled(e, batch, st, first)[n].st = st
              /\ Settled(e, batch, st, first)[n].item = outcome[e][n].item
              /\ Settled(e, batch, st, first)[n].seq = SeqTold(st, first, t + 1, n)
         /\ n \notin (t + 1)..(t + Len(batch)) =>
              Settled(e, batch, st, first)[n] = outcome[e][n]
<1>1. /\ DOMAIN batch = 1..Len(batch) /\ Len(batch) \in Nat /\ n \in Nat
      /\ outcome[e][n] \in Promise
  BY DEF TypeOK
<1>2. (\E k \in DOMAIN batch : batch[k].ev.n = n) <=> n \in (t + 1)..(t + Len(batch))
  <2>1. ASSUME NEW k \in DOMAIN batch, batch[k].ev.n = n
        PROVE  n \in (t + 1)..(t + Len(batch))
    BY <1>1, <2>1 DEF NumberedFrom
  <2>2. ASSUME n \in (t + 1)..(t + Len(batch))
        PROVE  \E k \in DOMAIN batch : batch[k].ev.n = n
    <3>1. n - t \in DOMAIN batch /\ t + (n - t) = n
      BY <1>1, <2>2
    <3> QED  BY <3>1 DEF NumberedFrom
  <2> QED  BY <2>1, <2>2
<1>3. ASSUME n \in (t + 1)..(t + Len(batch)) PROVE batch[1].ev.n = t + 1
  <2>1. 1 \in DOMAIN batch
    BY <1>1, <1>3
  <2> QED  BY <2>1 DEF NumberedFrom
<1> QED  BY <1>1, <1>2, <1>3 DEF Settled, Promise, SeqTold

\* The same in the next state.
LEMMA CountsPrime ==
  ASSUME TypeOK', Shape', NEW e \in Engines
  PROVE  /\ Done(e)' \in Nat /\ Taken(e)' \in Nat
         /\ inFlight'[e] \in Seq(Queued) /\ Len(inFlight'[e]) \in Nat
         /\ DOMAIN inFlight'[e] = 1..Len(inFlight'[e])
         /\ queue'[e] \in Seq(Queued) /\ Len(queue'[e]) \in Nat
         /\ DOMAIN queue'[e] = 1..Len(queue'[e])
         /\ outcome'[e] \in Seq(Promise) /\ Len(outcome'[e]) \in Nat
         /\ DOMAIN outcome'[e] = 1..Len(outcome'[e])
         /\ Taken(e)' = Done(e)' + Len(inFlight'[e])
         /\ Len(outcome'[e]) = Taken(e)' + Len(queue'[e])
         /\ \A k \in DOMAIN inFlight'[e] :
              inFlight'[e][k].ev.eng = e /\ inFlight'[e][k].ev.n = Done(e)' + k
         /\ \A k \in DOMAIN queue'[e] :
              queue'[e][k].ev.eng = e /\ queue'[e][k].ev.n = Taken(e)' + k
<1>1. /\ inFlight'[e] \in Seq(Queued) /\ Len(inFlight'[e]) \in Nat
      /\ DOMAIN inFlight'[e] = 1..Len(inFlight'[e])
      /\ queue'[e] \in Seq(Queued) /\ Len(queue'[e]) \in Nat
      /\ DOMAIN queue'[e] = 1..Len(queue'[e])
      /\ outcome'[e] \in Seq(Promise) /\ Len(outcome'[e]) \in Nat
      /\ DOMAIN outcome'[e] = 1..Len(outcome'[e])
  BY DEF TypeOK
<1>2. /\ Len(inFlight'[e]) <= Taken(e)'
      /\ NumberedFrom(queue'[e], e, Taken(e)')
      /\ NumberedFrom(inFlight'[e], e, Done(e)')
  BY DEF Shape, Numbered, NumberedFrom, Done
<1>3. Len(outcome'[e]) = Taken(e)' + Len(queue'[e]) /\ Taken(e)' \in Int
  BY <1>1 DEF Taken
<1>4. Done(e)' = Taken(e)' - Len(inFlight'[e])
  BY DEF Done
<1> HIDE DEF Taken, Done
<1>5. Done(e)' \in Nat /\ Taken(e)' \in Nat /\ Taken(e)' = Done(e)' + Len(inFlight'[e])
  BY <1>1, <1>2, <1>3, <1>4
<1> QED  BY <1>1, <1>2, <1>3, <1>5 DEF NumberedFrom

-----------------------------------------------------------------------------
(* The promises and the views of one engine.                               *)

\* An engine whose queue, promises and view are left alone.
LEMMA EngineKept ==
  ASSUME NEW f \in Engines, EngineOK(f),
         outcome'[f] = outcome[f], queue'[f] = queue[f], inFlight'[f] = inFlight[f],
         phase'[f] = phase[f], fatal'[f] = fatal[f], kept'[f] = kept[f]
  PROVE  EngineOK(f)'
<1>1. Done(f)' = Done(f)
  BY DEF Done, Taken
<1>2. SettledInOrder(f)'
  BY <1>1 DEF EngineOK, SettledInOrder
<1>3. FlightOfOneItem(f)' /\ QueuedByItem(f)'
  BY SMTT(30) DEF EngineOK, FlightOfOneItem, QueuedByItem, ItemOf
<1>4. Shows(f)'
  BY <1>1 DEF EngineOK, Shows
<1> QED  BY <1>2, <1>3, <1>4 DEF EngineOK

\* An engine that goes from one phase to the next with nothing pushed.
LEMMA EngineOpened ==
  ASSUME TypeOK, TypeOK', Shape', NEW e \in Engines, EngineOK(e),
         phase[e] \in {"new", "leased"}, fatal'[e] = fatal[e],
         outcome'[e] = outcome[e], queue'[e] = <<>>, inFlight'[e] = <<>>, kept'[e] = kept[e]
  PROVE  EngineOK(e)'
<1>1. outcome'[e] = <<>> /\ kept'[e] = {} /\ DOMAIN outcome'[e] = {}
  BY DEF EngineOK, SettledInOrder
<1>2. SettledInOrder(e)' /\ Shows(e)'
  BY <1>1 DEF SettledInOrder, Shows
<1>3. FlightOfOneItem(e)' /\ QueuedByItem(e)'
  BY DEF FlightOfOneItem, QueuedByItem
<1> QED  BY <1>2, <1>3 DEF EngineOK

\* A writer that stopped, or a process that is gone.
LEMMA EngineEnded ==
  ASSUME TypeOK', Shape', NEW e \in Engines,
         queue'[e] = <<>>, inFlight'[e] = <<>>,
         phase'[e] # "open" \/ fatal'[e] # "none", phase'[e] \notin {"new", "leased"}
  PROVE  EngineOK(e)'
<1>1. Done(e)' = Len(outcome'[e]) /\ DOMAIN outcome'[e] = 1..Len(outcome'[e])
      /\ Len(outcome'[e]) \in Nat
  BY CountsPrime
<1>2. SettledInOrder(e)' /\ Shows(e)'
  BY <1>1 DEF SettledInOrder, Shows
<1>3. FlightOfOneItem(e)' /\ QueuedByItem(e)'
  BY DEF FlightOfOneItem, QueuedByItem
<1> QED  BY <1>2, <1>3 DEF EngineOK

\* The batch in flight is settled and the writer goes on.
LEMMA EngineSettled ==
  ASSUME TypeOK, Shape, TypeOK', Shape', NEW e \in Engines, EngineOK(e),
         phase[e] = "open", phase'[e] = "open", inFlight[e] # <<>>,
         NEW st \in Sorted, NEW first \in Nat,
         outcome'[e] = Settled(e, inFlight[e], st, first),
         queue'[e] = queue[e], inFlight'[e] = <<>>, fatal'[e] = fatal[e],
         \A n \in DOMAIN outcome[e] : n \notin Numbers(inFlight[e]) =>
           (n \in kept'[e] <=> n \in kept[e]),
         \A n \in Numbers(inFlight[e]) : n \in kept'[e] <=> st = "acked",
         kept'[e] \subseteq kept[e] \cup Numbers(inFlight[e])
  PROVE  EngineOK(e)'
<1>1. /\ Done(e) \in Nat /\ Done(e)' \in Nat /\ Len(outcome'[e]) = Len(outcome[e])
      /\ DOMAIN outcome'[e] = 1..Len(outcome[e]) /\ DOMAIN outcome[e] = 1..Len(outcome[e])
      /\ Len(outcome[e]) \in Nat /\ Len(inFlight[e]) \in Nat /\ Len(queue[e]) \in Nat
      /\ Done(e)' = Done(e) + Len(inFlight[e])
      /\ Len(outcome[e]) = Done(e)' + Len(queue[e])
      /\ Taken(e) = Done(e)' /\ Taken(e)' = Taken(e)
  <2>1. DOMAIN outcome'[e] = DOMAIN outcome[e]
    BY DEF Settled
  <2>2. Len(outcome'[e]) = Len(outcome[e])
    BY <2>1, Counts, CountsPrime
  <2>3. /\ Done(e) \in Nat /\ Len(outcome[e]) \in Nat /\ Len(inFlight[e]) \in Nat
        /\ Len(queue[e]) \in Nat /\ DOMAIN outcome[e] = 1..Len(outcome[e])
        /\ Taken(e) = Done(e) + Len(inFlight[e]) /\ Len(outcome[e]) = Taken(e) + Len(queue[e])
    BY Counts
  <2>4. /\ Done(e)' \in Nat /\ Taken(e)' = Done(e)' + Len(inFlight'[e])
        /\ Len(outcome'[e]) = Taken(e)' + Len(queue'[e])
    BY CountsPrime
  <2>5. Len(inFlight'[e]) = 0
    OBVIOUS
  <2>6. Taken(e)' = Done(e)' /\ Len(outcome[e]) = Taken(e)' + Len(queue[e])
    BY <2>2, <2>4, <2>5
  <2>7. PICK d \in Nat, d2 \in Nat, c \in Nat, f \in Nat, a \in Nat :
          /\ d = Done(e) /\ d2 = Done(e)' /\ c = Len(outcome[e])
          /\ f = Len(inFlight[e]) /\ a = Len(queue[e])
    BY <2>3, <2>4
  <2>8. Taken(e) = d + f /\ Taken(e)' = d2 /\ c = Taken(e) + a /\ c = Taken(e)' + a
    BY <2>3, <2>6, <2>7
  <2>9. d2 = d + f /\ c = d2 + a /\ Taken(e) = d2 /\ Taken(e)' = d2
    BY ONLY <2>8, d \in Nat, d2 \in Nat, c \in Nat, f \in Nat, a \in Nat
  <2>10. /\ Done(e) \in Nat /\ Done(e)' \in Nat /\ Len(outcome[e]) \in Nat
         /\ Len(inFlight[e]) \in Nat /\ Len(queue[e]) \in Nat
         /\ Done(e)' = Done(e) + Len(inFlight[e])
         /\ Len(outcome[e]) = Done(e)' + Len(queue[e])
         /\ Taken(e) = Done(e)' /\ Taken(e)' = Taken(e)
    BY ONLY <2>7, <2>9
  <2> QED  BY ONLY <2>1, <2>2, <2>3, <2>10
<1>2. Numbers(inFlight[e]) = (Done(e) + 1)..(Done(e) + Len(inFlight[e]))
  <2>1. \A k \in DOMAIN inFlight[e] : inFlight[e][k].ev.n = Done(e) + k
    BY Counts
  <2>2. DOMAIN inFlight[e] = 1..Len(inFlight[e])
    BY Counts
  <2>3. ASSUME NEW n \in (Done(e) + 1)..(Done(e) + Len(inFlight[e]))
        PROVE  n \in Numbers(inFlight[e])
    <3>1. n - Done(e) \in DOMAIN inFlight[e] /\ Done(e) + (n - Done(e)) = n
      BY <1>1, <2>2
    <3> QED  BY <2>1, <3>1 DEF Numbers
  <2>4. ASSUME NEW k \in DOMAIN inFlight[e]
        PROVE  inFlight[e][k].ev.n \in (Done(e) + 1)..(Done(e) + Len(inFlight[e]))
    BY <1>1, <2>1, <2>2, SMTT(30)
  <2> QED  BY <2>3, <2>4 DEF Numbers
<1>3. ASSUME NEW n \in DOMAIN outcome[e]
      PROVE  /\ outcome'[e][n].item = outcome[e][n].item
             /\ n \in Numbers(inFlight[e]) => outcome'[e][n].st = st
             /\ n \notin Numbers(inFlight[e]) => outcome'[e][n] = outcome[e][n]
  <2>1. NumberedFrom(inFlight[e], e, Done(e)) /\ inFlight[e] \in Seq(Queued)
    BY Counts DEF NumberedFrom
  <2>2. st \in {"acked", "refused", "withdrawn", "failed"}
    BY DEF Sorted
  <2>4. Done(e) \in Nat
    BY Counts
  <2>5. /\ n \in (Done(e) + 1)..(Done(e) + Len(inFlight[e])) =>
             /\ Settled(e, inFlight[e], st, first)[n].st = st
             /\ Settled(e, inFlight[e], st, first)[n].item = outcome[e][n].item
        /\ n \notin (Done(e) + 1)..(Done(e) + Len(inFlight[e])) =>
             Settled(e, inFlight[e], st, first)[n] = outcome[e][n]
    BY <2>1, <2>2, <2>4, SettledAt
  <2>3. /\ n \in Numbers(inFlight[e]) =>
             /\ Settled(e, inFlight[e], st, first)[n].st = st
             /\ Settled(e, inFlight[e], st, first)[n].item = outcome[e][n].item
        /\ n \notin Numbers(inFlight[e]) =>
             Settled(e, inFlight[e], st, first)[n] = outcome[e][n]
    BY <1>2, <2>5
  <2> QED  BY <2>3
<1>4. /\ fatal[e] = "none"
      /\ \A n \in DOMAIN outcome[e] : n > Done(e) =>
           outcome[e][n].st = "pending" /\ outcome[e][n].seq = 0
      /\ \A n \in DOMAIN outcome[e] : n <= Done(e) => outcome[e][n].st \in Sorted
  BY DEF EngineOK, SettledInOrder
<1>5. SettledInOrder(e)'
  <2>1. ASSUME NEW n \in DOMAIN outcome'[e], n > Done(e)'
        PROVE  outcome'[e][n].st = "pending" /\ outcome'[e][n].seq = 0
    <3>1. n \in DOMAIN outcome[e] /\ n > Done(e) /\ n \notin Numbers(inFlight[e])
      BY <1>1, <1>2, <2>1
    <3> QED  BY <1>3, <1>4, <3>1
  <2>2. ASSUME NEW n \in DOMAIN outcome'[e], n <= Done(e)'
        PROVE  outcome'[e][n].st \in Sorted
    <3>1. n \in DOMAIN outcome[e] /\ (n \in Numbers(inFlight[e]) \/ n <= Done(e))
      BY <1>1, <1>2, <2>2
    <3> QED  BY <1>3, <1>4, <3>1
  <2> QED  BY <1>4, <2>1, <2>2 DEF SettledInOrder
<1>6. Shows(e)'
  <2>1. /\ kept[e] \subseteq DOMAIN outcome[e]
        /\ \A n \in DOMAIN outcome[e] :
             /\ n <= Done(e) => (n \in kept[e] <=> outcome[e][n].st = "acked")
             /\ n > Done(e) /\ n \in kept[e] => outcome[e][n].item = NoItem
    BY <1>4 DEF EngineOK, Shows
  <2>2. Numbers(inFlight[e]) \subseteq DOMAIN outcome[e]
    BY <1>1, <1>2
  <2>3. kept'[e] \subseteq DOMAIN outcome'[e]
    BY <1>1, <2>1, <2>2
  <2>4. ASSUME NEW n \in DOMAIN outcome'[e], n <= Done(e)'
        PROVE  n \in kept'[e] <=> outcome'[e][n].st = "acked"
    <3>1. CASE n \in Numbers(inFlight[e])
      BY <1>1, <1>3, <3>1
    <3>2. CASE n \notin Numbers(inFlight[e])
      <4>1. n \in DOMAIN outcome[e] /\ n <= Done(e)
        BY <1>1, <1>2, <2>4, <3>2
      <4> QED  BY <1>3, <2>1, <3>2, <4>1
    <3> QED  BY <3>1, <3>2
  <2>5. ASSUME NEW n \in DOMAIN outcome'[e], n > Done(e)', n \in kept'[e]
        PROVE  outcome'[e][n].item = NoItem
    <3>1. n \in DOMAIN outcome[e] /\ n > Done(e) /\ n \notin Numbers(inFlight[e])
      BY <1>1, <1>2, <2>5
    <3> QED  BY <1>3, <2>1, <2>5, <3>1
  <2> QED  BY <2>3, <2>4, <2>5 DEF Shows
<1>7. FlightOfOneItem(e)'
  BY DEF FlightOfOneItem
<1>8. QueuedByItem(e)'
  <2>1. \A k \in DOMAIN queue[e] : queue[e][k].ev.n \in DOMAIN outcome[e]
    <3> TAKE k \in DOMAIN queue[e]
    <3>1. /\ queue[e][k].ev.n = Taken(e) + k /\ k \in 1..Len(queue[e])
          /\ Taken(e) \in Nat /\ Len(queue[e]) \in Nat
          /\ Len(outcome[e]) = Taken(e) + Len(queue[e])
          /\ DOMAIN outcome[e] = 1..Len(outcome[e])
      BY Counts
    <3> QED  BY <3>1
  <2>2. \A k \in DOMAIN queue[e] :
          outcome'[e][queue[e][k].ev.n].item = ItemOf(e, queue[e][k])
    BY <1>3, <2>1 DEF ItemOf
  <2>3. \A h \in DOMAIN queue[e] : queue[e][h].item # NoItem =>
          h..(h + queue[e][h].size - 1) \subseteq DOMAIN queue[e]
    <3> TAKE h \in DOMAIN queue[e]
    <3> HAVE queue[e][h].item # NoItem
    <3>1. queue[e][h].size \in 1..(Len(queue[e]) - h + 1)
      BY DEF Shape, Whole
    <3>2. /\ h \in 1..Len(queue[e]) /\ DOMAIN queue[e] = 1..Len(queue[e])
          /\ Len(queue[e]) \in Nat
      BY Counts
    <3> SUFFICES ASSUME NEW k \in h..(h + queue[e][h].size - 1)
                 PROVE  k \in 1..Len(queue[e])
      BY <3>2
    <3> QED  BY <3>1, <3>2
  <2>4. QueuedByItem(e)
    BY DEF EngineOK
  <2>5. ASSUME NEW k \in DOMAIN queue[e], outcome'[e][queue[e][k].ev.n].item # NoItem
        PROVE  \E h \in 1..k : queue[e][h].item # NoItem /\ k < h + queue[e][h].size
    BY <2>2, <2>4, <2>5 DEF QueuedByItem
  <2>6. ASSUME NEW h \in DOMAIN queue[e], queue[e][h].item # NoItem,
               NEW k \in h..(h + queue[e][h].size - 1)
        PROVE  /\ outcome'[e][queue[e][k].ev.n].item = queue[e][h].item
               /\ k > h => queue[e][k].item = NoItem
    <3>1. /\ ItemOf(e, queue[e][k]) = queue[e][h].item
          /\ k > h => queue[e][k].item = NoItem
      BY <2>4, <2>6 DEF QueuedByItem
    <3>2. k \in DOMAIN queue[e]
      BY <2>3, <2>6
    <3> QED  BY <2>2, <3>1, <3>2
  <2> QED  BY <2>5, <2>6 DEF QueuedByItem, ItemOf
<1> QED  BY <1>5, <1>6, <1>7, <1>8 DEF EngineOK

LEMMA UpTo == \A m \in Nat : IsFiniteSet(1..m) /\ Cardinality(1..m) = m
<1> TAKE m \in Nat
<1>1. 1 \in Int /\ m \in Int
  OBVIOUS
<1>2. IsFiniteSet(1..m) /\ Cardinality(1..m) = IF 1 > m THEN 0 ELSE m - 1 + 1
  BY <1>1, FS_Interval
<1> QED  BY <1>2

\* Where the entries of a batch behind a cut were before it.
LEMMA ShiftInto ==
  ASSUME NEW l \in Nat, NEW n \in 1..l, NEW h \in 1..(l - n),
         NEW z \in 1..(l - (n + h) + 1), NEW k \in h..(h + z - 1)
  PROVE  /\ n + k \in (n + h)..((n + h) + z - 1)
         /\ k \in 1..(l - n) /\ (k > h => n + k > n + h)
OBVIOUS

\* A shared batch is cut before the first consuming batch.
LEMMA CutPlain ==
  ASSUME NEW q \in Seq(Queued), q # <<>>, q[1].item = NoItem
  PROVE  \A k \in 1..CutOf(q) : q[k].item = NoItem
<1> DEFINE C == {n \in DOMAIN q : \A m \in 1..n : Fits(q, m)}
<1>1. DOMAIN q = 1..Len(q) /\ Len(q) \in Nat /\ CutOf(q) = Cardinality(C)
  BY DEF CutOf
<1>2. IsFiniteSet(C) /\ Cardinality(C) \in Nat
  <2>1. IsFiniteSet(1..Len(q)) /\ C \in SUBSET (1..Len(q))
    BY <1>1, FS_Interval
  <2> QED  BY <2>1, FS_Subset, FS_CardinalityType
<1> SUFFICES ASSUME NEW k \in 1..Cardinality(C), q[k].item # NoItem PROVE FALSE
  BY <1>1
<1>3. C \subseteq 1..(k - 1)
  <2> SUFFICES ASSUME NEW n \in C, n \notin 1..(k - 1) PROVE FALSE
    OBVIOUS
  <2>1. n \in Nat /\ n >= 1 /\ k \in 1..n
    BY <1>1, <1>2
  <2>2. Fits(q, n)
    BY <2>1
  <2> QED  BY <2>1, <2>2 DEF Fits
<1>4. /\ IsFiniteSet(1..(k - 1)) /\ Cardinality(1..(k - 1)) = k - 1
      /\ k \in Nat /\ k <= Cardinality(C)
  <2>1. k - 1 \in Nat /\ k \in Nat /\ k <= Cardinality(C)
    BY <1>2
  <2> QED  BY <2>1, UpTo
<1>5. Cardinality(C) <= Cardinality(1..(k - 1))
  BY <1>3, <1>4, FS_Subset
<1> QED  BY <1>2, <1>4, <1>5

\* A batch is cut from the queue and sent.
LEMMA EngineSent ==
  ASSUME TypeOK, Shape, TypeOK', Shape', NEW e \in Engines, EngineOK(e),
         queue[e] # <<>>, inFlight[e] = <<>>, fatal[e] = "none",
         NEW n, n = CutOf(queue[e]),
         queue'[e] = SubSeq(queue[e], n + 1, Len(queue[e])),
         inFlight'[e] = SubSeq(queue[e], 1, n), outcome'[e] = outcome[e],
         fatal'[e] = fatal[e], phase'[e] = phase[e], phase[e] = "open", kept'[e] = kept[e]
  PROVE  EngineOK(e)'
<1> DEFINE q == queue[e]
           rest == SubSeq(q, n + 1, Len(q))
<1>1. /\ q \in Seq(Queued) /\ n \in 1..Len(q) /\ n \in Nat /\ Len(q) \in Nat
      /\ DOMAIN q = 1..Len(q) /\ 1 \in DOMAIN q
  BY CutFacts, Counts
<1>2. /\ Len(rest) = Len(q) - n /\ DOMAIN rest = 1..(Len(q) - n)
      /\ \A k \in 1..(Len(q) - n) : rest[k] = q[n + k]
  <2> HIDE DEF q
  <2> QED  BY <1>1, RestFacts
<1>3. /\ DOMAIN inFlight'[e] = 1..n /\ \A k \in 1..n : inFlight'[e][k] = q[k]
  <2> HIDE DEF q
  <2>1. DOMAIN SubSeq(q, 1, n) = 1..n /\ \A k \in 1..n : SubSeq(q, 1, n)[k] = q[k]
    BY <1>1
  <2> QED  BY <2>1 DEF q
<1>4. /\ \A k \in DOMAIN q : ItemOf(e, q[k]) # NoItem =>
           \E h \in 1..k : q[h].item # NoItem /\ k < h + q[h].size
      /\ \A h \in DOMAIN q : q[h].item # NoItem => \A k \in h..(h + q[h].size - 1) :
           ItemOf(e, q[k]) = q[h].item /\ (k > h => q[k].item = NoItem)
  BY DEF EngineOK, QueuedByItem
<1>5. \A h \in DOMAIN q : q[h].item # NoItem => q[h].size \in 1..(Len(q) - h + 1)
  BY DEF Shape, Whole
<1>6. \A k \in 1..n : q[k].item # NoItem => k = 1 /\ q[1].size = n
  <2>1. CASE q[1].item = NoItem
    <3>1. \A k \in 1..n : q[k].item = NoItem
      BY <1>1, <2>1, CutPlain
    <3> QED  BY <3>1
  <2>2. CASE q[1].item # NoItem
    <3>1. n = q[1].size
      BY <2>2 DEF CutOf
    <3>2. \A k \in 1..(1 + n - 1) : k > 1 => q[k].item = NoItem
      <4> HIDE DEF q
      <4> QED  BY <1>1, <1>4, <2>2, <3>1
    <3> HIDE DEF q
    <3> QED  BY <1>1, <3>1, <3>2
  <2> QED  BY <2>1, <2>2
<1>7. Done(e)' = Done(e)
  <2>1. Len(inFlight'[e]) = n
    BY CutFacts
  <2>2. /\ Done(e) \in Nat /\ Taken(e) = Done(e) + 0
        /\ Len(outcome[e]) = Taken(e) + Len(queue[e])
    BY Counts
  <2>3. /\ Done(e)' \in Nat /\ Taken(e)' \in Nat /\ Taken(e)' = Done(e)' + n
        /\ Len(outcome[e]) = Taken(e)' + (Len(queue[e]) - n)
    <3>1. Len(queue'[e]) = Len(queue[e]) - n
      BY CutFacts
    <3>2. /\ Done(e)' \in Nat /\ Taken(e)' \in Nat
          /\ Taken(e)' = Done(e)' + Len(inFlight'[e])
          /\ Len(outcome'[e]) = Taken(e)' + Len(queue'[e])
      BY CountsPrime
    <3> QED  BY <2>1, <3>1, <3>2
  <2> QED  BY <1>1, <2>2, <2>3, SMTT(30)
<1>8. SettledInOrder(e)' /\ Shows(e)'
  BY <1>7 DEF EngineOK, SettledInOrder, Shows
<1>9. FlightOfOneItem(e)'
  <2> SUFFICES ASSUME NEW k \in 1..n
               PROVE  outcome[e][q[k].ev.n].item = q[1].item
    <3>1. 1 \in 1..n
      BY <1>1
    <3> HIDE DEF q
    <3> QED  BY <1>3, <3>1 DEF FlightOfOneItem, ItemOf
  <2>0. k \in DOMAIN q /\ k \in Nat /\ k >= 1 /\ k <= n
    BY <1>1
  <2>1. CASE q[1].item # NoItem
    <3>1. q[1].size = n
      BY <1>1, <1>6, <2>1
    <3>2. k \in 1..(1 + q[1].size - 1)
      <4> HIDE DEF q
      <4> QED  BY <1>1, <2>0, <3>1
    <3> HIDE DEF q
    <3> QED  BY <1>1, <1>4, <2>1, <3>2 DEF ItemOf
  <2>2. CASE q[1].item = NoItem
    <3>1. ASSUME ItemOf(e, q[k]) # NoItem PROVE FALSE
      <4>1. PICK h \in 1..k : q[h].item # NoItem
        BY <1>4, <2>0, <3>1
      <4>2. h \in 1..n
        BY <1>1, <2>0
      <4> QED  BY <1>6, <2>2, <4>1, <4>2
    <3> QED  BY <2>2, <3>1 DEF ItemOf
  <2> QED  BY <2>1, <2>2
<1>10. ASSUME NEW k \in 1..(Len(q) - n), ItemOf(e, rest[k]) # NoItem
       PROVE  \E h \in 1..k : rest[h].item # NoItem /\ k < h + rest[h].size
  <2>1. rest[k] = q[n + k] /\ n + k \in DOMAIN q /\ k \in Nat /\ k >= 1
    <3> HIDE DEF q, rest
    <3> QED  BY <1>1, <1>2
  <2>2. PICK h \in 1..(n + k) : q[h].item # NoItem /\ n + k < h + q[h].size
    BY <1>4, <1>10, <2>1
  <2>3. h \notin 1..n
    <3> SUFFICES ASSUME h \in 1..n PROVE FALSE
      OBVIOUS
    <3>1. h = 1 /\ q[h].size = n
      BY <1>6, <2>2
    <3> HIDE DEF q, rest
    <3> QED  BY <1>1, <2>1, <2>2, <3>1
  <2>4. h - n \in 1..k /\ n + (h - n) = h /\ h - n \in 1..(Len(q) - n)
    <3> HIDE DEF q, rest
    <3> QED  BY <1>1, <2>1, <2>3
  <2>5. rest[h - n] = q[h]
    <3> HIDE DEF q, rest
    <3> QED  BY <1>2, <2>4
  <2>6. q[h].size \in Int
    <3>1. h \in DOMAIN q
      <4> HIDE DEF q, rest
      <4> QED  BY <1>1, <2>1
    <3> HIDE DEF q, rest
    <3> QED  BY <1>5, <2>2, <3>1
  <2>7. k < (h - n) + rest[h - n].size
    <3> HIDE DEF q, rest
    <3> QED  BY <1>1, <2>1, <2>2, <2>5, <2>6
  <2> HIDE DEF q, rest
  <2> QED  BY <2>2, <2>4, <2>5, <2>7
<1>11. ASSUME NEW h \in 1..(Len(q) - n), rest[h].item # NoItem
       PROVE  \A k \in h..(h + rest[h].size - 1) :
                /\ ItemOf(e, rest[k]) = rest[h].item
                /\ k > h => rest[k].item = NoItem
  <2>1. rest[h] = q[n + h] /\ n + h \in DOMAIN q /\ h \in Nat /\ h >= 1
    <3> HIDE DEF q, rest
    <3> QED  BY <1>1, <1>2
  <2>2. q[n + h].size \in 1..(Len(q) - (n + h) + 1)
    BY <1>5, <1>11, <2>1
  <2> SUFFICES ASSUME NEW k \in h..(h + q[n + h].size - 1)
               PROVE  /\ ItemOf(e, rest[k]) = rest[h].item
                      /\ k > h => rest[k].item = NoItem
    BY <2>1
  <2>3. /\ n + k \in (n + h)..((n + h) + q[n + h].size - 1)
        /\ k \in 1..(Len(q) - n) /\ (k > h => n + k > n + h)
    <3> HIDE DEF q, rest
    <3> QED  BY <1>1, <2>2, ShiftInto
  <2>4. /\ ItemOf(e, q[n + k]) = q[n + h].item
        /\ n + k > n + h => q[n + k].item = NoItem
    BY <1>4, <1>11, <2>1, <2>3
  <2>5. rest[k] = q[n + k]
    BY <1>2, <2>3
  <2> HIDE DEF q, rest
  <2> QED  BY <2>1, <2>3, <2>4, <2>5
<1>12. QueuedByItem(e)'
  <2>1. queue'[e] = rest /\ DOMAIN rest = 1..(Len(q) - n)
    BY <1>2
  <2> HIDE DEF q, rest
  <2>2. \A k \in DOMAIN rest : outcome'[e][rest[k].ev.n].item # NoItem =>
          \E h \in 1..k : rest[h].item # NoItem /\ k < h + rest[h].size
    BY <1>10, <2>1 DEF ItemOf
  <2>3. \A h \in DOMAIN rest : rest[h].item # NoItem =>
          \A k \in h..(h + rest[h].size - 1) :
            outcome'[e][rest[k].ev.n].item = rest[h].item /\ (k > h => rest[k].item = NoItem)
    BY <1>11, <2>1 DEF ItemOf
  <2> QED  BY <2>1, <2>2, <2>3 DEF QueuedByItem, ItemOf
<1> QED  BY <1>8, <1>9, <1>12 DEF EngineOK

LEMMA ConcatAll ==
  \A s, t \in Seq(Promise) :
    /\ Len(s \o t) = Len(s) + Len(t) /\ DOMAIN (s \o t) = 1..(Len(s) + Len(t))
    /\ \A k \in 1..Len(s) : (s \o t)[k] = s[k]
    /\ \A k \in 1..Len(t) : (s \o t)[Len(s) + k] = t[k]
BY ConcatAt

\* Pending promises are added behind the others, with entries that say which of them
\* make a consuming batch; the view takes none of those.
LEMMA EnginePushed ==
  ASSUME TypeOK, Shape, TypeOK', Shape', NEW e \in Engines, EngineOK(e),
         NEW qs \in Seq(Queued), NEW ps \in Seq(Promise), Len(ps) = Len(qs),
         \A k \in 1..Len(qs) :
           /\ ps[k].st = "pending" /\ ps[k].seq = 0
           /\ qs[k].ev.n = Len(outcome[e]) + k
           /\ ps[k].item # NoItem =>
                \E h \in 1..k : qs[h].item # NoItem /\ k < h + qs[h].size,
         \A h \in 1..Len(qs) : qs[h].item # NoItem =>
              /\ qs[h].size \in 1..(Len(qs) - h + 1)
              /\ \A k \in h..(h + qs[h].size - 1) :
                   ps[k].item = qs[h].item /\ (k > h => qs[k].item = NoItem),
         queue'[e] = queue[e] \o qs, outcome'[e] = outcome[e] \o ps,
         inFlight'[e] = inFlight[e], fatal'[e] = fatal[e], fatal[e] = "none",
         phase'[e] = phase[e], phase[e] = "open", kept[e] \subseteq kept'[e],
         \A n \in kept'[e] \ kept[e] :
           n - Len(outcome[e]) \in 1..Len(qs) /\ n \in Nat /\ ps[n - Len(outcome[e])].item = NoItem
  PROVE  EngineOK(e)'
<1> DEFINE q == queue[e]
           o == outcome[e]
           a == Len(q)
           b == Len(o)
           z == Len(qs)
<1>1. /\ q \in Seq(Queued) /\ a \in Nat /\ DOMAIN q = 1..a
      /\ o \in Seq(Promise) /\ b \in Nat /\ DOMAIN o = 1..b
      /\ z \in Nat /\ Len(ps) = z
  BY Counts
<1>2. /\ Len(q \o qs) = a + z /\ DOMAIN (q \o qs) = 1..(a + z)
      /\ \A k \in 1..a : (q \o qs)[k] = q[k]
      /\ \A k \in 1..z : (q \o qs)[a + k] = qs[k]
  <2> HIDE DEF q
  <2> QED  BY <1>1, ConcatAt
<1>3. /\ Len(o \o ps) = b + z /\ DOMAIN (o \o ps) = 1..(b + z)
      /\ \A k \in 1..b : (o \o ps)[k] = o[k]
      /\ \A k \in 1..z : (o \o ps)[b + k] = ps[k]
  <2>1. /\ Len(o \o ps) = b + Len(ps) /\ DOMAIN (o \o ps) = 1..(b + Len(ps))
        /\ \A k \in 1..b : (o \o ps)[k] = o[k]
        /\ \A k \in 1..Len(ps) : (o \o ps)[b + k] = ps[k]
    <3>1. o \in Seq(Promise) /\ ps \in Seq(Promise)
      BY <1>1
    <3> HIDE DEF o, q, a, z
    <3> QED  BY <3>1, ConcatAll
  <2>2. Len(ps) = z
    OBVIOUS
  <2> HIDE DEF o, b, z
  <2> QED  BY <2>1, <2>2
<1> DEFINE Q == q \o qs
           O == o \o ps
<1>4. /\ queue'[e] = Q /\ outcome'[e] = O
      /\ DOMAIN Q = 1..(a + z) /\ DOMAIN O = 1..(b + z)
  BY <1>2, <1>3
<1>5. /\ Done(e) \in Nat /\ Taken(e) \in Nat /\ Done(e) <= Taken(e) /\ Taken(e) <= b
      /\ Taken(e) + a = b
      /\ \A k \in DOMAIN q : q[k].ev.n = Taken(e) + k
      /\ \A k \in DOMAIN inFlight[e] :
           inFlight[e][k].ev.n = Done(e) + k /\ Done(e) + k \in 1..b
  <2>1. /\ Done(e) \in Nat /\ Taken(e) \in Nat /\ Taken(e) = Done(e) + Len(inFlight[e])
        /\ Len(inFlight[e]) \in Nat /\ DOMAIN inFlight[e] = 1..Len(inFlight[e])
        /\ b = Taken(e) + a
        /\ \A k \in DOMAIN inFlight[e] : inFlight[e][k].ev.n = Done(e) + k
    BY Counts
  <2>2. \A k \in DOMAIN q : q[k].ev.n = Taken(e) + k
    BY Counts
  <2> HIDE DEF q, o, a, b, z
  <2> QED  BY <1>1, <2>1, <2>2, SMTT(30)
<1>6. Done(e)' = Done(e)
  <2>1. /\ Done(e)' \in Nat /\ Taken(e)' = Done(e)' + Len(inFlight[e])
        /\ Len(inFlight[e]) \in Nat /\ b + z = Taken(e)' + (a + z) /\ Taken(e)' \in Nat
    <3>1. /\ Done(e)' \in Nat /\ Taken(e)' = Done(e)' + Len(inFlight'[e])
          /\ Len(inFlight'[e]) \in Nat /\ Taken(e)' \in Nat
          /\ Len(outcome'[e]) = Taken(e)' + Len(queue'[e])
      BY CountsPrime
    <3>2. Len(outcome'[e]) = b + z /\ Len(queue'[e]) = a + z
      BY <1>2, <1>3
    <3> HIDE DEF q, o, a, b, z
    <3> QED  BY <3>1, <3>2
  <2>2. Taken(e) = Done(e) + Len(inFlight[e])
    BY Counts
  <2>3. /\ a \in Nat /\ b \in Nat /\ z \in Nat /\ Taken(e) \in Nat /\ Done(e) \in Nat
        /\ Taken(e) + a = b
    BY <1>1, <1>5
  <2> HIDE DEF q, o, a, b, z
  <2>4. Taken(e)' = Taken(e)
    BY <2>1, <2>3
  <2>5. Done(e)' + Len(inFlight[e]) = Done(e) + Len(inFlight[e])
    BY <2>1, <2>2, <2>4
  <2> QED  BY <2>1, <2>3, <2>5, SMTT(30)
<1>7. /\ \A n \in 1..b : O[n] = o[n]
      /\ \A n \in (b + 1)..(b + z) : n - b \in 1..z /\ O[n] = ps[n - b]
  <2> HIDE DEF o, q, a, b, z
  <2>1. \A n \in (b + 1)..(b + z) : n - b \in 1..z /\ b + (n - b) = n
    BY <1>1
  <2> QED  BY <1>3, <2>1
<1>8. SettledInOrder(e)'
  <2>1. ASSUME NEW n \in DOMAIN O, n > Done(e)
        PROVE  O[n].st = "pending" /\ O[n].seq = 0
    <3>1. CASE n \in 1..b
      BY <1>1, <1>7, <2>1, <3>1 DEF EngineOK, SettledInOrder
    <3>2. CASE n \in (b + 1)..(b + z)
      BY <1>7, <3>2
    <3> HIDE DEF o, q, a, b, z, O
    <3> QED  BY <1>1, <1>4, <3>1, <3>2
  <2>2. ASSUME NEW n \in DOMAIN O, n <= Done(e)
        PROVE  O[n].st \in Sorted
    <3>1. n \in 1..b
      <4> HIDE DEF o, q, a, b, z, O
      <4> QED  BY <1>1, <1>4, <1>5, <2>2
    <3> QED  BY <1>1, <1>7, <2>2, <3>1 DEF EngineOK, SettledInOrder
  <2> HIDE DEF O, o
  <2> QED  BY <1>4, <1>6, <2>1, <2>2 DEF SettledInOrder
<1>9. Shows(e)'
  <2>1. /\ kept[e] \subseteq DOMAIN o
        /\ \A n \in DOMAIN o :
             /\ n <= Done(e) => (n \in kept[e] <=> o[n].st = "acked")
             /\ n > Done(e) /\ n \in kept[e] => o[n].item = NoItem
    BY DEF EngineOK, Shows
  <2>2. \A n \in kept'[e] \ kept[e] : n \in (b + 1)..(b + z) /\ O[n].item = NoItem
    <3>1. \A n \in kept'[e] \ kept[e] : n - b \in 1..z /\ n \in Nat /\ ps[n - b].item = NoItem
      OBVIOUS
    <3> HIDE DEF o, q, a, b, z, O
    <3>2. ASSUME NEW n \in kept'[e] \ kept[e]
          PROVE  n \in (b + 1)..(b + z) /\ O[n].item = NoItem
      <4>1. n - b \in 1..z /\ n \in Nat /\ ps[n - b].item = NoItem
        BY <3>1
      <4>2. b \in Nat /\ z \in Nat
        BY <1>1
      <4>3. n \in (b + 1)..(b + z)
        BY ONLY <4>1, <4>2
      <4>4. O[n] = ps[n - b]
        BY <1>7, <4>3
      <4> QED  BY <4>1, <4>3, <4>4
    <3> QED  BY <3>2
  <2> HIDE DEF o, q, a, b, z, O
  <2>3. kept'[e] \subseteq DOMAIN O
    <3>1. b \in Nat /\ z \in Nat /\ DOMAIN o = 1..b /\ DOMAIN O = 1..(b + z)
      BY <1>1, <1>4
    <3>2. 1..b \subseteq DOMAIN O /\ (b + 1)..(b + z) \subseteq DOMAIN O
      BY ONLY <3>1
    <3> QED  BY <2>1, <2>2, <3>1, <3>2
  <2>4. ASSUME NEW n \in DOMAIN O, n <= Done(e)
        PROVE  n \in kept'[e] <=> O[n].st = "acked"
    <3>1. b \in Nat /\ z \in Nat /\ Done(e) \in Nat /\ Done(e) <= b /\ n \in 1..(b + z)
      BY <1>1, <1>4, <1>5
    <3>2. n \in 1..b /\ n \notin (b + 1)..(b + z)
      BY ONLY <2>4, <3>1
    <3>3. O[n] = o[n] /\ n \in DOMAIN o
      BY <1>1, <1>7, <3>2
    <3>4. n \in kept[e] <=> o[n].st = "acked"
      BY <2>1, <2>4, <3>3
    <3>5. n \in kept'[e] => n \in kept[e]
      BY <2>2, <3>2
    <3> QED  BY <3>3, <3>4, <3>5
  <2>5. ASSUME NEW n \in DOMAIN O, n > Done(e), n \in kept'[e]
        PROVE  O[n].item = NoItem
    <3>1. CASE n \in kept[e]
      BY <1>1, <1>7, <2>1, <2>5, <3>1
    <3>2. CASE n \notin kept[e]
      BY <2>2, <2>5, <3>2
    <3> QED  BY <3>1, <3>2
  <2> QED  BY <1>4, <1>6, <2>3, <2>4, <2>5 DEF Shows
<1>10. FlightOfOneItem(e)'
  <2>1. \A k \in DOMAIN inFlight[e] : O[inFlight[e][k].ev.n] = outcome[e][inFlight[e][k].ev.n]
    BY <1>5, <1>7
  <2>2. \A k \in DOMAIN inFlight[e] : outcome[e][inFlight[e][k].ev.n].item = inFlight[e][1].item
    BY DEF EngineOK, FlightOfOneItem, ItemOf
  <2>3. outcome'[e] = O /\ inFlight'[e] = inFlight[e]
    BY <1>4
  <2> HIDE DEF O
  <2>4. \A k \in DOMAIN inFlight'[e] : outcome'[e][inFlight'[e][k].ev.n].item = inFlight'[e][1].item
    BY ONLY <2>1, <2>2, <2>3
  <2> QED  BY ONLY <2>4 DEF FlightOfOneItem, ItemOf
<1>11. \A h \in 1..a : q[h].item # NoItem => q[h].size \in 1..(a - h + 1)
  BY <1>1 DEF Shape, Whole
<1>12. /\ \A k \in 1..a : q[k].ev.n \in 1..b /\ Q[k] = q[k]
       /\ \A k \in 1..z : qs[k].ev.n = b + k /\ Q[a + k] = qs[k] /\ O[b + k] = ps[k]
  <2>1. \A k \in 1..a : q[k].ev.n \in 1..b
    <3> HIDE DEF o, q, a, b
    <3>1. \A k \in 1..a : Taken(e) + k \in 1..b
      BY <1>1, <1>5
    <3> QED  BY <1>1, <1>5, <3>1
  <2> QED  BY <1>2, <1>3, <2>1
<1>13. /\ \A k \in 1..a : o[q[k].ev.n].item # NoItem =>
            \E h \in 1..k : q[h].item # NoItem /\ k < h + q[h].size
       /\ \A h \in 1..a : q[h].item # NoItem => \A k \in h..(h + q[h].size - 1) :
            o[q[k].ev.n].item = q[h].item /\ (k > h => q[k].item = NoItem)
  BY <1>1 DEF EngineOK, QueuedByItem, ItemOf
<1>14. /\ \A k \in 1..z : ps[k].item # NoItem =>
            \E h \in 1..k : qs[h].item # NoItem /\ k < h + qs[h].size
       /\ \A h \in 1..z : qs[h].item # NoItem =>
            /\ qs[h].size \in 1..(z - h + 1)
            /\ \A k \in h..(h + qs[h].size - 1) :
                 ps[k].item = qs[h].item /\ (k > h => qs[k].item = NoItem)
  OBVIOUS
<1> HIDE DEF q, o, a, b, z, Q, O
<1>15. \A j \in 1..(a + z) : j \in 1..a \/ (j - a \in 1..z /\ a + (j - a) = j)
  BY <1>1
<1>16. ASSUME NEW k \in DOMAIN Q, O[Q[k].ev.n].item # NoItem
       PROVE  \E h \in 1..k : Q[h].item # NoItem /\ k < h + Q[h].size
  <2>1. CASE k \in 1..a
    <3>1. O[Q[k].ev.n] = o[q[k].ev.n]
      BY <1>7, <1>12, <2>1
    <3>2. PICK h \in 1..k : q[h].item # NoItem /\ k < h + q[h].size
      BY <1>13, <1>16, <2>1, <3>1
    <3>3. Q[h] = q[h]
      BY <1>1, <1>12, <2>1
    <3> QED  BY <3>2, <3>3
  <2>2. CASE k - a \in 1..z /\ a + (k - a) = k
    <3> DEFINE j == k - a
    <3>1. j \in 1..z /\ k = a + j /\ ps[j].item # NoItem
      <4>1. Q[k] = qs[j] /\ qs[j].ev.n = b + j /\ O[b + j] = ps[j]
        BY <1>12, <2>2
      <4> QED  BY <1>16, <2>2, <4>1
    <3>2. PICK h \in 1..j : qs[h].item # NoItem /\ j < h + qs[h].size
      BY <1>14, <3>1
    <3> HIDE DEF j
    <3>3. h \in 1..z /\ a + h \in 1..k
      BY <1>1, <3>1
    <3>4. Q[a + h] = qs[h] /\ qs[h].size \in Int
      BY <1>1, <1>12, <1>14, <3>2, <3>3
    <3>5. k < (a + h) + qs[h].size
      BY <1>1, <3>1, <3>2, <3>3, <3>4, SMTT(30)
    <3> QED  BY <3>2, <3>3, <3>4, <3>5
  <2> QED  BY <1>4, <1>15, <2>1, <2>2
<1>17. ASSUME NEW h \in DOMAIN Q, Q[h].item # NoItem
       PROVE  \A k \in h..(h + Q[h].size - 1) :
                O[Q[k].ev.n].item = Q[h].item /\ (k > h => Q[k].item = NoItem)
  <2>1. CASE h \in 1..a
    <3>1. Q[h] = q[h] /\ q[h].size \in 1..(a - h + 1)
      BY <1>11, <1>12, <1>17, <2>1
    <3> SUFFICES ASSUME NEW k \in h..(h + q[h].size - 1)
                 PROVE  O[Q[k].ev.n].item = q[h].item /\ (k > h => Q[k].item = NoItem)
      BY <3>1
    <3>2. k \in 1..a
      BY <1>1, <2>1, <3>1
    <3>3. O[Q[k].ev.n] = o[q[k].ev.n] /\ Q[k] = q[k]
      BY <1>7, <1>12, <3>2
    <3> QED  BY <1>13, <1>17, <2>1, <3>1, <3>3
  <2>2. CASE h - a \in 1..z /\ a + (h - a) = h
    <3> DEFINE j == h - a
    <3>1. j \in 1..z /\ h = a + j /\ Q[h] = qs[j]
      BY <1>12, <2>2
    <3>2. qs[j].size \in 1..(z - j + 1)
      BY <1>14, <1>17, <3>1
    <3> HIDE DEF j
    <3> SUFFICES ASSUME NEW k \in h..(h + qs[j].size - 1)
                 PROVE  O[Q[k].ev.n].item = qs[j].item /\ (k > h => Q[k].item = NoItem)
      BY <3>1
    <3>3. /\ k - a \in 1..z /\ a + (k - a) = k /\ k - a \in j..(j + qs[j].size - 1)
          /\ (k > h => k - a > j)
      BY <1>1, <3>1, <3>2, SMTT(30)
    <3>4. Q[k] = qs[k - a] /\ O[Q[k].ev.n] = ps[k - a]
      BY <1>12, <3>3
    <3> QED  BY <1>14, <1>17, <3>1, <3>3, <3>4
  <2> QED  BY <1>4, <1>15, <2>1, <2>2
<1>18. QueuedByItem(e)'
  BY <1>4, <1>16, <1>17 DEF QueuedByItem, ItemOf
<1> QED  BY <1>8, <1>9, <1>10, <1>18 DEF EngineOK

-----------------------------------------------------------------------------
(* The promises and the views, step by step.                               *)

\* A promise is never taken back, nor settled twice.
Stand ==
  \A f \in Engines : \A n \in DOMAIN outcome[f] :
    /\ n \in DOMAIN outcome'[f]
    /\ outcome'[f][n].item = outcome[f][n].item
    /\ outcome[f][n].st # "pending" => outcome'[f][n] = outcome[f][n]

\* No promise is settled by a refusal.
NoRefusal ==
  \A f \in Engines : \A n \in DOMAIN outcome'[f] :
    outcome'[f][n].st \in {"refused", "withdrawn"} =>
      n \in DOMAIN outcome[f] /\ outcome'[f][n] = outcome[f][n]

\* What leaves promises, queues, batches and views alone.
LEMMA WritersKept ==
  ASSUME Writers, UNCHANGED <<outcome, queue, inFlight, phase, fatal, kept>>
  PROVE  Writers' /\ Stand /\ NoRefusal
<1>1. Writers'
  BY EngineKept DEF Writers
<1> QED  BY <1>1 DEF Stand, NoRefusal

\* Being handed the lease, and opening the session.
LEMMA WritersOpened ==
  ASSUME TypeOK, Shape, TypeOK', Shape', Writers, NEW e \in Engines, Adopt(e) \/ Open(e)
  PROVE  Writers' /\ Stand /\ NoRefusal
<1>1. /\ UNCHANGED <<outcome, queue, inFlight, fatal, kept>>
      /\ phase[e] \in {"new", "leased"}
      /\ \A f \in Engines \ {e} : phase'[f] = phase[f]
  BY DEF Adopt, Open, TypeOK
<1>2. queue[e] = <<>> /\ inFlight[e] = <<>>
  BY <1>1 DEF Shape, CallTracksFlight
<1>3. EngineOK(e)'
  BY <1>1, <1>2, EngineOpened DEF Writers
<1>4. \A f \in Engines \ {e} : EngineOK(f)'
  BY <1>1, EngineKept DEF Writers
<1> QED  BY <1>1, <1>3, <1>4 DEF Writers, Stand, NoRefusal

\* Settling what is in flight and queued, from the front, stands by what was settled.
LEMMA SettlingStands ==
  ASSUME TypeOK, Shape, NEW e \in Engines, EngineOK(e), NEW batch \in Seq(Queued),
         NumberedFrom(batch, e, Done(e)),
         NEW st \in {"acked", "refused", "withdrawn", "failed"}, NEW first \in Nat,
         outcome'[e] = Settled(e, batch, st, first),
         \A f \in Engines \ {e} : outcome'[f] = outcome[f]
  PROVE  Stand /\ (st \notin {"refused", "withdrawn"} => NoRefusal)
<1>1. DOMAIN outcome'[e] = DOMAIN outcome[e] /\ Done(e) \in Nat /\ Len(batch) \in Nat
      /\ \A n \in DOMAIN outcome[e] : n \in Nat
  <2>1. DOMAIN outcome'[e] = DOMAIN outcome[e]
    BY DEF Settled
  <2>2. Done(e) \in Nat /\ DOMAIN outcome[e] = 1..Len(outcome[e]) /\ Len(outcome[e]) \in Nat
    BY Counts
  <2> QED  BY <2>1, <2>2
<1>2. ASSUME NEW n \in DOMAIN outcome[e]
      PROVE  /\ outcome'[e][n].item = outcome[e][n].item
             /\ outcome'[e][n].st # st => outcome'[e][n] = outcome[e][n]
             /\ outcome[e][n].st # "pending" => outcome'[e][n] = outcome[e][n]
  <2>1. CASE n \in (Done(e) + 1)..(Done(e) + Len(batch))
    <3>1. outcome'[e][n].st = st /\ outcome'[e][n].item = outcome[e][n].item
      BY <1>1, <2>1, SettledAt
    <3>2. outcome[e][n].st = "pending"
      BY <1>1, <2>1 DEF EngineOK, SettledInOrder
    <3> QED  BY <3>1, <3>2
  <2>2. CASE n \notin (Done(e) + 1)..(Done(e) + Len(batch))
    <3>1. outcome'[e][n] = outcome[e][n]
      BY <1>1, <2>2, SettledAt
    <3> QED  BY <3>1
  <2> QED  BY <2>1, <2>2
<1>3. Stand
  <2> SUFFICES ASSUME NEW f \in Engines, NEW n \in DOMAIN outcome[f]
               PROVE  /\ n \in DOMAIN outcome'[f]
                      /\ outcome'[f][n].item = outcome[f][n].item
                      /\ outcome[f][n].st # "pending" => outcome'[f][n] = outcome[f][n]
    BY DEF Stand
  <2>1. CASE f = e
    BY <1>1, <1>2, <2>1
  <2>2. CASE f # e
    BY <2>2
  <2> QED  BY <2>1, <2>2
<1>4. ASSUME st \notin {"refused", "withdrawn"} PROVE NoRefusal
  <2> SUFFICES ASSUME NEW f \in Engines, NEW n \in DOMAIN outcome'[f],
                      outcome'[f][n].st \in {"refused", "withdrawn"}
               PROVE  n \in DOMAIN outcome[f] /\ outcome'[f][n] = outcome[f][n]
    BY DEF NoRefusal
  <2>1. CASE f = e
    BY <1>1, <1>2, <1>4, <2>1
  <2>2. CASE f # e
    BY <2>2
  <2> QED  BY <2>1, <2>2
<1> QED  BY <1>3, <1>4

\* All an engine has in flight and queued, numbered on from what it is done with.
LEMMA OpenEnd ==
  ASSUME TypeOK, Shape, NEW e \in Engines
  PROVE  /\ inFlight[e] \o queue[e] \in Seq(Queued)
         /\ NumberedFrom(inFlight[e] \o queue[e], e, Done(e))
         /\ Len(inFlight[e] \o queue[e]) = Len(inFlight[e]) + Len(queue[e])
<1>1. /\ inFlight[e] \in Seq(Queued) /\ queue[e] \in Seq(Queued)
      /\ Done(e) \in Nat /\ Taken(e) = Done(e) + Len(inFlight[e])
  BY Counts
<1>2. NumberedFrom(inFlight[e], e, Done(e)) /\ NumberedFrom(queue[e], e, Taken(e))
  BY DEF Shape, Numbered, Done
<1>3. NumberedFrom(inFlight[e] \o queue[e], e, Done(e))
  BY <1>1, <1>2, NumberedConcat
<1> QED  BY <1>1, <1>3, ConcatAt

\* Stopping, with what is in flight and queued failed.
LEMMA WritersStop ==
  ASSUME TypeOK, Shape, TypeOK', Shape', Writers, NEW e \in Engines,
         NEW batch, batch = inFlight[e], NEW cause, cause # "none", phase[e] = "open",
         Stop(e, batch, queue[e], cause), UNCHANGED <<phase, kept>>
  PROVE  Writers' /\ Stand /\ NoRefusal
<1>1. /\ inFlight[e] \o queue[e] \in Seq(Queued)
      /\ NumberedFrom(inFlight[e] \o queue[e], e, Done(e))
  BY OpenEnd
<1>2. /\ outcome'[e] = Settled(e, inFlight[e] \o queue[e], "failed", 0)
      /\ queue'[e] = <<>> /\ inFlight'[e] = <<>> /\ fatal'[e] = cause
      /\ \A f \in Engines \ {e} :
           /\ outcome'[f] = outcome[f] /\ queue'[f] = queue[f]
           /\ inFlight'[f] = inFlight[f] /\ fatal'[f] = fatal[f]
  BY DEF Stop, TypeOK
<1>3. Stand /\ NoRefusal
  BY <1>1, <1>2, SettlingStands DEF Writers
<1>4. EngineOK(e)'
  BY <1>2, EngineEnded
<1>5. \A f \in Engines \ {e} : EngineOK(f)'
  BY <1>2, EngineKept DEF Writers
<1> QED  BY <1>3, <1>4, <1>5 DEF Writers

LEMMA WritersRetryOrThrow ==
  ASSUME TypeOK, Shape, TypeOK', Shape', Writers, NEW e \in Engines,
         NEW cause, cause # "none", RetryOrThrow(e, cause), wire[e] = "sent",
         UNCHANGED <<phase, kept>>
  PROVE  Writers' /\ Stand /\ NoRefusal
<1>1. CASE UNCHANGED <<attempt, fatal, outcome, queue, inFlight, draining>>
  BY <1>1, WritersKept
<1>2. CASE Stop(e, inFlight[e], queue[e], cause)
  BY <1>2, CallFacts, WritersStop
<1> QED  BY <1>1, <1>2 DEF RetryOrThrow

LEMMA WritersGone ==
  ASSUME TypeOK, Shape, TypeOK', Shape', Writers, NEW e \in Engines, Gone(e)
  PROVE  Writers' /\ Stand /\ NoRefusal
<1>1. /\ outcome' = outcome /\ queue'[e] = <<>> /\ inFlight'[e] = <<>> /\ phase'[e] = "dead"
      /\ \A f \in Engines \ {e} :
           /\ queue'[f] = queue[f] /\ inFlight'[f] = inFlight[f]
           /\ phase'[f] = phase[f] /\ fatal'[f] = fatal[f] /\ kept'[f] = kept[f]
  BY DEF Gone, TypeOK
<1>2. EngineOK(e)'
  BY <1>1, EngineEnded
<1>3. \A f \in Engines \ {e} : EngineOK(f)'
  BY <1>1, EngineKept DEF Writers
<1> QED  BY <1>1, <1>2, <1>3 DEF Writers, Stand, NoRefusal

LEMMA WritersDrainStep ==
  ASSUME TypeOK, Shape, TypeOK', Shape', Writers, NEW e \in Engines, DrainStep(e)
  PROVE  Writers' /\ Stand /\ NoRefusal
<1>1. /\ UNCHANGED <<phase, kept>> /\ inFlight[e] = <<>> /\ phase[e] = "open"
  BY DEF DrainStep, Shape, CallTracksFlight
<1>2. CASE UNCHANGED <<queue, inFlight, fatal, outcome>>
  BY <1>1, <1>2, WritersKept
<1>3. CASE Stop(e, <<>>, queue[e], "no_lease")
  BY <1>1, <1>3, WritersStop
<1>4. CASE queue[e] # <<>> /\ fatal[e] = "none" /\ ~lost[e]
  <2>1. PICK n : n = CutOf(queue[e])
    OBVIOUS
  <2>2. /\ inFlight' = [inFlight EXCEPT ![e] = SubSeq(queue[e], 1, n)]
        /\ queue' = [queue EXCEPT ![e] = SubSeq(@, n + 1, Len(@))]
        /\ UNCHANGED <<fatal, outcome>>
    BY <1>4, <2>1 DEF DrainStep
  <2>3. /\ inFlight'[e] = SubSeq(queue[e], 1, n)
        /\ queue'[e] = SubSeq(queue[e], n + 1, Len(queue[e]))
        /\ \A f \in Engines \ {e} : inFlight'[f] = inFlight[f] /\ queue'[f] = queue[f]
    BY <2>2 DEF TypeOK
  <2>4. EngineOK(e)'
    BY <1>1, <1>4, <2>1, <2>2, <2>3, EngineSent DEF Writers
  <2>5. \A f \in Engines \ {e} : EngineOK(f)'
    BY <1>1, <2>2, <2>3, EngineKept DEF Writers
  <2> QED  BY <2>2, <2>4, <2>5 DEF Writers, Stand, NoRefusal
<1> QED  BY <1>2, <1>3, <1>4 DEF DrainStep

LEMMA WritersPushed ==
  ASSUME Writers, NEW e \in Engines, EngineOK(e)', TypeOK, TypeOK',
         NEW ps \in Seq(Promise), \A k \in DOMAIN ps : ps[k].st = "pending",
         outcome' = [outcome EXCEPT ![e] = @ \o ps],
         \A f \in Engines \ {e} : queue'[f] = queue[f] /\ kept'[f] = kept[f],
         UNCHANGED <<inFlight, phase, fatal>>
  PROVE  Writers' /\ Stand /\ NoRefusal
<1>1. /\ outcome'[e] = outcome[e] \o ps /\ \A f \in Engines \ {e} : outcome'[f] = outcome[f]
      /\ outcome[e] \in Seq(Promise)
  BY DEF TypeOK
<1>2. Writers'
  <2>1. \A f \in Engines \ {e} : EngineOK(f)'
    BY <1>1, EngineKept DEF Writers
  <2> QED  BY <2>1 DEF Writers
<1>3. /\ DOMAIN outcome[e] = 1..Len(outcome[e]) /\ Len(outcome[e]) \in Nat
      /\ DOMAIN ps = 1..Len(ps) /\ Len(ps) \in Nat
      /\ DOMAIN outcome'[e] = 1..(Len(outcome[e]) + Len(ps))
      /\ \A n \in 1..Len(outcome[e]) : outcome'[e][n] = outcome[e][n]
      /\ \A k \in 1..Len(ps) : outcome'[e][Len(outcome[e]) + k] = ps[k]
  BY <1>1, ConcatAll
<1>4. ASSUME NEW n \in DOMAIN outcome'[e], n \notin DOMAIN outcome[e]
      PROVE  outcome'[e][n].st = "pending"
  <2>1. n - Len(outcome[e]) \in DOMAIN ps /\ Len(outcome[e]) + (n - Len(outcome[e])) = n
    BY <1>3, <1>4
  <2>2. outcome'[e][n] = ps[n - Len(outcome[e])]
    BY <1>3, <2>1
  <2> QED  BY <2>1, <2>2
<1>5. DOMAIN outcome[e] \subseteq DOMAIN outcome'[e]
  BY <1>3
<1>6. Stand
  <2> SUFFICES ASSUME NEW f \in Engines, NEW n \in DOMAIN outcome[f]
               PROVE  n \in DOMAIN outcome'[f] /\ outcome'[f][n] = outcome[f][n]
    BY DEF Stand
  <2> QED  BY <1>1, <1>3, <1>5
<1>7. NoRefusal
  <2> SUFFICES ASSUME NEW f \in Engines, NEW n \in DOMAIN outcome'[f],
                      outcome'[f][n].st \in {"refused", "withdrawn"}
               PROVE  n \in DOMAIN outcome[f] /\ outcome'[f][n] = outcome[f][n]
    BY DEF NoRefusal
  <2> QED  BY <1>1, <1>3, <1>4
<1> QED  BY <1>2, <1>6, <1>7

LEMMA WritersWrite ==
  ASSUME TypeOK, Shape, TypeOK', Shape', Writers, NEW e \in Engines, NEW size \in Sizes,
         NEW record \in BOOLEAN, Write(e, size, record)
  PROVE  Writers' /\ Stand /\ NoRefusal
<1> DEFINE new == [ev |-> NextEvent(e, 1, size), item |-> NoItem, size |-> 1]
<1>1. queue[e] \in Seq(Queued) /\ outcome[e] \in Seq(Promise) /\ Len(outcome[e]) \in Nat
  BY DEF TypeOK
<1>2. /\ new \in Queued /\ new.item = NoItem /\ new.ev.n = Len(outcome[e]) + 1
      /\ Pending(NoItem) \in Promise /\ Pending(NoItem).st = "pending"
      /\ Pending(NoItem).seq = 0 /\ Pending(NoItem).item = NoItem
  <2>1. size \in Nat /\ Len(outcome[e]) + 1 \in Nat \ {0}
    BY <1>1, BatcherAssumption
  <2> QED  BY <2>1 DEF Queued, Event, NextEvent, Promise, Pending
<1>3. /\ queue' = [queue EXCEPT ![e] = Append(@, new)]
      /\ outcome' = [outcome EXCEPT ![e] = Append(@, Pending(NoItem))]
      /\ UNCHANGED <<inFlight, phase, fatal>> /\ phase[e] = "open" /\ fatal[e] = "none"
  BY DEF Write, Writable
<1>4. /\ kept[e] \subseteq kept'[e] /\ kept'[e] \subseteq kept[e] \cup {Len(outcome[e]) + 1}
      /\ \A f \in Engines \ {e} : kept'[f] = kept[f]
  BY DEF Write, TypeOK
<1> HIDE DEF new
<1> DEFINE qs == <<new>>
           ps == <<Pending(NoItem)>>
<1>5. /\ qs \in Seq(Queued) /\ ps \in Seq(Promise) /\ Len(qs) = 1 /\ Len(ps) = 1
      /\ qs[1] = new /\ ps[1] = Pending(NoItem) /\ DOMAIN ps = 1..1
  BY <1>2
<1>6. /\ Append(queue[e], new) = queue[e] \o qs
      /\ Append(outcome[e], Pending(NoItem)) = outcome[e] \o ps
  BY <1>1, <1>2, AddIsConcat
<1>7. /\ queue'[e] = queue[e] \o qs /\ outcome'[e] = outcome[e] \o ps
      /\ outcome' = [outcome EXCEPT ![e] = @ \o ps]
      /\ \A f \in Engines \ {e} : queue'[f] = queue[f]
  BY <1>3, <1>6 DEF TypeOK
<1> HIDE DEF qs, ps
<1>8. \A k \in 1..Len(qs) : k = 1
  BY <1>5
<1>9. /\ \A k \in 1..Len(qs) :
           /\ ps[k].st = "pending" /\ ps[k].seq = 0 /\ ps[k].item = NoItem
           /\ qs[k].ev.n = Len(outcome[e]) + k /\ qs[k].item = NoItem
      /\ \A k \in DOMAIN ps : ps[k].st = "pending"
  BY <1>2, <1>5, <1>8
<1>10. \A n \in kept'[e] \ kept[e] :
         n - Len(outcome[e]) \in 1..Len(qs) /\ n \in Nat /\ ps[n - Len(outcome[e])].item = NoItem
  BY <1>1, <1>4, <1>5, <1>9
<1>11. EngineOK(e)'
  BY <1>3, <1>4, <1>5, <1>7, <1>9, <1>10, EnginePushed DEF Writers
<1> QED  BY <1>3, <1>4, <1>5, <1>7, <1>9, <1>11, WritersPushed, ZenonT(40)

LEMMA WritersConsume ==
  ASSUME TypeOK, Shape, TypeOK', Shape', Writers, NEW e \in Engines, NEW i \in Items,
         NEW sizes \in Seq(Sizes), Consume(e, i, sizes)
  PROVE  Writers' /\ Stand /\ NoRefusal
<1> DEFINE qs == Opening(e, i, sizes)
           ps == OpeningPromises(i, sizes)
<1>1. /\ queue' = [queue EXCEPT ![e] = @ \o qs]
      /\ outcome' = [outcome EXCEPT ![e] = @ \o ps]
      /\ UNCHANGED <<inFlight, phase, fatal, kept>> /\ phase[e] = "open" /\ fatal[e] = "none"
  BY DEF Consume, Writable
<1>2. /\ qs \in Seq(Queued) /\ ps \in Seq(Promise)
      /\ Len(qs) = Len(sizes) /\ Len(ps) = Len(sizes)
      /\ \A k \in 1..Len(sizes) :
           /\ qs[k].ev.n = Len(outcome[e]) + k
           /\ qs[k].item # NoItem => k = 1 /\ qs[k].size = Len(sizes)
  BY OpeningFacts
<1>3. /\ DOMAIN sizes = 1..Len(sizes) /\ Len(sizes) \in Nat /\ DOMAIN ps = 1..Len(sizes)
      /\ \A k \in 1..Len(sizes) : ps[k].st = "pending" /\ ps[k].seq = 0 /\ ps[k].item = i
      /\ 1 \in 1..Len(sizes) => qs[1].item = i /\ qs[1].size = Len(sizes)
  BY DEF Opening, OpeningPromises, Pending
<1>4. i # NoItem
  BY StoreAssumption
<1>5. /\ queue'[e] = queue[e] \o qs /\ outcome'[e] = outcome[e] \o ps
      /\ \A f \in Engines \ {e} : queue'[f] = queue[f]
  BY <1>1 DEF TypeOK
<1> HIDE DEF qs, ps
<1>6. \A k \in 1..Len(qs) :
        /\ ps[k].st = "pending" /\ ps[k].seq = 0 /\ qs[k].ev.n = Len(outcome[e]) + k
        /\ ps[k].item # NoItem => \E h \in 1..k : qs[h].item # NoItem /\ k < h + qs[h].size
  <2> TAKE k \in 1..Len(qs)
  <2>1. k \in 1..Len(sizes) /\ 1 \in 1..Len(sizes) /\ 1 \in 1..k /\ k < 1 + Len(sizes)
    BY <1>2, <1>3
  <2> QED  BY <1>2, <1>3, <1>4, <2>1
<1>7. \A h \in 1..Len(qs) : qs[h].item # NoItem =>
        /\ qs[h].size \in 1..(Len(qs) - h + 1)
        /\ \A k \in h..(h + qs[h].size - 1) :
             ps[k].item = qs[h].item /\ (k > h => qs[k].item = NoItem)
  <2> SUFFICES ASSUME NEW h \in 1..Len(qs), qs[h].item # NoItem
               PROVE  /\ qs[h].size \in 1..(Len(qs) - h + 1)
                      /\ \A k \in h..(h + qs[h].size - 1) :
                           ps[k].item = qs[h].item /\ (k > h => qs[k].item = NoItem)
    OBVIOUS
  <2>1. h = 1 /\ qs[1].size = Len(sizes) /\ Len(sizes) >= 1 /\ qs[1].item = i
    BY <1>2, <1>3
  <2>2. \A k \in 1..(1 + Len(sizes) - 1) : k \in 1..Len(sizes)
    BY <1>3
  <2> QED  BY <1>2, <1>3, <2>1, <2>2
<1>8. EngineOK(e)'
  BY <1>1, <1>2, <1>5, <1>6, <1>7, EnginePushed DEF Writers
<1> QED  BY <1>1, <1>2, <1>3, <1>5, <1>8, WritersPushed

\* The numbers of the batch in flight.
LEMMA FlightNumbers ==
  ASSUME TypeOK, Shape, NEW e \in Engines
  PROVE  Numbers(inFlight[e]) = (Done(e) + 1)..Taken(e)
<1>1. /\ DOMAIN inFlight[e] = 1..Len(inFlight[e]) /\ Len(inFlight[e]) \in Nat
      /\ Done(e) \in Nat /\ Taken(e) = Done(e) + Len(inFlight[e])
      /\ \A k \in DOMAIN inFlight[e] : inFlight[e][k].ev.n = Done(e) + k
  BY Counts
<1>2. ASSUME NEW n \in (Done(e) + 1)..Taken(e) PROVE n \in Numbers(inFlight[e])
  <2>1. n - Done(e) \in DOMAIN inFlight[e] /\ Done(e) + (n - Done(e)) = n
    BY <1>1
  <2> QED  BY <1>1, <2>1 DEF Numbers
<1>3. ASSUME NEW k \in DOMAIN inFlight[e]
      PROVE  inFlight[e][k].ev.n \in (Done(e) + 1)..Taken(e)
  BY <1>1
<1> QED  BY <1>2, <1>3 DEF Numbers

\* What an answer the writer survives settles.
LEMMA WritersAnswered ==
  ASSUME TypeOK, Shape, TypeOK', Shape', Writers, NEW e \in Engines,
         answer[e] # NoAnswer, NEW st \in Sorted, NEW first \in Nat,
         outcome' = [outcome EXCEPT ![e] = Settled(e, inFlight[e], st, first)],
         inFlight' = [inFlight EXCEPT ![e] = <<>>], UNCHANGED <<queue, phase, fatal>>,
         \A n \in DOMAIN outcome[e] : n \notin Numbers(inFlight[e]) =>
           (n \in kept'[e] <=> n \in kept[e]),
         \A n \in Numbers(inFlight[e]) : n \in kept'[e] <=> st = "acked",
         kept'[e] \subseteq kept[e] \cup Numbers(inFlight[e]),
         \A f \in Engines \ {e} : kept'[f] = kept[f]
  PROVE  Writers' /\ Stand /\ (st = "acked" => NoRefusal)
<1>1. /\ phase[e] = "open" /\ inFlight[e] # <<>> /\ inFlight[e] \in Seq(Queued)
  BY CallFacts
<1>2. /\ outcome'[e] = Settled(e, inFlight[e], st, first) /\ inFlight'[e] = <<>>
      /\ \A f \in Engines \ {e} : outcome'[f] = outcome[f] /\ inFlight'[f] = inFlight[f]
  BY DEF TypeOK
<1>3. EngineOK(e)'
  BY <1>1, <1>2, EngineSettled DEF Writers
<1>4. \A f \in Engines \ {e} : EngineOK(f)'
  BY <1>2, EngineKept DEF Writers
<1>5. NumberedFrom(inFlight[e], e, Done(e))
  BY DEF Shape, Numbered, Done
<1>6. st \in {"acked", "refused", "withdrawn", "failed"}
  BY DEF Sorted
<1>7. Stand /\ (st \notin {"refused", "withdrawn"} => NoRefusal)
  BY <1>1, <1>2, <1>5, <1>6, SettlingStands DEF Writers
<1> QED  BY <1>3, <1>4, <1>7 DEF Writers

LEMMA WritersOnAck ==
  ASSUME TypeOK, Shape, TypeOK', Shape', Writers, NEW e \in Engines, OnAck(e)
  PROVE  Writers' /\ Stand /\ NoRefusal
<1>1. answer[e] # NoAnswer /\ answer[e] \in Answer
  BY DEF OnAck, Accepted, NoAnswer, TypeOK
<1>2. answer[e].first \in Nat
  BY <1>1 DEF Answer, NoAnswer
<1>3. PICK first \in Nat : first = answer[e].first
  BY <1>2
<1>4. /\ outcome' = [outcome EXCEPT ![e] = Settled(e, inFlight[e], "acked", first)]
      /\ inFlight' = [inFlight EXCEPT ![e] = <<>>] /\ UNCHANGED <<queue, phase, fatal>>
  BY <1>3 DEF OnAck
<1>5. kept'[e] = kept[e] \cup Numbers(inFlight[e]) /\ \A f \in Engines \ {e} : kept'[f] = kept[f]
  BY DEF OnAck, TypeOK
<1>6. "acked" \in Sorted
  BY DEF Sorted
<1> QED  BY <1>1, <1>4, <1>5, <1>6, WritersAnswered

LEMMA WritersOnRefusal ==
  ASSUME TypeOK, Shape, TypeOK', Shape', Writers, NEW e \in Engines, OnRefusal(e)
  PROVE  Writers' /\ Stand
<1>1. answer[e] # NoAnswer
  BY DEF OnRefusal, NoAnswer
<1>2. inFlight' = [inFlight EXCEPT ![e] = <<>>] /\ UNCHANGED <<queue, phase, fatal>>
  BY DEF OnRefusal
<1>3. "refused" \in Sorted /\ "withdrawn" \in Sorted
  BY DEF Sorted
<1>4. CASE /\ outcome' = [outcome EXCEPT ![e] = Settled(e, inFlight[e], "withdrawn", 0)]
           /\ inFlight[e][1].item # NoItem /\ UNCHANGED kept
  <2>1. /\ EngineOK(e) /\ phase[e] = "open" /\ inFlight[e] # <<>>
    BY <1>1, CallFacts DEF Writers
  <2>2. fatal[e] = "none"
    BY <2>1 DEF EngineOK, SettledInOrder
  <2>3. ASSUME NEW k \in DOMAIN inFlight[e] PROVE inFlight[e][k].ev.n \notin kept[e]
    <3> DEFINE n == inFlight[e][k].ev.n
    <3>1. n = Done(e) + k /\ Done(e) \in Nat /\ k \in 1..Len(inFlight[e])
      BY Counts
    <3>2. outcome[e][n].item # NoItem
      BY <1>4, <2>1 DEF EngineOK, FlightOfOneItem, ItemOf
    <3>3. n > Done(e)
      <4> HIDE DEF n
      <4> QED  BY <3>1
    <3> HIDE DEF n
    <3> QED  BY <2>1, <2>2, <3>2, <3>3 DEF EngineOK, Shows, n
  <2>4. \A n \in Numbers(inFlight[e]) : n \notin kept[e]
    BY <2>3 DEF Numbers
  <2> QED  BY <1>1, <1>2, <1>3, <1>4, <2>4, WritersAnswered
<1>5. CASE /\ outcome' = [outcome EXCEPT ![e] = Settled(e, inFlight[e], "refused", 0)]
           /\ kept' = [kept EXCEPT ![e] = @ \ Numbers(inFlight[e])]
  <2>1. kept'[e] = kept[e] \ Numbers(inFlight[e]) /\ \A f \in Engines \ {e} : kept'[f] = kept[f]
    BY <1>5 DEF TypeOK
  <2> QED  BY <1>1, <1>2, <1>3, <1>5, <2>1, WritersAnswered
<1> QED  BY <1>4, <1>5 DEF OnRefusal

\* Every step keeps the writers' part, settles no promise twice, and refuses one only
\* where a refusal is read.
LEMMA WritersNext ==
  ASSUME TypeOK, Shape, TypeOK', Shape', Writers, [Next]_vars
  PROVE  /\ Writers' /\ Stand
         /\ (\A e \in Engines : ~OnRefusal(e)) => NoRefusal
<1>1. CASE UNCHANGED vars
  BY <1>1, WritersKept DEF vars, engineVars
<1>2. ASSUME NEW e \in Engines, EngineStep(e)
      PROVE  Writers' /\ Stand /\ (~OnRefusal(e) => NoRefusal)
  <2>1. CASE Adopt(e) \/ Open(e)
    BY <2>1, WritersOpened
  <2>2. CASE Kick(e) \/ Unwound(e) \/ LoseLease(e) \/ Retry(e)
    BY <2>2, WritersKept DEF Kick, Unwound, LoseLease, Retry, engineVars
  <2>3. CASE Timeout(e)
    BY <2>3, WritersRetryOrThrow DEF Timeout
  <2>4. CASE OnBusy(e)
    BY <2>4, CallFacts, WritersRetryOrThrow DEF OnBusy, NoAnswer
  <2>5. CASE OnFatal(e)
    <3>1. answer[e] # NoAnswer /\ answer[e].code # "none"
      BY <2>5 DEF OnFatal, NoAnswer
    <3>2. Stop(e, inFlight[e], queue[e], answer[e].code) /\ UNCHANGED <<phase, kept>>
      BY <2>5 DEF OnFatal
    <3> QED  BY <3>1, <3>2, CallFacts, WritersStop
  <2>6. CASE Close(e) \/ Crash(e)
    BY <2>6, WritersGone DEF Close, Crash
  <2> QED  BY <1>2, <2>1, <2>2, <2>3, <2>4, <2>5, <2>6, WritersDrainStep, WritersOnAck,
              WritersOnRefusal
           DEF EngineStep, OnAnswer
<1>3. ASSUME NEW e \in Engines, Calls(e) PROVE Writers' /\ Stand /\ NoRefusal
  BY <1>3, CallCases, WritersWrite, WritersConsume
<1>4. ASSUME NEW m \in net, Deliver(m) \/ DeliverBusy(m) PROVE Writers' /\ Stand /\ NoRefusal
  BY <1>4, WritersKept DEF Deliver, DeliverBusy, engineVars
<1>5. CASE StoreStep
  BY <1>5, WritersKept DEF StoreStep, engineVars
<1> QED  BY <1>1, <1>2, <1>3, <1>4, <1>5 DEF Next

\* A step folds no event but the one it pushes.
LEMMA FoldedSteps ==
  ASSUME TypeOK, [Next]_vars, NEW f \in Engines, NEW n \in folded'[f], n \notin folded[f]
  PROVE  n \in DOMAIN outcome'[f] /\ outcome'[f][n] = Pending(NoItem)
<1>1. CASE folded' = folded
  BY <1>1
<1>2. ASSUME NEW e \in Engines, Gone(e) PROVE FALSE
  BY <1>2 DEF Gone, TypeOK
<1>3. ASSUME NEW e \in Engines, NEW size \in Sizes, NEW record \in BOOLEAN,
             Write(e, size, record)
      PROVE  n \in DOMAIN outcome'[f] /\ outcome'[f][n] = Pending(NoItem)
  <2>1. outcome[e] \in Seq(Promise) /\ Pending(NoItem) \in Promise
    BY DEF TypeOK, Pending, Promise
  <2>2. f = e /\ n = Len(outcome[e]) + 1
    BY <1>3 DEF Write, TypeOK
  <2>3. outcome'[e] = Append(outcome[e], Pending(NoItem))
    BY <1>3 DEF Write, TypeOK
  <2> HIDE DEF Pending
  <2> QED  BY <2>1, <2>2, <2>3
<1>4. \/ folded' = folded \/ \E e \in Engines : Gone(e)
      \/ \E e \in Engines : \E size \in Sizes : \E record \in BOOLEAN : Write(e, size, record)
  <2>1. CASE UNCHANGED vars
    BY <2>1 DEF vars, engineVars
  <2>2. ASSUME NEW e \in Engines, EngineStep(e) PROVE folded' = folded \/ Gone(e)
    BY <2>2 DEF EngineStep, OnAnswer, Adopt, Open, Kick, Unwound, DrainStep, Timeout, Retry, OnAck,
                OnRefusal, OnBusy, OnFatal, LoseLease, Close, Crash, engineVars
  <2>3. ASSUME NEW e \in Engines, Calls(e)
        PROVE  \/ folded' = folded
               \/ \E size \in Sizes : \E record \in BOOLEAN : Write(e, size, record)
    BY <2>3, CallCases DEF Consume
  <2>4. ASSUME NEW m \in net, Deliver(m) \/ DeliverBusy(m) PROVE folded' = folded
    BY <2>4 DEF Deliver, DeliverBusy, engineVars
  <2>5. CASE StoreStep
    BY <2>5 DEF StoreStep, engineVars
  <2> QED  BY <2>1, <2>2, <2>3, <2>4, <2>5 DEF Next
<1> QED  BY <1>1, <1>2, <1>3, <1>4

\* No item takes away what was folded.
LEMMA FoldedPlainNext ==
  ASSUME TypeOK, Shape, TypeOK', Shape', Writers, FoldedPlain, [Next]_vars
  PROVE  FoldedPlain'
<1>1. Stand /\ ((\A e \in Engines : ~OnRefusal(e)) => NoRefusal)
  BY WritersNext
<1> SUFFICES ASSUME NEW f \in Engines, NEW n \in folded'[f]
             PROVE  /\ n \in DOMAIN outcome'[f]
                    /\ outcome'[f][n].item = NoItem /\ outcome'[f][n].st # "withdrawn"
  BY DEF FoldedPlain
<1>2. CASE n \notin folded[f]
  BY <1>2, FoldedSteps DEF Pending
<1>3. CASE n \in folded[f]
  <2>1. /\ n \in DOMAIN outcome[f]
        /\ outcome[f][n].item = NoItem /\ outcome[f][n].st # "withdrawn"
    BY <1>3 DEF FoldedPlain
  <2>2. n \in DOMAIN outcome'[f] /\ outcome'[f][n].item = NoItem
    BY <1>1, <2>1 DEF Stand
  <2>3. CASE NoRefusal
    BY <2>1, <2>2, <2>3 DEF NoRefusal
  <2>4. ASSUME NEW e \in Engines, OnRefusal(e) PROVE outcome'[f][n].st # "withdrawn"
    <3>1. CASE f # e
      <4>1. outcome' = [outcome EXCEPT ![e] = outcome'[e]]
        <5>1. \/ outcome' = [outcome EXCEPT ![e] = Settled(e, inFlight[e], "withdrawn", 0)]
              \/ outcome' = [outcome EXCEPT ![e] = Settled(e, inFlight[e], "refused", 0)]
          BY <2>4 DEF OnRefusal
        <5> QED  BY <5>1 DEF TypeOK
      <4>2. outcome'[f] = outcome[f]
        BY <3>1, <4>1 DEF TypeOK
      <4> QED  BY <2>1, <4>2
    <3>2. CASE /\ f = e /\ inFlight[e][1].item # NoItem
               /\ outcome' = [outcome EXCEPT ![e] = Settled(e, inFlight[e], "withdrawn", 0)]
      <4>1. ASSUME NEW k \in DOMAIN inFlight[e] PROVE inFlight[e][k].ev.n # n
        BY <2>1, <3>2 DEF Writers, EngineOK, FlightOfOneItem, ItemOf
      <4>2. outcome'[f] = Settled(e, inFlight[e], "withdrawn", 0)
        BY <3>2 DEF TypeOK
      <4>3. outcome'[f][n] = outcome[f][n]
        <5>1. ~ \E k \in DOMAIN inFlight[e] : inFlight[e][k].ev.n = n
          BY <4>1
        <5>2. n \in DOMAIN outcome[e]
          BY <2>1, <3>2
        <5>3. Settled(e, inFlight[e], "withdrawn", 0)[n] = outcome[e][n]
          BY <5>1, <5>2 DEF Settled
        <5> QED  BY <3>2, <4>2, <5>3
      <4> QED  BY <2>1, <4>3
    <3>3. CASE f = e /\ outcome' = [outcome EXCEPT ![e] = Settled(e, inFlight[e], "refused", 0)]
      <4>1. outcome'[f] = Settled(e, inFlight[e], "refused", 0)
        BY <3>3 DEF TypeOK
      <4>2. CASE \E k \in DOMAIN inFlight[e] : inFlight[e][k].ev.n = n
        <5>1. outcome'[f][n] = [outcome[f][n] EXCEPT !.st = "refused", !.seq = 0]
          BY <2>1, <3>3, <4>1, <4>2 DEF Settled
        <5>2. outcome[f][n] \in Promise
          <6>1. outcome[f] \in Seq(Promise)
            BY DEF TypeOK
          <6> QED  BY <2>1, <6>1
        <5> QED  BY <5>1, <5>2 DEF Promise
      <4>3. CASE ~ \E k \in DOMAIN inFlight[e] : inFlight[e][k].ev.n = n
        BY <2>1, <3>3, <4>1, <4>3 DEF Settled
      <4> QED  BY <4>2, <4>3
    <3> QED  BY <2>4, <3>1, <3>2, <3>3 DEF OnRefusal
  <2> QED  BY <1>1, <2>2, <2>3, <2>4
<1> QED  BY <1>2, <1>3

-----------------------------------------------------------------------------
(* What a step may do to the store, the network and an engine's answer.    *)

\* The store took a request in.
Commits(m) == Deliver(m) /\ AppendCode(m.body) = "commit"

\* The log and the record of appends are left alone; an item may be withdrawn.
Quiet ==
  /\ UNCHANGED <<log, appends>>
  /\ \A i \in Items :
       items'[i] = items[i] \/ (items[i] = "pending" /\ items'[i] = "withdrawn")

\* The batch in flight goes out, for the first time or once more.
Sends(e) ==
  /\ Bodies' \subseteq Bodies \cup {BodyOf(e, inFlight[e])'}
  /\ UNCHANGED <<outcome, storeVars>>
  /\ phase'[e] = "open" /\ inFlight'[e] # <<>>

LEMMA QuietStore ==
  ASSUME UNCHANGED <<log, appends, items>> PROVE Quiet
BY DEF Quiet

LEMMA StoreSteps ==
  ASSUME TypeOK, [Next]_vars
  PROVE  Quiet \/ \E m \in net : Commits(m)
<1>1. CASE UNCHANGED vars
  BY <1>1, QuietStore DEF vars, storeVars
<1>2. ASSUME NEW e \in Engines, EngineStep(e) PROVE Quiet
  BY <1>2, QuietStore
  DEF EngineStep, OnAnswer, Adopt, GrantLease, Open, Kick, Unwound, DrainStep, Timeout, Retry,
      OnAck, OnRefusal, OnBusy, OnFatal, LoseLease, Close, Crash, Gone, storeVars
<1>3. ASSUME NEW e \in Engines, Calls(e) PROVE Quiet
  BY <1>3, QuietStore DEF Calls, Write, Consume, storeVars
<1>4. ASSUME NEW m \in net, DeliverBusy(m) PROVE Quiet
  BY <1>4, QuietStore DEF DeliverBusy, storeVars
<1>5. ASSUME NEW m \in net, Deliver(m), ~Commits(m) PROVE Quiet
  BY <1>5, QuietStore DEF Deliver, Commits, HandleAppend, storeVars
<1>6. CASE StoreStep
  <2>1. CASE LapseLease
    BY <2>1, QuietStore DEF LapseLease
  <2>2. ASSUME NEW i \in Items, WithdrawItem(i) PROVE Quiet
    BY <2>2 DEF WithdrawItem, Quiet, TypeOK, StoreTypeOK
  <2> QED  BY <1>6, <2>1, <2>2 DEF StoreStep
<1> QED  BY <1>1, <1>2, <1>3, <1>4, <1>5, <1>6 DEF Next

\* What a committed request does.
LEMMA CommitStep ==
  ASSUME TypeOK, NEW m \in net, Commits(m)
  PROVE  /\ m.body \in Bodies /\ m.body \notin appends /\ ~EventTooLarge(m.body)
         /\ holder = m.body.lease /\ m.body.after = Len(log)
         /\ m.body.item # NoItem => items[m.body.item] = "pending"
         /\ log' = log \o m.body.evs /\ appends' = appends \cup {m.body}
         /\ items' = [i \in Items |-> IF i = m.body.item THEN "consumed" ELSE items[i]]
         /\ holder' = holder /\ net' \subseteq net /\ UNCHANGED engineVars
         /\ Bodies' \subseteq Bodies
<1>1. /\ ~EventTooLarge(m.body) /\ m.body \notin appends /\ holder = m.body.lease
      /\ m.body.after = Len(log)
      /\ m.body.item # NoItem => items[m.body.item] = "pending"
  BY DEF Commits, AppendCode
<1>2. /\ log' = log \o m.body.evs /\ appends' = appends \cup {m.body}
      /\ items' = [i \in Items |-> IF i = m.body.item THEN "consumed" ELSE items[i]]
      /\ holder' = holder /\ net' \subseteq net /\ UNCHANGED engineVars
  BY DEF Commits, Deliver, HandleAppend
<1>3. m.body \in Bodies
  BY DEF Bodies
<1>4. Bodies' \subseteq Bodies
  BY <1>2, <1>3 DEF Bodies
<1> QED  BY <1>1, <1>2, <1>3, <1>4

LEMMA SendSteps ==
  ASSUME TypeOK, Shape, TypeOK', Shape', [Next]_vars
  PROVE  Bodies' \subseteq Bodies \/ \E e \in Engines : Sends(e)
<1>1. CASE appends' = appends /\ net' \subseteq net
  BY <1>1 DEF Bodies
<1>2. ASSUME NEW e \in Engines, EngineStep(e)
      PROVE  (appends' = appends /\ net' \subseteq net) \/ Sends(e)
  <2>1. CASE Retry(e)
    <3>1. /\ net' = net \cup {[body |-> BodyOf(e, inFlight[e]), attempt |-> attempt[e] + 1]}
          /\ UNCHANGED <<outcome, storeVars, inFlight, phase, acked>> /\ wire[e] = "backoff"
      BY <2>1 DEF Retry, engineVars
    <3>2. Bodies' \subseteq Bodies \cup {BodyOf(e, inFlight[e])}
      BY <3>1 DEF Bodies, storeVars
    <3>3. BodyOf(e, inFlight[e])' = BodyOf(e, inFlight[e])
      BY <3>1 DEF BodyOf
    <3>4. phase[e] = "open" /\ inFlight[e] # <<>>
      BY <3>1 DEF Shape, CallTracksFlight
    <3> QED  BY <3>1, <3>2, <3>3, <3>4 DEF Sends
  <2>2. CASE DrainStep(e) /\ net' # net
    <3>1. PICK n : n = CutOf(queue[e])
      OBVIOUS
    <3> DEFINE batch == SubSeq(queue[e], 1, n)
    <3>2. /\ inFlight' = [inFlight EXCEPT ![e] = batch]
          /\ net' = net \cup {[body |-> BodyOf(e, batch), attempt |-> 1]}
          /\ UNCHANGED <<outcome, storeVars, phase, acked>> /\ draining[e] = "loop"
          /\ queue[e] # <<>>
      BY <2>2, <3>1 DEF DrainStep, callVars
    <3>3. batch # <<>>
      BY <3>1, <3>2, CutFacts
    <3> HIDE DEF batch
    <3>4. inFlight'[e] = batch /\ phase[e] = "open"
      BY <3>2 DEF TypeOK, Shape, CallTracksFlight
    <3>5. BodyOf(e, inFlight[e])' = BodyOf(e, batch)
      BY <3>2, <3>4 DEF BodyOf
    <3>6. Bodies' \subseteq Bodies \cup {BodyOf(e, batch)}
      BY <3>2 DEF Bodies, storeVars
    <3> QED  BY <3>2, <3>3, <3>4, <3>5, <3>6 DEF Sends
  <2>3. CASE DrainStep(e) /\ net' = net
    BY <2>3 DEF DrainStep, storeVars
  <2> QED  BY <1>2, <2>1, <2>2, <2>3
           DEF EngineStep, OnAnswer, Adopt, GrantLease, Open, Kick, Unwound, Timeout, OnAck,
               OnRefusal, OnBusy, OnFatal, LoseLease, Close, Crash, Gone, storeVars, callVars
<1>3. ASSUME NEW e \in Engines, Calls(e) PROVE appends' = appends /\ net' \subseteq net
  BY <1>3 DEF Calls, Write, Consume, storeVars, callVars
<1>4. ASSUME NEW m \in net, Deliver(m) \/ DeliverBusy(m) PROVE Bodies' \subseteq Bodies
  <2>1. CASE Commits(m)
    BY <2>1, CommitStep
  <2>2. CASE Deliver(m) /\ ~Commits(m)
    <3>1. HandleAppend(m.body) /\ AppendCode(m.body) # "commit" /\ net' = net \ {m}
      BY <2>2 DEF Deliver, Commits
    <3>2. appends' = appends /\ net' \subseteq net
      BY <3>1 DEF HandleAppend, storeVars
    <3> QED  BY <3>2 DEF Bodies
  <2>3. CASE DeliverBusy(m)
    <3>1. appends' = appends /\ net' \subseteq net
      BY <2>3 DEF DeliverBusy, storeVars
    <3> QED  BY <3>1 DEF Bodies
  <2> QED  BY <1>4, <2>1, <2>2, <2>3
<1>5. CASE StoreStep \/ UNCHANGED vars
  BY <1>1, <1>5 DEF StoreStep, LapseLease, WithdrawItem, vars, storeVars, callVars
<1> QED  BY <1>1, <1>2, <1>3, <1>4, <1>5 DEF Next

\* The lease goes to a new incarnation, or lapses, or stays.
LEMMA HolderSteps ==
  ASSUME TypeOK, [Next]_vars
  PROVE  /\ holder' = holder \/ holder' = NoEngine
              \/ \E e \in Engines : Adopt(e)
         /\ \A f \in Engines : phase'[f] = "new" => phase[f] = "new"
<1>1. ASSUME UNCHANGED phase, holder' = holder \/ holder' = NoEngine
      PROVE  /\ holder' = holder \/ holder' = NoEngine
             /\ \A f \in Engines : phase'[f] = "new" => phase[f] = "new"
  BY <1>1
<1>2. ASSUME NEW e \in Engines, EngineStep(e)
      PROVE  /\ holder' = holder \/ holder' = NoEngine \/ Adopt(e)
             /\ \A f \in Engines : phase'[f] = "new" => phase[f] = "new"
  <2>1. CASE Adopt(e) \/ Open(e) \/ Close(e) \/ Crash(e)
    BY <2>1 DEF Adopt, Open, Close, Crash, Gone, storeVars, TypeOK
  <2> QED  BY <1>1, <1>2, <2>1
           DEF EngineStep, OnAnswer, Kick, Unwound, Timeout, OnAck, DrainStep, Retry, engineVars,
               OnRefusal, OnBusy, OnFatal, LoseLease, storeVars
<1>3. ASSUME NEW e \in Engines, Calls(e) PROVE UNCHANGED <<phase, holder>>
  BY <1>3 DEF Calls, Write, Consume, storeVars
<1>4. ASSUME NEW m \in net, Deliver(m) \/ DeliverBusy(m) PROVE UNCHANGED <<phase, holder>>
  BY <1>4 DEF Deliver, DeliverBusy, HandleAppend, storeVars, engineVars
<1>5. CASE StoreStep
  BY <1>5 DEF StoreStep, LapseLease, WithdrawItem, engineVars
<1>6. CASE UNCHANGED vars
  BY <1>6 DEF vars, storeVars, engineVars
<1> QED  BY <1>2, <1>3, <1>4, <1>5, <1>6 DEF Next

\* What an open engine has read of the log grows by what it is acknowledged.
LEMMA ReadSteps ==
  ASSUME TypeOK, [Next]_vars, NEW f \in Engines, phase'[f] = "open"
  PROVE  \/ phase[f] = "open" /\ acked'[f] = acked[f] /\ stored'[f] = stored[f]
         \/ Open(f)
         \/ OnAck(f)
<1>1. ASSUME NEW e \in Engines, EngineStep(e)
      PROVE  \/ phase[f] = "open" /\ acked'[f] = acked[f] /\ stored'[f] = stored[f]
             \/ Open(f)
             \/ OnAck(f)
  <2>1. CASE Adopt(e)
    BY <2>1 DEF Adopt, TypeOK
  <2>2. CASE Open(e) \/ OnAck(e)
    BY <2>2, ZenonT(40) DEF Open, OnAck, TypeOK
  <2>3. CASE Close(e) \/ Crash(e)
    BY <2>3 DEF Close, Crash, Gone, TypeOK
  <2> QED  BY <1>1, <2>1, <2>2, <2>3
           DEF EngineStep, OnAnswer, Kick, Unwound, Timeout, DrainStep, Retry, engineVars,
               OnRefusal, OnBusy, OnFatal, LoseLease
<1>2. ASSUME NEW e \in Engines, Calls(e) PROVE UNCHANGED <<phase, acked, stored>>
  BY <1>2 DEF Calls, Write, Consume
<1>3. ASSUME NEW m \in net, Deliver(m) \/ DeliverBusy(m) PROVE UNCHANGED <<phase, acked, stored>>
  BY <1>3 DEF Deliver, DeliverBusy, engineVars
<1>4. CASE StoreStep \/ UNCHANGED vars
  BY <1>4 DEF StoreStep, engineVars, vars
<1> QED  BY <1>1, <1>2, <1>3, <1>4 DEF Next

\* A refusal that was not read yet was there before, or is the store's answer to the batch
\* in flight.
LEMMA AnswerSteps ==
  ASSUME TypeOK, Shape, [Next]_vars, NEW f \in Engines,
         answer'[f].code \in {"event_too_large", "not_pending"}
  PROVE  \/ /\ answer'[f] = answer[f] /\ inFlight'[f] = inFlight[f] /\ acked'[f] = acked[f]
         \/ \E m \in net : /\ Deliver(m) /\ m.body = BodyOf(f, inFlight[f])
                           /\ answer'[f].code = AppendCode(m.body)
<1> DEFINE Same == answer'[f] = answer[f] /\ inFlight'[f] = inFlight[f] /\ acked'[f] = acked[f]
<1>1. CASE UNCHANGED vars
  BY <1>1 DEF vars, callVars, engineVars
<1>2. ASSUME NEW e \in Engines, EngineStep(e) PROVE Same
  <2>1. answer'[f] # NoAnswer
    BY DEF NoAnswer
  <2>2. CASE f # e
    <3>1. CASE Adopt(e) \/ Open(e) \/ Kick(e) \/ Unwound(e) \/ Retry(e) \/ LoseLease(e)
      BY <2>2, <3>1
      DEF Adopt, Open, Kick, Unwound, Retry, LoseLease, callVars, engineVars, TypeOK
    <3>2. CASE DrainStep(e)
      BY <2>2, <3>2 DEF DrainStep, Stop, callVars, TypeOK
    <3>3. CASE Timeout(e) \/ OnBusy(e) \/ OnFatal(e)
      BY <2>2, <3>3 DEF Timeout, OnBusy, OnFatal, RetryOrThrow, Stop, HangUp, TypeOK
    <3>4. CASE OnAck(e) \/ OnRefusal(e) \/ Close(e) \/ Crash(e)
      BY <2>2, <3>4 DEF OnAck, OnRefusal, Close, Crash, Gone, HangUp, TypeOK
    <3> QED  BY <1>2, <3>1, <3>2, <3>3, <3>4 DEF EngineStep, OnAnswer
  <2>3. CASE f = e
    <3>1. CASE Adopt(e) \/ Open(e) \/ Kick(e) \/ Unwound(e) \/ Retry(e) \/ LoseLease(e)
      <4>1. answer'[f] = answer[f] /\ inFlight'[f] = inFlight[f]
        BY <3>1 DEF Adopt, Open, Kick, Unwound, Retry, LoseLease, callVars, engineVars
      <4>2. phase[e] = "open"
        BY <2>1, <2>3, <4>1, CallFacts
      <4>3. acked'[f] = acked[f]
        BY <2>3, <3>1, <4>2 DEF Adopt, Open, Kick, Unwound, Retry, LoseLease, engineVars
      <4> QED  BY <4>1, <4>3
    <3>2. CASE DrainStep(e)
      <4>1. UNCHANGED <<answer, acked>> /\ draining[e] = "loop"
        BY <3>2 DEF DrainStep, callVars
      <4>2. wire[e] = "sent" /\ inFlight[e] = <<>>
        BY <2>1, <2>3, <4>1, CallFacts DEF Shape, CallTracksFlight
      <4> QED  BY <4>2 DEF Shape, CallTracksFlight
    <3>3. CASE Timeout(e) \/ OnBusy(e) \/ OnFatal(e)
      <4>1. answer' = [answer EXCEPT ![e] = NoAnswer]
        BY <3>3 DEF Timeout, OnBusy, OnFatal, RetryOrThrow, HangUp
      <4> QED  BY <2>1, <2>3, <4>1 DEF TypeOK
    <3>4. CASE OnAck(e) \/ OnRefusal(e) \/ Close(e) \/ Crash(e)
      <4>1. answer' = [answer EXCEPT ![e] = NoAnswer]
        BY <3>4 DEF OnAck, OnRefusal, Close, Crash, Gone, HangUp
      <4> QED  BY <2>1, <2>3, <4>1 DEF TypeOK
    <3> QED  BY <1>2, <3>1, <3>2, <3>3, <3>4 DEF EngineStep, OnAnswer
  <2> QED  BY <2>2, <2>3
<1>3. ASSUME NEW e \in Engines, Calls(e) PROVE Same
  BY <1>3 DEF Calls, Write, Consume, callVars
<1>4. ASSUME NEW m \in net, Deliver(m)
      PROVE  \/ Same
             \/ m.body = BodyOf(f, inFlight[f]) /\ answer'[f].code = AppendCode(m.body)
  <2>1. inFlight' = inFlight /\ acked' = acked
    BY <1>4 DEF Deliver, engineVars
  <2>2. PICK code : code = AppendCode(m.body)
    OBVIOUS
  <2>3. Answered(m, code)
    BY <1>4, <2>2 DEF Deliver
  <2>4. ASSUME answer'[f] # answer[f]
        PROVE  m.body = BodyOf(f, inFlight[f]) /\ answer'[f].code = code
    <3>1. /\ m.body = BodyOf(f, inFlight[f])
          /\ answer'[f] = [code |-> code, first |-> FirstSeq(m.body), last |-> LastSeq(m.body)]
      BY <2>3, <2>4, AnsweredFacts
    <3> QED  BY <3>1
  <2> QED  BY <2>1, <2>2, <2>4
<1>5. ASSUME NEW m \in net, DeliverBusy(m) PROVE Same
  <2>1. inFlight' = inFlight /\ acked' = acked
    BY <1>5 DEF DeliverBusy, engineVars
  <2>2. Answered(m, "busy")
    BY <1>5 DEF DeliverBusy
  <2>3. ASSUME answer'[f] # answer[f] PROVE answer'[f].code = "busy"
    <3>1. answer'[f] = [code |-> "busy", first |-> FirstSeq(m.body), last |-> LastSeq(m.body)]
      BY <2>2, <2>3, AnsweredFacts
    <3> QED  BY <3>1
  <2> QED  BY <2>1, <2>3
<1>6. CASE StoreStep
  BY <1>6 DEF StoreStep, callVars, engineVars
<1> QED  BY <1>1, <1>2, <1>3, <1>4, <1>5, <1>6 DEF Next

-----------------------------------------------------------------------------
(* What was told of the bodies sent.                                       *)

\* The events of a body, and those before them, have their promises.
LEMMA BodyPromises ==
  ASSUME TypeOK, Shape, Once, NEW b \in Bodies, b.evs # <<>>
  PROVE  /\ b.lease \in Engines /\ 1 \in DOMAIN b.evs /\ b.evs[1].n \in Nat
         /\ \A k \in DOMAIN b.evs : b.evs[k].n \in DOMAIN outcome[b.lease]
         /\ \A m \in 1..(b.evs[1].n - 1) : m \in DOMAIN outcome[b.lease]
<1>1. /\ b.lease \in Engines /\ b.evs \in Seq(Event)
      /\ DOMAIN b.evs = 1..Len(b.evs) /\ Len(b.evs) \in Nat
  BY BodyTypes DEF Body
<1>2. 1 \in DOMAIN b.evs
  BY <1>1
<1>3. ASSUME NEW k \in DOMAIN b.evs
      PROVE  b.evs[k].n \in Nat \ {0} /\ b.evs[k].n <= Len(outcome[b.lease])
  <2>1. b.evs[k] \in Event /\ b.evs[k].n <= Taken(b.lease)
    BY <1>1 DEF Once, BodyShape
  <2>2. b.evs[k].n \in Nat \ {0}
    BY <2>1 DEF Event
  <2>3. /\ Len(outcome[b.lease]) = Taken(b.lease) + Len(queue[b.lease])
        /\ Taken(b.lease) \in Nat /\ Len(queue[b.lease]) \in Nat
    BY <1>1, Counts
  <2> HIDE DEF Taken
  <2> QED  BY <2>1, <2>2, <2>3
<1>4. DOMAIN outcome[b.lease] = 1..Len(outcome[b.lease]) /\ Len(outcome[b.lease]) \in Nat
  BY <1>1, Counts
<1>5. \A k \in DOMAIN b.evs : b.evs[k].n \in DOMAIN outcome[b.lease]
  BY <1>3, <1>4
<1>6. \A m \in 1..(b.evs[1].n - 1) : m \in DOMAIN outcome[b.lease]
  <2>1. b.evs[1].n \in Nat /\ b.evs[1].n <= Len(outcome[b.lease])
    BY <1>2, <1>3
  <2> QED  BY <1>4, <2>1
<1> QED  BY <1>1, <1>2, <1>3, <1>5, <1>6

\* What was told of a body stays told.
LEMMA ToldStays ==
  ASSUME TypeOK, Shape, Once, Stand, NEW b \in Bodies, ToldOf(b),
         b \in appends' => ~EventTooLarge(b), Withdrawn(b) => Withdrawn(b)',
         \A k \in DOMAIN b.evs :
           \/ outcome'[b.lease][b.evs[k].n] = outcome[b.lease][b.evs[k].n]
           \/ outcome'[b.lease][b.evs[k].n].st \notin {"refused", "withdrawn"}
           \/ outcome'[b.lease][b.evs[k].n].st = "refused" /\ EventTooLarge(b)
           \/ outcome'[b.lease][b.evs[k].n].st = "withdrawn" /\ Withdrawn(b)
  PROVE  ToldOf(b)'
<1>1. /\ b.lease \in Engines /\ b.evs # <<>>
      /\ \A k \in DOMAIN b.evs : b.evs[k].n \in DOMAIN outcome[b.lease]
      /\ \A m \in 1..(b.evs[1].n - 1) : m \in DOMAIN outcome[b.lease]
  BY BodyPromises DEF ToldOf
<1>2. ASSUME NEW m \in 1..(b.evs[1].n - 1) PROVE outcome'[b.lease][m].st \in Sorted
  <2>1. outcome[b.lease][m].st \in Sorted
    BY DEF ToldOf
  <2> QED  BY <1>1, <2>1 DEF Stand, Sorted
<1>3. ASSUME NEW k \in DOMAIN b.evs
      PROVE  /\ outcome'[b.lease][b.evs[k].n].item = b.item
             /\ outcome'[b.lease][b.evs[k].n].st = "refused" => EventTooLarge(b)
             /\ outcome'[b.lease][b.evs[k].n].st = "withdrawn" => Withdrawn(b)'
  <2>1. PICK n : n = b.evs[k].n
    OBVIOUS
  <2>2. outcome'[b.lease][n].item = b.item
    BY <1>1, <2>1 DEF Stand, ToldOf
  <2>3. /\ outcome[b.lease][n].st = "refused" => EventTooLarge(b)
        /\ outcome[b.lease][n].st = "withdrawn" => Withdrawn(b)
    BY <2>1 DEF ToldOf
  <2> QED  BY <2>1, <2>2, <2>3
<1> QED  BY <1>1, <1>2, <1>3 DEF ToldOf, EventTooLarge

\* What was withdrawn stays withdrawn, unless the store takes it in.
LEMMA WithdrawnStays ==
  ASSUME TypeOK, NEW b, b.item \in Items \cup {NoItem}, Quiet, Withdrawn(b)
  PROVE  Withdrawn(b)'
BY DEF Quiet, Withdrawn

\* What a refusal tells is true of the body in flight.
LEMMA RefusalRead ==
  ASSUME TypeOK, Shape, Once, AnswerStands, NEW e \in Engines, OnRefusal(e),
         NEW b \in Bodies, NEW k \in DOMAIN b.evs
  PROVE  \/ outcome'[b.lease][b.evs[k].n] = outcome[b.lease][b.evs[k].n]
         \/ outcome'[b.lease][b.evs[k].n].st = "refused" /\ EventTooLarge(b)
         \/ outcome'[b.lease][b.evs[k].n].st = "withdrawn" /\ Withdrawn(b)
<1>1. PICK st \in {"refused", "withdrawn"} :
        /\ outcome' = [outcome EXCEPT ![e] = Settled(e, inFlight[e], st, 0)]
        /\ st = "refused" => answer[e].code = "event_too_large"
        /\ st = "withdrawn" => answer[e].code = "not_pending"
  BY DEF OnRefusal
<1>2. outcome'[e] = Settled(e, inFlight[e], st, 0)
      /\ \A f \in Engines \ {e} : outcome'[f] = outcome[f]
  BY <1>1 DEF TypeOK
<1>3. b.lease \in Engines
  BY BodyTypes
<1>4. PICK n : n = b.evs[k].n
  OBVIOUS
<1>5. b.lease = e => n \in DOMAIN outcome[e]
  <2>1. b.evs # <<>>
    OBVIOUS
  <2> QED  BY <1>4, <2>1, BodyPromises
<1>6. CASE b.lease = e /\ \E l \in DOMAIN inFlight[e] : inFlight[e][l].ev.n = n
  <2>1. b = BodyOf(e, inFlight[e])
    BY <1>4, <1>6 DEF Once, OneBody
  <2>2. outcome'[e][n].st = st
    <3>1. outcome[e][n] \in Promise
      BY <1>5, <1>6 DEF TypeOK
    <3>2. outcome'[e][n] = [outcome[e][n] EXCEPT !.st = st, !.seq = 0]
      BY <1>2, <1>5, <1>6 DEF Settled
    <3> QED  BY <3>1, <3>2 DEF Promise
  <2>3. st = "refused" => EventTooLarge(b)
    BY <1>1, <2>1 DEF AnswerStands
  <2>4. st = "withdrawn" => Withdrawn(b)
    BY <1>1, <2>1 DEF AnswerStands
  <2> QED  BY <1>4, <1>6, <2>2, <2>3, <2>4
<1>7. CASE b.lease = e /\ ~\E l \in DOMAIN inFlight[e] : inFlight[e][l].ev.n = n
  <2>1. outcome'[e][n] = outcome[e][n]
    BY <1>2, <1>5, <1>7 DEF Settled
  <2> QED  BY <1>4, <1>7, <2>1
<1>8. CASE b.lease # e
  BY <1>2, <1>3, <1>8
<1> QED  BY <1>6, <1>7, <1>8

\* A body that goes out for the first time: nothing before it is open, and nothing in it
\* was told anything.
LEMMA SentIsTold ==
  ASSUME TypeOK, Shape, Once, TypeOK', Shape', Writers', Told, NEW e \in Engines, Sends(e),
         NEW B, B = BodyOf(e, inFlight[e])'
  PROVE  ToldOf(B)'
<1>1. /\ B.lease = e /\ B.item = inFlight'[e][1].item
      /\ B.evs = [k \in DOMAIN inFlight'[e] |-> inFlight'[e][k].ev]
  BY DEF BodyOf
<1>2. /\ inFlight'[e] # <<>> /\ phase'[e] = "open" /\ appends' = appends
  BY DEF Sends, storeVars
<1>3. /\ DOMAIN inFlight'[e] = 1..Len(inFlight'[e]) /\ Len(inFlight'[e]) \in Nat
      /\ Done(e)' \in Nat /\ Taken(e)' = Done(e)' + Len(inFlight'[e])
      /\ Len(outcome'[e]) = Taken(e)' + Len(queue'[e]) /\ Len(queue'[e]) \in Nat
      /\ DOMAIN outcome'[e] = 1..Len(outcome'[e])
      /\ \A k \in DOMAIN inFlight'[e] : inFlight'[e][k].ev.n = Done(e)' + k
      /\ inFlight'[e] \in Seq(Queued)
  BY CountsPrime
<1>4. 1 \in DOMAIN inFlight'[e]
  BY <1>2, <1>3
<1>5. B.evs # <<>> /\ DOMAIN B.evs = DOMAIN inFlight'[e]
  BY <1>1, <1>4
<1>6. \A k \in DOMAIN B.evs : B.evs[k].n = Done(e)' + k
  BY <1>1, <1>3
<1>7. /\ \A n \in DOMAIN outcome'[e] : n > Done(e)' => outcome'[e][n].st = "pending"
      /\ \A n \in DOMAIN outcome'[e] : n <= Done(e)' => outcome'[e][n].st \in Sorted
  BY <1>2 DEF Writers, EngineOK, SettledInOrder
<1>8. B \in appends' => ~EventTooLarge(B)
  BY <1>2 DEF Told, ToldOf, Bodies
<1>9. PICK d \in Nat : d = Done(e)'
  BY <1>3
<1>10. ASSUME NEW m \in 1..(B.evs[1].n - 1) PROVE outcome'[e][m].st \in Sorted
  <2>1. B.evs[1].n = d + 1
    BY <1>4, <1>5, <1>6, <1>9
  <2>2. Len(outcome'[e]) \in Nat /\ d <= Len(outcome'[e])
    BY <1>3, <1>9
  <2>3. m \in 1..Len(outcome'[e]) /\ m <= d
    BY <2>1, <2>2
  <2> QED  BY <1>3, <1>7, <1>9, <2>3
<1>11. ASSUME NEW k \in DOMAIN B.evs
       PROVE  /\ outcome'[e][B.evs[k].n].item = B.item
              /\ outcome'[e][B.evs[k].n].st = "pending"
  <2>1. outcome'[e][B.evs[k].n].item = B.item
    BY <1>1, <1>5 DEF Writers, EngineOK, FlightOfOneItem, ItemOf
  <2>2. B.evs[k].n \in DOMAIN outcome'[e] /\ B.evs[k].n > d
    <3>1. B.evs[k].n = d + k /\ k \in 1..Len(inFlight'[e])
      BY <1>3, <1>5, <1>6, <1>9
    <3>2. /\ Len(outcome'[e]) = d + Len(inFlight'[e]) + Len(queue'[e])
          /\ Len(inFlight'[e]) \in Nat /\ Len(queue'[e]) \in Nat
      BY <1>3, <1>9
    <3>3. d + k \in 1..Len(outcome'[e]) /\ d + k > d
      BY <3>1, <3>2
    <3> QED  BY <1>3, <3>1, <3>3
  <2> QED  BY <1>7, <1>9, <2>1, <2>2
<1>12. /\ \A m \in 1..(B.evs[1].n - 1) : outcome'[B.lease][m].st \in Sorted
       /\ \A k \in DOMAIN B.evs : /\ outcome'[B.lease][B.evs[k].n].item = B.item
                                  /\ outcome'[B.lease][B.evs[k].n].st = "pending"
  BY <1>1, <1>10, <1>11, ZenonT(40)
<1> QED  BY <1>5, <1>8, <1>12 DEF ToldOf, EventTooLarge

LEMMA ToldNext ==
  ASSUME TypeOK, Shape, Once, TypeOK', Shape', Writers, Writers', Told, AnswerStands,
         [Next]_vars
  PROVE  Told'
<1>1. Stand /\ ((\A e \in Engines : ~OnRefusal(e)) => NoRefusal)
  BY WritersNext
<1>2. \A b \in Bodies : b.item \in Items \cup {NoItem} /\ b.lease \in Engines
  BY BodyTypes DEF Body
<1>3. ASSUME NEW b \in Bodies, NEW k \in DOMAIN b.evs
      PROVE  b.evs[k].n \in DOMAIN outcome[b.lease]
  <2>1. b.evs # <<>>
    OBVIOUS
  <2> QED  BY <2>1, BodyPromises
<1>4. ASSUME NEW m \in net, Commits(m) PROVE Told'
  <2>1. PICK B : B = m.body
    OBVIOUS
  <2>2. /\ ~EventTooLarge(B) /\ appends' = appends \cup {B} /\ Bodies' \subseteq Bodies
        /\ B.item # NoItem => items[B.item] = "pending"
        /\ items' = [i \in Items |-> IF i = B.item THEN "consumed" ELSE items[i]]
        /\ outcome' = outcome
    BY <1>4, <2>1, CommitStep DEF engineVars
  <2> SUFFICES ASSUME NEW b \in Bodies PROVE ToldOf(b)'
    BY <2>2 DEF Told
  <2>3. ToldOf(b)
    BY DEF Told
  <2>4. b \in appends' => ~EventTooLarge(b)
    BY <2>2, <2>3 DEF ToldOf
  <2>5. Withdrawn(b) => Withdrawn(b)'
    BY <1>2, <2>2 DEF Withdrawn
  <2>6. \A k \in DOMAIN b.evs :
          outcome'[b.lease][b.evs[k].n] = outcome[b.lease][b.evs[k].n]
    BY <2>2
  <2> QED  BY <1>1, <2>3, <2>4, <2>5, <2>6, ToldStays
<1>5. ASSUME Quiet, NEW b \in Bodies PROVE ToldOf(b)'
  <2>1. ToldOf(b)
    BY DEF Told
  <2>2. b \in appends' => ~EventTooLarge(b)
    BY <1>5, <2>1 DEF Quiet, ToldOf
  <2>3. Withdrawn(b) => Withdrawn(b)'
    BY <1>2, <1>5, WithdrawnStays
  <2>4. ASSUME NEW k \in DOMAIN b.evs
        PROVE  \/ outcome'[b.lease][b.evs[k].n] = outcome[b.lease][b.evs[k].n]
               \/ outcome'[b.lease][b.evs[k].n].st \notin {"refused", "withdrawn"}
               \/ outcome'[b.lease][b.evs[k].n].st = "refused" /\ EventTooLarge(b)
               \/ outcome'[b.lease][b.evs[k].n].st = "withdrawn" /\ Withdrawn(b)
    <3>1. ASSUME NEW e \in Engines, OnRefusal(e)
          PROVE  \/ outcome'[b.lease][b.evs[k].n] = outcome[b.lease][b.evs[k].n]
                 \/ outcome'[b.lease][b.evs[k].n].st = "refused" /\ EventTooLarge(b)
                 \/ outcome'[b.lease][b.evs[k].n].st = "withdrawn" /\ Withdrawn(b)
      BY <3>1, RefusalRead
    <3>2. ASSUME NoRefusal
          PROVE  \/ outcome'[b.lease][b.evs[k].n] = outcome[b.lease][b.evs[k].n]
                 \/ outcome'[b.lease][b.evs[k].n].st \notin {"refused", "withdrawn"}
      <4>1. PICK n : n = b.evs[k].n
        OBVIOUS
      <4>2. n \in DOMAIN outcome'[b.lease] /\ b.lease \in Engines
        BY <1>1, <1>2, <1>3, <4>1 DEF Stand
      <4>3. outcome'[b.lease][n] = outcome[b.lease][n]
              \/ outcome'[b.lease][n].st \notin {"refused", "withdrawn"}
        BY <3>2, <4>2 DEF NoRefusal
      <4> QED  BY <4>1, <4>3
    <3> QED  BY <1>1, <3>1, <3>2
  <2> QED  BY <1>1, <2>1, <2>2, <2>3, <2>4, ToldStays
<1>6. CASE Quiet
  <2>1. CASE Bodies' \subseteq Bodies
    BY <1>5, <1>6, <2>1 DEF Told
  <2>2. ASSUME NEW e \in Engines, Sends(e) PROVE Told'
    <3>1. PICK B : B = BodyOf(e, inFlight[e])'
      OBVIOUS
    <3>2. ToldOf(B)'
      BY <2>2, <3>1, SentIsTold
    <3>3. Bodies' \subseteq Bodies \cup {B}
      BY <2>2, <3>1 DEF Sends
    <3> QED  BY <1>5, <1>6, <3>2, <3>3 DEF Told
  <2> QED  BY <2>1, <2>2, SendSteps
<1> QED  BY <1>4, <1>6, StoreSteps

-----------------------------------------------------------------------------
(* What lasts in the store.                                                *)

\* A refusal stays true until it is read.
LEMMA AnswerStandsNext ==
  ASSUME TypeOK, Shape, Once, Told, AnswerStands, [Next]_vars
  PROVE  AnswerStands'
<1> SUFFICES ASSUME NEW f \in Engines,
                    answer'[f].code \in {"event_too_large", "not_pending"}
             PROVE  /\ answer'[f].code = "event_too_large" =>
                         EventTooLarge(BodyOf(f, inFlight[f]))'
                    /\ answer'[f].code = "not_pending" =>
                         Withdrawn(BodyOf(f, inFlight[f]))'
  BY DEF AnswerStands
<1>1. CASE answer'[f] = answer[f] /\ inFlight'[f] = inFlight[f] /\ acked'[f] = acked[f]
  <2>1. PICK b : b = BodyOf(f, inFlight[f])
    OBVIOUS
  <2>2. BodyOf(f, inFlight[f])' = b
    BY <1>1, <2>1 DEF BodyOf
  <2>3. /\ answer'[f].code = "event_too_large" => EventTooLarge(b)
        /\ answer'[f].code = "not_pending" => Withdrawn(b)
    BY <1>1, <2>1 DEF AnswerStands
  <2>4. Withdrawn(b) => Withdrawn(b)'
    <3>1. CASE Quiet
      <4>1. b.item \in Items \cup {NoItem}
        <5>1. answer[f] # NoAnswer
          BY <1>1 DEF NoAnswer
        <5>2. inFlight[f] \in Seq(Queued) /\ inFlight[f] # <<>>
          BY <5>1, CallFacts
        <5>3. inFlight[f][1] \in Queued
          BY <5>2
        <5> QED  BY <2>1, <5>3 DEF BodyOf, Queued
      <4> QED  BY <3>1, <4>1, WithdrawnStays
    <3>2. ASSUME NEW m \in net, Commits(m) PROVE Withdrawn(b) => Withdrawn(b)'
      <4>1. /\ appends' = appends \cup {m.body}
            /\ m.body.item # NoItem => items[m.body.item] = "pending"
            /\ items' = [i \in Items |-> IF i = m.body.item THEN "consumed" ELSE items[i]]
        BY <3>2, CommitStep
      <4>2. b.item \in Items \cup {NoItem}
        <5>1. answer[f] # NoAnswer
          BY <1>1 DEF NoAnswer
        <5>2. inFlight[f] \in Seq(Queued) /\ inFlight[f] # <<>>
          BY <5>1, CallFacts
        <5>3. inFlight[f][1] \in Queued
          BY <5>2
        <5> QED  BY <2>1, <5>3 DEF BodyOf, Queued
      <4>3. Withdrawn(b) => b # m.body
        BY <4>1 DEF Withdrawn
      <4> QED  BY <4>1, <4>2, <4>3 DEF Withdrawn
    <3> QED  BY <3>1, <3>2, StoreSteps
  <2> QED  BY <2>2, <2>3, <2>4 DEF EventTooLarge, Withdrawn
<1>2. ASSUME NEW m \in net, Deliver(m), m.body = BodyOf(f, inFlight[f]),
             answer'[f].code = AppendCode(m.body)
      PROVE  /\ answer'[f].code = "event_too_large" =>
                  EventTooLarge(BodyOf(f, inFlight[f]))'
             /\ answer'[f].code = "not_pending" => Withdrawn(BodyOf(f, inFlight[f]))'
  <2>1. PICK b : b = m.body
    OBVIOUS
  <2>2. BodyOf(f, inFlight[f])' = b
    BY <1>2, <2>1 DEF Deliver, BodyOf, engineVars
  <2>3. UNCHANGED <<appends, items>>
    BY <1>2 DEF Deliver, HandleAppend, storeVars
  <2>4. /\ AppendCode(b) = "event_too_large" => EventTooLarge(b)
        /\ AppendCode(b) = "not_pending" => Withdrawn(b)
    BY DEF AppendCode, Withdrawn
  <2>5. Withdrawn(b) => Withdrawn(b)'
    BY <2>3 DEF Withdrawn
  <2> QED  BY <1>2, <2>1, <2>2, <2>4, <2>5 DEF EventTooLarge, Withdrawn
<1> QED  BY <1>1, <1>2, AnswerSteps

LEMMA TakenOnceNext ==
  ASSUME TypeOK, TakenOnce, [Next]_vars
  PROVE  TakenOnce'
<1>1. CASE Quiet
  BY <1>1 DEF Quiet, TakenOnce
<1>2. ASSUME NEW m \in net, Commits(m) PROVE TakenOnce'
  <2>1. PICK B : B = m.body
    OBVIOUS
  <2>2. /\ appends' = appends \cup {B}
        /\ B.item # NoItem => items[B.item] = "pending"
        /\ items' = [i \in Items |-> IF i = B.item THEN "consumed" ELSE items[i]]
        /\ B.item \in Items \cup {NoItem}
    BY <1>2, <2>1, CommitStep, BodyTypes DEF Body
  <2>3. B.item # NoItem => \A b \in appends : b.item # B.item
    <3> SUFFICES ASSUME B.item # NoItem, NEW b \in appends, b.item = B.item PROVE FALSE
      OBVIOUS
    <3>1. B.item \in Items /\ items[B.item] = "consumed"
      BY <2>2 DEF TakenOnce
    <3> QED  BY <2>2, <3>1
  <2>4. \A i \in Items : items'[i] = "consumed" <=> \E b \in appends' : b.item = i
    BY <2>2 DEF TakenOnce
  <2>5. \A b, c \in appends' : b.item = c.item /\ b.item # NoItem => b = c
    BY <2>2, <2>3 DEF TakenOnce
  <2> QED  BY <2>4, <2>5 DEF TakenOnce
<1> QED  BY <1>1, <1>2, StoreSteps

LEMMA FreshNext ==
  ASSUME TypeOK, Shape, TypeOK', Shape', Fresh, [Next]_vars
  PROVE  Fresh'
<1> SUFFICES ASSUME NEW f \in Engines, phase'[f] = "new"
             PROVE  holder' # f /\ \A b \in Bodies' : b.lease # f
  BY DEF Fresh
<1>1. phase[f] = "new" /\ holder # f /\ \A b \in Bodies : b.lease # f
  BY HolderSteps DEF Fresh
<1>2. holder' # f
  <2>1. ASSUME NEW e \in Engines, Adopt(e) PROVE holder' # f
    BY <1>1, <2>1 DEF Adopt, GrantLease, TypeOK
  <2> QED  BY <1>1, <2>1, HolderSteps, StoreAssumption
<1>3. ASSUME NEW e \in Engines, Sends(e) PROVE \A b \in Bodies' : b.lease # f
  <2>1. e # f
    BY <1>3 DEF Sends
  <2>2. BodyOf(e, inFlight[e])'.lease = e
    BY DEF BodyOf
  <2> QED  BY <1>1, <1>3, <2>1, <2>2 DEF Sends
<1> QED  BY <1>1, <1>2, <1>3, SendSteps

\* Who wrote an event of the log, and in which body.
LEMMA Author ==
  ASSUME TypeOK, Shape, Once, NEW i \in DOMAIN log
  PROVE  \E b \in appends : /\ b \in Bodies /\ log[i].eng = b.lease
                            /\ \E k \in DOMAIN b.evs : i = b.after + k /\ log[i] = b.evs[k]
<1>1. PICK b \in appends : \E k \in DOMAIN b.evs : i = b.after + k /\ log[i] = b.evs[k]
  BY DEF Once, LogIsAppends
<1>2. b \in Bodies
  BY DEF Bodies
<1>3. log[i].eng = b.lease
  BY <1>1, <1>2 DEF Once, BodyShape
<1> QED  BY <1>1, <1>2, <1>3

\* The log after a commit.
LEMMA LogGrows ==
  ASSUME TypeOK, Shape, Once, Told, NEW m \in net, Commits(m), NEW B, B = m.body
  PROVE  /\ log \in Seq(Event) /\ Len(log) \in Nat /\ DOMAIN log = 1..Len(log)
         /\ B \in Bodies /\ B.lease = holder /\ holder \in Engines /\ B.evs \in Seq(Event)
         /\ Len(B.evs) \in Nat /\ DOMAIN B.evs = 1..Len(B.evs) /\ Len(B.evs) >= 1
         /\ DOMAIN log' = 1..(Len(log) + Len(B.evs)) /\ Len(log') = Len(log) + Len(B.evs)
         /\ \A i \in 1..Len(log) : log'[i] = log[i]
         /\ \A k \in 1..Len(B.evs) : log'[Len(log) + k] = B.evs[k]
         /\ \A k \in DOMAIN B.evs : B.evs[k].eng = B.lease
<1>1. /\ B \in Bodies /\ holder = B.lease /\ log' = log \o B.evs
  BY CommitStep
<1>2. log \in Seq(Event) /\ B.evs \in Seq(Event) /\ B.lease \in Engines
  BY <1>1, BodyTypes DEF TypeOK, StoreTypeOK, Body
<1>3. B.evs # <<>>
  BY <1>1 DEF Told, ToldOf
<1>4. \A k \in DOMAIN B.evs : B.evs[k].eng = B.lease
  BY <1>1 DEF Once, BodyShape
<1>5. /\ Len(log) \in Nat /\ DOMAIN log = 1..Len(log) /\ Len(B.evs) \in Nat
      /\ DOMAIN B.evs = 1..Len(B.evs) /\ Len(B.evs) >= 1
  BY <1>2, <1>3, SeqAt
<1>6. /\ Len(log \o B.evs) = Len(log) + Len(B.evs)
      /\ DOMAIN (log \o B.evs) = 1..(Len(log) + Len(B.evs))
      /\ \A k \in 1..Len(log) : (log \o B.evs)[k] = log[k]
      /\ \A k \in 1..Len(B.evs) : (log \o B.evs)[Len(log) + k] = B.evs[k]
  BY <1>2, ConcatAt
<1> QED  BY <1>1, <1>2, <1>4, <1>5, <1>6

LEMMA AtEndNext ==
  ASSUME TypeOK, Shape, Once, Told, Fresh, AtEnd, [Next]_vars
  PROVE  AtEnd'
<1>1. ASSUME NEW m \in net, Commits(m) PROVE AtEnd'
  <2>1. PICK B : B = m.body
    OBVIOUS
  <2>2. /\ holder' = holder /\ B.lease = holder
        /\ Len(B.evs) \in Nat /\ DOMAIN B.evs = 1..Len(B.evs) /\ Len(B.evs) >= 1
        /\ Len(log') = Len(log) + Len(B.evs)
        /\ \A k \in 1..Len(B.evs) : log'[Len(log) + k] = B.evs[k]
        /\ \A k \in DOMAIN B.evs : B.evs[k].eng = B.lease
    BY <1>1, <2>1, LogGrows, CommitStep, ZenonT(40)
  <2>3. log'[Len(log')].eng = holder'
    BY <2>2
  <2> QED  BY <2>3 DEF AtEnd
<1>2. CASE Quiet
  <2> SUFFICES ASSUME NEW i \in DOMAIN log, log[i].eng = holder'
               PROVE  log[Len(log)].eng = holder'
    BY <1>2 DEF AtEnd, Quiet
  <2>1. PICK b \in Bodies : log[i].eng = b.lease
    BY Author
  <2>2. b.lease \in Engines
    BY BodyTypes
  <2>3. CASE holder' = holder
    BY <2>3 DEF AtEnd
  <2>4. ASSUME NEW e \in Engines, Adopt(e) PROVE FALSE
    BY <2>1, <2>4 DEF Adopt, GrantLease, Fresh
  <2> QED  BY <2>1, <2>2, <2>3, <2>4, HolderSteps, StoreAssumption
<1> QED  BY <1>1, <1>2, StoreSteps

\* A prefix of a sequence that grows.
LEMMA PrefixKept ==
  ASSUME NEW S, NEW s \in Seq(S), NEW t \in Seq(S), NEW n \in 0..Len(s)
  PROVE  SubSeq(s \o t, 1, n) = SubSeq(s, 1, n)
OBVIOUS

\* A prefix and what follows it.
LEMMA PrefixGrows ==
  ASSUME NEW S, NEW s \in Seq(S), NEW t \in Seq(S), NEW n \in Nat,
         n + Len(t) <= Len(s), \A k \in DOMAIN t : s[n + k] = t[k]
  PROVE  SubSeq(s, 1, n) \o t = SubSeq(s, 1, n + Len(t))
<1> DEFINE p == SubSeq(s, 1, n)
           r == SubSeq(s, 1, n + Len(t))
<1>1. p \in Seq(S) /\ Len(p) = n /\ \A k \in 1..n : p[k] = s[k]
  OBVIOUS
<1>2. r \in Seq(S) /\ Len(r) = n + Len(t) /\ \A k \in 1..(n + Len(t)) : r[k] = s[k]
  OBVIOUS
<1> HIDE DEF p, r
<1>3. /\ p \o t \in Seq(S) /\ Len(p \o t) = n + Len(t)
      /\ DOMAIN (p \o t) = 1..(n + Len(t))
      /\ \A k \in 1..n : (p \o t)[k] = p[k]
      /\ \A k \in 1..Len(t) : (p \o t)[n + k] = t[k]
  <2>1. /\ p \o t \in Seq(S) /\ Len(p \o t) = Len(p) + Len(t)
        /\ DOMAIN (p \o t) = 1..(Len(p) + Len(t))
        /\ \A k \in 1..Len(p) : (p \o t)[k] = p[k]
        /\ \A k \in 1..Len(t) : (p \o t)[Len(p) + k] = t[k]
    <3>1. p \in Seq(S) /\ t \in Seq(S)
      BY <1>1
    <3> QED  BY <3>1, ConcatAt
  <2> QED  BY <1>1, <2>1
<1>4. ASSUME NEW k \in 1..(n + Len(t)) PROVE (p \o t)[k] = r[k]
  <2>1. CASE k \in 1..n
    BY <1>1, <1>2, <1>3, <1>4, <2>1
  <2>2. CASE k \notin 1..n
    <3>1. PICK j \in 1..Len(t) : k = n + j
      <4>1. k - n \in 1..Len(t) /\ k = n + (k - n)
        BY <2>2
      <4> QED  BY <4>1
    <3>2. j \in DOMAIN t
      OBVIOUS
    <3> QED  BY <1>2, <1>3, <3>1, <3>2
  <2> QED  BY <2>1, <2>2
<1>5. p \o t = r
  BY <1>2, <1>3, <1>4
<1> QED  BY <1>5 DEF p, r

\* What an open engine has read is in the log, and stays there.
LEMMA ReadNext ==
  ASSUME TypeOK, Shape, Once, Told, AckedWithin, StoredIsLogPrefix, [Next]_vars
  PROVE  AckedWithin' /\ StoredIsLogPrefix'
<1> SUFFICES ASSUME NEW f \in Engines, phase'[f] = "open"
             PROVE  acked'[f] <= Len(log') /\ stored'[f] = SubSeq(log', 1, acked'[f])
  BY DEF AckedWithin, StoredIsLogPrefix
<1>1. log \in Seq(Event) /\ Len(log) \in Nat /\ acked[f] \in Nat
  BY DEF TypeOK, StoreTypeOK
<1>2. CASE phase[f] = "open" /\ acked'[f] = acked[f] /\ stored'[f] = stored[f]
  <2>1. acked[f] <= Len(log) /\ stored[f] = SubSeq(log, 1, acked[f])
    BY <1>2 DEF AckedWithin, StoredIsLogPrefix
  <2>2. CASE Quiet
    BY <1>2, <2>1, <2>2 DEF Quiet
  <2>3. ASSUME NEW m \in net, Commits(m)
        PROVE  acked'[f] <= Len(log') /\ stored'[f] = SubSeq(log', 1, acked'[f])
    <3>1. PICK B : B = m.body
      OBVIOUS
    <3>2. /\ B.evs \in Seq(Event) /\ Len(B.evs) \in Nat /\ Len(log') = Len(log) + Len(B.evs)
          /\ log' = log \o B.evs
      BY <2>3, <3>1, LogGrows, CommitStep
    <3>3. SubSeq(log \o B.evs, 1, acked[f]) = SubSeq(log, 1, acked[f])
      BY <1>1, <2>1, <3>2, PrefixKept
    <3>4. acked[f] <= Len(log) + Len(B.evs)
      BY <1>1, <2>1, <3>2
    <3> QED  BY <1>2, <2>1, <3>2, <3>3, <3>4
  <2> QED  BY <2>2, <2>3, StoreSteps
<1>3. CASE Open(f)
  <2>1. log' = log /\ stored'[f] = log /\ acked'[f] = Len(log)
    BY <1>3 DEF Open, storeVars, TypeOK
  <2>2. SubSeq(log, 1, Len(log)) = log
    BY <1>1
  <2> QED  BY <1>1, <2>1, <2>2
<1>4. CASE OnAck(f)
  <2>1. Accepted(f) /\ log' = log
    BY <1>4 DEF OnAck, storeVars
  <2>2. PICK b : b = BodyOf(f, inFlight[f])
    OBVIOUS
  <2>3. /\ b \in appends /\ answer[f].last = acked[f] + Len(inFlight[f])
    BY <2>1, <2>2 DEF Once, AnswerIsTrue
  <2>4. inFlight[f] \in Seq(Queued) /\ phase[f] = "open" /\ inFlight[f] # <<>>
    BY <2>1, AcceptedFacts DEF TypeOK
  <2>5. /\ b.after = acked[f] /\ b.evs = [k \in DOMAIN inFlight[f] |-> inFlight[f][k].ev]
        /\ Len(b.evs) = Len(inFlight[f]) /\ b.evs \in Seq(Event)
    BY <2>2, <2>4, BatchEvents DEF BodyOf
  <2>6. /\ acked[f] + Len(b.evs) <= Len(log)
        /\ \A k \in DOMAIN b.evs : log[acked[f] + k] = b.evs[k]
    BY <2>3, <2>5 DEF Once, LogIsAppends
  <2>7. SubSeq(log, 1, acked[f]) \o b.evs = SubSeq(log, 1, acked[f] + Len(b.evs))
    BY <1>1, <2>5, <2>6, PrefixGrows
  <2>8. stored'[f] = stored[f] \o b.evs /\ acked'[f] = acked[f] + Len(b.evs)
    BY <1>4, <2>3, <2>5 DEF OnAck, TypeOK
  <2>9. stored[f] = SubSeq(log, 1, acked[f])
    BY <2>4 DEF StoredIsLogPrefix
  <2> QED  BY <2>1, <2>6, <2>7, <2>8, <2>9
<1> QED  BY <1>2, <1>3, <1>4, ReadSteps

\* What enters the log skips nothing its engine was not told of.
LEMMA NoSilentHoleNext ==
  ASSUME TypeOK, Shape, Once, Told, NoSilentHole, Stand, [Next]_vars
  PROVE  NoSilentHole'
<1> DEFINE Known(i, m) ==
             \/ \E j \in 1..(i - 1) : log'[j].eng = log'[i].eng /\ log'[j].n = m
             \/ outcome'[log'[i].eng][m].st \in {"refused", "withdrawn"}
<1>0. DOMAIN log = 1..Len(log) /\ Len(log) \in Nat
  BY DEF TypeOK, StoreTypeOK
<1>1. ASSUME NEW i \in DOMAIN log, NEW m \in 1..(log[i].n - 1),
             \A j \in DOMAIN log : log'[j] = log[j]
      PROVE  Known(i, m)
  <2>1. PICK b \in Bodies : log[i].eng = b.lease /\ \E k \in DOMAIN b.evs : log[i] = b.evs[k]
    BY Author
  <2>2. b.lease \in Engines /\ log[i].n \in DOMAIN outcome[b.lease]
    <3>1. b.evs # <<>>
      BY <2>1
    <3> QED  BY <2>1, <3>1, BodyPromises
  <2>3. m \in DOMAIN outcome[b.lease]
    <3>1. DOMAIN outcome[b.lease] = 1..Len(outcome[b.lease]) /\ Len(outcome[b.lease]) \in Nat
      BY <2>2, Counts
    <3> QED  BY <2>2, <3>1
  <2>4. CASE \E j \in 1..(i - 1) : log[j].eng = log[i].eng /\ log[j].n = m
    <3>1. PICK j \in 1..(i - 1) : log[j].eng = log[i].eng /\ log[j].n = m
      BY <2>4
    <3>2. j \in DOMAIN log
      BY <1>0
    <3> QED  BY <1>1, <3>1, <3>2
  <2>5. CASE outcome[log[i].eng][m].st \in {"refused", "withdrawn"}
    <3>1. outcome'[b.lease][m] = outcome[b.lease][m]
      BY <2>1, <2>2, <2>3, <2>5 DEF Stand
    <3> QED  BY <1>1, <2>1, <2>5, <3>1
  <2> QED  BY <2>4, <2>5 DEF NoSilentHole
<1>2. CASE Quiet
  BY <1>1, <1>2 DEF Quiet, NoSilentHole
<1>3. ASSUME NEW r \in net, Commits(r) PROVE NoSilentHole'
  <2>1. PICK B : B = r.body
    OBVIOUS
  <2>2. /\ B \in Bodies /\ B.lease \in Engines
        /\ Len(B.evs) \in Nat /\ DOMAIN B.evs = 1..Len(B.evs)
        /\ DOMAIN log' = 1..(Len(log) + Len(B.evs))
        /\ \A i \in 1..Len(log) : log'[i] = log[i]
        /\ \A k \in 1..Len(B.evs) : log'[Len(log) + k] = B.evs[k]
        /\ \A k \in DOMAIN B.evs : B.evs[k].eng = B.lease
        /\ outcome' = outcome
    BY <1>3, <2>1, LogGrows, CommitStep, ZenonT(40) DEF engineVars
  <2>3. ASSUME NEW k \in 1..Len(B.evs), NEW m \in 1..(B.evs[k].n - 1)
        PROVE  Known(Len(log) + k, m)
    <3>1. PICK i : i = Len(log) + k
      OBVIOUS
    <3>2. /\ log'[i].eng = B.lease /\ 1 \in DOMAIN B.evs /\ B.evs[1].n \in Nat
          /\ B.evs[k].n = B.evs[1].n + k - 1 /\ m \in Nat /\ m >= 1
      <4>1. 1 \in DOMAIN B.evs /\ k \in DOMAIN B.evs
        BY <2>2
      <4>2. B.evs[1].n \in Nat /\ B.evs[k].n \in Nat
        BY <2>2, <4>1, BodyTypes
      <4>3. B.evs[k].n = B.evs[1].n + k - 1
        BY <2>2, <4>1 DEF Once, BodyShape
      <4>4. log'[i].eng = B.lease
        BY <2>2, <3>1, <4>1
      <4>5. m \in Nat /\ m >= 1
        BY <4>2
      <4> QED  BY <4>1, <4>2, <4>3, <4>4, <4>5
    <3>3. CASE m < B.evs[1].n
      <4>1. outcome[B.lease][m].st \in Sorted
        BY <2>2, <3>2, <3>3 DEF Told, ToldOf
      <4>2. CASE outcome[B.lease][m].st = "acked"
        <5>1. m \in DOMAIN outcome[B.lease]
          <6>1. B.evs # <<>>
            BY <2>2, <3>2
          <6>2. m \in 1..(B.evs[1].n - 1)
            BY <3>2, <3>3
          <6> QED  BY <2>2, <6>1, <6>2, BodyPromises
        <5>2. PICK j \in DOMAIN log : log[j].eng = B.lease /\ log[j].n = m
          BY <2>2, <4>2, <5>1 DEF Once, AckedIsDurable
        <5>3. j \in 1..(i - 1) /\ j \in 1..Len(log)
          BY <1>0, <3>1
        <5> QED  BY <2>2, <3>1, <3>2, <5>2, <5>3
      <4>3. CASE outcome[B.lease][m].st # "acked"
        BY <2>2, <3>1, <3>2, <4>1, <4>3 DEF Sorted
      <4> QED  BY <4>2, <4>3
    <3>4. CASE m >= B.evs[1].n
      <4>1. PICK l \in 1..Len(B.evs) : l < k /\ m = B.evs[1].n + l - 1
        <5>1. m - B.evs[1].n + 1 \in 1..Len(B.evs) /\ m - B.evs[1].n + 1 < k
          <6>1. /\ Len(B.evs) \in Nat /\ k \in 1..Len(B.evs) /\ m \in Nat
                /\ B.evs[1].n \in Nat /\ m < B.evs[1].n + k - 1
            BY <2>2, <3>2
          <6>2. m - B.evs[1].n + 1 \in Nat /\ m - B.evs[1].n + 1 >= 1
            BY ONLY <3>4, <6>1
          <6>3. m - B.evs[1].n + 1 < k
            BY ONLY <6>1
          <6> QED  BY ONLY <6>1, <6>2, <6>3
        <5>2. m = B.evs[1].n + (m - B.evs[1].n + 1) - 1
          BY <3>2
        <5> QED  BY <5>1, <5>2
      <4>2. B.evs[l].n = m /\ log'[Len(log) + l] = B.evs[l] /\ B.evs[l].eng = B.lease
        BY <2>2, <4>1 DEF Once, BodyShape
      <4>3. Len(log) + l \in 1..(i - 1)
        BY <1>0, <2>2, <3>1, <4>1
      <4> QED  BY <3>1, <3>2, <4>2, <4>3
    <3> QED  BY <2>2, <3>2, <3>3, <3>4
  <2>4. ASSUME NEW i \in DOMAIN log', NEW m \in 1..(log'[i].n - 1) PROVE Known(i, m)
    <3>1. CASE i \in DOMAIN log
      BY <1>0, <1>1, <2>2, <2>4, <3>1
    <3>2. CASE i \notin DOMAIN log
      <4>1. PICK k \in 1..Len(B.evs) : i = Len(log) + k
        <5>1. i - Len(log) \in 1..Len(B.evs) /\ i = Len(log) + (i - Len(log))
          BY <1>0, <2>2, <3>2
        <5> QED  BY <5>1
      <4>2. m \in 1..(B.evs[k].n - 1)
        BY <2>2, <4>1
      <4> HIDE DEF Known
      <4> QED  BY <2>3, <4>1, <4>2
    <3> QED  BY <3>1, <3>2
  <2> QED  BY <2>4 DEF NoSilentHole
<1> QED  BY <1>2, <1>3, StoreSteps

\* A fenced engine's events are never between another's.
LEMMA FencedNext ==
  ASSUME TypeOK, Shape, Once, Told, AtEnd, Fenced, [Next]_vars
  PROVE  Fenced'
<1>1. CASE Quiet
  BY <1>1 DEF Quiet, Fenced
<1>2. ASSUME NEW m \in net, Commits(m) PROVE Fenced'
  <2>1. PICK B : B = m.body
    OBVIOUS
  <2>2. /\ Len(log) \in Nat /\ DOMAIN log = 1..Len(log) /\ B.lease = holder
        /\ Len(B.evs) \in Nat /\ DOMAIN B.evs = 1..Len(B.evs)
        /\ DOMAIN log' = 1..(Len(log) + Len(B.evs))
        /\ \A i \in 1..Len(log) : log'[i] = log[i]
        /\ \A k \in 1..Len(B.evs) : log'[Len(log) + k] = B.evs[k]
        /\ \A k \in DOMAIN B.evs : B.evs[k].eng = B.lease
    BY <1>2, <2>1, LogGrows
  <2>3. ASSUME NEW i \in DOMAIN log', i > Len(log) PROVE log'[i].eng = holder
    <3>1. i - Len(log) \in 1..Len(B.evs) /\ Len(log) + (i - Len(log)) = i
      BY <2>2, <2>3
    <3> QED  BY <2>2, <3>1
  <2> SUFFICES ASSUME NEW i \in DOMAIN log', NEW j \in DOMAIN log', NEW k \in DOMAIN log',
                      i < j, j < k, log'[i].eng = log'[k].eng
               PROVE  log'[j].eng = log'[i].eng
    BY DEF Fenced
  <2>4. CASE k <= Len(log)
    <3>1. i \in DOMAIN log /\ j \in DOMAIN log /\ k \in DOMAIN log
      BY <2>2, <2>4
    <3> QED  BY <2>2, <3>1 DEF Fenced
  <2>5. CASE k > Len(log) /\ j > Len(log)
    BY <2>3, <2>5
  <2>6. CASE k > Len(log) /\ j <= Len(log)
    <3>1. /\ i \in DOMAIN log /\ j \in DOMAIN log /\ Len(log) \in DOMAIN log
          /\ j < Len(log) \/ j = Len(log)
      BY <2>2, <2>6
    <3>2. log[i].eng = holder /\ log'[i] = log[i] /\ log'[j] = log[j]
      BY <2>2, <2>3, <2>6, <3>1
    <3>3. log[Len(log)].eng = holder
      BY <3>1, <3>2 DEF AtEnd
    <3> QED  BY <3>1, <3>2, <3>3 DEF Fenced
  <2> QED  BY <2>2, <2>4, <2>5, <2>6
<1> QED  BY <1>1, <1>2, StoreSteps

-----------------------------------------------------------------------------
(* Theorems.                                                               *)

LEMMA LogNext ==
  TypeOK /\ Shape /\ Once /\ LogInv /\ TypeOK' /\ Shape' /\ [Next]_vars => LogInv'
<1> SUFFICES ASSUME TypeOK, Shape, Once, LogInv, TypeOK', Shape', [Next]_vars PROVE LogInv'
  OBVIOUS
<1>1. /\ Writers /\ Told /\ AnswerStands /\ TakenOnce /\ Fresh /\ AtEnd /\ AckedWithin
      /\ FoldedPlain /\ StoredIsLogPrefix /\ NoSilentHole /\ Fenced
  BY DEF LogInv, Lasting, LogSound
<1>2. Writers' /\ Stand
  BY <1>1, WritersNext
<1>3. Told' /\ AnswerStands' /\ TakenOnce'
  BY <1>1, <1>2, ToldNext, AnswerStandsNext, TakenOnceNext
<1>4. Fresh' /\ AtEnd'
  BY <1>1, FreshNext, AtEndNext
<1>5. AckedWithin' /\ StoredIsLogPrefix'
  BY <1>1, ReadNext
<1>6. NoSilentHole' /\ Fenced'
  BY <1>1, <1>2, NoSilentHoleNext, FencedNext
<1>7. FoldedPlain'
  BY <1>1, FoldedPlainNext
<1> QED  BY <1>2, <1>3, <1>4, <1>5, <1>6, <1>7 DEF LogInv, Lasting, LogSound

\* The whole strengthening holds in every reachable state.
LEMMA LogInvHolds == Spec => [](TypeOK /\ Shape /\ Once /\ LogInv)
<1>1. Init => TypeOK /\ Shape /\ Once /\ LogInv
  BY TypeInit, ShapeInit, OnceInit, LogInit
<1>2. TypeOK /\ Shape /\ Once /\ LogInv /\ [Next]_vars
        => (TypeOK /\ Shape /\ Once /\ LogInv)'
  BY TypeNext, ShapeNext, OnceNext, LogNext
<1> QED  BY <1>1, <1>2, PTL DEF Spec

\* An event in the log was sent in a body whose item its promise has, and its promise was
\* not refused (consume, and SessionStore's append handler).
LEMMA StoredIsAccepted ==
  ASSUME TypeOK, Shape, Once, Told, NEW b \in appends, NEW k \in DOMAIN b.evs
  PROVE  /\ b.after + k \in DOMAIN log /\ log[b.after + k] = b.evs[k]
         /\ Outcome(log[b.after + k]).item = b.item
         /\ Outcome(log[b.after + k]).st \notin {"refused", "withdrawn"}
<1>1. b \in Bodies
  BY DEF Bodies
<1>2. log[b.after + k] = b.evs[k] /\ b.after + Len(b.evs) <= Len(log)
  BY DEF Once, LogIsAppends
<1>3. b.after + k \in DOMAIN log
  <2>1. b.after \in Nat /\ Len(b.evs) \in Nat /\ k \in 1..Len(b.evs)
    BY <1>1, BodyTypes
  <2>2. DOMAIN log = 1..Len(log) /\ Len(log) \in Nat
    BY DEF TypeOK, StoreTypeOK
  <2> QED  BY <1>2, <2>1, <2>2
<1>4. b.evs[k].eng = b.lease
  BY <1>1 DEF Once, BodyShape
<1>5. /\ outcome[b.lease][b.evs[k].n].item = b.item
      /\ outcome[b.lease][b.evs[k].n].st \notin {"refused", "withdrawn"}
  BY <1>1 DEF Told, ToldOf, Withdrawn
<1> QED  BY <1>2, <1>3, <1>4, <1>5 DEF Outcome

LEMMA ConsumedTold ==
  TypeOK /\ Shape /\ Once /\ Told /\ TakenOnce => ConsumedIffOpened
<1> SUFFICES ASSUME TypeOK, Shape, Once, Told, TakenOnce, NEW i \in Items
             PROVE  LET opening == {k \in DOMAIN log : Outcome(log[k]).item = i}
                        taken   == {b \in appends : b.item = i} IN
                    /\ items[i] = "consumed" <=> opening # {}
                    /\ Cardinality(taken) <= 1
                    /\ \A b \in taken : opening = FirstSeq(b)..LastSeq(b)
  BY DEF ConsumedIffOpened
<1> DEFINE opening == {k \in DOMAIN log : Outcome(log[k]).item = i}
           taken   == {b \in appends : b.item = i}
<1>1. \A b, c \in taken : b = c
  BY StoreAssumption DEF TakenOnce
<1>2. ASSUME NEW k \in opening
      PROVE  \E b \in taken : \E l \in DOMAIN b.evs : k = b.after + l
  <2>1. PICK b \in appends : \E l \in DOMAIN b.evs : k = b.after + l
    BY Author
  <2>2. PICK l \in DOMAIN b.evs : k = b.after + l
    BY <2>1
  <2>3. Outcome(log[k]).item = b.item
    BY <2>2, StoredIsAccepted
  <2> QED  BY <2>2, <2>3
<1>3. ASSUME NEW b \in taken, NEW l \in DOMAIN b.evs PROVE b.after + l \in opening
  <2>1. b \in appends /\ b.item = i
    OBVIOUS
  <2> QED  BY <2>1, StoredIsAccepted
<1>4. ASSUME NEW b \in taken
      PROVE  /\ 1 \in DOMAIN b.evs /\ DOMAIN b.evs = 1..Len(b.evs)
             /\ Len(b.evs) \in Nat /\ b.after \in Nat
  <2>1. b \in Bodies
    BY DEF Bodies
  <2>2. /\ DOMAIN b.evs = 1..Len(b.evs) /\ Len(b.evs) \in Nat /\ b.after \in Nat
        /\ b.evs \in Seq(Event)
    BY <2>1, BodyTypes DEF Body
  <2>3. b.evs # <<>>
    BY <2>1 DEF Told, ToldOf
  <2> QED  BY <2>2, <2>3
<1>5. items[i] = "consumed" <=> taken # {}
  BY DEF TakenOnce
<1>6. taken # {} <=> opening # {}
  <2> HIDE DEF taken, opening
  <2> QED  BY <1>2, <1>3, <1>4
<1>7. Cardinality(taken) <= 1
  <2>1. CASE taken = {}
    BY <2>1, FS_EmptySet
  <2>2. CASE taken # {}
    <3>1. PICK b : taken = {b}
      BY <1>1, <2>2
    <3> QED  BY <3>1, FS_Singleton
  <2> QED  BY <2>1, <2>2
<1>8. ASSUME NEW b \in taken PROVE opening = FirstSeq(b)..LastSeq(b)
  <2>1. \A k \in opening : \E l \in DOMAIN b.evs : k = b.after + l
    <3> HIDE DEF taken, opening
    <3> QED  BY <1>1, <1>2, <1>8
  <2>2. \A l \in DOMAIN b.evs : b.after + l \in opening
    BY <1>3, <1>8
  <2>3. DOMAIN b.evs = 1..Len(b.evs) /\ Len(b.evs) \in Nat /\ b.after \in Nat
    BY <1>4
  <2> HIDE DEF taken, opening
  <2>4. opening \subseteq (b.after + 1)..(b.after + Len(b.evs))
    BY <2>1, <2>3
  <2>5. ASSUME NEW k \in (b.after + 1)..(b.after + Len(b.evs)) PROVE k \in opening
    <3>1. k - b.after \in DOMAIN b.evs /\ b.after + (k - b.after) = k
      BY <2>3
    <3> QED  BY <2>2, <3>1
  <2> QED  BY <2>4, <2>5 DEF FirstSeq, LastSeq
<1> QED  BY <1>5, <1>6, <1>7, <1>8

LEMMA ViewTold ==
  TypeOK /\ Shape /\ Once /\ Writers /\ Told /\ FoldedPlain => QuietViewIsLog
<1> SUFFICES ASSUME TypeOK, Shape, Once, Writers, Told, FoldedPlain, NEW e \in Engines,
                    phase[e] = "open", fatal[e] = "none", queue[e] = <<>>,
                    inFlight[e] = <<>>
             PROVE  View(e) = {n \in DOMAIN outcome[e] : InLog(e, n)}
                                \cup {n \in folded[e] : outcome[e][n].st = "refused"}
  BY DEF QuietViewIsLog
<1>1. /\ Done(e) = Len(outcome[e]) /\ DOMAIN outcome[e] = 1..Len(outcome[e])
      /\ Len(outcome[e]) \in Nat
  BY Counts
<1>2. \A n \in DOMAIN outcome[e] : n <= Done(e)
  BY <1>1
<1>3. /\ kept[e] \subseteq DOMAIN outcome[e]
      /\ \A n \in DOMAIN outcome[e] : n \in kept[e] <=> outcome[e][n].st = "acked"
      /\ \A n \in DOMAIN outcome[e] : outcome[e][n].st \in Sorted
  BY <1>2 DEF Writers, EngineOK, Shows, SettledInOrder
<1>4. ASSUME NEW n \in DOMAIN outcome[e], outcome[e][n].st = "acked" PROVE InLog(e, n)
  BY <1>4 DEF Once, AckedIsDurable, InLog
<1>5. ASSUME NEW n \in DOMAIN outcome[e], InLog(e, n) PROVE outcome[e][n].st = "acked"
  <2>1. PICK i \in DOMAIN log : log[i].eng = e /\ log[i].n = n
    BY <1>5 DEF InLog
  <2>2. PICK b \in appends : \E k \in DOMAIN b.evs : i = b.after + k
    BY Author
  <2>3. Outcome(log[i]).st \notin {"refused", "withdrawn"}
    BY <2>2, StoredIsAccepted
  <2> QED  BY <1>3, <2>1, <2>3 DEF Outcome, Sorted
<1>6. kept[e] = {n \in DOMAIN outcome[e] : InLog(e, n)}
  BY <1>3, <1>4, <1>5
<1>7. ASSUME NEW n \in folded[e] PROVE outcome[e][n].st = "refused" \/ n \in kept[e]
  BY <1>3 DEF FoldedPlain, Sorted
<1> QED  BY <1>6, <1>7 DEF View

\* What take-overs keep of the log, for any number of incarnations: an open writer's
\* events() is the log up to its last ack, the log skips no event nobody was told of, and
\* no event of a fenced engine lands between another's (open, onAck, the append handler).
THEOREM TakeOversKeepLog == Spec => []LogSound
<1>1. LogInv => LogSound
  BY DEF LogInv
<1> QED  BY <1>1, LogInvHolds, PTL

\* An inbox item is consumed exactly when the events opened for it are in the log, side by
\* side and alone in their append; and a writer at rest shows its own events of the log,
\* no more and no less (consume, write, onAck).
THEOREM ItemsAndViews == Spec => []OpenedAndShown
<1>1. TypeOK /\ Shape /\ Once /\ LogInv => OpenedAndShown
  BY ConsumedTold, ViewTold DEF LogInv, Lasting, OpenedAndShown
<1> QED  BY <1>1, LogInvHolds, PTL

-----------------------------------------------------------------------------
(* The batcher implements the durable log.                                 *)

\* What DurableLog sees of an event, of a promise, and of the state.
Seen(ev)   == [eng |-> ev.eng, n |-> ev.n]
FateOf(pr) == [st |-> IF pr.st = "withdrawn" THEN "refused" ELSE pr.st, seq |-> pr.seq]
LogSeen    == [i \in DOMAIN log |-> Seen(log[i])]
FateSeen   == [e \in Engines |-> [n \in DOMAIN outcome[e] |-> FateOf(outcome[e][n])]]

LEMMA DurableInit == Init => Durable!Init
<1> SUFFICES ASSUME Init PROVE Durable!Init
  OBVIOUS
<1>1. log = <<>> /\ outcome = [e \in Engines |-> <<>>] /\ holder = NoEngine
  BY DEF Init, StoreInit
<1>2. LogSeen = <<>>
  BY <1>1 DEF LogSeen
<1>3. FateSeen = [e \in Engines |-> <<>>]
  BY <1>1 DEF FateSeen
<1> QED  BY <1>1, <1>2, <1>3 DEF Durable!Init, LogSeen, FateSeen, Seen, FateOf

\* A step that leaves the log, the promises and the holder alone is not seen.
LEMMA Unseen ==
  ASSUME UNCHANGED <<log, outcome, holder>> PROVE UNCHANGED Durable!dvars
BY DEF Durable!dvars

LEMMA SeenTake ==
  ASSUME NEW e \in Engines, Adopt(e) PROVE Durable!Take(e)
BY DEF Adopt, GrantLease, Durable!Take

LEMMA SeenYield ==
  ASSUME holder # NoEngine, holder' = NoEngine, UNCHANGED <<log, outcome>> PROVE Durable!Yield
BY DEF Durable!Yield

\* An engine's promises changed, and no other engine's.
LEMMA FateChanged ==
  ASSUME outcome \in [Engines -> Seq(Promise)], NEW e \in Engines, NEW X,
         outcome' = [outcome EXCEPT ![e] = X]
  PROVE  FateSeen' = [FateSeen EXCEPT ![e] = [n \in DOMAIN X |-> FateOf(X[n])]]
<1> DEFINE seen(f) == [n \in DOMAIN outcome[f] |-> FateOf(outcome[f][n])]
           new == [n \in DOMAIN X |-> FateOf(X[n])]
<1>1. /\ outcome'[e] = X /\ \A f \in Engines \ {e} : outcome'[f] = outcome[f]
  OBVIOUS
<1>2. seen(e)' = new /\ \A f \in Engines \ {e} : seen(f)' = seen(f)
  BY <1>1
<1>3. FateSeen = [f \in Engines |-> seen(f)] /\ FateSeen' = [f \in Engines |-> seen(f)']
  BY DEF FateSeen
<1> HIDE DEF seen, new
<1>4. FateSeen' = [FateSeen EXCEPT ![e] = new]
  BY <1>2, <1>3
<1> QED  BY <1>4 DEF new

\* The promises a..z of an engine are open.
OpenSeen(e, a, z) ==
  /\ a \in DOMAIN FateSeen[e] /\ z \in DOMAIN FateSeen[e]
  /\ \A n \in a..z : FateSeen[e][n] = [st |-> "pending", seq |-> 0]

\* What a promise may be told.
Verdicts == {"acked", "refused", "withdrawn", "failed"}

\* What DurableLog sees the promise of the n-th event become, when the a-th on are told st.
Tells(st, first, a, n) ==
  [st  |-> IF st = "withdrawn" THEN "refused" ELSE st,
   seq |-> SeqTold(st, first, a, n)]

\* The promises a..z of an engine settle, all told st.
FateSettles(e, a, z, st, first) ==
  FateSeen' = [FateSeen EXCEPT ![e] =
                 [n \in DOMAIN @ |-> IF n \in a..z THEN Tells(st, first, a, n) ELSE @[n]]]

\* A batch of an engine's first open promises settles: what DurableLog sees of it.
LEMMA SeenSettled ==
  ASSUME TypeOK, Shape, NEW e \in Engines, EngineOK(e), NEW batch \in Seq(Queued),
         batch # <<>>, NumberedFrom(batch, e, Done(e)),
         Done(e) + Len(batch) <= Len(outcome[e]),
         NEW st \in Verdicts, NEW first \in Nat,
         outcome' = [outcome EXCEPT ![e] = Settled(e, batch, st, first)],
         NEW a, a = Done(e) + 1, NEW z, z = Done(e) + Len(batch)
  PROVE  /\ a \in Nat /\ z \in Nat /\ DOMAIN FateSeen[e] = DOMAIN outcome[e]
         /\ \A n \in a..z : n \in DOMAIN outcome[e]
         /\ OpenSeen(e, a, z) /\ FateSettles(e, a, z, st, first)
<1>1. PICK t \in Nat : t = Done(e)
  BY Counts
<1>2. /\ DOMAIN outcome[e] = 1..Len(outcome[e]) /\ Len(outcome[e]) \in Nat
      /\ outcome[e] \in Seq(Promise) /\ Len(batch) \in Nat /\ Len(batch) >= 1
  BY Counts, SeqAt
<1>3. /\ a = t + 1 /\ z = t + Len(batch) /\ z <= Len(outcome[e])
      /\ NumberedFrom(batch, e, t)
  BY <1>1
<1>4. /\ a \in Nat /\ z \in Nat /\ a \in DOMAIN outcome[e] /\ z \in DOMAIN outcome[e]
      /\ \A n \in a..z : n \in DOMAIN outcome[e] /\ n > t
  BY <1>2, <1>3
<1>5. FateSeen[e] = [n \in DOMAIN outcome[e] |-> FateOf(outcome[e][n])]
  BY DEF FateSeen
<1>6. ASSUME NEW n \in a..z PROVE FateSeen[e][n] = [st |-> "pending", seq |-> 0]
  <2>1. outcome[e][n].st = "pending" /\ outcome[e][n].seq = 0
    BY <1>1, <1>4 DEF EngineOK, SettledInOrder
  <2> QED  BY <1>4, <1>5, <2>1 DEF FateOf
<1> DEFINE T(n) == Tells(st, first, a, n)
<1>7. PICK X : X = Settled(e, batch, st, first)
  OBVIOUS
<1>8. DOMAIN X = DOMAIN outcome[e] /\ outcome' = [outcome EXCEPT ![e] = X]
  BY <1>7 DEF Settled
<1>9. ASSUME NEW n \in DOMAIN outcome[e]
      PROVE  FateOf(X[n]) = IF n \in a..z THEN T(n) ELSE FateSeen[e][n]
  <2>1. CASE n \in a..z
    <3>2. n \in (t + 1)..(t + Len(batch)) /\ NumberedFrom(batch, e, t)
      BY <1>3, <2>1
    <3>1. X[n].st = st /\ X[n].seq = SeqTold(st, first, a, n)
      BY <1>3, <1>7, <3>2, SettledAt DEF Verdicts
    <3> QED  BY <2>1, <3>1 DEF FateOf, Tells
  <2>2. CASE n \notin a..z
    <3>1. X[n] = outcome[e][n]
      BY <1>3, <1>7, <2>2, SettledAt DEF Verdicts
    <3> QED  BY <1>5, <2>2, <3>1
  <2> QED  BY <2>1, <2>2
<1>10. FateSeen' = [FateSeen EXCEPT ![e] = [n \in DOMAIN X |-> FateOf(X[n])]]
  <2>1. outcome \in [Engines -> Seq(Promise)]
    BY DEF TypeOK
  <2>2. outcome' = [outcome EXCEPT ![e] = X]
    BY <1>8
  <2> HIDE DEF T
  <2> QED  BY <2>1, <2>2, FateChanged
<1> HIDE DEF T
<1>11. [n \in DOMAIN X |-> FateOf(X[n])]
         = [n \in DOMAIN FateSeen[e] |-> IF n \in a..z THEN T(n) ELSE FateSeen[e][n]]
  BY <1>5, <1>8, <1>9
<1>12. FateSeen' = [FateSeen EXCEPT ![e] =
                      [n \in DOMAIN @ |-> IF n \in a..z THEN T(n) ELSE @[n]]]
  BY <1>10, <1>11 DEF FateSeen
<1>13. FateSettles(e, a, z, st, first)
  BY <1>12 DEF T, FateSettles
<1> QED  BY <1>4, <1>5, <1>6, <1>13 DEF OpenSeen

\* The log has an event, and where, as DurableLog sees it.
SeenIn(e, n)  == \E i \in DOMAIN LogSeen : LogSeen[i] = [eng |-> e, n |-> n]
SeenAt(e, n)  == CHOOSE i \in DOMAIN LogSeen : LogSeen[i] = [eng |-> e, n |-> n]

LEMMA SeenFail ==
  ASSUME NEW e \in Engines, NEW a, NEW z, OpenSeen(e, a, z),
         FateSeen' = [FateSeen EXCEPT ![e] = [n \in DOMAIN @ |->
           IF n \in a..z THEN [st |-> "failed", seq |-> 0] ELSE @[n]]],
         \A n \in DOMAIN FateSeen[e] : FateSeen'[e][n] # [st |-> "pending", seq |-> 0],
         UNCHANGED <<log, holder>>
  PROVE  Durable!Fail(e)
<1>1. /\ \E first, last \in DOMAIN FateSeen[e] :
           /\ \A n \in first..last : FateSeen[e][n] = [st |-> "pending", seq |-> 0] /\ TRUE
           /\ FateSeen' = [FateSeen EXCEPT ![e] = [n \in DOMAIN @ |->
                IF n \in first..last THEN [st |-> "failed", seq |-> 0] ELSE @[n]]]
      /\ UNCHANGED <<LogSeen, holder>>
      /\ \A n \in DOMAIN FateSeen[e] : FateSeen'[e][n] # [st |-> "pending", seq |-> 0]
  BY Zenon DEF OpenSeen, LogSeen
<1> QED  BY <1>1, Zenon
         DEF FateSeen, FateOf, LogSeen, Seen, Durable!Fail, Durable!Tell, Durable!Unknown

LEMMA SeenRefuse ==
  ASSUME NEW e \in Engines, NEW a, NEW z, OpenSeen(e, a, z), \A n \in a..z : ~SeenIn(e, n),
         FateSeen' = [FateSeen EXCEPT ![e] = [n \in DOMAIN @ |->
           IF n \in a..z THEN [st |-> "refused", seq |-> 0] ELSE @[n]]],
         UNCHANGED <<log, holder>>
  PROVE  Durable!Refuse(e)
<1>1. /\ \E first, last \in DOMAIN FateSeen[e] :
           /\ \A n \in first..last :
                FateSeen[e][n] = [st |-> "pending", seq |-> 0] /\ ~SeenIn(e, n)
           /\ FateSeen' = [FateSeen EXCEPT ![e] = [n \in DOMAIN @ |->
                IF n \in first..last THEN [st |-> "refused", seq |-> 0] ELSE @[n]]]
      /\ UNCHANGED <<LogSeen, holder>>
  BY Zenon DEF OpenSeen, LogSeen
<1> QED  BY <1>1, Zenon
         DEF FateSeen, FateOf, LogSeen, Seen, SeenIn, Durable!Refuse, Durable!Tell,
             Durable!Unknown, Durable!Stored

LEMMA SeenResolve ==
  ASSUME NEW e \in Engines, NEW a, NEW z, OpenSeen(e, a, z), \A n \in a..z : SeenIn(e, n),
         FateSeen' = [FateSeen EXCEPT ![e] = [n \in DOMAIN @ |->
           IF n \in a..z THEN [st |-> "acked", seq |-> SeenAt(e, n)] ELSE @[n]]],
         UNCHANGED <<log, holder>>
  PROVE  Durable!Resolve(e)
<1>1. /\ \E first, last \in DOMAIN FateSeen[e] :
           /\ \A n \in first..last :
                FateSeen[e][n] = [st |-> "pending", seq |-> 0] /\ SeenIn(e, n)
           /\ FateSeen' = [FateSeen EXCEPT ![e] = [n \in DOMAIN @ |->
                IF n \in first..last THEN [st |-> "acked", seq |-> SeenAt(e, n)] ELSE @[n]]]
      /\ UNCHANGED <<LogSeen, holder>>
  BY Zenon DEF OpenSeen, LogSeen
<1> QED  BY <1>1, Zenon
         DEF FateSeen, FateOf, LogSeen, Seen, SeenIn, SeenAt, Durable!Resolve, Durable!Tell,
             Durable!Unknown, Durable!Stored, Durable!Place

LEMMA SeenPush ==
  ASSUME NEW e \in Engines, NEW k \in {1, 2},
         \A n \in DOMAIN FateSeen[e] : FateSeen[e][n].st # "failed",
         FateSeen' = [FateSeen EXCEPT ![e] = @ \o [j \in 1..k |-> [st |-> "pending", seq |-> 0]]],
         UNCHANGED <<log, holder>>
  PROVE  Durable!Push(e)
<1>1. UNCHANGED <<LogSeen, holder>>
  BY Zenon DEF LogSeen
<1> QED  BY <1>1, Zenon
         DEF FateSeen, FateOf, LogSeen, Seen, Durable!Push, Durable!Unknown

LEMMA SeenCommit ==
  ASSUME NEW e \in Engines, holder = e, NEW a, NEW z, a \in DOMAIN FateSeen[e], a <= z,
         z \in DOMAIN FateSeen[e],
         \A n \in 1..(a - 1) : SeenIn(e, n) \/ FateSeen[e][n].st = "refused",
         \A n \in a..z : ~SeenIn(e, n) /\ FateSeen[e][n].st \in {"pending", "failed"},
         LogSeen' = LogSeen \o [j \in 1..(z - a + 1) |-> [eng |-> e, n |-> a + j - 1]],
         UNCHANGED <<outcome, holder>>
  PROVE  Durable!Commit(e)
<1>1. /\ holder = e
      /\ \E first, last \in DOMAIN FateSeen[e] :
           /\ first <= last
           /\ \A n \in 1..(first - 1) : SeenIn(e, n) \/ FateSeen[e][n].st = "refused"
           /\ \A n \in first..last :
                ~SeenIn(e, n) /\ FateSeen[e][n].st \in {"pending", "failed"}
           /\ LogSeen' = LogSeen \o
                [j \in 1..(last - first + 1) |-> [eng |-> e, n |-> first + j - 1]]
      /\ UNCHANGED <<FateSeen, holder>>
  BY Zenon DEF FateSeen
<1> QED  BY <1>1, Zenon
         DEF FateSeen, FateOf, LogSeen, Seen, SeenIn, Durable!Commit, Durable!Stored,
             Durable!Skipped

-----------------------------------------------------------------------------
(* Each step, as DurableLog sees it.                                       *)

\* A writer that stops with promises open fails all of them (stop).
LEMMA StopSeen ==
  ASSUME TypeOK, Shape, NEW e \in Engines, EngineOK(e), phase[e] = "open", fatal[e] = "none",
         inFlight[e] # <<>> \/ queue[e] # <<>>, NEW batch, batch = inFlight[e], NEW cause,
         Stop(e, batch, queue[e], cause), UNCHANGED <<log, holder>>
  PROVE  Durable!Fail(e)
<1>1. PICK q : q = inFlight[e] \o queue[e]
  OBVIOUS
<1>2. PICK a, z : a = Done(e) + 1 /\ z = Done(e) + Len(q)
  OBVIOUS
<1>3. q \in Seq(Queued) /\ NumberedFrom(q, e, Done(e))
  BY <1>1, OpenEnd
<1>4. PICK d \in Nat : d = Done(e)
  BY Counts
<1>5. Len(outcome[e]) \in Nat /\ DOMAIN outcome[e] = 1..Len(outcome[e])
  BY Counts
<1>12. PICK i \in Nat, w \in Nat : i = Len(inFlight[e]) /\ w = Len(queue[e])
  BY Counts
<1>13. /\ Len(q) = i + w /\ i + w # 0 /\ Len(outcome[e]) = d + (i + w)
  <2>1. Len(q) = i + w
    BY <1>1, <1>12, OpenEnd
  <2>2. i # 0 \/ w # 0
    <3>1. inFlight[e] \in Seq(Queued) /\ queue[e] \in Seq(Queued)
      BY Counts
    <3> QED  BY <1>12, <3>1
  <2>3. Len(outcome[e]) = (d + i) + w
    BY <1>4, <1>12, Counts
  <2> QED  BY <2>1, <2>2, <2>3
<1>6. q # <<>> /\ z = Len(outcome[e]) /\ a = d + 1
  BY <1>2, <1>4, <1>13
<1>7. Done(e) + Len(q) <= Len(outcome[e])
  BY <1>4, <1>13
<1>8. outcome' = [outcome EXCEPT ![e] = Settled(e, q, "failed", 0)]
  BY <1>1 DEF Stop
<1>9. /\ OpenSeen(e, a, z) /\ DOMAIN FateSeen[e] = DOMAIN outcome[e]
      /\ FateSettles(e, a, z, "failed", 0)
  <2>1. "failed" \in Verdicts
    BY DEF Verdicts
  <2> QED  BY <1>2, <1>3, <1>6, <1>7, <1>8, <2>1, SeenSettled
<1>10. FateSeen' = [FateSeen EXCEPT ![e] = [n \in DOMAIN @ |->
              IF n \in a..z THEN [st  |-> "failed", seq |-> 0] ELSE @[n]]]
  BY <1>9 DEF FateSettles, Tells, SeqTold
<1>11. ASSUME NEW n \in DOMAIN FateSeen[e]
       PROVE  FateSeen'[e][n] # [st |-> "pending", seq |-> 0]
  <2>1. FateSeen'[e][n] = IF n \in a..z THEN [st |-> "failed", seq |-> 0] ELSE FateSeen[e][n]
    <3>1. e \in DOMAIN FateSeen
      BY DEF FateSeen
    <3> QED  BY <1>10, <3>1
  <2>2. CASE n \in a..z
    BY <2>1, <2>2
  <2>3. CASE n \notin a..z
    <3>1. n \in DOMAIN outcome[e] /\ n <= d
      BY <1>5, <1>6, <1>9, <2>3
    <3>2. outcome[e][n].st \in Sorted
      BY <1>4, <3>1 DEF EngineOK, SettledInOrder
    <3>3. FateSeen[e][n] = FateOf(outcome[e][n])
      BY <3>1 DEF FateSeen
    <3>4. FateSeen[e][n].st # "pending"
      BY <3>2, <3>3 DEF FateOf, Sorted
    <3> QED  BY <2>1, <2>3, <3>4
  <2> QED  BY <2>2, <2>3
<1> QED  BY <1>9, <1>10, <1>11, SeenFail

\* Settling the batch in flight, as DurableLog sees it.
LEMMA AnsweredSeen ==
  ASSUME TypeOK, Shape, NEW e \in Engines, EngineOK(e), answer[e] # NoAnswer,
         NEW st \in Verdicts, NEW first \in Nat,
         outcome' = [outcome EXCEPT ![e] = Settled(e, inFlight[e], st, first)],
         NEW a, a = Done(e) + 1, NEW z, z = Taken(e)
  PROVE  /\ DOMAIN FateSeen[e] = DOMAIN outcome[e] /\ a \in Nat /\ z \in Nat
         /\ \A n \in a..z : n \in DOMAIN outcome[e]
         /\ OpenSeen(e, a, z) /\ FateSettles(e, a, z, st, first)
<1>1. PICK batch \in Seq(Queued) : batch = inFlight[e]
  BY Counts
<1>2. batch # <<>> /\ NumberedFrom(batch, e, Done(e))
  BY <1>1, CallFacts DEF Shape, Numbered, Done
<1>3. PICK d \in Nat, i \in Nat, w \in Nat : d = Done(e) /\ i = Len(batch) /\ w = Len(queue[e])
  BY <1>1, Counts
<1>4. Taken(e) = d + i /\ Len(outcome[e]) = (d + i) + w
  BY <1>1, <1>3, Counts
<1>5. z = Done(e) + Len(batch) /\ Done(e) + Len(batch) <= Len(outcome[e])
  BY <1>3, <1>4
<1>6. outcome' = [outcome EXCEPT ![e] = Settled(e, batch, st, first)]
  BY <1>1
<1>7. \A n \in a..z : n \in DOMAIN outcome[e]
  <2>1. DOMAIN outcome[e] = 1..Len(outcome[e])
    BY Counts
  <2>2. \A n \in (d + 1)..(d + i) : n \in 1..((d + i) + w)
    OBVIOUS
  <2> QED  BY <1>3, <1>4, <2>1, <2>2
<1>8. DOMAIN FateSeen[e] = DOMAIN outcome[e] /\ a \in Nat /\ z \in Nat
  <2>1. a \in Nat /\ z \in Nat
    BY <1>3, <1>4
  <2> QED  BY <2>1 DEF FateSeen
<1>9. OpenSeen(e, a, z)
  BY <1>2, <1>5, <1>6, SeenSettled
<1>10. FateSettles(e, a, z, st, first)
  BY <1>2, <1>5, <1>6, SeenSettled
<1> QED  BY <1>7, <1>8, <1>9, <1>10

\* An acknowledgement resolves the batch, each event to where the log has it (onAck).
LEMMA AckSeen ==
  ASSUME TypeOK, Shape, Once, TypeOK', Shape', Once', NEW e \in Engines, EngineOK(e), OnAck(e)
  PROVE  Durable!Resolve(e)
<1>1. answer[e] # NoAnswer /\ answer[e] \in Answer
  BY DEF OnAck, Accepted, NoAnswer, TypeOK
<1>2. answer[e].first \in Nat
  BY <1>1 DEF Answer, NoAnswer
<1>3. PICK first \in Nat : first = answer[e].first
  BY <1>2
<1>10. PICK a, z : a = Done(e) + 1 /\ z = Taken(e)
  OBVIOUS
<1>4. /\ outcome' = [outcome EXCEPT ![e] = Settled(e, inFlight[e], "acked", first)]
      /\ UNCHANGED <<log, holder>>
  BY <1>3 DEF OnAck, storeVars
<1>5. /\ OpenSeen(e, a, z) /\ FateSettles(e, a, z, "acked", first)
      /\ DOMAIN FateSeen[e] = DOMAIN outcome[e] /\ \A n \in a..z : n \in DOMAIN outcome[e]
  <2>1. "acked" \in Verdicts
    BY DEF Verdicts
  <2> QED  BY <1>1, <1>3, <1>10, <1>4, <2>1, AnsweredSeen
<1>6. NoDuplicate
  BY OnceNoDuplicate
<1>7. ASSUME NEW n \in a..z
      PROVE  SeenIn(e, n) /\ Tells("acked", first, a, n) = [st |-> "acked", seq |-> SeenAt(e, n)]
  <2>1. FateSeen'[e][n] = Tells("acked", first, a, n)
    <3>1. e \in DOMAIN FateSeen /\ n \in DOMAIN FateSeen[e]
      BY <1>5 DEF FateSeen
    <3> QED  BY <1>5, <3>1 DEF FateSettles
  <2>2. n \in DOMAIN outcome'[e] /\ FateSeen'[e][n] = FateOf(outcome'[e][n])
    <3>1. n \in DOMAIN outcome'[e]
      BY <1>4, <1>5 DEF Settled, TypeOK
    <3> QED  BY <3>1 DEF FateSeen
  <2>3. PICK s : s = SeqTold("acked", first, a, n)
    OBVIOUS
  <2>4. outcome'[e][n].st = "acked" /\ outcome'[e][n].seq = s
    BY <2>1, <2>2, <2>3 DEF FateOf, Tells
  <2>5. s \in DOMAIN log /\ log[s].eng = e /\ log[s].n = n
    BY <1>4, <2>2, <2>4 DEF Once, AckedIsDurable
  <2>6. \A i \in DOMAIN LogSeen : LogSeen[i] = [eng |-> e, n |-> n] <=> i = s
    BY <1>6, <2>5 DEF LogSeen, Seen, NoDuplicate
  <2>7. s \in DOMAIN LogSeen
    BY <2>5 DEF LogSeen
  <2>8. SeenIn(e, n) /\ SeenAt(e, n) = s
    BY <2>6, <2>7 DEF SeenIn, SeenAt
  <2> QED  BY <2>3, <2>8 DEF Tells
<1>8. FateSeen' = [FateSeen EXCEPT ![e] = [n \in DOMAIN @ |->
           IF n \in a..z THEN [st |-> "acked", seq |-> SeenAt(e, n)] ELSE @[n]]]
  BY <1>5, <1>7 DEF FateSettles
<1> QED  BY <1>4, <1>5, <1>7, <1>8, SeenResolve

\* What an engine that still waits for its answer is refused is not in the log (onRefusal).
LEMMA RefusalSeen ==
  ASSUME TypeOK, Shape, Once, Told, AnswerStands, NEW e \in Engines, EngineOK(e), OnRefusal(e)
  PROVE  Durable!Refuse(e)
<1>1. PICK st \in {"refused", "withdrawn"} :
        /\ outcome' = [outcome EXCEPT ![e] = Settled(e, inFlight[e], st, 0)]
        /\ st = "refused" => answer[e].code = "event_too_large"
        /\ st = "withdrawn" => answer[e].code = "not_pending"
  BY DEF OnRefusal
<1>2. UNCHANGED <<log, holder>> /\ answer[e] # NoAnswer
  BY DEF OnRefusal, storeVars, NoAnswer
<1>3. PICK a, z : a = Done(e) + 1 /\ z = Taken(e)
  OBVIOUS
<1>4. OpenSeen(e, a, z) /\ FateSettles(e, a, z, st, 0)
  <2>1. st \in Verdicts
    BY DEF Verdicts
  <2> QED  BY <1>1, <1>2, <1>3, <2>1, AnsweredSeen
<1>5. Numbers(inFlight[e]) = a..z
  BY <1>3, FlightNumbers
<1>6. ASSUME NEW n \in a..z, SeenIn(e, n) PROVE FALSE
  <2>1. PICK i \in DOMAIN log : log[i].eng = e /\ log[i].n = n
    BY <1>6 DEF SeenIn, LogSeen, Seen
  <2>2. PICK b \in appends : /\ b \in Bodies /\ b.lease = e
                             /\ \E k \in DOMAIN b.evs : b.evs[k].n = n
    BY <2>1, Author
  <2>3. \E l \in DOMAIN inFlight[e] : inFlight[e][l].ev.n = n
    BY <1>5 DEF Numbers
  <2>4. b = BodyOf(e, inFlight[e])
    BY <2>2, <2>3 DEF Once, OneBody
  <2>5. ~EventTooLarge(b) /\ ~Withdrawn(b)
    BY <2>2 DEF Told, ToldOf, Withdrawn
  <2> QED  BY <1>1, <2>4, <2>5 DEF AnswerStands
<1>7. \A n : Tells(st, 0, a, n) = [st |-> "refused", seq |-> 0]
  BY <1>1 DEF Tells, SeqTold
<1>8. FateSeen' = [FateSeen EXCEPT ![e] = [n \in DOMAIN @ |->
           IF n \in a..z THEN [st |-> "refused", seq |-> 0] ELSE @[n]]]
  BY <1>4, <1>7 DEF FateSettles
<1> QED  BY <1>2, <1>4, <1>6, <1>8, SeenRefuse

\* A push: the writer failed nothing it was given before (write, consume).
LEMMA PushSeen ==
  ASSUME TypeOK, NEW e \in Engines, EngineOK(e), Writable(e), Done(e) \in Nat,
         NEW ps \in Seq(Promise), Len(ps) \in {1, 2},
         \A j \in DOMAIN ps : ps[j].st = "pending" /\ ps[j].seq = 0,
         outcome' = [outcome EXCEPT ![e] = @ \o ps], UNCHANGED <<log, holder>>
  PROVE  Durable!Push(e)
<1>1. PICK k \in {1, 2} : k = Len(ps)
  OBVIOUS
<1>2. outcome[e] \in Seq(Promise)
  BY DEF TypeOK
<1>3. ASSUME NEW n \in DOMAIN FateSeen[e] PROVE FateSeen[e][n].st # "failed"
  <2>1. n \in DOMAIN outcome[e] /\ FateSeen[e][n] = FateOf(outcome[e][n])
    BY DEF FateSeen
  <2>2. n \in Nat
    BY <1>2, <2>1
  <2>3. outcome[e][n].st \in Sorted \cup {"pending"}
    BY <2>1, <2>2 DEF EngineOK, SettledInOrder, Writable
  <2> QED  BY <2>1, <2>3 DEF FateOf, Sorted
<1>4. PICK X : X = outcome[e] \o ps
  OBVIOUS
<1>5. PICK l \in Nat : l = Len(outcome[e])
  BY <1>2
<1>6. /\ DOMAIN X = 1..(l + k) /\ DOMAIN ps = 1..k /\ DOMAIN outcome[e] = 1..l
      /\ \A n \in 1..l : X[n] = outcome[e][n]
      /\ \A j \in 1..k : X[l + j] = ps[j]
  BY <1>1, <1>2, <1>4, <1>5, ConcatAt
<1> DEFINE old == FateSeen[e]
           new == [j \in 1..k |-> [st |-> "pending", seq |-> 0]]
           Fate == [st: Sorted \cup {"pending", "failed"}, seq: Nat]
<1>7. old = [n \in 1..l |-> FateOf(outcome[e][n])]
  BY <1>6 DEF FateSeen
<1>8. new \in Seq(Fate) /\ Len(new) = k /\ \A j \in 1..k : new[j] = [st |-> "pending", seq |-> 0]
  <2>1. new \in [1..k -> Fate]
    OBVIOUS
  <2>2. k \in Nat
    OBVIOUS
  <2>3. \A j \in 1..k : new[j] = [st |-> "pending", seq |-> 0]
    OBVIOUS
  <2> HIDE DEF Fate, new
  <2> QED  BY <2>1, <2>2, <2>3, FunIsSeq
<1>9. old \in Seq(Fate) /\ Len(old) = l
  <2>1. \A n \in 1..l : FateOf(outcome[e][n]) \in Fate
    <3> TAKE n \in 1..l
    <3>1. outcome[e][n] \in Promise
      BY <1>2, <1>6
    <3> QED  BY <3>1 DEF FateOf, Promise, Sorted
  <2> HIDE DEF Fate, old
  <2>2. old \in [1..l -> Fate]
    BY <1>7, <2>1
  <2> QED  BY <2>2, FunIsSeq
<1> HIDE DEF Fate
<1>10. /\ DOMAIN (old \o new) = 1..(l + k)
       /\ \A n \in 1..l : (old \o new)[n] = old[n]
       /\ \A j \in 1..k : (old \o new)[l + j] = [st |-> "pending", seq |-> 0]
       /\ old \o new \in Seq(Fate)
  <2> HIDE DEF old, new
  <2> QED  BY <1>8, <1>9, ConcatAt
<1>11. ASSUME NEW n \in 1..(l + k) PROVE FateOf(X[n]) = (old \o new)[n]
  <2>1. CASE n \in 1..l
    <3>1. (old \o new)[n] = old[n]
      BY <1>10, <2>1
    <3>2. old[n] = FateOf(outcome[e][n])
      BY <1>7, <2>1
    <3> QED  BY <1>6, <2>1, <3>1, <3>2
  <2>2. CASE n \notin 1..l
    <3>1. n - l \in 1..k /\ l + (n - l) = n
      BY <2>2
    <3>2. PICK j \in 1..k : l + j = n
      BY <3>1
    <3>3. X[n] = ps[j] /\ (old \o new)[n] = [st |-> "pending", seq |-> 0]
      BY <1>6, <1>10, <3>2
    <3>4. ps[j].st = "pending" /\ ps[j].seq = 0
      BY <1>6
    <3> QED  BY <3>3, <3>4 DEF FateOf
  <2> QED  BY <2>1, <2>2
<1>12. [n \in DOMAIN X |-> FateOf(X[n])] = old \o new
  <2> HIDE DEF old, new
  <2>1. PICK q \in Seq(Fate) : q = old \o new /\ DOMAIN q = 1..(l + k)
    BY <1>10
  <2>2. q = [n \in 1..(l + k) |-> q[n]]
    <3>1. q \in [1..Len(q) -> Fate] /\ DOMAIN q = 1..Len(q)
      BY SMT
    <3> QED  BY <2>1, <3>1, Zenon
  <2> QED  BY <1>6, <1>11, <2>1, <2>2
<1>13. FateSeen' = [FateSeen EXCEPT ![e] = [n \in DOMAIN X |-> FateOf(X[n])]]
  <2>1. outcome \in [Engines -> Seq(Promise)]
    BY DEF TypeOK
  <2>2. outcome' = [outcome EXCEPT ![e] = X]
    BY <1>4
  <2> HIDE DEF old, new
  <2> QED  BY <2>1, <2>2, FateChanged
<1>14. FateSeen' = [FateSeen EXCEPT ![e] = @ \o [j \in 1..k |-> [st |-> "pending", seq |-> 0]]]
  BY <1>12, <1>13
<1> HIDE DEF old, new
<1> QED  BY <1>3, <1>14, SeenPush

\* What the store takes in: the writer's next events, all it skips having been refused
\* (SessionStore's append handler).
LEMMA CommitSeen ==
  ASSUME TypeOK, Shape, Once, Told, NEW m \in net, Commits(m)
  PROVE  \E e \in Engines : Durable!Commit(e)
<1>1. PICK b : b = m.body
  OBVIOUS
<1>2. /\ b \in Bodies /\ b \notin appends /\ ~EventTooLarge(b) /\ ~Withdrawn(b)
      /\ holder = b.lease /\ holder' = holder /\ outcome' = outcome
  BY <1>1, CommitStep DEF engineVars, Withdrawn
<1>3. PICK e \in Engines : e = b.lease
  BY <1>2, BodyTypes
<1>4. PICK l \in Nat : /\ l = Len(b.evs) /\ l >= 1 /\ DOMAIN b.evs = 1..l
                       /\ DOMAIN log = 1..Len(log) /\ Len(log) \in Nat
                       /\ DOMAIN log' = 1..(Len(log) + l)
                       /\ \A i \in 1..Len(log) : log'[i] = log[i]
                       /\ \A k \in 1..l : log'[Len(log) + k] = b.evs[k]
  BY <1>1, LogGrows, ZenonT(40)
<1>5. PICK a \in Nat : a = b.evs[1].n
  <2>1. b.evs # <<>>
    BY <1>2 DEF Told, ToldOf
  <2> QED  BY <1>2, <2>1, BodyPromises
<1>6. \A k \in 1..l : b.evs[k].n = a + k - 1 /\ b.evs[k].eng = e
  BY <1>2, <1>3, <1>4, <1>5 DEF Once, BodyShape
<1>7. PICK z \in Nat : z = a + l - 1
  <2>1. l >= 1
    BY <1>4
  <2>2. a + l - 1 \in Nat
    BY <2>1
  <2> QED  BY <2>2
<1>8. /\ \A n \in a..z : n - a + 1 \in 1..l /\ b.evs[n - a + 1].n = n
      /\ a <= z /\ z - a + 1 = l
  <2>1. ASSUME NEW n \in a..z
        PROVE  n - a + 1 \in 1..l /\ b.evs[n - a + 1].n = n
    <3>1. n - a + 1 \in 1..l /\ a + (n - a + 1) - 1 = n
      BY ONLY <1>7, n \in a..z, a \in Nat, l \in Nat
    <3> QED  BY ONLY <1>6, <3>1
  <2>2. l >= 1
    BY <1>4
  <2>3. a <= z /\ z - a + 1 = l
    BY ONLY <1>7, <2>2, a \in Nat, l \in Nat
  <2> QED  BY <2>1, <2>3
<1>9. /\ \A n \in a..z : n \in DOMAIN outcome[e]
      /\ \A n \in 1..(a - 1) : n \in DOMAIN outcome[e]
  <2>1. b.evs # <<>>
    BY <1>2 DEF Told, ToldOf
  <2>2. /\ \A k \in DOMAIN b.evs : b.evs[k].n \in DOMAIN outcome[e]
        /\ \A n \in 1..(a - 1) : n \in DOMAIN outcome[e]
    BY <1>2, <1>3, <1>5, <2>1, BodyPromises
  <2> QED  BY <1>4, <1>8, <2>2
<1>10. \A n \in DOMAIN outcome[e] : /\ n \in DOMAIN FateSeen[e]
                                    /\ FateSeen[e][n] = FateOf(outcome[e][n])
  BY DEF FateSeen
<1>11. ASSUME NEW n \in DOMAIN outcome[e], outcome[e][n].st = "acked" PROVE SeenIn(e, n)
  <2>1. PICK i \in DOMAIN log : log[i].eng = e /\ log[i].n = n
    BY <1>11 DEF Once, AckedIsDurable
  <2> QED  BY <2>1 DEF SeenIn, LogSeen, Seen
<1>12. ASSUME NEW n \in 1..(a - 1) PROVE SeenIn(e, n) \/ FateSeen[e][n].st = "refused"
  <2>1. outcome[e][n].st \in Sorted
    BY <1>2, <1>3, <1>5 DEF Told, ToldOf
  <2>2. n \in DOMAIN outcome[e]
    BY <1>9
  <2>3. FateSeen[e][n].st = FateOf(outcome[e][n]).st
    BY <1>10, <2>2
  <2>4. CASE outcome[e][n].st = "acked"
    BY <1>11, <2>2, <2>4
  <2>5. CASE outcome[e][n].st # "acked"
    BY <2>1, <2>3, <2>5 DEF FateOf, Sorted
  <2> QED  BY <2>4, <2>5
<1>13. ASSUME NEW n \in a..z, SeenIn(e, n) PROVE FALSE
  <2>1. PICK i \in DOMAIN log : log[i].eng = e /\ log[i].n = n
    BY <1>13 DEF SeenIn, LogSeen, Seen
  <2>2. PICK c \in appends : /\ c \in Bodies /\ c.lease = e
                             /\ \E k \in DOMAIN c.evs : c.evs[k].n = n
    BY <2>1, Author
  <2>3. \E k \in DOMAIN b.evs : b.evs[k].n = n
    BY <1>4, <1>8
  <2>4. c = b
    BY <1>2, <1>3, <2>2, <2>3 DEF Once, OneBody
  <2> QED  BY <1>2, <2>2, <2>4
<1>14. ASSUME NEW n \in a..z PROVE FateSeen[e][n].st \in {"pending", "failed"}
  <2>1. PICK k \in DOMAIN b.evs : b.evs[k].n = n
    BY <1>4, <1>8
  <2>2. outcome[e][n].st \notin {"refused", "withdrawn"}
    BY <1>2, <1>3, <2>1 DEF Told, ToldOf
  <2>3. outcome[e][n].st # "acked"
    BY <1>9, <1>11, <1>13
  <2>4. outcome[e][n] \in Promise
    BY <1>9 DEF TypeOK
  <2>5. FateSeen[e][n].st = FateOf(outcome[e][n]).st
    BY <1>9, <1>10
  <2>6. outcome[e][n].st \in {"pending", "failed"}
    BY <2>2, <2>3, <2>4 DEF Promise
  <2> QED  BY <2>5, <2>6 DEF FateOf
<1> DEFINE more == [j \in 1..(z - a + 1) |-> [eng |-> e, n |-> a + j - 1]]
<1>15. LogSeen' = LogSeen \o more
  <2> DEFINE Name == [eng: Engines, n: Int]
             old  == LogSeen
  <2>1. /\ more \in Seq(Name) /\ Len(more) = l
        /\ \A k \in 1..l : more[k] = [eng |-> e, n |-> a + k - 1]
    <3>1. more \in [1..l -> Name] /\ \A k \in 1..l : more[k] = [eng |-> e, n |-> a + k - 1]
      BY <1>8
    <3> HIDE DEF Name, more
    <3> QED  BY <3>1, FunIsSeq
  <2>2. PICK r \in Nat : r = Len(log)
    BY <1>4
  <2>3. old \in Seq(Name) /\ Len(old) = r /\ \A i \in 1..r : old[i] = Seen(log[i])
    <3>1. \A i \in 1..r : Seen(log[i]) \in Name
      <4> TAKE i \in 1..r
      <4>1. log[i] \in Event
        BY <1>4, <2>2 DEF TypeOK, StoreTypeOK
      <4> QED  BY <4>1 DEF Seen, Event
    <3>2. old = [i \in 1..r |-> Seen(log[i])]
      BY <1>4, <2>2 DEF LogSeen
    <3> HIDE DEF Name, old
    <3>3. old \in [1..r -> Name]
      BY <3>1, <3>2
    <3> QED  BY <3>2, <3>3, FunIsSeq
  <2> HIDE DEF Name, old, more
  <2>4. PICK q \in Seq(Name) : /\ q = old \o more /\ DOMAIN q = 1..(r + l)
                               /\ \A i \in 1..r : q[i] = old[i]
                               /\ \A k \in 1..l : q[r + k] = more[k]
    <3>3. old \in Seq(Name) /\ more \in Seq(Name)
      BY <2>1, <2>3
    <3>1. /\ old \o more \in Seq(Name) /\ DOMAIN (old \o more) = 1..(Len(old) + Len(more))
          /\ \A i \in 1..Len(old) : (old \o more)[i] = old[i]
          /\ \A k \in 1..Len(more) : (old \o more)[Len(old) + k] = more[k]
      BY <3>3, ConcatAt
    <3>2. Len(old) = r /\ Len(more) = l
      BY <2>1, <2>3
    <3> QED  BY <3>1, <3>2
  <2>5. ASSUME NEW i \in 1..(r + l) PROVE Seen(log'[i]) = q[i]
    <3>1. CASE i \in 1..r
      BY <1>4, <2>2, <2>3, <2>4, <3>1
    <3>2. CASE i \notin 1..r
      <4>1. i - r \in 1..l /\ r + (i - r) = i
        BY <3>2
      <4>2. PICK k \in 1..l : r + k = i
        BY <4>1
      <4>3. q[i] = [eng |-> e, n |-> a + k - 1] /\ log'[i] = b.evs[k]
        BY <1>4, <2>1, <2>2, <2>4, <4>2
      <4> QED  BY <1>6, <4>3 DEF Seen
    <3> QED  BY <3>1, <3>2
  <2>6. LogSeen' = [i \in 1..(r + l) |-> Seen(log'[i])]
    BY <1>4, <2>2 DEF LogSeen
  <2>7. q = [i \in 1..(r + l) |-> q[i]]
    <3>1. q \in [1..Len(q) -> Name] /\ DOMAIN q = 1..Len(q)
      BY SMT
    <3> QED  BY <2>4, <3>1, Zenon
  <2> QED  BY <2>4, <2>5, <2>6, <2>7 DEF old
<1>16. a \in DOMAIN FateSeen[e] /\ z \in DOMAIN FateSeen[e]
  BY <1>8, <1>9, <1>10
<1>17. Durable!Commit(e)
  BY <1>2, <1>3, <1>8, <1>12, <1>13, <1>14, <1>15, <1>16, SeenCommit
<1> QED  BY <1>17

\* A call that retries is not seen; one that throws fails what is open (call, stop).
LEMMA RetryOrThrowSeen ==
  ASSUME TypeOK, Shape, NEW e \in Engines, EngineOK(e), wire[e] = "sent", NEW cause,
         RetryOrThrow(e, cause), UNCHANGED <<log, holder>>
  PROVE  outcome' = outcome \/ Durable!Fail(e)
<1>1. CASE UNCHANGED <<attempt, fatal, outcome, queue, inFlight, draining>>
  BY <1>1
<1>2. CASE Stop(e, inFlight[e], queue[e], cause)
  <2>1. phase[e] = "open" /\ inFlight[e] # <<>>
    BY CallFacts
  <2>2. fatal[e] = "none"
    BY <2>1 DEF EngineOK, SettledInOrder
  <2> QED  BY <1>2, <2>1, <2>2, StopSeen
<1> QED  BY <1>1, <1>2 DEF RetryOrThrow

LEMMA CallSeen ==
  ASSUME TypeOK, Shape, NEW e \in Engines, EngineOK(e), Calls(e)
  PROVE  Durable!Push(e)
<1>1. Done(e) \in Nat
  BY Counts
<1>2. ASSUME NEW size \in Sizes, NEW record \in BOOLEAN, Write(e, size, record)
      PROVE  Durable!Push(e)
  <2>1. /\ outcome' = [outcome EXCEPT ![e] = Append(@, Pending(NoItem))]
        /\ Writable(e) /\ UNCHANGED <<log, holder>>
    BY <1>2 DEF Write, storeVars
  <2>2. Pending(NoItem) \in Promise /\ Pending(NoItem).st = "pending" /\ Pending(NoItem).seq = 0
    BY DEF Promise, Pending
  <2>3. PICK ps : ps = <<Pending(NoItem)>>
    OBVIOUS
  <2>8. ps \in Seq(Promise)
    BY <2>2, <2>3
  <2>4. Len(ps) = 1 /\ \A j \in DOMAIN ps : ps[j].st = "pending" /\ ps[j].seq = 0
    BY <2>2, <2>3
  <2>5. outcome[e] \in Seq(Promise)
    BY DEF TypeOK
  <2>6. Append(outcome[e], Pending(NoItem)) = outcome[e] \o ps
    BY <2>3, <2>5
  <2>7. outcome' = [outcome EXCEPT ![e] = @ \o ps]
    BY <2>1, <2>6
  <2> QED  BY <1>1, <2>1, <2>4, <2>7, <2>8, PushSeen
<1>3. ASSUME NEW i \in Items, NEW sizes \in Seq(Sizes), Len(sizes) \in {1, 2},
             Consume(e, i, sizes)
      PROVE  Durable!Push(e)
  <2>1. PICK ps : ps = OpeningPromises(i, sizes)
    OBVIOUS
  <2>2. ps \in Seq(Promise) /\ Len(ps) = Len(sizes)
    BY <1>3, <2>1, OpeningFacts DEF Consume
  <2>3. \A j \in DOMAIN ps : ps[j].st = "pending" /\ ps[j].seq = 0
    BY <2>1 DEF OpeningPromises, Pending
  <2>4. /\ outcome' = [outcome EXCEPT ![e] = @ \o ps]
        /\ Writable(e) /\ UNCHANGED <<log, holder>>
    BY <1>3, <2>1 DEF Consume, storeVars
  <2>5. Len(ps) \in {1, 2}
    BY <1>3, <2>2
  <2> QED  BY <1>1, <2>2, <2>3, <2>4, <2>5, PushSeen
<1> QED  BY <1>2, <1>3, CallCases

\* Every step of the writer, the client, the network and the store is one of DurableLog's,
\* or one it does not see.
LEMMA DurableNext ==
  ASSUME TypeOK, Shape, Once, LogInv, TypeOK', Shape', Once', [Next]_vars
  PROVE  [Durable!Next]_(Durable!dvars)
<1> USE DEF LogInv, Lasting
<1> DEFINE Unchanged == UNCHANGED <<log, outcome, holder>>
<1>1. CASE UNCHANGED vars
  BY <1>1, Unseen DEF vars, storeVars, engineVars
<1>2. ASSUME NEW e \in Engines, EngineStep(e)
      PROVE  Unchanged \/ Durable!Yield \/ \E f \in Engines :
               Durable!Take(f) \/ Durable!Resolve(f) \/ Durable!Refuse(f) \/ Durable!Fail(f)
  <2>1. EngineOK(e)
    BY DEF Writers
  <2>2. CASE Adopt(e)
    BY <2>2, SeenTake
  <2>3. CASE Open(e) \/ Kick(e) \/ Unwound(e) \/ Retry(e) \/ LoseLease(e)
    BY <2>3 DEF Open, Kick, Unwound, Retry, LoseLease, storeVars, engineVars
  <2>4. CASE DrainStep(e)
    <3>1. UNCHANGED <<log, holder>> /\ inFlight[e] = <<>> /\ phase[e] = "open"
      BY <2>4 DEF DrainStep, storeVars, Shape, CallTracksFlight
    <3>2. CASE queue[e] # <<>> /\ fatal[e] = "none" /\ Stop(e, <<>>, queue[e], "no_lease")
      BY <2>1, <3>1, <3>2, StopSeen
    <3>3. CASE outcome' = outcome
      BY <3>1, <3>3
    <3> QED  BY <2>4, <3>2, <3>3 DEF DrainStep
  <2>5. CASE Timeout(e)
    BY <2>1, <2>5, RetryOrThrowSeen DEF Timeout, storeVars
  <2>6. CASE OnBusy(e)
    <3>1. wire[e] = "sent"
      BY <2>6, CallFacts DEF OnBusy, NoAnswer
    <3> QED  BY <2>1, <2>6, <3>1, RetryOrThrowSeen DEF OnBusy, storeVars
  <2>7. CASE OnFatal(e)
    <3>1. answer[e] # NoAnswer
      BY <2>7 DEF OnFatal, NoAnswer
    <3>2. phase[e] = "open" /\ inFlight[e] # <<>>
      BY <3>1, CallFacts
    <3>3. fatal[e] = "none"
      BY <2>1, <3>2 DEF EngineOK, SettledInOrder
    <3>4. PICK cause : cause = answer[e].code
      OBVIOUS
    <3>5. Stop(e, inFlight[e], queue[e], cause) /\ UNCHANGED <<log, holder>>
      BY <2>7, <3>4 DEF OnFatal, storeVars
    <3> QED  BY <2>1, <3>2, <3>3, <3>5, StopSeen
  <2>8. CASE Close(e) \/ Crash(e)
    <3>1. UNCHANGED <<log, outcome>>
      BY <2>8 DEF Close, Crash, Gone
    <3>2. holder' = holder \/ (holder # NoEngine /\ holder' = NoEngine)
      BY <2>8, StoreAssumption DEF Close, Crash
    <3> QED  BY <3>1, <3>2, SeenYield
  <2>9. CASE OnAck(e)
    BY <2>1, <2>9, AckSeen
  <2>10. CASE OnRefusal(e)
    BY <2>1, <2>10, RefusalSeen
  <2> QED  BY <1>2, <2>2, <2>3, <2>4, <2>5, <2>6, <2>7, <2>8, <2>9, <2>10
           DEF EngineStep, OnAnswer
<1>3. ASSUME NEW e \in Engines, Calls(e) PROVE Durable!Push(e)
  BY <1>3, CallSeen DEF Writers
<1>4. ASSUME NEW m \in net, Deliver(m) \/ DeliverBusy(m)
      PROVE  Unchanged \/ \E f \in Engines : Durable!Commit(f)
  <2>1. CASE Commits(m)
    BY <2>1, CommitSeen
  <2>2. CASE ~Commits(m)
    BY <1>4, <2>2 DEF Deliver, DeliverBusy, Commits, HandleAppend, storeVars, engineVars
  <2> QED  BY <2>1, <2>2
<1>5. ASSUME StoreStep PROVE Unchanged \/ Durable!Yield
  BY <1>5, SeenYield DEF StoreStep, LapseLease, WithdrawItem, engineVars
<1> QED  BY <1>1, <1>2, <1>3, <1>4, <1>5, Unseen DEF Next, Durable!Next

\* The batcher, the client's retries, the network and the store together are one durable
\* log: each engine's events enter in the order they were pushed, without a gap but what
\* its caller was told is refused, only while it holds the lease, and every promise tells
\* the truth about the log (AppendBatcher, SessionStoreClient.call, the append handler).
THEOREM BatcherImplements == Spec => ImplementsDurableLog
<1>1. Init => Durable!Init
  BY DurableInit
<1>2. TypeOK /\ Shape /\ Once /\ LogInv /\ (TypeOK /\ Shape /\ Once /\ LogInv)' /\ [Next]_vars
        => [Durable!Next]_(Durable!dvars)
  BY DurableNext
<1> QED  BY <1>1, <1>2, LogInvHolds, PTL DEF Spec, ImplementsDurableLog, Durable!Spec
=============================================================================
