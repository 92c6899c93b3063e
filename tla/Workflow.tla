------------------------------ MODULE Workflow ------------------------------
(***************************************************************************)
(* The workflow runner (src/packages/harness/src/workflow/runner.ts): the  *)
(* flows of a parallel() or a pipeline(), each an item on its way through  *)
(* the stages, call agent(), and a semaphore bounds how many run.  A rerun *)
(* replays, from a cache by the number of the call, what was recorded.     *)
(*                                                                         *)
(* The event loop: micro is the queue of continuations.  The semaphore's   *)
(* release wakes a waiter, which takes its slot in a continuation of its   *)
(* own; so does the flow that released, behind it.                         *)
(***************************************************************************)
EXTENDS Integers, FiniteSets, Sequences, SequencesExt

CONSTANT Flows \* [items, stages, limit, maxAgents, budget, reruns]: what a workflow does, and the bound on reruns

VARIABLES
  flow,
  item,    \* per item: its stage, the number of its call, and where it is
  micro,   \* the items with a continuation to run, in order
  active,  \* of the semaphore
  waiters,
  spawned, \* agent() calls so far
  spent,   \* tokens
  cache,   \* the calls recorded, by number
  again,   \* the calls that were run although a result of theirs was recorded
  reruns

vars == <<flow, item, micro, active, waiters, spawned, spent, cache, again, reruns>>

Items == 1..flow.items
Prompt(i) == <<i, item[i].stage>>
At(places) == {i \in Items : item[i].at \in places}
MovedTo(i, place) == [item EXCEPT ![i].at = place]

Numbers == 1..(flow.items * flow.stages)
Fresh == [i \in 1..flow.items |-> [stage |-> 1, id |-> 0, at |-> "calls"]]

Init ==
  /\ flow \in Flows
  /\ item = Fresh
  /\ micro = [i \in 1..flow.items |-> i]
  /\ active = 0 /\ waiters = <<>> /\ spawned = 0 /\ spent = 0
  /\ cache = [n \in Numbers |-> <<>>] /\ again = {} /\ reruns = 0

-----------------------------------------------------------------------------
(* agent().                                                                *)

\* What its agent, or the record of one, makes of a flow: it has its result, or goes on to its next stage,
\* in a continuation behind those in `queue`.
Over(i) == item[i].stage = flow.stages
Onward(i) ==
  IF Over(i) THEN [item[i] EXCEPT !.at = "done"] ELSE [stage |-> item[i].stage + 1, id |-> 0, at |-> "calls"]
Behind(queue, i) == IF Over(i) THEN queue ELSE Append(queue, i)

Refused == spawned >= flow.maxAgents \/ spent >= flow.budget

\* What takes a slot runs; a call that was recorded and is run again is noted.
Runs(i) ==
  again' = IF \E n \in Numbers : cache[n] = Prompt(i) THEN again \cup {Prompt(i)} ELSE again

CallThrows(i) ==
  /\ Refused
  /\ item' = MovedTo(i, "dropped") /\ micro' = Tail(micro)
  /\ UNCHANGED <<active, waiters, spawned, cache, again>>

CallReplays(i) ==
  /\ ~Refused /\ cache[spawned + 1] = Prompt(i)
  /\ spawned' = spawned + 1
  /\ item' = [item EXCEPT ![i] = Onward(i)] /\ micro' = Behind(Tail(micro), i)
  /\ UNCHANGED <<active, waiters, cache, again>>

CallAcquires(i) ==
  /\ ~Refused /\ cache[spawned + 1] # Prompt(i)
  /\ spawned' = spawned + 1 /\ micro' = Tail(micro)
  /\ IF active >= flow.limit
     THEN /\ waiters' = Append(waiters, i)
          /\ item' = [item EXCEPT ![i].id = spawned + 1, ![i].at = "waits"]
          /\ UNCHANGED <<active, again>>
     ELSE /\ active' = active + 1 /\ Runs(i)
          /\ item' = [item EXCEPT ![i].id = spawned + 1, ![i].at = "runs"]
          /\ UNCHANGED waiters
  /\ UNCHANGED cache

Continues(i, place) == micro # <<>> /\ Head(micro) = i /\ item[i].at = place

Call(i) ==
  /\ Continues(i, "calls")
  /\ CallThrows(i) \/ CallReplays(i) \/ CallAcquires(i)
  /\ UNCHANGED <<flow, spent, reruns>>

Wake(i) ==
  /\ Continues(i, "woken")
  /\ active' = active + 1 /\ Runs(i)
  /\ item' = MovedTo(i, "runs") /\ micro' = Tail(micro)
  /\ UNCHANGED <<flow, waiters, spawned, spent, cache, reruns>>

\* release(): the slot is given up, and the first waiter woken.
\* Mutant: only the last to release wakes anyone.
WokenWhenEmpty == IF waiters = <<>> \/ active > 1 THEN {} ELSE {Head(waiters)}
Woken == IF waiters = <<>> THEN {} ELSE {Head(waiters)}
Release ==
  /\ active' = active - 1
  /\ waiters' = IF Woken = {} THEN waiters ELSE Tail(waiters)

Released(i, becomes) ==
  [j \in Items |->
     CASE j = i -> becomes
       [] j \in Woken -> [item[j] EXCEPT !.at = "woken"]
       [] OTHER -> item[j]]

Return(i) ==
  /\ Continues(i, "returned")
  /\ spent' = spent + 1 /\ cache' = [cache EXCEPT ![item[i].id] = Prompt(i)]
  /\ Release
  /\ item' = Released(i, Onward(i)) /\ micro' = Behind(Tail(micro) \o SetToSeq(Woken), i)
  /\ UNCHANGED <<flow, spawned, again, reruns>>

\* A stage that throws drops its item, once the slot is released.
Throw(i) ==
  /\ Continues(i, "threw")
  /\ Release
  /\ item' = Released(i, [item[i] EXCEPT !.at = "dropped"]) /\ micro' = Tail(micro) \o SetToSeq(Woken)
  /\ UNCHANGED <<flow, spawned, spent, cache, again, reruns>>

-----------------------------------------------------------------------------
(* The agents, and the host.                                               *)

\* runAgent settles for some of the agents in one tick of the event loop.
Settle ==
  /\ micro = <<>>
  /\ \E some \in (SUBSET At({"runs"})) \ {{}} :
       /\ micro' \in SetToSeqs(some)
       /\ \E failed \in SUBSET some :
            item' = [i \in Items |->
                       CASE i \in failed -> [item[i] EXCEPT !.at = "threw"]
                         [] i \in some \ failed -> [item[i] EXCEPT !.at = "returned"]
                         [] OTHER -> item[i]]
  /\ UNCHANGED <<flow, active, waiters, spawned, spent, cache, again, reruns>>

\* The process dies, or the workflow has ended; the host runs it again, over the cache.
Rerun ==
  /\ reruns < flow.reruns /\ reruns' = reruns + 1
  /\ item' = Fresh /\ micro' = [i \in Items |-> i]
  /\ active' = 0 /\ waiters' = <<>> /\ spawned' = 0 /\ spent' = 0
  /\ UNCHANGED <<flow, cache, again>>

Next == Settle \/ Rerun \/ \E i \in Items : Call(i) \/ Wake(i) \/ Return(i) \/ Throw(i)

Spec == Init /\ [][Next]_vars

-----------------------------------------------------------------------------
(* Properties.                                                             *)

\* Nobody waits while a slot is free: as long as there are waiters, the limit is taken up by agents that
\* run or are woken; so nothing is forgotten when agents throw, are refused, or come back together.
NoIdleSlot ==
  /\ active = Cardinality(At({"runs", "returned", "threw"}))
  /\ waiters # <<>> => active + Cardinality(At({"woken"})) >= flow.limit
  /\ micro = <<>> /\ At({"runs"}) = {} => At({"done", "dropped"}) = Items

\* "the Nth agent() call is stable across runs": no unchanged call of a parallel() is run again once its
\* result was recorded, wherever the process died.
PrefixReplays == flow.stages = 1 => again = {}

WorkflowAccounted == NoIdleSlot /\ PrefixReplays

\* "Concurrency is bounded by a semaphore that every agent() call passes through, so a parallel() of 100
\* items still runs only N at a time".
BoundKept == active <= flow.limit

\* "the Nth agent() call is stable across runs — so a re-run can replay the unchanged prefix from the journal".
RerunReplays == again = {}
=============================================================================
