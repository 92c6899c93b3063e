---------------------------- MODULE TaskTracker -----------------------------
(***************************************************************************)
(* A session's plan (src/packages/harness/src/tasks/tracker.ts): numbered  *)
(* tasks in memory, and a JSON file that a debounced save replaces.  Each  *)
(* create and update tells the model the number and the subject of a task, *)
(* and the conversation keeps that for longer than a process lives.        *)
(***************************************************************************)
EXTENDS Naturals, FiniteSets, Sequences

CONSTANT Plans \* [tasks, updates, failures, crashes]: bounds

VARIABLES
  plan,
  items,    \* the tasks, by number: [subject, status]
  seq,      \* the last number given
  timer,    \* is a save due?
  file,     \* [seq, items] of the last save that succeeded
  told,     \* what the model was told: <<number, subject>>
  safe,     \* the tasks, likewise, of every plan that was saved
  lost,     \* did the last save fail?
  created, updates, failures, crashes

vars == <<plan, items, seq, timer, file, told, safe, lost, created, updates, failures, crashes>>

Blank == [seq |-> 0, items |-> <<>>]
Memory == [seq |-> seq, items |-> items]

Init ==
  /\ plan \in Plans
  /\ items = <<>> /\ seq = 0 /\ timer = FALSE /\ file = Blank
  /\ told = {} /\ safe = {} /\ lost = FALSE
  /\ created = 0 /\ updates = 0 /\ failures = 0 /\ crashes = 0

\* Each subject is another one.
Create ==
  /\ created < plan.tasks /\ created' = created + 1
  /\ seq' = seq + 1
  /\ items' = Append(items, [subject |-> created + 1, status |-> "pending"])
  /\ timer' = TRUE /\ told' = told \cup {<<seq + 1, created + 1>>}
  /\ UNCHANGED <<plan, file, safe, lost, updates, failures, crashes>>

Update(id) ==
  /\ updates < plan.updates /\ updates' = updates + 1
  /\ \E status \in {"in_progress", "completed"} \ {items[id].status} :
       items' = [items EXCEPT ![id].status = status]
  /\ timer' = TRUE /\ told' = told \cup {<<id, items[id].subject>>}
  /\ UNCHANGED <<plan, seq, file, safe, lost, created, failures, crashes>>

\* The timer's flush, or flushAll() when the process exits: the whole plan, by a rename, or not at all.
Flush ==
  /\ timer' = FALSE
  /\ \/ file' = Memory /\ safe' = safe \cup {<<id, items[id].subject>> : id \in DOMAIN items} /\ lost' = FALSE /\ UNCHANGED failures
     \/ failures < plan.failures /\ failures' = failures + 1 /\ lost' = TRUE /\ UNCHANGED <<file, safe>>

Timer == timer /\ Flush /\ UNCHANGED <<plan, items, seq, told, created, updates, crashes>>

\* The next process reads the file.
Reload(saved) == items' = saved.items /\ seq' = saved.seq

Exit ==
  /\ Flush /\ Reload(file')
  /\ crashes < plan.crashes /\ crashes' = crashes + 1
  /\ UNCHANGED <<plan, told, created, updates>>

Crash ==
  /\ crashes < plan.crashes /\ crashes' = crashes + 1
  /\ timer' = FALSE /\ Reload(file) /\ lost' = FALSE
  /\ UNCHANGED <<plan, file, told, safe, created, updates, failures>>

Next == Create \/ Timer \/ Exit \/ Crash \/ \E id \in DOMAIN items : Update(id)

Spec == Init /\ [][Next]_vars

-----------------------------------------------------------------------------
(* Properties.                                                             *)

\* A plan that was saved outlives every process: its numbers name the same tasks for good.  And nothing
\* that changed waits for a save without a timer, but for a save that failed.
PlanSurvives ==
  /\ \A t \in safe : t[1] <= seq /\ items[t[1]].subject = t[2]
  /\ timer \/ lost \/ file = Memory

\* "stable numbered ids the model can update individually", that "survive restarts": two tasks never had
\* one number.
IdsStable == \A s, t \in told : s[1] = t[1] => s = t
=============================================================================
