----------------------------- MODULE EventInbox -----------------------------
(***************************************************************************)
(* Background work and the inbox that tells the loop of it: shells and     *)
(* monitors emit events, the loop drains them into the conversation, a     *)
(* debounced save keeps the inbox and the roster of live work in a file,   *)
(* and a new process restores both.  A durable monitor outlives the        *)
(* process; the new one adopts it or reports its end.                      *)
(*                                                                         *)
(* A piece of work has a number of its own here, which no process gives    *)
(* again.  The code knows it by a name, <<kind, count in its process>>.    *)
(***************************************************************************)
EXTENDS Integers, FiniteSets, SequencesExt

CONSTANTS
  MaxPending,    \* cap on the queue
  MaxSeen,       \* cap on the ids remembered
  Mails,         \* messages of peers, whose senders may repeat them
  Plans,         \* bounds: the tasks of each kind each process has, the mails sent
  MaxProgress,   \* bound: progress events of a task
  Waits,         \* does a run wait for the work it started (backgroundWait)?
  RestoresTwice, \* does a host restore into an inbox it has restored into?
  NoFile         \* nothing was ever saved

ASSUME InboxAssumption ==
  /\ MaxPending \in Nat \ {0} /\ MaxSeen \in Nat \ {0}
  /\ \A p \in Plans :
       /\ p.starts # <<>> /\ \A i \in DOMAIN p.starts : p.starts[i] \in [{"bg", "mon"} -> Nat]
       /\ p.mails \in Nat
  /\ MaxProgress \in Nat /\ {Waits, RestoresTwice} \subseteq BOOLEAN

VARIABLES
  tasks,    \* the process's tasks, by name
  seq,      \* the last count it gave
  inbox,    \* its inbox: pending, in arrival order, and the ids seen
  timer,    \* is a save due?
  saving,   \* the save being written, or NoFile
  file,     \* what is saved, or NoFile
  held,     \* events drained, not yet in the conversation
  log,      \* events in the conversation
  parked,   \* does the loop wait for an event?
  restored, \* how often this process restored
  life,     \* which process this is
  minted,   \* pieces of work so far
  alive,    \* monitors whose process runs
  outs,     \* monitors whose output file exists
  mails,    \* mails sent so far
  past,     \* the work of earlier processes, and its names
  slipped,  \* that of it that no saved roster had, or whose end was saved as told and died in hand
  met,      \* the ids that a process restored
  refused,  \* work's own events the inbox took for repeats
  plan      \* which of the plans it is, repeats included in its mails

work == <<tasks, seq, minted, alive, outs>>
store == <<saving, file>>
ghosts == <<past, slipped, met, plan>>
vars == <<tasks, seq, inbox, timer, saving, file, held, log, parked, restored, life, minted, alive, outs, mails, past, slipped, met, refused, plan>>

Empty == [pending |-> <<>>, seen |-> <<>>]
NoTasks == [n \in {} |-> {}]

-----------------------------------------------------------------------------
(* The inbox.                                                              *)

IdsOf(events) == {events[i].id : i \in DOMAIN events}
IsProgress(e) == e.kind = "progress"

\* The queue without its first event that passes the test, and the ids without its.
Forget(ib, Test(_)) ==
  LET i == SelectInSeq(ib.pending, Test) IN
  IF i = 0 THEN ib
  ELSE [pending |-> RemoveAt(ib.pending, i), seen |-> SelectSeq(ib.seen, LAMBDA x : x # ib.pending[i].id)]

\* remember(): past the cap the oldest id that is not pending is forgotten.
Remember(ib, id) ==
  LET seen == IF id \in ToSet(ib.seen) THEN ib.seen ELSE Append(ib.seen, id)
      out == SelectInSeq(seen, LAMBDA x : x \notin IdsOf(ib.pending))
  IN [ib EXCEPT !.seen = IF Len(seen) > MaxSeen /\ out # 0 THEN RemoveAt(seen, out) ELSE seen]

Coalesce(ib, e) ==
  IF IsProgress(e) THEN Forget(ib, LAMBDA p : p.src = e.src /\ IsProgress(p)) ELSE ib

\* Mutant: whatever is oldest goes.
MakeRoomOldest(ib) == IF Len(ib.pending) >= MaxPending THEN Forget(ib, LAMBDA p : TRUE) ELSE ib

\* At the cap the oldest progress goes; a terminal event never does.
MakeRoom(ib) == IF Len(ib.pending) >= MaxPending THEN Forget(ib, IsProgress) ELSE ib

\* Mutant: a repeat is news.
EmitAlways(ib, e) ==
  [Remember(MakeRoom(Coalesce(ib, e)), e.id) EXCEPT !.pending = Append(@, e)]

\* emit(): a seen id is no news; news of a source's progress replaces the older.
Emit(ib, e) ==
  IF e.id \in ToSet(ib.seen) THEN ib
  ELSE LET roomy == MakeRoom(Coalesce(ib, e))
           known == Remember(roomy, e.id)
       IN [known EXCEPT !.pending = Append(@, e)]

\* Mutant: the ids do not come back.
PreloadPending(ib, s) == [ib EXCEPT !.pending = @ \o s.pending]

\* preload(): the ids, then the queue.
Preload(ib, s) ==
  LET known == FoldLeft(Remember, ib, s.seen) IN [known EXCEPT !.pending = @ \o s.pending]

-----------------------------------------------------------------------------
(* Who emits.                                                              *)

Event(name, what, k, w, kind, full) ==
  [id |-> <<name, what, k>>, src |-> name, work |-> w, kind |-> kind, full |-> full]

\* Mutant: a parked loop is not told.
StaysParked(e) == parked

\* An accepted event wakes a parked loop.
Wakes(e) == parked /\ e.id \in ToSet(inbox.seen)

\* An event goes to the inbox; an accepted one makes a save due.
EmitEvent(e) ==
  /\ inbox' = Emit(inbox, e)
  /\ timer' = (timer \/ e.id \notin ToSet(inbox.seen))
  /\ parked' = Wakes(e)

\* A task's own event may be taken for a repeat.
Refuses(e) == refused' = IF e.id \in ToSet(inbox.seen) THEN refused \cup {e.id} ELSE refused

Live(n) == tasks[n].live
Monitor(n) == n[1] = "mon"

Ready == restored > 0

Init ==
  /\ tasks = NoTasks /\ seq = 0 /\ inbox = Empty /\ timer = FALSE
  /\ saving = NoFile /\ file = NoFile /\ held = <<>> /\ log = <<>>
  /\ parked = FALSE /\ restored = 0 /\ life = 1 /\ minted = 0
  /\ alive = {} /\ outs = {} /\ mails = 0
  /\ past = {} /\ slipped = {} /\ met = {} /\ refused = {} /\ plan \in Plans

\* start(): a shell, or a durable monitor with its output file.  The inbox is not
\* told.
Start(kind) ==
  /\ Ready /\ Cardinality({n \in DOMAIN tasks : n[1] = kind}) < plan.starts[life][kind]
  /\ seq' = seq + 1 /\ minted' = minted + 1
  /\ tasks' = (<<kind, seq + 1>> :> [work |-> minted + 1, live |-> TRUE, reported |-> FALSE, n |-> 0]) @@ tasks
  /\ alive' = alive \cup {minted + 1}
  /\ outs' = IF kind = "mon" THEN outs \cup {minted + 1} ELSE outs
  /\ UNCHANGED <<inbox, timer, store, held, log, parked, restored, life, mails, ghosts, refused>>

\* A task's process ends.
Dies ==
  /\ \E w \in alive : alive' = alive \ {w}
  /\ UNCHANGED <<tasks, seq, minted, outs, inbox, timer, store, held, log, parked, restored, life, mails, ghosts, refused>>

\* A live monitor's output, or a shell stalled at a prompt, is progress.
Progress(n) ==
  /\ Live(n) /\ tasks[n].n < MaxProgress /\ (Monitor(n) \/ tasks[n].n = 0)
  /\ LET e == Event(n, "p", tasks[n].n + 1, tasks[n].work, "progress", TRUE) IN EmitEvent(e) /\ Refuses(e)
  /\ tasks' = [tasks EXCEPT ![n].n = @ + 1]
  /\ UNCHANGED <<seq, minted, alive, outs, store, held, log, restored, life, mails, ghosts>>

\* finalize(): a task's end is seen, reported once, and its file removed.
Exit(n) ==
  /\ Live(n) /\ tasks[n].work \notin alive
  /\ tasks' = [tasks EXCEPT ![n].live = FALSE, ![n].reported = TRUE]
  /\ outs' = outs \ {tasks[n].work}
  /\ IF tasks[n].reported THEN UNCHANGED <<inbox, timer, parked, refused>>
     ELSE LET e == Event(n, "exit", 0, tasks[n].work, "terminal", TRUE) IN EmitEvent(e) /\ Refuses(e)
  /\ UNCHANGED <<seq, minted, alive, store, held, log, restored, life, mails, ghosts>>

\* sweep(): a monitor past its deadline is reported and killed; its end comes later.
Timeout(n) ==
  /\ Live(n) /\ Monitor(n) /\ ~tasks[n].reported
  /\ tasks' = [tasks EXCEPT ![n].reported = TRUE]
  /\ LET e == Event(n, "timeout", 0, tasks[n].work, "terminal", TRUE) IN EmitEvent(e) /\ Refuses(e)
  /\ UNCHANGED <<seq, minted, alive, outs, store, held, log, restored, life, mails, ghosts>>

\* A peer's message, perhaps again.
Mail(m) ==
  /\ Ready /\ mails < plan.mails /\ mails' = mails + 1
  /\ EmitEvent(Event(m, "mail", 0, 0, "mail", TRUE))
  /\ UNCHANGED <<work, store, held, log, restored, life, ghosts, refused>>

-----------------------------------------------------------------------------
(* The loop.                                                               *)

\* drain(): everything pending is in the loop's hands.
Drain ==
  /\ ~parked /\ held = <<>> /\ inbox.pending # <<>>
  /\ held' = inbox.pending
  /\ inbox' = [inbox EXCEPT !.pending = <<>>]
  /\ timer' = TRUE
  /\ UNCHANGED <<work, store, log, parked, restored, life, mails, ghosts, refused>>

\* Its text is in the conversation.
Inject ==
  /\ held # <<>>
  /\ log' = log \o held /\ held' = <<>>
  /\ UNCHANGED <<work, inbox, timer, store, parked, restored, life, mails, ghosts, refused>>

\* waitForEvent(): with nothing pending and work live the loop waits.
Park ==
  /\ Waits /\ ~parked /\ held = <<>> /\ inbox.pending = <<>> /\ \E n \in DOMAIN tasks : Live(n)
  /\ parked' = TRUE
  /\ UNCHANGED <<work, inbox, timer, store, held, log, restored, life, mails, ghosts, refused>>

\* The wait lapses, or is aborted.
Unpark ==
  /\ parked /\ parked' = FALSE
  /\ UNCHANGED <<work, inbox, timer, store, held, log, restored, life, mails, ghosts, refused>>

-----------------------------------------------------------------------------
(* Saving and restoring.                                                   *)

\* The work a save lists.
Roster == {[name |-> n, work |-> tasks[n].work] : n \in {x \in DOMAIN tasks : Live(x)}}

\* began is no part of a save: it tells which work was there when the save was taken.
Snapshot == [pending |-> inbox.pending, seen |-> inbox.seen, live |-> Roster, began |-> minted]

\* The timer fires: a save takes the state as it is when the save before it is done.
Save ==
  /\ saving = NoFile /\ timer
  /\ saving' = Snapshot /\ timer' = FALSE
  /\ UNCHANGED <<work, inbox, file, held, log, parked, restored, life, mails, ghosts, refused>>

\* The new file takes the old one's place.
Saved ==
  /\ saving # NoFile
  /\ file' = saving /\ saving' = NoFile
  /\ UNCHANGED <<work, inbox, timer, held, log, parked, restored, life, mails, ghosts, refused>>

Works == {[name |-> n, work |-> tasks[n].work] : n \in DOMAIN tasks}

\* What the file says was told, and is not in the conversation.
InHand == {e \in ToSet(held) : file # NoFile /\ e.id \in ToSet(file.seen) \ IdsOf(file.pending)}

\* The process dies; its monitors do not.
Crash ==
  /\ life < Len(plan.starts) /\ life' = life + 1
  /\ past' = past \cup Works
  /\ slipped' = slipped \cup {e.work : e \in InHand}
                 \cup {r.work : r \in {x \in Works : file = NoFile \/ x.work > file.began}}
  /\ alive' = alive \cap outs
  /\ tasks' = NoTasks /\ seq' = 0 /\ inbox' = Empty /\ timer' = FALSE
  /\ saving' = NoFile /\ held' = <<>> /\ parked' = FALSE /\ restored' = 0
  /\ UNCHANGED <<minted, outs, file, log, mails, met, refused, plan>>

\* What is said of work that did not outlive the process, or ended meanwhile.
Report(ib, r) ==
  IF r.name[1] = "mon" THEN Emit(ib, Event(r.name, "offline", 0, r.work, "terminal", r.work \in outs))
  ELSE Emit(ib, Event(r.name, "interrupted", 0, r.work, "terminal", FALSE))

Adopted(r) == r.name[1] = "mon" /\ r.work \in alive

\* restoreInbox(): the inbox comes back; a live monitor is adopted under its name,
\* which no new task gets, and the rest of the roster is reported.
Restore ==
  /\ restored < IF RestoresTwice THEN 2 ELSE 1
  /\ restored' = restored + 1
  /\ IF file = NoFile THEN UNCHANGED <<inbox, timer, tasks, seq, outs, met>>
     ELSE LET adopt == {r \in file.live : Adopted(r)}
              gone == SetToSeq(file.live \ adopt)
              ib == FoldLeft(Report, Preload(inbox, file), gone)
          IN /\ inbox' = ib /\ met' = met \cup ToSet(file.seen)
             /\ timer' = (timer \/ \E r \in ToSet(gone) : \E e \in ToSet(ib.pending) : e.work = r.work)
             /\ tasks' = [n \in {r.name : r \in adopt} |->
                            [work |-> (CHOOSE r \in adopt : r.name = n).work, live |-> TRUE,
                             reported |-> FALSE, n |-> 0]] @@ tasks
             /\ seq' = Max({seq} \cup {r.name[2] : r \in adopt})
             /\ outs' = outs \ {r.work : r \in ToSet(gone)}
  /\ UNCHANGED <<minted, alive, store, held, log, parked, life, mails, past, slipped, plan, refused>>

Next ==
  \/ \E kind \in {"bg", "mon"} : Start(kind)
  \/ \E n \in DOMAIN tasks : Progress(n) \/ Exit(n) \/ Timeout(n)
  \/ \E m \in Mails : Mail(m)
  \/ Dies \/ Drain \/ Inject \/ Park \/ Unpark \/ Save \/ Saved \/ Crash \/ Restore

Spec == Init /\ [][Next]_vars

-----------------------------------------------------------------------------
(* Properties.                                                             *)

\* Every event on its way to the model, the oldest first.
OnTheWay == log \o held \o inbox.pending
Reported(w) == \E e \in ToSet(OnTheWay) : e.work = w /\ e.kind = "terminal"

TypeOK ==
  /\ seq <= minted /\ alive \cup outs \subseteq 1..minted
  /\ \A n \in DOMAIN tasks : n[1] \in {"bg", "mon"} /\ n[2] \in 1..seq /\ tasks[n].work \in 1..minted
  /\ \A e \in ToSet(OnTheWay) : e.kind \in {"progress", "terminal", "mail"}
  /\ Len(inbox.seen) <= MaxSeen /\ IsInjective(inbox.seen)
  /\ restored \in 0..2 /\ life \in DOMAIN plan.starts /\ {timer, parked} \subseteq BOOLEAN

\* The loop is not left waiting beside an event.
NoLostWakeup == parked => inbox.pending = <<>>

\* With no save due or under way, what is saved is what there is.
SavesCatchUp ==
  ~timer /\ saving = NoFile /\ file # NoFile /\ Ready =>
    file.pending = inbox.pending /\ file.seen = inbox.seen

\* What waits of a task is in the order it happened: nothing after its exit, and no
\* older progress after a newer.
Waiting == held \o inbox.pending
InOrder ==
  \A i, j \in DOMAIN Waiting : i < j /\ Waiting[i].work = Waiting[j].work /\ Waiting[j].kind = "progress" =>
    /\ Waiting[i].id[2] # "exit"
    /\ Waiting[i].kind = "progress" => Waiting[i].id[3] < Waiting[j].id[3]

\* No event waits twice.
NoDoublePending == \A i, j \in DOMAIN inbox.pending : inbox.pending[i].id = inbox.pending[j].id => i = j

\* What was drained when the file was written never waits again, not even under the next
\* process, before so many ids were seen that one may be forgotten.
DrainedStays ==
  Ready /\ file # NoFile /\ Len(inbox.seen) < MaxSeen => (ToSet(file.seen) \ IdsOf(file.pending)) \cap IdsOf(inbox.pending) = {}

\* Its name was an earlier process's too, and an end under that name is remembered.
Namesake(r) ==
  /\ \E q \in past : q.name = r.name /\ q.work < r.work
  /\ \E id \in met : id[1] = r.name /\ id[2] # "p"

Watched(w) == \E n \in DOMAIN tasks : tasks[n].work = w /\ Live(n) /\ ~tasks[n].reported

\* The end of a piece of work, whichever process it was of, reaches the model or is still watched for,
\* through the queue's cap, the ids remembered and the ends of processes (makeRoom, finalize,
\* restoreInbox); but of work no save knew and of ends saved as told too early (LossReported,
\* SavedAsTold), and of a name that came to be given again (EndsKept).
EndsReported ==
  Ready => \A r \in past \cup Works :
    Reported(r.work) \/ Watched(r.work) \/ r.work \in slipped \/ Namesake(r)

\* What waits is in order, none of it twice over a restart, and saved once all is still
\* (emit, preload, save).
QueueIsTrue == TypeOK /\ SavesCatchUp /\ InOrder /\ DrainedStays

\* No loss is silent: of the work a process left behind, all is reported or watched by the next.
LossReported == Ready => \A r \in past : Reported(r.work) \/ Watched(r.work)

\* The end of a task is never dropped: once it counts as reported it is on its way.
EndsKept == \A n \in DOMAIN tasks : tasks[n].reported => Reported(tasks[n].work)

\* A live task's progress is news, whichever process it started under.
ProgressIsNews == \A n \in DOMAIN tasks : \A i \in 1..tasks[n].n : <<n, "p", i>> \notin refused

\* What the file says the model was told, it was told or is about to be.
SavedAsTold ==
  Ready /\ file # NoFile => ToSet(file.seen) \ IdsOf(file.pending) \subseteq IdsOf(OnTheWay)

\* A monitor that ended while no process looked is reported with its output.
OutputReported == \A e \in ToSet(OnTheWay) : e.id[2] = "offline" => e.full
=============================================================================
