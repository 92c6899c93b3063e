----------------------------- MODULE Subagents ------------------------------
(***************************************************************************)
(* The sub-agents of one session and what its stream says of them.  The    *)
(* Agent tool starts children, inline or in the background; a child's      *)
(* start, its own events and its end are raised through the session event  *)
(* bus, which gives them to the session's run while there is one and       *)
(* writes them to the conversation itself while there is none.  The        *)
(* record of a background child tells the model of its end, by the inbox   *)
(* or when the run asks.                                                   *)
(*                                                                         *)
(* A session has one run at a time, and each run an AgentSession, and so a *)
(* side queue, of its own.  Of the conversation the model has the          *)
(* children's events, and of all other entries only that they move its     *)
(* head: whoever holds an older one would fork the chain.                  *)
(***************************************************************************)
EXTENDS Integers, FiniteSets, Sequences

CONSTANTS
  Children,   \* Agent calls the model may make
  Plans       \* bounds: what may happen in a behaviour

\* A plan says which calls there may be, which of the children raise an event of
\* their own, are given guidance, and are killed, each once; how many runs there
\* are and how often the host attaches or detaches the inbox; and whether writes
\* may be refused and streams left.
ASSUME SubagentsAssumption ==
  \A p \in Plans :
    /\ {p.calls, p.speak, p.steer, p.kill} \subseteq SUBSET Children
    /\ {p.runs, p.hosts} \subseteq Nat /\ p.fails \in BOOLEAN

VARIABLES
  task,     \* the record of each call, and how far its runner is
  phase,    \* what the run does
  runs,     \* runs so far
  calls,    \* the Agent calls of the step at work
  side,     \* the run's queue of events
  taken,    \* what it drained to write at its end
  tip,      \* is the entry the run writes under the last one?
  idle,     \* the bus's events, for a session without a run
  bus,      \* what the bus does with the first of them, and is the head it read the last entry?
  log,      \* the children's events in the conversation
  shown,    \* what the stream or the idle listeners were told, in order
  inbox,    \* ends pushed to the session's inbox
  attached, \* is there an inbox for this session's tasks?
  hosts,    \* how often that changed
  told,     \* what the model was told of each child, in order
  emitted,  \* all events, as raised, each with its run or 0
  rejected, \* runs whose turn never began
  cut,      \* events a refused or abandoned write took along
  plan      \* which of the plans it is

run == <<phase, runs, calls>>
queues == <<side, idle>>
chain == <<tip, bus>>
client == <<log, shown>>
model == <<inbox, told>>
host == <<attached, hosts, plan>>
losses == <<rejected, cut>>
vars == <<task, phase, runs, calls, side, taken, tip, idle, bus, log, shown,
          inbox, attached, hosts, told, emitted, rejected, cut, plan>>

Phases == {"idle", "left", "starting", "open", "tools", "wrapping", "flushing", "closing"}
Ends == {"done", "failed", "cancelled"}
Statuses == {"none", "running"} \cup Ends

NewTask(status, mode, runner) ==
  [status |-> status, mode |-> mode, reported |-> mode = "fg", sid |-> FALSE, steer |-> "none", runner |-> runner,
   answer |-> "none"]

Resting == [step |-> "rest", atHead |-> FALSE]

Init ==
  /\ task = [c \in Children |-> NewTask("none", "bg", "none")]
  /\ phase = "idle" /\ runs = 0 /\ calls = {}
  /\ side = <<>> /\ taken = <<>> /\ idle = <<>>
  /\ tip = FALSE /\ bus = Resting
  /\ log = <<>> /\ shown = <<>>
  /\ inbox = {} /\ told = [c \in Children |-> <<>>]
  /\ attached \in BOOLEAN /\ hosts = 0 /\ plan \in Plans
  /\ emitted = <<>> /\ rejected = {} /\ cut = {}

-----------------------------------------------------------------------------
(* Events.                                                                 *)

Event(what, c, outcome) == [what |-> what, child |-> c, outcome |-> outcome]

\* A child's start and end are kept; what it says is only shown.
IsPersisted(e) == e.what # "word"

Outcome(status) ==
  IF status = "done" THEN "success" ELSE IF status = "cancelled" THEN "cancelled" ELSE "error"

\* A run is subscribed from before it reads the head until it is closed.
Subscribed == phase # "idle"

\* emit(): to the run there is, or in line for the bus.
Raise(e) ==
  /\ emitted' = Append(emitted, [event |-> e, run |-> IF Subscribed THEN runs ELSE 0])
  /\ IF Subscribed
     THEN side' = Append(side, e) /\ UNCHANGED idle
     ELSE idle' = Append(idle, e) /\ UNCHANGED side

\* The run appends an entry, and what the bus may have read is the head no more.
Write == tip' = TRUE /\ bus' = [bus EXCEPT !.atHead = FALSE]

\* flushSide(): an event goes out, a kept one through the conversation.
Flush(e) ==
  /\ IF IsPersisted(e) THEN Write /\ log' = Append(log, e) ELSE UNCHANGED <<chain, log>>
  /\ shown' = Append(shown, [event |-> e, way |-> "run"])

-----------------------------------------------------------------------------
(* A child.                                                                *)

Live(c) == task[c].runner \in {"live", "wrapping"}
Running(c) == task[c].status = "running"
Inline(c) == task[c].mode = "fg"

\* The host mints the child's session: its start is raised.
Mint(c) ==
  /\ task[c].runner = "live" /\ ~task[c].sid
  /\ task' = [task EXCEPT ![c].sid = TRUE]
  /\ Raise(Event("start", c, "none"))
  /\ UNCHANGED <<run, taken, chain, client, model, host, losses>>

\* The child's own stream, passed on.
Speak(c) ==
  /\ c \in plan.speak /\ Live(c) /\ task[c].sid
  /\ \A i \in DOMAIN emitted : emitted[i].event # Event("word", c, "none")
  /\ Raise(Event("word", c, "none"))
  /\ UNCHANGED <<task, run, taken, chain, client, model, host, losses>>

\* steer(): guidance is queued while the record says running.
Steer(c) ==
  /\ c \in plan.steer /\ Running(c) /\ task[c].steer = "none"
  /\ task' = [task EXCEPT ![c].steer = "queued"]
  /\ UNCHANGED <<run, queues, taken, chain, client, model, host, emitted, losses>>

\* The child's loop takes the guidance at a step's boundary.
Listen(c) ==
  /\ task[c].runner = "live" /\ task[c].sid /\ task[c].steer = "queued"
  /\ task' = [task EXCEPT ![c].steer = "heard"]
  /\ UNCHANGED <<run, queues, taken, chain, client, model, host, emitted, losses>>

\* It is about to finish, having found none.
WrapUp(c) ==
  /\ task[c].runner = "live" /\ task[c].sid /\ task[c].steer # "queued"
  /\ task' = [task EXCEPT ![c].runner = "wrapping"]
  /\ UNCHANGED <<run, queues, taken, chain, client, model, host, emitted, losses>>

\* How a runner settles: with a text once its loop finished, or with an error.
Settles(c, status) ==
  \/ (status = "done" /\ task[c].runner = "wrapping")
  \/ (status = "failed" /\ Live(c))

\* Mutant: the outcome is recorded whatever the record says.
RecordedLate(c, status) == [task[c] EXCEPT !.status = status]

\* A kill wins over the outcome.
Recorded(c, status) == [task[c] EXCEPT !.status = IF @ = "running" THEN status ELSE @]

\* push(): the inbox is told of an end, unless it was a kill or is reported.
Pushes(c) == Running(c) /\ attached /\ ~task[c].reported

\* Told by the inbox, the end is reported.
Claims(c) == task[c].reported \/ Pushes(c)

\* A background runner settles: the record, and the inbox if there is one.
Settle(c, status) ==
  /\ ~Inline(c) /\ Settles(c, status)
  /\ task' = [task EXCEPT ![c] = [Recorded(c, status) EXCEPT !.reported = Claims(c), !.runner = "settled"]]
  /\ inbox' = IF Pushes(c) THEN inbox \cup {[child |-> c, status |-> status]} ELSE inbox
  /\ UNCHANGED <<run, queues, taken, chain, client, host, told, emitted, losses>>

\* ended(): the end is raised once, by a child that had a session.
RaiseEnd(c, status) ==
  IF task[c].sid THEN Raise(Event("end", c, Outcome(status))) ELSE UNCHANGED <<queues, emitted>>

\* onEnd, a moment after the record was settled.
SettledEnd(c) ==
  /\ task[c].runner = "settled"
  /\ task' = [task EXCEPT ![c].runner = "ended"]
  /\ RaiseEnd(c, task[c].status)
  /\ UNCHANGED <<run, taken, chain, client, model, host, losses>>

\* An inline runner settles: the record, the end at once, and the call's answer, which
\* is the child's text or error even if a kill was first.
SettleInline(c, status) ==
  /\ Inline(c) /\ Settles(c, status)
  /\ task' = [task EXCEPT ![c] = [Recorded(c, status) EXCEPT !.runner = "ended", !.answer = status]]
  /\ RaiseEnd(c, Recorded(c, status).status)
  /\ UNCHANGED <<run, taken, chain, client, model, host, losses>>

\* kill(): the record is cancelled at once, the runner only signalled.
Kill(c) ==
  /\ Running(c) /\ c \in plan.kill
  /\ task' = [task EXCEPT ![c].status = "cancelled"]
  /\ UNCHANGED <<run, queues, taken, chain, client, model, host, emitted, losses>>

-----------------------------------------------------------------------------
(* A run.                                                                  *)

\* It subscribes, in the place of one that left its subscription, and reads the head.
RunStart ==
  /\ phase \in {"idle", "left"} /\ runs < plan.runs
  /\ phase' = "starting" /\ runs' = runs + 1 /\ tip' = TRUE /\ side' = <<>>
  /\ UNCHANGED <<task, calls, taken, idle, bus, client, model, host, emitted, losses>>

\* A hook rejects the prompt, or the turn's opening is refused: the run ends
\* unsubscribed, and its queue with it.
Reject ==
  /\ phase = "starting"
  /\ phase' = "idle" /\ side' = <<>> /\ rejected' = rejected \cup {runs}
  /\ UNCHANGED <<task, runs, calls, taken, idle, chain, client, model, host, emitted, cut>>

\* The stream is left at the first entry, the user's or a new session's, or a new
\* session's is refused: nobody unsubscribes.
Leave ==
  /\ plan.fails /\ phase = "starting"
  /\ phase' = "left" /\ rejected' = rejected \cup {runs} /\ (Write \/ UNCHANGED chain)
  /\ UNCHANGED <<task, runs, calls, queues, taken, client, model, host, emitted, cut>>

\* The user's entry.
Open ==
  /\ phase = "starting"
  /\ phase' = "open" /\ Write
  /\ UNCHANGED <<task, runs, calls, queues, taken, client, model, host, emitted, losses>>

\* The model calls Agent: the records, an inline one born reported.
Call(S, modes) ==
  /\ phase = "open" /\ S # {} /\ S \subseteq plan.calls /\ \A c \in S : task[c].status = "none"
  /\ phase' = "tools" /\ calls' = S
  /\ task' = [c \in Children |-> IF c \in S THEN NewTask("running", modes[c], "live") ELSE task[c]]
  /\ UNCHANGED <<runs, queues, taken, chain, client, model, host, emitted, losses>>

\* until(): an event goes out as it comes while the tools work.
FlushOne ==
  /\ phase = "tools" /\ side # <<>>
  /\ Flush(Head(side)) /\ side' = Tail(side)
  /\ UNCHANGED <<task, run, taken, idle, model, host, emitted, losses>>

\* The inline children among the calls have settled, a background one answers at once.
CallsReturned == \A c \in calls : Inline(c) => task[c].runner = "ended"

\* What the model is told at once, each note of a child.
Tells(notes) ==
  told' = [c \in Children |->
    LET said == {n.status : n \in {m \in notes : m.child = c}}
    IN IF said = {} THEN told[c] ELSE Append(told[c], said)]

\* The inline children's own answers, and a note by the record.
Answers == {[child |-> c, status |-> task[c].answer] : c \in {d \in calls : Inline(d)}}
Notes(S) == {[child |-> c, status |-> task[c].status] : c \in S}

\* The step's answers, and the inbox in the same turn.
EndStep ==
  /\ phase = "tools" /\ side = <<>> /\ CallsReturned
  /\ phase' = "open" /\ calls' = {} /\ inbox' = {} /\ Write
  /\ Tells(Answers \cup inbox)
  /\ UNCHANGED <<task, runs, queues, taken, client, host, emitted, losses>>

\* Background children that ended unreported.
Unreported == {c \in Children : task[c].status \in Ends /\ ~task[c].reported}

\* drainNotifications(), where the model would finish: the run goes on instead.
Notify ==
  /\ phase = "open" /\ Unreported # {}
  /\ task' = [c \in Children |-> IF c \in Unreported THEN [task[c] EXCEPT !.reported = TRUE] ELSE task[c]]
  /\ Tells(Notes(Unreported)) /\ Write
  /\ UNCHANGED <<run, queues, taken, client, inbox, host, emitted, losses>>

\* The inbox, likewise, after it.
DrainInbox ==
  /\ phase = "open" /\ Unreported = {} /\ inbox # {}
  /\ Tells(inbox) /\ inbox' = {} /\ Write
  /\ UNCHANGED <<task, run, queues, taken, client, host, emitted, losses>>

\* Nothing more to tell: the run finishes, unless a Stop hook or the self-check keeps it on.
Finish ==
  /\ phase = "open" /\ Unreported = {} /\ inbox = {}
  /\ phase' = "wrapping"
  /\ UNCHANGED <<task, runs, calls, queues, taken, chain, client, model, host, emitted, losses>>

KeptOn ==
  /\ phase = "wrapping"
  /\ phase' = "open" /\ Write
  /\ UNCHANGED <<task, runs, calls, queues, taken, client, model, host, emitted, losses>>

\* The last flush of a successful run drains the queue at once ...
DrainSide ==
  /\ phase = "wrapping"
  /\ phase' = "flushing" /\ taken' = side /\ side' = <<>>
  /\ UNCHANGED <<task, runs, calls, idle, chain, client, model, host, emitted, losses>>

\* ... and writes it one by one.
FlushTaken ==
  /\ phase = "flushing" /\ taken # <<>>
  /\ Flush(Head(taken)) /\ taken' = Tail(taken)
  /\ UNCHANGED <<task, run, queues, model, host, emitted, losses>>

\* The result; a run that is stopped has not flushed.
Result ==
  /\ phase = "open" \/ (phase = "flushing" /\ taken = <<>>)
  /\ phase' = "closing" /\ Write
  /\ UNCHANGED <<task, runs, calls, queues, taken, client, model, host, emitted, losses>>

\* A write of the run is refused, or its consumer leaves: what was in hand is gone.
Interrupt ==
  /\ plan.fails /\ phase \in {"open", "tools", "wrapping", "flushing"}
  /\ phase' = "closing" /\ calls' = {} /\ taken' = <<>>
  /\ \/ /\ cut' = cut \cup {taken[i] : i \in DOMAIN taken}
        /\ UNCHANGED side
     \/ /\ phase = "tools" /\ side # <<>>
        /\ cut' = cut \cup {Head(side)}
        /\ side' = Tail(side)
  /\ UNCHANGED <<task, runs, idle, chain, client, model, host, emitted, rejected>>

\* Mutant: the queue is emptied into the bus while the run still listens.
ReturnsLate == idle

\* Unsubscribed, what came after the run's last flush goes back through the bus.
Returns == idle \o side

Close ==
  /\ phase = "closing"
  /\ phase' = "idle" /\ side' = <<>> /\ idle' = Returns
  /\ UNCHANGED <<task, runs, calls, taken, chain, client, model, host, emitted, losses>>

-----------------------------------------------------------------------------
(* The bus, for a session that had no run when the event was raised.       *)

\* It reads the head for an event to keep ...
ReadHead ==
  /\ bus.step = "rest" /\ idle # <<>> /\ IsPersisted(Head(idle))
  /\ bus' = [step |-> "head", atHead |-> TRUE]
  /\ UNCHANGED <<task, run, queues, taken, tip, client, model, host, emitted, losses>>

\* ... appends it there, and what the run holds is the head no more ...
BusAppend ==
  /\ bus.step = "head"
  /\ log' = Append(log, Head(idle)) /\ tip' = FALSE /\ bus' = [step |-> "kept", atHead |-> FALSE]
  /\ UNCHANGED <<task, run, queues, taken, shown, model, host, emitted, losses>>

\* ... and tells the listeners, as at once of any other event.
Tell ==
  /\ idle # <<>>
  /\ bus.step = "kept" \/ (bus.step = "rest" /\ ~IsPersisted(Head(idle)))
  /\ shown' = Append(shown, [event |-> Head(idle), way |-> "bus"])
  /\ idle' = Tail(idle) /\ bus' = Resting
  /\ UNCHANGED <<task, run, side, taken, tip, log, model, host, emitted, losses>>

\* The append is refused: nobody hears of the event.
BusRefused ==
  /\ plan.fails /\ bus.step = "head"
  /\ cut' = cut \cup {Head(idle)} /\ idle' = Tail(idle) /\ bus' = Resting
  /\ UNCHANGED <<task, run, side, taken, tip, client, model, host, emitted, rejected>>

\* The host attaches the session's inbox, or detaches it.
HostChanges ==
  /\ hosts < plan.hosts /\ hosts' = hosts + 1 /\ attached' = ~attached
  /\ UNCHANGED <<task, run, queues, taken, chain, client, model, plan, emitted, losses>>

Next ==
  \/ \E c \in Children :
       \/ Mint(c) \/ Speak(c) \/ Steer(c) \/ Listen(c) \/ WrapUp(c) \/ SettledEnd(c) \/ Kill(c)
       \/ \E status \in {"done", "failed"} : Settle(c, status) \/ SettleInline(c, status)
  \/ \E S \in SUBSET Children : \E modes \in [S -> {"bg", "fg"}] : Call(S, modes)
  \/ RunStart \/ Reject \/ Leave \/ Open \/ FlushOne \/ EndStep \/ Notify \/ DrainInbox \/ Finish \/ KeptOn
  \/ DrainSide \/ FlushTaken \/ Result \/ Interrupt \/ Close
  \/ ReadHead \/ BusAppend \/ Tell \/ BusRefused \/ HostChanges

Spec == Init /\ [][Next]_vars
-----------------------------------------------------------------------------
(* Properties.                                                             *)

Events == [what : {"start", "word", "end"}, child : Children, outcome : {"none", "success", "cancelled", "error"}]
Tasks == [status : Statuses, mode : {"bg", "fg"}, reported : BOOLEAN, sid : BOOLEAN,
          steer : {"none", "queued", "heard"}, runner : {"none", "live", "wrapping", "settled", "ended"},
          answer : {"none", "done", "failed"}]

\* Every variable keeps its type.
TypeOK ==
  /\ task \in [Children -> Tasks]
  /\ phase \in Phases /\ runs \in Nat /\ calls \subseteq Children
  /\ side \in Seq(Events) /\ taken \in Seq(Events) /\ idle \in Seq(Events)
  /\ tip \in BOOLEAN /\ bus \in [step : {"rest", "head", "kept"}, atHead : BOOLEAN]
  /\ log \in Seq(Events) /\ shown \in Seq([event : Events, way : {"run", "bus"}])
  /\ inbox \subseteq [child : Children, status : Ends]
  /\ attached \in BOOLEAN /\ hosts \in Nat
  /\ told \in [Children -> Seq(SUBSET Statuses)]
  /\ emitted \in Seq([event : Events, run : Nat])
  /\ rejected \subseteq Nat /\ cut \subseteq Events /\ plan \in Plans

Count(s, e) == Cardinality({i \in DOMAIN s : s[i] = e})
Showings(e) == Cardinality({i \in DOMAIN shown : shown[i].event = e})

\* Where an event is: on its way, or shown.
Places(e) == Count(side, e) + Count(taken, e) + Count(idle, e) + Showings(e)

\* Written, but the listeners are not told yet.
InHand(e) == IF bus.step = "kept" /\ idle # <<>> /\ e = Head(idle) THEN 1 ELSE 0

\* Every event raised (task.ts:82) is on its way once or was shown once, and a
\* kept one is in the conversation once when it was shown, and not before it is
\* written; save what went with a run whose turn never began (agent.ts:735) and
\* what was in hand when a write was refused.
EventsKept ==
  \A i \in DOMAIN emitted :
    LET e == emitted[i].event IN
    /\ \/ Places(e) = 1
       \/ Places(e) = 0 /\ (emitted[i].run \in rejected \/ e \in cut)
    /\ IsPersisted(e) => Count(log, e) = Showings(e) + InHand(e)

\* When it was raised.
At(e) == CHOOSE i \in DOMAIN emitted : emitted[i].event = e

\* Events that go out the same way, on the stream or through the bus, keep the
\* order they were raised in (session-bus.ts:21, agent.ts:1527), those included
\* that a run hands back when it is over.
InOrder ==
  \A i, j \in DOMAIN shown :
    i < j /\ shown[i].way = shown[j].way => At(shown[i].event) < At(shown[j].event)

\* An event goes out once, and in its turn (session-bus.ts, task.ts:82).
OnceInOrder == EventsKept /\ InOrder

\* What there is to tell of a child: its record's word, or the answer of a killed inline one.
Word(c) == IF Inline(c) /\ task[c].status = "cancelled" THEN task[c].answer ELSE task[c].status

\* A child has one fate (background.ts:120): the model is told of its end at most
\* once, by the inbox, a note or the answer, whoever kills it meanwhile and
\* whenever the inbox is attached; what it is told, and the outcome on the
\* stream, are what the record says then and ever after.  But for an inline child
\* that was killed: its text or error is still the call's answer.
OneFate ==
  /\ \A c \in Children : Len(told[c]) + Cardinality({m \in inbox : m.child = c}) <= 1
  /\ \A c \in Children : \A i \in DOMAIN told[c] : told[c][i] = {Word(c)}
  /\ \A m \in inbox : m.status = task[m.child].status
  /\ \A i \in DOMAIN emitted :
       LET e == emitted[i].event IN e.what = "end" => e.outcome = Outcome(task[e.child].status)

-----------------------------------------------------------------------------
(* What the code does not keep.                                            *)

\* A child's end is written or on its way, whatever became of the run it met
\* (session-bus.ts:15), unless a write was refused.
EndsLand ==
  \A i \in DOMAIN emitted :
    LET e == emitted[i].event IN e.what = "end" => Places(e) = 1 \/ e \in cut

\* Guidance the record took is heard by a child that finishes (background.ts:159).
SteersHeard == \A c \in Children : task[c].status = "done" => task[c].steer # "queued"

\* The bus, and a run that opens, append under the conversation's last entry (session-bus.ts:14).
AtTheHead ==
  [][/\ bus.step = "head" /\ bus'.step = "kept" => bus.atHead
     /\ phase = "starting" /\ phase' = "open" => tip]_vars

\* "peek/steer/kill work the same" for inline children (task.ts:200), as for others: the
\* model is not given the result of one that was killed.
KillsAlike == \A c \in Children : \A i \in DOMAIN told[c] : told[c][i] = {task[c].status}

\* A session without a run reads as idle (agent.ts:760).
NobodyLeft == phase # "left"

\* At a step's boundary the model learns of every child that ended (background.ts:4).
ToldAtBoundary == [][phase = "tools" /\ phase' = "open" => Unreported = {}]_vars
=============================================================================
