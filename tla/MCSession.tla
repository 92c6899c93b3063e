----------------------------- MODULE MCSession ------------------------------
(***************************************************************************)
(* A session's files and what is made of them, over one state graph:       *)
(* LocalStore keeps the entries and RunRounds loads them; beside them are  *)
(* the checkpoints, the plan of tasks, a workflow's flows, the client that *)
(* reads the store's log, and the language servers.  A behaviour is of one *)
(* side; the others' variables rest, at a plan that asks nothing of them.  *)
(***************************************************************************)
EXTENDS LocalStore

CONSTANTS
  RoundWorlds, \* of RunRounds
  Desks,       \* of Checkpoints
  TaskPlans,   \* of TaskTracker
  Flows,       \* of Workflow
  Asks,        \* of StoreReader
  Benches,     \* of LanguageServer
  Absent, Torn

VARIABLES
  side,
  world, log, messages, eng, engineCrashes,
  desk, disk, turns, files, editing, rewinding, found, restored, spoiled, writes, deskCrashes, deskFailures,
  tasks, items, seq, timer, saved, told, safe, lost, created, updates, taskFailures, taskCrashes,
  flow, item, micro, active, waiters, spawned, spent, cache, again, reruns,
  ask, stored, call, clock, ran, answer, events, last, wire, buf, pendingCr, ends,
  bench, text, clients, manager, asker, answers, asks, deaths, closes

\* What the theorems need of the bounds.
ASSUME BenchesAssumption == \A b \in Benches : IsFiniteSet(b.askers)
ASSUME DesksAssumption ==
  \A d \in Desks :
    /\ d.turns \in Nat /\ d.writes \in Nat
    /\ \A t \in 1..d.turns :
         /\ Torn # [turn |-> t]
         /\ \A p \in d.paths, c \in (0..d.writes) \cup {Absent} : Torn # [turn |-> t, path |-> p, blob |-> c]
ASSUME FlowsAssumption ==
  \A f \in Flows :
    /\ f.items \in Nat /\ f.maxAgents \in Nat /\ f.budget \in Nat
    /\ f.stages \in Nat \ {0} /\ f.limit \in Nat \ {0}

Rounds == INSTANCE RunRounds WITH Worlds <- RoundWorlds, crashes <- engineCrashes
Checks == INSTANCE Checkpoints WITH crashes <- deskCrashes, failures <- deskFailures
Tasks == INSTANCE TaskTracker WITH Plans <- TaskPlans, plan <- tasks, file <- saved,
                                   crashes <- taskCrashes, failures <- taskFailures
Work == INSTANCE Workflow
Client == INSTANCE StoreReader WITH log <- stored, now <- clock, told <- answer
Server == INSTANCE LanguageServer WITH disk <- text, live <- manager

-----------------------------------------------------------------------------
(* The files.                                                              *)

CONSTANTS p1, p2, run, bus, exporter, s1, s2, j1, j2, j3, m1, m2

None ==
  [entries |-> 0, crashes |-> 0, busy |-> FALSE,
   jobs |-> {}, letters |-> {}, procs |-> {}]

\* A conversation of one writer, and of two, whose engine dies; a registry for one
\* process and for two, which die; a mailbox with two that drain it.
Chat == [None EXCEPT !.entries = 4, !.crashes = 2]
Pair == [None EXCEPT !.entries = 3, !.crashes = 1, !.busy = TRUE]
Clerk == [None EXCEPT !.jobs = {j1, j2, j3}, !.procs = {p1}, !.crashes = 1]
Clerks == [None EXCEPT !.jobs = {j1, j2}, !.procs = {p1, p2}, !.crashes = 1]
Post == [None EXCEPT !.letters = {m1, m2}, !.crashes = 1]
AllPlans == {None, Chat, Pair, Clerk, Clerks, Post}

-----------------------------------------------------------------------------
(* The runs.                                                               *)

Call(tool, size) == [tool |-> tool, size |-> size]
Done == <<>>
Edit == <<Call("edit", 1)>>
Check == <<Call("check", 1)>>
Read1 == <<Call("look", 1)>>
Bulk == <<Call("look", 4)>>
Both == <<Call("edit", 1), Call("look", 1)>>

\* A session of short turns, with nothing on.
Plain ==
  [resumesFirst |-> TRUE, entries |-> 7, turns |-> 3, crashes |-> 0,
   says |-> {Done, Both}, stops |-> {"end"}, arrive |-> {<<>>},
   auto |-> FALSE, budget |-> 0, keep |-> 2, uncounted |-> 0, condenses |-> FALSE,
   compacts |-> "never", rebuilds |-> FALSE, rewinds |-> FALSE, every |-> 0,
   stopHook |-> FALSE, blocks |-> 0, minEdits |-> 9, churn |-> 9,
   parks |-> FALSE, cancels |-> FALSE, fails |-> FALSE]

\* Long turns under a small window: cleared, summarised, rebuilt.
Window ==
  [Plain EXCEPT !.auto = TRUE, !.budget = 6, !.says = {Done, Bulk, Both}, !.entries = 10, !.turns = 4, !.crashes = 1, !.parks = TRUE,
                !.arrive = {<<>>, <<"events">>}, !.rebuilds = TRUE]
Tight == [Window EXCEPT !.budget = 4, !.keep = 3, !.uncounted = 1, !.every = 2, !.parks = FALSE, !.arrive = {<<>>}]

\* Several engines over one turn, and parks that are answered or not.
Dying == [Plain EXCEPT !.crashes = 2, !.parks = TRUE, !.fails = TRUE, !.cancels = TRUE, !.turns = 2, !.entries = 9]

\* Compaction by hand and rewinds, between turns.
Edited == [Plain EXCEPT !.fails = TRUE, !.compacts = "settled", !.rebuilds = TRUE, !.rewinds = TRUE, !.parks = TRUE, !.turns = 2, !.entries = 10]

\* Reasons to go on.
Pressed ==
  [Plain EXCEPT !.says = {Done, Edit, Check}, !.stops = {"end", "max_tokens"}, !.minEdits = 1, !.churn = 2, !.entries = 9,
                !.turns = 4, !.arrive = {<<>>, <<"steer">>, <<"steer", "steer">>, <<"peer", "events">>}]
Verified == [Pressed EXCEPT !.stopHook = TRUE, !.blocks = 2, !.arrive = {<<>>}, !.crashes = 1, !.condenses = TRUE, !.says = {Done, Bulk}]

SoundWorlds == {Window, Tight, Dying, Edited, Pressed, Verified}

LooseWorlds ==
  {Window, Tight, [Edited EXCEPT !.compacts = "always"],
   [Dying EXCEPT !.resumesFirst = FALSE], [Pressed EXCEPT !.crashes = 1],
   [Tight EXCEPT !.budget = 5, !.keep = 6, !.every = 0, !.entries = 7]}
-----------------------------------------------------------------------------

(* What is beside them.                                                    *)

NoDesk ==
  [paths |-> {}, editors |-> {}, turns |-> 0, writes |-> 0, crashes |-> 0, failures |-> 0]
NoTasks == [tasks |-> 0, updates |-> 0, failures |-> 0, crashes |-> 0]
NoFlow == [items |-> 0, stages |-> 1, limit |-> 1, maxAgents |-> 0, budget |-> 0, reruns |-> 0]
NoAsk ==
  [op |-> "none", log |-> 0, grows |-> 0, cut |-> 1, breaks |-> <<>>, waits |-> {}, ends |-> 0,
   budget |-> 0, timeout |-> 0]
NoBench == [askers |-> {}, asks |-> 0, edits |-> 0, deaths |-> 0, fails |-> FALSE, closes |-> 0]

\* Two files, and restores that fail; two agents at one file, and a crash.
TwoFiles ==
  [NoDesk EXCEPT !.paths = {p1, p2}, !.editors = {run}, !.turns = 2, !.writes = 3, !.failures = 1]
TwoEditors == [TwoFiles EXCEPT !.paths = {p1}, !.editors = {run, bus}, !.crashes = 1, !.failures = 0]
AllDesks == {NoDesk, TwoFiles, TwoEditors}

OnePlan == {NoTasks, [tasks |-> 3, updates |-> 2, failures |-> 1, crashes |-> 2]}

\* A parallel() that is run again; pipelines over few slots, agents or tokens.
Fan == [items |-> 4, stages |-> 1, limit |-> 2, maxAgents |-> 9, budget |-> 9, reruns |-> 1]
Pipe == [Fan EXCEPT !.stages = 2, !.maxAgents = 7, !.reruns = 0]
Single == [Fan EXCEPT !.items = 3, !.stages = 2, !.limit = 1, !.budget = 3]
SoundFlows == {NoFlow, Fan, Pipe, Single}
LooseFlows == {NoFlow, [Pipe EXCEPT !.reruns = 1]}

\* Calls of either kind under a budget; a log in pages; a stream, by its line breaks.
Renew == [NoAsk EXCEPT !.op = "renew", !.waits = {0, 4}, !.budget = 8, !.timeout = 5]
Read == [Renew EXCEPT !.op = "readAll", !.log = 3, !.grows = 2, !.cut = 2]
Follow(breaks) == [Read EXCEPT !.op = "stream", !.log = 1, !.breaks = breaks, !.ends = 2]
AllAsks ==
  LET LF == <<"LF">> CR == <<"CR">>
  IN {NoAsk, Renew, [Renew EXCEPT !.op = "append"], Read, Follow(<<LF>>), Follow(<<CR>>), Follow(<<CR, LF>>)}

\* Two agents that ask of one file, whose server dies, or whose start fails.
Editors == [askers |-> {run, bus}, asks |-> 4, edits |-> 2, deaths |-> 1, fails |-> FALSE, closes |-> 0]
Starts == [Editors EXCEPT !.asks = 3, !.edits = 1, !.fails = TRUE, !.closes = 1]
AllBenches == {NoBench, Editors, Starts}
-----------------------------------------------------------------------------

rounds == <<world, log, messages, eng, engineCrashes>>

RoundsRest ==
  world = Null /\ log = <<>> /\ messages = <<>> /\ eng = Null /\ engineCrashes = 0

\* Each side begins; all but one at a plan that asks nothing.
SessionInit ==
  /\ Init /\ Checks!Init /\ Tasks!Init /\ Work!Init /\ Client!Init /\ Server!Init
  /\ IF plan = None /\ desk = NoDesk /\ tasks = NoTasks /\ flow = NoFlow /\ ask = NoAsk /\ bench = NoBench
     THEN side = "rounds" /\ Rounds!Init
     ELSE /\ RoundsRest
          /\ side \in {"files", "desk", "tasks", "flow", "client", "server"}
          /\ (side # "files") = (plan = None) /\ (side # "desk") = (desk = NoDesk)
          /\ (side # "tasks") = (tasks = NoTasks) /\ (side # "flow") = (flow = NoFlow)
          /\ (side # "client") = (ask = NoAsk) /\ (side # "server") = (bench = NoBench)

OfFiles == vars
OfDesk == <<desk, disk, turns, files, editing, rewinding, found, restored, spoiled, writes, deskCrashes, deskFailures>>
OfTasks == <<tasks, items, seq, timer, saved, told, safe, lost, created, updates, taskFailures, taskCrashes>>
OfFlow == <<flow, item, micro, active, waiters, spawned, spent, cache, again, reruns>>
OfClient == <<ask, stored, call, clock, ran, answer, events, last, wire, buf, pendingCr, ends>>
OfServer == <<bench, text, clients, manager, asker, answers, asks, deaths, closes>>

Files(A) == side = "files" /\ A /\ UNCHANGED <<side, rounds, OfDesk, OfTasks, OfFlow, OfClient, OfServer>>
Run(A) == side = "rounds" /\ A /\ UNCHANGED <<side, OfFiles, OfDesk, OfTasks, OfFlow, OfClient, OfServer>>
AtDesk(A) == side = "desk" /\ A /\ UNCHANGED <<side, OfFiles, rounds, OfTasks, OfFlow, OfClient, OfServer>>
OfPlan(A) == side = "tasks" /\ A /\ UNCHANGED <<side, OfFiles, rounds, OfDesk, OfFlow, OfClient, OfServer>>
InFlow(A) == side = "flow" /\ A /\ UNCHANGED <<side, OfFiles, rounds, OfDesk, OfTasks, OfClient, OfServer>>
Asked(A) == side = "client" /\ A /\ UNCHANGED <<side, OfFiles, rounds, OfDesk, OfTasks, OfFlow, OfServer>>
OfBench(A) == side = "server" /\ A /\ UNCHANGED <<side, OfFiles, rounds, OfDesk, OfTasks, OfFlow, OfClient>>

FilesNext ==
  \/ \E a \in Actors : Files(AskHead(a)) \/ Files(ReadLastLine(a)) \/ Files(CacheHead(a)) \/ Files(AppendEntry(a))
  \/ \E a \in Actors \cup {Reader} : Files(FlushMore(a))
  \/ Files(Timer) \/ Files(Write) \/ Files(AskTail) \/ Files(TailOn)
  \/ \E p \in Procs :
       \/ Files(Migrate(p)) \/ Files(ReadLegacy(p)) \/ Files(WriteSplit(p)) \/ Files(RenameLegacy(p))
       \/ Files(StartListing(p)) \/ Files(CacheListing(p)) \/ Files(ExpireListing(p))
       \/ \E r \in Records : Files(SplitRecord(p, r)) \/ Files(ListRecord(p, r))
       \/ \E j \in Jobs, r \in Records : Files(CallPatch(p, j, r))
       \/ Files(Claim(p)) \/ Files(ReadClaim(p)) \/ Files(RemoveClaim(p))
       \/ Files(CrashClerk(p)) \/ Files(CrashDrain(p))
  \/ \E j \in Jobs : Files(GetInLine(j)) \/ Files(LoadRecord(j)) \/ Files(WriteRecord(j))
  \/ \E m \in Letters : Files(OpenBox(m)) \/ Files(WriteLetter(m))
  \/ Files(CrashEngine)

RoundsNext ==
  \/ Run(Rounds!Run) \/ Run(Rounds!Resume) \/ Run(Rounds!Approve)
  \/ Run(Rounds!CompactManually) \/ Run(Rounds!Rewind)
  \/ Run(Rounds!Settle) \/ Run(Rounds!Park)
  \/ Run(Rounds!Spent) \/ Run(Rounds!Cancelled) \/ Run(Rounds!BeginRound)
  \/ Run(Rounds!BeginAnswered) \/ Run(Rounds!CallModel) \/ Run(Rounds!Gather)
  \/ Run(Rounds!Recover) \/ Run(Rounds!HearOut) \/ Run(Rounds!Blocked)
  \/ Run(Rounds!SelfCheck) \/ Run(Rounds!Finish) \/ Run(Rounds!Stop) \/ Run(Rounds!Crash)

DeskNext ==
  \/ AtDesk(Checks!BeginTurn) \/ AtDesk(Checks!RestoreFiles) \/ AtDesk(Checks!ForgetTurns)
  \/ AtDesk(Checks!ForgetFiles) \/ AtDesk(Checks!Crash)
  \/ \E e \in desk.editors :
       \/ AtDesk(Checks!ReadLedger(e)) \/ AtDesk(Checks!TakePreImage(e)) \/ AtDesk(Checks!RecordTouch(e)) \/ AtDesk(Checks!Edit(e))
       \/ \E p \in desk.paths : AtDesk(Checks!Snapshot(e, p))
  \/ \E t \in 1..desk.turns : AtDesk(Checks!StartRewind(t))

TasksNext ==
  \/ OfPlan(Tasks!Create) \/ OfPlan(Tasks!Timer) \/ OfPlan(Tasks!Exit) \/ OfPlan(Tasks!Crash)
  \/ \E id \in DOMAIN items : OfPlan(Tasks!Update(id))

FlowNext ==
  \/ InFlow(Work!Settle) \/ InFlow(Work!Rerun)
  \/ \E i \in 1..flow.items :
       InFlow(Work!Call(i)) \/ InFlow(Work!Wake(i)) \/ InFlow(Work!Return(i)) \/ InFlow(Work!Throw(i))

ClientNext ==
  \/ Asked(Client!Grow) \/ Asked(Client!NoAnswer) \/ Asked(Client!Busy) \/ Asked(Client!Errs)
  \/ Asked(Client!Refuses) \/ Asked(Client!Retry) \/ Asked(Client!Answers) \/ Asked(Client!Abort)
  \/ Asked(Client!Page) \/ Asked(Client!Connect) \/ Asked(Client!StreamGrows) \/ Asked(Client!Chunk)
  \/ Asked(Client!StreamEnds)

ServerNext ==
  \/ OfBench(Server!CloseAll) \/ OfBench(Server!EditFile)
  \/ \E a \in bench.askers :
       \/ OfBench(Server!Ask(a)) \/ OfBench(Server!Answer(a))
       \/ OfBench(Server!RequestTimesOut(a)) \/ OfBench(Server!WaitEnds(a))
  \/ \E c \in DOMAIN clients :
       \/ OfBench(Server!Boots(c)) \/ OfBench(Server!BootFails(c)) \/ OfBench(Server!Publish(c))
       \/ OfBench(Server!Dies(c)) \/ OfBench(Server!ExitSeen(c))

SessionNext == FilesNext \/ RoundsNext \/ DeskNext \/ TasksNext \/ FlowNext \/ ClientNext \/ ServerNext

SessionSpec ==
  SessionInit /\ [][SessionNext]_<<side, rounds, OfFiles, OfDesk, OfTasks, OfFlow, OfClient, OfServer>>

-----------------------------------------------------------------------------
(* The properties.                                                         *)

\* The conversation's log is one chain but for what a stale head forks, and a reader with a cursor has every line once
\* and in order: of a file whose writers die inside lines (LocalStore), and of the store's log in pages and chunks,
\* asked for again only where that is safe (StoreReader).
LogKept ==
  /\ TailExact /\ ChainKept
  /\ side = "client" => Client!ClientAccounted

\* What processes share stays whole, but for what one overwrites or writes late: patches, sessions, letters (LocalStore).
SharedKept == RegistryKept /\ LettersKept

\* What is kept beside the conversation comes back: a rewind's files (Checkpoints), a saved plan (TaskTracker).
KeptBeside ==
  /\ side = "desk" => Checks!RewindRestores
  /\ side = "tasks" => Tasks!PlanSurvives

\* No slot is idle while a flow waits, and what was recorded is replayed (Workflow); no question waits for a
\* server that has exited, and each is answered by one that was sent its text (LanguageServer).
WaitersServed ==
  /\ side = "flow" => Work!WorkflowAccounted
  /\ side = "server" => Server!QuestionsServed

\* A rewind leaves ledgers that agree (Checkpoints).
LedgersAgree == side = "desk" => Checks!LedgersAgree

\* A crash costs the ledger one line (Checkpoints).
LedgerReads == side = "desk" => Checks!LedgerReads

\* A number names one task (TaskTracker).
IdsStable == side = "tasks" => Tasks!IdsStable

\* No more agents run than the limit says (Workflow).
BoundKept == side = "flow" => Work!BoundKept

\* What was recorded is not run again (Workflow).
RerunReplays == side = "flow" => Work!RerunReplays

\* A server that runs is the manager's, or was asked to end (LanguageServer).
OneServer == side = "server" => Server!OneServer

\* Diagnostics that come while they are waited for are of the text asked about (LanguageServer).
FreshBatch == side = "server" => Server!FreshBatch

\* What the model is sent is a conversation that it accepts (RunRounds).
SentIsPaired == side = "rounds" => Rounds!SentIsPaired

\* Nothing said is forgotten (RunRounds).
NothingForgotten == side = "rounds" => Rounds!NothingForgotten

\* A turn makes no more model calls than it may (RunRounds).
TurnWithinBudget == side = "rounds" => Rounds!TurnWithinBudget

\* What a boundary hides is in its summary (RunRounds).
ReloadKeepsAll == side = "rounds" => Rounds!ReloadKeepsAll

\* Live and reloaded context match (RunRounds).
LiveIsReloaded == side = "rounds" => Rounds!LiveIsReloaded

\* A user message follows one of the model's (RunRounds).
Alternates == side = "rounds" => Rounds!Alternates

\* The self-check is one-shot (RunRounds).
OnceATurn == side = "rounds" => Rounds!OnceATurn

\* Fewer messages are kept where only that fits (RunRounds).
CutsWhenItCan == side = "rounds" => Rounds!CutsWhenItCan

\* A compaction by hand parts no use from its result (RunRounds).
CompactedIsPaired == side = "rounds" => Rounds!CompactedIsPaired

\* A turn that a run was begun over resumes with each use answered (RunRounds).
ResumedIsPaired == side = "rounds" => Rounds!ResumedIsPaired
=============================================================================
