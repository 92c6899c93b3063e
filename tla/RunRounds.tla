----------------------------- MODULE RunRounds ------------------------------
(***************************************************************************)
(* The rounds of a run: what the model is sent at each of its calls, and   *)
(* what of the session's log it stands for.  A run loads its messages from *)
(* the log once (loop/messages.ts), and from then on keeps them beside it: *)
(* what it appends to the one it must put into the other.  The compaction  *)
(* (context/compaction.ts) replaces the older messages by a summary, in    *)
(* the run and, by a boundary in the log, for the loads to come.           *)
(*                                                                         *)
(* An item is the position in the log of the entry that says it.  A part   *)
(* of a message covers the items that can be read in it.  Sizes are        *)
(* abstract tokens.  Entries are as in TurnLoop, which models what an      *)
(* engine may do with a call and after a crash; its markers, repeated ids  *)
(* and hooks are left out here, and calls run one by one.                  *)
(***************************************************************************)
EXTENDS Naturals, Sequences, FiniteSets, FiniteSetsExt, SequencesExt

CONSTANT
  Worlds  \* how the session is configured, what its host does and what its model may say

VARIABLES
  world, log, crashes,
  messages,  \* what the run holds: sequence of [role, parts]
  eng        \* the run's place and its counters

vars == <<world, log, crashes, messages, eng>>

T == INSTANCE TurnLoop WITH Messages <- {}, acked <- 0, ran <- <<>>

-----------------------------------------------------------------------------
(* Entries and parts.                                                      *)

\* Bound: the length of the log.
Room(n) == Len(log) + n <= world.entries

User(author, why) ==
  [kind |-> "user", author |-> author, opens |-> why = "prompt", why |-> why]
Note(why) == User("system", why)
Assistant(calls, stop) == [kind |-> "assistant", calls |-> calls, stop |-> stop]
Result(call, ok) == [kind |-> "tool_result", id |-> call.id, tool |-> call.tool, size |-> call.size, ok |-> ok]
Boundary(items) == [kind |-> "compact", covers |-> items]
Rewound(to) == [kind |-> "rewind", to |-> to]

NoCall == <<0, 0>>
Part(is, call, covers, size) == [is |-> is, call |-> call, covers |-> covers, size |-> size]
Message(role, parts) == [role |-> role, parts |-> parts]

\* A batch of events is told from other text by its header.
Text(i, entry) == IF entry.why = "events" THEN Part("events", NoCall, {i}, 2) ELSE Part("text", NoCall, {i}, 1)
Summary(items) == Message("user", <<Part("text", NoCall, items, 1)>>)
Answer(i, entry) ==
  Message("assistant",
          <<Part("text", NoCall, {i}, 1)>> \o [k \in DOMAIN entry.calls |-> Part("use", entry.calls[k].id, {}, 0)])
Given(i, entry) == Part("result", entry.id, {i}, entry.size)

Uses(m) == {p \in ToSet(m.parts) : p.is = "use"}
Results(m) == {p \in ToSet(m.parts) : p.is = "result"}
Ids(parts) == {p.call : p \in parts}

Held(ms) == UNION {UNION {p.covers : p \in ToSet(ms[m].parts)} : m \in DOMAIN ms}

-----------------------------------------------------------------------------
(* Reading the log back: loop/messages.ts.                                 *)

\* effectiveEntries(): the positions that the rewinds leave.
Effective(l) ==
  LET Read(out, i) ==
        CASE l[i].kind # "rewind" -> Append(out, i)
          [] l[i].kind = "rewind" /\ l[i].to \in {0} \cup ToSet(out) -> SelectSeq(out, LAMBDA j : j <= l[i].to)
          [] OTHER -> out
  IN FoldLeft(Read, <<>>, [i \in DOMAIN l |-> i])

EntriesOf(l) == LET at == Effective(l) IN [k \in DOMAIN at |-> l[at[k]]]

\* A user entry right after results is folded into their message.
Replay(acc, i, entry) ==
  LET flushed == IF acc.pending = <<>> THEN acc.out ELSE Append(acc.out, Message("user", acc.pending))
  IN CASE entry.kind = "user" ->
            [out |-> Append(acc.out, Message("user", Append(acc.pending, Text(i, entry)))), pending |-> <<>>]
       [] entry.kind = "assistant" -> [out |-> Append(flushed, Answer(i, entry)), pending |-> <<>>]
       [] entry.kind = "tool_result" -> [acc EXCEPT !.pending = Append(@, Given(i, entry))]
       [] OTHER -> acc

\* The uses of message m that the next message does not answer.
Missing(ms, m) ==
  LET answered == IF m < Len(ms) THEN Ids(Results(ms[m + 1])) ELSE {}
  IN SelectSeq(ms[m].parts, LAMBDA p : p.is = "use" /\ p.call \notin answered)

\* healInterruptedTools(): an answer is made up for each, in the results' message if there is one.
Heal(ms) ==
  LET MadeUp(m) == [k \in DOMAIN Missing(ms, m) |-> Part("result", Missing(ms, m)[k].call, {}, 1)]
      Merges(m) == m < Len(ms) /\ Results(ms[m + 1]) # {}
      Healed(m) ==
        CASE Missing(ms, m) # <<>> /\ ~Merges(m) -> <<ms[m], Message("user", MadeUp(m))>>
          [] m > 1 /\ Missing(ms, m - 1) # <<>> /\ Merges(m - 1) ->
               <<[ms[m] EXCEPT !.parts = MadeUp(m - 1) \o @]>>
          [] OTHER -> <<ms[m]>>
  IN FlattenSeq([m \in DOMAIN ms |-> Healed(m)])

\* loadMessages(): the summary of the last boundary, and what follows it.
Load(l) ==
  LET at == Effective(l)
      start == Max({0} \cup {k \in DOMAIN at : l[at[k]].kind = "compact"})
      seed == IF start = 0 THEN <<>> ELSE <<Summary(l[at[start]].covers)>>
      read == FoldLeft(LAMBDA acc, i : Replay(acc, i, l[i]), [out |-> seed, pending |-> <<>>],
                       SubSeq(at, start + 1, Len(at)))
  IN Heal(IF read.pending = <<>> THEN read.out ELSE Append(read.out, Message("user", read.pending)))

-----------------------------------------------------------------------------
(* Compaction: context/compaction.ts.                                      *)

SizeOf(ms) ==
  FoldLeft(LAMBDA n, m : n + FoldLeft(LAMBDA k, p : k + p.size, 0, m.parts), 0, ms)

\* The estimate, or what the gateway counted in the run's last request.
Occupancy(ms, floor) == Max({SizeOf(ms), floor})

\* The size from which an old result is cleared.
Large == 3

Stub(p) ==
  CASE p.is = "events" -> Part("text", NoCall, {}, 1)
    [] p.is = "result" /\ p.size >= Large -> [p EXCEPT !.covers = {}, !.size = 1]
    [] OTHER -> p

Micro(ms, keep) ==
  [m \in DOMAIN ms |->
     IF m + keep > Len(ms) \/ ms[m].role # "user" THEN ms[m]
     ELSE [ms[m] EXCEPT !.parts = [k \in DOMAIN @ |-> Stub(@[k])]]]

\* Mutant: any message may begin the recent part.
CutAnywhere(ms, most) == Max({0} \cup (1..Min({most, Len(ms) - 1})))

\* How many messages may go at most, so that the rest begins with the model's.
FindCut(ms, most) ==
  Max({0} \cup {c \in 1..Len(ms) : c <= most /\ c < Len(ms) /\ ms[c + 1].role = "assistant"})

Recent(ms, cut) == SubSeq(ms, cut + 1, Len(ms))

\* Messages beyond the length kept may go; else fewer are kept, if they fit.
Cut(ms, floor) ==
  LET Most(k) == IF Len(ms) > k THEN Len(ms) - k ELSE 0
      plain == FindCut(ms, Most(world.keep))
      Fits(k) == LET c == FindCut(ms, Most(k)) IN c > 0 /\ Occupancy(Recent(ms, c), floor) <= world.budget
      fitting == {k \in 1..(world.keep - 1) : Fits(k)}
  IN IF plain > 0 THEN plain ELSE IF fitting = {} THEN 0 ELSE FindCut(ms, Most(Max(fitting)))

\* Mutant: the last message that goes is not in the summary.
ShortOlder(ms, cut) == SubSeq(ms, 1, cut - 1)

\* What is summarised: the messages that go, as they are after the clearing.
Older(ms, cut) == SubSeq(ms, 1, cut)

\* maybeCompact(): the messages to go on with, and how they came about.
MaybeCompact(ms, floor) ==
  LET micro == Micro(ms, world.keep)
      cut == Cut(micro, floor)
      covered == Held(Older(micro, cut))
      As(how, result, covers) == [how |-> how, messages |-> result, covers |-> covers]
  IN CASE Occupancy(ms, floor) <= world.budget -> As("none", ms, {})
       [] Occupancy(micro, floor) <= world.budget -> As("micro", micro, {})
       [] OTHER ->
            IF cut > 0 THEN As("summary", <<Summary(covered)>> \o Recent(micro, cut), covered)
            ELSE IF Occupancy(micro, floor) < Occupancy(ms, floor) THEN As("micro", micro, {})
            ELSE As("none", ms, {})

-----------------------------------------------------------------------------
(* A run begins: run(), resume(), approve().                               *)

Resting ==
  [step |-> "resting", author |-> "human", at |-> 0, entry |-> 0, todo |-> <<>>, turns |-> 0, edits |-> 0,
   checked |-> FALSE, selfCheck |-> FALSE, churn |-> FALSE, recoveries |-> 0, blocks |-> 0, floor |-> 0]

Init ==
  /\ world \in Worlds
  /\ log = <<>> /\ crashes = 0 /\ messages = <<>> /\ eng = Resting

Turn == T!InFlight(EntriesOf(log))

ModelCalls(e, turn) == Cardinality({i \in turn : e[i].kind = "assistant"})

\* Mutant: a resumed turn is counted from nothing.
CountNothing(e, turn) == [turns |-> 0, edits |-> 0, checked |-> FALSE]

ResultsOf(e, turn, tool) == {i \in turn : e[i].kind = "tool_result" /\ e[i].tool = tool /\ e[i].ok}

\* countTurn(): an edit that failed is none, a check that could not run is none.
CountTurn(e, turn) ==
  [turns |-> ModelCalls(e, turn), edits |-> Cardinality(ResultsOf(e, turn, "edit")),
   checked |-> ResultsOf(e, turn, "check") # {}]

\* turn(): the messages are loaded from log l once the entries before the first round are in it.
Enter(l, author, resumed) ==
  LET e == EntriesOf(l)
      turn == T!InFlight(e)
      answered == resumed /\ T!Answered(e, turn)
      counted == IF resumed THEN CountTurn(e, turn) ELSE CountNothing(e, turn)
  IN /\ messages' = Load(l)
     /\ eng' = [Resting EXCEPT !.step = IF answered THEN "answered" ELSE "top", !.author = author, !.at = Len(l),
                               !.turns = IF answered THEN counted.turns - 1 ELSE counted.turns,
                               !.entry = Max({0} \cup {i \in ToSet(Effective(l)) : l[i].kind = "assistant"}),
                               !.edits = counted.edits, !.checked = counted.checked]

Rests == eng.step = "resting" /\ UNCHANGED <<world, crashes>>

Run ==
  /\ Rests /\ Room(1)
  /\ world.resumesFirst => Turn = {}
  /\ log' = Append(log, User("human", "prompt"))
  /\ Enter(log', "human", FALSE)

\* The turn is continued where no call of it is open; else its calls are settled first.
Continue(turn) ==
  LET e == EntriesOf(log)
      open == T!Unanswered(e, turn)
      author == T!Asker(e, turn)
  IN IF open = {} THEN Enter(log, author, TRUE)
     ELSE /\ eng' = [Resting EXCEPT !.step = "settling", !.author = author,
                                    !.entry = Effective(log)[T!LastAssistant(e, turn)],
                                    !.todo = SetToSortSeq(open, <)]
          /\ UNCHANGED messages

Resume == Rests /\ Turn # {} /\ Continue(Turn) /\ UNCHANGED log

Approve ==
  LET e == EntriesOf(log) IN
  /\ Rests /\ T!Settleable(e)
  /\ Continue(T!ParkedTurn(e) \cup T!AfterPark(e))
  /\ UNCHANGED log

Dropped == messages' = <<>> /\ eng' = Resting

\* What the turns before left, summarised; the context may be rebuilt from memory behind it.
CompactManually ==
  LET ms == Load(log) IN
  /\ Rests /\ world.compacts # "never" /\ Len(ms) >= 2
  /\ world.compacts = "settled" => Turn = {} /\ ~T!Settleable(EntriesOf(log))
  /\ Room(2)
  /\ \E rebuilt \in {<<>>, <<Note("memory")>>} :
       log' = log \o <<Boundary(Held(ms))>> \o IF world.rebuilds THEN rebuilt ELSE <<>>
  /\ UNCHANGED <<messages, eng>>

\* The host takes the session back to before a prompt.
Rewind ==
  /\ Rests /\ world.rewinds /\ Room(1)
  /\ \E i \in ToSet(Effective(log)) :
       /\ log[i].kind = "user" /\ log[i].why = "prompt"
       /\ log' = Append(log, Rewound(Max({0} \cup {j \in ToSet(Effective(log)) : j < i})))
  /\ UNCHANGED <<messages, eng>>

-----------------------------------------------------------------------------
(* The calls of a message, or what a dead engine left of them.             *)

ThisCall == log[eng.entry].calls[Head(eng.todo)]

AtCall == eng.step \in {"settling", "calls"} /\ Room(1) /\ UNCHANGED <<world, crashes>>

\* After the last one the results are gathered, or a resumed turn's messages loaded.
Settle ==
  /\ AtCall
  /\ \E ok \in IF ThisCall.tool = "look" THEN {TRUE} ELSE BOOLEAN :
       log' = Append(log, Result(ThisCall, ok))
  /\ IF eng.step = "settling" /\ Len(eng.todo) = 1 THEN Enter(log', eng.author, TRUE)
     ELSE /\ eng' = [eng EXCEPT !.todo = Tail(@), !.step = IF Len(eng.todo) = 1 THEN "gathering" ELSE @]
          /\ UNCHANGED messages

Ends(entry) == Room(1) /\ log' = Append(log, entry) /\ Dropped

Park == AtCall /\ world.parks /\ Ends(T!Park(Head(eng.todo), ThisCall.id))

-----------------------------------------------------------------------------
(* A round.                                                                *)

AtStep(s) == eng.step = s /\ UNCHANGED <<world, crashes>>

Says(why) == User(IF why = "steer" THEN eng.author ELSE IF why = "peer" THEN "peer" ELSE "system", why)

\* Entries that are also put into the messages, each as one of its own.
AppendSaid(ms, entries) ==
  /\ Room(Len(entries))
  /\ log' = log \o entries
  /\ messages' = ms \o [k \in DOMAIN entries |-> Message("user", <<Text(Len(log) + k, entries[k])>>)]

Spent ==
  /\ eng.step \in {"top", "answered"} /\ eng.turns >= world.turns
  /\ Ends(T!End)
  /\ UNCHANGED <<world, crashes>>

\* Or the gateway refused the call.
Cancelled == eng.step \in {"top", "answered", "model"} /\ world.cancels /\ Ends(T!End) /\ UNCHANGED <<world, crashes>>

Nudges(turns) == IF world.every > 0 /\ turns % world.every = 0 THEN <<Note("checkpoint")>> ELSE <<>>

\* The messages are compacted where they have to be, and the checkpoint note is due.
BeginRound ==
  /\ AtStep("top") /\ eng.turns < world.turns
  /\ eng' = [eng EXCEPT !.turns = @ + 1, !.step = "model"]
  /\ LET c == IF world.auto THEN MaybeCompact(messages, eng.floor) ELSE [how |-> "none", messages |-> messages]
         nudges == Nudges(eng.turns + 1)
         Goes(rebuilt) ==
           /\ Room(1 + Len(rebuilt) + Len(nudges))
           /\ log' = log \o <<Boundary(c.covers)>> \o rebuilt \o nudges
           /\ messages' = c.messages \o [k \in DOMAIN (rebuilt \o nudges) |->
                            Message("user", <<Text(Len(log) + 1 + k, (rebuilt \o nudges)[k])>>)]
     IN IF c.how # "summary" THEN AppendSaid(c.messages, nudges)
        ELSE \E rebuilt \in IF world.rebuilds THEN {<<>>, <<Note("memory")>>} ELSE {<<>>} : Goes(rebuilt)

\* The answer of a dead engine is not asked for again; nothing is compacted or noted before it.
BeginAnswered ==
  /\ AtStep("answered") /\ eng.turns < world.turns
  /\ eng' = [eng EXCEPT !.turns = @ + 1, !.step = "finishing"]
  /\ UNCHANGED <<log, messages>>

\* The gateway counts what it was sent, and may count more than the estimate.
CallModel ==
  /\ AtStep("model") /\ Room(1)
  /\ \E said \in world.says, stop \in world.stops :
       LET i == Len(log) + 1
           entry == Assistant([k \in DOMAIN said |-> [id |-> <<i, k>>, ro |-> FALSE, tool |-> said[k].tool, size |-> said[k].size]], stop)
       IN /\ log' = Append(log, entry)
          /\ messages' = Append(messages, Answer(i, entry))
          /\ eng' = [eng EXCEPT !.step = IF said = <<>> THEN "finishing" ELSE "calls", !.entry = i,
                                !.todo = [k \in DOMAIN said |-> k], !.floor = SizeOf(messages) + world.uncounted]

ResultsHere == {i \in DOMAIN log : i > eng.entry /\ log[i].kind = "tool_result"}

\* The self-check and the breaker leave the end to a Stop hook where there is one.
Watches == ~world.stopHook

\* A result that is too large is condensed in the messages alone.
Condensed(p) == IF world.condenses /\ p.size >= Large THEN [p EXCEPT !.size = 1] ELSE p

\* What came while the calls ran rides with their results, the breaker's note too, which no
\* entry tells.
Gather ==
  /\ AtStep("gathering")
  /\ LET done == SetToSortSeq(ResultsHere, <)
         Count(tool) == Cardinality({i \in ResultsHere : log[i].tool = tool /\ log[i].ok})
         edits == IF Watches THEN eng.edits + Count("edit") ELSE eng.edits
         churns == Watches /\ ~eng.churn /\ edits >= world.churn
         results == [k \in DOMAIN done |-> Condensed(Given(done[k], log[done[k]]))]
         note == IF churns THEN <<Part("text", NoCall, {}, 1)>> ELSE <<>>
     IN \E came \in world.arrive :
          LET entries == [k \in DOMAIN came |-> Says(came[k])]
              texts == [k \in DOMAIN came |-> Text(Len(log) + k, entries[k])]
          IN /\ Room(Len(came))
             /\ log' = log \o entries
             /\ messages' = Append(messages, Message("user", results \o note \o texts))
             /\ eng' = [eng EXCEPT !.step = "top", !.edits = edits, !.churn = @ \/ churns,
                                   !.checked = @ \/ (Watches /\ Count("check") > 0)]

-----------------------------------------------------------------------------
(* The end of a run, or a reason to go on.                                 *)

Recoveries == 3

Cutoff == log[eng.entry].stop = "max_tokens" /\ eng.recoveries < Recoveries

GoOn(whys) == AppendSaid(messages, [k \in DOMAIN whys |-> Says(whys[k])])

Recover ==
  /\ AtStep("finishing") /\ Cutoff
  /\ GoOn(<<"cut">>)
  /\ eng' = [eng EXCEPT !.step = "top", !.recoveries = @ + 1]

\* Peers' messages, or steers, or notices, or a batch of events.
HearOut ==
  /\ AtStep("finishing") /\ ~Cutoff
  /\ \E came \in world.arrive :
       /\ came # <<>> /\ \A k \in DOMAIN came : came[k] = came[1]
       /\ GoOn(came)
  /\ eng' = [eng EXCEPT !.step = "top"]

StopRuns == world.stopHook /\ eng.blocks < world.blocks

Blocked ==
  /\ AtStep("finishing") /\ ~Cutoff /\ StopRuns
  /\ GoOn(<<"verification">>)
  /\ eng' = [eng EXCEPT !.step = "top", !.blocks = @ + 1]

SelfChecks == Watches /\ ~eng.selfCheck /\ eng.edits >= world.minEdits /\ ~eng.checked

SelfCheck ==
  /\ AtStep("finishing") /\ ~Cutoff /\ SelfChecks
  /\ GoOn(<<"self-check">>)
  /\ eng' = [eng EXCEPT !.step = "top", !.selfCheck = TRUE]

Finish == AtStep("finishing") /\ ~Cutoff /\ ~SelfChecks /\ Ends(T!End)

\* The gate stops the engine before a step, or the model's call or a summary fails.
Stop ==
  /\ eng.step \in {"top", "answered", "model", "calls", "settling", "finishing"}
  /\ world.fails
  /\ Dropped
  /\ UNCHANGED <<world, log, crashes>>

\* The last of what was appended may be lost with the engine.
Crash ==
  /\ crashes < world.crashes
  /\ crashes' = crashes + 1
  /\ \E n \in 0..Len(log) : log' = SubSeq(log, 1, n)
  /\ Dropped
  /\ UNCHANGED world

Next ==
  \/ Run \/ Resume \/ Approve \/ CompactManually \/ Rewind
  \/ Settle \/ Park
  \/ Spent \/ Cancelled \/ BeginRound \/ BeginAnswered \/ CallModel \/ Gather
  \/ Recover \/ HearOut \/ Blocked \/ SelfCheck \/ Finish \/ Stop \/ Crash

Spec == Init /\ [][Next]_vars

-----------------------------------------------------------------------------
(* Properties.                                                             *)

\* What the model is sent is a conversation that it accepts: the person begins, each use of a tool
\* is answered once in the very next message, and no result answers anything else; over folds,
\* heals, clearings, summaries, boundaries, parks, crashes and resumes (messages.ts,
\* compaction.ts).
Paired(ms) ==
  /\ ms # <<>> /\ ms[1].role = "user"
  /\ \A m \in DOMAIN ms :
       /\ Uses(ms[m]) # {} => m < Len(ms) /\ Ids(Uses(ms[m])) = Ids(Results(ms[m + 1]))
       /\ Results(ms[m]) # {} => m > 1 /\ Ids(Results(ms[m])) = Ids(Uses(ms[m - 1]))
       /\ Cardinality(Ids(Results(ms[m]))) = Len(SelectSeq(ms[m].parts, LAMBDA p : p.is = "result"))

SentIsPaired == eng.step = "model" => Paired(messages)

\* The items that stay: not the batches of events and the results, which are cleared on purpose.
Lasting(e, at) ==
  {at[k] : k \in {j \in DOMAIN at : e[j].kind = "assistant" \/ (e[j].kind = "user" /\ e[j].why # "events")}}

\* Nothing said is forgotten.  What the model is sent has, in words or in a summary, all that the
\* run loaded and all that was appended since; and where no run compacted by itself, what is loaded
\* has all that the rewinds left (turn, maybeCompact, loadMessages).
NothingForgotten ==
  LET there == Lasting(EntriesOf(log), Effective(log))
      loaded == Held(Load(SubSeq(log, 1, eng.at)))
  IN /\ eng.step = "model" =>
          \A i \in there : i > eng.at \/ i \in loaded => i \in Held(messages)
     /\ ~world.auto => there \subseteq Held(Load(log))

\* A turn makes no more calls to the model than it may, all its engines together (countTurn).
TurnWithinBudget ==
  LET e == EntriesOf(log) IN
  ModelCalls(e, T!InFlight(e)) <= world.turns /\ ModelCalls(e, T!ParkedTurn(e)) <= world.turns

-----------------------------------------------------------------------------
(* What comments of the code say and the code does not do.                 *)

\* What is before a boundary is represented by its summary (messages.ts:13).
ReloadKeepsAll == Lasting(EntriesOf(log), Effective(log)) \subseteq Held(Load(log))

Shape(ms) == [m \in DOMAIN ms |-> <<ms[m].role, UNION {p.covers : p \in ToSet(ms[m].parts)}>>]

\* Live and reloaded context match (agent.ts:1457).
LiveIsReloaded == ~world.auto /\ eng.step = "model" => Shape(messages) = Shape(Load(log))

\* A user message follows one of the model's (messages.ts:65).
Alternates ==
  eng.step = "model" =>
    \A m \in 1..(Len(messages) - 1) : messages[m].role # messages[m + 1].role

\* The self-check is one-shot, over the engines of a turn too (agent.ts:837, 1319).
OnceATurn ==
  LET e == EntriesOf(log) IN
  Cardinality({i \in T!InFlight(e) : e[i].kind = "user" /\ e[i].why = "self-check"}) <= 1

\* Where fewer messages kept would fit, they are cut to fit (compaction.ts:168).
CutsWhenItCan ==
  LET micro == Micro(messages, world.keep)
      Short(k) == FindCut(micro, IF Len(micro) > k THEN Len(micro) - k ELSE 0)
  IN /\ eng.step = "top" /\ world.auto
     /\ \E k \in 1..(world.keep - 1) : Short(k) > 0 /\ SizeOf(Recent(micro, Short(k))) <= world.budget
     => MaybeCompact(messages, eng.floor).how = "summary" \/ SizeOf(MaybeCompact(messages, eng.floor).messages) <= world.budget

\* A compaction never parts a use of a tool from its result (compaction.ts:9), when it is asked
\* for by hand as well.
CompactedIsPaired == world.compacts = "always" => SentIsPaired

\* A turn that a run was begun over can be resumed: each use is answered (messages.ts:92).
ResumedIsPaired == ~world.resumesFirst => SentIsPaired
=============================================================================
