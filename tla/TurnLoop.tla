------------------------------ MODULE TurnLoop ------------------------------
(***************************************************************************)
(* The turns of one session in src/packages/harness/src/loop/agent.ts:     *)
(* run(), resume() and approve(), the calls of a model's message, and what *)
(* an engine reads back from the log of a dead one.                        *)
(*                                                                         *)
(* The log holds the session's entries and its tool_started markers.  As   *)
(* DurableLog promises, entries become durable in order, and a crash keeps *)
(* a prefix of the log that has all that was waited for (acked).  Of the   *)
(* entries, those that move no turn are left out, the first one of a       *)
(* session too: a session is new while its log is empty.                   *)
(*                                                                         *)
(* A turn that is read back is the set of its positions in the log; the    *)
(* markers among them say nothing to its readers, which go by the kinds of *)
(* the entries.  A call is named by its position, <<entry, index>>.        *)
(***************************************************************************)
EXTENDS Naturals, Sequences, FiniteSets, FiniteSetsExt, SequencesExt

CONSTANTS
  Messages,   \* the tool calls of a message of the model: sequences of [id, ro]
  Worlds      \* what the host, its hooks and the provider may do

VARIABLES
  world, log, acked,
  eng,        \* the engine's place
  ran,        \* the calls whose effects happened, in order
  crashes

ASSUME TurnAssumption == \A m \in Messages : Len(m) \in Nat /\ DOMAIN m = 1..Len(m)

vars == <<world, log, acked, eng, ran, crashes>>

Authors == world.authors
ResumesFirst == world.resumesFirst  \* the host resumes a dead turn before it runs another
IdsRepeat == world.idsRepeat        \* the provider uses an id of an earlier message again
Rewrites == world.rewrites          \* a hook changes a held call, so that it is asked again
BatchParks == world.batchParks      \* a call of a read-only batch may park
MaxCrashes == world.crashes

\* Bound: the length of the log.
Room(n) == Len(log) + n <= world.entries

NoDecision == [index |-> 0, behavior |-> "none"]

Resting == [step |-> "resting", author |-> "human", from |-> 0, entry |-> 0, todo |-> {},
            settling |-> FALSE, double |-> FALSE, decided |-> NoDecision]

Init ==
  /\ world \in Worlds
  /\ log = <<>> /\ acked = 0
  /\ eng = Resting
  /\ ran = <<>> /\ crashes = 0

-----------------------------------------------------------------------------
(* log.                                                                *)

User(author, opens) == [kind |-> "user", author |-> author, opens |-> opens]
Assistant(calls) == [kind |-> "assistant", calls |-> calls]
Result(at, id, told) == [kind |-> "tool_result", at |-> at, id |-> id, told |-> told]
Marker(at) == [kind |-> "tool_started", at |-> at]
End == [kind |-> "end"]
Park(index, id) == [kind |-> "park", index |-> index, id |-> id]

\* The ids the provider gives; they repeat over messages only where the world says so.
IdOf(call, entry) == IF IdsRepeat THEN <<0, call.id>> ELSE <<entry, call.id>>

AppendIn(entries) == log' = log \o entries

-----------------------------------------------------------------------------
(* Reading a turn back, from the first n of the entries e.                 *)

MovesTurn(e, S) == \E i \in S : e[i].kind \in {"user", "assistant", "tool_result"}

LastEnd(e, n) == Max({0} \cup {i \in 1..n : e[i].kind \in {"end", "park"}})

LastAssistant(e, turn) == Max({0} \cup {i \in turn : e[i].kind = "assistant"})

DuplicateIds(calls) == \E i, j \in DOMAIN calls : i # j /\ calls[i].id = calls[j].id

\* The indices of the calls of the turn's last message that no result names.
Unanswered(e, turn) ==
  LET a == LastAssistant(e, turn)
  IN IF a = 0 THEN {}
     ELSE {k \in DOMAIN e[a].calls :
             ~\E i \in turn : i > a /\ e[i].kind = "tool_result" /\ e[i].id = e[a].calls[k].id}

\* The call that the park at p holds, the turn before it being given; 0 if there is none.
Held(e, p, turn) ==
  LET a == LastAssistant(e, turn)
      k == e[p].index
  IN IF e[p].kind = "park" /\ k \in Unanswered(e, turn)
        /\ e[a].calls[k].id = e[p].id /\ ~DuplicateIds(e[a].calls)
     THEN k ELSE 0

Opened(e, p, n) ==
  LET users == {i \in (p + 1)..n : e[i].kind = "user"}
  IN IF users = {} THEN {} ELSE Min(users)..n

\* Mutant: a turn always begins after the last end.
TurnsFromEnd(e) == [n \in 0..Len(e) |-> Opened(e, LastEnd(e, n), n)]

\* The turn in flight after n entries, those of fewer being given: since its first user entry after
\* the last end, or, once the call a park held has a result, the parked turn with what followed.
TurnAt(e, turns, n) ==
  LET p == LastEnd(e, n)
      settled == /\ p > 0
                 /\ Held(e, p, turns[p - 1]) # 0
                 /\ \E i \in (p + 1)..n : e[i].kind = "tool_result" /\ e[i].id = e[p].id
  IN IF settled THEN turns[p - 1] \cup (p + 1)..n ELSE Opened(e, p, n)

TurnsIn(e) ==
  LET turns[n \in 0..Len(e)] == TurnAt(e, turns, n) IN turns

InFlight(e) == TurnsIn(e)[Len(e)]

AfterPark(e) == (LastEnd(e, Len(e)) + 1)..Len(e)

\* The turn that the last end parked, and the call it holds.
ParkedTurn(e) == LET p == LastEnd(e, Len(e)) IN IF p = 0 THEN {} ELSE TurnsIn(e)[p - 1]
HeldCall(e) == LET p == LastEnd(e, Len(e)) IN IF p = 0 THEN 0 ELSE Held(e, p, ParkedTurn(e))

Settleable(e) == HeldCall(e) # 0 /\ ~MovesTurn(e, AfterPark(e))

Started(at) == \E i \in DOMAIN log : log[i].kind = "tool_started" /\ log[i].at = at

ToResume(e) ==
  CASE InFlight(e) # {} -> InFlight(e)
    [] Settleable(e) /\ Started(<<LastAssistant(e, ParkedTurn(e)), HeldCall(e)>>) ->
         ParkedTurn(e) \cup AfterPark(e)
    [] OTHER -> {}

-----------------------------------------------------------------------------
(* run(), resume() and approve().                                          *)

\* In a new session a SessionStart hook may seed a user entry.
Seeds == IF log = <<>> THEN {<<>>, <<User("system", FALSE)>>} ELSE {<<>>}

\* A UserPromptSubmit hook rejects the prompt.
Reject(seed) == Room(Len(seed)) /\ AppendIn(seed) /\ UNCHANGED eng

Prompt(seed, author) ==
  /\ Room(Len(seed) + 1)
  /\ AppendIn(Append(seed, User(author, TRUE)))
  /\ eng' = [Resting EXCEPT !.step = "top", !.author = author, !.from = Len(log) + Len(seed) + 1]

Run ==
  /\ eng.step = "resting"
  /\ ResumesFirst => ToResume(log) = {}
  /\ \E seed \in Seeds, author \in Authors : Reject(seed) \/ Prompt(seed, author)
  /\ UNCHANGED <<world, acked, ran, crashes>>

\* The author of the first user entry that is not the system's.
Asker(e, turn) ==
  LET people == {i \in turn : e[i].kind = "user" /\ e[i].author # "system"}
  IN IF people = {} THEN "human" ELSE e[Min(people)].author

\* A message of no calls that is the head is the answer: no model is called for it again.
Answered(e, turn) ==
  LET head == Max({i \in turn : MovesTurn(e, {i})})
  IN e[head].kind = "assistant" /\ e[head].calls = <<>>

Step(e, turn) ==
  CASE Unanswered(e, turn) # {} -> "call" [] Answered(e, turn) -> "answered" [] OTHER -> "top"

Continue(e, turn, decided) ==
  LET a == LastAssistant(e, turn)
  IN eng' = [step |-> Step(e, turn), author |-> Asker(e, turn), from |-> Min(turn), entry |-> a,
             todo |-> Unanswered(e, turn), settling |-> TRUE,
             double |-> a # 0 /\ DuplicateIds(e[a].calls), decided |-> decided]

Resume ==
  /\ eng.step = "resting"
  /\ ToResume(log) # {}
  /\ Continue(log, ToResume(log), NoDecision)
  /\ UNCHANGED <<world, log, acked, ran, crashes>>

Approve ==
  /\ eng.step = "resting"
  /\ Settleable(log)
  /\ \E behavior \in {"allow", "deny"} :
       Continue(log, ParkedTurn(log) \cup AfterPark(log),
                [index |-> HeldCall(log), behavior |-> behavior])
  /\ UNCHANGED <<world, log, acked, ran, crashes>>

-----------------------------------------------------------------------------
(* The calls of a message, or what a dead engine left of them.             *)

\* They are taken in their order.
Index == Min(eng.todo)
Calls == log[eng.entry].calls
ThisCall == Calls[Index]
Here == <<eng.entry, Index>>

AfterCall ==
  [eng EXCEPT !.step = IF eng.todo = {Index} THEN "top" ELSE "call", !.todo = @ \ {Index}]

Answer(told) == Room(1) /\ AppendIn(<<Result(Here, ThisCall.id, told)>>) /\ eng' = AfterCall

\* Mutant: what an earlier engine began is not looked for.
BegunNever == FALSE

Begun == eng.settling /\ Started(Here)

AtCall == eng.step = "call" /\ UNCHANGED <<world, acked, ran, crashes>>

Interrupt == AtCall /\ Begun /\ Answer("interrupted")

RefuseDouble == AtCall /\ ~Begun /\ eng.double /\ Answer("refused")

\* Read-only calls beside each other run as one step.
Batch ==
  /\ ~eng.settling /\ ~eng.double /\ Len(Calls) > 1
  /\ \A k \in DOMAIN Calls : Calls[k].ro

Executes == AtCall /\ ~Begun /\ ~eng.double /\ ~Batch

Decided == eng.decided.index = Index

\* A hook or the policy may deny any call.
Deny == Executes /\ Answer("denied")

\* A person's denial is final, unless a hook makes the call another: then it is as any call.
Allowed == Executes /\ (Decided /\ eng.decided.behavior = "deny" => Rewrites)

RunReadOnly == Allowed /\ ThisCall.ro /\ Answer("ran")

MarkStarted ==
  /\ Allowed /\ ~ThisCall.ro /\ Room(1)
  /\ AppendIn(<<Marker(Here)>>)
  /\ eng' = [eng EXCEPT !.step = "marking"]

ParkHere(k) ==
  /\ Room(1)
  /\ AppendIn(<<Park(k, Calls[k].id)>>)
  /\ eng' = Resting

ParkCall == Executes /\ (Decided => Rewrites) /\ ParkHere(Index)

\* Mutant: the tool does not wait for its marker.
MarkedAtOnce ==
  /\ eng.step = "marking"
  /\ eng' = [eng EXCEPT !.step = "started"]
  /\ UNCHANGED <<world, log, acked, ran, crashes>>

Marked ==
  /\ eng.step = "marking"
  /\ acked' = Len(log)
  /\ eng' = [eng EXCEPT !.step = "started"]
  /\ UNCHANGED <<world, log, ran, crashes>>

RunTool ==
  /\ eng.step = "started"
  /\ ran' = Append(ran, Here)
  /\ eng' = [eng EXCEPT !.step = "done"]
  /\ UNCHANGED <<world, log, acked, crashes>>

Record ==
  /\ eng.step = "done"
  /\ Answer("ran")
  /\ UNCHANGED <<world, acked, ran, crashes>>

RunBatch ==
  /\ AtCall /\ Batch /\ Room(Len(Calls))
  /\ AppendIn([k \in DOMAIN Calls |-> Result(<<eng.entry, k>>, Calls[k].id, "ran")])
  /\ eng' = [eng EXCEPT !.step = "top", !.todo = {}]

\* What the other calls of the batch gave is dropped.
ParkBatch == AtCall /\ Batch /\ BatchParks /\ \E k \in eng.todo : ParkHere(k)

-----------------------------------------------------------------------------
(* The loop.                                                               *)

CallModel ==
  /\ eng.step = "top" /\ Room(1)
  /\ \E message \in Messages :
       LET entry == Len(log) + 1
           calls == [k \in DOMAIN message |-> [id |-> IdOf(message[k], entry), ro |-> message[k].ro]]
       IN /\ AppendIn(<<Assistant(calls)>>)
          /\ eng' = [eng EXCEPT !.step = IF calls = <<>> THEN "answered" ELSE "call", !.entry = entry,
                                !.todo = DOMAIN calls, !.settling = FALSE,
                                !.double = DuplicateIds(calls), !.decided = NoDecision]
  /\ UNCHANGED <<world, acked, ran, crashes>>

Said == AppendIn(<<User("peer", FALSE)>>) /\ eng' = [eng EXCEPT !.step = "top"]

\* Steering, peers' messages and events that came while tools ran ride with the results.
FoldIn ==
  /\ eng.step = "top" /\ ~eng.settling /\ Last(log).kind = "tool_result"
  /\ Room(1) /\ Said
  /\ UNCHANGED <<world, acked, ran, crashes>>

\* Instead of an end: those, and the notes of a cut answer, a Stop hook and the self-check.
Inject ==
  /\ eng.step = "answered"
  /\ Room(1) /\ Said
  /\ UNCHANGED <<world, acked, ran, crashes>>

Ended == Room(1) /\ AppendIn(<<End>>) /\ eng' = Resting

Finish ==
  /\ eng.step = "answered" /\ Ended
  /\ UNCHANGED <<world, acked, ran, crashes>>

\* Cancelled, out of turns, or refused by the gateway.
Cancel ==
  /\ eng.step = "top" /\ Ended
  /\ UNCHANGED <<world, acked, ran, crashes>>

\* The gate stops the engine before a step, or the model's call throws: nothing is written.
Stop ==
  /\ eng.step \in {"top", "call", "answered"}
  /\ eng' = Resting
  /\ UNCHANGED <<world, log, acked, ran, crashes>>

Crash ==
  /\ crashes < MaxCrashes
  /\ crashes' = crashes + 1
  /\ \E n \in acked..Len(log) : log' = SubSeq(log, 1, n)
  /\ eng' = Resting
  /\ UNCHANGED <<world, acked, ran>>

Next ==
  \/ Run \/ Resume \/ Approve
  \/ Interrupt \/ RefuseDouble \/ Deny \/ RunReadOnly \/ MarkStarted \/ ParkCall
  \/ Marked \/ RunTool \/ Record \/ RunBatch \/ ParkBatch
  \/ CallModel \/ FoldIn \/ Inject \/ Finish \/ Cancel \/ Stop \/ Crash

Spec == Init /\ [][Next]_vars

-----------------------------------------------------------------------------
(* Properties.                                                             *)

\* A tool with effects runs at most once for a call, over any crashes, resumes and approvals
\* (markStarted, startedFrom, settlePending).
AtMostOnce == \A i, j \in DOMAIN ran : ran[i] = ran[j] => i = j

\* An effect that happened is on record in what a crash leaves (markStarted).
EffectOnRecord == \A i \in DOMAIN ran : Started(ran[i])

Results == {i \in DOMAIN log : log[i].kind = "tool_result"}

\* The results on record say of each call with effects what happened: one that ran is not called
\* denied or refused, one told as run has run, and no call has two results (settlePending,
\* executeTool, appendToolResult).
ResultTellsTruth ==
  \A i \in Results :
    LET call == log[log[i].at[1]].calls[log[i].at[2]]
    IN /\ ~call.ro /\ log[i].told \in {"denied", "refused"} => log[i].at \notin ToSet(ran)
       /\ ~call.ro /\ log[i].told = "ran" => log[i].at \in ToSet(ran)
       /\ \A j \in Results : log[i].at = log[j].at => i = j

\* The log tells what happened, an engine that died included.
RecordIsTrue == EffectOnRecord /\ ResultTellsTruth

\* The turn the engine is in was opened by one prompt.
OnePrompt == \A i \in (eng.from + 1)..Len(log) : log[i].kind = "user" => ~log[i].opens

\* The model is called only when each call of the turn's last message has its result, the turn of
\* a dead engine and a parked one included; each call of all its messages, where no prompt was run
\* over another's turn (turn, continueTurn).
AnsweredBeforeModel ==
  eng.step = "top" =>
    \A a \in eng.from..Len(log) :
      log[a].kind = "assistant" /\ (OnePrompt \/ a = LastAssistant(log, eng.from..Len(log))) =>
        \A k \in DOMAIN log[a].calls : \E i \in Results :
          log[i].at[1] = a /\ log[i].id = log[a].calls[k].id

Unfinished(e) == MovesTurn(e, AfterPark(e))

\* The log ends with a park, markers aside.
Parks ==
  LET p == LastEnd(log, Len(log))
  IN p > 0 /\ log[p].kind = "park" /\ \A i \in AfterPark(log) : log[i].kind = "tool_started"

\* The position of the call that the park at p asks about.
AskedAt(p) == <<LastAssistant(log, 1..p), log[p].index>>

\* The turn went on from a park with something else than the result of the call it asked about: it
\* asked again (executeTool), or did first what its batch had dropped (settlePending).
PassedOver ==
  \E p \in DOMAIN log :
    LET next == {i \in (p + 1)..Len(log) : log[i].kind # "tool_started"} IN
    /\ log[p].kind = "park" /\ next # {}
    /\ \A i \in (p + 1)..Len(log) : log[i].kind # "user"
    /\ ~(log[Min(next)].kind = "tool_result" /\ log[Min(next)].at = AskedAt(p))

\* Through parks, approvals, crashes and resumes, the turn an engine is in can be read back from its
\* first entry; and what is left of a turn in the log can be resumed, and a park can be answered, but
\* after a park that was passed over (inFlightTurn, settleableHeldCall, turnToResume): for those see
\* ParkAnswerable and NeverStuck.
TurnsSurvive ==
  /\ eng.step # "resting" => eng.from \in InFlight(log) \cup ParkedTurn(log)
  /\ eng.step = "resting" /\ ~PassedOver =>
       /\ Unfinished(log) => ToResume(log) # {}
       /\ Parks => Settleable(log)

\* A turn is read back whole: it can be resumed, and no call of it goes unanswered.
TurnsReadBack == AnsweredBeforeModel /\ TurnsSurvive

-----------------------------------------------------------------------------
(* What comments and tests of the code say and the code does not do.       *)

\* A resumed run is its asker's (resume.test.ts; inFlightTurn).
ResumedAsAsker ==
  eng.step # "resting" =>
    LET opening == {i \in DOMAIN log : log[i].kind = "user" /\ log[i].opens}
    IN opening # {} => eng.author = log[Max(opening)].author

\* A call that is asked again after its approval can be answered again (executeTool).
ParkAnswerable ==
  eng.step = "resting" /\ Parks => Settleable(log)

\* A turn that moved on after its park can be resumed (resume).
NeverStuck == eng.step = "resting" /\ Unfinished(log) => ToResume(log) # {}

\* A rejected prompt leaves no turn (run).
RejectedLeavesNoTurn ==
  eng.step = "resting" /\ crashes = 0 =>
    (InFlight(log) # {} => \E i \in DOMAIN log : log[i].kind = "user" /\ log[i].opens)
=============================================================================
