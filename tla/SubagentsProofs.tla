-------------------------- MODULE SubagentsProofs ---------------------------
(***************************************************************************)
(* Theorems about Subagents, for any Children and any Plans:               *)
(*   SubagentsTypeCorrect  every variable keeps its type;                  *)
(*   ChildHasOneFate       the model is told of a child's end at most      *)
(*                         once, and of what the record says ever after;   *)
(*   OutOnceAndInTurn      what is raised goes out once, and in its turn.  *)
(*                                                                         *)
(* OneFate is not inductive: that what was told stays true needs that an   *)
(* ended record changes no more, and that it is told once needs to know    *)
(* of whom nobody can have been told yet.  Fate says the latter, record by *)
(* record, and Ended that an end on the stream is of a record that ended.  *)
(* Nor is OnceInOrder: the invariant OInv has the order of all the queues  *)
(* at once (InTurn), an account of every event, raised or not (Kept), and  *)
(* which run the events of its queue were raised to (OfTheRun).            *)
(***************************************************************************)
EXTENDS Subagents, TLAPS, FiniteSetTheorems

Unmailed(c) == \A m \in inbox : m.child # c

\* What is so of a child's record, of what was told of it, and of its mail.
FateOf(c) ==
  /\ Live(c) => task[c].status \in {"running", "cancelled"}
  /\ task[c].runner \in {"settled", "ended"} => task[c].status \in Ends
  /\ task[c].status \notin Ends => told[c] = <<>> /\ Unmailed(c)
  /\ ~task[c].reported => told[c] = <<>> /\ Unmailed(c)
  /\ Inline(c) => task[c].reported /\ Unmailed(c) /\ task[c].runner # "settled"
  /\ Inline(c) /\ (c \in calls \/ Live(c)) => told[c] = <<>>
  /\ Inline(c) /\ task[c].runner = "ended" => task[c].answer # "none" /\ task[c].answer = Word(c)
  /\ told[c] = <<>> \/ told[c] = <<{Word(c)}>>
  /\ \A m \in inbox : m.child = c => m.status = task[c].status /\ told[c] = <<>>

Fate == \A c \in Children : FateOf(c)

\* An end on the stream is of a record that ended, and says how.
Ended ==
  \A i \in DOMAIN emitted :
    LET e == emitted[i].event
    IN e.what = "end" => task[e.child].status \in Ends /\ e.outcome = Outcome(task[e.child].status)

\* The bus is at work on the first event in line.
InLine == bus.step # "rest" => idle # <<>>

IInv == TypeOK /\ InLine /\ Fate /\ Ended

-----------------------------------------------------------------------------
(* Types.                                                                  *)

\* Adding to a sequence and taking its head off keep its type.
LEMMA AppendTyped ==
  ASSUME NEW S, NEW s \in Seq(S), NEW x \in S PROVE Append(s, x) \in Seq(S)
OBVIOUS

LEMMA AppendFilled ==
  ASSUME NEW S, NEW s \in Seq(S), NEW x \in S PROVE Append(s, x) # <<>>
<1>1. Len(Append(s, x)) = Len(s) + 1 /\ Len(s) \in Nat /\ Len(<<>>) = 0
  OBVIOUS
<1> QED BY <1>1

LEMMA TailTyped ==
  ASSUME NEW S, NEW s \in Seq(S), s # <<>> PROVE Tail(s) \in Seq(S) /\ Head(s) \in S
OBVIOUS

LEMMA ElementTyped ==
  ASSUME NEW S, NEW s \in Seq(S), NEW i \in DOMAIN s PROVE s[i] \in S
OBVIOUS

LEMMA ConcatTyped ==
  ASSUME NEW S, NEW s \in Seq(S), NEW t \in Seq(S) PROVE s \o t \in Seq(S)
OBVIOUS

\* Emissions, of whatever event, keep the types of the queues.
LEMMA RaiseTyped ==
  ASSUME TypeOK, NEW e \in Events, Raise(e)
  PROVE  /\ side' \in Seq(Events) /\ idle' \in Seq(Events)
         /\ emitted' \in Seq([event : Events, run : Nat])
<1>1. side \in Seq(Events) /\ idle \in Seq(Events) /\ emitted \in Seq([event : Events, run : Nat]) /\ runs \in Nat
  BY DEF TypeOK
<1>2. [event |-> e, run |-> IF Subscribed THEN runs ELSE 0] \in [event : Events, run : Nat]
  BY <1>1
<1>3. emitted' \in Seq([event : Events, run : Nat])
  <2>1. emitted' = Append(emitted, [event |-> e, run |-> IF Subscribed THEN runs ELSE 0])
    BY DEF Raise
  <2> QED BY <1>1, <1>2, <2>1, AppendTyped
<1>4. Append(side, e) \in Seq(Events) /\ Append(idle, e) \in Seq(Events)
  BY <1>1, AppendTyped
<1>5. side' \in Seq(Events) /\ idle' \in Seq(Events)
  <2>1. CASE Subscribed
    <3>1. side' = Append(side, e) /\ idle' = idle
      BY <2>1 DEF Raise
    <3> QED BY <1>1, <1>4, <3>1
  <2>2. CASE ~Subscribed
    <3>1. idle' = Append(idle, e) /\ side' = side
      BY <2>2 DEF Raise
    <3> QED BY <1>1, <1>4, <3>1
  <2> QED BY <2>1, <2>2
<1> QED BY <1>3, <1>5

\* An event that goes out keeps the types of the conversation and of what is shown.
LEMMA FlushTyped ==
  ASSUME TypeOK, NEW e \in Events, Flush(e)
  PROVE  /\ tip' \in BOOLEAN /\ bus' \in [step : {"rest", "head", "kept"}, atHead : BOOLEAN]
         /\ log' \in Seq(Events) /\ shown' \in Seq([event : Events, way : {"run", "bus"}])
<1>1. /\ tip \in BOOLEAN /\ bus \in [step : {"rest", "head", "kept"}, atHead : BOOLEAN]
      /\ log \in Seq(Events) /\ shown \in Seq([event : Events, way : {"run", "bus"}])
  BY DEF TypeOK
<1>2. shown' \in Seq([event : Events, way : {"run", "bus"}])
  <2>1. shown' = Append(shown, [event |-> e, way |-> "run"])
    BY DEF Flush
  <2>2. [event |-> e, way |-> "run"] \in [event : Events, way : {"run", "bus"}]
    OBVIOUS
  <2> QED BY <1>1, <2>1, <2>2, AppendTyped
<1>3. /\ tip' \in BOOLEAN /\ bus' \in [step : {"rest", "head", "kept"}, atHead : BOOLEAN]
      /\ log' \in Seq(Events)
  <2>1. CASE IsPersisted(e)
    <3>1. tip' = TRUE /\ bus' = [bus EXCEPT !.atHead = FALSE] /\ log' = Append(log, e)
      BY <2>1 DEF Flush, Write
    <3>2. log' \in Seq(Events)
      BY <1>1, <3>1, AppendTyped
    <3>3. bus' \in [step : {"rest", "head", "kept"}, atHead : BOOLEAN]
      BY <1>1, <3>1
    <3> QED BY <3>1, <3>2, <3>3
  <2>2. CASE ~IsPersisted(e)
    <3>1. chain' = chain /\ log' = log
      BY <2>2 DEF Flush
    <3> QED BY <1>1, <3>1 DEF chain
  <2> QED BY <2>1, <2>2
<1> QED BY <1>2, <1>3

\* The run's own entry keeps the types of the chain.
LEMMA WriteTyped ==
  ASSUME TypeOK, Write
  PROVE  tip' \in BOOLEAN /\ bus' \in [step : {"rest", "head", "kept"}, atHead : BOOLEAN]
BY DEF TypeOK, Write

\* What the model is told keeps its type.
LEMMA TellsTyped ==
  ASSUME TypeOK, NEW notes \in SUBSET [child : Children, status : Statuses], Tells(notes)
  PROVE  told' \in [Children -> Seq(SUBSET Statuses)]
<1> DEFINE said(c) == {n.status : n \in {m \in notes : m.child = c}}
<1>1. ASSUME NEW c \in Children PROVE said(c) \in SUBSET Statuses
  OBVIOUS
<1>2. ASSUME NEW c \in Children PROVE (IF said(c) = {} THEN told[c] ELSE Append(told[c], said(c))) \in Seq(SUBSET Statuses)
  <2> HIDE DEF said
  <2> QED BY <1>1, <1>2 DEF TypeOK
<1>3. told' = [c \in Children |-> IF said(c) = {} THEN told[c] ELSE Append(told[c], said(c))]
  BY DEF Tells
<1> HIDE DEF said
<1> QED BY <1>2, <1>3

\* What is told is of the children, in the words of their records and answers.
LEMMA NotesTyped ==
  ASSUME TypeOK
  PROVE  /\ Answers \cup inbox \in SUBSET [child : Children, status : Statuses]
         /\ inbox \in SUBSET [child : Children, status : Statuses]
         /\ \A S \in SUBSET Children : Notes(S) \in SUBSET [child : Children, status : Statuses]
<1>1. inbox \in SUBSET [child : Children, status : Statuses]
  BY DEF TypeOK, Statuses
<1>2. \A c \in Children : task[c].status \in Statuses /\ task[c].answer \in Statuses
  BY DEF TypeOK, Tasks, Statuses, Ends
<1>3. calls \subseteq Children
  BY DEF TypeOK
<1> QED BY <1>1, <1>2, <1>3 DEF Answers, Notes

\* What a child's step may raise is an event, and a record stays a record.
LEMMA EventTyped ==
  ASSUME NEW c \in Children, NEW what \in {"start", "word", "end"},
         NEW outcome \in {"none", "success", "cancelled", "error"}
  PROVE  Event(what, c, outcome) \in Events
BY DEF Event, Events

LEMMA OutcomeTyped ==
  ASSUME NEW status PROVE Outcome(status) \in {"success", "cancelled", "error"}
BY DEF Outcome

LEMMA RaiseEndTyped ==
  ASSUME TypeOK, NEW c \in Children, NEW status, RaiseEnd(c, status)
  PROVE  /\ side' \in Seq(Events) /\ idle' \in Seq(Events)
         /\ emitted' \in Seq([event : Events, run : Nat])
<1>1. Event("end", c, Outcome(status)) \in Events
  BY EventTyped, OutcomeTyped
<1>2. CASE task[c].sid
  <2>1. Raise(Event("end", c, Outcome(status)))
    BY <1>2 DEF RaiseEnd
  <2> QED BY <1>1, <2>1, RaiseTyped
<1>3. CASE ~task[c].sid
  <2>1. UNCHANGED <<queues, emitted>>
    BY <1>3 DEF RaiseEnd
  <2> QED BY <2>1 DEF queues, TypeOK
<1> QED BY <1>2, <1>3

USE DEF run, queues, chain, client, model, host, losses

\* The records after a child's step are records.
LEMMA ChildTyped ==
  ASSUME TypeOK, NEW c \in Children, NEW status \in {"done", "failed"},
         Mint(c) \/ Speak(c) \/ Steer(c) \/ Listen(c) \/ WrapUp(c) \/ SettledEnd(c) \/ Kill(c)
           \/ Settle(c, status) \/ SettleInline(c, status)
  PROVE  task' \in [Children -> Tasks]
<1>1. task \in [Children -> Tasks] /\ task[c] \in Tasks
  BY DEF TypeOK
<1>2. CASE Mint(c)
  BY <1>1, <1>2 DEF Mint, Tasks
<1>3. CASE Speak(c)
  BY <1>1, <1>3 DEF Speak
<1>4. CASE Steer(c)
  BY <1>1, <1>4 DEF Steer, Tasks
<1>5. CASE Listen(c)
  BY <1>1, <1>5 DEF Listen, Tasks
<1>6. CASE WrapUp(c)
  BY <1>1, <1>6 DEF WrapUp, Tasks
<1>7. CASE SettledEnd(c)
  BY <1>1, <1>7 DEF SettledEnd, Tasks
<1>8. CASE Kill(c)
  BY <1>1, <1>8 DEF Kill, Tasks, Statuses, Ends
<1>9. CASE Settle(c, status)
  BY <1>1, <1>9 DEF Settle, Recorded, Claims, Pushes, Running, Tasks, Statuses, Ends
<1>10. CASE SettleInline(c, status)
  BY <1>1, <1>10 DEF SettleInline, Recorded, Tasks, Statuses, Ends
<1> QED BY <1>2, <1>3, <1>4, <1>5, <1>6, <1>7, <1>8, <1>9, <1>10

LEMMA InitTyped == Init => TypeOK
<1> SUFFICES ASSUME Init PROVE TypeOK
  OBVIOUS
<1>1. task \in [Children -> Tasks]
  BY DEF Init, NewTask, Tasks, Statuses
<1>2. told \in [Children -> Seq(SUBSET Statuses)]
  <2>1. <<>> \in Seq(SUBSET Statuses)
    OBVIOUS
  <2> QED BY <2>1 DEF Init
<1>3. phase \in Phases /\ runs \in Nat /\ calls \subseteq Children /\ hosts \in Nat
  BY DEF Init, Phases
<1>4. /\ side \in Seq(Events) /\ taken \in Seq(Events) /\ idle \in Seq(Events) /\ log \in Seq(Events)
      /\ shown \in Seq([event : Events, way : {"run", "bus"}])
      /\ emitted \in Seq([event : Events, run : Nat])
  BY DEF Init
<1>5. tip \in BOOLEAN /\ bus \in [step : {"rest", "head", "kept"}, atHead : BOOLEAN]
  BY DEF Init, Resting
<1> QED BY <1>1, <1>2, <1>3, <1>4, <1>5 DEF Init, TypeOK

\* A child's step keeps every type.
LEMMA ChildStepTyped ==
  ASSUME TypeOK, NEW c \in Children, NEW status \in {"done", "failed"},
         Mint(c) \/ Speak(c) \/ Steer(c) \/ Listen(c) \/ WrapUp(c) \/ SettledEnd(c) \/ Kill(c)
           \/ Settle(c, status) \/ SettleInline(c, status)
  PROVE  TypeOK'
<1>1. task' \in [Children -> Tasks]
  BY ChildTyped
<1>2. CASE Mint(c)
  <2>1. Event("start", c, "none") \in Events
    BY EventTyped
  <2>2. /\ side' \in Seq(Events) /\ idle' \in Seq(Events)
        /\ emitted' \in Seq([event : Events, run : Nat])
    BY <1>2, <2>1, RaiseTyped DEF Mint
  <2> QED BY <1>1, <1>2, <2>2 DEF Mint, TypeOK
<1>3. CASE Speak(c)
  <2>1. Event("word", c, "none") \in Events
    BY EventTyped
  <2>2. /\ side' \in Seq(Events) /\ idle' \in Seq(Events)
        /\ emitted' \in Seq([event : Events, run : Nat])
    BY <1>3, <2>1, RaiseTyped DEF Speak
  <2> QED BY <1>1, <1>3, <2>2 DEF Speak, TypeOK
<1>4. CASE Steer(c)
  BY <1>1, <1>4 DEF Steer, TypeOK
<1>5. CASE Listen(c)
  BY <1>1, <1>5 DEF Listen, TypeOK
<1>6. CASE WrapUp(c)
  BY <1>1, <1>6 DEF WrapUp, TypeOK
<1>7. CASE SettledEnd(c)
  <2>1. /\ side' \in Seq(Events) /\ idle' \in Seq(Events)
        /\ emitted' \in Seq([event : Events, run : Nat])
    BY <1>7, RaiseEndTyped DEF SettledEnd
  <2> QED BY <1>1, <1>7, <2>1 DEF SettledEnd, TypeOK
<1>8. CASE Kill(c)
  BY <1>1, <1>8 DEF Kill, TypeOK
<1>9. CASE Settle(c, status)
  <2>1. inbox' \subseteq [child : Children, status : Ends]
    BY <1>9 DEF Settle, TypeOK, Ends
  <2> QED BY <1>1, <1>9, <2>1 DEF Settle, TypeOK
<1>10. CASE SettleInline(c, status)
  <2>1. /\ side' \in Seq(Events) /\ idle' \in Seq(Events)
        /\ emitted' \in Seq([event : Events, run : Nat])
    BY <1>10, RaiseEndTyped DEF SettleInline
  <2> QED BY <1>1, <1>10, <2>1 DEF SettleInline, TypeOK
<1> QED BY <1>2, <1>3, <1>4, <1>5, <1>6, <1>7, <1>8, <1>9, <1>10

\* A step of the run keeps every type.
LEMMA RunStepTyped ==
  ASSUME TypeOK,
         RunStart \/ Reject \/ Leave \/ Open \/ FlushOne \/ EndStep \/ Notify \/ DrainInbox \/ Finish
           \/ KeptOn \/ DrainSide \/ FlushTaken \/ Result \/ Interrupt \/ Close
  PROVE  TypeOK'
<1> USE DEF Phases
<1>0. <<>> \in Seq(Events)
  OBVIOUS
<1>1. CASE RunStart
  BY <1>0, <1>1 DEF RunStart, TypeOK
<1>2. CASE Reject
  BY <1>0, <1>2 DEF Reject, TypeOK
<1>3. CASE Leave
  BY <1>3, WriteTyped DEF Leave, TypeOK
<1>4. CASE Open
  BY <1>4, WriteTyped DEF Open, TypeOK
<1>5. CASE FlushOne
  <2>1. Head(side) \in Events /\ Tail(side) \in Seq(Events)
    BY <1>5, TailTyped DEF FlushOne, TypeOK
  <2>2. /\ tip' \in BOOLEAN /\ bus' \in [step : {"rest", "head", "kept"}, atHead : BOOLEAN]
        /\ log' \in Seq(Events) /\ shown' \in Seq([event : Events, way : {"run", "bus"}])
    BY <1>5, <2>1, FlushTyped DEF FlushOne
  <2> QED BY <1>5, <2>1, <2>2 DEF FlushOne, TypeOK
<1>6. CASE EndStep
  <2>1. told' \in [Children -> Seq(SUBSET Statuses)]
    BY <1>6, TellsTyped, NotesTyped DEF EndStep
  <2>2. tip' \in BOOLEAN /\ bus' \in [step : {"rest", "head", "kept"}, atHead : BOOLEAN]
    BY <1>6, WriteTyped DEF EndStep
  <2> QED BY <1>6, <2>1, <2>2 DEF EndStep, TypeOK
<1>7. CASE Notify
  <2>1. told' \in [Children -> Seq(SUBSET Statuses)]
    BY <1>7, TellsTyped, NotesTyped DEF Notify, Unreported
  <2>2. tip' \in BOOLEAN /\ bus' \in [step : {"rest", "head", "kept"}, atHead : BOOLEAN]
    BY <1>7, WriteTyped DEF Notify
  <2>3. task' \in [Children -> Tasks]
    <3>1. ASSUME NEW c \in Children PROVE [task[c] EXCEPT !.reported = TRUE] \in Tasks /\ task[c] \in Tasks
      BY <3>1 DEF TypeOK, Tasks
    <3> QED BY <1>7, <3>1 DEF Notify
  <2> QED BY <1>7, <2>1, <2>2, <2>3 DEF Notify, TypeOK
<1>8. CASE DrainInbox
  <2>1. told' \in [Children -> Seq(SUBSET Statuses)]
    BY <1>8, TellsTyped, NotesTyped DEF DrainInbox
  <2>2. tip' \in BOOLEAN /\ bus' \in [step : {"rest", "head", "kept"}, atHead : BOOLEAN]
    BY <1>8, WriteTyped DEF DrainInbox
  <2> QED BY <1>8, <2>1, <2>2 DEF DrainInbox, TypeOK
<1>9. CASE Finish
  BY <1>9 DEF Finish, TypeOK
<1>10. CASE KeptOn
  BY <1>10, WriteTyped DEF KeptOn, TypeOK
<1>11. CASE DrainSide
  BY <1>0, <1>11 DEF DrainSide, TypeOK
<1>12. CASE FlushTaken
  <2>1. Head(taken) \in Events /\ Tail(taken) \in Seq(Events)
    BY <1>12, TailTyped DEF FlushTaken, TypeOK
  <2>2. /\ tip' \in BOOLEAN /\ bus' \in [step : {"rest", "head", "kept"}, atHead : BOOLEAN]
        /\ log' \in Seq(Events) /\ shown' \in Seq([event : Events, way : {"run", "bus"}])
    BY <1>12, <2>1, FlushTyped DEF FlushTaken
  <2> QED BY <1>12, <2>1, <2>2 DEF FlushTaken, TypeOK
<1>13. CASE Result
  BY <1>13, WriteTyped DEF Result, TypeOK
<1>14. CASE Interrupt
  <2>1. side' \in Seq(Events) /\ cut' \subseteq Events
    <3>1. CASE cut' = cut \cup {taken[i] : i \in DOMAIN taken} /\ UNCHANGED side
      BY <3>1 DEF TypeOK
    <3>2. CASE phase = "tools" /\ side # <<>> /\ cut' = cut \cup {Head(side)} /\ side' = Tail(side)
      BY <3>2, TailTyped DEF TypeOK
    <3> QED BY <1>14, <3>1, <3>2 DEF Interrupt
  <2>2. phase' \in Phases /\ calls' = {} /\ taken' = <<>>
    BY <1>14 DEF Interrupt
  <2>3. UNCHANGED <<task, runs, idle, chain, client, model, host, emitted, rejected>>
    BY <1>14 DEF Interrupt
  <2> QED BY <1>0, <2>1, <2>2, <2>3 DEF TypeOK
<1>15. CASE Close
  <2>1. Returns \in Seq(Events)
    BY ConcatTyped DEF Returns, TypeOK
  <2> QED BY <1>0, <1>15, <2>1 DEF Close, TypeOK
<1> QED BY <1>1, <1>2, <1>3, <1>4, <1>5, <1>6, <1>7, <1>8, <1>9, <1>10, <1>11, <1>12, <1>13, <1>14, <1>15

\* So does the model's call of Agent.
LEMMA CallTyped ==
  ASSUME TypeOK, NEW S \in SUBSET Children, NEW modes \in [S -> {"bg", "fg"}], Call(S, modes)
  PROVE  TypeOK'
<1>1. task' \in [Children -> Tasks]
  <2>1. ASSUME NEW c \in S PROVE NewTask("running", modes[c], "live") \in Tasks
    BY <2>1 DEF NewTask, Tasks, Statuses
  <2> QED BY <2>1 DEF Call, TypeOK
<1>2. calls' \subseteq Children /\ phase' \in Phases
  BY DEF Call, Phases
<1> QED BY <1>1, <1>2 DEF Call, TypeOK

\* And a step of the bus or of the host.
LEMMA BusStepTyped ==
  ASSUME TypeOK, InLine, ReadHead \/ BusAppend \/ Tell \/ BusRefused \/ HostChanges \/ UNCHANGED vars
  PROVE  TypeOK'
<1>1. CASE ReadHead
  BY <1>1 DEF ReadHead, TypeOK
<1>2. CASE BusAppend
  <2>1. Head(idle) \in Events
    BY <1>2, TailTyped DEF BusAppend, TypeOK, InLine
  <2>2. log' \in Seq(Events)
    BY <1>2, <2>1, AppendTyped DEF BusAppend, TypeOK
  <2>3. tip' \in BOOLEAN /\ bus' \in [step : {"rest", "head", "kept"}, atHead : BOOLEAN]
    BY <1>2 DEF BusAppend
  <2> QED BY <1>2, <2>2, <2>3 DEF BusAppend, TypeOK
<1>3. CASE Tell
  <2>1. Head(idle) \in Events /\ idle' \in Seq(Events)
    BY <1>3, TailTyped DEF Tell, TypeOK
  <2>2. [event |-> Head(idle), way |-> "bus"] \in [event : Events, way : {"run", "bus"}]
    BY <2>1
  <2>3. shown' \in Seq([event : Events, way : {"run", "bus"}])
    BY <1>3, <2>2, AppendTyped DEF Tell, TypeOK
  <2>4. bus' \in [step : {"rest", "head", "kept"}, atHead : BOOLEAN]
    BY <1>3 DEF Tell, Resting
  <2> QED BY <1>3, <2>1, <2>3, <2>4 DEF Tell, TypeOK
<1>4. CASE BusRefused
  <2>1. Head(idle) \in Events /\ Tail(idle) \in Seq(Events)
    BY <1>4, TailTyped DEF BusRefused, TypeOK, InLine
  <2>2. bus' \in [step : {"rest", "head", "kept"}, atHead : BOOLEAN]
    BY <1>4 DEF BusRefused, Resting
  <2> QED BY <1>4, <2>1, <2>2 DEF BusRefused, TypeOK
<1>5. CASE HostChanges
  BY <1>5 DEF HostChanges, TypeOK
<1>6. CASE UNCHANGED vars
  BY <1>6 DEF vars, TypeOK
<1> QED BY <1>1, <1>2, <1>3, <1>4, <1>5, <1>6

LEMMA RaiseInLine ==
  ASSUME TypeOK, NEW e \in Events, Raise(e), idle # <<>> PROVE idle' # <<>>
<1>1. idle \in Seq(Events)
  BY DEF TypeOK
<1>2. Append(idle, e) # <<>>
  BY <1>1, AppendFilled
<1> QED BY <1>2 DEF Raise

LEMMA RaiseEndInLine ==
  ASSUME TypeOK, NEW c \in Children, NEW status, RaiseEnd(c, status), idle # <<>> PROVE idle' # <<>>
<1>1. Event("end", c, Outcome(status)) \in Events
  BY EventTyped, OutcomeTyped
<1> QED BY <1>1, RaiseInLine DEF RaiseEnd, queues

\* What is in line stays there until the bus is done with it.
LEMMA LineKept == TypeOK /\ InLine /\ [Next]_vars => InLine'
<1> SUFFICES ASSUME TypeOK, InLine, [Next]_vars PROVE InLine'
  OBVIOUS
<1>1. ASSUME NEW c \in Children, Mint(c) PROVE InLine'
  <2>1. Event("start", c, "none") \in Events
    BY EventTyped
  <2> QED BY <1>1, <2>1, RaiseInLine DEF Mint, InLine
<1>2. ASSUME NEW c \in Children, Speak(c) PROVE InLine'
  <2>1. Event("word", c, "none") \in Events
    BY EventTyped
  <2> QED BY <1>2, <2>1, RaiseInLine DEF Speak, InLine
<1>3. ASSUME NEW c \in Children, SettledEnd(c) PROVE InLine'
  BY <1>3, RaiseEndInLine DEF SettledEnd, InLine
<1>4. ASSUME NEW c \in Children, NEW status, SettleInline(c, status) PROVE InLine'
  BY <1>4, RaiseEndInLine DEF SettleInline, InLine
<1>5. ASSUME Write, idle' = idle PROVE InLine'
  BY <1>5 DEF Write, InLine, TypeOK
<1>6. ASSUME NEW e, Flush(e), idle' = idle PROVE InLine'
  BY <1>6, <1>5 DEF Flush, InLine
<1>7. ASSUME Close PROVE InLine'
  <2>1. idle # <<>> => Returns # <<>>
    BY DEF Returns, TypeOK
  <2> QED BY <1>7, <2>1 DEF Close, InLine
<1>8. ASSUME ReadHead \/ BusAppend PROVE InLine'
  BY <1>8 DEF ReadHead, BusAppend, InLine
<1>9. ASSUME Tell \/ BusRefused PROVE InLine'
  BY <1>9 DEF Tell, BusRefused, InLine, Resting
<1>10. ASSUME UNCHANGED <<idle, bus>> PROVE InLine'
  BY <1>10 DEF InLine
<1>11. ASSUME NEW c \in Children, NEW status,
              Steer(c) \/ Listen(c) \/ WrapUp(c) \/ Kill(c) \/ Settle(c, status)
       PROVE  InLine'
  BY <1>11, <1>10 DEF Steer, Listen, WrapUp, Kill, Settle
<1>12. ASSUME NEW S, NEW modes, Call(S, modes) PROVE InLine'
  BY <1>12, <1>10 DEF Call
<1>13. CASE RunStart \/ Reject \/ Finish \/ DrainSide \/ Interrupt \/ HostChanges \/ UNCHANGED vars
  BY <1>13, <1>10 DEF RunStart, Reject, Finish, DrainSide, Interrupt, HostChanges, vars
<1>14. CASE Leave \/ Open \/ EndStep \/ Notify \/ DrainInbox \/ KeptOn \/ Result
  BY <1>14, <1>5, <1>10 DEF Leave, Open, EndStep, Notify, DrainInbox, KeptOn, Result
<1>15. CASE FlushOne \/ FlushTaken
  BY <1>15, <1>6 DEF FlushOne, FlushTaken
<1> QED BY <1>1, <1>2, <1>3, <1>4, <1>7, <1>8, <1>9, <1>11, <1>12, <1>13, <1>14, <1>15 DEF Next

LEMMA NextTyped == TypeOK /\ InLine /\ [Next]_vars => TypeOK'
BY ChildStepTyped, RunStepTyped, CallTyped, BusStepTyped DEF Next

\* Every variable keeps its type, for any children and any plans.
THEOREM SubagentsTypeCorrect == Spec => []TypeOK
<1>1. Init => TypeOK /\ InLine
  BY InitTyped DEF Init, InLine, Resting
<1>2. TypeOK /\ InLine /\ [Next]_vars => (TypeOK /\ InLine)'
  BY NextTyped, LineKept
<1> QED BY <1>1, <1>2, PTL DEF Spec

-----------------------------------------------------------------------------
(* What is told of a child.                                                *)

\* One who is told of is told of in one word, where all notes of it say the same.
Said(notes, c) == {n.status : n \in {m \in notes : m.child = c}}

LEMMA SaidOne ==
  ASSUME NEW notes, NEW c, NEW word, \A n \in notes : n.child = c => n.status = word
  PROVE  Said(notes, c) = IF \E n \in notes : n.child = c THEN {word} ELSE {}
<1>1. CASE \E n \in notes : n.child = c
  <2>1. Said(notes, c) = {word}
    BY <1>1 DEF Said
  <2> QED BY <1>1, <2>1
<1>2. CASE ~\E n \in notes : n.child = c
  <2>1. Said(notes, c) = {}
    BY <1>2 DEF Said
  <2> QED BY <1>2, <2>1
<1> QED BY <1>1, <1>2

\* A record as far as FateOf looks at it.
Same(c) ==
  /\ task'[c].status = task[c].status /\ task'[c].mode = task[c].mode
  /\ task'[c].reported = task[c].reported /\ task'[c].runner = task[c].runner
  /\ task'[c].answer = task[c].answer

\* Whoever a step is not about keeps the fate it has.
LEMMA FateKept ==
  ASSUME NEW c \in Children, FateOf(c), Same(c), told'[c] = told[c], calls' = calls \/ c \notin calls',
         \A m \in inbox' : m.child = c => m \in inbox
  PROVE  FateOf(c)'
<1>1. Unmailed(c) => Unmailed(c)'
  BY DEF Unmailed
<1> QED BY <1>1 DEF FateOf, Word, Same, Live, Inline, Unmailed

\* A child's own step.
LEMMA ChildFate ==
  ASSUME TypeOK, Fate, NEW c \in Children, NEW status \in {"done", "failed"},
         Mint(c) \/ Speak(c) \/ Steer(c) \/ Listen(c) \/ WrapUp(c) \/ SettledEnd(c) \/ Kill(c)
           \/ Settle(c, status) \/ SettleInline(c, status)
  PROVE  Fate'
<1>0. /\ task \in [Children -> Tasks] /\ FateOf(c)
      /\ told' = told /\ calls' = calls
      /\ \A d \in Children \ {c} : FateOf(d) /\ task'[d] = task[d]
  BY DEF TypeOK, Fate, Mint, Speak, Steer, Listen, WrapUp, SettledEnd, Kill, Settle, SettleInline
<1>1. \A m \in inbox' : m.child # c => m \in inbox
  BY DEF Mint, Speak, Steer, Listen, WrapUp, SettledEnd, Kill, Settle, SettleInline
<1>2. ASSUME NEW d \in Children \ {c} PROVE FateOf(d)'
  BY <1>0, <1>1, <1>2, FateKept DEF Same
<1>3. FateOf(c)'
  <2>1. CASE Mint(c) \/ Speak(c) \/ Steer(c) \/ Listen(c)
    <3>1. Same(c) /\ inbox' = inbox
      BY <1>0, <2>1 DEF Mint, Speak, Steer, Listen, Same, Tasks
    <3> QED BY <1>0, <3>1, FateKept
  <2>2. CASE WrapUp(c) \/ SettledEnd(c)
    <3>1. inbox' = inbox /\ task'[c] = [task[c] EXCEPT !.runner = IF task[c].runner = "live" THEN "wrapping" ELSE "ended"]
      BY <1>0, <2>2 DEF WrapUp, SettledEnd, Tasks
    <3>2. task[c].runner \in {"live", "settled"}
      BY <2>2 DEF WrapUp, SettledEnd
    <3>3. task[c].runner = "settled" => ~Inline(c)
      BY <1>0, <2>2 DEF FateOf, SettledEnd
    <3> QED BY <1>0, <3>1, <3>2, <3>3 DEF FateOf, Word, Live, Inline, Unmailed, Tasks, Ends
  <2>3. CASE Kill(c)
    <3>1. inbox' = inbox /\ task'[c] = [task[c] EXCEPT !.status = "cancelled"] /\ task[c].status = "running"
      BY <1>0, <2>3 DEF Kill, Running
    <3> QED BY <1>0, <3>1 DEF FateOf, Word, Live, Inline, Unmailed, Tasks, Ends
  <2>4. CASE SettleInline(c, status)
    <3>1. /\ inbox' = inbox /\ Live(c)
          /\ task'[c] = [Recorded(c, status) EXCEPT !.runner = "ended", !.answer = status]
          /\ Inline(c)
      BY <1>0, <2>4 DEF SettleInline, Settles, Live
    <3>2. /\ task'[c].status = IF task[c].status = "running" THEN status ELSE task[c].status
          /\ task'[c].runner = "ended" /\ task'[c].answer = status
          /\ task'[c].mode = task[c].mode /\ task'[c].reported = task[c].reported
      BY <1>0, <3>1 DEF Recorded, Tasks
    <3>3. task[c].reported /\ Unmailed(c) /\ told[c] = <<>>
      BY <1>0, <3>1 DEF FateOf
    <3>4. task[c].status \in {"running", "cancelled"}
      BY <1>0, <3>1 DEF FateOf
    <3>5. task'[c].status \in Ends /\ task'[c].answer \in {"done", "failed"}
      BY <3>2, <3>4 DEF Ends
    <3>6. task'[c].status # "cancelled" => task'[c].answer = task'[c].status
      BY <3>2, <3>4
    <3>7. Unmailed(c)'
      BY <3>1, <3>3 DEF Unmailed
    <3>8. Inline(c)' /\ ~Live(c)'
      BY <3>1, <3>2 DEF Inline, Live
    <3>9. task'[c].answer = Word(c)'
      BY <3>6, <3>8 DEF Word
    <3> QED BY <1>0, <3>2, <3>3, <3>5, <3>7, <3>8, <3>9 DEF FateOf, Unmailed
  <2>5. CASE Settle(c, status)
    <3>1. /\ inbox' = IF Pushes(c) THEN inbox \cup {[child |-> c, status |-> status]} ELSE inbox
          /\ Live(c) /\ ~Inline(c)
          /\ task'[c] = [Recorded(c, status) EXCEPT !.reported = Claims(c), !.runner = "settled"]
      BY <1>0, <2>5 DEF Settle, Settles, Live
    <3>2. CASE Running(c)
      <4>1. told[c] = <<>> /\ Unmailed(c)
        BY <1>0, <3>2 DEF FateOf, Running, Ends
      <4>2. task'[c].status = status /\ task'[c].runner = "settled" /\ task'[c].mode = task[c].mode
            /\ task'[c].reported = Claims(c)
        BY <1>0, <3>1, <3>2 DEF Recorded, Running, Tasks
      <4>3. \A m \in inbox' : m.child = c => Pushes(c) /\ m.status = status
        BY <3>1, <4>1 DEF Unmailed
      <4> QED BY <1>0, <3>1, <4>1, <4>2, <4>3 DEF FateOf, Word, Live, Inline, Unmailed, Ends, Claims
    <3>3. CASE ~Running(c)
      <4>1. inbox' = inbox /\ Claims(c) = task[c].reported
        BY <1>0, <3>1, <3>3 DEF Pushes, Claims, Tasks
      <4>2. task'[c].status = task[c].status /\ task'[c].runner = "settled" /\ task'[c].mode = task[c].mode
            /\ task'[c].reported = task[c].reported
        BY <1>0, <3>1, <3>3, <4>1 DEF Recorded, Running, Tasks
      <4>3. task[c].status \in Ends
        BY <1>0, <3>1, <3>3 DEF FateOf, Running, Tasks, Statuses
      <4> QED BY <1>0, <3>1, <4>1, <4>2, <4>3 DEF FateOf, Word, Live, Inline, Unmailed
    <3> QED BY <3>2, <3>3
  <2> QED BY <2>1, <2>2, <2>3, <2>4, <2>5
<1> QED BY <1>2, <1>3 DEF Fate

\* A step that tells.
LEMMA TellFate ==
  ASSUME TypeOK, Fate, EndStep \/ Notify \/ DrainInbox
  PROVE  Fate'
<1> SUFFICES ASSUME NEW c \in Children PROVE FateOf(c)'
  BY DEF Fate
<1>0. /\ task \in [Children -> Tasks] /\ FateOf(c)
      /\ told \in [Children -> Seq(SUBSET Statuses)]
  BY DEF TypeOK, Fate
<1>1. \A word : <<{word}>> = Append(<<>>, {word})
  OBVIOUS
<1>2. \A m \in inbox : m.child = c => m.status = task[c].status /\ ~Inline(c)
  BY <1>0 DEF FateOf, Unmailed
<1>3. ~Inline(c) => Word(c) = task[c].status
  BY DEF Word
<1>4. CASE EndStep
  <2>1. /\ Tells(Answers \cup inbox) /\ CallsReturned
        /\ task' = task /\ inbox' = {} /\ calls' = {}
    BY <1>4 DEF EndStep
  <2>2. \A n \in Answers : n.child = c => c \in calls /\ Inline(c) /\ n.status = Word(c)
    BY <1>0, <2>1 DEF Answers, CallsReturned, FateOf
  <2>3. told'[c] = IF \E n \in Answers \cup inbox : n.child = c THEN Append(told[c], {Word(c)}) ELSE told[c]
    <3>1. \A n \in Answers \cup inbox : n.child = c => n.status = Word(c)
      BY <1>2, <1>3, <2>2
    <3> DEFINE notes == Answers \cup inbox
    <3>2. told'[c] = IF Said(notes, c) = {} THEN told[c] ELSE Append(told[c], Said(notes, c))
      BY <2>1 DEF Tells, Said
    <3>3. Said(notes, c) = IF \E n \in notes : n.child = c THEN {Word(c)} ELSE {}
      BY <3>1, SaidOne
    <3> QED BY <3>2, <3>3
  <2>4. CASE \E n \in Answers : n.child = c
    <3>1. /\ told[c] = <<>> /\ task[c].reported /\ task[c].status \in Ends /\ Inline(c)
          /\ task[c].runner = "ended"
      BY <1>0, <2>1, <2>2, <2>4 DEF FateOf, CallsReturned
    <3> QED BY <1>0, <1>1, <2>1, <2>3, <2>4, <3>1 DEF FateOf, Word, Live, Inline, Unmailed
  <2>5. CASE ~(\E n \in Answers : n.child = c) /\ \E m \in inbox : m.child = c
    <3>1. told[c] = <<>> /\ task[c].reported /\ task[c].status \in Ends /\ ~Inline(c)
      BY <1>0, <2>5 DEF FateOf, Unmailed
    <3> QED BY <1>0, <1>1, <2>1, <2>3, <2>5, <3>1 DEF FateOf, Word, Live, Inline, Unmailed
  <2>6. CASE ~\E n \in Answers \cup inbox : n.child = c
    BY <1>0, <2>1, <2>3, <2>6, FateKept DEF Same
  <2> QED BY <2>4, <2>5, <2>6
<1>5. CASE Notify
  <2>1. /\ Tells(Notes(Unreported)) /\ inbox' = inbox /\ calls' = calls
        /\ task'[c] = IF c \in Unreported THEN [task[c] EXCEPT !.reported = TRUE] ELSE task[c]
    BY <1>5 DEF Notify
  <2>2. (\E n \in Notes(Unreported) : n.child = c) <=> c \in Unreported
    <3>1. ASSUME NEW n \in Notes(Unreported), n.child = c PROVE c \in Unreported
      BY <3>1 DEF Notes
    <3>2. ASSUME c \in Unreported PROVE \E n \in Notes(Unreported) : n.child = c
      <4> DEFINE note == [child |-> c, status |-> task[c].status]
      <4>1. note \in Notes(Unreported) /\ note.child = c
        BY <3>2 DEF Notes
      <4> QED BY <4>1
    <3> QED BY <3>1, <3>2
  <2>3. told'[c] = IF c \in Unreported THEN Append(told[c], {task[c].status}) ELSE told[c]
    <3> DEFINE notes == Notes(Unreported)
    <3>1. \A n \in notes : n.child = c => n.status = task[c].status
      BY DEF Notes
    <3>2. told'[c] = IF Said(notes, c) = {} THEN told[c] ELSE Append(told[c], Said(notes, c))
      BY <2>1 DEF Tells, Said
    <3>3. Said(notes, c) = IF \E n \in notes : n.child = c THEN {task[c].status} ELSE {}
      BY <3>1, SaidOne
    <3> QED BY <2>2, <3>2, <3>3
  <2>4. CASE c \in Unreported
    <3>1. told[c] = <<>> /\ ~task[c].reported /\ task[c].status \in Ends /\ Unmailed(c) /\ ~Inline(c)
      BY <1>0, <2>4 DEF FateOf, Unreported
    <3>2. /\ task'[c].status = task[c].status /\ task'[c].mode = task[c].mode
          /\ task'[c].reported /\ task'[c].runner = task[c].runner
      BY <1>0, <2>1, <2>4 DEF Tasks
    <3> QED BY <1>0, <1>1, <2>1, <2>3, <2>4, <3>1, <3>2 DEF FateOf, Word, Live, Inline, Unmailed
  <2>5. CASE c \notin Unreported
    BY <1>0, <2>1, <2>3, <2>5, FateKept DEF Same
  <2> QED BY <2>4, <2>5
<1>6. CASE DrainInbox
  <2>1. Tells(inbox) /\ task' = task /\ inbox' = {} /\ calls' = calls
    BY <1>6 DEF DrainInbox
  <2>2. told'[c] = IF \E m \in inbox : m.child = c THEN Append(told[c], {task[c].status}) ELSE told[c]
    <3>1. told'[c] = IF Said(inbox, c) = {} THEN told[c] ELSE Append(told[c], Said(inbox, c))
      BY <2>1 DEF Tells, Said
    <3>2. Said(inbox, c) = IF \E m \in inbox : m.child = c THEN {task[c].status} ELSE {}
      BY <1>2, SaidOne
    <3> QED BY <3>1, <3>2
  <2>3. CASE \E m \in inbox : m.child = c
    <3>1. told[c] = <<>> /\ task[c].reported /\ task[c].status \in Ends /\ ~Inline(c)
      BY <1>0, <2>3 DEF FateOf, Unmailed
    <3> QED BY <1>0, <1>1, <2>1, <2>2, <2>3, <3>1 DEF FateOf, Word, Live, Inline, Unmailed
  <2>4. CASE ~\E m \in inbox : m.child = c
    BY <1>0, <2>1, <2>2, <2>4, FateKept DEF Same
  <2> QED BY <2>3, <2>4
<1> QED BY <1>4, <1>5, <1>6

\* The calls of a step are of children nobody was told of.
LEMMA CallFate ==
  ASSUME TypeOK, Fate, NEW S \in SUBSET Children, NEW modes \in [S -> {"bg", "fg"}], Call(S, modes)
  PROVE  Fate'
<1> SUFFICES ASSUME NEW c \in Children PROVE FateOf(c)'
  BY DEF Fate
<1>0. /\ FateOf(c) /\ told' = told /\ inbox' = inbox /\ calls' = S
      /\ task'[c] = IF c \in S THEN NewTask("running", modes[c], "live") ELSE task[c]
  BY DEF Fate, Call
<1>1. CASE c \in S
  <2>1. told[c] = <<>> /\ Unmailed(c)
    BY <1>0, <1>1 DEF Call, FateOf, Ends
  <2>2. /\ task'[c].status = "running" /\ task'[c].mode = modes[c]
        /\ task'[c].runner = "live" /\ task'[c].reported = (modes[c] = "fg")
    BY <1>0, <1>1 DEF NewTask
  <2> QED BY <1>0, <2>1, <2>2 DEF FateOf, Word, Live, Inline, Unmailed, Ends
<1>2. CASE c \notin S
  BY <1>0, <1>2, FateKept DEF Same
<1> QED BY <1>1, <1>2

\* The other steps leave the records, the mail and what was told alone.
LEMMA OtherFate ==
  ASSUME Fate, UNCHANGED <<task, told, inbox>>, calls' = calls \/ calls' = {}
  PROVE  Fate'
BY FateKept DEF Fate, Same

LEMMA FateStep == TypeOK /\ Fate /\ [Next]_vars => Fate'
<1> SUFFICES ASSUME TypeOK, Fate, [Next]_vars PROVE Fate'
  OBVIOUS
<1>1. CASE \/ RunStart \/ Reject \/ Leave \/ Open \/ FlushOne \/ Finish \/ KeptOn
            \/ DrainSide \/ FlushTaken \/ Result \/ Interrupt \/ Close
  BY <1>1, OtherFate
     DEF RunStart, Reject, Leave, Open, FlushOne, Finish, KeptOn, DrainSide, FlushTaken, Result, Interrupt, Close
<1>2. CASE ReadHead \/ BusAppend \/ Tell \/ BusRefused \/ HostChanges \/ UNCHANGED vars
  BY <1>2, OtherFate DEF ReadHead, BusAppend, Tell, BusRefused, HostChanges, vars
<1> QED BY <1>1, <1>2, ChildFate, TellFate, CallFate DEF Next

-----------------------------------------------------------------------------
(* What the stream says of it.                                             *)

\* The record of a child that ended says the same ever after.
LEMMA EndsStay ==
  ASSUME TypeOK, [Next]_vars, NEW c \in Children, task[c].status \in Ends
  PROVE  task'[c].status = task[c].status
<1>0. task \in [Children -> Tasks]
  BY DEF TypeOK
<1>1. ASSUME NEW d \in Children, NEW status,
             \/ Mint(d) \/ Speak(d) \/ Steer(d) \/ Listen(d) \/ WrapUp(d) \/ SettledEnd(d) \/ Kill(d)
             \/ Settle(d, status) \/ SettleInline(d, status)
      PROVE  task'[c].status = task[c].status
  <2>1. CASE c # d
    BY <1>0, <1>1, <2>1 DEF Mint, Speak, Steer, Listen, WrapUp, SettledEnd, Kill, Settle, SettleInline
  <2>2. CASE c = d
    <3>1. task[c] \in Tasks /\ task[c].status # "running"
      BY <1>0 DEF Ends
    <3>2. CASE Mint(c) \/ Steer(c) \/ Listen(c)
      BY <1>0, <3>1, <3>2 DEF Mint, Steer, Listen, Tasks
    <3>3. CASE Speak(c) \/ Kill(c)
      BY <3>1, <3>3 DEF Speak, Kill, Running
    <3>4. CASE WrapUp(c) \/ SettledEnd(c)
      BY <1>0, <3>1, <3>4 DEF WrapUp, SettledEnd, Tasks
    <3>5. CASE Settle(c, status)
      <4>1. task'[c] = [Recorded(c, status) EXCEPT !.reported = Claims(c), !.runner = "settled"]
        BY <1>0, <3>5 DEF Settle
      <4> QED BY <3>1, <4>1 DEF Recorded, Tasks
    <3>6. CASE SettleInline(c, status)
      <4>1. task'[c] = [Recorded(c, status) EXCEPT !.runner = "ended", !.answer = status]
        BY <1>0, <3>6 DEF SettleInline
      <4> QED BY <3>1, <4>1 DEF Recorded, Tasks
    <3> QED BY <1>1, <2>2, <3>2, <3>3, <3>4, <3>5, <3>6
  <2> QED BY <2>1, <2>2
<1>2. ASSUME NEW S \in SUBSET Children, NEW modes, Call(S, modes) PROVE task'[c].status = task[c].status
  BY <1>0, <1>2 DEF Call, Ends
<1>3. CASE Notify
  <2>1. task'[c] = IF c \in Unreported THEN [task[c] EXCEPT !.reported = TRUE] ELSE task[c]
    BY <1>3 DEF Notify
  <2>2. task[c] \in Tasks
    BY <1>0
  <2>3. CASE c \in Unreported
    BY <2>1, <2>2, <2>3 DEF Tasks
  <2>4. CASE c \notin Unreported
    BY <2>1, <2>4
  <2> QED BY <2>3, <2>4
<1>4. CASE \/ RunStart \/ Reject \/ Leave \/ Open \/ FlushOne \/ EndStep \/ DrainInbox \/ Finish \/ KeptOn
            \/ DrainSide \/ FlushTaken \/ Result \/ Interrupt \/ Close
  BY <1>4 DEF RunStart, Reject, Leave, Open, FlushOne, EndStep, DrainInbox, Finish, KeptOn,
              DrainSide, FlushTaken, Result, Interrupt, Close
<1>5. CASE ReadHead \/ BusAppend \/ Tell \/ BusRefused \/ HostChanges \/ UNCHANGED vars
  BY <1>5 DEF ReadHead, BusAppend, Tell, BusRefused, HostChanges, vars
<1> QED BY <1>1, <1>2, <1>3, <1>4, <1>5 DEF Next

\* An event is raised last, and of an end only when the record has it.
Raised(e) ==
  \E r \in Nat : emitted' = Append(emitted, [event |-> e, run |-> r])

LEMMA RaiseIsRaised ==
  ASSUME TypeOK, NEW e, Raise(e) PROVE Raised(e)
<1>1. (IF Subscribed THEN runs ELSE 0) \in Nat
  BY DEF TypeOK
<1> QED BY <1>1 DEF Raise, Raised

LEMMA RaisedEnded ==
  ASSUME TypeOK, Ended, [Next]_vars, NEW e \in Events, Raised(e),
         e.what = "end" => task'[e.child].status \in Ends /\ e.outcome = Outcome(task'[e.child].status)
  PROVE  Ended'
<1>0. emitted \in Seq([event : Events, run : Nat])
  BY DEF TypeOK
<1>1. PICK r \in Nat : emitted' = Append(emitted, [event |-> e, run |-> r])
  BY DEF Raised
<1>2. ASSUME NEW i \in DOMAIN emitted' PROVE
        \/ i \in DOMAIN emitted /\ emitted'[i] = emitted[i]
        \/ emitted'[i].event = e
  BY <1>0, <1>1, <1>2
<1>3. ASSUME NEW i \in DOMAIN emitted', emitted'[i].event.what = "end"
      PROVE  LET f == emitted'[i].event
             IN task'[f.child].status \in Ends /\ f.outcome = Outcome(task'[f.child].status)
  <2>1. CASE i \in DOMAIN emitted /\ emitted'[i] = emitted[i]
    <3>1. emitted[i].event \in Events
      <4>1. emitted[i] \in [event : Events, run : Nat]
        BY <1>0, <2>1, ElementTyped
      <4> QED BY <2>1, <4>1
    <3>2. emitted[i].event.child \in Children
      BY <3>1 DEF Events
    <3> QED BY <1>3, <2>1, <3>2, EndsStay DEF Ended
  <2>2. CASE emitted'[i].event = e
    BY <1>3, <2>2
  <2> QED BY <1>2, <1>3, <2>1, <2>2
<1> QED BY <1>3 DEF Ended

LEMMA QuietEnded ==
  ASSUME TypeOK, Ended, [Next]_vars, emitted' = emitted PROVE Ended'
<1>1. ASSUME NEW i \in DOMAIN emitted PROVE emitted[i].event.child \in Children
  <2>1. emitted[i] \in [event : Events, run : Nat]
    BY <1>1, ElementTyped DEF TypeOK
  <2> QED BY <2>1 DEF Events
<1> QED BY <1>1, EndsStay DEF Ended

LEMMA EndedStep == TypeOK /\ Fate /\ Ended /\ [Next]_vars => Ended'
<1> SUFFICES ASSUME TypeOK, Fate, Ended, [Next]_vars PROVE Ended'
  OBVIOUS
<1>0. task \in [Children -> Tasks]
  BY DEF TypeOK
<1>1. ASSUME NEW c \in Children, Mint(c) PROVE Ended'
  <2>1. Event("start", c, "none") \in Events /\ Event("start", c, "none").what # "end"
    BY EventTyped DEF Event
  <2>2. Raised(Event("start", c, "none"))
    BY <1>1, RaiseIsRaised DEF Mint
  <2> QED BY <2>1, <2>2, RaisedEnded
<1>2. ASSUME NEW c \in Children, Speak(c) PROVE Ended'
  <2>1. Event("word", c, "none") \in Events /\ Event("word", c, "none").what # "end"
    BY EventTyped DEF Event
  <2>2. Raised(Event("word", c, "none"))
    BY <1>2, RaiseIsRaised DEF Speak
  <2> QED BY <2>1, <2>2, RaisedEnded
<1>3. ASSUME NEW c \in Children, NEW status, RaiseEnd(c, status), task'[c].status = status, status \in Ends
      PROVE  Ended'
  <2> DEFINE e == Event("end", c, Outcome(status))
  <2>1. e \in Events /\ e.child = c /\ e.outcome = Outcome(status)
    BY EventTyped, OutcomeTyped DEF Event
  <2>2. CASE task[c].sid
    <3>1. Raised(e)
      BY <1>3, <2>2, RaiseIsRaised DEF RaiseEnd
    <3> HIDE DEF e
    <3> QED BY <1>3, <2>1, <3>1, RaisedEnded
  <2>3. CASE ~task[c].sid
    BY <1>3, <2>3, QuietEnded DEF RaiseEnd
  <2> QED BY <2>2, <2>3
<1>4. ASSUME NEW c \in Children, SettledEnd(c) PROVE Ended'
  <2>1. task'[c].status = task[c].status /\ task[c].status \in Ends
    BY <1>0, <1>4 DEF SettledEnd, Fate, FateOf, Tasks
  <2> QED BY <1>3, <1>4, <2>1 DEF SettledEnd
<1>5. ASSUME NEW c \in Children, NEW status \in {"done", "failed"}, SettleInline(c, status) PROVE Ended'
  <2>1. task'[c].status = Recorded(c, status).status
    BY <1>0, <1>5 DEF SettleInline, Recorded, Tasks
  <2>2. Recorded(c, status).status \in Ends
    BY <1>0, <1>5 DEF SettleInline, Settles, Live, Fate, FateOf, Recorded, Tasks, Statuses, Ends
  <2> QED BY <1>3, <1>5, <2>1, <2>2 DEF SettleInline
<1>6. ASSUME NEW c \in Children, NEW status,
             Steer(c) \/ Listen(c) \/ WrapUp(c) \/ Kill(c) \/ Settle(c, status)
      PROVE  Ended'
  BY <1>6, QuietEnded DEF Steer, Listen, WrapUp, Kill, Settle
<1>7. ASSUME NEW S, NEW modes, Call(S, modes) PROVE Ended'
  BY <1>7, QuietEnded DEF Call
<1>8. CASE \/ RunStart \/ Reject \/ Leave \/ Open \/ FlushOne \/ EndStep \/ Notify \/ DrainInbox \/ Finish
            \/ KeptOn \/ DrainSide \/ FlushTaken \/ Result \/ Interrupt \/ Close
  BY <1>8, QuietEnded DEF RunStart, Reject, Leave, Open, FlushOne, EndStep, Notify, DrainInbox, Finish, KeptOn,
                          DrainSide, FlushTaken, Result, Interrupt, Close
<1>9. CASE ReadHead \/ BusAppend \/ Tell \/ BusRefused \/ HostChanges \/ UNCHANGED vars
  BY <1>9, QuietEnded DEF ReadHead, BusAppend, Tell, BusRefused, HostChanges, vars
<1> QED BY <1>1, <1>2, <1>4, <1>5, <1>6, <1>7, <1>8, <1>9 DEF Next

-----------------------------------------------------------------------------
(* One fate.                                                               *)

LEMMA FateIsOne == TypeOK /\ Fate /\ Ended => OneFate
<1> SUFFICES ASSUME TypeOK, Fate, Ended PROVE OneFate
  OBVIOUS
<1>1. ASSUME NEW c \in Children
      PROVE  Len(told[c]) + Cardinality({m \in inbox : m.child = c}) <= 1
  <2> DEFINE mail == {m \in inbox : m.child = c}
  <2>1. FateOf(c) /\ inbox \subseteq [child : Children, status : Ends]
    BY DEF Fate, TypeOK
  <2>2. CASE mail = {}
    <3>1. Len(told[c]) = 0 \/ Len(told[c]) = 1
      <4>1. Len(<<>>) = 0 /\ Len(<<{Word(c)}>>) = 1
        OBVIOUS
      <4> QED BY <2>1, <4>1 DEF FateOf
    <3>2. Cardinality(mail) = 0
      BY <2>2, FS_EmptySet
    <3>3. CASE Len(told[c]) = 0
      BY <3>2, <3>3
    <3>4. CASE Len(told[c]) = 1
      BY <3>2, <3>4
    <3> QED BY <3>1, <3>3, <3>4
  <2>3. CASE mail # {}
    <3>1. PICK m \in mail : TRUE
      BY <2>3
    <3>2. \A n \in mail : n = m
      BY <2>1, <3>1 DEF FateOf
    <3>3. mail = {m}
      BY <3>1, <3>2
    <3>4. Cardinality(mail) = 1
      BY <3>3, FS_Singleton
    <3>5. told[c] = <<>>
      BY <2>1, <2>3 DEF FateOf
    <3>6. Len(told[c]) = 0
      BY <3>5
    <3> QED BY <3>4, <3>6
  <2> QED BY <2>2, <2>3
<1>2. ASSUME NEW c \in Children, NEW i \in DOMAIN told[c] PROVE told[c][i] = {Word(c)}
  BY <1>2 DEF Fate, FateOf
<1>3. ASSUME NEW m \in inbox PROVE m.status = task[m.child].status
  <2>1. m.child \in Children
    BY DEF TypeOK
  <2> QED BY <2>1 DEF Fate, FateOf
<1>4. ASSUME NEW i \in DOMAIN emitted, emitted[i].event.what = "end"
      PROVE  emitted[i].event.outcome = Outcome(task[emitted[i].event.child].status)
  BY <1>4 DEF Ended
<1> QED BY <1>1, <1>2, <1>3, <1>4 DEF OneFate

LEMMA InitIInv == Init => IInv
<1> SUFFICES ASSUME Init PROVE IInv
  OBVIOUS
<1>1. \A c \in Children : FateOf(c)
  BY DEF Init, NewTask, FateOf, Word, Live, Inline, Unmailed, Ends
<1>2. InLine /\ Ended
  BY DEF Init, InLine, Resting, Ended
<1> QED BY <1>1, <1>2, InitTyped DEF IInv, Fate

LEMMA IInvStep == IInv /\ [Next]_vars => IInv'
BY NextTyped, LineKept, FateStep, EndedStep DEF IInv

\* A child's end is told once, and what is told stays true, whoever kills it
\* meanwhile and whenever its session has an inbox.
THEOREM ChildHasOneFate == Spec => []OneFate
<1>1. IInv => OneFate
  BY FateIsOne DEF IInv
<1> QED BY <1>1, InitIInv, IInvStep, PTL DEF Spec

-----------------------------------------------------------------------------
(* How often an event is in a queue.                                       *)

\* The showings of an event in a sequence of what was told.
Shows(sh, e) == Cardinality({i \in DOMAIN sh : sh[i].event = e})

\* One, of an event and itself.
One(e, f) == IF e = f THEN 1 ELSE 0

LEMMA OneTyped == \A e, f : One(e, f) \in Nat /\ One(e, e) = 1 /\ (e # f => One(e, f) = 0)
BY DEF One

\* A set of places in a sequence is finite.
LEMMA PlacesFinite ==
  ASSUME NEW S, NEW s \in Seq(S), NEW T \in SUBSET DOMAIN s
  PROVE  IsFiniteSet(T) /\ Cardinality(T) \in Nat
<1>1. DOMAIN s = 1..Len(s) /\ Len(s) \in Nat
  OBVIOUS
<1>2. IsFiniteSet(1..Len(s))
  BY <1>1, FS_Interval
<1> QED BY <1>1, <1>2, FS_Subset, FS_CardinalityType

\* Shifted by n, a set of places is as large.
LEMMA ShiftedAsLarge ==
  ASSUME NEW n \in Nat, NEW T \in SUBSET Nat, IsFiniteSet(T)
  PROVE  LET U == {i + n : i \in T} IN IsFiniteSet(U) /\ Cardinality(U) = Cardinality(T)
<1> DEFINE U == {i + n : i \in T}
           f == [i \in T |-> i + n]
<1>1. f \in Bijection(T, U)
  BY DEF Bijection, Injection, Surjection, IsInjective
<1>2. ExistsBijection(T, U)
  BY <1>1 DEF ExistsBijection
<1> HIDE DEF U, f
<1>3. IsFiniteSet(U) /\ Cardinality(U) = Cardinality(T)
  BY <1>2, FS_Bijection
<1> QED BY <1>3 DEF U

LEMMA CountTyped ==
  ASSUME NEW S, NEW s \in Seq(S), NEW e PROVE Count(s, e) \in Nat
<1>1. {i \in DOMAIN s : s[i] = e} \in SUBSET DOMAIN s
  OBVIOUS
<1> QED BY <1>1, PlacesFinite DEF Count

LEMMA CountIn ==
  ASSUME NEW S, NEW s \in Seq(S), NEW i \in DOMAIN s PROVE Count(s, s[i]) >= 1
<1> DEFINE T == {j \in DOMAIN s : s[j] = s[i]}
<1>1. T \in SUBSET DOMAIN s /\ i \in T
  OBVIOUS
<1>2. IsFiniteSet(T) /\ Cardinality(T) \in Nat
  BY <1>1, PlacesFinite
<1>3. Cardinality(T) # 0
  BY <1>1, <1>2, FS_EmptySet
<1>4. Cardinality(T) >= 1
  BY <1>2, <1>3
<1> QED BY <1>4 DEF Count

LEMMA CountEmpty == ASSUME NEW e PROVE Count(<<>>, e) = 0
<1>1. {i \in DOMAIN <<>> : <<>>[i] = e} = {}
  OBVIOUS
<1> QED BY <1>1, FS_EmptySet DEF Count

LEMMA CountOne ==
  ASSUME NEW x, NEW e PROVE Count(<<x>>, e) = One(x, e)
<1>1. CASE x = e
  <2>1. {i \in DOMAIN <<x>> : <<x>>[i] = e} = {1}
    BY <1>1
  <2> QED BY <1>1, <2>1, FS_Singleton DEF Count, One
<1>2. CASE x # e
  <2>1. {i \in DOMAIN <<x>> : <<x>>[i] = e} = {}
    BY <1>2
  <2> QED BY <1>2, <2>1, FS_EmptySet DEF Count, One
<1> QED BY <1>1, <1>2

\* In two queues, one after the other, an event is as often as in both.
LEMMA CountConcat ==
  ASSUME NEW S, NEW s \in Seq(S), NEW t \in Seq(S), NEW e
  PROVE  Count(s \o t, e) = Count(s, e) + Count(t, e)
<1> DEFINE A == {i \in DOMAIN s : s[i] = e}
           B == {i \in DOMAIN t : t[i] = e}
           C == {i \in DOMAIN (s \o t) : (s \o t)[i] = e}
           n == Len(s)
           D == {i + n : i \in B}
<1>1. /\ n \in Nat /\ Len(t) \in Nat /\ DOMAIN s = 1..n /\ DOMAIN t = 1..Len(t)
      /\ DOMAIN (s \o t) = 1..(n + Len(t))
  OBVIOUS
<1>2. ASSUME NEW i \in 1..(n + Len(t)) PROVE (s \o t)[i] = IF i <= n THEN s[i] ELSE t[i - n]
  BY <1>2
<1>3. A \in SUBSET DOMAIN s /\ B \in SUBSET DOMAIN t /\ B \in SUBSET Nat
  BY <1>1
<1>4. IsFiniteSet(A) /\ Cardinality(A) \in Nat /\ IsFiniteSet(B) /\ Cardinality(B) \in Nat
  BY <1>3, PlacesFinite
<1>5. IsFiniteSet(D) /\ Cardinality(D) = Cardinality(B)
  <2> HIDE DEF B, n
  <2> QED BY <1>1, <1>3, <1>4, ShiftedAsLarge
<1>6. C = A \cup D
  <2>1. ASSUME NEW i \in C PROVE i \in A \cup D
    <3>1. i \in 1..(n + Len(t)) /\ (s \o t)[i] = e
      BY <1>1, <2>1
    <3>2. CASE i <= n
      BY <1>1, <1>2, <3>1, <3>2
    <3>3. CASE i > n
      <4>1. t[i - n] = e /\ i - n \in 1..Len(t)
        BY <1>1, <1>2, <3>1, <3>3
      <4>2. i - n \in B /\ i = (i - n) + n
        BY <1>1, <3>1, <4>1
      <4> QED BY <4>2
    <3> QED BY <1>1, <3>1, <3>2, <3>3
  <2>2. ASSUME NEW i \in A PROVE i \in C
    BY <1>1, <1>2, <2>2
  <2>3. ASSUME NEW i \in B PROVE i + n \in C
    BY <1>1, <1>2, <2>3
  <2> QED BY <2>1, <2>2, <2>3
<1>7. A \cap D = {}
  BY <1>1
<1> HIDE DEF A, B, C, D
<1>8. Cardinality(C) = Cardinality(A) + Cardinality(B)
  <2>1. Cardinality(A \cup D) = Cardinality(A) + Cardinality(D) - Cardinality(A \cap D)
    BY <1>4, <1>5, FS_Union
  <2>2. Cardinality(A \cap D) = 0
    BY <1>7, FS_EmptySet
  <2> QED BY <1>4, <1>5, <1>6, <2>1, <2>2
<1> QED BY <1>8 DEF Count, A, B, C

LEMMA CountAppend ==
  ASSUME NEW S, NEW s \in Seq(S), NEW x \in S, NEW e
  PROVE  Count(Append(s, x), e) = Count(s, e) + One(x, e)
<1>1. <<x>> \in Seq(S) /\ Append(s, x) = s \o <<x>>
  OBVIOUS
<1>2. Count(s \o <<x>>, e) = Count(s, e) + Count(<<x>>, e)
  BY <1>1, CountConcat
<1>3. Count(<<x>>, e) = One(x, e)
  BY CountOne
<1> QED BY <1>1, <1>2, <1>3

LEMMA CountTail ==
  ASSUME NEW S, NEW s \in Seq(S), s # <<>>, NEW e
  PROVE  Count(s, e) = One(Head(s), e) + Count(Tail(s), e)
<1>1. <<Head(s)>> \in Seq(S) /\ Tail(s) \in Seq(S) /\ s = <<Head(s)>> \o Tail(s)
  OBVIOUS
<1>2. Count(<<Head(s)>> \o Tail(s), e) = Count(<<Head(s)>>, e) + Count(Tail(s), e)
  BY <1>1, CountConcat
<1>3. Count(<<Head(s)>>, e) = One(Head(s), e)
  BY CountOne
<1> QED BY <1>1, <1>2, <1>3

LEMMA ShowsTyped ==
  ASSUME NEW S, NEW sh \in Seq(S), NEW e PROVE Shows(sh, e) \in Nat
<1>1. {i \in DOMAIN sh : sh[i].event = e} \in SUBSET DOMAIN sh
  OBVIOUS
<1> QED BY <1>1, PlacesFinite DEF Shows

LEMMA ShowsIn ==
  ASSUME NEW S, NEW sh \in Seq(S), NEW i \in DOMAIN sh PROVE Shows(sh, sh[i].event) >= 1
<1> DEFINE T == {j \in DOMAIN sh : sh[j].event = sh[i].event}
<1>1. T \in SUBSET DOMAIN sh /\ i \in T
  OBVIOUS
<1>2. IsFiniteSet(T) /\ Cardinality(T) \in Nat
  BY <1>1, PlacesFinite
<1>3. Cardinality(T) # 0
  BY <1>1, <1>2, FS_EmptySet
<1>4. Cardinality(T) >= 1
  BY <1>2, <1>3
<1> QED BY <1>4 DEF Shows

LEMMA ShowsAppend ==
  ASSUME NEW S, NEW sh \in Seq(S), NEW r \in S, NEW e
  PROVE  Shows(Append(sh, r), e) = Shows(sh, e) + One(r.event, e)
<1> DEFINE A == {i \in DOMAIN sh : sh[i].event = e}
           C == {i \in DOMAIN Append(sh, r) : Append(sh, r)[i].event = e}
           n == Len(sh)
<1>1. n \in Nat /\ DOMAIN sh = 1..n /\ DOMAIN Append(sh, r) = 1..(n + 1)
  OBVIOUS
<1>2. Append(sh, r)[n + 1] = r /\ \A i \in 1..n : Append(sh, r)[i] = sh[i]
  OBVIOUS
<1>3. A \in SUBSET DOMAIN sh
  OBVIOUS
<1>4. IsFiniteSet(A) /\ Cardinality(A) \in Nat
  BY <1>3, PlacesFinite
<1>5. CASE r.event = e
  <2>1. C = A \cup {n + 1}
    <3> HIDE DEF n
    <3> QED BY <1>1, <1>2, <1>5
  <2>2. n + 1 \notin A
    BY <1>1
  <2>3. Cardinality(C) = Cardinality(A) + 1
    <3> HIDE DEF A, C, n
    <3> QED BY <1>4, <2>1, <2>2, FS_AddElement
  <2> QED BY <1>5, <2>3 DEF Shows, One
<1>6. CASE r.event # e
  <2>1. C = A
    <3> HIDE DEF n
    <3> QED BY <1>1, <1>2, <1>6
  <2>2. Cardinality(C) = Cardinality(A) + 0
    <3> HIDE DEF A, C, n
    <3> QED BY <1>4, <2>1
  <2> QED BY <1>6, <2>2 DEF Shows, One
<1> QED BY <1>5, <1>6

-----------------------------------------------------------------------------
(* In which order events go out.                                           *)

\* The events raised in a history.
Raisings(em) == {em[i].event : i \in DOMAIN em}

\* One event was raised before another.
Before(em, e, f) == \A i, j \in DOMAIN em : em[i].event = e /\ em[j].event = f => i < j

\* A queue is in that order; one queue is before another; so is what was shown
\* one way before a queue; and so is all that was shown, each way.
Rising(em, s) == \A i, j \in DOMAIN s : i < j => Before(em, s[i], s[j])
Precede(em, s, t) == \A i \in DOMAIN s : \A j \in DOMAIN t : Before(em, s[i], t[j])
OutBefore(em, sh, way, t) ==
  \A i \in DOMAIN sh : sh[i].way = way => \A j \in DOMAIN t : Before(em, sh[i].event, t[j])
OutRising(em, sh) ==
  \A i, j \in DOMAIN sh : i < j /\ sh[i].way = sh[j].way => Before(em, sh[i].event, sh[j].event)

\* What an appended, a shortened and a joined sequence have at their places.
LEMMA AppendPlaces ==
  ASSUME NEW S, NEW s \in Seq(S), NEW x
  PROVE  /\ Len(s) \in Nat /\ DOMAIN s = 1..Len(s) /\ DOMAIN Append(s, x) = 1..(Len(s) + 1)
         /\ Append(s, x)[Len(s) + 1] = x /\ \A i \in 1..Len(s) : Append(s, x)[i] = s[i]
OBVIOUS

LEMMA TailPlaces ==
  ASSUME NEW S, NEW s \in Seq(S), s # <<>>
  PROVE  /\ 1 \in DOMAIN s /\ s[1] = Head(s)
         /\ \A i \in DOMAIN Tail(s) : i + 1 \in DOMAIN s /\ Tail(s)[i] = s[i + 1] /\ i \in Nat \ {0}
OBVIOUS

LEMMA ConcatPlaces ==
  ASSUME NEW S, NEW s \in Seq(S), NEW t \in Seq(S), NEW i \in DOMAIN (s \o t)
  PROVE  /\ i \in Nat /\ Len(s) \in Nat /\ DOMAIN s = 1..Len(s)
         /\ IF i <= Len(s) THEN i \in DOMAIN s /\ (s \o t)[i] = s[i]
                           ELSE i - Len(s) \in DOMAIN t /\ (s \o t)[i] = t[i - Len(s)]
<1>1. DOMAIN (s \o t) = 1..(Len(s) + Len(t)) /\ DOMAIN s = 1..Len(s) /\ DOMAIN t = 1..Len(t)
      /\ Len(s) \in Nat /\ Len(t) \in Nat
  OBVIOUS
<1>2. CASE i <= Len(s)
  BY <1>1, <1>2
<1>3. CASE ~(i <= Len(s))
  BY <1>1, <1>3
<1> QED BY <1>1, <1>2, <1>3

\* Nothing is before an event that was not yet raised, or after the last.
LEMMA LastIsAfter ==
  ASSUME NEW R, NEW em \in Seq(R), NEW r, NEW e \in Raisings(em), r.event \notin Raisings(em)
  PROVE  Before(Append(em, r), e, r.event)
<1> DEFINE n == Len(em)
<1>1. /\ n \in Nat /\ DOMAIN em = 1..n /\ DOMAIN Append(em, r) = 1..(n + 1)
      /\ Append(em, r)[n + 1] = r /\ \A i \in 1..n : Append(em, r)[i] = em[i]
  BY AppendPlaces
<1> HIDE DEF n
<1>2. ASSUME NEW i \in 1..(n + 1), NEW j \in 1..(n + 1),
             Append(em, r)[i].event = e, Append(em, r)[j].event = r.event
      PROVE  i < j
  <2>1. i # n + 1
    BY <1>1, <1>2
  <2>2. j = n + 1
    <3> SUFFICES ASSUME j # n + 1 PROVE FALSE
      OBVIOUS
    <3>1. j \in 1..n
      BY <1>1
    <3>2. em[j].event = r.event
      BY <1>1, <1>2, <3>1
    <3> QED BY <1>1, <3>1, <3>2 DEF Raisings
  <2> QED BY <1>1, <2>1, <2>2
<1> QED BY <1>1, <1>2 DEF Before

LEMMA OrderStays ==
  ASSUME NEW R, NEW em \in Seq(R), NEW r, NEW e \in Raisings(em), NEW f \in Raisings(em),
         r.event \notin Raisings(em), Before(em, e, f)
  PROVE  Before(Append(em, r), e, f)
<1> DEFINE n == Len(em)
<1>1. /\ n \in Nat /\ DOMAIN em = 1..n /\ DOMAIN Append(em, r) = 1..(n + 1)
      /\ Append(em, r)[n + 1] = r /\ \A i \in 1..n : Append(em, r)[i] = em[i]
  BY AppendPlaces
<1> HIDE DEF n
<1>2. ASSUME NEW i \in 1..(n + 1), NEW j \in 1..(n + 1),
             Append(em, r)[i].event = e, Append(em, r)[j].event = f
      PROVE  i < j
  <2>1. i \in 1..n /\ j \in 1..n
    BY <1>1, <1>2
  <2>2. em[i].event = e /\ em[j].event = f
    BY <1>1, <1>2, <2>1
  <2> QED BY <1>1, <2>1, <2>2 DEF Before
<1> QED BY <1>1, <1>2 DEF Before

\* An event after all of a queue may go to its end.
LEMMA RisingAppend ==
  ASSUME NEW S, NEW s \in Seq(S), NEW x, NEW em, Rising(em, s), \A i \in DOMAIN s : Before(em, s[i], x)
  PROVE  Rising(em, Append(s, x))
<1> DEFINE n == Len(s)
<1>1. /\ n \in Nat /\ DOMAIN s = 1..n /\ DOMAIN Append(s, x) = 1..(n + 1)
      /\ Append(s, x)[n + 1] = x /\ \A i \in 1..n : Append(s, x)[i] = s[i]
  BY AppendPlaces
<1> HIDE DEF n
<1>2. ASSUME NEW i \in 1..(n + 1), NEW j \in 1..(n + 1), i < j
      PROVE  Before(em, Append(s, x)[i], Append(s, x)[j])
  <2>1. i \in 1..n
    BY <1>1, <1>2
  <2>2. CASE j \in 1..n
    BY <1>1, <1>2, <2>1, <2>2 DEF Rising
  <2>3. CASE j = n + 1
    BY <1>1, <2>1, <2>3
  <2> QED BY <1>1, <2>2, <2>3
<1> QED BY <1>1, <1>2 DEF Rising

LEMMA PrecedeAppend ==
  ASSUME NEW S, NEW s \in Seq(S), NEW t \in Seq(S), NEW x, NEW em,
         Precede(em, s, t), \A i \in DOMAIN s : Before(em, s[i], x)
  PROVE  Precede(em, s, Append(t, x))
<1> DEFINE n == Len(t)
<1>1. /\ n \in Nat /\ DOMAIN t = 1..n /\ DOMAIN Append(t, x) = 1..(n + 1)
      /\ Append(t, x)[n + 1] = x /\ \A i \in 1..n : Append(t, x)[i] = t[i]
  BY AppendPlaces
<1> HIDE DEF n
<1>2. ASSUME NEW i \in DOMAIN s, NEW j \in 1..(n + 1) PROVE Before(em, s[i], Append(t, x)[j])
  <2>1. CASE j \in 1..n
    BY <1>1, <2>1 DEF Precede
  <2>2. CASE j = n + 1
    BY <1>1, <2>2
  <2> QED BY <1>1, <2>1, <2>2
<1> QED BY <1>1, <1>2 DEF Precede

LEMMA OutBeforeAppend ==
  ASSUME NEW S, NEW t \in Seq(S), NEW x, NEW em, NEW sh, NEW way, OutBefore(em, sh, way, t),
         \A i \in DOMAIN sh : Before(em, sh[i].event, x)
  PROVE  OutBefore(em, sh, way, Append(t, x))
<1> DEFINE n == Len(t)
<1>1. /\ n \in Nat /\ DOMAIN t = 1..n /\ DOMAIN Append(t, x) = 1..(n + 1)
      /\ Append(t, x)[n + 1] = x /\ \A i \in 1..n : Append(t, x)[i] = t[i]
  BY AppendPlaces
<1> HIDE DEF n
<1>2. ASSUME NEW i \in DOMAIN sh, sh[i].way = way, NEW j \in 1..(n + 1)
      PROVE  Before(em, sh[i].event, Append(t, x)[j])
  <2>1. CASE j \in 1..n
    BY <1>1, <1>2, <2>1 DEF OutBefore
  <2>2. CASE j = n + 1
    BY <1>1, <2>2
  <2> QED BY <1>1, <2>1, <2>2
<1> QED BY <1>1, <1>2 DEF OutBefore

\* The head of a queue goes first, and the rest keeps its order.
LEMMA RisingTail ==
  ASSUME NEW S, NEW s \in Seq(S), s # <<>>, NEW em, Rising(em, s)
  PROVE  Rising(em, Tail(s)) /\ \A j \in DOMAIN Tail(s) : Before(em, Head(s), Tail(s)[j])
<1>1. /\ 1 \in DOMAIN s /\ s[1] = Head(s)
      /\ \A i \in DOMAIN Tail(s) : i + 1 \in DOMAIN s /\ Tail(s)[i] = s[i + 1] /\ i \in Nat \ {0}
  BY TailPlaces
<1>2. ASSUME NEW i \in DOMAIN Tail(s), NEW j \in DOMAIN Tail(s), i < j
      PROVE  Before(em, Tail(s)[i], Tail(s)[j])
  <2>1. i + 1 < j + 1
    BY <1>1, <1>2
  <2> QED BY <1>1, <2>1 DEF Rising
<1>3. ASSUME NEW j \in DOMAIN Tail(s) PROVE Before(em, Head(s), Tail(s)[j])
  <2>1. 1 < j + 1
    BY <1>1
  <2> QED BY <1>1, <2>1 DEF Rising
<1> QED BY <1>2, <1>3 DEF Rising

LEMMA PrecedeTails ==
  ASSUME NEW S, NEW s \in Seq(S), s # <<>>, NEW em, NEW t
  PROVE  /\ Precede(em, s, t) => Precede(em, Tail(s), t) /\ \A j \in DOMAIN t : Before(em, Head(s), t[j])
         /\ Precede(em, t, s) => Precede(em, t, Tail(s))
<1>1. /\ 1 \in DOMAIN s /\ s[1] = Head(s)
      /\ \A i \in DOMAIN Tail(s) : i + 1 \in DOMAIN s /\ Tail(s)[i] = s[i + 1] /\ i \in Nat \ {0}
  BY TailPlaces
<1> QED BY <1>1 DEF Precede

LEMMA OutBeforeTail ==
  ASSUME NEW S, NEW s \in Seq(S), s # <<>>, NEW em, NEW sh, NEW way, OutBefore(em, sh, way, s)
  PROVE  /\ OutBefore(em, sh, way, Tail(s))
         /\ \A i \in DOMAIN sh : sh[i].way = way => Before(em, sh[i].event, Head(s))
<1>1. /\ 1 \in DOMAIN s /\ s[1] = Head(s)
      /\ \A i \in DOMAIN Tail(s) : i + 1 \in DOMAIN s /\ Tail(s)[i] = s[i + 1] /\ i \in Nat \ {0}
  BY TailPlaces
<1> QED BY <1>1 DEF OutBefore

\* Two queues in order, one before the other, are in order when joined.
LEMMA RisingConcat ==
  ASSUME NEW S, NEW s \in Seq(S), NEW t \in Seq(S), NEW em,
         Rising(em, s), Rising(em, t), Precede(em, s, t)
  PROVE  Rising(em, s \o t)
<1>1. ASSUME NEW i \in DOMAIN (s \o t), NEW j \in DOMAIN (s \o t), i < j
      PROVE  Before(em, (s \o t)[i], (s \o t)[j])
  <2> DEFINE n == Len(s)
  <2>1. /\ i \in Nat /\ n \in Nat /\ DOMAIN s = 1..n
        /\ IF i <= n THEN i \in DOMAIN s /\ (s \o t)[i] = s[i]
                     ELSE i - n \in DOMAIN t /\ (s \o t)[i] = t[i - n]
    BY ConcatPlaces
  <2>2. /\ j \in Nat
        /\ IF j <= n THEN j \in DOMAIN s /\ (s \o t)[j] = s[j]
                     ELSE j - n \in DOMAIN t /\ (s \o t)[j] = t[j - n]
    BY ConcatPlaces
  <2> HIDE DEF n
  <2>3. CASE j <= n
    BY <1>1, <2>1, <2>2, <2>3 DEF Rising
  <2>4. CASE i <= n /\ ~(j <= n)
    BY <1>1, <2>1, <2>2, <2>4 DEF Precede
  <2>5. CASE ~(i <= n) /\ ~(j <= n)
    <3>1. i - n < j - n
      BY <1>1, <2>1, <2>2
    <3> QED BY <2>1, <2>2, <2>5, <3>1 DEF Rising
  <2> QED BY <1>1, <2>1, <2>2, <2>3, <2>4, <2>5
<1> QED BY <1>1 DEF Rising

LEMMA OutBeforeConcat ==
  ASSUME NEW S, NEW s \in Seq(S), NEW t \in Seq(S), NEW em, NEW sh, NEW way,
         OutBefore(em, sh, way, s), OutBefore(em, sh, way, t)
  PROVE  OutBefore(em, sh, way, s \o t)
<1>1. ASSUME NEW i \in DOMAIN sh, sh[i].way = way, NEW j \in DOMAIN (s \o t)
      PROVE  Before(em, sh[i].event, (s \o t)[j])
  <2>1. IF j <= Len(s) THEN j \in DOMAIN s /\ (s \o t)[j] = s[j]
                       ELSE j - Len(s) \in DOMAIN t /\ (s \o t)[j] = t[j - Len(s)]
    BY ConcatPlaces
  <2>2. CASE j <= Len(s)
    BY <1>1, <2>1, <2>2 DEF OutBefore
  <2>3. CASE ~(j <= Len(s))
    BY <1>1, <2>1, <2>3 DEF OutBefore
  <2> QED BY <2>2, <2>3
<1> QED BY <1>1 DEF OutBefore

\* An event after what was shown its way may be shown.
LEMMA OutRisingAppend ==
  ASSUME NEW S, NEW sh \in Seq(S), NEW r, NEW em, OutRising(em, sh),
         \A i \in DOMAIN sh : sh[i].way = r.way => Before(em, sh[i].event, r.event)
  PROVE  OutRising(em, Append(sh, r))
<1> DEFINE n == Len(sh)
<1>1. /\ n \in Nat /\ DOMAIN sh = 1..n /\ DOMAIN Append(sh, r) = 1..(n + 1)
      /\ Append(sh, r)[n + 1] = r /\ \A i \in 1..n : Append(sh, r)[i] = sh[i]
  BY AppendPlaces
<1> HIDE DEF n
<1>2. ASSUME NEW i \in 1..(n + 1), NEW j \in 1..(n + 1), i < j, Append(sh, r)[i].way = Append(sh, r)[j].way
      PROVE  Before(em, Append(sh, r)[i].event, Append(sh, r)[j].event)
  <2>1. i \in 1..n
    BY <1>1, <1>2
  <2>2. CASE j \in 1..n
    BY <1>1, <1>2, <2>1, <2>2 DEF OutRising
  <2>3. CASE j = n + 1
    BY <1>1, <1>2, <2>1, <2>3
  <2> QED BY <1>1, <2>2, <2>3
<1> QED BY <1>1, <1>2 DEF OutRising

LEMMA OutBeforeShown ==
  ASSUME NEW S, NEW sh \in Seq(S), NEW r, NEW em, NEW way, NEW t, OutBefore(em, sh, way, t),
         r.way = way => \A j \in DOMAIN t : Before(em, r.event, t[j])
  PROVE  OutBefore(em, Append(sh, r), way, t)
<1> DEFINE n == Len(sh)
<1>1. /\ n \in Nat /\ DOMAIN sh = 1..n /\ DOMAIN Append(sh, r) = 1..(n + 1)
      /\ Append(sh, r)[n + 1] = r /\ \A i \in 1..n : Append(sh, r)[i] = sh[i]
  BY AppendPlaces
<1> HIDE DEF n
<1>2. ASSUME NEW i \in 1..(n + 1), Append(sh, r)[i].way = way, NEW j \in DOMAIN t
      PROVE  Before(em, Append(sh, r)[i].event, t[j])
  <2>1. CASE i \in 1..n
    BY <1>1, <1>2, <2>1 DEF OutBefore
  <2>2. CASE i = n + 1
    BY <1>1, <1>2, <2>2
  <2> QED BY <1>1, <2>1, <2>2
<1> QED BY <1>1, <1>2 DEF OutBefore

\* So they are, all of them, in whatever order events are raised and go out.
InTurn(em, sd, tk, id, sh) ==
  /\ OutRising(em, sh)
  /\ Rising(em, sd) /\ Rising(em, tk) /\ Rising(em, id)
  /\ OutBefore(em, sh, "run", tk) /\ OutBefore(em, sh, "run", sd)
  /\ Precede(em, tk, sd)
  /\ OutBefore(em, sh, "bus", id) /\ OutBefore(em, sh, "bus", sd)
  /\ Precede(em, id, sd)

LEMMA EmptyInTurn ==
  ASSUME NEW em, NEW s, NEW sh, NEW way
  PROVE  /\ Rising(em, <<>>) /\ Precede(em, <<>>, s) /\ Precede(em, s, <<>>) /\ OutBefore(em, sh, way, <<>>)
BY DEF Rising, Precede, OutBefore

\* A queue of raised events keeps its order when one more is raised.
LEMMA TurnsStay ==
  ASSUME NEW R, NEW em \in Seq(R), NEW r, r.event \notin Raisings(em),
         NEW sd, NEW tk, NEW id, NEW sh, InTurn(em, sd, tk, id, sh),
         \A i \in DOMAIN sd : sd[i] \in Raisings(em),
         \A i \in DOMAIN tk : tk[i] \in Raisings(em),
         \A i \in DOMAIN id : id[i] \in Raisings(em),
         \A i \in DOMAIN sh : sh[i].event \in Raisings(em)
  PROVE  InTurn(Append(em, r), sd, tk, id, sh)
<1> DEFINE up == Append(em, r)
<1>1. ASSUME NEW e \in Raisings(em), NEW f \in Raisings(em), Before(em, e, f) PROVE Before(up, e, f)
  BY <1>1, OrderStays
<1> HIDE DEF up
<1>2. OutRising(up, sh)
  BY <1>1 DEF InTurn, OutRising
<1>3. Rising(up, sd) /\ Rising(up, tk) /\ Rising(up, id)
  BY <1>1 DEF InTurn, Rising
<1>4. Precede(up, tk, sd) /\ Precede(up, id, sd)
  BY <1>1 DEF InTurn, Precede
<1>5. /\ OutBefore(up, sh, "run", tk) /\ OutBefore(up, sh, "run", sd)
      /\ OutBefore(up, sh, "bus", id) /\ OutBefore(up, sh, "bus", sd)
  BY <1>1 DEF InTurn, OutBefore
<1> QED BY <1>2, <1>3, <1>4, <1>5 DEF InTurn, up

\* The event raised is the last of the run's queue, or of the bus's when the run has none.
LEMMA TurnsRaise ==
  ASSUME NEW R, NEW em \in Seq(R), NEW r, r.event \notin Raisings(em),
         NEW S, NEW sd \in Seq(S), NEW tk \in Seq(S), NEW id \in Seq(S), NEW sh,
         InTurn(em, sd, tk, id, sh),
         \A i \in DOMAIN sd : sd[i] \in Raisings(em),
         \A i \in DOMAIN tk : tk[i] \in Raisings(em),
         \A i \in DOMAIN id : id[i] \in Raisings(em),
         \A i \in DOMAIN sh : sh[i].event \in Raisings(em)
  PROVE  /\ InTurn(Append(em, r), Append(sd, r.event), tk, id, sh)
         /\ sd = <<>> => InTurn(Append(em, r), sd, tk, Append(id, r.event), sh)
<1> DEFINE up == Append(em, r)
           x == r.event
<1>1. InTurn(up, sd, tk, id, sh)
  BY TurnsStay
<1>2. \A e \in Raisings(em) : Before(up, e, x)
  BY LastIsAfter
<1>3. /\ \A i \in DOMAIN sd : Before(up, sd[i], x)
      /\ \A i \in DOMAIN tk : Before(up, tk[i], x)
      /\ \A i \in DOMAIN id : Before(up, id[i], x)
      /\ \A i \in DOMAIN sh : Before(up, sh[i].event, x)
  BY <1>2
<1> HIDE DEF up, x
<1>4. InTurn(up, Append(sd, x), tk, id, sh)
  <2>1. Rising(up, Append(sd, x))
    BY <1>1, <1>3, RisingAppend DEF InTurn
  <2>2. Precede(up, tk, Append(sd, x))
    BY <1>1, <1>3, PrecedeAppend DEF InTurn
  <2>3. Precede(up, id, Append(sd, x))
    BY <1>1, <1>3, PrecedeAppend DEF InTurn
  <2>4. OutBefore(up, sh, "run", Append(sd, x))
    BY <1>1, <1>3, OutBeforeAppend DEF InTurn
  <2>5. OutBefore(up, sh, "bus", Append(sd, x))
    BY <1>1, <1>3, OutBeforeAppend DEF InTurn
  <2> QED BY <1>1, <2>1, <2>2, <2>3, <2>4, <2>5 DEF InTurn
<1>5. ASSUME sd = <<>> PROVE InTurn(up, sd, tk, Append(id, x), sh)
  <2>1. Rising(up, Append(id, x))
    BY <1>1, <1>3, RisingAppend DEF InTurn
  <2>2. OutBefore(up, sh, "bus", Append(id, x))
    BY <1>1, <1>3, OutBeforeAppend DEF InTurn
  <2>3. Precede(up, Append(id, x), sd)
    BY <1>5, EmptyInTurn
  <2> QED BY <1>1, <2>1, <2>2, <2>3 DEF InTurn
<1> QED BY <1>4, <1>5 DEF up, x

\* What goes out is the first of its queue.
LEMMA TurnsFlushSide ==
  ASSUME NEW em, NEW S, NEW sd \in Seq(S), sd # <<>>, NEW tk, tk = <<>>, NEW id,
         NEW Q, NEW sh \in Seq(Q), InTurn(em, sd, tk, id, sh)
  PROVE  /\ InTurn(em, Tail(sd), tk, id, Append(sh, [event |-> Head(sd), way |-> "run"]))
         /\ InTurn(em, Tail(sd), tk, id, sh)
<1> DEFINE r == [event |-> Head(sd), way |-> "run"]
           rest == Tail(sd)
<1>1. /\ Rising(em, rest) /\ \A j \in DOMAIN rest : Before(em, Head(sd), rest[j])
  BY RisingTail DEF InTurn
<1>2. Precede(em, tk, rest) /\ Precede(em, id, rest)
  BY PrecedeTails DEF InTurn
<1>3. OutBefore(em, sh, "run", rest) /\ \A i \in DOMAIN sh : sh[i].way = "run" => Before(em, sh[i].event, Head(sd))
  BY OutBeforeTail DEF InTurn
<1>4. OutBefore(em, sh, "bus", rest)
  BY OutBeforeTail DEF InTurn
<1>5. r.event = Head(sd) /\ r.way = "run"
  OBVIOUS
<1> HIDE DEF r, rest
<1>6. InTurn(em, rest, tk, id, sh)
  BY <1>1, <1>2, <1>3, <1>4 DEF InTurn
<1>7. InTurn(em, rest, tk, id, Append(sh, r))
  <2>1. OutRising(em, Append(sh, r))
    BY <1>3, <1>5, OutRisingAppend DEF InTurn
  <2>2. OutBefore(em, Append(sh, r), "run", rest)
    BY <1>1, <1>3, <1>5, OutBeforeShown
  <2>3. OutBefore(em, Append(sh, r), "bus", rest)
    BY <1>4, <1>5, OutBeforeShown
  <2>4. OutBefore(em, Append(sh, r), "bus", id)
    BY <1>5, OutBeforeShown DEF InTurn
  <2>5. OutBefore(em, Append(sh, r), "run", tk)
    BY EmptyInTurn
  <2> QED BY <1>6, <2>1, <2>2, <2>3, <2>4, <2>5 DEF InTurn
<1> QED BY <1>6, <1>7 DEF r, rest

LEMMA TurnsFlushTaken ==
  ASSUME NEW em, NEW sd, NEW S, NEW tk \in Seq(S), tk # <<>>, NEW id,
         NEW Q, NEW sh \in Seq(Q), InTurn(em, sd, tk, id, sh)
  PROVE  InTurn(em, sd, Tail(tk), id, Append(sh, [event |-> Head(tk), way |-> "run"]))
<1> DEFINE r == [event |-> Head(tk), way |-> "run"]
           rest == Tail(tk)
<1>1. /\ Rising(em, rest) /\ \A j \in DOMAIN rest : Before(em, Head(tk), rest[j])
  BY RisingTail DEF InTurn
<1>2. Precede(em, rest, sd) /\ \A j \in DOMAIN sd : Before(em, Head(tk), sd[j])
  BY PrecedeTails DEF InTurn
<1>3. OutBefore(em, sh, "run", rest) /\ \A i \in DOMAIN sh : sh[i].way = "run" => Before(em, sh[i].event, Head(tk))
  BY OutBeforeTail DEF InTurn
<1>4. r.event = Head(tk) /\ r.way = "run"
  OBVIOUS
<1> HIDE DEF r, rest
<1>5. InTurn(em, sd, rest, id, Append(sh, r))
  <2>1. OutRising(em, Append(sh, r))
    BY <1>3, <1>4, OutRisingAppend DEF InTurn
  <2>2. OutBefore(em, Append(sh, r), "run", rest)
    BY <1>1, <1>3, <1>4, OutBeforeShown
  <2>3. OutBefore(em, Append(sh, r), "run", sd)
    BY <1>2, <1>4, OutBeforeShown DEF InTurn
  <2>4. OutBefore(em, Append(sh, r), "bus", id)
    BY <1>4, OutBeforeShown DEF InTurn
  <2>5. OutBefore(em, Append(sh, r), "bus", sd)
    BY <1>4, OutBeforeShown DEF InTurn
  <2> QED BY <1>1, <1>2, <2>1, <2>2, <2>3, <2>4, <2>5 DEF InTurn
<1> QED BY <1>5 DEF r, rest

LEMMA TurnsTell ==
  ASSUME NEW em, NEW sd, NEW tk, NEW S, NEW id \in Seq(S), id # <<>>,
         NEW Q, NEW sh \in Seq(Q), InTurn(em, sd, tk, id, sh)
  PROVE  /\ InTurn(em, sd, tk, Tail(id), Append(sh, [event |-> Head(id), way |-> "bus"]))
         /\ InTurn(em, sd, tk, Tail(id), sh)
<1> DEFINE r == [event |-> Head(id), way |-> "bus"]
           rest == Tail(id)
<1>1. /\ Rising(em, rest) /\ \A j \in DOMAIN rest : Before(em, Head(id), rest[j])
  BY RisingTail DEF InTurn
<1>2. Precede(em, rest, sd) /\ \A j \in DOMAIN sd : Before(em, Head(id), sd[j])
  BY PrecedeTails DEF InTurn
<1>3. OutBefore(em, sh, "bus", rest) /\ \A i \in DOMAIN sh : sh[i].way = "bus" => Before(em, sh[i].event, Head(id))
  BY OutBeforeTail DEF InTurn
<1>4. r.event = Head(id) /\ r.way = "bus"
  OBVIOUS
<1> HIDE DEF r, rest
<1>5. InTurn(em, sd, tk, rest, sh)
  BY <1>1, <1>2, <1>3 DEF InTurn
<1>6. InTurn(em, sd, tk, rest, Append(sh, r))
  <2>1. OutRising(em, Append(sh, r))
    BY <1>3, <1>4, OutRisingAppend DEF InTurn
  <2>2. OutBefore(em, Append(sh, r), "bus", rest)
    BY <1>1, <1>3, <1>4, OutBeforeShown
  <2>3. OutBefore(em, Append(sh, r), "bus", sd)
    BY <1>2, <1>4, OutBeforeShown DEF InTurn
  <2>4. OutBefore(em, Append(sh, r), "run", tk)
    BY <1>4, OutBeforeShown DEF InTurn
  <2>5. OutBefore(em, Append(sh, r), "run", sd)
    BY <1>4, OutBeforeShown DEF InTurn
  <2> QED BY <1>1, <1>2, <1>5, <2>1, <2>2, <2>3, <2>4, <2>5 DEF InTurn
<1> QED BY <1>5, <1>6 DEF r, rest

\* The run's queue is drained into its hand, handed back behind the bus's, or dropped.
LEMMA TurnsMove ==
  ASSUME NEW em, NEW S, NEW sd \in Seq(S), NEW tk, NEW id \in Seq(S), NEW sh, InTurn(em, sd, tk, id, sh)
  PROVE  /\ InTurn(em, <<>>, sd, id, sh)
         /\ InTurn(em, <<>>, tk, id \o sd, sh)
         /\ InTurn(em, <<>>, tk, id, sh)
         /\ InTurn(em, sd, <<>>, id, sh)
<1>1. Rising(em, id \o sd)
  BY RisingConcat DEF InTurn
<1>2. OutBefore(em, sh, "bus", id \o sd)
  BY OutBeforeConcat DEF InTurn
<1> QED BY <1>1, <1>2, EmptyInTurn DEF InTurn

-----------------------------------------------------------------------------
(* Where each event is.                                                    *)

\* A child that has no session has raised nothing, and one that is not through
\* has not raised its end.
FreshOf(c) ==
  /\ task[c].sid => task[c].runner # "none"
  /\ \A i \in DOMAIN emitted : emitted[i].event.child = c => task[c].sid
  /\ \A i \in DOMAIN emitted :
       emitted[i].event.child = c /\ emitted[i].event.what = "end" => task[c].runner = "ended"

Fresh == \A c \in Children : FreshOf(c)

RaisedOnce == \A i, j \in DOMAIN emitted : emitted[i].event = emitted[j].event => i = j

\* What is in the run's queue was raised to that run.
OfTheRun == \A i \in DOMAIN emitted : \A j \in DOMAIN side : emitted[i].event = side[j] => emitted[i].run = runs

\* A session without a run has no queue of one, only the last flush has events
\* in hand, and a run that was left never began.
Stages ==
  /\ phase = "idle" => side = <<>>
  /\ taken # <<>> => phase = "flushing"
  /\ phase = "left" => runs \in rejected

\* Lost, as an event may be.
Gone(e) == e \in cut \/ \E i \in DOMAIN emitted : emitted[i].event = e /\ emitted[i].run \in rejected

KeptOf(e) ==
  /\ Places(e) <= 1
  /\ Places(e) = 1 => e \in Raisings(emitted)
  /\ Places(e) = 0 /\ e \in Raisings(emitted) => Gone(e)

Logged(e) == IsPersisted(e) => Count(log, e) = Showings(e) + InHand(e)

Kept == \A e \in Events : KeptOf(e) /\ Logged(e)

Turns == InTurn(emitted, side, taken, idle, shown)

OInv == Fresh /\ RaisedOnce /\ OfTheRun /\ Stages /\ Kept /\ Turns

LEMMA CountsTyped ==
  ASSUME TypeOK, NEW e
  PROVE  /\ Count(side, e) \in Nat /\ Count(taken, e) \in Nat /\ Count(idle, e) \in Nat
         /\ Count(log, e) \in Nat /\ Shows(shown, e) \in Nat
         /\ Places(e) = Count(side, e) + Count(taken, e) + Count(idle, e) + Shows(shown, e)
         /\ Places(e) \in Nat /\ Showings(e) = Shows(shown, e) /\ InHand(e) \in {0, 1}
<1>1. /\ side \in Seq(Events) /\ taken \in Seq(Events) /\ idle \in Seq(Events) /\ log \in Seq(Events)
      /\ shown \in Seq([event : Events, way : {"run", "bus"}])
  BY DEF TypeOK
<1>2. /\ Count(side, e) \in Nat /\ Count(taken, e) \in Nat /\ Count(idle, e) \in Nat
      /\ Count(log, e) \in Nat /\ Shows(shown, e) \in Nat
  BY <1>1, CountTyped, ShowsTyped
<1>3. Showings(e) = Shows(shown, e)
  BY DEF Showings, Shows
<1>4. Places(e) = Count(side, e) + Count(taken, e) + Count(idle, e) + Shows(shown, e)
  BY <1>3 DEF Places
<1> QED BY <1>2, <1>3, <1>4 DEF InHand

LEMMA CountsTypedNext ==
  ASSUME TypeOK', NEW e
  PROVE  /\ Count(side', e) \in Nat /\ Count(taken', e) \in Nat /\ Count(idle', e) \in Nat
         /\ Count(log', e) \in Nat /\ Shows(shown', e) \in Nat
         /\ Places(e)' = Count(side', e) + Count(taken', e) + Count(idle', e) + Shows(shown', e)
         /\ Places(e)' \in Nat /\ Showings(e)' = Shows(shown', e)
<1>1. /\ side' \in Seq(Events) /\ taken' \in Seq(Events) /\ idle' \in Seq(Events) /\ log' \in Seq(Events)
      /\ shown' \in Seq([event : Events, way : {"run", "bus"}])
  BY DEF TypeOK
<1>2. /\ Count(side', e) \in Nat /\ Count(taken', e) \in Nat /\ Count(idle', e) \in Nat
      /\ Count(log', e) \in Nat /\ Shows(shown', e) \in Nat
  BY <1>1, CountTyped, ShowsTyped
<1>3. Showings(e)' = Shows(shown', e)
  BY DEF Showings, Shows
<1>4. Places(e)' = Count(side', e) + Count(taken', e) + Count(idle', e) + Shows(shown', e)
  BY <1>3 DEF Places, Count
<1> QED BY <1>2, <1>3, <1>4

\* All that is on its way or was shown was raised.
LEMMA AllRaised ==
  ASSUME TypeOK, Kept
  PROVE  /\ \A i \in DOMAIN side : side[i] \in Raisings(emitted)
         /\ \A i \in DOMAIN taken : taken[i] \in Raisings(emitted)
         /\ \A i \in DOMAIN idle : idle[i] \in Raisings(emitted)
         /\ \A i \in DOMAIN shown : shown[i].event \in Raisings(emitted)
<1>1. /\ side \in Seq(Events) /\ taken \in Seq(Events) /\ idle \in Seq(Events)
      /\ shown \in Seq([event : Events, way : {"run", "bus"}])
  BY DEF TypeOK
<1>2. ASSUME NEW e \in Events,
             Count(side, e) >= 1 \/ Count(taken, e) >= 1 \/ Count(idle, e) >= 1 \/ Shows(shown, e) >= 1
      PROVE  e \in Raisings(emitted)
  <2>1. Places(e) = 1
    BY <1>2, CountsTyped DEF Kept, KeptOf
  <2> QED BY <2>1 DEF Kept, KeptOf
<1>3. ASSUME NEW i \in DOMAIN side PROVE side[i] \in Raisings(emitted)
  <2>1. Count(side, side[i]) >= 1 /\ side[i] \in Events
    BY <1>1, <1>3, CountIn, ElementTyped
  <2> QED BY <1>2, <2>1
<1>4. ASSUME NEW i \in DOMAIN taken PROVE taken[i] \in Raisings(emitted)
  <2>1. Count(taken, taken[i]) >= 1 /\ taken[i] \in Events
    BY <1>1, <1>4, CountIn, ElementTyped
  <2> QED BY <1>2, <2>1
<1>5. ASSUME NEW i \in DOMAIN idle PROVE idle[i] \in Raisings(emitted)
  <2>1. Count(idle, idle[i]) >= 1 /\ idle[i] \in Events
    BY <1>1, <1>5, CountIn, ElementTyped
  <2> QED BY <1>2, <2>1
<1>6. ASSUME NEW i \in DOMAIN shown PROVE shown[i].event \in Raisings(emitted)
  <2>1. Shows(shown, shown[i].event) >= 1
    BY <1>1, <1>6, ShowsIn
  <2>2. shown[i].event \in Events
    <3>1. shown[i] \in [event : Events, way : {"run", "bus"}]
      BY <1>1, <1>6, ElementTyped
    <3> QED BY <3>1
  <2> QED BY <1>2, <2>1, <2>2
<1> QED BY <1>3, <1>4, <1>5, <1>6

\* A step that raises nothing keeps the account of an event unless it loses it
\* where it may.
LEMMA AccountKept ==
  ASSUME TypeOK, TypeOK', NEW e \in Events, KeptOf(e), emitted' = emitted,
         cut \subseteq cut', rejected \subseteq rejected',
         Places(e)' = Places(e) \/ (Places(e)' <= Places(e) /\ (Gone(e))')
  PROVE  KeptOf(e)'
<1>1. Places(e) \in Nat /\ Places(e)' \in Nat
  BY CountsTyped, CountsTypedNext
<1>2. Gone(e) => (Gone(e))'
  BY DEF Gone
<1>3. Places(e)' <= 1
  BY <1>1 DEF KeptOf
<1>4. Places(e)' = 1 => e \in Raisings(emitted')
  BY <1>1 DEF KeptOf
<1>5. Places(e)' = 0 /\ e \in Raisings(emitted') => (Gone(e))'
  BY <1>1, <1>2 DEF KeptOf
<1> QED BY <1>3, <1>4, <1>5 DEF KeptOf

\* A step of the run that raises nothing, moves no event and loses none.
LEMMA QuietKept ==
  ASSUME TypeOK, TypeOK', OfTheRun, RaisedOnce, Kept, Turns,
         UNCHANGED <<side, taken, idle, log, shown, emitted>>,
         cut \subseteq cut', rejected \subseteq rejected',
         bus'.step = "kept" <=> bus.step = "kept", runs' = runs
  PROVE  OfTheRun' /\ RaisedOnce' /\ Kept' /\ Turns'
<1>1. ASSUME NEW e \in Events PROVE KeptOf(e)' /\ Logged(e)'
  <2>1. Places(e)' = Places(e)
    BY DEF Places, Showings
  <2>2. KeptOf(e)'
    BY <2>1, AccountKept DEF Kept
  <2>3. InHand(e)' = InHand(e) /\ Showings(e)' = Showings(e)
    BY DEF InHand, Showings
  <2>4. Logged(e)'
    BY <2>3 DEF Kept, Logged
  <2> QED BY <2>2, <2>4
<1> QED BY <1>1 DEF Kept, OfTheRun, RaisedOnce, Turns

\* What comes behind the first of a queue leaves it the first.
LEMMA HeadStays ==
  ASSUME NEW S, NEW s \in Seq(S), s # <<>>
  PROVE  /\ \A x \in S : Append(s, x) # <<>> /\ Head(Append(s, x)) = Head(s)
         /\ \A t \in Seq(S) : s \o t # <<>> /\ Head(s \o t) = Head(s)
<1>1. 1 \in DOMAIN s /\ s[1] = Head(s) /\ Len(s) \in Nat /\ DOMAIN s = 1..Len(s)
  OBVIOUS
<1>2. ASSUME NEW x \in S PROVE Append(s, x) # <<>> /\ Head(Append(s, x)) = Head(s)
  <2>1. Append(s, x) \in Seq(S) /\ Append(s, x) # <<>>
    BY AppendTyped, AppendFilled
  <2>2. Append(s, x)[1] = s[1]
    BY <1>1, AppendPlaces
  <2> QED BY <1>1, <2>1, <2>2
<1>3. ASSUME NEW t \in Seq(S) PROVE s \o t # <<>> /\ Head(s \o t) = Head(s)
  <2>1. s \o t \in Seq(S) /\ Len(s \o t) = Len(s) + Len(t) /\ Len(t) \in Nat /\ Len(s) >= 1
    BY <1>1
  <2>2. s \o t # <<>>
    BY <1>1, <2>1
  <2>3. (s \o t)[1] = s[1]
    BY <1>1
  <2> QED BY <1>1, <2>1, <2>2, <2>3
<1> QED BY <1>2, <1>3

\* An event raised for the first time is on its way once, behind all others.
LEMMA RaiseKept ==
  ASSUME TypeOK, TypeOK', InLine, OfTheRun, RaisedOnce, Stages, Kept, Turns,
         NEW e \in Events, e \notin Raisings(emitted), Raise(e),
         UNCHANGED <<taken, log, shown, bus, cut, rejected, run>>
  PROVE  OfTheRun' /\ RaisedOnce' /\ Stages' /\ Kept' /\ Turns'
<1> DEFINE r == [event |-> e, run |-> IF Subscribed THEN runs ELSE 0]
           n == Len(emitted)
<1>1. /\ emitted \in Seq([event : Events, run : Nat])
      /\ side \in Seq(Events) /\ taken \in Seq(Events) /\ idle \in Seq(Events)
  BY DEF TypeOK
<1>2. emitted' = Append(emitted, r) /\ r.event = e
  BY DEF Raise
<1>3. /\ n \in Nat /\ DOMAIN emitted = 1..n /\ DOMAIN emitted' = 1..(n + 1)
      /\ emitted'[n + 1] = r /\ \A i \in 1..n : emitted'[i] = emitted[i]
  BY <1>1, <1>2, AppendPlaces
<1>4. ASSUME NEW i \in DOMAIN emitted PROVE emitted[i].event # e
  BY <1>4 DEF Raisings
<1>5. \/ Subscribed /\ side' = Append(side, e) /\ idle' = idle /\ r.run = runs
      \/ ~Subscribed /\ side = <<>> /\ side' = side /\ idle' = Append(idle, e)
  BY DEF Raise, Stages, Subscribed
<1> HIDE DEF r, n
<1>6. Turns'
  <2>1. /\ InTurn(Append(emitted, r), Append(side, r.event), taken, idle, shown)
        /\ side = <<>> => InTurn(Append(emitted, r), side, taken, Append(idle, r.event), shown)
    BY <1>1, <1>2, AllRaised, TurnsRaise DEF Turns
  <2> QED BY <1>2, <1>5, <2>1 DEF Turns
<1>7. RaisedOnce'
  BY <1>2, <1>3, <1>4 DEF RaisedOnce
<1>8. OfTheRun'
  <2>1. ASSUME NEW i \in DOMAIN emitted', NEW j \in DOMAIN side', emitted'[i].event = side'[j]
        PROVE  emitted'[i].run = runs'
    <3>1. CASE side' = Append(side, e) /\ r.run = runs
      <4> DEFINE m == Len(side)
      <4>1. /\ m \in Nat /\ DOMAIN side = 1..m /\ DOMAIN side' = 1..(m + 1)
            /\ side'[m + 1] = e /\ \A k \in 1..m : side'[k] = side[k]
        BY <1>1, <3>1, AppendPlaces
      <4> HIDE DEF m
      <4>2. CASE i \in 1..n
        <5>1. emitted'[i] = emitted[i] /\ side'[j] # e
          BY <1>3, <1>4, <2>1, <4>2
        <5>2. j \in DOMAIN side /\ side'[j] = side[j]
          BY <2>1, <4>1, <5>1
        <5> QED BY <1>3, <2>1, <4>2, <5>1, <5>2 DEF OfTheRun
      <4>3. CASE i = n + 1
        BY <1>3, <3>1, <4>3
      <4> QED BY <1>3, <2>1, <4>2, <4>3
    <3>2. CASE side = <<>> /\ side' = side
      BY <2>1, <3>2
    <3> QED BY <1>5, <3>1, <3>2
  <2> QED BY <2>1 DEF OfTheRun
<1>9. Stages'
  BY <1>5 DEF Stages, Subscribed
<1>10. ASSUME NEW f PROVE Count(side', f) + Count(idle', f)
                          = Count(side, f) + Count(idle, f) + One(e, f)
  <2>1. /\ Count(Append(side, e), f) = Count(side, f) + One(e, f)
        /\ Count(Append(idle, e), f) = Count(idle, f) + One(e, f)
    BY <1>1, CountAppend
  <2>2. Count(side, f) \in Nat /\ Count(idle, f) \in Nat
    BY CountsTyped
  <2>3. One(e, f) \in Nat
    BY OneTyped
  <2>4. \/ Count(side', f) = Count(side, f) + One(e, f) /\ Count(idle', f) = Count(idle, f)
        \/ Count(side', f) = Count(side, f) /\ Count(idle', f) = Count(idle, f) + One(e, f)
    BY <1>5, <2>1
  <2>5. Count(side', f) + Count(idle', f) = Count(side, f) + Count(idle, f) + One(e, f)
    BY <2>2, <2>3, <2>4
  <2> QED BY <2>5
<1>11. Raisings(emitted') = Raisings(emitted) \cup {e}
  <2>1. \A i \in DOMAIN emitted : i \in DOMAIN emitted' /\ emitted'[i] = emitted[i]
    BY <1>3
  <2>2. n + 1 \in DOMAIN emitted' /\ emitted'[n + 1].event = e
    BY <1>2, <1>3
  <2>3. \A i \in DOMAIN emitted' : i \in DOMAIN emitted \/ i = n + 1
    BY <1>3
  <2> QED BY <2>1, <2>2, <2>3 DEF Raisings
<1>12. ASSUME NEW f \in Events PROVE KeptOf(f)'
  <2>1. Places(f)' = Places(f) + One(e, f) /\ Places(f) \in Nat
    <3>1. Count(taken', f) = Count(taken, f) /\ Shows(shown', f) = Shows(shown, f)
      OBVIOUS
    <3>2. One(e, f) \in Nat /\ Count(side', f) + Count(idle', f) = Count(side, f) + Count(idle, f) + One(e, f)
      BY <1>10, OneTyped
    <3>3. Places(f)' = Places(f) + One(e, f) /\ Places(f) \in Nat
      <4>1. /\ Count(side, f) \in Nat /\ Count(taken, f) \in Nat /\ Count(idle, f) \in Nat
            /\ Shows(shown, f) \in Nat /\ Places(f) \in Nat
            /\ Places(f) = Count(side, f) + Count(taken, f) + Count(idle, f) + Shows(shown, f)
        BY CountsTyped
      <4>2. /\ Count(side', f) \in Nat /\ Count(idle', f) \in Nat
            /\ Places(f)' = Count(side', f) + Count(taken, f) + Count(idle', f) + Shows(shown, f)
        BY <3>1, CountsTypedNext
      <4> QED BY <3>2, <4>1, <4>2
    <3> QED BY <3>3
  <2>2. KeptOf(f)
    BY <1>12 DEF Kept
  <2>3. CASE f = e
    <3>1. Places(f) = 0
      BY <2>1, <2>2, <2>3 DEF KeptOf
    <3>2. Places(f)' = 1
      BY <2>1, <2>3, <3>1, OneTyped
    <3> QED BY <1>11, <2>3, <3>2 DEF KeptOf
  <2>4. CASE f # e
    <3>1. Places(f)' = Places(f)
      BY <2>1, <2>4, OneTyped
    <3>2. Gone(f) => (Gone(f))'
      BY <1>3 DEF Gone
    <3>3. f \in Raisings(emitted') <=> f \in Raisings(emitted)
      BY <1>11, <2>4
    <3> QED BY <2>2, <3>1, <3>2, <3>3 DEF KeptOf
  <2> QED BY <2>3, <2>4
<1>13. ASSUME NEW f \in Events PROVE Logged(f)'
  <2>1. InHand(f)' = InHand(f)
    <3>1. bus.step = "kept" => idle # <<>>
      BY DEF InLine
    <3>2. idle # <<>> => idle' # <<>> /\ Head(idle') = Head(idle)
      <4>1. idle # <<>> => Append(idle, e) # <<>> /\ Head(Append(idle, e)) = Head(idle)
        BY <1>1, HeadStays
      <4> QED BY <1>5, <4>1
    <3> QED BY <3>1, <3>2 DEF InHand
  <2>2. Showings(f)' = Showings(f) /\ Count(log', f) = Count(log, f)
    BY DEF Showings
  <2> QED BY <1>13, <2>1, <2>2 DEF Kept, Logged
<1> QED BY <1>6, <1>7, <1>8, <1>9, <1>12, <1>13 DEF Kept

\* What a child raises, it raises for the first time.
LEMMA RaisesFresh ==
  ASSUME TypeOK, Fate, Fresh, NEW c \in Children
  PROVE  /\ Mint(c) => Event("start", c, "none") \notin Raisings(emitted)
         /\ Speak(c) => Event("word", c, "none") \notin Raisings(emitted)
         /\ task[c].runner # "ended" => \A status : Event("end", c, Outcome(status)) \notin Raisings(emitted)
<1>1. FreshOf(c)
  BY DEF Fresh
<1>2. ASSUME Mint(c) PROVE Event("start", c, "none") \notin Raisings(emitted)
  BY <1>1, <1>2 DEF Mint, FreshOf, Raisings, Event
<1>3. ASSUME Speak(c) PROVE Event("word", c, "none") \notin Raisings(emitted)
  BY <1>3 DEF Speak, Raisings
<1>4. ASSUME task[c].runner # "ended", NEW status
      PROVE  Event("end", c, Outcome(status)) \notin Raisings(emitted)
  BY <1>1, <1>4 DEF FreshOf, Raisings, Event
<1> QED BY <1>2, <1>3, <1>4

\* A child's step keeps where the events are.
LEMMA RaiseEndKept ==
  ASSUME TypeOK, TypeOK', InLine, Fate, Fresh, OfTheRun, RaisedOnce, Stages, Kept, Turns,
         NEW c \in Children, NEW status, task[c].runner # "ended", RaiseEnd(c, status),
         UNCHANGED <<taken, log, shown, bus, cut, rejected, run>>
  PROVE  OfTheRun' /\ RaisedOnce' /\ Stages' /\ Kept' /\ Turns'
<1>1. CASE task[c].sid
  <2>1. Raise(Event("end", c, Outcome(status)))
    BY <1>1 DEF RaiseEnd
  <2>2. Event("end", c, Outcome(status)) \in Events \ Raisings(emitted)
    BY EventTyped, OutcomeTyped, RaisesFresh
  <2> QED BY <2>1, <2>2, RaiseKept
<1>2. CASE ~task[c].sid
  <2>1. UNCHANGED <<side, idle, emitted>>
    BY <1>2 DEF RaiseEnd
  <2>2. Stages'
    BY <2>1 DEF Stages
  <2> QED BY <2>1, <2>2, QuietKept
<1> QED BY <1>1, <1>2

LEMMA ChildKept ==
  ASSUME TypeOK, TypeOK', InLine, Fate, Fresh, OfTheRun, RaisedOnce, Stages, Kept, Turns,
         NEW c \in Children, NEW status \in {"done", "failed"},
         Mint(c) \/ Speak(c) \/ Steer(c) \/ Listen(c) \/ WrapUp(c) \/ SettledEnd(c) \/ Kill(c)
           \/ Settle(c, status) \/ SettleInline(c, status)
  PROVE  OfTheRun' /\ RaisedOnce' /\ Stages' /\ Kept' /\ Turns'
<1>1. CASE Mint(c)
  <2>1. Event("start", c, "none") \in Events \ Raisings(emitted) /\ Raise(Event("start", c, "none"))
    BY <1>1, EventTyped, RaisesFresh DEF Mint
  <2>2. UNCHANGED <<taken, log, shown, bus, cut, rejected, run>>
    BY <1>1 DEF Mint
  <2> QED BY <2>1, <2>2, RaiseKept
<1>2. CASE Speak(c)
  <2>1. Event("word", c, "none") \in Events \ Raisings(emitted) /\ Raise(Event("word", c, "none"))
    BY <1>2, EventTyped, RaisesFresh DEF Speak
  <2>2. UNCHANGED <<taken, log, shown, bus, cut, rejected, run>>
    BY <1>2 DEF Speak
  <2> QED BY <2>1, <2>2, RaiseKept
<1>3. CASE SettledEnd(c)
  <2>1. task[c].runner # "ended" /\ RaiseEnd(c, task[c].status)
    BY <1>3 DEF SettledEnd
  <2>2. UNCHANGED <<taken, log, shown, bus, cut, rejected, run>>
    BY <1>3 DEF SettledEnd
  <2> QED BY <2>1, <2>2, RaiseEndKept
<1>4. CASE SettleInline(c, status)
  <2>1. task[c].runner # "ended" /\ RaiseEnd(c, Recorded(c, status).status)
    BY <1>4 DEF SettleInline, Settles, Live
  <2>2. UNCHANGED <<taken, log, shown, bus, cut, rejected, run>>
    BY <1>4 DEF SettleInline
  <2> QED BY <2>1, <2>2, RaiseEndKept
<1>5. CASE Steer(c) \/ Listen(c) \/ WrapUp(c) \/ Kill(c) \/ Settle(c, status)
  <2>1. UNCHANGED <<side, taken, idle, log, shown, emitted, bus, cut, rejected, run>>
    BY <1>5 DEF Steer, Listen, WrapUp, Kill, Settle
  <2>2. Stages'
    BY <2>1 DEF Stages
  <2> QED BY <2>1, <2>2, QuietKept
<1> QED BY <1>1, <1>2, <1>3, <1>4, <1>5

\* Which child has raised what, after a step.
LEMMA FreshStays ==
  ASSUME NEW c, FreshOf(c), emitted' = emitted, task'[c].sid = task[c].sid,
         task[c].runner # "none" => task'[c].runner # "none",
         task[c].runner = "ended" => task'[c].runner = "ended"
  PROVE  FreshOf(c)'
BY DEF FreshOf

LEMMA FreshAfter ==
  ASSUME TypeOK, NEW e, Raise(e), NEW c, FreshOf(c),
         task'[c].sid => task'[c].runner # "none", task[c].sid => task'[c].sid,
         task[c].runner = "ended" => task'[c].runner = "ended",
         e.child = c => task'[c].sid /\ (e.what = "end" => task'[c].runner = "ended")
  PROVE  FreshOf(c)'
<1> DEFINE r == [event |-> e, run |-> IF Subscribed THEN runs ELSE 0]
           n == Len(emitted)
<1>1. emitted \in Seq([event : Events, run : Nat])
  BY DEF TypeOK
<1>2. emitted' = Append(emitted, r) /\ r.event = e
  BY DEF Raise
<1>3. /\ DOMAIN emitted = 1..n /\ DOMAIN emitted' = 1..(n + 1) /\ n \in Nat
      /\ emitted'[n + 1] = r /\ \A i \in 1..n : emitted'[i] = emitted[i]
  BY <1>1, <1>2, AppendPlaces
<1> HIDE DEF r, n
<1>4. ASSUME NEW i \in DOMAIN emitted', emitted'[i].event.child = c
      PROVE  task'[c].sid /\ (emitted'[i].event.what = "end" => task'[c].runner = "ended")
  <2>1. CASE i \in 1..n
    BY <1>3, <1>4, <2>1 DEF FreshOf
  <2>2. CASE i = n + 1
    BY <1>2, <1>3, <1>4, <2>2
  <2> QED BY <1>3, <1>4, <2>1, <2>2
<1> QED BY <1>4 DEF FreshOf

LEMMA RaiseEndFresh ==
  ASSUME TypeOK, NEW c \in Children, NEW status, RaiseEnd(c, status), NEW d, FreshOf(d),
         task'[d].sid = task[d].sid, d # c => task'[d] = task[d],
         task[c].runner # "none", task'[c].runner = "ended"
  PROVE  FreshOf(d)'
<1> DEFINE e == Event("end", c, Outcome(status))
<1>1. e.child = c
  BY DEF Event
<1>2. CASE task[c].sid
  <2>1. Raise(e)
    BY <1>2 DEF RaiseEnd
  <2> HIDE DEF e
  <2>2. CASE d = c
    BY <1>1, <1>2, <2>1, <2>2, FreshAfter
  <2>3. CASE d # c
    <3>1. task[d].sid => task[d].runner # "none"
      BY DEF FreshOf
    <3> QED BY <1>1, <2>1, <2>3, <3>1, FreshAfter
  <2> QED BY <2>2, <2>3
<1>3. CASE ~task[c].sid
  <2>1. emitted' = emitted
    BY <1>3 DEF RaiseEnd
  <2>2. CASE d = c
    BY <2>1, <2>2, FreshStays
  <2>3. CASE d # c
    BY <2>1, <2>3, FreshStays
  <2> QED BY <2>2, <2>3
<1> QED BY <1>2, <1>3

LEMMA ChildFresh ==
  ASSUME TypeOK, Fresh, NEW c \in Children, NEW status \in {"done", "failed"},
         Mint(c) \/ Speak(c) \/ Steer(c) \/ Listen(c) \/ WrapUp(c) \/ SettledEnd(c) \/ Kill(c)
           \/ Settle(c, status) \/ SettleInline(c, status)
  PROVE  Fresh'
<1> SUFFICES ASSUME NEW d \in Children PROVE FreshOf(d)'
  BY DEF Fresh
<1>0. FreshOf(d) /\ task \in [Children -> Tasks] /\ task[c] \in Tasks
  BY DEF Fresh, TypeOK
<1>1. CASE Mint(c)
  <2> DEFINE e == Event("start", c, "none")
  <2>1. Raise(e) /\ e.child = c /\ e.what = "start"
    BY <1>1 DEF Mint, Event
  <2>2. /\ task'[d].runner = task[d].runner
        /\ task'[d].sid = IF d = c THEN TRUE ELSE task[d].sid
        /\ task[c].runner = "live"
    BY <1>0, <1>1 DEF Mint, Tasks
  <2>3. task[d].sid => task[d].runner # "none"
    BY <1>0 DEF FreshOf
  <2> HIDE DEF e
  <2>4. CASE d = c
    BY <1>0, <2>1, <2>2, <2>4, FreshAfter
  <2>5. CASE d # c
    BY <1>0, <2>1, <2>2, <2>3, <2>5, FreshAfter
  <2> QED BY <2>4, <2>5
<1>2. CASE Speak(c)
  <2> DEFINE e == Event("word", c, "none")
  <2>1. Raise(e) /\ e.child = c /\ e.what = "word"
    BY <1>2 DEF Speak, Event
  <2>2. task' = task /\ task[c].sid
    BY <1>2 DEF Speak
  <2>3. task[d].sid => task[d].runner # "none"
    BY <1>0 DEF FreshOf
  <2> HIDE DEF e
  <2> QED BY <1>0, <2>1, <2>2, <2>3, FreshAfter
<1>3. CASE SettledEnd(c)
  <2>1. /\ RaiseEnd(c, task[c].status) /\ task[c].runner # "none" /\ task'[c].runner = "ended"
        /\ task'[d].sid = task[d].sid /\ (d # c => task'[d] = task[d])
    BY <1>0, <1>3 DEF SettledEnd, Tasks
  <2> QED BY <1>0, <2>1, RaiseEndFresh
<1>4. CASE SettleInline(c, status)
  <2>1. RaiseEnd(c, Recorded(c, status).status) /\ task[c].runner # "none"
    BY <1>4 DEF SettleInline, Settles, Live
  <2>2. /\ task'[c].runner = "ended"
        /\ task'[d].sid = task[d].sid /\ (d # c => task'[d] = task[d])
    BY <1>0, <1>4 DEF SettleInline, Recorded, Tasks
  <2> QED BY <1>0, <2>1, <2>2, RaiseEndFresh
<1>5. CASE Steer(c) \/ Listen(c) \/ WrapUp(c) \/ Kill(c)
  <2>1. /\ emitted' = emitted /\ task'[d].sid = task[d].sid
        /\ task'[d].runner = task[d].runner \/ (task[d].runner = "live" /\ task'[d].runner = "wrapping")
    BY <1>0, <1>5 DEF Steer, Listen, WrapUp, Kill, Tasks
  <2> QED BY <1>0, <2>1, FreshStays
<1>6. CASE Settle(c, status)
  <2>1. emitted' = emitted /\ Live(c)
    BY <1>6 DEF Settle, Settles, Live
  <2>2. /\ task'[d].sid = task[d].sid /\ (d # c => task'[d] = task[d])
        /\ task'[c].runner = "settled"
    BY <1>0, <1>6 DEF Settle, Recorded, Tasks
  <2>3. CASE d = c
    BY <1>0, <2>1, <2>2, <2>3, FreshStays DEF Live
  <2>4. CASE d # c
    BY <1>0, <2>1, <2>2, <2>4, FreshStays
  <2> QED BY <2>3, <2>4
<1> QED BY <1>1, <1>2, <1>3, <1>4, <1>5, <1>6

LEMMA CallFresh ==
  ASSUME TypeOK, Fate, Fresh, NEW S \in SUBSET Children, NEW modes \in [S -> {"bg", "fg"}], Call(S, modes)
  PROVE  Fresh'
<1> SUFFICES ASSUME NEW c \in Children PROVE FreshOf(c)'
  BY DEF Fresh
<1>0. /\ FreshOf(c) /\ FateOf(c) /\ task[c] \in Tasks /\ emitted' = emitted
      /\ task'[c] = IF c \in S THEN NewTask("running", modes[c], "live") ELSE task[c]
  BY DEF Fresh, Fate, TypeOK, Call
<1>1. CASE c \in S
  <2>1. task[c].status = "none"
    BY <1>1 DEF Call
  <2>2. task[c].runner = "none"
    BY <1>0, <2>1 DEF FateOf, Live, Ends, Tasks
  <2>3. ~task[c].sid
    BY <1>0, <2>2 DEF FreshOf
  <2>4. task'[c].runner = "live" /\ task'[c].sid = FALSE
    BY <1>0, <1>1 DEF NewTask
  <2> QED BY <1>0, <2>3, <2>4 DEF FreshOf
<1>2. CASE c \notin S
  BY <1>0, <1>2, FreshStays
<1> QED BY <1>1, <1>2

LEMMA FreshStep == TypeOK /\ Fate /\ Fresh /\ [Next]_vars => Fresh'
<1> SUFFICES ASSUME TypeOK, Fate, Fresh, [Next]_vars PROVE Fresh'
  OBVIOUS
<1>1. ASSUME UNCHANGED <<task, emitted>> PROVE Fresh'
  BY <1>1 DEF Fresh, FreshOf
<1>2. CASE Notify
  <2> SUFFICES ASSUME NEW c \in Children PROVE FreshOf(c)'
    BY DEF Fresh
  <2>1. /\ FreshOf(c) /\ task[c] \in Tasks /\ emitted' = emitted
        /\ task'[c] = IF c \in Unreported THEN [task[c] EXCEPT !.reported = TRUE] ELSE task[c]
    BY <1>2 DEF Notify, Fresh, TypeOK
  <2>2. task'[c].sid = task[c].sid /\ task'[c].runner = task[c].runner
    BY <2>1 DEF Tasks
  <2> QED BY <2>1, <2>2, FreshStays
<1>3. CASE \/ RunStart \/ Reject \/ Leave \/ Open \/ FlushOne \/ EndStep \/ DrainInbox \/ Finish \/ KeptOn
            \/ DrainSide \/ FlushTaken \/ Result \/ Interrupt \/ Close
  BY <1>1, <1>3 DEF RunStart, Reject, Leave, Open, FlushOne, EndStep, DrainInbox, Finish, KeptOn,
                    DrainSide, FlushTaken, Result, Interrupt, Close
<1>4. CASE ReadHead \/ BusAppend \/ Tell \/ BusRefused \/ HostChanges \/ UNCHANGED vars
  BY <1>1, <1>4 DEF ReadHead, BusAppend, Tell, BusRefused, HostChanges, vars
<1> QED BY <1>2, <1>3, <1>4, ChildFresh, CallFresh DEF Next

\* An event that goes out is shown once more, and if it is kept written once more.
LEMMA FlushCounts ==
  ASSUME TypeOK, NEW e \in Events, Flush(e), NEW f
  PROVE  /\ shown' = Append(shown, [event |-> e, way |-> "run"]) /\ bus'.step = bus.step
         /\ Shows(shown', f) = Shows(shown, f) + One(e, f)
         /\ IsPersisted(f) => Count(log', f) = Count(log, f) + One(e, f)
<1> DEFINE r == [event |-> e, way |-> "run"]
<1>1. /\ log \in Seq(Events) /\ shown \in Seq([event : Events, way : {"run", "bus"}])
      /\ bus \in [step : {"rest", "head", "kept"}, atHead : BOOLEAN]
  BY DEF TypeOK
<1>2. shown' = Append(shown, r) /\ r.event = e /\ r \in [event : Events, way : {"run", "bus"}]
  BY DEF Flush
<1>3. Shows(shown', f) = Shows(shown, f) + One(e, f)
  <2> DEFINE W == [event : Events, way : {"run", "bus"}]
  <2>0. shown \in Seq(W) /\ r \in W
    BY <1>1, <1>2
  <2> HIDE DEF r, W
  <2>1. Shows(Append(shown, r), f) = Shows(shown, f) + One(r.event, f)
    BY <2>0, ShowsAppend
  <2> QED BY <1>2, <2>1
<1>4. ASSUME IsPersisted(f) PROVE Count(log', f) = Count(log, f) + One(e, f)
  <2>1. CASE IsPersisted(e)
    <3>1. log' = Append(log, e)
      BY <2>1 DEF Flush
    <3> QED BY <1>1, <3>1, CountAppend
  <2>2. CASE ~IsPersisted(e)
    <3>1. log' = log /\ e # f
      BY <1>4, <2>2 DEF Flush
    <3>2. Count(log, f) \in Nat /\ One(e, f) = 0
      BY <1>1, <3>1, CountTyped, OneTyped
    <3> QED BY <3>1, <3>2
  <2> QED BY <2>1, <2>2
<1>5. bus'.step = bus.step
  <2>1. CASE IsPersisted(e)
    BY <1>1, <2>1 DEF Flush, Write
  <2>2. CASE ~IsPersisted(e)
    BY <2>2 DEF Flush
  <2> QED BY <2>1, <2>2
<1> QED BY <1>2, <1>3, <1>4, <1>5

\* The rest of the run's queue is the run's too.
LEMMA RunsTail ==
  ASSUME TypeOK, OfTheRun, side # <<>>, emitted' = emitted, runs' = runs, side' = Tail(side)
  PROVE  OfTheRun'
<1>1. \A i \in DOMAIN Tail(side) : i + 1 \in DOMAIN side /\ Tail(side)[i] = side[i + 1]
  BY TailPlaces DEF TypeOK
<1> QED BY <1>1 DEF OfTheRun

LEMMA FlushOneKept ==
  ASSUME TypeOK, TypeOK', OfTheRun, RaisedOnce, Stages, Kept, Turns, FlushOne
  PROVE  OfTheRun' /\ RaisedOnce' /\ Stages' /\ Kept' /\ Turns'
<1> DEFINE e == Head(side)
<1>1. /\ side \in Seq(Events) /\ shown \in Seq([event : Events, way : {"run", "bus"}])
      /\ side # <<>> /\ e \in Events /\ side' = Tail(side) /\ Flush(e) /\ taken = <<>>
  BY TailTyped DEF FlushOne, TypeOK, Stages
<1>2. UNCHANGED <<taken, idle, emitted, cut, rejected, run>>
  BY DEF FlushOne
<1>3. ASSUME NEW f \in Events PROVE KeptOf(f)' /\ Logged(f)'
  <2>1. /\ Shows(shown', f) = Shows(shown, f) + One(e, f) /\ bus'.step = bus.step
        /\ IsPersisted(f) => Count(log', f) = Count(log, f) + One(e, f)
    BY <1>1, FlushCounts
  <2>2. Count(side, f) = One(e, f) + Count(side', f) /\ One(e, f) \in Nat
    BY <1>1, CountTail, OneTyped
  <2> HIDE DEF e
  <2>3. Places(f)' = Places(f)
    BY <1>2, <2>1, <2>2, CountsTyped, CountsTypedNext
  <2>4. KeptOf(f)'
    BY <1>2, <2>3, AccountKept DEF Kept
  <2>5. InHand(f)' = InHand(f)
    BY <1>2, <2>1 DEF InHand
  <2>6. Logged(f)'
    <3>1. Logged(f)
      BY DEF Kept
    <3> QED BY <2>1, <2>2, <2>5, <3>1, CountsTyped, CountsTypedNext DEF Logged
  <2> QED BY <2>4, <2>6
<1>4. Turns'
  <2>1. InTurn(emitted, Tail(side), taken, idle, Append(shown, [event |-> Head(side), way |-> "run"]))
    BY <1>1, TurnsFlushSide DEF Turns
  <2>2. shown' = Append(shown, [event |-> Head(side), way |-> "run"])
    BY <1>1, FlushCounts
  <2> QED BY <1>1, <1>2, <2>1, <2>2 DEF Turns
<1>5. OfTheRun'
  BY <1>1, <1>2, RunsTail
<1>6. Stages'
  BY <1>1, <1>2 DEF Stages, FlushOne
<1> QED BY <1>2, <1>3, <1>4, <1>5, <1>6 DEF Kept, RaisedOnce

LEMMA FlushTakenKept ==
  ASSUME TypeOK, TypeOK', OfTheRun, RaisedOnce, Stages, Kept, Turns, FlushTaken
  PROVE  OfTheRun' /\ RaisedOnce' /\ Stages' /\ Kept' /\ Turns'
<1> DEFINE e == Head(taken)
<1>1. /\ taken \in Seq(Events) /\ shown \in Seq([event : Events, way : {"run", "bus"}])
      /\ taken # <<>> /\ e \in Events /\ taken' = Tail(taken) /\ Flush(e)
  BY TailTyped DEF FlushTaken, TypeOK
<1>2. UNCHANGED <<side, idle, emitted, cut, rejected, run>>
  BY DEF FlushTaken
<1>3. ASSUME NEW f \in Events PROVE KeptOf(f)' /\ Logged(f)'
  <2>1. /\ Shows(shown', f) = Shows(shown, f) + One(e, f) /\ bus'.step = bus.step
        /\ IsPersisted(f) => Count(log', f) = Count(log, f) + One(e, f)
    BY <1>1, FlushCounts
  <2>2. Count(taken, f) = One(e, f) + Count(taken', f) /\ One(e, f) \in Nat
    BY <1>1, CountTail, OneTyped
  <2> HIDE DEF e
  <2>3. Places(f)' = Places(f)
    BY <1>2, <2>1, <2>2, CountsTyped, CountsTypedNext
  <2>4. KeptOf(f)'
    BY <1>2, <2>3, AccountKept DEF Kept
  <2>5. InHand(f)' = InHand(f)
    BY <1>2, <2>1 DEF InHand
  <2>6. Logged(f)'
    <3>1. Logged(f)
      BY DEF Kept
    <3> QED BY <2>1, <2>2, <2>5, <3>1, CountsTyped, CountsTypedNext DEF Logged
  <2> QED BY <2>4, <2>6
<1>4. Turns'
  <2>1. InTurn(emitted, side, Tail(taken), idle, Append(shown, [event |-> Head(taken), way |-> "run"]))
    BY <1>1, TurnsFlushTaken DEF Turns
  <2>2. shown' = Append(shown, [event |-> Head(taken), way |-> "run"])
    BY <1>1, FlushCounts
  <2> QED BY <1>1, <1>2, <2>1, <2>2 DEF Turns
<1>5. Stages'
  BY <1>1, <1>2 DEF Stages, FlushTaken
<1> QED BY <1>2, <1>3, <1>4, <1>5 DEF Kept, RaisedOnce, OfTheRun

\* What is dropped with a run that never began, or with a refused write, is gone.
LEMMA DropKept ==
  ASSUME TypeOK, TypeOK', Kept, emitted' = emitted, cut \subseteq cut', rejected \subseteq rejected',
         UNCHANGED <<idle, log, shown>>, bus'.step = bus.step,
         NEW f \in Events,
         Count(side', f) + Count(taken', f) <= Count(side, f) + Count(taken, f),
         Count(side', f) + Count(taken', f) = Count(side, f) + Count(taken, f) \/ (Gone(f))'
  PROVE  KeptOf(f)' /\ Logged(f)'
<1>1. Places(f)' <= Places(f) /\ (Places(f)' = Places(f) \/ (Gone(f))')
  BY CountsTyped, CountsTypedNext
<1>2. KeptOf(f)'
  BY <1>1, AccountKept DEF Kept
<1>3. InHand(f)' = InHand(f) /\ Showings(f)' = Showings(f)
  BY DEF InHand, Showings
<1>4. Logged(f)
  BY DEF Kept
<1> QED BY <1>2, <1>3, <1>4 DEF Logged

\* An event that is somewhere in a queue is among its elements.
LEMMA CountSome ==
  ASSUME NEW s, NEW e, Count(s, e) # 0
  PROVE  \E i \in DOMAIN s : s[i] = e
<1> SUFFICES ASSUME ~\E i \in DOMAIN s : s[i] = e PROVE FALSE
  OBVIOUS
<1>1. {i \in DOMAIN s : s[i] = e} = {}
  OBVIOUS
<1> QED BY <1>1, FS_EmptySet DEF Count

\* The queue of a run that never began goes with it.
LEMMA QueueDropped ==
  ASSUME TypeOK, TypeOK', OfTheRun, RaisedOnce, Kept, Turns, emitted' = emitted,
         cut \subseteq cut', rejected \subseteq rejected', runs \in rejected' \/ side = <<>>,
         UNCHANGED <<taken, idle, log, shown, bus>>, side' = <<>>
  PROVE  OfTheRun' /\ RaisedOnce' /\ Kept' /\ Turns'
<1>1. ASSUME NEW f \in Events PROVE KeptOf(f)' /\ Logged(f)'
  <2>1. Count(side', f) = 0
    BY CountEmpty
  <2>2. CASE Count(side, f) = 0
    BY <2>1, <2>2, DropKept, CountsTyped
  <2>3. CASE Count(side, f) # 0
    <3>1. PICK j \in DOMAIN side : side[j] = f
      BY <2>3, CountSome
    <3>2. f \in Raisings(emitted)
      BY <3>1, AllRaised
    <3>3. PICK i \in DOMAIN emitted : emitted[i].event = f
      BY <3>2 DEF Raisings
    <3>4. emitted[i].run = runs /\ runs \in rejected'
      BY <3>1, <3>3 DEF OfTheRun
    <3>5. (Gone(f))'
      BY <3>3, <3>4 DEF Gone
    <3> QED BY <2>1, <3>5, DropKept, CountsTyped
  <2> QED BY <2>2, <2>3
<1>2. Turns'
  BY TurnsMove DEF Turns, TypeOK
<1>3. OfTheRun'
  BY DEF OfTheRun
<1> QED BY <1>1, <1>2, <1>3 DEF Kept, RaisedOnce

\* A write that is refused, or a consumer that leaves, loses what was in hand.
LEMMA InterruptKept ==
  ASSUME TypeOK, TypeOK', OfTheRun, RaisedOnce, Stages, Kept, Turns, Interrupt
  PROVE  OfTheRun' /\ RaisedOnce' /\ Stages' /\ Kept' /\ Turns'
<1>1. /\ taken' = <<>> /\ phase' = "closing"
      /\ UNCHANGED <<runs, idle, tip, bus, log, shown, emitted, rejected>>
  BY DEF Interrupt
<1>2. Stages'
  BY <1>1 DEF Stages
<1>3. CASE cut' = cut \cup {taken[i] : i \in DOMAIN taken} /\ side' = side
  <2>1. ASSUME NEW f \in Events PROVE KeptOf(f)' /\ Logged(f)'
    <3>1. Count(taken', f) = 0
      BY <1>1, CountEmpty
    <3>2. CASE Count(taken, f) = 0
      BY <1>1, <1>3, <3>1, <3>2, DropKept, CountsTyped
    <3>3. CASE Count(taken, f) # 0
      <4>1. f \in cut'
        BY <1>3, <3>3, CountSome
      <4>2. (Gone(f))'
        BY <4>1 DEF Gone
      <4> QED BY <1>1, <1>3, <3>1, <4>2, DropKept, CountsTyped
    <3> QED BY <3>2, <3>3
  <2>2. Turns'
    BY <1>1, <1>3, TurnsMove DEF Turns, TypeOK
  <2> QED BY <1>1, <1>2, <1>3, <2>1, <2>2 DEF Kept, OfTheRun, RaisedOnce
<1>4. CASE phase = "tools" /\ side # <<>> /\ cut' = cut \cup {Head(side)} /\ side' = Tail(side)
  <2>1. taken = <<>>
    BY <1>4 DEF Stages
  <2>2. ASSUME NEW f \in Events PROVE KeptOf(f)' /\ Logged(f)'
    <3>1. Count(side, f) = One(Head(side), f) + Count(side', f)
      BY <1>4, CountTail DEF TypeOK
    <3>2. /\ Count(side, f) \in Nat /\ Count(side', f) \in Nat /\ One(Head(side), f) \in Nat
          /\ Count(taken, f) = 0 /\ Count(taken', f) = 0
      BY <1>1, <2>1, CountsTyped, CountsTypedNext, CountEmpty, OneTyped
    <3>3. Count(side', f) + Count(taken', f) <= Count(side, f) + Count(taken, f)
      BY <3>1, <3>2
    <3>4. Count(side', f) + Count(taken', f) = Count(side, f) + Count(taken, f) \/ (Gone(f))'
      <4>1. CASE Head(side) = f
        BY <1>4, <4>1 DEF Gone
      <4>2. CASE Head(side) # f
        <5>1. One(Head(side), f) = 0
          BY <4>2, OneTyped
        <5> QED BY <3>1, <3>2, <5>1
      <4> QED BY <4>1, <4>2
    <3>5. cut \subseteq cut' /\ rejected \subseteq rejected' /\ bus'.step = bus.step
      BY <1>1, <1>4
    <3> QED BY <1>1, <3>3, <3>4, <3>5, DropKept
  <2>3. Turns'
    <3>1. InTurn(emitted, Tail(side), taken, idle, shown)
      BY <1>4, <2>1, TurnsFlushSide DEF Turns, TypeOK
    <3> QED BY <1>1, <1>4, <2>1, <3>1 DEF Turns
  <2>4. OfTheRun'
    BY <1>1, <1>4, RunsTail
  <2> QED BY <1>1, <1>2, <2>2, <2>3, <2>4 DEF Kept, RaisedOnce
<1> QED BY <1>3, <1>4 DEF Interrupt

LEMMA DrainSideKept ==
  ASSUME TypeOK, TypeOK', OfTheRun, RaisedOnce, Stages, Kept, Turns, DrainSide
  PROVE  OfTheRun' /\ RaisedOnce' /\ Stages' /\ Kept' /\ Turns'
<1>1. /\ taken = <<>> /\ taken' = side /\ side' = <<>> /\ phase' = "flushing"
      /\ UNCHANGED <<runs, idle, tip, bus, log, shown, emitted, cut, rejected>>
  BY DEF DrainSide, Stages
<1>2. ASSUME NEW f \in Events PROVE KeptOf(f)' /\ Logged(f)'
  <2>1. Count(side', f) = 0 /\ Count(taken, f) = 0 /\ Count(taken', f) = Count(side, f)
    BY <1>1, CountEmpty
  <2> QED BY <1>1, <2>1, DropKept, CountsTyped
<1>3. Turns'
  BY <1>1, TurnsMove DEF Turns, TypeOK
<1> QED BY <1>1, <1>2, <1>3 DEF Kept, OfTheRun, RaisedOnce, Stages

\* What came after the last flush goes back behind what waits for the bus.
LEMMA CloseKept ==
  ASSUME TypeOK, TypeOK', InLine, OfTheRun, RaisedOnce, Stages, Kept, Turns, Close
  PROVE  OfTheRun' /\ RaisedOnce' /\ Stages' /\ Kept' /\ Turns'
<1>1. /\ side' = <<>> /\ idle' = idle \o side /\ phase' = "idle" /\ taken = <<>>
      /\ UNCHANGED <<runs, taken, tip, bus, log, shown, emitted, cut, rejected>>
      /\ side \in Seq(Events) /\ idle \in Seq(Events)
  BY DEF Close, Returns, Stages, TypeOK
<1>2. ASSUME NEW f \in Events PROVE KeptOf(f)' /\ Logged(f)'
  <2>1. Count(side', f) = 0 /\ Count(idle', f) = Count(idle, f) + Count(side, f)
    BY <1>1, CountEmpty, CountConcat
  <2>2. Places(f)' = Places(f)
    BY <1>1, <2>1, CountsTyped, CountsTypedNext
  <2>3. KeptOf(f)'
    BY <1>1, <2>2, AccountKept DEF Kept
  <2>4. InHand(f)' = InHand(f)
    <3>1. bus.step = "kept" => idle # <<>>
      BY DEF InLine
    <3>2. idle # <<>> => idle' # <<>> /\ Head(idle') = Head(idle)
      BY <1>1, HeadStays
    <3> QED BY <1>1, <3>1, <3>2 DEF InHand
  <2>5. Showings(f)' = Showings(f) /\ Logged(f)
    BY <1>1 DEF Showings, Kept
  <2> QED BY <1>1, <2>3, <2>4, <2>5 DEF Logged
<1>3. Turns'
  BY <1>1, TurnsMove DEF Turns
<1> QED BY <1>1, <1>2, <1>3 DEF Kept, OfTheRun, RaisedOnce, Stages

LEMMA WriteStep == TypeOK /\ Write => bus'.step = bus.step
BY DEF TypeOK, Write

LEMMA RunKept ==
  ASSUME TypeOK, TypeOK', InLine, OfTheRun, RaisedOnce, Stages, Kept, Turns,
         RunStart \/ Reject \/ Leave \/ Open \/ FlushOne \/ EndStep \/ Notify \/ DrainInbox \/ Finish
           \/ KeptOn \/ DrainSide \/ FlushTaken \/ Result \/ Interrupt \/ Close
  PROVE  OfTheRun' /\ RaisedOnce' /\ Stages' /\ Kept' /\ Turns'
<1>1. CASE RunStart
  <2>1. /\ UNCHANGED <<taken, idle, log, shown, bus, emitted, cut, rejected>> /\ side' = <<>>
        /\ runs \in rejected \/ side = <<>>
    BY <1>1 DEF RunStart, Stages
  <2>2. Stages'
    BY <1>1 DEF RunStart, Stages
  <2> QED BY <2>1, <2>2, QueueDropped
<1>2. CASE Reject
  <2>1. /\ UNCHANGED <<taken, idle, log, shown, bus, emitted, cut>> /\ side' = <<>>
        /\ runs \in rejected' /\ rejected \subseteq rejected'
    BY <1>2 DEF Reject
  <2>2. Stages'
    BY <1>2 DEF Reject, Stages
  <2> QED BY <2>1, <2>2, QueueDropped
<1>3. CASE Leave
  <2>1. /\ UNCHANGED <<side, taken, idle, log, shown, emitted, cut, runs>> /\ rejected \subseteq rejected'
        /\ Write \/ bus' = bus
    BY <1>3 DEF Leave
  <2>2. bus'.step = bus.step
    BY <2>1, WriteStep
  <2>3. Stages'
    BY <1>3 DEF Leave, Stages
  <2> QED BY <2>1, <2>2, <2>3, QuietKept
<1>4. CASE Open \/ EndStep \/ Notify \/ DrainInbox \/ KeptOn \/ Result
  <2>1. UNCHANGED <<side, taken, idle, log, shown, emitted, cut, rejected, runs>> /\ Write
    BY <1>4 DEF Open, EndStep, Notify, DrainInbox, KeptOn, Result
  <2>2. bus'.step = bus.step
    BY <2>1, WriteStep
  <2>3. Stages'
    BY <1>4 DEF Open, EndStep, Notify, DrainInbox, KeptOn, Result, Stages
  <2> QED BY <2>1, <2>2, <2>3, QuietKept
<1>5. CASE Finish
  <2>1. UNCHANGED <<side, taken, idle, log, shown, emitted, cut, rejected, runs, bus>>
    BY <1>5 DEF Finish
  <2>2. Stages'
    BY <1>5 DEF Finish, Stages
  <2> QED BY <2>1, <2>2, QuietKept
<1> QED BY <1>1, <1>2, <1>3, <1>4, <1>5, FlushOneKept, FlushTakenKept, InterruptKept, DrainSideKept, CloseKept

\* The bus writes the event it is at ...
LEMMA BusAppendKept ==
  ASSUME TypeOK, TypeOK', InLine, Kept, BusAppend
  PROVE  Kept'
<1>1. /\ idle \in Seq(Events) /\ idle # <<>> /\ Head(idle) \in Events /\ log \in Seq(Events)
      /\ log' = Append(log, Head(idle)) /\ bus.step = "head" /\ bus'.step = "kept"
      /\ UNCHANGED <<side, taken, idle, shown, emitted, cut, rejected>>
  BY TailTyped DEF BusAppend, InLine, TypeOK
<1>2. ASSUME NEW f \in Events PROVE KeptOf(f)' /\ Logged(f)'
  <2>1. Places(f)' = Places(f) /\ Showings(f)' = Showings(f)
    BY <1>1 DEF Places, Showings
  <2>2. KeptOf(f)'
    BY <1>1, <2>1, AccountKept DEF Kept
  <2>3. Count(log', f) = Count(log, f) + One(Head(idle), f)
    BY <1>1, CountAppend
  <2>4. InHand(f) = 0 /\ InHand(f)' = One(Head(idle), f)
    BY <1>1 DEF InHand, One
  <2>5. Logged(f) /\ Showings(f) \in Nat
    BY CountsTyped DEF Kept
  <2>6. Logged(f)'
    <3> SUFFICES ASSUME IsPersisted(f) PROVE Count(log', f) = Showings(f)' + InHand(f)'
      BY DEF Logged
    <3>1. Count(log, f) = Showings(f) + 0
      BY <2>4, <2>5 DEF Logged
    <3>2. Count(log, f) = Showings(f)
      BY <2>5, <3>1
    <3> QED BY <2>1, <2>3, <2>4, <3>2
  <2> QED BY <2>2, <2>6
<1> QED BY <1>2 DEF Kept

\* ... and tells of it.
LEMMA TellKept ==
  ASSUME TypeOK, TypeOK', Kept, Turns, Tell
  PROVE  Kept' /\ Turns'
<1> DEFINE e == Head(idle)
           r == [event |-> e, way |-> "bus"]
           W == [event : Events, way : {"run", "bus"}]
<1>1. /\ idle \in Seq(Events) /\ idle # <<>> /\ e \in Events /\ shown \in Seq(W)
      /\ bus.step = "kept" \/ (bus.step = "rest" /\ ~IsPersisted(e))
      /\ shown' = Append(shown, r) /\ idle' = Tail(idle) /\ bus'.step = "rest"
      /\ UNCHANGED <<side, taken, log, emitted, cut, rejected>>
  BY TailTyped DEF Tell, TypeOK, Resting
<1>2. r \in W /\ r.event = e
  BY <1>1
<1>3. Turns'
  <2>1. InTurn(emitted, side, taken, Tail(idle), Append(shown, [event |-> Head(idle), way |-> "bus"]))
    BY <1>1, TurnsTell DEF Turns
  <2> QED BY <1>1, <2>1 DEF Turns
<1> HIDE DEF e, r, W
<1>4. ASSUME NEW f \in Events PROVE KeptOf(f)' /\ Logged(f)'
  <2>1. Shows(shown', f) = Shows(shown, f) + One(e, f)
    <3>1. Shows(Append(shown, r), f) = Shows(shown, f) + One(r.event, f)
      BY <1>1, <1>2, ShowsAppend
    <3> QED BY <1>1, <1>2, <3>1
  <2>2. Count(idle, f) = One(e, f) + Count(idle', f) /\ One(e, f) \in Nat
    BY <1>1, CountTail, OneTyped DEF e
  <2>3. Places(f)' = Places(f)
    BY <1>1, <2>1, <2>2, CountsTyped, CountsTypedNext
  <2>4. KeptOf(f)'
    BY <1>1, <2>3, AccountKept DEF Kept
  <2>5. InHand(f)' = 0
    BY <1>1 DEF InHand
  <2>6. ASSUME IsPersisted(f) PROVE InHand(f) = One(e, f)
    <3>1. CASE bus.step = "kept"
      BY <1>1, <3>1 DEF InHand, One, e
    <3>2. CASE bus.step = "rest" /\ ~IsPersisted(e)
      <4>1. e # f
        BY <2>6, <3>2
      <4> QED BY <3>2, <4>1 DEF InHand, One
    <3> QED BY <1>1, <3>1, <3>2
  <2>7. Logged(f)'
    <3> SUFFICES ASSUME IsPersisted(f) PROVE Count(log', f) = Showings(f)' + InHand(f)'
      BY DEF Logged
    <3>1. Count(log, f) = Showings(f) + One(e, f)
      BY <2>6 DEF Kept, Logged
    <3>2. Showings(f) = Shows(shown, f) /\ Showings(f)' = Shows(shown', f) /\ Shows(shown, f) \in Nat
      BY CountsTyped, CountsTypedNext
    <3>3. Showings(f)' = Showings(f) + One(e, f) /\ Showings(f)' \in Nat
      BY <2>1, <2>2, <3>2
    <3> QED BY <1>1, <2>5, <3>1, <3>3
  <2> QED BY <2>4, <2>7
<1> QED BY <1>3, <1>4 DEF Kept

\* Or it is refused the append, and the event is lost.
LEMMA BusRefusedKept ==
  ASSUME TypeOK, TypeOK', InLine, Kept, Turns, BusRefused
  PROVE  Kept' /\ Turns'
<1>1. /\ idle \in Seq(Events) /\ idle # <<>> /\ idle' = Tail(idle) /\ bus.step = "head" /\ bus'.step = "rest"
      /\ cut' = cut \cup {Head(idle)}
      /\ UNCHANGED <<side, taken, log, shown, emitted, rejected>>
  BY DEF BusRefused, InLine, TypeOK, Resting
<1>2. Turns'
  <2>1. InTurn(emitted, side, taken, Tail(idle), shown)
    <3>1. shown \in Seq([event : Events, way : {"run", "bus"}])
      BY DEF TypeOK
    <3> QED BY <1>1, <3>1, TurnsTell DEF Turns
  <2> QED BY <1>1, <2>1 DEF Turns
<1>3. ASSUME NEW f \in Events PROVE KeptOf(f)' /\ Logged(f)'
  <2>1. Count(idle, f) = One(Head(idle), f) + Count(idle', f) /\ One(Head(idle), f) \in Nat
    BY <1>1, CountTail, OneTyped
  <2>2. Places(f)' <= Places(f) /\ (One(Head(idle), f) = 0 => Places(f)' = Places(f))
    <3>1. /\ Places(f) = Count(side, f) + Count(taken, f) + Count(idle, f) + Shows(shown, f)
          /\ Places(f)' = Count(side, f) + Count(taken, f) + Count(idle', f) + Shows(shown, f)
      BY <1>1, CountsTyped, CountsTypedNext
    <3>2. /\ Count(side, f) \in Nat /\ Count(taken, f) \in Nat /\ Count(idle', f) \in Nat
          /\ Shows(shown, f) \in Nat
      BY CountsTyped, CountsTypedNext
    <3> QED BY <2>1, <3>1, <3>2
  <2>3. One(Head(idle), f) # 0 => (Gone(f))'
    BY <1>1, OneTyped DEF Gone
  <2>4. KeptOf(f)'
    BY <1>1, <2>2, <2>3, AccountKept DEF Kept
  <2>5. InHand(f)' = 0 /\ InHand(f) = 0 /\ Showings(f)' = Showings(f)
    BY <1>1 DEF InHand, Showings
  <2>6. Logged(f)'
    BY <1>1, <2>5 DEF Kept, Logged
  <2> QED BY <2>4, <2>6
<1> QED BY <1>2, <1>3 DEF Kept

LEMMA BusKept ==
  ASSUME TypeOK, TypeOK', InLine, OfTheRun, RaisedOnce, Stages, Kept, Turns,
         ReadHead \/ BusAppend \/ Tell \/ BusRefused \/ HostChanges \/ UNCHANGED vars
  PROVE  OfTheRun' /\ RaisedOnce' /\ Stages' /\ Kept' /\ Turns'
<1>1. /\ UNCHANGED <<side, taken, emitted, rejected>> /\ UNCHANGED <<phase, runs, calls>>
  BY DEF ReadHead, BusAppend, Tell, BusRefused, HostChanges, vars
<1>2. OfTheRun' /\ RaisedOnce' /\ Stages'
  BY <1>1 DEF OfTheRun, RaisedOnce, Stages
<1>3. CASE ReadHead \/ HostChanges \/ UNCHANGED vars
  <2>1. UNCHANGED <<idle, log, shown, cut>> /\ (bus'.step = "kept" <=> bus.step = "kept")
    BY <1>3 DEF ReadHead, HostChanges, vars
  <2> QED BY <1>1, <1>2, <2>1, QuietKept
<1>4. CASE BusAppend
  <2>1. Turns'
    BY <1>4 DEF BusAppend, Turns
  <2> QED BY <1>2, <1>4, <2>1, BusAppendKept
<1> QED BY <1>2, <1>3, <1>4, TellKept, BusRefusedKept

LEMMA CallKept ==
  ASSUME TypeOK, TypeOK', OfTheRun, RaisedOnce, Stages, Kept, Turns, NEW S, NEW modes, Call(S, modes)
  PROVE  OfTheRun' /\ RaisedOnce' /\ Stages' /\ Kept' /\ Turns'
<1>1. UNCHANGED <<side, taken, idle, log, shown, emitted, cut, rejected, runs, bus>>
  BY DEF Call
<1>2. Stages'
  BY DEF Call, Stages
<1> QED BY <1>1, <1>2, QuietKept

-----------------------------------------------------------------------------
(* Once, and in its turn.                                                  *)

LEMMA OInvStep == IInv /\ OInv /\ [Next]_vars => OInv'
<1> SUFFICES ASSUME IInv, OInv, [Next]_vars PROVE OInv'
  OBVIOUS
<1>1. TypeOK /\ InLine /\ Fate /\ TypeOK'
  BY NextTyped DEF IInv
<1>2. Fresh /\ OfTheRun /\ RaisedOnce /\ Stages /\ Kept /\ Turns
  BY DEF OInv
<1>3. Fresh'
  BY <1>1, <1>2, FreshStep
<1>4. ASSUME NEW S \in SUBSET Children, NEW modes \in [S -> {"bg", "fg"}], Call(S, modes)
      PROVE  OfTheRun' /\ RaisedOnce' /\ Stages' /\ Kept' /\ Turns'
  BY <1>1, <1>2, <1>4, CallKept
<1>5. OfTheRun' /\ RaisedOnce' /\ Stages' /\ Kept' /\ Turns'
  BY <1>1, <1>2, <1>4, ChildKept, RunKept, BusKept DEF Next
<1> QED BY <1>3, <1>5 DEF OInv

LEMMA InitOInv == Init => OInv
<1> SUFFICES ASSUME Init PROVE OInv
  OBVIOUS
<1>1. /\ side = <<>> /\ taken = <<>> /\ idle = <<>> /\ log = <<>> /\ shown = <<>> /\ emitted = <<>>
      /\ phase = "idle" /\ bus.step = "rest"
  BY DEF Init, Resting
<1>2. Fresh
  BY DEF Init, Fresh, FreshOf, NewTask
<1>3. ASSUME NEW e PROVE KeptOf(e) /\ Logged(e)
  <2>1. Count(<<>>, e) = 0
    BY CountEmpty
  <2>2. Showings(e) = 0
    <3>1. {i \in DOMAIN shown : shown[i].event = e} = {}
      BY <1>1
    <3> QED BY <3>1, FS_EmptySet DEF Showings
  <2>3. Places(e) = 0
    BY <1>1, <2>1, <2>2 DEF Places
  <2>4. Raisings(emitted) = {}
    BY <1>1 DEF Raisings
  <2>5. InHand(e) = 0
    BY <1>1 DEF InHand
  <2> QED BY <1>1, <2>1, <2>2, <2>3, <2>4, <2>5 DEF KeptOf, Logged
<1>4. Turns
  <2>1. OutRising(emitted, shown)
    BY <1>1 DEF OutRising
  <2> QED BY <1>1, <2>1, EmptyInTurn DEF Turns, InTurn
<1> QED BY <1>1, <1>2, <1>3, <1>4 DEF OInv, Kept, RaisedOnce, OfTheRun, Stages

LEMMA OInvIsOrder == TypeOK /\ OInv => OnceInOrder
<1> SUFFICES ASSUME TypeOK, OInv PROVE OnceInOrder
  OBVIOUS
<1>1. RaisedOnce /\ Kept /\ Turns
  BY DEF OInv
<1>2. ASSUME NEW i \in DOMAIN emitted
      PROVE  LET e == emitted[i].event IN
             /\ \/ Places(e) = 1
                \/ Places(e) = 0 /\ (emitted[i].run \in rejected \/ e \in cut)
             /\ IsPersisted(e) => Count(log, e) = Showings(e) + InHand(e)
  <2> DEFINE e == emitted[i].event
  <2>1. e \in Events
    <3>1. emitted[i] \in [event : Events, run : Nat]
      BY <1>2, ElementTyped DEF TypeOK
    <3> QED BY <3>1
  <2>2. e \in Raisings(emitted)
    BY <1>2 DEF Raisings
  <2>3. Gone(e) => emitted[i].run \in rejected \/ e \in cut
    BY <1>1, <1>2 DEF Gone, RaisedOnce
  <2> HIDE DEF e
  <2>4. KeptOf(e) /\ Logged(e) /\ Places(e) \in Nat
    BY <1>1, <2>1, CountsTyped DEF Kept
  <2>5. Places(e) = 1 \/ Places(e) = 0
    BY <2>4 DEF KeptOf
  <2>6. Places(e) = 0 => emitted[i].run \in rejected \/ e \in cut
    BY <2>2, <2>3, <2>4 DEF KeptOf
  <2> QED BY <2>4, <2>5, <2>6 DEF Logged, e
<1>3. EventsKept
  BY <1>2 DEF EventsKept
<1>4. ASSUME NEW e \in Raisings(emitted) PROVE At(e) \in DOMAIN emitted /\ emitted[At(e)].event = e
  BY <1>4 DEF At, Raisings
<1>5. ASSUME NEW i \in DOMAIN shown, NEW j \in DOMAIN shown, i < j, shown[i].way = shown[j].way
      PROVE  At(shown[i].event) < At(shown[j].event)
  <2>1. shown[i].event \in Raisings(emitted) /\ shown[j].event \in Raisings(emitted)
    BY <1>1, <1>5, AllRaised
  <2>2. Before(emitted, shown[i].event, shown[j].event)
    BY <1>1, <1>5 DEF Turns, InTurn, OutRising
  <2> QED BY <1>4, <2>1, <2>2 DEF Before
<1> QED BY <1>3, <1>5 DEF OnceInOrder, InOrder

\* What a child raises goes out once, and each way in the order it was raised,
\* whichever of the runs, their ends and the bus it meets; and it is lost only with
\* a run that never began, or in hand when a write was refused.
THEOREM OutOnceAndInTurn == Spec => []OnceInOrder
<1>1. Init => IInv /\ OInv
  BY InitIInv, InitOInv
<1>2. IInv /\ OInv /\ [Next]_vars => (IInv /\ OInv)'
  BY IInvStep, OInvStep
<1>3. IInv /\ OInv => OnceInOrder
  BY OInvIsOrder DEF IInv
<1> QED BY <1>1, <1>2, <1>3, PTL DEF Spec
=============================================================================
