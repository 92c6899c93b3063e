--------------------------- MODULE SessionProofs ----------------------------
(***************************************************************************)
(* What is kept beside a conversation comes back, and nobody waits beside  *)
(* what it waits for: the plan of tasks, the checkpoints, the workflow's   *)
(* flows and the language servers of MCSession, for any bounds.            *)
(***************************************************************************)
EXTENDS MCSession, SequenceTheorems, FiniteSetTheorems, WellFoundedInduction, TLAPS

sessionVars == <<side, rounds, OfFiles, OfDesk, OfTasks, OfFlow, OfClient, OfServer>>

-----------------------------------------------------------------------------
(* A step is of one side, or of none.                                      *)

LEMMA SidesRest ==
  /\ FilesNext => UNCHANGED <<OfDesk, OfTasks, OfFlow, OfServer>>
  /\ RoundsNext => UNCHANGED <<OfDesk, OfTasks, OfFlow, OfServer>>
  /\ DeskNext => UNCHANGED <<OfTasks, OfFlow, OfServer>>
  /\ TasksNext => UNCHANGED <<OfDesk, OfFlow, OfServer>>
  /\ FlowNext => UNCHANGED <<OfDesk, OfTasks, OfServer>>
  /\ ClientNext => UNCHANGED <<OfDesk, OfTasks, OfFlow, OfServer>>
  /\ ServerNext => UNCHANGED <<OfDesk, OfTasks, OfFlow>>
<1>1. FilesNext => UNCHANGED <<OfDesk, OfTasks, OfFlow, OfServer>>
  BY DEF FilesNext, Files
<1>2. RoundsNext => UNCHANGED <<OfDesk, OfTasks, OfFlow, OfServer>>
  BY DEF RoundsNext, Run
<1>3. DeskNext => UNCHANGED <<OfTasks, OfFlow, OfServer>>
  BY DEF DeskNext, AtDesk
<1>4. TasksNext => UNCHANGED <<OfDesk, OfFlow, OfServer>>
  BY DEF TasksNext, OfPlan
<1>5. FlowNext => UNCHANGED <<OfDesk, OfTasks, OfServer>>
  BY DEF FlowNext, InFlow
<1>6. ClientNext => UNCHANGED <<OfDesk, OfTasks, OfFlow, OfServer>>
  BY DEF ClientNext, Asked
<1>7. ServerNext => UNCHANGED <<OfDesk, OfTasks, OfFlow>>
  BY DEF ServerNext, OfBench
<1> QED
  BY <1>1, <1>2, <1>3, <1>4, <1>5, <1>6, <1>7

LEMMA TasksStep == [SessionNext]_sessionVars => [Tasks!Next]_OfTasks
<1>1. TasksNext => Tasks!Next
  BY DEF TasksNext, OfPlan, Tasks!Next
<1> QED
  BY <1>1, SidesRest DEF SessionNext, sessionVars

LEMMA DeskStep == [SessionNext]_sessionVars => [Checks!Next]_OfDesk
<1>1. DeskNext => Checks!Next
  BY DEF DeskNext, AtDesk, Checks!Next, Checks!Editors, Checks!Paths, Checks!Turns
<1> QED
  BY <1>1, SidesRest DEF SessionNext, sessionVars

LEMMA FlowStep == [SessionNext]_sessionVars => [Work!Next]_OfFlow
<1>1. FlowNext => Work!Next
  BY DEF FlowNext, InFlow, Work!Next, Work!Items
<1> QED
  BY <1>1, SidesRest DEF SessionNext, sessionVars

LEMMA ServerStep == [SessionNext]_sessionVars => [Server!Next]_OfServer
<1>1. ServerNext => Server!Next
  BY DEF ServerNext, OfBench, Server!Next
<1> QED
  BY <1>1, SidesRest DEF SessionNext, sessionVars

-----------------------------------------------------------------------------
(* The plan of tasks.                                                      *)

Task == [subject : Nat, status : {"pending", "in_progress", "completed"}]

TasksTyped ==
  /\ items \in Seq(Task) /\ seq \in Nat
  /\ saved \in [seq : Nat, items : Seq(Task)]
  /\ created \in Nat /\ timer \in BOOLEAN /\ lost \in BOOLEAN

\* The tasks that were saved are tasks of this plan.
PlanHolds(list) == \A t \in safe : t[1] \in 1..Len(list) /\ list[t[1]].subject = t[2]

\* Numbers are given in order, in memory and in the saved; what was saved is in both.
PlanIsKept ==
  /\ TasksTyped
  /\ seq = Len(items) /\ saved.seq = Len(saved.items)
  /\ PlanHolds(items) /\ PlanHolds(saved.items)
  /\ timer \/ lost \/ saved = Tasks!Memory

LEMMA PlanKeptAtFirst == Tasks!Init => PlanIsKept
<1> SUFFICES ASSUME Tasks!Init PROVE PlanIsKept
  OBVIOUS
<1>1. <<>> \in Seq(Task) /\ Len(<<>>) = 0
  OBVIOUS
<1>2. saved = [seq |-> 0, items |-> <<>>] /\ items = <<>> /\ seq = 0
  BY DEF Tasks!Init, Tasks!Blank
<1>3. TasksTyped
  <2>1. \A list \in Seq(Task) : [seq |-> 0, items |-> list] \in [seq : Nat, items : Seq(Task)]
    OBVIOUS
  <2>2. saved \in [seq : Nat, items : Seq(Task)]
    BY <1>1, <1>2, <2>1
  <2>3. items \in Seq(Task)
    BY <1>1, <1>2
  <2>4. seq \in Nat /\ created \in Nat /\ timer \in BOOLEAN /\ lost \in BOOLEAN
    BY DEF Tasks!Init
  <2> QED BY <2>2, <2>3, <2>4 DEF TasksTyped
<1> QED BY <1>1, <1>2, <1>3 DEF Tasks!Init, PlanIsKept, PlanHolds, Tasks!Memory

\* A successful or failed flush leaves a saved that holds what was saved.
LEMMA FlushKeeps ==
  ASSUME PlanIsKept, Tasks!Flush
  PROVE  /\ saved' \in [seq : Nat, items : Seq(Task)] /\ saved'.seq = Len(saved'.items)
         /\ timer' = FALSE /\ lost' \in BOOLEAN
         /\ lost' \/ saved' = Tasks!Memory
         /\ \A t \in safe' : t[1] \in 1..Len(items) /\ items[t[1]].subject = t[2]
         /\ \A t \in safe' : t[1] \in 1..Len(saved'.items) /\ saved'.items[t[1]].subject = t[2]
<1>1. CASE saved' = Tasks!Memory /\ safe' = safe \cup {<<id, items[id].subject>> : id \in DOMAIN items} /\ lost' = FALSE
  <2>1. \A t \in safe' : t[1] \in 1..Len(items) /\ items[t[1]].subject = t[2]
    <3>1. DOMAIN items = 1..Len(items)
      BY DEF PlanIsKept, TasksTyped
    <3> QED BY <1>1, <3>1 DEF PlanIsKept, PlanHolds
  <2>2. saved' \in [seq : Nat, items : Seq(Task)] /\ saved'.seq = seq /\ saved'.items = items
    BY <1>1 DEF PlanIsKept, TasksTyped, Tasks!Memory
  <2> QED BY <1>1, <2>1, <2>2 DEF PlanIsKept, Tasks!Flush
<1>2. CASE lost' = TRUE /\ UNCHANGED <<saved, safe>>
  BY <1>2 DEF PlanIsKept, TasksTyped, PlanHolds, Tasks!Flush
<1> QED BY <1>1, <1>2 DEF Tasks!Flush

LEMMA PlanStep == PlanIsKept /\ [Tasks!Next]_OfTasks => PlanIsKept'
<1> SUFFICES ASSUME PlanIsKept, [Tasks!Next]_OfTasks PROVE PlanIsKept'
  OBVIOUS
<1>1. CASE Tasks!Create
  <2>1. items' \in Seq(Task) /\ Len(items') = Len(items) + 1 /\ \A i \in 1..Len(items) : items'[i] = items[i]
    BY <1>1, SMTT(30) DEF Tasks!Create, PlanIsKept, TasksTyped, Task
  <2>2. UNCHANGED <<saved, safe, lost>> /\ timer' = TRUE /\ seq' = seq + 1 /\ created' = created + 1
    BY <1>1 DEF Tasks!Create
  <2>3. TasksTyped'
    BY <2>1, <2>2 DEF PlanIsKept, TasksTyped
  <2>4. PlanHolds(items)' /\ PlanHolds(saved.items)'
    BY <2>1, <2>2 DEF PlanIsKept, TasksTyped, PlanHolds
  <2> QED BY <2>1, <2>2, <2>3, <2>4 DEF PlanIsKept, TasksTyped
<1>2. ASSUME NEW id \in DOMAIN items, Tasks!Update(id) PROVE PlanIsKept'
  <2>1. PICK status \in {"in_progress", "completed"} : items' = [items EXCEPT ![id].status = status]
    BY <1>2 DEF Tasks!Update
  <2>2. items' \in Seq(Task) /\ Len(items') = Len(items) /\ \A i \in 1..Len(items) : items'[i].subject = items[i].subject
    <3>1. items[id] \in Task /\ id \in 1..Len(items) /\ DOMAIN items = 1..Len(items)
      BY <1>2 DEF PlanIsKept, TasksTyped
    <3>2. [items[id] EXCEPT !.status = status] \in Task /\ [items[id] EXCEPT !.status = status].subject = items[id].subject
      BY <3>1 DEF Task
    <3>3. items' = [items EXCEPT ![id] = [items[id] EXCEPT !.status = status]]
      BY <2>1
    <3> QED BY <3>1, <3>2, <3>3 DEF PlanIsKept, TasksTyped
  <2>3. UNCHANGED <<saved, safe, lost, seq, created>> /\ timer' = TRUE
    BY <1>2 DEF Tasks!Update
  <2>4. PlanHolds(items)' /\ PlanHolds(saved.items)'
    BY <2>2, <2>3 DEF PlanIsKept, TasksTyped, PlanHolds
  <2> QED BY <2>2, <2>3, <2>4 DEF PlanIsKept, TasksTyped
<1>3. CASE Tasks!Timer
  <2>1. Tasks!Flush /\ UNCHANGED <<items, seq, created>>
    BY <1>3 DEF Tasks!Timer
  <2> QED BY <2>1, FlushKeeps DEF PlanIsKept, TasksTyped, PlanHolds, Tasks!Memory
<1>4. CASE Tasks!Exit
  <2>1. Tasks!Flush /\ items' = saved'.items /\ seq' = saved'.seq /\ UNCHANGED created
    BY <1>4 DEF Tasks!Exit, Tasks!Reload
  <2>2. saved' = Tasks!Memory'
    BY <2>1, FlushKeeps DEF Tasks!Memory
  <2> QED BY <2>1, <2>2, FlushKeeps DEF PlanIsKept, TasksTyped, PlanHolds
<1>5. CASE Tasks!Crash
  <2>1. UNCHANGED <<saved, safe, created>> /\ items' = saved.items /\ seq' = saved.seq /\ timer' = FALSE /\ lost' = FALSE
    BY <1>5 DEF Tasks!Crash, Tasks!Reload
  <2>2. saved' = Tasks!Memory'
    BY <2>1 DEF Tasks!Memory, PlanIsKept, TasksTyped
  <2>3. TasksTyped' /\ seq' = Len(items') /\ saved'.seq = Len(saved'.items)
    BY <2>1 DEF PlanIsKept, TasksTyped
  <2>4. PlanHolds(items)' /\ PlanHolds(saved.items)'
    BY <2>1 DEF PlanIsKept, PlanHolds
  <2> QED BY <2>1, <2>2, <2>3, <2>4 DEF PlanIsKept, Tasks!Memory
<1>6. CASE UNCHANGED OfTasks
  BY <1>6 DEF OfTasks, PlanIsKept, TasksTyped, PlanHolds, Tasks!Memory
<1> QED BY <1>1, <1>2, <1>3, <1>4, <1>5, <1>6 DEF Tasks!Next

LEMMA SurvivesThen == PlanIsKept => Tasks!PlanSurvives
BY DEF PlanIsKept, PlanHolds, Tasks!PlanSurvives

-----------------------------------------------------------------------------
(* The checkpoints.                                                        *)

Content == (0..desk.writes) \cup {Absent}
TurnLine == [turn : 1..desk.turns]
FileLine == [turn : 1..desk.turns, path : desk.paths, blob : Content]
ToolCall ==
  {Checks!No} \cup [at : {"reads", "known", "new", "edits"}, path : desk.paths, turn : 1..desk.turns]
  \cup [at : {"records"}, path : desk.paths, turn : 1..desk.turns, blob : Content]
Rewinding ==
  [at : {"restores", "turns", "files"}, turn : 1..desk.turns, turns : Seq(TurnLine), files : Seq(FileLine),
   failed : SUBSET desk.paths]

\* What a reader of files.jsonl sees.
Ledger == Checks!Lines(files)

DeskTyped ==
  /\ desk \in Desks /\ writes \in 0..desk.writes
  /\ disk \in [desk.paths -> Content]
  /\ turns \in Seq(TurnLine) /\ Len(turns) <= desk.turns
  /\ Ledger \in Seq(FileLine)
  /\ editing \in [desk.editors -> ToolCall] /\ rewinding \in {Checks!No} \cup Rewinding
  /\ found \in [1..desk.turns -> [desk.paths -> SUBSET Content]]

\* A torn line spoils all of the ledger.
TornSpoils == Checks!Contains(files, Torn) => \A u \in 1..desk.turns, p \in desk.paths : p \in spoiled[u]

\* The first line of a turn and path has what that turn found there, and no other has any.
Finds(ledger, u, p) ==
  \/ found[u][p] = {} /\ Checks!Touches(ledger, {u}, p) = {}
  \/ \E i \in Checks!Touches(ledger, {u}, p) :
       ledger[i].blob \in found[u][p] /\ \A j \in Checks!Touches(ledger, {u}, p) : i <= j

\* A tool call is of the last turn; one that need not record comes after a touch, and what another
\* will record is still there, unless a touch was first.
EditsOfThisTurn ==
  \A e \in desk.editors :
    editing[e] # Checks!No =>
      /\ rewinding = Checks!No /\ editing[e].turn = Len(turns)
      /\ editing[e].at \in {"known", "edits"} =>
           editing[e].path \in spoiled[editing[e].turn] \/ found[editing[e].turn][editing[e].path] # {}
      /\ editing[e].at = "records" /\ found[editing[e].turn][editing[e].path] = {} =>
           editing[e].blob = disk[editing[e].path]

\* Nothing is appended under a rewind; once its files are restored they are what the turns found.
RewindReadAll ==
  /\ rewinding # Checks!No => rewinding.files = Ledger
  /\ rewinding.at \in {"restores", "turns"} => rewinding.turns = turns
  /\ rewinding.at = "turns" =>
       \A p \in desk.paths \ rewinding.failed :
         Checks!Since(rewinding.turn, p) # {} /\ ~Checks!Lost(rewinding.turn, p) =>
           disk[p] \in Checks!Original(rewinding.turn, p)

\* What the turns found is in the ledger where no crash spoiled it; a rewind that has still to forget the
\* files has forgotten what they were.
LedgerFinds ==
  \A u \in 1..desk.turns, p \in desk.paths :
    IF rewinding.at = "files" /\ u >= rewinding.turn THEN found[u][p] = {}
    ELSE p \notin spoiled[u] => Finds(Ledger, u, p)

DeskInv ==
  DeskTyped /\ TornSpoils /\ EditsOfThisTurn /\ RewindReadAll /\ LedgerFinds /\ Checks!RewindRestores

LEMMA LessThan ==
  \E R : IsWellFoundedOn(R, Nat) /\ \A x, y \in Nat : <<y, x>> \in R <=> y < x
<1>1. IsWellFoundedOn(OpToRel(<, Nat), Nat)
  BY NatLessThanWellFounded
<1>2. \A x, y \in Nat : <<y, x>> \in OpToRel(<, Nat) <=> y < x
  BY DEF OpToRel
<1> QED
  BY <1>1, <1>2, Zenon

LEMMA LeastNat ==
  ASSUME NEW S \in SUBSET Nat, S # {}
  PROVE  \E m \in S : \A n \in S : m <= n
<1>1. PICK R : IsWellFoundedOn(R, Nat) /\ \A x, y \in Nat : <<y, x>> \in R <=> y < x
  BY LessThan
<1>2. PICK x \in S : \A y \in S : ~(<<y, x>> \in R)
  BY <1>1, WFMin
<1>3. \A y \in S : ~(y < x)
  BY <1>1, <1>2
<1>4. \A y \in S : x <= y
  BY <1>3
<1> QED
  BY <1>4

\* One more line was looked at.
KeptAt(ledger, t, f, n) ==
  IF n = 0 THEN <<>> ELSE IF ledger[n].turn < t THEN Append(f[n - 1], ledger[n]) ELSE f[n - 1]

LEMMA KeptExists ==
  ASSUME NEW ledger, NEW t, NEW len \in Nat
  PROVE  \E f : f = [n \in 0..len |-> KeptAt(ledger, t, f, n)]
<1> DEFINE Bad == {m \in Nat : ~\E f : f = [n \in 0..m |-> KeptAt(ledger, t, f, n)]}
<1>1. SUFFICES ASSUME Bad # {} PROVE FALSE
  OBVIOUS
<1>2. PICK m \in Bad : \A k \in Bad : m <= k
  BY <1>1, LeastNat
<1>3. \E g : \A k \in 0..(m - 1) : k \in DOMAIN g /\ g[k] = KeptAt(ledger, t, g, k)
  <2>1. CASE m = 0
    BY <2>1
  <2>2. CASE m # 0
    <3>1. m - 1 \in Nat /\ ~(m <= m - 1)
      BY <2>2
    <3>2. m - 1 \notin Bad
      BY <1>2, <3>1
    <3>3. PICK g : g = [n \in 0..(m - 1) |-> KeptAt(ledger, t, g, n)]
      BY <3>1, <3>2
    <3>4. \A k \in 0..(m - 1) : k \in DOMAIN g /\ g[k] = KeptAt(ledger, t, g, k)
      BY <3>3, Zenon
    <3> QED
      BY <3>4
  <2> QED
    BY <2>1, <2>2
<1>4. PICK g : \A k \in 0..(m - 1) : k \in DOMAIN g /\ g[k] = KeptAt(ledger, t, g, k)
  BY <1>3
<1> DEFINE h == [n \in 0..m |-> KeptAt(ledger, t, g, n)]
<1>5. \A k \in 0..(m - 1) : h[k] = g[k]
  BY <1>4
<1> HIDE DEF h
<1>6. \A n \in 0..m : KeptAt(ledger, t, h, n) = KeptAt(ledger, t, g, n)
  <2> SUFFICES ASSUME NEW n \in 0..m PROVE KeptAt(ledger, t, h, n) = KeptAt(ledger, t, g, n)
    OBVIOUS
  <2>1. CASE n = 0
    BY <2>1 DEF KeptAt
  <2>2. CASE n # 0
    <3>1. n - 1 \in 0..(m - 1)
      BY <2>2
    <3> QED
      BY <1>5, <3>1 DEF KeptAt
  <2> QED
    BY <2>1, <2>2
<1>7. h = [n \in 0..m |-> KeptAt(ledger, t, h, n)]
  BY <1>6 DEF h
<1> QED
  BY <1>2, <1>7

LEMMA BeforeIs ==
  ASSUME NEW ledger, NEW t, Len(ledger) \in Nat
  PROVE  \E f : /\ f = [n \in 0..Len(ledger) |-> KeptAt(ledger, t, f, n)]
                /\ Checks!Before(ledger, t) = f[Len(ledger)]
<1> DEFINE IsKept(f) == f = [n \in 0..Len(ledger) |-> KeptAt(ledger, t, f, n)]
<1>1. \E f : IsKept(f)
  BY KeptExists
<1> DEFINE kept == CHOOSE f : IsKept(f)
<1>2. IsKept(kept)
  BY <1>1
<1>3. kept = CHOOSE f : f = [n \in 0..Len(ledger) |->
                IF n = 0 THEN <<>> ELSE IF ledger[n].turn < t THEN Append(f[n - 1], ledger[n]) ELSE f[n - 1]]
  BY DEF KeptAt
<1>4. Checks!Before(ledger, t) = kept[Len(ledger)]
  BY <1>3 DEF Checks!Before
<1> QED
  BY <1>2, <1>4

SameFile(a, b) == a.turn = b.turn /\ a.path = b.path
FirstOf(ledger, i) == \A j \in 1..(i - 1) : ~SameFile(ledger[j], ledger[i])

\* Of the first n lines: those of turns before t, and the first of each turn and path is still the first.
KeepsOf(ledger, t, k, n) ==
  /\ \A j \in 1..Len(k) : k[j].turn < t /\ \E m \in 1..n : k[j] = ledger[m]
  /\ \A i \in 1..n :
       ledger[i].turn < t /\ FirstOf(ledger, i) =>
         \E j \in 1..Len(k) : k[j] = ledger[i] /\ FirstOf(k, j)

LEMMA KeepsOneMore ==
  ASSUME NEW S, NEW ledger \in Seq(S), NEW t, NEW n \in 1..Len(ledger),
         NEW k \in Seq(S), Len(k) <= n - 1, KeepsOf(ledger, t, k, n - 1),
         NEW next, next = IF ledger[n].turn < t THEN Append(k, ledger[n]) ELSE k
  PROVE  next \in Seq(S) /\ Len(next) <= n /\ KeepsOf(ledger, t, next, n)
<1>1. ledger[n] \in S /\ Len(k) \in Nat /\ n \in Nat /\ Len(ledger) \in Nat
  OBVIOUS
<1>2. CASE ~(ledger[n].turn < t)
  <2>1. next = k
    BY <1>2
  <2>2. \A i \in 1..n : ledger[i].turn < t => i \in 1..(n - 1)
    BY <1>1, <1>2
  <2>3. \A m \in 1..(n - 1) : m \in 1..n
    BY <1>1
  <2>4. KeepsOf(ledger, t, k, n)
    BY <2>2, <2>3 DEF KeepsOf
  <2> QED
    BY <1>1, <2>1, <2>4
<1>3. CASE ledger[n].turn < t
  <2>1. /\ next = Append(k, ledger[n]) /\ next \in Seq(S) /\ Len(next) = Len(k) + 1
        /\ \A j \in 1..Len(k) : next[j] = k[j]
        /\ next[Len(k) + 1] = ledger[n]
    BY <1>1, <1>3, AppendProperties
  <2>2. ASSUME NEW j \in 1..Len(next)
        PROVE  next[j].turn < t /\ \E m \in 1..n : next[j] = ledger[m]
    <3>1. CASE j = Len(k) + 1
      BY <1>1, <1>3, <2>1, <3>1
    <3>2. CASE j \in 1..Len(k)
      <4>1. PICK m \in 1..(n - 1) : k[j] = ledger[m]
        BY <3>2 DEF KeepsOf
      <4>2. m \in 1..n
        BY <1>1
      <4> QED
        BY <2>1, <3>2, <4>1, <4>2 DEF KeepsOf
    <3> QED
      BY <1>1, <2>1, <3>1, <3>2
  <2>3. ASSUME NEW i \in 1..n, ledger[i].turn < t, FirstOf(ledger, i)
        PROVE  \E j \in 1..Len(next) : next[j] = ledger[i] /\ FirstOf(next, j)
    <3>1. CASE i \in 1..(n - 1)
      <4>1. PICK j \in 1..Len(k) : k[j] = ledger[i] /\ FirstOf(k, j)
        BY <2>3, <3>1 DEF KeepsOf
      <4>2. j \in 1..Len(next) /\ \A h \in 1..(j - 1) : h \in 1..Len(k)
        BY <1>1, <2>1
      <4>3. FirstOf(next, j)
        BY <2>1, <4>1, <4>2 DEF FirstOf
      <4> QED
        BY <2>1, <4>1, <4>2, <4>3
    <3>2. CASE i = n
      <4>1. ASSUME NEW h \in 1..Len(k) PROVE ~SameFile(next[h], ledger[n])
        <5>1. PICK m \in 1..(n - 1) : k[h] = ledger[m]
          BY DEF KeepsOf
        <5>2. ~SameFile(ledger[m], ledger[n])
          BY <2>3, <3>2, <5>1 DEF FirstOf
        <5> QED
          BY <2>1, <5>1, <5>2
      <4>2. FirstOf(next, Len(k) + 1)
        BY <1>1, <2>1, <4>1 DEF FirstOf
      <4>3. Len(k) + 1 \in 1..Len(next)
        BY <1>1, <2>1
      <4> QED
        BY <2>1, <3>2, <4>2, <4>3
    <3> QED
      BY <1>1, <3>1, <3>2
  <2>4. KeepsOf(ledger, t, next, n)
    BY <2>2, <2>3 DEF KeepsOf
  <2> QED
    BY <1>1, <2>1, <2>4
<1> QED
  BY <1>2, <1>3

LEMMA BeforeKeeps ==
  ASSUME NEW S, NEW ledger \in Seq(S), NEW t
  PROVE  /\ Checks!Before(ledger, t) \in Seq(S) /\ Len(Checks!Before(ledger, t)) <= Len(ledger)
         /\ KeepsOf(ledger, t, Checks!Before(ledger, t), Len(ledger))
<1>1. Len(ledger) \in Nat
  OBVIOUS
<1>2. PICK f : /\ f = [n \in 0..Len(ledger) |-> KeptAt(ledger, t, f, n)]
               /\ Checks!Before(ledger, t) = f[Len(ledger)]
  BY <1>1, BeforeIs
<1>3. \A n \in 0..Len(ledger) : f[n] = KeptAt(ledger, t, f, n)
  BY <1>2, Zenon
<1> DEFINE Good(n) == f[n] \in Seq(S) /\ Len(f[n]) <= n /\ KeepsOf(ledger, t, f[n], n)
<1> DEFINE Bad == {n \in 0..Len(ledger) : ~Good(n)}
<1>4. SUFFICES ASSUME Bad # {} PROVE FALSE
  <2>1. Good(Len(ledger))
    BY <1>1, <1>4
  <2> QED
    BY <1>2, <2>1
<1>5. PICK n \in Bad : \A k \in Bad : n <= k
  <2>1. Bad \in SUBSET Nat
    OBVIOUS
  <2> QED
    BY <1>4, <2>1, LeastNat
<1>6. n \in 0..Len(ledger) /\ ~Good(n)
  OBVIOUS
<1>7. CASE n = 0
  <2>1. f[n] = <<>>
    BY <1>3, <1>6, <1>7 DEF KeptAt
  <2>2. Good(n)
    BY <1>7, <2>1 DEF KeepsOf
  <2> QED
    BY <1>6, <2>2
<1>8. CASE n # 0
  <2>1. n \in 1..Len(ledger) /\ n - 1 \in 0..Len(ledger) /\ ~(n <= n - 1)
    BY <1>6, <1>8
  <2>2. Good(n - 1)
    BY <1>5, <2>1
  <2>3. f[n] = IF ledger[n].turn < t THEN Append(f[n - 1], ledger[n]) ELSE f[n - 1]
    BY <1>3, <1>6, <1>8 DEF KeptAt
  <2>4. Good(n)
    BY <2>1, <2>2, <2>3, KeepsOneMore
  <2> QED
    BY <1>6, <2>4
<1> QED
  BY <1>7, <1>8

LEMMA NoneTorn ==
  ASSUME desk \in Desks, NEW ledger \in Seq(FileLine)
  PROVE  ~Checks!Contains(ledger, Torn) /\ Checks!Lines(ledger) = ledger
<1>1. \A i \in 1..Len(ledger) : ledger[i] # Torn
  <2> SUFFICES ASSUME NEW i \in 1..Len(ledger) PROVE ledger[i] # Torn
    OBVIOUS
  <2>1. ledger[i] \in FileLine
    OBVIOUS
  <2>2. PICK t \in 1..desk.turns, p \in desk.paths, c \in Content : ledger[i] = [turn |-> t, path |-> p, blob |-> c]
    BY <2>1 DEF FileLine
  <2> QED
    BY <2>2, DesksAssumption DEF Content
<1>2. ~Checks!Contains(ledger, Torn)
  BY <1>1 DEF Checks!Contains
<1> QED
  BY <1>2 DEF Checks!Lines

LEMMA DeskIs ==
  ASSUME DeskTyped
  PROVE  /\ desk.turns \in Nat /\ desk.writes \in Nat
         /\ Checks!Lines(turns) = turns
         /\ \A line : Checks!Added(turns, line) = Append(turns, line)
<1>1. desk \in Desks /\ desk.turns \in Nat /\ desk.writes \in Nat
  BY DesksAssumption DEF DeskTyped
<1>2. \A i \in 1..Len(turns) : turns[i] # Torn
  <2> SUFFICES ASSUME NEW i \in 1..Len(turns) PROVE turns[i] # Torn
    OBVIOUS
  <2>1. turns[i] \in TurnLine
    BY DEF DeskTyped
  <2>2. PICK t \in 1..desk.turns : turns[i] = [turn |-> t]
    BY <2>1 DEF TurnLine
  <2> QED
    BY <1>1, <2>2, DesksAssumption
<1>3. ~Checks!Contains(turns, Torn)
  BY <1>2 DEF Checks!Contains
<1> QED
  BY <1>1, <1>3 DEF Checks!Lines, Checks!Added

\* A line is added, or lost behind a torn one.
LEMMA LedgerMore ==
  ASSUME DeskTyped, NEW line \in FileLine, files' = Checks!Added(files, line), desk' = desk
  PROVE  \/ Checks!Contains(files, Torn) /\ files' = files /\ Ledger' = Ledger
         \/ /\ ~Checks!Contains(files, Torn) /\ ~Checks!Contains(files, Torn)'
            /\ Ledger' = Append(Ledger, line) /\ Ledger' \in Seq(FileLine)
<1>1. CASE Checks!Contains(files, Torn)
  <2>1. files' = files
    BY <1>1 DEF Checks!Added
  <2> QED
    BY <1>1, <2>1 DEF Ledger
<1>2. CASE ~Checks!Contains(files, Torn)
  <2>1. Ledger = files /\ files' = Append(files, line) /\ Ledger \in Seq(FileLine)
    BY <1>2 DEF Ledger, Checks!Lines, Checks!Added, DeskTyped
  <2>2. PICK more \in Seq(FileLine) : more = files' /\ more = Append(Ledger, line)
    BY <2>1, AppendProperties
  <2>3. ~Checks!Contains(more, Torn) /\ Checks!Lines(more) = more
    BY NoneTorn DEF DeskTyped
  <2>4. ~Checks!Contains(files', Torn) /\ Checks!Lines(files') = more
    BY <2>2, <2>3
  <2> QED
    BY <1>2, <2>2, <2>4 DEF Ledger
<1> QED
  BY <1>1, <1>2

LEMMA LineFields ==
  ASSUME NEW ledger \in Seq(FileLine), NEW i \in 1..Len(ledger)
  PROVE  /\ ledger[i] \in FileLine
         /\ ledger[i].turn \in 1..desk.turns /\ ledger[i].path \in desk.paths /\ ledger[i].blob \in Content
<1>1. ledger[i] \in FileLine
  OBVIOUS
<1> QED
  BY <1>1 DEF FileLine

LEMMA TouchesAre ==
  ASSUME NEW S, NEW ledger \in Seq(S), NEW of, NEW p
  PROVE  \A i : i \in Checks!Touches(ledger, of, p) <=>
                  i \in 1..Len(ledger) /\ ledger[i].turn \in of /\ ledger[i].path = p
BY DEF Checks!Touches

\* What is left of the ledger finds the same of the turns before t, and nothing of the others.
LEMMA FindsBefore ==
  ASSUME DeskTyped, NEW ledger \in Seq(FileLine), NEW t \in 1..desk.turns, NEW u \in 1..desk.turns,
         NEW p \in desk.paths
  PROVE  /\ u < t /\ Finds(ledger, u, p) => Finds(Checks!Before(ledger, t), u, p)
         /\ u >= t => Checks!Touches(Checks!Before(ledger, t), {u}, p) = {}
<1> DEFINE rest == Checks!Before(ledger, t)
<1>1. rest \in Seq(FileLine) /\ KeepsOf(ledger, t, rest, Len(ledger))
  BY BeforeKeeps
<1> HIDE DEF rest
<1>2. \A i \in 1..Len(ledger) : ledger[i] \in FileLine /\ ledger[i].turn \in 1..desk.turns
  BY LineFields
<1>3. \A j \in 1..Len(rest) : rest[j] \in FileLine /\ rest[j].turn \in 1..desk.turns
  BY <1>1, LineFields
<1>4. desk.turns \in Nat /\ Len(ledger) \in Nat /\ Len(rest) \in Nat
  BY <1>1, DeskIs
<1>5. ASSUME u >= t PROVE Checks!Touches(rest, {u}, p) = {}
  <2>1. \A j \in 1..Len(rest) : rest[j].turn < t
    BY <1>1 DEF KeepsOf
  <2>2. \A j \in 1..Len(rest) : rest[j].turn # u
    BY <1>3, <1>4, <1>5, <2>1
  <2> QED
    BY <1>1, <2>2 DEF Checks!Touches
<1>6. ASSUME u < t, Finds(ledger, u, p) PROVE Finds(rest, u, p)
  <2>1. CASE found[u][p] = {} /\ Checks!Touches(ledger, {u}, p) = {}
    <3>1. ASSUME NEW j \in Checks!Touches(rest, {u}, p) PROVE FALSE
      <4>1. j \in 1..Len(rest) /\ rest[j].turn = u /\ rest[j].path = p
        BY <1>1 DEF Checks!Touches
      <4>2. PICK m \in 1..Len(ledger) : rest[j] = ledger[m]
        BY <1>1, <4>1 DEF KeepsOf
      <4> QED
        BY <2>1, <4>1, <4>2 DEF Checks!Touches
    <3> QED
      BY <2>1, <3>1 DEF Finds
  <2>2. ASSUME NEW i \in Checks!Touches(ledger, {u}, p), ledger[i].blob \in found[u][p],
               \A j \in Checks!Touches(ledger, {u}, p) : i <= j
        PROVE  Finds(rest, u, p)
    <3>1. i \in 1..Len(ledger) /\ ledger[i].turn = u /\ ledger[i].path = p
      BY DEF Checks!Touches
    <3>2. FirstOf(ledger, i)
      <4> SUFFICES ASSUME NEW j \in 1..(i - 1), SameFile(ledger[j], ledger[i]) PROVE FALSE
        BY DEF FirstOf
      <4>1. j \in 1..Len(ledger) /\ ~(i <= j)
        BY <1>4, <3>1
      <4>2. j \in Checks!Touches(ledger, {u}, p)
        BY <3>1, <4>1 DEF SameFile, Checks!Touches
      <4> QED
        BY <2>2, <4>1, <4>2
    <3>3. PICK j \in 1..Len(rest) : rest[j] = ledger[i] /\ FirstOf(rest, j)
      BY <1>1, <1>6, <3>1, <3>2 DEF KeepsOf
    <3>4. j \in Checks!Touches(rest, {u}, p)
      BY <1>1, <3>1, <3>3 DEF Checks!Touches
    <3>5. ASSUME NEW h \in Checks!Touches(rest, {u}, p) PROVE j <= h
      <4>1. h \in 1..Len(rest) /\ SameFile(rest[h], rest[j])
        BY <1>1, <3>1, <3>3 DEF Checks!Touches, SameFile
      <4>2. h \notin 1..(j - 1)
        BY <3>3, <4>1 DEF FirstOf
      <4> QED
        BY <1>4, <4>1, <4>2
    <3> QED
      BY <2>2, <3>3, <3>4, <3>5 DEF Finds
  <2> QED
    BY <1>6, <2>1, <2>2 DEF Finds
<1> QED
  BY <1>5, <1>6 DEF rest

\* A path's pre-image is what the first turn that touched it found, where no crash spoiled that.
LEMMA PreImageIs ==
  ASSUME DeskTyped, NEW ledger \in Seq(FileLine), NEW t \in 1..desk.turns, NEW p \in desk.paths,
         \A u \in 1..desk.turns : p \notin spoiled[u] => Finds(ledger, u, p)
  PROVE  /\ Checks!Touches(ledger, t..desk.turns, p) # {} => Checks!PreImage(ledger, t, p) \in Content
         /\ Checks!Since(t, p) # {} /\ ~Checks!Lost(t, p) =>
              /\ Checks!Touches(ledger, t..desk.turns, p) # {}
              /\ Checks!PreImage(ledger, t, p) \in Checks!Original(t, p)
<1> DEFINE touches == Checks!Touches(ledger, t..desk.turns, p)
<1> DEFINE Sooner(i, j) == ledger[i].turn < ledger[j].turn \/ (ledger[i].turn = ledger[j].turn /\ i <= j)
<1> DEFINE first == CHOOSE k \in touches : \A j \in touches : Sooner(k, j)
<1>1. /\ desk.turns \in Nat /\ Len(ledger) \in Nat
      /\ \A i \in 1..Len(ledger) : ledger[i] \in FileLine /\ ledger[i].turn \in 1..desk.turns /\ ledger[i].blob \in Content
  <2>1. Len(ledger) \in Nat
    OBVIOUS
  <2> QED
    BY <2>1, DeskIs, LineFields
<1>2. \A i : i \in touches <=> i \in 1..Len(ledger) /\ ledger[i].turn >= t /\ ledger[i].path = p
  BY <1>1, TouchesAre
<1>3. \A u, i : i \in Checks!Touches(ledger, {u}, p) <=> i \in 1..Len(ledger) /\ ledger[i].turn = u /\ ledger[i].path = p
  BY TouchesAre
<1>4. \A u : u \in Checks!Since(t, p) <=> u \in 1..desk.turns /\ u >= t /\ found[u][p] # {}
  BY DEF Checks!Since, Checks!Turns
<1>5. Checks!PreImage(ledger, t, p) = ledger[first].blob
  BY DEF Checks!PreImage
<1> HIDE DEF touches
<1>6. ASSUME touches # {} PROVE first \in touches /\ \A j \in touches : Sooner(first, j)
  <2> DEFINE in == {ledger[i].turn : i \in touches}
  <2>1. in \in SUBSET Nat /\ in # {}
    BY <1>1, <1>2, <1>6
  <2>2. PICK u \in in : \A v \in in : u <= v
    BY <2>1, LeastNat
  <2> DEFINE ofFirst == {i \in touches : ledger[i].turn = u}
  <2>3. ofFirst \in SUBSET Nat /\ ofFirst # {}
    BY <1>2, <2>2
  <2>4. PICK k \in ofFirst : \A j \in ofFirst : k <= j
    BY <2>3, LeastNat
  <2>5. ASSUME NEW j \in touches PROVE Sooner(k, j)
    <3>1. ledger[k].turn = u /\ u <= ledger[j].turn /\ u \in Nat /\ ledger[j].turn \in Nat
      BY <1>1, <1>2, <2>1, <2>2, <2>4
    <3>2. ledger[j].turn = u => k <= j
      BY <2>4
    <3> QED
      BY <3>1, <3>2
  <2> QED
    BY <2>4, <2>5
<1> HIDE DEF first
<1>7. ASSUME touches # {} PROVE Checks!PreImage(ledger, t, p) \in Content
  BY <1>1, <1>2, <1>5, <1>6, <1>7
<1>8. ASSUME Checks!Since(t, p) # {}, ~Checks!Lost(t, p)
      PROVE  touches # {} /\ Checks!PreImage(ledger, t, p) \in Checks!Original(t, p)
  <2>1. Checks!Since(t, p) \in SUBSET Nat
    BY <1>1, <1>4
  <2>2. PICK u \in Checks!Since(t, p) : \A v \in Checks!Since(t, p) : u <= v
    BY <1>8, <2>1, LeastNat
  <2>3. Checks!Original(t, p) = found[u][p]
    <3> DEFINE least == CHOOSE w \in Checks!Since(t, p) : \A v \in Checks!Since(t, p) : w <= v
    <3>1. least \in Checks!Since(t, p) /\ \A v \in Checks!Since(t, p) : least <= v
      BY <2>2
    <3>2. least <= u /\ u <= least /\ least \in Nat /\ u \in Nat
      BY <2>1, <2>2, <3>1
    <3>3. least = u
      BY <3>2
    <3> HIDE DEF least
    <3>4. Checks!Original(t, p) = found[least][p]
      BY DEF Checks!Original, least
    <3> QED
      BY <3>3, <3>4
  <2>4. ASSUME NEW w \in t..u PROVE w \in 1..desk.turns /\ Finds(ledger, w, p)
    <3>1. u \in 1..desk.turns /\ u >= t
      BY <1>4
    <3>2. w \in 1..desk.turns /\ w >= t /\ w <= u
      BY <1>1, <3>1
    <3>3. \A v \in Checks!Since(t, p) : w <= v
      BY <1>1, <2>1, <2>2, <3>1, <3>2
    <3>4. p \notin spoiled[w]
      BY <1>8, <3>2, <3>3 DEF Checks!Lost, Checks!Turns
    <3> QED
      BY <3>2, <3>4
  <2>5. /\ u \in 1..desk.turns /\ u >= t /\ u \in t..u /\ found[u][p] # {}
    BY <1>1, <1>4
  <2>6. PICK i \in Checks!Touches(ledger, {u}, p) :
          ledger[i].blob \in found[u][p] /\ \A j \in Checks!Touches(ledger, {u}, p) : i <= j
    BY <2>4, <2>5 DEF Finds
  <2>7. i \in touches /\ ledger[i].turn = u
    BY <1>2, <1>3, <2>5, <2>6
  <2>8. first \in touches /\ Sooner(first, i)
    BY <1>6, <2>7
  <2>9. first \in 1..Len(ledger) /\ ledger[first].turn >= t /\ ledger[first].turn \in 1..desk.turns /\ ledger[first].path = p
    BY <1>1, <1>2, <2>8
  <2>10. ledger[first].turn = u
    <3>1. ledger[first].turn <= u
      BY <1>1, <2>5, <2>7, <2>8, <2>9
    <3>2. PICK w \in t..u : w = ledger[first].turn
      BY <1>1, <2>5, <2>9, <3>1
    <3>3. first \in Checks!Touches(ledger, {w}, p)
      BY <1>3, <2>9, <3>2
    <3>4. found[w][p] # {}
      BY <2>4, <3>3 DEF Finds
    <3>5. w \in Checks!Since(t, p)
      BY <1>1, <1>4, <2>4, <2>5, <3>4
    <3> QED
      BY <1>1, <2>1, <2>2, <2>5, <3>2, <3>5
  <2>11. first = i
    <3>1. first \in Checks!Touches(ledger, {u}, p)
      BY <1>3, <2>9, <2>10
    <3>2. i <= first
      BY <2>6, <3>1
    <3>3. first <= i
      <4>1. ~(ledger[first].turn < ledger[i].turn)
        BY <1>1, <2>5, <2>7, <2>10
      <4> QED
        BY <2>8, <4>1
    <3>4. i \in 1..Len(ledger)
      BY <1>2, <2>7
    <3> QED
      BY <1>1, <2>9, <3>2, <3>3, <3>4
  <2> QED
    BY <1>5, <2>3, <2>6, <2>7, <2>11
<1> QED
  BY <1>7, <1>8 DEF touches

LEMMA CallFields ==
  ASSUME NEW c \in ToolCall
  PROVE  /\ c = Checks!No <=> c.at = "none"
         /\ c # Checks!No => c.path \in desk.paths /\ c.turn \in 1..desk.turns
         /\ c.at = "records" => c.blob \in Content
<1>1. CASE c = Checks!No
  BY <1>1 DEF Checks!No
<1>2. CASE c \in [at : {"reads", "known", "new", "edits"}, path : desk.paths, turn : 1..desk.turns]
  <2>1. c.at \in {"reads", "known", "new", "edits"} /\ c.path \in desk.paths /\ c.turn \in 1..desk.turns
    BY <1>2
  <2> QED
    BY <2>1 DEF Checks!No
<1>3. CASE c \in [at : {"records"}, path : desk.paths, turn : 1..desk.turns, blob : Content]
  <2>1. c.at = "records" /\ c.path \in desk.paths /\ c.turn \in 1..desk.turns /\ c.blob \in Content
    BY <1>3
  <2> QED
    BY <2>1 DEF Checks!No
<1> QED
  BY <1>1, <1>2, <1>3 DEF ToolCall

LEMMA RewindFields ==
  ASSUME DeskTyped
  PROVE  /\ rewinding = Checks!No <=> rewinding.at = "none"
         /\ rewinding # Checks!No =>
              /\ rewinding \in Rewinding /\ rewinding.at \in {"restores", "turns", "files"}
              /\ rewinding.turn \in 1..desk.turns /\ rewinding.turns \in Seq(TurnLine)
              /\ rewinding.files \in Seq(FileLine) /\ rewinding.failed \in SUBSET desk.paths
<1>1. CASE rewinding = Checks!No
  BY <1>1 DEF Checks!No
<1>2. CASE rewinding \in Rewinding
  <2>1. /\ rewinding.at \in {"restores", "turns", "files"}
        /\ rewinding.turn \in 1..desk.turns /\ rewinding.turns \in Seq(TurnLine)
        /\ rewinding.files \in Seq(FileLine) /\ rewinding.failed \in SUBSET desk.paths
    BY <1>2 DEF Rewinding
  <2> QED
    BY <1>2, <2>1 DEF Checks!No
<1> QED
  BY <1>1, <1>2 DEF DeskTyped

LEMMA DeskAtFirst == Checks!Init => DeskInv
<1> SUFFICES ASSUME Checks!Init PROVE DeskInv
  OBVIOUS
<1>1. /\ desk \in Desks /\ desk.turns \in Nat /\ desk.writes \in Nat /\ disk \in [desk.paths -> {0, Absent}]
      /\ turns = <<>> /\ files = <<>> /\ editing = [e \in desk.editors |-> Checks!No] /\ rewinding = Checks!No
      /\ found = [t \in 1..desk.turns |-> [p \in desk.paths |-> {}]] /\ restored = {} /\ spoiled = [t \in 1..desk.turns |-> {}] /\ writes = 0
  BY DesksAssumption DEF Checks!Init, Checks!Paths, Checks!Editors, Checks!NotYet, Checks!Turns
<1>2. {0, Absent} \in SUBSET Content
  BY <1>1 DEF Content
<1>3. disk \in [desk.paths -> Content]
  BY <1>1, <1>2
<1>4. found \in [1..desk.turns -> [desk.paths -> SUBSET Content]]
  BY <1>1
<1>5. editing \in [desk.editors -> ToolCall]
  BY <1>1 DEF ToolCall
<1>6. /\ \A S : <<>> \in Seq(S) /\ Len(<<>>) = 0
      /\ ~Checks!Contains(files, Torn) /\ Ledger = <<>>
  BY <1>1 DEF Checks!Contains, Checks!Lines, Ledger
<1>7. turns \in Seq(TurnLine) /\ Len(turns) <= desk.turns /\ Ledger \in Seq(FileLine) /\ writes \in 0..desk.writes
  BY <1>1, <1>6
<1>8. DeskTyped
  BY <1>1, <1>3, <1>4, <1>5, <1>7 DEF DeskTyped
<1>9. rewinding.at = "none"
  BY <1>1 DEF Checks!No
<1>10. LedgerFinds
  <2>1. Ledger = <<>>
    BY <1>6
  <2>2. \A u, p : Checks!Touches(<<>>, {u}, p) = {}
    BY DEF Checks!Touches
  <2> QED
    BY <1>1, <1>9, <2>1, <2>2 DEF LedgerFinds, Finds
<1> QED
  BY <1>1, <1>6, <1>8, <1>9, <1>10 DEF DeskInv, TornSpoils, EditsOfThisTurn, RewindReadAll, Checks!RewindRestores

\* Where neither the ledger nor what was found changes, it still finds it.
LEMMA FoundStays ==
  ASSUME DeskInv, UNCHANGED <<desk, files, found, spoiled>>,
         rewinding' = rewinding \/ (rewinding.at # "files" /\ rewinding'.at # "files")
  PROVE  LedgerFinds' /\ TornSpoils' /\ Ledger' = Ledger
<1>1. Ledger' = Ledger
  BY DEF Ledger
<1>2. LedgerFinds'
  BY <1>1 DEF DeskInv, LedgerFinds, Finds, Checks!Touches
<1>3. TornSpoils'
  BY DEF DeskInv, TornSpoils
<1> QED
  BY <1>1, <1>2, <1>3

LEMMA BeginTurnKeeps ==
  ASSUME DeskInv, Checks!BeginTurn
  PROVE  DeskInv'
<1>1. /\ DeskTyped /\ rewinding = Checks!No /\ \A e \in desk.editors : editing[e] = Checks!No
      /\ UNCHANGED <<desk, files, editing, rewinding, found, spoiled>> /\ restored' = {}
  BY DEF DeskInv, Checks!BeginTurn, Checks!Idle, Checks!Editors
<1>2. /\ desk.turns \in Nat /\ desk.writes \in Nat /\ turns \in Seq(TurnLine) /\ Len(turns) < desk.turns
      /\ turns' = Append(turns, [turn |-> Len(turns) + 1])
  BY <1>1, DeskIs DEF DeskTyped, Checks!BeginTurn, Checks!ThisTurn
<1>3. [turn |-> Len(turns) + 1] \in TurnLine
  BY <1>2 DEF TurnLine
<1>4. turns' \in Seq(TurnLine) /\ Len(turns') = Len(turns) + 1
  BY <1>2, <1>3, AppendProperties
<1>5. disk' \in [desk.paths -> Content] /\ writes' \in 0..desk.writes
  <2>1. disk \in [desk.paths -> Content] /\ writes \in 0..desk.writes
    BY <1>1 DEF DeskTyped
  <2>2. CASE disk' = disk
    BY <2>1, <2>2 DEF Checks!BeginTurn
  <2>3. CASE disk' # disk
    <3>1. writes < desk.writes /\ writes' = writes + 1 /\ disk' \in Checks!ByHand
      BY <2>3 DEF Checks!BeginTurn
    <3>2. PICK p \in desk.paths, c \in {writes + 1, Absent} : disk' = [disk EXCEPT ![p] = c]
      BY <2>3, <3>1 DEF Checks!ByHand, Checks!Paths
    <3>3. c \in Content
      BY <1>2, <2>1, <3>1 DEF Content
    <3> QED
      BY <1>2, <2>1, <3>1, <3>2, <3>3
  <2> QED
    BY <2>2, <2>3
<1>6. DeskTyped'
  BY <1>1, <1>2, <1>4, <1>5, FoundStays DEF DeskTyped, Content, TurnLine, FileLine, ToolCall, Rewinding
<1>7. LedgerFinds' /\ TornSpoils'
  BY <1>1, FoundStays
<1>8. rewinding.at = "none"
  BY <1>1 DEF Checks!No
<1> QED
  BY <1>1, <1>6, <1>7, <1>8 DEF DeskInv, EditsOfThisTurn, RewindReadAll, Checks!RewindRestores

\* A tool call goes on to its next step; nothing else changes.
LEMMA CallChanges ==
  ASSUME DeskInv, NEW e \in desk.editors, NEW new \in ToolCall, editing' = [editing EXCEPT ![e] = new],
         UNCHANGED <<desk, disk, turns, files, rewinding, found, restored, spoiled, writes>>,
         new # Checks!No =>
           /\ rewinding = Checks!No /\ new.turn = Len(turns)
           /\ new.at \in {"known", "edits"} => new.path \in spoiled[new.turn] \/ found[new.turn][new.path] # {}
           /\ new.at = "records" /\ found[new.turn][new.path] = {} => new.blob = disk[new.path]
  PROVE  DeskInv'
<1>1. DeskTyped /\ EditsOfThisTurn /\ RewindReadAll
  BY DEF DeskInv
<1>2. /\ editing' \in [desk.editors -> ToolCall]
      /\ \A d \in desk.editors : editing'[d] = IF d = e THEN new ELSE editing[d]
  BY <1>1 DEF DeskTyped
<1>3. DeskTyped'
  BY <1>1, <1>2, FoundStays DEF DeskTyped, Content, TurnLine, FileLine, ToolCall, Rewinding
<1>4. EditsOfThisTurn'
  BY <1>1, <1>2 DEF EditsOfThisTurn
<1>5. RewindReadAll'
  BY <1>1, FoundStays DEF RewindReadAll, Checks!Lost, Checks!Since, Checks!Original, Checks!Turns
<1>6. LedgerFinds' /\ TornSpoils'
  BY FoundStays
<1> QED
  BY <1>3, <1>4, <1>5, <1>6 DEF DeskInv, Checks!RewindRestores

\* A tool call under way is in the turn that is under way, and no rewind is.
LEMMA CallIs ==
  ASSUME DeskInv, NEW e \in desk.editors, editing[e].at # "none"
  PROVE  /\ editing[e] \in ToolCall /\ editing[e] # Checks!No
         /\ editing[e].path \in desk.paths /\ editing[e].turn \in 1..desk.turns /\ editing[e].turn = Len(turns)
         /\ rewinding = Checks!No /\ rewinding.at = "none"
         /\ editing[e].path \notin spoiled[editing[e].turn] => Finds(Ledger, editing[e].turn, editing[e].path)
<1>1. DeskTyped /\ EditsOfThisTurn /\ LedgerFinds
  BY DEF DeskInv
<1>2. editing[e] \in ToolCall
  BY <1>1 DEF DeskTyped
<1>3. editing[e] # Checks!No /\ editing[e].path \in desk.paths /\ editing[e].turn \in 1..desk.turns
  BY <1>2, CallFields
<1>4. editing[e].turn = Len(turns) /\ rewinding = Checks!No
  BY <1>1, <1>3 DEF EditsOfThisTurn
<1>5. rewinding.at = "none"
  BY <1>4 DEF Checks!No
<1> QED
  BY <1>1, <1>2, <1>3, <1>4, <1>5 DEF LedgerFinds

LEMMA SnapshotKeeps ==
  ASSUME DeskInv, NEW e \in desk.editors, NEW p \in desk.paths, Checks!Snapshot(e, p)
  PROVE  DeskInv'
<1> DEFINE new == [at |-> "reads", path |-> p, turn |-> Len(turns)]
<1>1. DeskTyped /\ turns \in Seq(TurnLine) /\ Len(turns) <= desk.turns /\ desk.turns \in Nat
  BY DeskIs DEF DeskInv, DeskTyped
<1>2. /\ rewinding = Checks!No /\ Len(turns) > 0
      /\ UNCHANGED <<desk, disk, turns, files, rewinding, found, restored, spoiled, writes>>
      /\ editing' = [editing EXCEPT ![e] = new]
  BY <1>1, DeskIs DEF Checks!Snapshot, Checks!ThisTurn
<1>3. Len(turns) \in 1..desk.turns
  BY <1>1, <1>2
<1>4. new \in ToolCall /\ new.at = "reads" /\ new.turn = Len(turns)
  BY <1>3 DEF ToolCall
<1> HIDE DEF new
<1> QED
  BY <1>2, <1>4, CallChanges

LEMMA CallGoesOn ==
  ASSUME NEW edit \in ToolCall, NEW at, edit.at \in {"reads", "known", "new"}, at \in {"known", "new", "edits"}
  PROVE  /\ [edit EXCEPT !.at = at] \in ToolCall /\ [edit EXCEPT !.at = at].at = at
         /\ [edit EXCEPT !.at = at].path = edit.path /\ [edit EXCEPT !.at = at].turn = edit.turn
<1>1. edit \in [at : {"reads", "known", "new", "edits"}, path : desk.paths, turn : 1..desk.turns]
  BY DEF ToolCall, Checks!No
<1> DEFINE new == [edit EXCEPT !.at = at]
<1>2. /\ new \in [at : {"reads", "known", "new", "edits"}, path : desk.paths, turn : 1..desk.turns]
      /\ new.at = at /\ new.path = edit.path /\ new.turn = edit.turn
  BY <1>1
<1> HIDE DEF new
<1>3. new \in ToolCall
  BY <1>2 DEF ToolCall
<1> QED
  BY <1>2, <1>3 DEF new

LEMMA ReadLedgerKeeps ==
  ASSUME DeskInv, NEW e \in desk.editors, Checks!ReadLedger(e)
  PROVE  DeskInv'
<1> DEFINE edit == editing[e]
<1> DEFINE touches == Checks!Touches(Ledger, {edit.turn}, edit.path)
<1> DEFINE at == IF touches # {} THEN "known" ELSE "new"
<1> DEFINE new == [edit EXCEPT !.at = at]
<1>1. /\ edit.at = "reads" /\ editing' = [editing EXCEPT ![e] = new]
      /\ UNCHANGED <<desk, disk, turns, files, rewinding, found, restored, spoiled, writes>>
  BY DEF Checks!ReadLedger, Ledger
<1>2. /\ edit \in ToolCall /\ edit # Checks!No
      /\ edit.path \in desk.paths /\ edit.turn \in 1..desk.turns /\ edit.turn = Len(turns)
      /\ rewinding = Checks!No
      /\ edit.path \notin spoiled[edit.turn] => Finds(Ledger, edit.turn, edit.path)
  BY <1>1, CallIs
<1>3. at \in {"known", "new", "edits"}
  OBVIOUS
<1> HIDE DEF at, edit
<1>4. edit.at \in {"reads", "known", "new"} /\ edit \in ToolCall
  BY <1>1, <1>2
<1>5. new \in ToolCall /\ new.at = at /\ new.path = edit.path /\ new.turn = edit.turn
  BY <1>3, <1>4, CallGoesOn
<1> HIDE DEF new
<1>6. new.at \in {"known", "edits"} => new.path \in spoiled[new.turn] \/ found[new.turn][new.path] # {}
  <2>1. at \in {"known", "edits"} => touches # {}
    BY DEF at
  <2>2. edit.path \notin spoiled[edit.turn] /\ touches # {} => found[edit.turn][edit.path] # {}
    BY <1>2 DEF Finds
  <2> QED
    BY <1>5, <2>1, <2>2
<1>7. new.at # "records"
  BY <1>3, <1>5 DEF at
<1> QED
  BY <1>1, <1>2, <1>5, <1>6, <1>7, CallChanges

LEMMA TakePreImageKeeps ==
  ASSUME DeskInv, NEW e \in desk.editors, Checks!TakePreImage(e)
  PROVE  DeskInv'
<1> DEFINE edit == editing[e]
<1>1. /\ edit.at \in {"known", "new"} /\ UNCHANGED <<desk, disk, turns, files, rewinding, found, restored, spoiled, writes>>
      /\ DeskTyped /\ EditsOfThisTurn
  BY DEF Checks!TakePreImage, DeskInv
<1>2. /\ edit \in ToolCall /\ edit # Checks!No
      /\ edit.path \in desk.paths /\ edit.turn \in 1..desk.turns /\ edit.turn = Len(turns)
      /\ rewinding = Checks!No
  BY <1>1, CallIs
<1>3. disk[edit.path] \in Content
  BY <1>1, <1>2 DEF DeskTyped
<1>4. CASE edit.at = "known"
  <2> DEFINE new == [edit EXCEPT !.at = "edits"]
  <2>1. editing' = [editing EXCEPT ![e] = new]
    BY <1>1, <1>4 DEF Checks!TakePreImage
  <2>2. new \in ToolCall /\ new.at = "edits" /\ new.path = edit.path /\ new.turn = edit.turn
    BY <1>1, <1>2, CallGoesOn
  <2>3. edit.path \in spoiled[edit.turn] \/ found[edit.turn][edit.path] # {}
    BY <1>1, <1>2, <1>4 DEF EditsOfThisTurn
  <2> HIDE DEF new, edit
  <2> QED
    BY <1>1, <1>2, <2>1, <2>2, <2>3, CallChanges
<1>5. CASE edit.at = "new"
  <2> DEFINE new == [at |-> "records", path |-> edit.path, turn |-> edit.turn, blob |-> disk[edit.path]]
  <2>1. editing' = [editing EXCEPT ![e] = new]
    BY <1>1, <1>5 DEF Checks!TakePreImage
  <2>2. new \in ToolCall /\ new.at = "records" /\ new.path = edit.path /\ new.turn = edit.turn /\ new.blob = disk[edit.path]
    BY <1>2, <1>3 DEF ToolCall
  <2> HIDE DEF new, edit
  <2> QED
    BY <1>1, <1>2, <2>1, <2>2, CallChanges
<1> QED
  BY <1>1, <1>4, <1>5

\* What a turn finds of a file is what is there when it first touches it.
LEMMA TouchIs ==
  ASSUME DeskTyped, NEW t \in 1..desk.turns, NEW p \in desk.paths, Checks!Touch(t, p)
  PROVE  /\ found' \in [1..desk.turns -> [desk.paths -> SUBSET Content]]
         /\ \A u \in 1..desk.turns, q \in desk.paths :
              found'[u][q] = IF u = t /\ q = p /\ found[u][q] = {} THEN {disk[p]} ELSE found[u][q]
         /\ found[t][p] # {} => found' = found
<1> DEFINE new == [found[t] EXCEPT ![p] = IF found[t][p] = {} THEN {disk[p]} ELSE found[t][p]]
<1>1. /\ found \in [1..desk.turns -> [desk.paths -> SUBSET Content]] /\ disk[p] \in Content
      /\ found[t] \in [desk.paths -> SUBSET Content] /\ found[t][p] \in SUBSET Content
  BY DEF DeskTyped
<1>2. found' = [found EXCEPT ![t] = new]
  BY DEF Checks!Touch
<1>3. /\ new \in [desk.paths -> SUBSET Content]
      /\ \A q \in desk.paths : new[q] = IF q = p /\ found[t][q] = {} THEN {disk[p]} ELSE found[t][q]
      /\ found[t][p] # {} => new = found[t]
  BY <1>1
<1> HIDE DEF new
<1> QED
  BY <1>1, <1>2, <1>3

\* What one more line changes of the touches of a turn and path.
Touched(ledger, line, more, u, p) ==
  /\ \A i \in Checks!Touches(ledger, {u}, p) : more[i] = ledger[i]
  /\ \A i \in Checks!Touches(ledger, {u}, p) : i \in Checks!Touches(more, {u}, p)
  /\ line.turn = u /\ line.path = p => Len(ledger) + 1 \in Checks!Touches(more, {u}, p)
  /\ \A i \in Checks!Touches(more, {u}, p) :
       \/ i \in Checks!Touches(ledger, {u}, p)
       \/ i = Len(ledger) + 1 /\ line.turn = u /\ line.path = p
  /\ \A i \in Checks!Touches(ledger, {u}, p) : i <= Len(ledger) + 1

LEMMA TouchesMore ==
  ASSUME NEW ledger \in Seq(FileLine), NEW line \in FileLine, NEW more, more = Append(ledger, line), NEW u, NEW p
  PROVE  Touched(ledger, line, more, u, p)
<1> DEFINE before == Checks!Touches(ledger, {u}, p)
<1> DEFINE after == Checks!Touches(more, {u}, p)
<1>1. /\ Len(ledger) \in Nat /\ more \in Seq(FileLine) /\ Len(more) = Len(ledger) + 1
      /\ \A i \in 1..Len(ledger) : more[i] = ledger[i]
      /\ more[Len(ledger) + 1] = line
  BY AppendProperties
<1>2. \A i : i \in after <=> i \in 1..Len(more) /\ more[i].turn \in {u} /\ more[i].path = p
  BY <1>1 DEF Checks!Touches
<1>3. \A i : i \in before <=> i \in 1..Len(ledger) /\ ledger[i].turn \in {u} /\ ledger[i].path = p
  BY <1>1 DEF Checks!Touches
<1> HIDE DEF before, after
<1>4. \A i : i \in 1..Len(more) <=> i \in 1..Len(ledger) \/ i = Len(ledger) + 1
  BY <1>1
<1>5. \A i \in 1..Len(ledger) : i <= Len(ledger) + 1
  BY <1>1
<1>6. \A i \in before : more[i] = ledger[i] /\ i \in after /\ i <= Len(ledger) + 1
  BY <1>1, <1>2, <1>3, <1>4, <1>5
<1>7. line.turn = u /\ line.path = p => Len(ledger) + 1 \in after
  BY <1>1, <1>2, <1>4
<1>8. \A i \in after : i \in before \/ (i = Len(ledger) + 1 /\ line.turn = u /\ line.path = p)
  BY <1>1, <1>2, <1>3, <1>4
<1> QED
  BY <1>6, <1>7, <1>8 DEF Touched, before, after

LEMMA RecordTouchKeeps ==
  ASSUME DeskInv, NEW e \in desk.editors, Checks!RecordTouch(e)
  PROVE  DeskInv'
<1> DEFINE edit == editing[e]
<1> DEFINE line == [turn |-> edit.turn, path |-> edit.path, blob |-> edit.blob]
<1> DEFINE new == [at |-> "edits", path |-> edit.path, turn |-> edit.turn]
<1>1. /\ DeskTyped /\ EditsOfThisTurn /\ edit.at = "records"
      /\ files' = Checks!Added(files, line) /\ editing' = [editing EXCEPT ![e] = new]
      /\ UNCHANGED <<desk, disk, turns, rewinding, restored, spoiled, writes>>
      /\ Checks!Touch(edit.turn, edit.path)
  BY DEF Checks!RecordTouch, DeskInv
<1>2. /\ edit \in ToolCall /\ edit # Checks!No
      /\ edit.path \in desk.paths /\ edit.turn \in 1..desk.turns /\ edit.turn = Len(turns)
      /\ rewinding = Checks!No /\ rewinding.at = "none"
  BY <1>1, CallIs
<1>3. line \in FileLine /\ line.turn = edit.turn /\ line.path = edit.path /\ line.blob = edit.blob
  BY <1>1, <1>2, CallFields DEF FileLine
<1>4. new \in ToolCall /\ new.at = "edits" /\ new.path = edit.path /\ new.turn = edit.turn
  BY <1>2 DEF ToolCall
<1>5. found[edit.turn][edit.path] = {} => edit.blob = disk[edit.path]
  BY <1>1, <1>2 DEF EditsOfThisTurn
<1> HIDE DEF line, new, edit
<1>6. /\ found' \in [1..desk.turns -> [desk.paths -> SUBSET Content]]
      /\ \A u \in 1..desk.turns, q \in desk.paths :
           found'[u][q] = IF u = edit.turn /\ q = edit.path /\ found[u][q] = {} THEN {disk[q]} ELSE found[u][q]
  <2>1. /\ found' \in [1..desk.turns -> [desk.paths -> SUBSET Content]]
        /\ \A u \in 1..desk.turns, q \in desk.paths :
             found'[u][q] = IF u = edit.turn /\ q = edit.path /\ found[u][q] = {} THEN {disk[edit.path]} ELSE found[u][q]
    BY <1>1, <1>2, TouchIs
  <2> QED
    BY <2>1
<1>7. /\ Ledger \in Seq(FileLine) /\ Ledger' \in Seq(FileLine)
      /\ \/ Checks!Contains(files, Torn) /\ files' = files
         \/ ~Checks!Contains(files, Torn) /\ ~Checks!Contains(files, Torn)' /\ Ledger' = Append(Ledger, line)
  BY <1>1, <1>3, LedgerMore DEF DeskTyped
<1>8. /\ editing' \in [desk.editors -> ToolCall]
      /\ \A d \in desk.editors : editing'[d] = IF d = e THEN new ELSE editing[d]
  BY <1>1, <1>4 DEF DeskTyped
<1>9. DeskTyped'
  BY <1>1, <1>6, <1>7, <1>8 DEF DeskTyped, Content, TurnLine, FileLine, ToolCall, Rewinding
<1>10. EditsOfThisTurn'
  <2> SUFFICES ASSUME NEW d \in desk.editors, editing'[d] # Checks!No
               PROVE  /\ rewinding' = Checks!No /\ editing'[d].turn = Len(turns')
                      /\ editing'[d].at \in {"known", "edits"} =>
                           editing'[d].path \in spoiled'[editing'[d].turn] \/ found'[editing'[d].turn][editing'[d].path] # {}
                      /\ editing'[d].at = "records" /\ found'[editing'[d].turn][editing'[d].path] = {} =>
                           editing'[d].blob = disk'[editing'[d].path]
    BY <1>1 DEF EditsOfThisTurn
  <2>1. CASE d = e
    <3>1. editing'[d] = new
      BY <1>8, <2>1
    <3>2. found'[edit.turn][edit.path] # {}
      BY <1>2, <1>6
    <3> QED
      BY <1>1, <1>2, <1>4, <3>1, <3>2
  <2>2. CASE d # e
    <3>1. editing'[d] = editing[d] /\ editing[d] \in ToolCall /\ editing[d] # Checks!No
      BY <1>1, <1>8, <2>2 DEF DeskTyped
    <3>2. editing[d].turn \in 1..desk.turns /\ editing[d].path \in desk.paths
      BY <3>1, CallFields
    <3>3. found'[editing[d].turn][editing[d].path] = {} => found[editing[d].turn][editing[d].path] = {}
      BY <1>6, <3>2
    <3> QED
      BY <1>1, <3>1, <3>3 DEF EditsOfThisTurn
  <2> QED
    BY <2>1, <2>2
<1>11. LedgerFinds' /\ TornSpoils'
  <2>1. CASE Checks!Contains(files, Torn) /\ files' = files
    <3>1. \A u \in 1..desk.turns, p \in desk.paths : p \in spoiled[u]
      BY <2>1 DEF DeskInv, TornSpoils
    <3> QED
      BY <1>1, <1>2, <3>1 DEF LedgerFinds, TornSpoils
  <2>2. CASE ~Checks!Contains(files, Torn) /\ ~Checks!Contains(files, Torn)' /\ Ledger' = Append(Ledger, line)
    <3>1. PICK ledger \in Seq(FileLine), more \in Seq(FileLine) : ledger = Ledger /\ more = Ledger' /\ more = Append(ledger, line)
      BY <1>7, <2>2
    <3>2. Len(ledger) \in Nat /\ more[Len(ledger) + 1] = line
      BY <1>3, <3>1, AppendProperties
    <3>3. ASSUME NEW u \in 1..desk.turns, NEW q \in desk.paths, q \notin spoiled[u]
          PROVE  \/ found'[u][q] = {} /\ Checks!Touches(more, {u}, q) = {}
                 \/ \E i \in Checks!Touches(more, {u}, q) :
                      more[i].blob \in found'[u][q] /\ \A j \in Checks!Touches(more, {u}, q) : i <= j
      <4>1. Finds(ledger, u, q)
        BY <1>2, <3>1, <3>3 DEF DeskInv, LedgerFinds
      <4>2. Touched(ledger, line, more, u, q)
        BY <1>3, <3>1, TouchesMore
      <4>3. CASE found[u][q] # {}
        <5>1. PICK i \in Checks!Touches(ledger, {u}, q) :
                ledger[i].blob \in found[u][q] /\ \A j \in Checks!Touches(ledger, {u}, q) : i <= j
          BY <4>1, <4>3 DEF Finds
        <5>2. \A j \in Checks!Touches(more, {u}, q) : i <= j
          BY <4>2, <5>1 DEF Touched
        <5>3. found'[u][q] = found[u][q] /\ more[i] = ledger[i] /\ i \in Checks!Touches(more, {u}, q)
          BY <1>6, <4>2, <4>3 DEF Touched
        <5> QED
          BY <5>1, <5>2, <5>3
      <4>4. CASE found[u][q] = {}
        <5>1. Checks!Touches(ledger, {u}, q) = {}
          BY <4>1, <4>4 DEF Finds
        <5>2. CASE edit.turn = u /\ edit.path = q
          <6>1. found'[u][q] = {disk[q]} /\ edit.blob = disk[q]
            BY <1>5, <1>6, <4>4, <5>2
          <6>2. Len(ledger) + 1 \in Checks!Touches(more, {u}, q)
            BY <1>3, <4>2, <5>2 DEF Touched
          <6>3. \A j \in Checks!Touches(more, {u}, q) : j = Len(ledger) + 1
            BY <4>2, <5>1 DEF Touched
          <6>4. \A j \in Checks!Touches(more, {u}, q) : Len(ledger) + 1 <= j
            BY <3>2, <6>3
          <6>5. more[Len(ledger) + 1].blob \in found'[u][q]
            BY <1>3, <3>2, <6>1
          <6> QED
            BY <6>2, <6>4, <6>5
        <5>3. CASE ~(edit.turn = u /\ edit.path = q)
          <6>1. found'[u][q] = {}
            BY <1>6, <4>4, <5>3
          <6>2. Checks!Touches(more, {u}, q) = {}
            BY <1>3, <4>2, <5>1, <5>3 DEF Touched
          <6> QED
            BY <6>1, <6>2
        <5> QED
          BY <5>2, <5>3
      <4> QED
        BY <4>3, <4>4
    <3>4. \A u \in 1..desk.turns, q \in desk.paths : q \notin spoiled[u] => Finds(Ledger, u, q)'
      BY <3>1, <3>3 DEF Finds
    <3>5. LedgerFinds'
      BY <1>1, <1>2, <3>4 DEF LedgerFinds
    <3>6. TornSpoils'
      BY <2>2 DEF TornSpoils
    <3> QED
      BY <3>5, <3>6
  <2> QED
    BY <1>7, <2>1, <2>2
<1>12. RewindReadAll'
  BY <1>1, <1>2 DEF RewindReadAll
<1> QED
  BY <1>1, <1>9, <1>10, <1>11, <1>12 DEF DeskInv, Checks!RewindRestores

LEMMA EditKeeps ==
  ASSUME DeskInv, NEW e \in desk.editors, Checks!Edit(e)
  PROVE  DeskInv'
<1> DEFINE edit == editing[e]
<1>1. /\ DeskTyped /\ EditsOfThisTurn /\ RewindReadAll /\ edit.at = "edits"
      /\ editing' = [editing EXCEPT ![e] = Checks!No]
      /\ UNCHANGED <<desk, turns, files, rewinding, spoiled>>
      /\ Checks!Touch(edit.turn, edit.path)
      /\ \/ /\ writes < desk.writes /\ writes' = writes + 1
            /\ disk' = [disk EXCEPT ![edit.path] = writes + 1]
            /\ restored' = {}
         \/ UNCHANGED <<disk, restored, writes>>
  BY DEF Checks!Edit, DeskInv
<1>2. /\ edit \in ToolCall /\ edit # Checks!No
      /\ edit.path \in desk.paths /\ edit.turn \in 1..desk.turns /\ edit.turn = Len(turns)
      /\ rewinding = Checks!No /\ rewinding.at = "none"
  BY <1>1, CallIs
<1>3. edit.path \in spoiled[edit.turn] \/ found[edit.turn][edit.path] # {}
  BY <1>1, <1>2 DEF EditsOfThisTurn
<1> HIDE DEF edit
<1>4. /\ found' \in [1..desk.turns -> [desk.paths -> SUBSET Content]]
      /\ found'[edit.turn][edit.path] # {}
      /\ \A u \in 1..desk.turns, q \in desk.paths :
           /\ found[u][q] # {} => found'[u][q] = found[u][q]
           /\ q \notin spoiled[u] => found'[u][q] = found[u][q]
  <2>1. /\ found' \in [1..desk.turns -> [desk.paths -> SUBSET Content]]
        /\ \A u \in 1..desk.turns, q \in desk.paths :
             found'[u][q] = IF u = edit.turn /\ q = edit.path /\ found[u][q] = {} THEN {disk[edit.path]} ELSE found[u][q]
    BY <1>1, <1>2, TouchIs
  <2> QED
    BY <1>2, <1>3, <2>1
<1>5. /\ Checks!No \in ToolCall /\ desk.writes \in Nat
      /\ editing \in [desk.editors -> ToolCall] /\ disk \in [desk.paths -> Content] /\ writes \in 0..desk.writes
  BY <1>1, DeskIs DEF DeskTyped, ToolCall
<1>6. /\ editing' \in [desk.editors -> ToolCall]
      /\ \A d \in desk.editors : editing'[d] = IF d = e THEN Checks!No ELSE editing[d]
  BY <1>1, <1>5
<1>7. /\ disk' \in [desk.paths -> Content] /\ writes' \in 0..desk.writes
      /\ \A p \in desk.paths : p # edit.path => disk'[p] = disk[p]
  <2>1. ASSUME writes < desk.writes PROVE writes + 1 \in Content /\ writes + 1 \in 0..desk.writes
    BY <1>5, <2>1 DEF Content
  <2> QED
    BY <1>1, <1>5, <2>1
<1>8. DeskTyped'
  BY <1>1, <1>4, <1>6, <1>7 DEF Ledger, DeskTyped, Content, TurnLine, FileLine, ToolCall, Rewinding
<1>9. EditsOfThisTurn'
  <2> SUFFICES ASSUME NEW d \in desk.editors, editing'[d] # Checks!No
               PROVE  /\ rewinding' = Checks!No /\ editing'[d].turn = Len(turns')
                      /\ editing'[d].at \in {"known", "edits"} =>
                           editing'[d].path \in spoiled'[editing'[d].turn] \/ found'[editing'[d].turn][editing'[d].path] # {}
                      /\ editing'[d].at = "records" /\ found'[editing'[d].turn][editing'[d].path] = {} =>
                           editing'[d].blob = disk'[editing'[d].path]
    BY <1>1 DEF EditsOfThisTurn
  <2>1. editing'[d] = editing[d] /\ editing[d] \in ToolCall /\ editing[d] # Checks!No
    BY <1>5, <1>6
  <2>2. editing[d].turn = edit.turn /\ editing[d].turn \in 1..desk.turns /\ editing[d].path \in desk.paths
    BY <1>1, <1>2, <2>1, CallFields DEF EditsOfThisTurn
  <2>3. /\ found'[editing[d].turn][editing[d].path] = {} =>
             editing[d].path # edit.path /\ found[editing[d].turn][editing[d].path] = {}
        /\ found[editing[d].turn][editing[d].path] # {} => found'[editing[d].turn][editing[d].path] # {}
    BY <1>4, <2>2
  <2> QED
    BY <1>1, <1>2, <1>7, <2>1, <2>2, <2>3 DEF EditsOfThisTurn
<1>10. RewindReadAll'
  BY <1>1, <1>2 DEF RewindReadAll, Checks!No
<1>11. LedgerFinds' /\ TornSpoils'
  <2>1. Ledger' = Ledger
    BY <1>1 DEF Ledger
  <2>2. LedgerFinds'
    BY <1>1, <1>2, <1>4, <2>1 DEF DeskInv, LedgerFinds, Finds, Checks!Touches
  <2>3. TornSpoils'
    BY <1>1 DEF DeskInv, TornSpoils
  <2> QED
    BY <2>2, <2>3
<1>12. Checks!RewindRestores'
  BY <1>1 DEF DeskInv, Checks!RewindRestores
<1> QED
  BY <1>8, <1>9, <1>10, <1>11, <1>12 DEF DeskInv

LEMMA StartRewindKeeps ==
  ASSUME DeskInv, NEW t \in 1..desk.turns, Checks!StartRewind(t)
  PROVE  DeskInv'
<1> DEFINE new == [at |-> "restores", turn |-> t, turns |-> turns, files |-> Ledger, failed |-> {}]
<1>1. /\ DeskTyped /\ \A e \in desk.editors : editing[e] = Checks!No
      /\ rewinding = Checks!No /\ rewinding' = new
      /\ UNCHANGED <<desk, disk, turns, files, editing, found, restored, spoiled, writes>>
  BY DeskIs DEF DeskInv, Ledger, Checks!StartRewind, Checks!Idle, Checks!Editors
<1>2. new \in Rewinding
  BY <1>1 DEF Rewinding, DeskTyped
<1>3. new.at = "restores" /\ new.turns = turns /\ new.files = Ledger
  OBVIOUS
<1>4. rewinding.at = "none"
  BY <1>1 DEF Checks!No
<1> HIDE DEF new
<1>5. DeskTyped'
  BY <1>1, <1>2 DEF DeskTyped, Ledger, Content, TurnLine, FileLine, ToolCall, Rewinding
<1>6. EditsOfThisTurn'
  BY <1>1 DEF EditsOfThisTurn
<1>7. RewindReadAll'
  BY <1>1, <1>3 DEF RewindReadAll, Ledger
<1>8. LedgerFinds' /\ TornSpoils'
  BY <1>1, <1>3, <1>4, FoundStays
<1> QED
  BY <1>1, <1>5, <1>6, <1>7, <1>8 DEF DeskInv, Checks!RewindRestores

LEMMA RestoreFilesKeeps ==
  ASSUME DeskInv, Checks!RestoreFiles
  PROVE  DeskInv'
<1> DEFINE touched == {p \in desk.paths : Checks!Touches(rewinding.files, rewinding.turn..desk.turns, p) # {}}
<1>1. /\ DeskTyped /\ EditsOfThisTurn /\ RewindReadAll /\ LedgerFinds /\ rewinding.at = "restores"
      /\ restored' = {} /\ UNCHANGED <<desk, turns, files, editing, found, spoiled, writes>>
  BY DEF DeskInv, Checks!RestoreFiles
<1>2. PICK failed \in SUBSET touched :
        /\ disk' = [p \in desk.paths |->
             IF p \in touched \ failed THEN Checks!PreImage(rewinding.files, rewinding.turn, p) ELSE disk[p]]
        /\ rewinding' = [rewinding EXCEPT !.at = "turns", !.failed = failed]
  <2>1. touched = {p \in Checks!Paths : Checks!Touches(rewinding.files, rewinding.turn..desk.turns, p) # {}}
    BY DEF Checks!Paths
  <2> HIDE DEF touched
  <2> QED
    BY <2>1 DEF Checks!RestoreFiles, Checks!Paths
<1>3. /\ rewinding # Checks!No /\ rewinding \in Rewinding /\ rewinding.turn \in 1..desk.turns
      /\ rewinding.files = Ledger /\ rewinding.turns = turns
  BY <1>1, RewindFields DEF RewindReadAll, Checks!No
<1>4. PICK t \in 1..desk.turns : t = rewinding.turn
  BY <1>3
<1>5. \A p \in desk.paths : p \in touched <=> Checks!Touches(Ledger, t..desk.turns, p) # {}
  BY <1>3, <1>4
<1>6. failed \in SUBSET desk.paths
  BY <1>2
<1>7. \A p \in desk.paths : disk'[p] = IF p \in touched \ failed THEN Checks!PreImage(Ledger, t, p) ELSE disk[p]
  BY <1>2, <1>3, <1>4
<1>8. DOMAIN disk' = desk.paths /\ disk' = [p \in desk.paths |-> disk'[p]]
  BY <1>2
<1> HIDE DEF touched
<1>9. \A u \in 1..desk.turns, q \in desk.paths : q \notin spoiled[u] => Finds(Ledger, u, q)
  BY <1>1 DEF LedgerFinds
<1>10. \A p \in desk.paths :
         /\ p \in touched => Checks!PreImage(Ledger, t, p) \in Content
         /\ Checks!Since(t, p) # {} /\ ~Checks!Lost(t, p) =>
              p \in touched /\ Checks!PreImage(Ledger, t, p) \in Checks!Original(t, p)
  BY <1>1, <1>5, <1>9, PreImageIs DEF DeskTyped
<1>11. disk' \in [desk.paths -> Content]
  <2>1. \A p \in desk.paths : disk'[p] \in Content
    BY <1>1, <1>7, <1>10 DEF DeskTyped
  <2> QED
    BY <1>8, <2>1
<1>12. /\ rewinding' \in Rewinding /\ rewinding'.at = "turns" /\ rewinding'.turn = t /\ rewinding'.failed = failed
       /\ rewinding'.files = Ledger /\ rewinding'.turns = turns /\ rewinding # Checks!No
  BY <1>2, <1>3, <1>4, <1>6 DEF Rewinding
<1>13. DeskTyped'
  BY <1>1, <1>11, <1>12 DEF DeskTyped, Ledger, Content, TurnLine, FileLine, ToolCall, Rewinding
<1>14. EditsOfThisTurn'
  BY <1>1, <1>3 DEF EditsOfThisTurn
<1>15. RewindReadAll'
  <2>1. ASSUME NEW p \in desk.paths \ failed, Checks!Since(t, p) # {}, ~Checks!Lost(t, p)
        PROVE  disk'[p] \in Checks!Original(t, p)
    BY <1>7, <1>10, <2>1
  <2>2. ASSUME NEW p PROVE Checks!Since(rewinding.turn, p)' = Checks!Since(t, p)
    BY <1>1, <1>12 DEF Checks!Since, Checks!Turns
  <2>3. ASSUME NEW p PROVE Checks!Original(rewinding.turn, p)' = Checks!Original(t, p)
    <3> DEFINE Earliest(s) == CHOOSE u \in s : \A v \in s : u <= v
    <3>1. /\ Checks!Original(rewinding.turn, p)' = found'[Earliest(Checks!Since(rewinding.turn, p)')][p]
          /\ Checks!Original(t, p) = found[Earliest(Checks!Since(t, p))][p]
      BY Zenon DEF Checks!Original
    <3> HIDE DEF Earliest
    <3> QED
      BY <1>1, <2>2, <3>1
  <2>4. ASSUME NEW p PROVE Checks!Lost(rewinding.turn, p)' <=> Checks!Lost(t, p)
    BY <1>1, <1>12, <2>2 DEF Checks!Lost, Checks!Turns
  <2>5. \A p \in desk.paths \ failed :
          Checks!Since(rewinding.turn, p)' # {} /\ ~Checks!Lost(rewinding.turn, p)' => disk'[p] \in Checks!Original(rewinding.turn, p)'
    BY <2>1, <2>2, <2>3, <2>4
  <2> QED
    BY <1>1, <1>12, <2>5 DEF RewindReadAll, Ledger
<1>16. LedgerFinds' /\ TornSpoils'
  BY <1>1, <1>12, FoundStays
<1> QED
  BY <1>1, <1>13, <1>14, <1>15, <1>16 DEF DeskInv, Checks!RewindRestores

LEMMA ForgetTurnsKeeps ==
  ASSUME DeskInv, Checks!ForgetTurns
  PROVE  DeskInv'
<1>1. /\ DeskTyped /\ EditsOfThisTurn /\ RewindReadAll /\ LedgerFinds /\ rewinding.at = "turns"
      /\ turns' = Checks!Before(rewinding.turns, rewinding.turn)
      /\ rewinding' = [rewinding EXCEPT !.at = "files"]
      /\ UNCHANGED <<desk, disk, files, editing, spoiled, writes>>
  BY DEF DeskInv, Checks!ForgetTurns
<1>2. /\ rewinding # Checks!No /\ rewinding \in Rewinding /\ rewinding.turn \in 1..desk.turns
      /\ rewinding.files = Ledger /\ rewinding.turns = turns /\ desk.turns \in Nat
  BY <1>1, RewindFields, DeskIs DEF RewindReadAll, Checks!No
<1>3. PICK t \in 1..desk.turns : t = rewinding.turn
  BY <1>2
<1>4. /\ rewinding' \in Rewinding /\ rewinding'.at = "files" /\ rewinding'.turn = t
      /\ rewinding'.files = Ledger /\ rewinding'.failed = rewinding.failed
  BY <1>1, <1>2, <1>3 DEF Rewinding
<1>5. turns' \in Seq(TurnLine) /\ Len(turns') <= desk.turns
  <2>1. turns \in Seq(TurnLine) /\ Len(turns) <= desk.turns /\ turns' = Checks!Before(turns, t)
    BY <1>1, <1>2, <1>3 DEF DeskTyped
  <2>2. turns' \in Seq(TurnLine) /\ Len(turns') <= Len(turns)
    BY <2>1, BeforeKeeps
  <2> QED
    BY <1>2, <2>1, <2>2
<1>6. /\ found \in [1..desk.turns -> [desk.paths -> SUBSET Content]]
      /\ found' \in [1..desk.turns -> [desk.paths -> SUBSET Content]]
      /\ \A u \in 1..desk.turns, p \in desk.paths : found'[u][p] = IF u >= t THEN {} ELSE found[u][p]
  <2>1. found' = [u \in 1..desk.turns |-> IF u >= t THEN [p \in desk.paths |-> {}] ELSE found[u]]
    BY <1>3 DEF Checks!ForgetTurns, Checks!NotYet, Checks!Turns, Checks!Paths
  <2>2. found \in [1..desk.turns -> [desk.paths -> SUBSET Content]]
    BY <1>1 DEF DeskTyped
  <2> QED
    BY <2>1, <2>2
<1>7. Ledger' = Ledger
  BY <1>1 DEF Ledger
<1>8. DeskTyped'
  BY <1>1, <1>4, <1>5, <1>6, <1>7 DEF DeskTyped, Content, TurnLine, FileLine, ToolCall, Rewinding
<1>9. EditsOfThisTurn'
  BY <1>1, <1>2 DEF EditsOfThisTurn
<1>10. RewindReadAll'
  BY <1>1, <1>4, <1>7 DEF RewindReadAll
<1>11. LedgerFinds' /\ TornSpoils'
  <2>1. ASSUME NEW u \in 1..desk.turns, NEW p \in desk.paths, ~(u >= t), p \notin spoiled[u]
        PROVE  Finds(Ledger, u, p)'
    <3>1. Finds(Ledger, u, p)
      BY <1>1, <2>1 DEF LedgerFinds
    <3>2. found'[u][p] = found[u][p]
      BY <1>6, <2>1
    <3> QED
      BY <1>7, <3>1, <3>2 DEF Finds
  <2>2. LedgerFinds'
    BY <1>1, <1>4, <1>6, <2>1 DEF LedgerFinds
  <2>3. TornSpoils'
    BY <1>1 DEF DeskInv, TornSpoils
  <2> QED
    BY <2>2, <2>3
<1>12. Checks!RewindRestores'
  <2>1. restored' = {[path |-> p, to |-> Checks!Original(rewinding.turn, p)] :
                       p \in {p \in desk.paths \ rewinding.failed :
                                Checks!Since(rewinding.turn, p) # {} /\ ~Checks!Lost(rewinding.turn, p)}}
    BY DEF Checks!ForgetTurns, Checks!Paths
  <2>2. \A p \in desk.paths \ rewinding.failed :
          Checks!Since(rewinding.turn, p) # {} /\ ~Checks!Lost(rewinding.turn, p) =>
            disk[p] \in Checks!Original(rewinding.turn, p)
    BY <1>1 DEF RewindReadAll
  <2>3. \A r \in restored' : disk[r.path] \in r.to
    BY <2>1, <2>2
  <2> QED
    BY <1>1, <2>3 DEF Checks!RewindRestores
<1> QED
  BY <1>8, <1>9, <1>10, <1>11, <1>12 DEF DeskInv

LEMMA ForgetFilesKeeps ==
  ASSUME DeskInv, Checks!ForgetFiles
  PROVE  DeskInv'
<1>1. /\ DeskTyped /\ EditsOfThisTurn /\ RewindReadAll /\ LedgerFinds /\ rewinding.at = "files"
      /\ files' = Checks!Before(rewinding.files, rewinding.turn) /\ rewinding' = Checks!No
      /\ spoiled' = [t \in 1..desk.turns |-> IF t >= rewinding.turn THEN {} ELSE spoiled[t]]
      /\ UNCHANGED <<desk, disk, turns, editing, found, restored, writes>>
  BY DEF DeskInv, Checks!ForgetFiles, Checks!Turns
<1>2. /\ rewinding # Checks!No /\ rewinding.turn \in 1..desk.turns /\ Ledger \in Seq(FileLine)
      /\ rewinding.files = Ledger /\ desk.turns \in Nat
  BY <1>1, RewindFields, DeskIs DEF RewindReadAll, DeskTyped, Checks!No
<1>3. PICK rest \in Seq(FileLine) : rest = files' /\ rest = Checks!Before(Ledger, rewinding.turn)
  BY <1>1, <1>2, BeforeKeeps
<1>4. ~Checks!Contains(rest, Torn) /\ Checks!Lines(rest) = rest
  BY <1>1, NoneTorn DEF DeskTyped
<1>5. ~Checks!Contains(files', Torn) /\ Ledger' = rest
  BY <1>3, <1>4 DEF Ledger
<1>6. rewinding'.at = "none"
  BY <1>1 DEF Checks!No
<1>7. DeskTyped'
  BY <1>1, <1>5 DEF DeskTyped, Content, TurnLine, FileLine, ToolCall, Rewinding
<1>8. EditsOfThisTurn'
  BY <1>1, <1>2 DEF EditsOfThisTurn
<1>9. RewindReadAll'
  BY <1>1, <1>6 DEF RewindReadAll
<1>10. LedgerFinds' /\ TornSpoils'
  <2>1. ASSUME NEW u \in 1..desk.turns, NEW p \in desk.paths, p \notin spoiled'[u]
        PROVE  Finds(rest, u, p)
    <3>1. PICK t \in 1..desk.turns : t = rewinding.turn
      BY <1>2
    <3>2. CASE u >= t
      <4>1. found[u][p] = {}
        BY <1>1, <3>1, <3>2 DEF LedgerFinds
      <4>2. Checks!Touches(rest, {u}, p) = {}
        BY <1>1, <1>2, <1>3, <3>1, <3>2, FindsBefore
      <4> QED
        BY <4>1, <4>2 DEF Finds
    <3>3. CASE u < t
      <4>1. p \notin spoiled[u]
        BY <1>1, <2>1, <3>1, <3>3
      <4>2. Finds(Ledger, u, p)
        BY <1>1, <1>2, <3>1, <3>3, <4>1 DEF LedgerFinds
      <4> QED
        BY <1>1, <1>2, <1>3, <3>1, <3>3, <4>2, FindsBefore
    <3> QED
      BY <1>2, <3>2, <3>3
  <2>2. \A u \in 1..desk.turns, p \in desk.paths : p \notin spoiled'[u] => Finds(Ledger, u, p)'
    BY <1>1, <1>5, <2>1 DEF Finds
  <2>3. LedgerFinds'
    BY <1>1, <1>6, <2>2 DEF LedgerFinds
  <2>4. TornSpoils'
    BY <1>5 DEF TornSpoils
  <2> QED
    BY <2>3, <2>4
<1> QED
  BY <1>1, <1>7, <1>8, <1>9, <1>10 DEF DeskInv, Checks!RewindRestores

LEMMA CrashKeeps ==
  ASSUME DeskInv, Checks!Crash
  PROVE  DeskInv'
<1>1. /\ DeskTyped /\ EditsOfThisTurn /\ RewindReadAll /\ LedgerFinds /\ TornSpoils
      /\ rewinding' = Checks!No /\ editing' = [e \in desk.editors |-> Checks!No]
      /\ UNCHANGED <<desk, disk, turns, found, restored, writes>>
  BY DEF DeskInv, Checks!Crash, Checks!Editors
<1>2. \/ files' = Checks!Added(files, Torn) /\ spoiled' = [t \in 1..desk.turns |-> desk.paths]
      \/ /\ files' = files
         /\ spoiled' = IF rewinding.at = "files" THEN Checks!Left ELSE spoiled
  BY DEF Checks!Crash, Checks!Turns, Checks!Paths, Ledger
<1>3. rewinding'.at = "none"
  BY <1>1 DEF Checks!No
<1>4. editing' \in [desk.editors -> ToolCall]
  BY <1>1 DEF ToolCall
<1>5. EditsOfThisTurn'
  BY <1>1 DEF EditsOfThisTurn
<1>6. RewindReadAll'
  BY <1>1, <1>3 DEF RewindReadAll
<1>7. Ledger' \in Seq(FileLine) /\ LedgerFinds' /\ TornSpoils'
  <2>1. CASE files' = Checks!Added(files, Torn) /\ spoiled' = [t \in 1..desk.turns |-> desk.paths]
    <3>1. \A u \in 1..desk.turns, p \in desk.paths : p \in spoiled'[u]
      BY <2>1
    <3>2. Checks!Contains(files, Torn) => files' = files
      BY <2>1 DEF Checks!Added
    <3>3. ~Checks!Contains(files, Torn) => Checks!Contains(files', Torn)
      <4> SUFFICES ASSUME ~Checks!Contains(files, Torn) PROVE Checks!Contains(files', Torn)
        OBVIOUS
      <4>1. files \in Seq(FileLine) /\ files' = Append(files, Torn)
        BY <1>1, <2>1 DEF DeskTyped, Ledger, Checks!Lines, Checks!Added
      <4>2. files \in Seq(FileLine \cup {Torn})
        BY <4>1
      <4>3. Len(files') = Len(files) + 1 /\ files'[Len(files) + 1] = Torn /\ Len(files) \in Nat
        BY <4>1, <4>2, AppendProperties
      <4> QED
        BY <4>3 DEF Checks!Contains
    <3>4. Checks!Contains(files', Torn)
      BY <3>2, <3>3
    <3>5. Ledger' = <<>>
      BY <3>4 DEF Ledger, Checks!Lines
    <3> QED
      BY <1>1, <1>3, <3>1, <3>5 DEF LedgerFinds, TornSpoils
  <2>2. CASE files' = files /\ spoiled' = IF rewinding.at = "files" THEN Checks!Left ELSE spoiled
    <3>1. Ledger' = Ledger
      BY <2>2 DEF Ledger
    <3>2. ASSUME NEW u \in 1..desk.turns, NEW p \in desk.paths, p \notin spoiled'[u]
          PROVE  Finds(Ledger, u, p)
      <4>1. p \notin spoiled[u]
        BY <2>2, <3>2 DEF Checks!Left, Checks!Turns
      <4>2. CASE rewinding.at = "files" /\ u >= rewinding.turn
        <5>1. Checks!Touches(Ledger, {u}, p) = {}
          BY <2>2, <3>2, <4>2 DEF Checks!Left, Checks!Turns, Checks!Paths, Ledger
        <5>2. found[u][p] = {}
          BY <1>1, <4>2 DEF LedgerFinds
        <5> QED
          BY <5>1, <5>2 DEF Finds
      <4>3. CASE ~(rewinding.at = "files" /\ u >= rewinding.turn)
        BY <1>1, <4>1, <4>3 DEF LedgerFinds
      <4> QED
        BY <4>2, <4>3
    <3>3. \A u \in 1..desk.turns, p \in desk.paths : p \notin spoiled'[u] => Finds(Ledger, u, p)'
      BY <1>1, <3>1, <3>2 DEF Finds
    <3>4. LedgerFinds'
      BY <1>1, <1>3, <3>3 DEF LedgerFinds
    <3>5. TornSpoils'
      <4>1. ASSUME NEW u \in 1..desk.turns, NEW p \in desk.paths, p \in spoiled[u] PROVE p \in spoiled'[u]
        BY <2>2, <4>1 DEF Checks!Left, Checks!Turns
      <4> QED
        BY <1>1, <2>2, <4>1 DEF TornSpoils
    <3> QED
      BY <1>1, <3>1, <3>4, <3>5 DEF DeskTyped, FileLine, Content
  <2> QED
    BY <1>2, <2>1, <2>2
<1>8. DeskTyped'
  BY <1>1, <1>4, <1>7 DEF DeskTyped, Content, TurnLine, FileLine, ToolCall, Rewinding
<1> QED
  BY <1>1, <1>5, <1>6, <1>7, <1>8 DEF DeskInv, Checks!RewindRestores

LEMMA DeskKeeps ==
  DeskInv /\ [Checks!Next]_OfDesk => DeskInv'
<1> SUFFICES ASSUME DeskInv, [Checks!Next]_OfDesk PROVE DeskInv'
  OBVIOUS
<1>1. CASE UNCHANGED OfDesk
  <2>1. /\ DeskTyped /\ EditsOfThisTurn /\ RewindReadAll
        /\ UNCHANGED <<desk, disk, turns, files, editing, rewinding, found, restored, spoiled, writes>>
    BY <1>1 DEF DeskInv, OfDesk
  <2>2. DeskTyped' /\ EditsOfThisTurn'
    BY <2>1 DEF DeskTyped, Ledger, Content, TurnLine, FileLine, ToolCall, Rewinding, EditsOfThisTurn
  <2>3. RewindReadAll'
    BY <2>1 DEF RewindReadAll, Ledger, Checks!Lost, Checks!Since, Checks!Original, Checks!Turns
  <2>4. LedgerFinds' /\ TornSpoils'
    BY <2>1, FoundStays
  <2> QED
    BY <2>1, <2>2, <2>3, <2>4 DEF DeskInv, Checks!RewindRestores
<1>2. CASE Checks!Next
  <2>1. \/ Checks!BeginTurn \/ Checks!RestoreFiles \/ Checks!ForgetTurns \/ Checks!ForgetFiles \/ Checks!Crash
        \/ \E e \in desk.editors, p \in desk.paths : Checks!Snapshot(e, p)
        \/ \E e \in desk.editors : Checks!ReadLedger(e) \/ Checks!TakePreImage(e) \/ Checks!RecordTouch(e) \/ Checks!Edit(e)
        \/ \E t \in 1..desk.turns : Checks!StartRewind(t)
    BY <1>2 DEF Checks!Next, Checks!Editors, Checks!Paths, Checks!Turns
  <2> QED
    BY <2>1, BeginTurnKeeps, RestoreFilesKeeps, ForgetTurnsKeeps, ForgetFilesKeeps, CrashKeeps, SnapshotKeeps,
       ReadLedgerKeeps, TakePreImageKeeps, RecordTouchKeeps, EditKeeps, StartRewindKeeps
<1> QED
  BY <1>1, <1>2

-----------------------------------------------------------------------------
(* The workflow's flows.                                                   *)

LEMMA FlowCardinality == \A S : Work!Cardinality(S) = Cardinality(S)
BY DEF Work!Cardinality, Cardinality

\* A sequence that lists a set, each element once.
Lists(s, S) ==
  /\ s \in Seq(S)
  /\ \A i, j \in 1..Len(s) : s[i] = s[j] => i = j
  /\ \A x \in S : \E i \in 1..Len(s) : s[i] = x

LEMMA ListsNothing == Lists(<<>>, {}) /\ \A S : Lists(<<>>, S) => S = {}
BY DEF Lists

LEMMA ListsMore ==
  ASSUME NEW S, NEW s, Lists(s, S), NEW x, x \notin S
  PROVE  Lists(Append(s, x), S \cup {x})
<1>1. s \in Seq(S \cup {x}) /\ Len(s) \in Nat /\ \A i \in 1..Len(s) : s[i] \in S
  BY DEF Lists
<1>2. /\ Append(s, x) \in Seq(S \cup {x}) /\ Len(Append(s, x)) = Len(s) + 1
      /\ \A i \in 1..Len(s) : Append(s, x)[i] = s[i]
      /\ Append(s, x)[Len(s) + 1] = x
  BY <1>1, AppendProperties
<1>3. ASSUME NEW i \in 1..(Len(s) + 1), NEW j \in 1..(Len(s) + 1), Append(s, x)[i] = Append(s, x)[j]
      PROVE  i = j
  <2>1. i \in 1..Len(s) \/ i = Len(s) + 1
    BY <1>1
  <2>2. j \in 1..Len(s) \/ j = Len(s) + 1
    BY <1>1
  <2> QED
    BY <1>1, <1>2, <1>3, <2>1, <2>2 DEF Lists
<1>4. ASSUME NEW y \in S \cup {x}
      PROVE  \E i \in 1..(Len(s) + 1) : Append(s, x)[i] = y
  <2>1. CASE y = x
    BY <1>1, <1>2, <2>1
  <2>2. CASE y \in S
    <3>1. PICK i \in 1..Len(s) : s[i] = y
      BY <2>2 DEF Lists
    <3>2. i \in 1..(Len(s) + 1)
      BY <1>1
    <3> QED
      BY <1>2, <3>1, <3>2
  <2> QED
    BY <2>1, <2>2
<1> QED
  BY <1>2, <1>3, <1>4 DEF Lists

LEMMA ListsRest ==
  ASSUME NEW S, NEW s, Lists(s, S), s # <<>>
  PROVE  Head(s) \in S /\ Lists(Tail(s), S \ {Head(s)})
<1>1. /\ s \in Seq(S) /\ Len(s) \in Nat /\ Len(s) > 0 /\ Head(s) = s[1]
      /\ \A i \in 1..Len(s) : s[i] \in S
  BY EmptySeq DEF Lists
<1>2. /\ Head(s) \in S /\ Tail(s) \in Seq(S) /\ Len(Tail(s)) = Len(s) - 1
      /\ \A i \in 1..(Len(s) - 1) : Tail(s)[i] = s[i + 1]
  BY <1>1, HeadTailProperties DEF Lists
<1>3. \A i \in 1..(Len(s) - 1) : i + 1 \in 1..Len(s) /\ i + 1 # 1
  BY <1>1
<1>4. \A i \in 1..(Len(s) - 1) : Tail(s)[i] \in S \ {Head(s)}
  <2> SUFFICES ASSUME NEW i \in 1..(Len(s) - 1) PROVE s[i + 1] \in S /\ s[i + 1] # s[1]
    BY <1>1, <1>2
  <2> QED
    BY <1>1, <1>3 DEF Lists
<1>5. Tail(s) \in Seq(S \ {Head(s)})
  <2>1. Tail(s) \in [1..Len(Tail(s)) -> S] /\ Len(Tail(s)) \in Nat
    BY <1>2, LenProperties
  <2>2. Tail(s) \in [1..Len(Tail(s)) -> S \ {Head(s)}]
    BY <1>2, <1>4, <2>1
  <2> QED
    BY <2>1, <2>2, SeqDef
<1>6. \A i, j \in 1..(Len(s) - 1) : Tail(s)[i] = Tail(s)[j] => i = j
  <2> SUFFICES ASSUME NEW i \in 1..(Len(s) - 1), NEW j \in 1..(Len(s) - 1), s[i + 1] = s[j + 1] PROVE i = j
    BY <1>2
  <2>1. i + 1 = j + 1
    BY <1>3 DEF Lists
  <2> QED
    BY <2>1
<1>7. ASSUME NEW x \in S \ {Head(s)}
      PROVE  \E i \in 1..(Len(s) - 1) : Tail(s)[i] = x
  <2>1. PICK i \in 1..Len(s) : s[i] = x
    BY DEF Lists
  <2>2. i # 1
    BY <1>1, <2>1
  <2>3. i - 1 \in 1..(Len(s) - 1) /\ (i - 1) + 1 = i
    BY <1>1, <2>2
  <2> QED
    BY <1>2, <2>1, <2>3
<1> QED
  BY <1>2, <1>5, <1>6, <1>7 DEF Lists

LEMMA ListsUpTo ==
  ASSUME NEW n \in Nat
  PROVE  Lists([i \in 1..n |-> i], 1..n)
<1>1. [i \in 1..n |-> i] \in [1..n -> 1..n]
  OBVIOUS
<1>2. [i \in 1..n |-> i] \in Seq(1..n) /\ Len([i \in 1..n |-> i]) = n
  BY <1>1
<1> QED
  BY <1>2 DEF Lists

\* The sequences that the community's operators make of a set list it.
LEMMA ListsAny ==
  ASSUME NEW S, IsFiniteSet(S), NEW s \in Work!SetToSeqs(S)
  PROVE  Lists(s, S)
<1> DEFINE D == 1..Cardinality(S)
<1>1. s \in [D -> S] /\ \A i, j \in D : i # j => s[i] # s[j]
  BY FlowCardinality DEF Work!SetToSeqs
<1>2. Cardinality(S) \in Nat
  BY FS_CardinalityType
<1>3. Cardinality(D) = Cardinality(S)
  BY <1>2, FS_Interval
<1>4. s \in Injection(D, S)
  BY <1>1 DEF Injection, IsInjective
<1>5. s \in Surjection(D, S)
  BY <1>3, <1>4, FS_Injection
<1>6. \A x \in S : \E i \in D : s[i] = x
  BY <1>5 DEF Surjection
<1>7. s \in Seq(S) /\ Len(s) = Cardinality(S)
  BY <1>1, <1>2
<1> QED
  BY <1>1, <1>6, <1>7 DEF Lists

LEMMA ListsOne ==
  /\ Work!SetToSeq({}) = <<>>
  /\ \A x : Work!SetToSeq({x}) = <<x>>
<1>1. Work!SetToSeq({}) = <<>>
  <2>1. Work!Cardinality({}) = 0
    BY FlowCardinality, FS_EmptySet
  <2>2. <<>> \in [1..0 -> {}] /\ Work!IsInjective(<<>>)
    BY DEF Work!IsInjective
  <2>3. \A f \in [1..0 -> {}] : f = <<>>
    OBVIOUS
  <2> QED
    BY <2>1, <2>2, <2>3 DEF Work!SetToSeq
<1>2. ASSUME NEW x PROVE Work!SetToSeq({x}) = <<x>>
  <2>1. Work!Cardinality({x}) = 1
    BY FlowCardinality, FS_Singleton
  <2>2. <<x>> \in [1..1 -> {x}] /\ Work!IsInjective(<<x>>)
    BY DEF Work!IsInjective
  <2>3. \A f \in [1..1 -> {x}] : f = <<x>>
    OBVIOUS
  <2> QED
    BY <2>1, <2>2, <2>3 DEF Work!SetToSeq
<1> QED
  BY <1>1, <1>2

Continuing == {"calls", "woken", "returned", "threw"}
Holding == {"runs", "returned", "threw"}
Called == {"waits", "woken", "runs", "returned", "threw"}

\* An item of a flow of so many stages.
Item(stages) == [stage : 1..stages, id : Nat, at : Called \cup {"calls", "done", "dropped"}]

FlowTyped ==
  /\ flow \in Flows
  /\ item \in [1..flow.items -> Item(flow.stages)]
  /\ active \in Nat /\ spawned \in Nat /\ spent \in Nat
  /\ cache \in [Work!Numbers -> Seq(Nat)]

\* Where an item is, some queue or the semaphore says too; a slot that is free is a woken waiter's.
QueuesAgree ==
  /\ Lists(micro, Work!At(Continuing)) /\ Lists(waiters, Work!At({"waits"}))
  /\ active = Cardinality(Work!At(Holding))
  /\ waiters # <<>> => active + Cardinality(Work!At({"woken"})) >= flow.limit

\* Of one stage, the items call in their order: the calls numbered up to k are of the items up to k.
CallsInOrder(k) ==
  /\ Work!At({"calls"}) = k..flow.items
  /\ \A j \in 1..Len(micro) : j <= flow.items - k + 1 => micro[j] = k + j - 1
  /\ flow.items - k + 1 <= Len(micro)
  /\ Work!Refused \/ spawned = k - 1

NumbersKept ==
  /\ \E k \in 1..(flow.items + 1) : CallsInOrder(k)
  /\ \A i \in 1..flow.items :
       /\ item[i].at \in Called => item[i].id = i
       /\ item[i].at \in {"waits", "woken"} => cache[i] = <<>>
       /\ cache[i] \in {<<>>, <<i, 1>>}
  /\ again = {}

FlowInv == FlowTyped /\ QueuesAgree /\ (flow.stages = 1 => NumbersKept)

LEMMA FlowIs ==
  ASSUME FlowTyped
  PROVE  /\ flow.items \in Nat /\ flow.stages \in Nat \ {0} /\ flow.limit \in Nat \ {0}
         /\ flow.maxAgents \in Nat /\ flow.budget \in Nat
         /\ Work!Items = 1..flow.items /\ IsFiniteSet(1..flow.items)
         /\ \A P : Work!At(P) \in SUBSET (1..flow.items) /\ IsFiniteSet(Work!At(P)) /\ Cardinality(Work!At(P)) \in Nat
         /\ \A i \in 1..flow.items : item[i] \in Item(flow.stages)
<1>1. flow \in Flows
  BY DEF FlowTyped
<1>2. flow.items \in Nat
  BY <1>1, FlowsAssumption
<1>3. IsFiniteSet(1..flow.items)
  BY <1>2, FS_Interval
<1>4. \A P : Work!At(P) \in SUBSET (1..flow.items)
  BY DEF Work!At, Work!Items
<1>5. \A P : IsFiniteSet(Work!At(P)) /\ Cardinality(Work!At(P)) \in Nat
  BY <1>3, <1>4, FS_Subset, FS_CardinalityType
<1> QED
  BY <1>1, <1>2, <1>3, <1>4, <1>5, FlowsAssumption DEF FlowTyped, Work!Items

LEMMA AtChanges ==
  ASSUME FlowTyped, UNCHANGED flow, NEW D \in SUBSET (1..flow.items),
         \A j \in (1..flow.items) \ D : item'[j].at = item[j].at, NEW CONSTANT P
  PROVE  Work!At(P)' = (Work!At(P) \ D) \cup {j \in D : item'[j].at \in P}
<1>1. Work!At(P)' = {j \in 1..flow.items : item'[j].at \in P}
  BY DEF Work!At, Work!Items
<1>2. Work!At(P) = {j \in 1..flow.items : item[j].at \in P}
  BY DEF Work!At, Work!Items
<1>3. \A j : j \in Work!At(P)' <=> j \in (Work!At(P) \ D) \cup {k \in D : item'[k].at \in P}
  <2> SUFFICES ASSUME NEW j
               PROVE  j \in Work!At(P)' <=> j \in (Work!At(P) \ D) \cup {k \in D : item'[k].at \in P}
    OBVIOUS
  <2>1. j \in D => j \in 1..flow.items
    OBVIOUS
  <2> QED
    BY <1>1, <1>2, <2>1
<1> QED
  BY <1>3, Zenon

\* One item changes.
LEMMA ItemChanges ==
  ASSUME FlowTyped, UNCHANGED flow, NEW i \in 1..flow.items, NEW new \in Item(flow.stages),
         item' = [item EXCEPT ![i] = new]
  PROVE  /\ item' \in [1..flow.items -> Item(flow.stages)]
         /\ item'[i] = new /\ \A j \in (1..flow.items) \ {i} : item'[j] = item[j]
         /\ \A P : Work!At(P)' = IF new.at \in P THEN Work!At(P) \cup {i} ELSE Work!At(P) \ {i}
<1>1. /\ item' \in [1..flow.items -> Item(flow.stages)]
      /\ item'[i] = new /\ \A j \in (1..flow.items) \ {i} : item'[j] = item[j]
  BY DEF FlowTyped
<1>2. ASSUME NEW CONSTANT P
      PROVE  Work!At(P)' = IF new.at \in P THEN Work!At(P) \cup {i} ELSE Work!At(P) \ {i}
  BY <1>1 DEF Work!At, Work!Items
<1> QED
  BY <1>1, <1>2

LEMMA FlowAtFirst == Work!Init => FlowInv
<1> SUFFICES ASSUME Work!Init PROVE FlowInv
  OBVIOUS
<1>1. flow.items \in Nat /\ flow.stages \in Nat \ {0} /\ flow.limit \in Nat \ {0}
  BY FlowsAssumption DEF Work!Init
<1>2. item = [i \in 1..flow.items |-> [stage |-> 1, id |-> 0, at |-> "calls"]]
  BY DEF Work!Init, Work!Fresh
<1>3. item \in [1..flow.items -> Item(flow.stages)]
  BY <1>1, <1>2 DEF Item
<1>4. FlowTyped
  BY <1>3 DEF Work!Init, FlowTyped
<1>5. \A P : Work!At(P) = IF "calls" \in P THEN 1..flow.items ELSE {}
  BY <1>2 DEF Work!At, Work!Items
<1>6. micro = [i \in 1..flow.items |-> i] /\ waiters = <<>> /\ active = 0 /\ spawned = 0 /\ again = {}
  BY DEF Work!Init
<1>7. QueuesAgree
  BY <1>1, <1>5, <1>6, ListsUpTo, ListsNothing, FS_EmptySet DEF QueuesAgree, Continuing, Holding
<1>8. ASSUME flow.stages = 1 PROVE NumbersKept
  <2>1. CallsInOrder(1)
    <3>1. Len(micro) = flow.items /\ \A j \in 1..flow.items : micro[j] = j
      BY <1>1, <1>6
    <3> QED
      BY <1>1, <1>5, <1>6, <3>1 DEF CallsInOrder
  <2>2. \A i \in 1..flow.items : i \in Work!Numbers
    BY <1>1, <1>8 DEF Work!Numbers
  <2>3. \A i \in 1..flow.items : cache[i] = <<>>
    BY <2>2 DEF Work!Init
  <2>4. \A i \in 1..flow.items : item[i].at \notin Called
    BY <1>2 DEF Called
  <2>5. 1 \in 1..(flow.items + 1)
    BY <1>1
  <2> QED
    BY <1>6, <2>1, <2>3, <2>4, <2>5 DEF NumbersKept, Called
<1> QED
  BY <1>4, <1>7, <1>8 DEF FlowInv

LEMMA IdleThen == FlowInv => Work!NoIdleSlot
<1> SUFFICES ASSUME FlowInv PROVE Work!NoIdleSlot
  OBVIOUS
<1>1. FlowTyped /\ QueuesAgree
  BY DEF FlowInv
<1>2. ASSUME micro = <<>>, Work!At({"runs"}) = {}
      PROVE  Work!At({"done", "dropped"}) = Work!Items
  <2>1. Work!At(Continuing) = {}
    BY <1>1, <1>2, ListsNothing DEF QueuesAgree
  <2>2. Work!At(Holding) = {} /\ Work!At({"woken"}) = {}
    BY <1>2, <2>1 DEF Work!At, Holding, Continuing
  <2>3. waiters = <<>>
    BY <1>1, <2>2, FlowIs, FS_EmptySet DEF QueuesAgree
  <2>4. Work!At({"waits"}) = {}
    BY <1>1, <2>3, ListsNothing DEF QueuesAgree
  <2>5. \A i \in 1..flow.items : item[i].at \in Called \cup {"calls", "done", "dropped"}
    BY <1>1, FlowIs DEF Item
  <2>6. \A i \in 1..flow.items : item[i].at \in {"done", "dropped"}
    BY <2>1, <2>2, <2>4, <2>5, <1>1, FlowIs DEF Called, Holding, Continuing, Work!At
  <2> QED
    BY <2>6 DEF Work!At, Work!Items
<1> QED
  BY <1>1, <1>2, FlowCardinality DEF Work!NoIdleSlot, QueuesAgree, Holding

LEMMA PlaceOf ==
  ASSUME FlowTyped, NEW i \in 1..flow.items
  PROVE  \A P : i \in Work!At(P) <=> item[i].at \in P
BY DEF Work!At, Work!Items

\* What is at the head of the queue is taken from it.
LEMMA HeadGoes ==
  ASSUME FlowInv, NEW i \in 1..flow.items, micro # <<>>, Head(micro) = i
  PROVE  Lists(Tail(micro), Work!At(Continuing) \ {i}) /\ Tail(micro) \in Seq(1..flow.items)
<1>1. Lists(micro, Work!At(Continuing))
  BY DEF FlowInv, QueuesAgree
<1>2. Lists(Tail(micro), Work!At(Continuing) \ {i})
  BY <1>1, ListsRest
<1>3. Work!At(Continuing) \ {i} \in SUBSET (1..flow.items)
  BY FlowIs DEF FlowInv
<1>4. Tail(micro) \in Seq(1..flow.items)
  BY <1>2, <1>3, SeqDef DEF Lists
<1> QED
  BY <1>2, <1>4

LEMMA FirstCalls ==
  ASSUME FlowInv, flow.stages = 1, NEW i \in 1..flow.items, Work!Continues(i, "calls")
  PROVE  CallsInOrder(i) /\ (~Work!Refused => spawned + 1 = i)
<1>1. PICK k \in 1..(flow.items + 1) : CallsInOrder(k)
  BY DEF FlowInv, NumbersKept
<1>2. flow.items \in Nat /\ micro # <<>> /\ Head(micro) = i /\ item[i].at = "calls" /\ spawned \in Nat
  BY FlowIs DEF FlowInv, FlowTyped, Work!Continues
<1>3. i \in Work!At({"calls"})
  BY <1>2, PlaceOf DEF FlowInv
<1>4. i \in k..flow.items
  BY <1>1, <1>3 DEF CallsInOrder
<1>5. Len(micro) \in Nat /\ Head(micro) = micro[1]
  BY <1>2 DEF FlowInv, QueuesAgree, Lists
<1>6. 1 <= flow.items - k + 1 /\ 1 \in 1..Len(micro)
  BY <1>1, <1>2, <1>4, <1>5 DEF CallsInOrder
<1>7. micro[1] = k + 1 - 1
  BY <1>1, <1>6 DEF CallsInOrder
<1>8. i = k
  BY <1>2, <1>5, <1>7
<1>9. ~Work!Refused => spawned = i - 1
  BY <1>1, <1>8 DEF CallsInOrder
<1> QED
  BY <1>1, <1>2, <1>8, <1>9

\* A call that is over is followed by the next.
LEMMA NextCalls ==
  ASSUME FlowInv, flow.stages = 1, NEW i \in 1..flow.items, Work!Continues(i, "calls"),
         UNCHANGED flow, micro' = Tail(micro), Work!At({"calls"})' = Work!At({"calls"}) \ {i},
         Work!Refused' \/ (~Work!Refused /\ spawned' = spawned + 1)
  PROVE  \E k \in 1..(flow'.items + 1) : CallsInOrder(k)'
<1>1. CallsInOrder(i) /\ (~Work!Refused => spawned + 1 = i)
  BY FirstCalls
<1>2. flow.items \in Nat /\ Len(micro) \in Nat /\ micro # <<>> /\ micro \in Seq(1..flow.items)
  <2>1. Work!At(Continuing) \in SUBSET (1..flow.items) /\ flow.items \in Nat
    BY FlowIs DEF FlowInv
  <2>2. micro \in Seq(Work!At(Continuing)) /\ micro # <<>>
    BY DEF FlowInv, QueuesAgree, Lists, Work!Continues
  <2> QED
    BY <2>1, <2>2, SeqDef
<1>3. Len(micro') = Len(micro) - 1 /\ \A j \in 1..(Len(micro) - 1) : micro'[j] = micro[j + 1]
  BY <1>2, HeadTailProperties
<1>4. Work!At({"calls"})' = (i + 1)..flow'.items
  <2>1. Work!At({"calls"})' = (i..flow.items) \ {i}
    BY <1>1 DEF CallsInOrder
  <2>2. (i..flow.items) \ {i} = (i + 1)..flow.items
    BY <1>2
  <2> QED
    BY <2>1, <2>2
<1>5. ASSUME NEW j \in 1..Len(micro'), j <= flow.items - (i + 1) + 1
      PROVE  micro'[j] = (i + 1) + j - 1
  <2>1. j + 1 \in 1..Len(micro) /\ j + 1 <= flow.items - i + 1
    BY <1>2, <1>3, <1>5
  <2>2. micro[j + 1] = i + (j + 1) - 1
    BY <1>1, <2>1 DEF CallsInOrder
  <2> QED
    BY <1>3, <2>1, <2>2
<1>6. flow.items - (i + 1) + 1 <= Len(micro')
  BY <1>1, <1>2, <1>3 DEF CallsInOrder
<1>7. Work!Refused' \/ spawned' = (i + 1) - 1
  BY <1>1
<1>8. CallsInOrder(i + 1)'
  BY <1>4, <1>5, <1>6, <1>7 DEF CallsInOrder
<1>9. i + 1 \in 1..(flow'.items + 1)
  BY <1>2
<1> QED
  BY <1>8, <1>9

\* When something else continues, everything was called.
LEMMA AllCalled ==
  ASSUME FlowInv, flow.stages = 1, micro = <<>> \/ item[Head(micro)].at # "calls"
  PROVE  Work!At({"calls"}) = {} /\ (Work!Refused \/ spawned = flow.items)
<1>1. PICK k \in 1..(flow.items + 1) : CallsInOrder(k)
  BY DEF FlowInv, NumbersKept
<1>2. flow.items \in Nat /\ Len(micro) \in Nat /\ (micro = <<>> => Len(micro) = 0)
  BY FlowIs DEF FlowInv, QueuesAgree, Lists
<1>3. k = flow.items + 1
  <2> SUFFICES ASSUME k <= flow.items PROVE FALSE
    BY <1>2
  <2>1. micro # <<>> /\ 1 \in 1..Len(micro) /\ 1 <= flow.items - k + 1
    BY <1>1, <1>2 DEF CallsInOrder
  <2>2. micro[1] = k + 1 - 1 /\ Head(micro) = micro[1]
    BY <1>1, <2>1 DEF CallsInOrder
  <2>3. k \in Work!At({"calls"})
    BY <1>1, <1>2 DEF CallsInOrder
  <2> QED
    BY <1>2, <2>1, <2>2, <2>3 DEF Work!At
<1> QED
  BY <1>1, <1>2, <1>3 DEF CallsInOrder

LEMMA StillCalled ==
  ASSUME FlowInv, UNCHANGED flow, Work!At({"calls"})' = {}, Len(micro') \in Nat,
         Work!Refused' \/ spawned' = flow.items
  PROVE  \E k \in 1..(flow'.items + 1) : CallsInOrder(k)'
<1>1. flow.items \in Nat
  BY FlowIs DEF FlowInv
<1>2. PICK n \in Nat : n = flow.items + 1
  BY <1>1
<1>3. n..flow.items = {} /\ n \in 1..(flow.items + 1) /\ n - 1 = flow.items /\ flow.items - n + 1 = 0
  BY <1>1, <1>2
<1>4. Work!At({"calls"})' = n..flow'.items
  BY <1>3
<1>5. \A j \in 1..Len(micro') : ~(j <= flow'.items - n + 1)
  BY <1>3
<1>6. flow'.items - n + 1 <= Len(micro') /\ (Work!Refused' \/ spawned' = n - 1)
  BY <1>3
<1>7. CallsInOrder(n)'
  BY <1>4, <1>5, <1>6 DEF CallsInOrder
<1> QED
  BY <1>3, <1>7

\* A call that is refused, or has its result from the cache.
LEMMA CallEnds ==
  ASSUME FlowInv, NEW i \in 1..flow.items, Work!Continues(i, "calls"),
         UNCHANGED <<flow, waiters, active, cache, again>>, spawned' \in Nat, spent' \in Nat,
         NEW new \in Item(flow.stages), item' = [item EXCEPT ![i] = new],
         \/ new.at \in {"done", "dropped"} /\ micro' = Tail(micro)
         \/ flow.stages # 1 /\ new.at = "calls" /\ micro' = Append(Tail(micro), i),
         Work!Refused' \/ (~Work!Refused /\ spawned' = spawned + 1)
  PROVE  FlowInv'
<1>1. FlowTyped /\ QueuesAgree /\ item[i].at = "calls" /\ micro # <<>> /\ Head(micro) = i
  BY DEF FlowInv, Work!Continues
<1>2. /\ item' \in [1..flow.items -> Item(flow.stages)]
      /\ item'[i] = new /\ \A j \in (1..flow.items) \ {i} : item'[j] = item[j]
      /\ \A P : Work!At(P)' = IF new.at \in P THEN Work!At(P) \cup {i} ELSE Work!At(P) \ {i}
  BY <1>1, ItemChanges
<1>3. FlowTyped'
  BY <1>1, <1>2 DEF FlowTyped, Work!Numbers
<1>4. /\ i \notin Work!At({"waits"}) /\ i \notin Work!At(Holding) /\ i \notin Work!At({"woken"})
      /\ i \in Work!At(Continuing) /\ i \in Work!At({"calls"})
  BY <1>1, PlaceOf DEF Holding, Continuing
<1>5. /\ Work!At({"waits"})' = Work!At({"waits"}) /\ Work!At(Holding)' = Work!At(Holding)
      /\ Work!At({"woken"})' = Work!At({"woken"})
  BY <1>2, <1>4 DEF Holding
<1>6. Lists(micro, Work!At(Continuing))'
  <2>1. Lists(Tail(micro), Work!At(Continuing) \ {i})
    BY <1>1, HeadGoes
  <2>2. CASE new.at \in {"done", "dropped"}
    BY <1>2, <2>1, <2>2 DEF Continuing
  <2>3. CASE new.at = "calls"
    <3>1. Lists(Append(Tail(micro), i), (Work!At(Continuing) \ {i}) \cup {i})
      BY <2>1, ListsMore
    <3>2. (Work!At(Continuing) \ {i}) \cup {i} = Work!At(Continuing)'
      BY <1>2, <1>4, <2>3 DEF Continuing
    <3> QED
      BY <2>3, <3>1, <3>2
  <2> QED
    BY <2>2, <2>3
<1>7. QueuesAgree'
  BY <1>1, <1>5, <1>6 DEF QueuesAgree
<1>8. ASSUME flow'.stages = 1 PROVE NumbersKept'
  <2>1. NumbersKept /\ flow.stages = 1
    BY <1>8 DEF FlowInv
  <2>2. micro' = Tail(micro) /\ new.at \in {"done", "dropped"}
    BY <2>1
  <2>3. Work!At({"calls"})' = Work!At({"calls"}) \ {i}
    BY <1>2, <2>2
  <2>4. \E k \in 1..(flow'.items + 1) : CallsInOrder(k)'
    BY <2>1, <2>2, <2>3, NextCalls
  <2>5. \A j \in 1..flow'.items :
          /\ item'[j].at \in Called => item'[j].id = j
          /\ item'[j].at \in {"waits", "woken"} => cache'[j] = <<>>
          /\ cache'[j] \in {<<>>, <<j, 1>>}
    BY <1>2, <2>1, <2>2 DEF NumbersKept, Called
  <2> QED
    BY <2>1, <2>4, <2>5 DEF NumbersKept
<1> QED
  BY <1>3, <1>7, <1>8 DEF FlowInv

\* The record of an item whose result came.
LEMMA OnwardIs ==
  ASSUME FlowTyped, NEW i \in 1..flow.items
  PROVE  /\ Work!Onward(i) \in Item(flow.stages)
         /\ Work!Over(i) => Work!Onward(i).at = "done"
         /\ ~Work!Over(i) => flow.stages # 1 /\ Work!Onward(i).at = "calls"
<1>1. item[i] \in Item(flow.stages) /\ flow.stages \in Nat \ {0}
  BY FlowIs
<1>2. item[i].stage \in 1..flow.stages
  BY <1>1 DEF Item
<1> QED
  BY <1>1, <1>2 DEF Work!Onward, Work!Over, Item

LEMMA Pairs == \A a, b, c, d : <<a, b>> # <<>> /\ (<<a, b>> = <<c, d>> => a = c)
<1>1. \A a, b : Len(<<a, b>>) = 2 /\ Len(<<>>) = 0
  OBVIOUS
<1>2. \A a, b, c, d : <<a, b>> = <<c, d>> => a = c
  OBVIOUS
<1> QED
  BY <1>1, <1>2

\* What has no record does not run again.
LEMMA RunsOnce ==
  ASSUME FlowInv, flow.stages = 1, NEW i \in 1..flow.items, cache[i] = <<>>, Work!Runs(i)
  PROVE  again' = {}
<1>1. NumbersKept /\ again = {} /\ flow.items \in Nat /\ Work!Numbers = 1..flow.items
  BY FlowIs DEF FlowInv, NumbersKept, Work!Numbers
<1>2. ASSUME NEW n \in Work!Numbers, cache[n] = Work!Prompt(i) PROVE FALSE
  <2>1. cache[n] = <<i, item[i].stage>> /\ n \in 1..flow.items
    BY <1>1, <1>2 DEF Work!Prompt
  <2>2. cache[n] = <<>> \/ cache[n] = <<n, 1>>
    BY <1>1, <2>1 DEF NumbersKept
  <2>3. n = i
    BY <2>1, <2>2, Pairs
  <2> QED
    BY <2>1, <2>3, Pairs
<1> QED
  BY <1>1, <1>2 DEF Work!Runs

LEMMA CallTakes ==
  ASSUME FlowInv, NEW i \in 1..flow.items, Work!Continues(i, "calls"),
         Work!CallAcquires(i), UNCHANGED <<flow, spent, reruns>>
  PROVE  FlowInv'
<1>1. /\ FlowTyped /\ QueuesAgree /\ item[i].at = "calls" /\ micro # <<>> /\ Head(micro) = i
      /\ ~Work!Refused /\ cache[spawned + 1] # Work!Prompt(i) /\ spawned' = spawned + 1
      /\ micro' = Tail(micro) /\ UNCHANGED cache
  BY DEF FlowInv, Work!Continues, Work!CallAcquires
<1> DEFINE full == active >= flow.limit
<1> DEFINE new == [item[i] EXCEPT !.id = spawned + 1, !.at = IF full THEN "waits" ELSE "runs"]
<1>2. /\ flow.limit \in Nat \ {0} /\ active \in Nat /\ spawned \in Nat /\ item[i] \in Item(flow.stages)
      /\ \A P : IsFiniteSet(Work!At(P)) /\ Cardinality(Work!At(P)) \in Nat
  BY <1>1, FlowIs DEF FlowTyped
<1>3. new \in Item(flow.stages) /\ new.id = spawned + 1 /\ new.at = IF full THEN "waits" ELSE "runs"
  <2> DEFINE place == IF full THEN "waits" ELSE "runs"
  <2>1. place \in {"waits", "runs"}
    OBVIOUS
  <2> HIDE DEF place
  <2>2. item[i] \in Item(flow.stages) /\ spawned + 1 \in Nat
    BY <1>2
  <2>3. new = [item[i] EXCEPT !.id = spawned + 1, !.at = place]
    BY DEF place
  <2> DEFINE moved == [item[i] EXCEPT !.id = spawned + 1, !.at = place]
  <2>a. moved \in Item(flow.stages) /\ moved.id = spawned + 1 /\ moved.at = place
    BY <2>1, <2>2 DEF Item, Called
  <2>4. new \in Item(flow.stages) /\ new.id = spawned + 1 /\ new.at = place
    BY <2>3, <2>a, Zenon
  <2> QED
    BY <2>4 DEF place
<1>4. item' = [item EXCEPT ![i] = new]
  <2>1. CASE full
    BY <2>1 DEF Work!CallAcquires
  <2>2. CASE ~full
    BY <2>2 DEF Work!CallAcquires
  <2> QED
    BY <2>1, <2>2
<1>5. /\ full => waiters' = Append(waiters, i) /\ UNCHANGED <<active, again>>
      /\ ~full => active' = active + 1 /\ Work!Runs(i) /\ UNCHANGED waiters
  BY DEF Work!CallAcquires
<1> HIDE DEF new, full
<1>6. /\ item' \in [1..flow.items -> Item(flow.stages)]
      /\ item'[i] = new /\ \A j \in (1..flow.items) \ {i} : item'[j] = item[j]
      /\ \A P : Work!At(P)' = IF new.at \in P THEN Work!At(P) \cup {i} ELSE Work!At(P) \ {i}
  BY <1>1, <1>3, <1>4, ItemChanges
<1>7. active' \in Nat /\ FlowTyped'
  BY <1>1, <1>2, <1>5, <1>6 DEF FlowTyped, Work!Numbers
<1>8. /\ i \notin Work!At({"waits"}) /\ i \notin Work!At(Holding) /\ i \notin Work!At({"woken"})
      /\ i \in Work!At(Continuing) /\ i \in Work!At({"calls"})
  BY <1>1, PlaceOf DEF Holding, Continuing
<1>9. /\ Work!At(Continuing)' = Work!At(Continuing) \ {i} /\ Work!At({"woken"})' = Work!At({"woken"})
      /\ Work!At({"calls"})' = Work!At({"calls"}) \ {i}
      /\ Work!At(Holding)' = (IF full THEN Work!At(Holding) ELSE Work!At(Holding) \cup {i})
      /\ Work!At({"waits"})' = (IF full THEN Work!At({"waits"}) \cup {i} ELSE Work!At({"waits"}))
  BY <1>3, <1>6, <1>8 DEF Holding, Continuing
<1>10. Lists(micro, Work!At(Continuing))'
  BY <1>1, <1>9, HeadGoes
<1>11. Lists(waiters, Work!At({"waits"}))'
  <2>1. Lists(waiters, Work!At({"waits"}))
    BY <1>1 DEF QueuesAgree
  <2>2. Lists(Append(waiters, i), Work!At({"waits"}) \cup {i})
    BY <1>8, <2>1, ListsMore
  <2> QED
    BY <1>5, <1>9, <2>1, <2>2
<1>12. active' = Cardinality(Work!At(Holding)')
  <2>1. Cardinality(Work!At(Holding) \cup {i}) = Cardinality(Work!At(Holding)) + 1
    BY <1>2, <1>8, FS_AddElement
  <2> QED
    BY <1>1, <1>5, <1>9, <2>1 DEF QueuesAgree
<1>13. waiters' # <<>> => active' + Cardinality(Work!At({"woken"})') >= flow'.limit
  <2>1. CASE full
    BY <1>2, <1>5, <1>9, <2>1 DEF full
  <2>2. CASE ~full
    BY <1>1, <1>2, <1>5, <1>9, <2>2 DEF QueuesAgree
  <2> QED
    BY <2>1, <2>2
<1>14. QueuesAgree'
  BY <1>10, <1>11, <1>12, <1>13 DEF QueuesAgree
<1>15. ASSUME flow'.stages = 1 PROVE NumbersKept'
  <2>1. NumbersKept /\ flow.stages = 1
    BY <1>15 DEF FlowInv
  <2>2. \E k \in 1..(flow'.items + 1) : CallsInOrder(k)'
    BY <1>1, <1>9, <2>1, NextCalls
  <2>3. spawned + 1 = i
    BY <1>1, <2>1, FirstCalls
  <2>4. cache[i] = <<>>
    <3>1. item[i].stage = 1
      BY <1>2, <2>1 DEF Item
    <3> QED
      BY <1>1, <2>1, <2>3, <3>1 DEF NumbersKept, Work!Prompt
  <2>5. again' = {}
    BY <1>5, <2>1, <2>4, RunsOnce DEF NumbersKept
  <2>6. \A j \in 1..flow'.items :
          /\ item'[j].at \in Called => item'[j].id = j
          /\ item'[j].at \in {"waits", "woken"} => cache'[j] = <<>>
          /\ cache'[j] \in {<<>>, <<j, 1>>}
    BY <1>1, <1>3, <1>6, <2>1, <2>3, <2>4 DEF NumbersKept, Called
  <2> QED
    BY <2>2, <2>5, <2>6 DEF NumbersKept
<1> QED
  BY <1>7, <1>14, <1>15 DEF FlowInv

LEMMA CallKeeps ==
  ASSUME FlowInv, NEW i \in 1..flow.items, Work!Call(i)
  PROVE  FlowInv'
<1>1. /\ Work!Continues(i, "calls") /\ UNCHANGED <<flow, spent, reruns>> /\ FlowTyped
      /\ spent' \in Nat /\ spawned \in Nat
  BY DEF Work!Call, FlowInv, FlowTyped
<1>2. CASE Work!CallThrows(i)
  <2> DEFINE new == [item[i] EXCEPT !.at = "dropped"]
  <2>1. new \in Item(flow.stages) /\ new.at = "dropped"
    BY <1>1, FlowIs DEF Item
  <2>2. item' = [item EXCEPT ![i] = new] /\ micro' = Tail(micro) /\ UNCHANGED <<active, waiters, spawned, cache, again>>
    BY <1>2 DEF Work!CallThrows, Work!MovedTo
  <2>3. Work!Refused'
    BY <1>1, <1>2 DEF Work!CallThrows, Work!Refused
  <2> HIDE DEF new
  <2> QED
    BY <1>1, <2>1, <2>2, <2>3, CallEnds
<1>3. CASE Work!CallReplays(i)
  <2> DEFINE new == Work!Onward(i)
  <2>1. /\ new \in Item(flow.stages) /\ (Work!Over(i) => new.at = "done")
        /\ (~Work!Over(i) => flow.stages # 1 /\ new.at = "calls")
    BY <1>1, OnwardIs
  <2>2. /\ item' = [item EXCEPT ![i] = new] /\ micro' = Work!Behind(Tail(micro), i)
        /\ UNCHANGED <<active, waiters, cache, again>> /\ ~Work!Refused /\ spawned' = spawned + 1
    BY <1>3 DEF Work!CallReplays
  <2>3. micro' = IF Work!Over(i) THEN Tail(micro) ELSE Append(Tail(micro), i)
    BY <2>2 DEF Work!Behind
  <2>4. spawned' \in Nat
    BY <1>1, <2>2
  <2> HIDE DEF new
  <2> QED
    BY <1>1, <2>1, <2>2, <2>3, <2>4, CallEnds
<1>4. CASE Work!CallAcquires(i)
  BY <1>1, <1>4, CallTakes
<1> QED
  BY <1>2, <1>3, <1>4 DEF Work!Call

LEMMA WakeKeeps ==
  ASSUME FlowInv, NEW i \in 1..flow.items, Work!Wake(i)
  PROVE  FlowInv'
<1>1. /\ FlowTyped /\ QueuesAgree /\ item[i].at = "woken" /\ micro # <<>> /\ Head(micro) = i
      /\ active' = active + 1 /\ Work!Runs(i) /\ item' = Work!MovedTo(i, "runs") /\ micro' = Tail(micro)
      /\ UNCHANGED <<flow, waiters, spawned, spent, cache, reruns>>
  BY DEF FlowInv, Work!Continues, Work!Wake
<1> DEFINE new == [item[i] EXCEPT !.at = "runs"]
<1>2. /\ flow.limit \in Nat \ {0} /\ active \in Nat /\ spawned \in Nat /\ item[i] \in Item(flow.stages)
      /\ \A P : IsFiniteSet(Work!At(P)) /\ Cardinality(Work!At(P)) \in Nat
  BY <1>1, FlowIs DEF FlowTyped
<1>3. new \in Item(flow.stages) /\ new.id = item[i].id /\ new.at = "runs"
  BY <1>2 DEF Item, Called
<1>4. item' = [item EXCEPT ![i] = new]
  BY <1>1 DEF Work!MovedTo
<1> HIDE DEF new
<1>5. /\ item' \in [1..flow.items -> Item(flow.stages)]
      /\ item'[i] = new /\ \A j \in (1..flow.items) \ {i} : item'[j] = item[j]
      /\ \A P : Work!At(P)' = IF new.at \in P THEN Work!At(P) \cup {i} ELSE Work!At(P) \ {i}
  BY <1>1, <1>3, <1>4, ItemChanges
<1>6. FlowTyped'
  BY <1>1, <1>2, <1>5 DEF FlowTyped, Work!Numbers
<1>7. /\ i \notin Work!At({"waits"}) /\ i \notin Work!At(Holding) /\ i \in Work!At({"woken"})
      /\ i \in Work!At(Continuing) /\ i \notin Work!At({"calls"})
  BY <1>1, PlaceOf DEF Holding, Continuing
<1>8. /\ Work!At(Continuing)' = Work!At(Continuing) \ {i} /\ Work!At({"woken"})' = Work!At({"woken"}) \ {i}
      /\ Work!At({"calls"})' = Work!At({"calls"}) /\ Work!At(Holding)' = Work!At(Holding) \cup {i}
      /\ Work!At({"waits"})' = Work!At({"waits"})
  BY <1>3, <1>5, <1>7 DEF Holding, Continuing
<1>9. Lists(micro, Work!At(Continuing))'
  BY <1>1, <1>8, HeadGoes
<1>10. /\ Cardinality(Work!At(Holding) \cup {i}) = Cardinality(Work!At(Holding)) + 1
       /\ Cardinality(Work!At({"woken"}) \ {i}) = Cardinality(Work!At({"woken"})) - 1
  BY <1>2, <1>7, FS_AddElement, FS_RemoveElement
<1>11. QueuesAgree'
  <2>1. Lists(waiters, Work!At({"waits"}))' /\ active' = Cardinality(Work!At(Holding)')
    BY <1>1, <1>8, <1>10 DEF QueuesAgree
  <2>2. waiters' # <<>> => active' + Cardinality(Work!At({"woken"})') >= flow'.limit
    <3>1. Cardinality(Work!At({"woken"})') = Cardinality(Work!At({"woken"})) - 1 /\ Cardinality(Work!At({"woken"})) \in Nat
      BY <1>2, <1>8, <1>10, Zenon
    <3>2. waiters # <<>> => active + Cardinality(Work!At({"woken"})) >= flow.limit
      BY <1>1 DEF QueuesAgree
    <3> QED
      BY <1>1, <1>2, <3>1, <3>2
  <2> QED
    BY <1>9, <2>1, <2>2 DEF QueuesAgree
<1>12. ASSUME flow'.stages = 1 PROVE NumbersKept'
  <2>1. NumbersKept /\ flow.stages = 1
    BY <1>1, <1>12 DEF FlowInv
  <2>2. Work!At({"calls"}) = {} /\ (Work!Refused \/ spawned = flow.items)
    BY <1>1, <2>1, AllCalled
  <2>3. Len(micro') \in Nat
    BY <1>9 DEF Lists
  <2>4. Work!Refused' \/ spawned' = flow.items
    BY <1>1, <2>2 DEF Work!Refused
  <2>5. \E k \in 1..(flow'.items + 1) : CallsInOrder(k)'
    BY <1>1, <1>8, <2>2, <2>3, <2>4, StillCalled
  <2>6. again' = {}
    BY <1>1, <2>1, RunsOnce DEF NumbersKept
  <2>7. \A j \in 1..flow'.items :
          /\ item'[j].at \in Called => item'[j].id = j
          /\ item'[j].at \in {"waits", "woken"} => cache'[j] = <<>>
          /\ cache'[j] \in {<<>>, <<j, 1>>}
    BY <1>1, <1>3, <1>5, <2>1 DEF NumbersKept, Called
  <2> QED
    BY <2>5, <2>6, <2>7 DEF NumbersKept
<1> QED
  BY <1>6, <1>11, <1>12 DEF FlowInv

\* What a release leaves: the slot is given up, and who was first to wait is woken.
LEMMA ReleaseIs ==
  ASSUME FlowInv, NEW i \in 1..flow.items, item[i].at \in {"returned", "threw"}, micro # <<>>, Head(micro) = i,
         Work!Release, UNCHANGED flow,
         NEW new \in Item(flow.stages), item' = Work!Released(i, new),
         new.at \in {"calls", "done", "dropped"},
         micro' = IF new.at = "calls" THEN Append(Tail(micro) \o Work!SetToSeq(Work!Woken), i)
                  ELSE Tail(micro) \o Work!SetToSeq(Work!Woken)
  PROVE  /\ item' \in [1..flow.items -> Item(flow.stages)] /\ active' \in Nat
         /\ item'[i] = new
         /\ \A j \in (1..flow.items) \ {i} :
              \/ item'[j] = item[j]
              \/ item[j].at = "waits" /\ item'[j] = [item[j] EXCEPT !.at = "woken"]
         /\ QueuesAgree'
<1>1. /\ FlowTyped /\ QueuesAgree /\ flow.limit \in Nat \ {0} /\ active \in Nat
      /\ \A P : IsFiniteSet(Work!At(P)) /\ Cardinality(Work!At(P)) \in Nat
      /\ Work!Items = 1..flow.items /\ \A j \in 1..flow.items : item[j] \in Item(flow.stages)
  BY FlowIs DEF FlowInv, FlowTyped
<1>2. /\ i \notin Work!At({"waits"}) /\ i \in Work!At(Holding) /\ i \notin Work!At({"woken"})
      /\ i \in Work!At(Continuing)
  BY <1>1, PlaceOf DEF Holding, Continuing
<1>3. Cardinality(Work!At(Holding) \ {i}) = Cardinality(Work!At(Holding)) - 1
  BY <1>1, <1>2, FS_RemoveElement
<1>4. active' = active - 1 /\ active' = Cardinality(Work!At(Holding) \ {i}) /\ active' \in Nat
  <2>1. active' = active - 1
    BY DEF Work!Release
  <2>2. active = Cardinality(Work!At(Holding))
    BY <1>1 DEF QueuesAgree
  <2>3. active' = Cardinality(Work!At(Holding) \ {i})
    BY <1>3, <2>1, <2>2
  <2>4. Cardinality(Work!At(Holding) \ {i}) \in Nat
    BY <1>1, FS_RemoveElement, FS_CardinalityType
  <2> QED
    BY <2>1, <2>3, <2>4
<1>5. Lists(Tail(micro), Work!At(Continuing) \ {i}) /\ Tail(micro) \in Seq(1..flow.items)
  BY HeadGoes
<1>6. CASE waiters = <<>>
  <2>1. Work!Woken = {} /\ waiters' = waiters
    BY <1>6 DEF Work!Woken, Work!Release
  <2>2. item' = [item EXCEPT ![i] = new]
    <3>1. \A j \in 1..flow.items : item'[j] = IF j = i THEN new ELSE item[j]
      BY <1>1, <2>1 DEF Work!Released
    <3>2. item' = [j \in 1..flow.items |-> item'[j]]
      BY <1>1 DEF Work!Released
    <3> QED
      BY <1>1, <3>1, <3>2 DEF FlowTyped
  <2>3. /\ item' \in [1..flow.items -> Item(flow.stages)]
        /\ item'[i] = new /\ \A j \in (1..flow.items) \ {i} : item'[j] = item[j]
        /\ \A P : Work!At(P)' = IF new.at \in P THEN Work!At(P) \cup {i} ELSE Work!At(P) \ {i}
    BY <1>1, <2>2, ItemChanges
  <2>4. /\ Work!At({"waits"})' = Work!At({"waits"}) /\ Work!At(Holding)' = Work!At(Holding) \ {i}
        /\ Work!At(Continuing)' = (IF new.at = "calls" THEN (Work!At(Continuing) \ {i}) \cup {i} ELSE Work!At(Continuing) \ {i})
    BY <1>2, <2>3 DEF Holding, Continuing
  <2>5. Tail(micro) \o Work!SetToSeq(Work!Woken) = Tail(micro)
    BY <1>5, <2>1, ListsOne, ConcatEmptySeq
  <2>6. Lists(micro, Work!At(Continuing))'
    <3>1. Lists(Append(Tail(micro), i), (Work!At(Continuing) \ {i}) \cup {i})
      BY <1>5, ListsMore
    <3>2. CASE new.at = "calls"
      BY <2>4, <2>5, <3>1, <3>2
    <3>3. CASE new.at # "calls"
      BY <1>5, <2>4, <2>5, <3>3
    <3> QED
      BY <3>2, <3>3
  <2>7. QueuesAgree'
    BY <1>1, <1>4, <1>6, <2>1, <2>4, <2>6 DEF QueuesAgree
  <2> QED
    BY <1>4, <2>3, <2>7
<1>7. CASE waiters # <<>>
  <2> DEFINE h == Head(waiters)
  <2>1. /\ h \in Work!At({"waits"}) /\ Lists(Tail(waiters), Work!At({"waits"}) \ {h})
        /\ active + Cardinality(Work!At({"woken"})) >= flow.limit
    BY <1>1, <1>7, ListsRest DEF QueuesAgree
  <2>2. Work!Woken = {h} /\ waiters' = Tail(waiters)
    BY <1>7 DEF Work!Woken, Work!Release
  <2> HIDE DEF h
  <2>3. h \in 1..flow.items /\ item[h].at = "waits" /\ h # i
    BY <1>2, <2>1 DEF Work!At, Work!Items
  <2> DEFINE risen == [item[h] EXCEPT !.at = "woken"]
  <2>4. risen \in Item(flow.stages) /\ risen.at = "woken"
    BY <1>1, <2>3 DEF Item, Called
  <2>5. \A j \in 1..flow.items : item'[j] = IF j = i THEN new ELSE IF j = h THEN risen ELSE item[j]
    <3> SUFFICES ASSUME NEW j \in 1..flow.items
                 PROVE  item'[j] = IF j = i THEN new ELSE IF j = h THEN risen ELSE item[j]
      OBVIOUS
    <3>1. item'[j] = CASE j = i -> new [] j \in {h} -> [item[j] EXCEPT !.at = "woken"] [] OTHER -> item[j]
      BY <1>1, <2>2 DEF Work!Released
    <3>2. CASE j = i
      BY <2>3, <3>1, <3>2
    <3>3. CASE j = h
      BY <2>3, <3>1, <3>3
    <3>4. CASE j # i /\ j # h
      BY <3>1, <3>4
    <3> QED
      BY <3>2, <3>3, <3>4
  <2>6. item' \in [1..flow.items -> Item(flow.stages)]
    <3>1. item' = [j \in 1..flow.items |-> item'[j]]
      BY <1>1 DEF Work!Released
    <3>2. \A j \in 1..flow.items : item'[j] \in Item(flow.stages)
      BY <1>1, <2>4, <2>5
    <3> QED
      BY <3>1, <3>2
  <2> HIDE DEF risen
  <2>7. ASSUME NEW CONSTANT P
        PROVE  \A j : j \in Work!At(P)' <=>
                      j \in 1..flow.items /\ (IF j = i THEN new.at \in P ELSE IF j = h THEN "woken" \in P ELSE j \in Work!At(P))
    BY <2>4, <2>5 DEF Work!At, Work!Items
  <2>8. /\ \A j : j \in Work!At({"waits"})' <=> j \in Work!At({"waits"}) \ {h}
        /\ \A j : j \in Work!At(Holding)' <=> j \in Work!At(Holding) \ {i}
        /\ \A j : j \in Work!At({"woken"})' <=> j \in Work!At({"woken"}) \cup {h}
        /\ \A j : j \in Work!At(Continuing)' <=>
             j \in (IF new.at = "calls" THEN ((Work!At(Continuing) \ {i}) \cup {h}) \cup {i} ELSE (Work!At(Continuing) \ {i}) \cup {h})
    <3>1. \A P : Work!At(P) \in SUBSET (1..flow.items)
      BY <1>1, FlowIs
    <3>2. h \notin Work!At(Holding)
      BY <1>1, <2>3, PlaceOf DEF Holding
    <3>3. \A j : j \in Work!At({"waits"})' <=> j \in Work!At({"waits"}) \ {h}
      BY <1>2, <2>3, <2>7, <3>1
    <3>4. \A j : j \in Work!At(Holding)' <=> j \in Work!At(Holding) \ {i}
      BY <2>3, <2>7, <3>1, <3>2 DEF Holding
    <3>5. \A j : j \in Work!At({"woken"})' <=> j \in Work!At({"woken"}) \cup {h}
      BY <1>2, <2>3, <2>7, <3>1
    <3>6. \A j : j \in Work!At(Continuing)' <=>
             j \in (IF new.at = "calls" THEN ((Work!At(Continuing) \ {i}) \cup {h}) \cup {i} ELSE (Work!At(Continuing) \ {i}) \cup {h})
      BY <2>3, <2>7, <3>1 DEF Continuing
    <3> QED
      BY <3>3, <3>4, <3>5, <3>6
  <2>9. /\ Work!At({"waits"})' = Work!At({"waits"}) \ {h} /\ Work!At(Holding)' = Work!At(Holding) \ {i}
        /\ Work!At({"woken"})' = Work!At({"woken"}) \cup {h}
        /\ Work!At(Continuing)' = (IF new.at = "calls" THEN ((Work!At(Continuing) \ {i}) \cup {h}) \cup {i} ELSE (Work!At(Continuing) \ {i}) \cup {h})
    BY <2>8, Zenon
  <2>10. h \notin Work!At({"woken"}) /\ h \notin Work!At(Continuing)
    <3>1. item[h].at \notin {"woken"} /\ item[h].at \notin Continuing
      BY <2>3 DEF Continuing
    <3> QED
      BY <1>1, <2>3, <3>1, PlaceOf
  <2>11. Tail(micro) \o Work!SetToSeq(Work!Woken) = Append(Tail(micro), h)
    <3>1. Work!SetToSeq(Work!Woken) = <<h>>
      BY <2>2, ListsOne
    <3> QED
      BY <1>5, <2>3, <3>1, AppendIsConcat
  <2>12. Lists(micro, Work!At(Continuing))'
    <3>1. Lists(Append(Tail(micro), h), (Work!At(Continuing) \ {i}) \cup {h})
      BY <1>5, <2>10, ListsMore
    <3>2. Lists(Append(Append(Tail(micro), h), i), ((Work!At(Continuing) \ {i}) \cup {h}) \cup {i})
      BY <2>3, <3>1, ListsMore
    <3> QED
      BY <2>9, <2>11, <3>1, <3>2
  <2>13. Cardinality(Work!At({"woken"}) \cup {h}) = Cardinality(Work!At({"woken"})) + 1
    BY <1>1, <2>10, FS_AddElement
  <2>14. active' + Cardinality(Work!At({"woken"})') >= flow'.limit
    <3>1. Cardinality(Work!At({"woken"})') = Cardinality(Work!At({"woken"})) + 1 /\ Cardinality(Work!At({"woken"})) \in Nat
      BY <1>1, <2>9, <2>13, Zenon
    <3>2. active' = active - 1 /\ active + Cardinality(Work!At({"woken"})) >= flow.limit /\ flow.limit \in Nat
      BY <1>1, <1>4, <2>1
    <3> QED
      BY <1>1, <3>1, <3>2
  <2>15. QueuesAgree'
    BY <1>4, <2>1, <2>2, <2>9, <2>12, <2>14 DEF QueuesAgree
  <2> QED
    BY <1>4, <2>3, <2>5, <2>6, <2>15 DEF risen
<1> QED
  BY <1>6, <1>7

LEMMA EndKeeps ==
  ASSUME FlowInv, NEW i \in 1..flow.items, Work!Return(i) \/ Work!Throw(i)
  PROVE  FlowInv'
<1> DEFINE returns == Work!Return(i)
<1> DEFINE new == IF returns THEN Work!Onward(i) ELSE [item[i] EXCEPT !.at = "dropped"]
<1>1. /\ FlowTyped /\ item[i].at \in {"returned", "threw"} /\ micro # <<>> /\ Head(micro) = i /\ Work!Release
      /\ UNCHANGED <<flow, spawned, again, reruns>>
  BY DEF FlowInv, Work!Continues, Work!Return, Work!Throw
<1>2. /\ item[i] \in Item(flow.stages) /\ flow.items \in Nat /\ spent \in Nat /\ flow.budget \in Nat
      /\ spawned \in Nat /\ flow.stages \in Nat \ {0}
  BY <1>1, FlowIs DEF FlowTyped
<1>3. /\ spent' \in Nat /\ spent' >= spent
      /\ \/ cache' = [cache EXCEPT ![item[i].id] = Work!Prompt(i)]
         \/ cache' = cache
  BY <1>2 DEF Work!Return, Work!Throw
<1>4. /\ new \in Item(flow.stages) /\ new.at \in {"calls", "done", "dropped"}
      /\ new.at = "calls" => returns /\ ~Work!Over(i) /\ flow.stages # 1
      /\ new.at # "calls" => ~returns \/ Work!Over(i)
  <2>1. CASE returns
    BY <1>1, <2>1, OnwardIs
  <2>2. CASE ~returns
    <3>1. [item[i] EXCEPT !.at = "dropped"] \in Item(flow.stages) /\ [item[i] EXCEPT !.at = "dropped"].at = "dropped"
      BY <1>2 DEF Item
    <3> QED
      BY <2>2, <3>1
  <2> QED
    BY <2>1, <2>2
<1>5. item' = Work!Released(i, new)
  BY DEF Work!Return, Work!Throw
<1>6. micro' = IF new.at = "calls" THEN Append(Tail(micro) \o Work!SetToSeq(Work!Woken), i)
               ELSE Tail(micro) \o Work!SetToSeq(Work!Woken)
  <2>1. returns => micro' = Work!Behind(Tail(micro) \o Work!SetToSeq(Work!Woken), i)
    BY DEF Work!Return
  <2>2. ~returns => micro' = Tail(micro) \o Work!SetToSeq(Work!Woken)
    BY DEF Work!Throw
  <2> HIDE DEF new, returns
  <2> QED
    BY <1>4, <2>1, <2>2 DEF Work!Behind
<1> HIDE DEF new, returns
<1>7. /\ item' \in [1..flow.items -> Item(flow.stages)] /\ active' \in Nat
      /\ item'[i] = new
      /\ \A j \in (1..flow.items) \ {i} :
           \/ item'[j] = item[j]
           \/ item[j].at = "waits" /\ item'[j] = [item[j] EXCEPT !.at = "woken"]
      /\ QueuesAgree'
  BY <1>1, <1>4, <1>5, <1>6, ReleaseIs
<1>8. cache' \in [Work!Numbers' -> Seq(Nat)]
  <2>1. item[i].stage \in Nat /\ i \in Nat
    BY <1>2 DEF Item
  <2>2. Work!Prompt(i) \in Seq(Nat)
    BY <2>1 DEF Work!Prompt
  <2>3. cache \in [Work!Numbers -> Seq(Nat)] /\ Work!Numbers' = Work!Numbers
    BY <1>1 DEF FlowTyped, Work!Numbers
  <2> QED
    BY <1>3, <2>2, <2>3
<1>9. FlowTyped'
  BY <1>1, <1>3, <1>7, <1>8 DEF FlowTyped
<1>10. ASSUME flow'.stages = 1 PROVE NumbersKept'
  <2>1. NumbersKept /\ flow.stages = 1
    BY <1>1, <1>10 DEF FlowInv
  <2>2. Work!At({"calls"}) = {} /\ (Work!Refused \/ spawned = flow.items)
    BY <1>1, <2>1, AllCalled
  <2>3. Len(micro') \in Nat
    BY <1>7 DEF QueuesAgree, Lists
  <2>4. Work!Refused' \/ spawned' = flow.items
    BY <1>1, <1>2, <1>3, <2>2 DEF Work!Refused
  <2>5. item'[i].at \in {"done", "dropped"}
    BY <1>4, <1>7, <2>1
  <2>6. \A j \in 1..flow.items : item[j].at # "calls"
    BY <1>1, <2>2, PlaceOf
  <2>7. ASSUME NEW j \in (1..flow.items) \ {i}
        PROVE  /\ item'[j].id = item[j].id /\ item'[j].at # "calls"
               /\ item[j].at # item'[j].at => item[j].at = "waits"
               /\ item'[j].at \in Called => item[j].at \in Called
               /\ item'[j].at \in {"waits", "woken"} => item[j].at \in {"waits", "woken"}
    <3>1. CASE item'[j] = item[j]
      BY <2>6, <3>1
    <3>2. CASE item[j].at = "waits" /\ item'[j] = [item[j] EXCEPT !.at = "woken"]
      <4>1. item[j] \in Item(flow.stages)
        BY <1>1, FlowIs
      <4>2. item'[j].id = item[j].id /\ item'[j].at = "woken"
        BY <3>2, <4>1 DEF Item
      <4> QED
        BY <3>2, <4>2 DEF Called
    <3> QED
      BY <1>7, <3>1, <3>2
  <2>8. Work!At({"calls"})' = {}
    BY <1>1, <2>5, <2>7 DEF Work!At, Work!Items
  <2>9. \E k \in 1..(flow'.items + 1) : CallsInOrder(k)'
    BY <1>1, <2>3, <2>4, <2>8, StillCalled
  <2>10. cache' = [cache EXCEPT ![i] = <<i, 1>>] \/ cache' = cache
    <3>1. item[i].id = i
      BY <1>1, <2>1 DEF NumbersKept, Called
    <3>2. Work!Prompt(i) = <<i, 1>>
      BY <1>2, <2>1 DEF Item, Work!Prompt
    <3> QED
      BY <1>3, <3>1, <3>2
  <2>11. \A j \in (1..flow.items) \ {i} : cache'[j] = cache[j]
    <3>1. \A j \in 1..flow.items : j \in Work!Numbers
      BY <1>2, <2>1 DEF Work!Numbers
    <3> QED
      BY <1>1, <2>10, <3>1 DEF FlowTyped
  <2>12. cache'[i] \in {<<>>, <<i, 1>>}
    <3>1. i \in Work!Numbers
      BY <1>2, <2>1 DEF Work!Numbers
    <3> QED
      BY <1>1, <2>1, <2>10, <3>1 DEF FlowTyped, NumbersKept
  <2>13. \A j \in 1..flow'.items :
          /\ item'[j].at \in Called => item'[j].id = j
          /\ item'[j].at \in {"waits", "woken"} => cache'[j] = <<>>
          /\ cache'[j] \in {<<>>, <<j, 1>>}
    <3> SUFFICES ASSUME NEW j \in 1..flow.items
                 PROVE  /\ item'[j].at \in Called => item'[j].id = j
                        /\ item'[j].at \in {"waits", "woken"} => cache'[j] = <<>>
                        /\ cache'[j] \in {<<>>, <<j, 1>>}
      BY <1>1
    <3>1. CASE j = i
      BY <2>5, <2>12, <3>1 DEF Called
    <3>2. CASE j # i
      BY <2>1, <2>7, <2>11, <3>2 DEF NumbersKept
    <3> QED
      BY <3>1, <3>2
  <2>14. again' = {}
    BY <1>1, <2>1 DEF NumbersKept
  <2> QED
    BY <2>9, <2>13, <2>14 DEF NumbersKept
<1> QED
  BY <1>7, <1>9, <1>10 DEF FlowInv

LEMMA SettleKeeps ==
  ASSUME FlowInv, Work!Settle
  PROVE  FlowInv'
<1>1. /\ FlowTyped /\ QueuesAgree /\ micro = <<>>
      /\ UNCHANGED <<flow, active, waiters, spawned, spent, cache, again, reruns>>
      /\ IsFiniteSet(1..flow.items)
  BY FlowIs DEF FlowInv, Work!Settle
<1>2. PICK some \in (SUBSET Work!At({"runs"})) \ {{}}
       : /\ micro' \in Work!SetToSeqs(some)
         /\ \E failed \in SUBSET some :
              item' = [i \in Work!Items |->
                         CASE i \in failed -> [item[i] EXCEPT !.at = "threw"]
                           [] i \in some \ failed -> [item[i] EXCEPT !.at = "returned"]
                           [] OTHER -> item[i]]
  BY DEF Work!Settle
<1>a. PICK failed \in SUBSET some :
        item' = [i \in Work!Items |->
                      CASE i \in failed -> [item[i] EXCEPT !.at = "threw"]
                        [] i \in some \ failed -> [item[i] EXCEPT !.at = "returned"]
                        [] OTHER -> item[i]]
  BY <1>2
<1>3. Work!Items = 1..flow.items /\ \A i \in 1..flow.items : item[i] \in Item(flow.stages)
  BY <1>1, FlowIs
<1>4. \A i \in some : i \in 1..flow.items /\ item[i].at = "runs"
  BY <1>2 DEF Work!At, Work!Items
<1>5. ASSUME NEW i \in 1..flow.items
      PROVE  /\ item'[i] \in Item(flow.stages) /\ item'[i].id = item[i].id
             /\ i \notin some => item'[i] = item[i]
             /\ i \in some => item'[i].at \in {"returned", "threw"}
  <2>0. item'[i] = CASE i \in failed -> [item[i] EXCEPT !.at = "threw"]
                     [] i \in some \ failed -> [item[i] EXCEPT !.at = "returned"]
                     [] OTHER -> item[i]
    BY <1>a, <1>3
  <2>1. CASE i \in failed
    <3>1. item'[i] = [item[i] EXCEPT !.at = "threw"]
      BY <2>0, <2>1
    <3> QED
      BY <1>3, <2>1, <3>1 DEF Item, Called
  <2>2. CASE i \in some \ failed
    <3>1. item'[i] = [item[i] EXCEPT !.at = "returned"]
      BY <2>0, <2>2
    <3> QED
      BY <1>3, <2>2, <3>1 DEF Item, Called
  <2>3. CASE i \notin some
    BY <1>3, <2>0, <2>3
  <2> QED
    BY <2>1, <2>2, <2>3
<1>6. item' \in [1..flow.items -> Item(flow.stages)]
  BY <1>a, <1>3, <1>5
<1>7. FlowTyped'
  BY <1>1, <1>6 DEF FlowTyped, Work!Numbers
<1>8. Work!At(Continuing) = {}
  BY <1>1, ListsNothing DEF QueuesAgree
<1>9. /\ Work!At(Continuing)' = some /\ Work!At(Holding)' = Work!At(Holding)
      /\ Work!At({"woken"})' = Work!At({"woken"}) /\ Work!At({"waits"})' = Work!At({"waits"})
      /\ Work!At({"calls"})' = {}
  <2>1. \A i \in 1..flow.items : item[i].at \notin Continuing
    BY <1>1, <1>8, PlaceOf
  <2>2. ASSUME NEW CONSTANT P
        PROVE  Work!At(P)' = {i \in 1..flow.items : item'[i].at \in P} /\ Work!At(P) = {i \in 1..flow.items : item[i].at \in P}
    BY <1>1 DEF Work!At, Work!Items
  <2>3. \A i \in 1..flow.items : item'[i].at \in Continuing <=> i \in some
    BY <1>5, <2>1 DEF Continuing
  <2>4. \A i \in 1..flow.items : item'[i].at \in Holding <=> item[i].at \in Holding
    BY <1>4, <1>5 DEF Holding
  <2>5. \A i \in 1..flow.items : item'[i].at \in {"woken"} <=> item[i].at \in {"woken"}
    BY <1>4, <1>5
  <2>6. \A i \in 1..flow.items : item'[i].at \in {"waits"} <=> item[i].at \in {"waits"}
    BY <1>4, <1>5
  <2>7. \A i \in 1..flow.items : item'[i].at \notin {"calls"}
    BY <1>5, <2>1 DEF Continuing
  <2>8. Work!At(Continuing)' = some
    BY <1>4, <2>2, <2>3
  <2>9. Work!At(Holding)' = Work!At(Holding)
    BY <2>2, <2>4
  <2>10. Work!At({"woken"})' = Work!At({"woken"})
    BY <2>2, <2>5
  <2>11. Work!At({"waits"})' = Work!At({"waits"})
    BY <2>2, <2>6
  <2>12. Work!At({"calls"})' = {}
    BY <2>2, <2>7
  <2> QED
    BY <2>8, <2>9, <2>10, <2>11, <2>12
<1>10. Lists(micro', some)
  <2>1. IsFiniteSet(some)
    BY <1>1, <1>4, FS_Subset
  <2> QED
    BY <1>2, <2>1, ListsAny
<1>11. QueuesAgree'
  BY <1>1, <1>9, <1>10 DEF QueuesAgree
<1>12. ASSUME flow'.stages = 1 PROVE NumbersKept'
  <2>1. NumbersKept /\ flow.stages = 1
    BY <1>1, <1>12 DEF FlowInv
  <2>2. Work!Refused \/ spawned = flow.items
    BY <1>1, <2>1, AllCalled
  <2>3. Len(micro') \in Nat
    BY <1>10 DEF Lists
  <2>4. Work!Refused' \/ spawned' = flow.items
    BY <1>1, <2>2 DEF Work!Refused
  <2>5. \E k \in 1..(flow'.items + 1) : CallsInOrder(k)'
    BY <1>1, <1>9, <2>3, <2>4, StillCalled
  <2>6. \A j \in 1..flow'.items :
          /\ item'[j].at \in Called => item'[j].id = j
          /\ item'[j].at \in {"waits", "woken"} => cache'[j] = <<>>
          /\ cache'[j] \in {<<>>, <<j, 1>>}
    BY <1>1, <1>4, <1>5, <2>1 DEF NumbersKept, Called
  <2> QED
    BY <1>1, <2>1, <2>5, <2>6 DEF NumbersKept
<1> QED
  BY <1>7, <1>11, <1>12 DEF FlowInv

LEMMA RerunKeeps ==
  ASSUME FlowInv, Work!Rerun
  PROVE  FlowInv'
<1>1. /\ FlowTyped /\ flow.items \in Nat /\ flow.stages \in Nat \ {0} /\ flow.limit \in Nat \ {0}
      /\ Work!Items = 1..flow.items
  BY FlowIs DEF FlowInv
<1>2. /\ UNCHANGED <<flow, cache, again>> /\ item' = [i \in 1..flow.items |-> [stage |-> 1, id |-> 0, at |-> "calls"]]
      /\ micro' = [i \in 1..flow.items |-> i] /\ active' = 0 /\ waiters' = <<>> /\ spawned' = 0 /\ spent' = 0
  BY <1>1 DEF Work!Rerun, Work!Fresh
<1>3. item' \in [1..flow.items -> Item(flow.stages)]
  BY <1>1, <1>2 DEF Item
<1>4. FlowTyped'
  BY <1>1, <1>2, <1>3 DEF FlowTyped, Work!Numbers
<1>5. ASSUME NEW CONSTANT P PROVE Work!At(P)' = IF "calls" \in P THEN 1..flow.items ELSE {}
  BY <1>2 DEF Work!At, Work!Items
<1>6. QueuesAgree'
  <2>1. Work!At(Continuing)' = 1..flow.items /\ Work!At({"waits"})' = {} /\ Work!At(Holding)' = {}
    BY <1>5 DEF Continuing, Holding
  <2>2. Lists(micro', 1..flow.items) /\ Lists(waiters', {})
    BY <1>1, <1>2, ListsUpTo, ListsNothing
  <2>3. active' = Cardinality(Work!At(Holding)')
    BY <1>2, <2>1, FS_EmptySet
  <2> QED
    BY <1>2, <2>1, <2>2, <2>3 DEF QueuesAgree
<1>7. ASSUME flow'.stages = 1 PROVE NumbersKept'
  <2>1. NumbersKept
    BY <1>2, <1>7 DEF FlowInv
  <2>2. CallsInOrder(1)'
    <3>1. Len(micro') = flow.items /\ \A j \in 1..flow.items : micro'[j] = j
      BY <1>1, <1>2
    <3>2. Work!At({"calls"})' = 1..flow.items
      BY <1>5
    <3> QED
      BY <1>1, <1>2, <3>1, <3>2 DEF CallsInOrder
  <2>3. \A i \in 1..flow.items : item'[i].at \notin Called
    BY <1>2 DEF Called
  <2>4. 1 \in 1..(flow'.items + 1)
    BY <1>1, <1>2
  <2> QED
    BY <1>2, <2>1, <2>2, <2>3, <2>4 DEF NumbersKept, Called
<1> QED
  BY <1>4, <1>6, <1>7 DEF FlowInv

LEMMA FlowKeeps == FlowInv /\ [Work!Next]_OfFlow => FlowInv'
<1> SUFFICES ASSUME FlowInv, [Work!Next]_OfFlow PROVE FlowInv'
  OBVIOUS
<1>1. CASE UNCHANGED OfFlow
  BY <1>1 DEF OfFlow, FlowInv, FlowTyped, QueuesAgree, NumbersKept, CallsInOrder, Work!At, Work!Items, Work!Numbers,
              Work!Refused
<1>2. ASSUME NEW i \in 1..flow.items, Work!Call(i) \/ Work!Wake(i) \/ Work!Return(i) \/ Work!Throw(i)
      PROVE  FlowInv'
  BY <1>2, CallKeeps, WakeKeeps, EndKeeps
<1> QED
  BY <1>1, <1>2, SettleKeeps, RerunKeeps DEF Work!Next, Work!Items

LEMMA AccountedThen == FlowInv => Work!WorkflowAccounted
BY IdleThen DEF FlowInv, NumbersKept, Work!WorkflowAccounted, Work!PrefixReplays

-----------------------------------------------------------------------------
(* The language servers.                                                   *)

LEMMA ServerCardinality == \A S : Server!Cardinality(S) = Cardinality(S)
BY DEF Server!Cardinality, Cardinality

ServerClient ==
  [boot : {"boots", "up", "failed"}, proc : {"lives", "gone"}, exited : BOOLEAN, closing : BOOLEAN,
   sent : Nat, owed : Seq(Nat), batch : Nat]
Said == [client : Nat, of : Nat, batch : Nat, how : {"published", "waited"}]

ServerTyped ==
  /\ bench \in Benches /\ text \in Nat /\ closes \in Nat
  /\ clients \in Seq(ServerClient) /\ manager \in 0..Len(clients)
  /\ asker \in [bench.askers -> [at : {"rests", "starts", "requests", "diagnoses"}, client : Nat, of : Nat]]
  /\ answers \in Seq(Said)

\* What a client was sent and what its server owes is in the order of the texts, none newer than the file.
InOrder(client) ==
  /\ client.sent <= text /\ client.batch <= client.sent
  /\ \A i \in 1..Len(client.owed) : client.batch <= client.owed[i] /\ client.owed[i] <= client.sent
  /\ \A i, j \in 1..Len(client.owed) : i <= j => client.owed[i] <= client.owed[j]
  /\ client.exited => client.proc = "gone"

AskersServed ==
  \A a \in bench.askers :
    /\ asker[a].at # "rests" => asker[a].client \in 1..Len(clients)
    /\ asker[a].at \in {"starts", "requests"} => ~clients[asker[a].client].exited
    /\ asker[a].at \in {"requests", "diagnoses"} => clients[asker[a].client].sent >= asker[a].of

AnswersInOrder ==
  /\ \A i \in 1..Len(answers) :
       answers[i].client \in 1..Len(clients) /\ answers[i].batch <= clients[answers[i].client].batch
  /\ \A i, j \in 1..Len(answers) :
       i < j /\ answers[i].client = answers[j].client => answers[i].batch <= answers[j].batch

\* Where no start fails, a client whose exit was not seen is the manager's, until all are closed.
OneRuns ==
  /\ closes > 0 => manager = 0
  /\ ~bench.fails =>
       \A c \in 1..Len(clients) :
         /\ ~clients[c].exited => manager = c \/ closes > 0
         /\ clients[c].proc = "lives" /\ ~clients[c].closing => manager = c

ServerInv ==
  /\ ServerTyped /\ AskersServed /\ AnswersInOrder /\ OneRuns
  /\ \A c \in 1..Len(clients) : InOrder(clients[c])

LEMMA ClientFields ==
  \A c \in ServerClient : c.sent \in Nat /\ c.batch \in Nat /\ c.exited \in BOOLEAN /\ c.closing \in BOOLEAN
                    /\ c.owed \in Seq(Nat)
BY DEF ServerClient

LEMMA ServerAtFirst == Server!Init => ServerInv
<1> SUFFICES ASSUME Server!Init PROVE ServerInv
  OBVIOUS
<1>1. clients = <<>> /\ answers = <<>> /\ text = 1 /\ closes = 0 /\ manager = 0 /\ bench \in Benches
  BY DEF Server!Init
<1>2. asker = [a \in bench.askers |-> [at |-> "rests", client |-> 0, of |-> 0]]
  BY DEF Server!Init, Server!Resting
<1>3. <<>> \in Seq(ServerClient) /\ <<>> \in Seq(Said) /\ Len(<<>>) = 0
  OBVIOUS
<1>4. ServerTyped
  BY <1>1, <1>2, <1>3 DEF ServerTyped
<1>5. AskersServed
  BY <1>2 DEF AskersServed
<1> QED
  BY <1>1, <1>3, <1>4, <1>5 DEF ServerInv, AnswersInOrder, OneRuns

\* A client that is opened was sent the text that there is, and goes on as it was.
LEMMA OpenedIs ==
  ASSUME ServerTyped, NEW client \in ServerClient, InOrder(client)
  PROVE  /\ Server!Opened(client) \in ServerClient /\ InOrder(Server!Opened(client))
         /\ Server!Opened(client).sent = text /\ Server!Opened(client).batch = client.batch
         /\ Server!Opened(client).exited = client.exited /\ Server!Opened(client).proc = client.proc
         /\ Server!Opened(client).closing = client.closing
<1>1. CASE client.sent = text
  BY <1>1 DEF Server!Opened
<1>2. CASE client.sent # text
  <2> DEFINE open == [client EXCEPT !.sent = text, !.owed = Append(client.owed, text)]
  <2>1. Server!Opened(client) = open
    BY <1>2 DEF Server!Opened
  <2>2. text \in Nat /\ client.owed \in Seq(Nat) /\ client.sent \in Nat
    BY DEF ServerTyped, ServerClient
  <2>3. /\ Append(client.owed, text) \in Seq(Nat) /\ Len(Append(client.owed, text)) = Len(client.owed) + 1
        /\ Append(client.owed, text)[Len(client.owed) + 1] = text
        /\ \A i \in 1..Len(client.owed) : Append(client.owed, text)[i] = client.owed[i]
    BY <2>2
  <2>4. open \in ServerClient /\ open.sent = text /\ open.owed = Append(client.owed, text) /\ open.batch = client.batch
        /\ open.exited = client.exited /\ open.proc = client.proc /\ open.closing = client.closing
    BY <2>2, <2>3 DEF ServerClient
  <2>5. client.batch \in Nat /\ client.batch <= text
    BY <2>2 DEF ServerClient, InOrder
  <2> HIDE DEF open
  <2>6. InOrder(open)
    BY <2>2, <2>3, <2>4, <2>5 DEF InOrder
  <2> QED
    BY <2>1, <2>4, <2>6
<1> QED
  BY <1>1, <1>2

\* Texts only get newer, for clients that go on.
LEMMA ClientsGoOn ==
  ASSUME ServerInv, clients' \in Seq(ServerClient), Len(clients) <= Len(clients'), UNCHANGED answers,
         \A c \in 1..Len(clients) : clients'[c].sent >= clients[c].sent /\ clients'[c].batch >= clients[c].batch
  PROVE  AnswersInOrder'
<1>1. \A c \in 1..Len(clients) : clients[c] \in ServerClient /\ clients'[c] \in ServerClient
  BY DEF ServerInv, ServerTyped
<1>2. \A i \in 1..Len(answers) : answers[i] \in Said
  BY DEF ServerInv, ServerTyped
<1>3. \A c \in 1..Len(clients) : {clients[c].batch, clients'[c].batch} \subseteq Nat
  BY <1>1, ClientFields
<1>4. \A i \in 1..Len(answers) : answers[i].batch \in Nat
  BY <1>2 DEF Said
<1>5. ASSUME NEW i \in 1..Len(answers)
      PROVE  answers[i].client \in 1..Len(clients') /\ answers[i].batch <= clients'[answers[i].client].batch
  <2>1. answers[i].client \in 1..Len(clients) /\ answers[i].batch <= clients[answers[i].client].batch
    BY DEF ServerInv, AnswersInOrder
  <2>2. Len(clients) \in Nat /\ Len(clients') \in Nat
    BY DEF ServerInv, ServerTyped
  <2> QED
    BY <1>3, <1>4, <2>1, <2>2
<1> QED
  BY <1>5 DEF ServerInv, AnswersInOrder

LEMMA AskKeeps ==
  ASSUME ServerInv, NEW a \in bench.askers, Server!Ask(a)
  PROVE  ServerInv'
<1> DEFINE alive == manager # 0 /\ ~clients[manager].exited
<1>0. Server!Alive(manager) <=> alive
  BY DEF Server!Alive
<1>1. /\ UNCHANGED <<bench, text, answers, closes>> /\ closes = 0 /\ asker[a].at = "rests"
      /\ clients \in Seq(ServerClient) /\ text \in Nat /\ manager \in 0..Len(clients)
  BY DEF Server!Ask, ServerInv, ServerTyped
<1>a. /\ asker \in [bench.askers -> [at : {"rests", "starts", "requests", "diagnoses"}, client : Nat, of : Nat]]
      /\ answers' \in Seq(Said)
  BY <1>1 DEF ServerInv, ServerTyped
<1>2. CASE alive /\ clients[manager].boot = "up"
  <2>1. PICK kind \in {"requests", "diagnoses"} :
          /\ manager' = manager /\ clients' = [clients EXCEPT ![manager] = Server!Opened(clients[manager])]
          /\ asker' = [asker EXCEPT ![a] = [at |-> kind, client |-> manager, of |-> text]]
    BY <1>0, <1>2 DEF Server!Ask
  <2>2. manager \in 1..Len(clients) /\ clients[manager] \in ServerClient /\ InOrder(clients[manager])
    BY <1>1, <1>2 DEF ServerInv
  <2> DEFINE open == Server!Opened(clients[manager])
  <2>3. /\ open \in ServerClient /\ InOrder(open) /\ open.sent = text /\ open.batch = clients[manager].batch
        /\ open.exited = clients[manager].exited /\ open.proc = clients[manager].proc
        /\ open.closing = clients[manager].closing /\ clients[manager].sent <= text
    BY <2>2, OpenedIs DEF ServerInv, InOrder
  <2> HIDE DEF open
  <2>4. clients' = [clients EXCEPT ![manager] = open]
    BY <2>1 DEF open
  <2>5. /\ clients' \in Seq(ServerClient) /\ Len(clients') = Len(clients) /\ clients'[manager] = open
        /\ \A c \in 1..Len(clients) : c # manager => clients'[c] = clients[c]
    BY <1>1, <2>2, <2>3, <2>4
  <2>6. ServerTyped'
    BY <1>1, <1>a, <2>1, <2>2, <2>5 DEF ServerInv, ServerTyped
  <2>7. \A c \in 1..Len(clients) : clients'[c].sent >= clients[c].sent /\ clients'[c].batch >= clients[c].batch
    <3>1. \A c \in 1..Len(clients) : clients[c].sent \in Nat /\ clients[c].batch \in Nat
      BY <1>1, ClientFields
    <3> QED
      BY <1>1, <2>2, <2>3, <2>5, <3>1
  <2>8. AnswersInOrder'
    BY <1>1, <2>5, <2>7, ClientsGoOn
  <2>9. \A c \in 1..Len(clients') : InOrder(clients[c])'
    BY <1>1, <2>2, <2>3, <2>5 DEF ServerInv, InOrder
  <2>10. AskersServed'
    <3>1. \A b \in bench.askers : b # a => asker'[b] = asker[b]
      BY <1>a, <2>1
    <3>2. asker'[a] = [at |-> kind, client |-> manager, of |-> text]
      BY <1>a, <2>1
    <3>3. \A c \in 1..Len(clients) : clients[c] \in ServerClient /\ clients'[c] \in ServerClient
      BY <1>1, <2>5
    <3>4. \A b \in bench.askers : asker[b].of \in Nat
      BY <1>a
    <3>5. \A c \in 1..Len(clients) : clients'[c].exited = clients[c].exited
      BY <2>3, <2>5
    <3>6. ~clients'[manager].exited /\ clients'[manager].sent >= text
      BY <1>1, <1>2, <2>2, <2>3, <2>5
    <3> QED
      <4>1. ASSUME NEW b \in bench.askers, b # a
            PROVE  /\ asker'[b].at # "rests" => asker'[b].client \in 1..Len(clients')
                   /\ asker'[b].at \in {"starts", "requests"} => ~clients'[asker'[b].client].exited
                   /\ asker'[b].at \in {"requests", "diagnoses"} => clients'[asker'[b].client].sent >= asker'[b].of
        <5>1. asker'[b] = asker[b] /\ asker[b].of \in Nat
          BY <3>1, <3>4, <4>1
        <5>2. asker[b].at # "rests" => asker[b].client \in 1..Len(clients)
          BY DEF ServerInv, AskersServed
        <5>3. asker[b].at \in {"starts", "requests"} => ~clients[asker[b].client].exited
          BY DEF ServerInv, AskersServed
        <5>4. asker[b].at \in {"requests", "diagnoses"} => clients[asker[b].client].sent >= asker[b].of
          BY DEF ServerInv, AskersServed
        <5>5. \A c \in 1..Len(clients) : clients[c].sent \in Nat /\ clients'[c].sent \in Nat
          BY <3>3, ClientFields
        <5> QED
          BY <2>5, <2>7, <3>5, <5>1, <5>2, <5>3, <5>4, <5>5
      <4> QED
        BY <1>1, <2>2, <2>5, <3>2, <3>6, <4>1 DEF AskersServed
  <2>11. OneRuns'
    BY <1>1, <2>1, <2>2, <2>3, <2>5 DEF ServerInv, OneRuns
  <2> QED
    BY <2>6, <2>8, <2>9, <2>10, <2>11 DEF ServerInv
<1>3. CASE alive /\ clients[manager].boot # "up"
  <2>1. /\ manager' = manager /\ clients' = clients
        /\ asker' = [asker EXCEPT ![a] = [at |-> "starts", client |-> manager, of |-> 0]]
    BY <1>0, <1>3 DEF Server!Ask
  <2>2. manager \in 1..Len(clients)
    BY <1>1, <1>3
  <2>3. ServerTyped'
    BY <1>1, <1>a, <2>1 DEF ServerInv, ServerTyped
  <2>4. AskersServed'
    BY <1>1, <1>3, <1>a, <2>1, <2>2 DEF ServerInv, AskersServed
  <2> QED
    BY <1>1, <2>1, <2>3, <2>4 DEF ServerInv, AnswersInOrder, OneRuns, InOrder
<1>4. CASE ~alive
  <2> DEFINE n == Len(clients) + 1
  <2>1. /\ manager' = n /\ clients' = Append(clients, Server!Spawned)
        /\ asker' = [asker EXCEPT ![a] = [at |-> "starts", client |-> n, of |-> 0]]
    BY <1>0, <1>4 DEF Server!Ask
  <2>2. /\ Server!Spawned \in ServerClient /\ ~Server!Spawned.exited
        /\ \A t \in Nat : 0 <= t
        /\ Server!Spawned.sent = 0 /\ Server!Spawned.owed = <<>> /\ Server!Spawned.batch = 0
    BY DEF Server!Spawned, ServerClient
  <2>3. /\ clients' \in Seq(ServerClient) /\ Len(clients') = n /\ clients'[n] = Server!Spawned
        /\ \A c \in 1..Len(clients) : clients'[c] = clients[c]
    BY <1>1, <2>1, <2>2
  <2>4. ServerTyped'
    BY <1>1, <1>a, <2>1, <2>3 DEF ServerInv, ServerTyped
  <2>5. AskersServed'
    BY <1>1, <1>a, <2>1, <2>2, <2>3 DEF ServerInv, AskersServed
  <2>6. AnswersInOrder'
    <3>1. \A c \in 1..Len(clients) : clients'[c].sent >= clients[c].sent /\ clients'[c].batch >= clients[c].batch
      <4>1. \A c \in 1..Len(clients) : clients[c].sent \in Nat /\ clients[c].batch \in Nat
        BY <1>1, ClientFields
      <4> QED
        BY <2>3, <4>1
    <3> QED
      BY <1>1, <2>3, <3>1, ClientsGoOn
  <2>7. \A c \in 1..Len(clients') : InOrder(clients[c])'
    <3>1. \A c \in 1..Len(clients) : InOrder(clients[c])
      BY DEF ServerInv
    <3>2. \A c \in 1..Len(clients) : InOrder(clients[c])'
      BY <1>1, <2>3, <3>1 DEF InOrder
    <3>3. ASSUME NEW c \in 1..Len(clients'), c = n PROVE InOrder(clients[c])'
      BY <1>1, <2>2, <2>3, <3>3 DEF InOrder
    <3> QED
      BY <1>1, <2>3, <3>2, <3>3
  <2>8. OneRuns'
    <3>1. ~bench.fails => \A c \in 1..Len(clients) : clients[c].exited
      BY <1>1, <1>4 DEF ServerInv, OneRuns
    <3>2. \A c \in 1..Len(clients) : clients[c].exited => clients[c].proc # "lives"
      BY <1>1 DEF ServerInv, InOrder
    <3> QED
      BY <1>1, <2>1, <2>3, <3>1, <3>2 DEF OneRuns
  <2> QED
    BY <2>4, <2>5, <2>6, <2>7, <2>8 DEF ServerInv
<1> QED
  BY <1>2, <1>3, <1>4

\* The client that a step is about, and the others, when one client is replaced.
LEMMA OneChanges ==
  ASSUME ServerInv, NEW c \in 1..Len(clients), NEW new \in ServerClient, clients' = [clients EXCEPT ![c] = new]
  PROVE  /\ clients' \in Seq(ServerClient) /\ Len(clients') = Len(clients) /\ clients'[c] = new
         /\ \A d \in 1..Len(clients) : d # c => clients'[d] = clients[d]
         /\ \A d \in 1..Len(clients) : clients[d] \in ServerClient /\ InOrder(clients[d])
BY DEF ServerInv, ServerTyped

LEMMA OneGoesOn ==
  ASSUME ServerInv, NEW c \in 1..Len(clients), NEW new \in ServerClient, clients' = [clients EXCEPT ![c] = new],
         UNCHANGED answers, new.sent >= clients[c].sent, new.batch >= clients[c].batch
  PROVE  AnswersInOrder'
<1>1. /\ clients' \in Seq(ServerClient) /\ Len(clients') = Len(clients) /\ clients'[c] = new
      /\ \A d \in 1..Len(clients) : d # c => clients'[d] = clients[d]
  BY OneChanges
<1>2. \A d \in 1..Len(clients) : clients[d].sent \in Nat /\ clients[d].batch \in Nat
  BY OneChanges, ClientFields
<1>3. \A d \in 1..Len(clients) : clients'[d].sent >= clients[d].sent /\ clients'[d].batch >= clients[d].batch
  BY <1>1, <1>2
<1> QED
  BY <1>1, <1>3, ClientsGoOn DEF ServerInv, ServerTyped

\* Who does not ask anew waits for what it waited for.
LEMMA WaitsOn ==
  ASSUME ServerInv, NEW c \in 1..Len(clients), NEW new \in ServerClient, clients' = [clients EXCEPT ![c] = new],
         new.sent >= clients[c].sent, NEW a \in bench.askers, asker'[a] = asker[a],
         asker[a].at \in {"starts", "requests"} /\ asker[a].client = c => new.exited = clients[c].exited
  PROVE  /\ asker'[a].at # "rests" => asker'[a].client \in 1..Len(clients')
         /\ asker'[a].at \in {"starts", "requests"} => ~clients'[asker'[a].client].exited
         /\ asker'[a].at \in {"requests", "diagnoses"} => clients'[asker'[a].client].sent >= asker'[a].of
<1>1. asker[a].of \in Nat
  BY DEF ServerInv, ServerTyped
<1>2. /\ asker[a].at # "rests" => asker[a].client \in 1..Len(clients)
      /\ asker[a].at \in {"starts", "requests"} => ~clients[asker[a].client].exited
      /\ asker[a].at \in {"requests", "diagnoses"} => clients[asker[a].client].sent >= asker[a].of
      /\ asker[a].at \in {"rests", "starts", "requests", "diagnoses"}
  BY DEF ServerInv, AskersServed, ServerTyped
<1>3. new.sent \in Nat /\ clients[c].sent \in Nat
  BY OneChanges, ClientFields
<1> QED
  BY <1>1, <1>2, <1>3, OneChanges

LEMMA BootsKeeps ==
  ASSUME ServerInv, NEW c \in DOMAIN clients, Server!Boots(c)
  PROVE  ServerInv'
<1>1. /\ UNCHANGED <<bench, text, manager, answers, closes>> /\ c \in 1..Len(clients)
      /\ clients[c].proc = "lives" /\ clients[c] \in ServerClient /\ InOrder(clients[c]) /\ ~clients[c].exited
      /\ text \in Nat /\ clients[c].sent <= text /\ clients[c].sent \in Nat /\ clients[c].batch \in Nat
  <2>1. c \in 1..Len(clients) /\ clients[c] \in ServerClient
    BY DEF ServerInv, ServerTyped
  <2> QED
    BY <2>1, ClientFields DEF Server!Boots, ServerInv, ServerTyped, InOrder
<1> DEFINE new == [Server!Opened(clients[c]) EXCEPT !.boot = "up"]
<1>2. PICK kinds \in [Server!At("starts", c) -> {"requests", "diagnoses"}] :
        asker' = [a \in bench.askers |-> IF a \in Server!At("starts", c) THEN Server!Begun(a, kinds[a]) ELSE asker[a]]
  BY DEF Server!Boots
<1>3. /\ Server!Opened(clients[c]) \in ServerClient /\ InOrder(Server!Opened(clients[c]))
      /\ Server!Opened(clients[c]).sent = text /\ Server!Opened(clients[c]).batch = clients[c].batch
      /\ Server!Opened(clients[c]).exited = clients[c].exited /\ Server!Opened(clients[c]).proc = clients[c].proc
      /\ Server!Opened(clients[c]).closing = clients[c].closing
  BY <1>1, OpenedIs DEF ServerInv
<1>4. /\ new \in ServerClient /\ new.sent = text /\ new.batch = clients[c].batch /\ new.exited = clients[c].exited
      /\ new.proc = clients[c].proc /\ new.closing = clients[c].closing
      /\ new.owed = Server!Opened(clients[c]).owed
  BY <1>3 DEF ServerClient
<1>5. InOrder(new)
  <2> HIDE DEF new
  <2> QED
    BY <1>3, <1>4 DEF InOrder
<1>6. clients' = [clients EXCEPT ![c] = new]
  BY DEF Server!Boots
<1> HIDE DEF new
<1>7. /\ clients' \in Seq(ServerClient) /\ Len(clients') = Len(clients) /\ clients'[c] = new
      /\ \A d \in 1..Len(clients) : d # c => clients'[d] = clients[d]
      /\ \A d \in 1..Len(clients) : clients[d] \in ServerClient /\ InOrder(clients[d])
  BY <1>1, <1>4, <1>6, OneChanges
<1>8. ASSUME NEW a \in bench.askers
      PROVE  \/ asker'[a] = asker[a]
             \/ asker'[a] = [at |-> "requests", client |-> c, of |-> text]
             \/ asker'[a] = [at |-> "diagnoses", client |-> c, of |-> text]
  BY <1>2 DEF Server!At, Server!Begun
<1>9. ServerTyped'
  <2>1. asker' \in [bench.askers -> [at : {"rests", "starts", "requests", "diagnoses"}, client : Nat, of : Nat]]
    <3>1. \A a \in bench.askers : asker'[a] \in [at : {"rests", "starts", "requests", "diagnoses"}, client : Nat, of : Nat]
      <4>1. \A k \in {"requests", "diagnoses"} :
              [at |-> k, client |-> c, of |-> text] \in [at : {"rests", "starts", "requests", "diagnoses"}, client : Nat, of : Nat]
        BY <1>1
      <4>2. \A a \in bench.askers : asker[a] \in [at : {"rests", "starts", "requests", "diagnoses"}, client : Nat, of : Nat]
        BY DEF ServerInv, ServerTyped
      <4> QED
        BY <1>8, <4>1, <4>2
    <3>2. asker' = [a \in bench.askers |-> asker'[a]]
      BY <1>2
    <3> QED
      BY <3>1, <3>2
  <2> QED
    BY <1>1, <1>7, <2>1 DEF ServerInv, ServerTyped
<1>10. AskersServed'
  <2>1. ASSUME NEW a \in bench.askers
        PROVE  /\ asker'[a].at # "rests" => asker'[a].client \in 1..Len(clients')
               /\ asker'[a].at \in {"starts", "requests"} => ~clients'[asker'[a].client].exited
               /\ asker'[a].at \in {"requests", "diagnoses"} => clients'[asker'[a].client].sent >= asker'[a].of
    <3>1. CASE asker'[a] = asker[a]
      BY <1>1, <1>4, <1>6, <3>1, WaitsOn
    <3>2. CASE asker'[a] # asker[a]
      BY <1>1, <1>4, <1>7, <1>8, <3>2
    <3> QED
      BY <3>1, <3>2
  <2> QED
    BY <1>1, <2>1 DEF AskersServed
<1>11. AnswersInOrder'
  <2>1. new.sent >= clients[c].sent /\ new.batch >= clients[c].batch /\ UNCHANGED answers
    BY <1>1, <1>4
  <2> QED
    BY <1>1, <1>4, <1>6, <2>1, OneGoesOn
<1>12. \A d \in 1..Len(clients') : InOrder(clients[d])'
  BY <1>1, <1>5, <1>7 DEF InOrder
<1>13. OneRuns'
  BY <1>1, <1>4, <1>7 DEF ServerInv, OneRuns
<1> QED
  BY <1>9, <1>10, <1>11, <1>12, <1>13 DEF ServerInv

\* What an answer, a time limit or an end does to the askers: they rest.
LEMMA Rests ==
  ASSUME ServerInv, NEW some \in SUBSET bench.askers, Server!Rest(some), UNCHANGED bench
  PROVE  /\ asker' \in [bench.askers -> [at : {"rests", "starts", "requests", "diagnoses"}, client : Nat, of : Nat]]
         /\ \A a \in some : asker'[a].at = "rests"
         /\ \A a \in bench.askers \ some : asker'[a] = asker[a]
<1>1. asker' = [a \in bench.askers |-> IF a \in some THEN [at |-> "rests", client |-> 0, of |-> 0] ELSE asker[a]]
  BY DEF Server!Rest, Server!Resting
<1>2. asker \in [bench.askers -> [at : {"rests", "starts", "requests", "diagnoses"}, client : Nat, of : Nat]]
  BY DEF ServerInv, ServerTyped
<1>3. [at |-> "rests", client |-> 0, of |-> 0] \in [at : {"rests", "starts", "requests", "diagnoses"}, client : Nat, of : Nat]
  OBVIOUS
<1> QED
  BY <1>1, <1>2, <1>3

\* Answers that come together are of one client, and none is older than what it had before.
LEMMA DiagnosedKeeps ==
  ASSUME ServerInv, NEW c \in 1..Len(clients), NEW some \in SUBSET Server!At("diagnoses", c),
         NEW batch \in Nat, NEW how \in {"published", "waited"}, Server!Diagnosed(some, batch, how),
         clients' \in Seq(ServerClient), Len(clients') = Len(clients), batch >= clients[c].batch, clients'[c].batch = batch,
         \A d \in 1..Len(clients) : d # c => clients'[d] = clients[d]
  PROVE  answers' \in Seq(Said) /\ AnswersInOrder'
<1>1. PICK order \in Server!SetToSeqs(some) :
        answers' = answers \o [i \in DOMAIN order |->
          [client |-> asker[order[i]].client, of |-> asker[order[i]].of, batch |-> batch, how |-> how]]
  BY DEF Server!Diagnosed
<1>2. order \in [1..Cardinality(some) -> some] /\ Cardinality(some) \in Nat
  <2>1. IsFiniteSet(bench.askers)
    BY BenchesAssumption DEF ServerInv, ServerTyped
  <2>2. some \in SUBSET bench.askers
    BY DEF Server!At
  <2>3. IsFiniteSet(some)
    BY <2>1, <2>2, FS_Subset
  <2> QED
    BY <1>1, <2>3, FS_CardinalityType, ServerCardinality DEF Server!SetToSeqs
<1> DEFINE n == Cardinality(some)
<1> DEFINE more == [i \in 1..n |-> [client |-> asker[order[i]].client, of |-> asker[order[i]].of, batch |-> batch, how |-> how]]
<1>3. answers' = answers \o more
  BY <1>1, <1>2
<1>4. \A i \in 1..n : more[i] \in Said /\ more[i].client = c /\ more[i].batch = batch
  <2>1. \A i \in 1..n : order[i] \in bench.askers /\ asker[order[i]].client = c /\ asker[order[i]].of \in Nat
    BY <1>2 DEF Server!At, ServerInv, ServerTyped
  <2> QED
    BY <2>1 DEF Said
<1>5. more \in Seq(Said) /\ Len(more) = n /\ n \in Nat
  <2>1. n \in Nat
    BY <1>2
  <2>2. more \in [1..n -> Said]
    BY <1>4
  <2> HIDE DEF more, n
  <2> QED
    BY <2>1, <2>2
<1> HIDE DEF more, n
<1>6. answers \in Seq(Said)
  BY DEF ServerInv, ServerTyped
<1>7. /\ answers' \in Seq(Said) /\ Len(answers') = Len(answers) + n
      /\ \A i \in 1..Len(answers) : answers'[i] = answers[i]
      /\ \A i \in 1..Len(answers') : i > Len(answers) => answers'[i].client = c /\ answers'[i].batch = batch
  <2>1. answers' \in Seq(Said) /\ Len(answers') = Len(answers) + n
    BY <1>3, <1>5, <1>6, ConcatProperties
  <2>2. \A i \in 1..Len(answers) : answers'[i] = answers[i]
    BY <1>3, <1>5, <1>6
  <2>3. ASSUME NEW i \in 1..Len(answers'), i > Len(answers) PROVE answers'[i].client = c /\ answers'[i].batch = batch
    <3>1. answers'[i] = more[i - Len(answers)] /\ i - Len(answers) \in 1..n
      BY <1>3, <1>5, <1>6, <2>1, <2>3
    <3> QED
      BY <1>4, <3>1
  <2> QED
    BY <2>1, <2>2, <2>3
<1>8. ASSUME NEW i \in 1..Len(answers)
      PROVE  /\ answers[i].client \in 1..Len(clients) /\ answers[i].batch \in Nat
             /\ answers[i].batch <= clients[answers[i].client].batch
             /\ answers[i].batch <= clients'[answers[i].client].batch
  <2>1. answers[i].client \in 1..Len(clients) /\ answers[i].batch <= clients[answers[i].client].batch
    BY DEF ServerInv, AnswersInOrder
  <2>2. answers[i] \in Said /\ answers[i].batch \in Nat
    <3>1. answers[i] \in Said
      BY <1>6
    <3> QED
      BY <3>1 DEF Said
  <2>3. clients[c].batch \in Nat
    BY ClientFields DEF ServerInv, ServerTyped
  <2> QED
    BY <2>1, <2>2, <2>3
<1>9. ASSUME NEW i \in 1..Len(answers'), NEW j \in 1..Len(answers'), i < j, answers'[i].client = answers'[j].client
      PROVE  answers'[i].batch <= answers'[j].batch
  <2>1. CASE j <= Len(answers)
    <3>1. i \in 1..Len(answers) /\ j \in 1..Len(answers)
      BY <1>6, <1>7, <1>9, <2>1
    <3> QED
      BY <1>7, <1>9, <3>1 DEF ServerInv, AnswersInOrder
  <2>2. CASE j > Len(answers) /\ i <= Len(answers)
    <3>1. i \in 1..Len(answers)
      BY <1>6, <1>7, <2>2
    <3> QED
      BY <1>7, <1>8, <1>9, <2>2, <3>1
  <2>3. CASE j > Len(answers) /\ i > Len(answers)
    BY <1>7, <2>3
  <2> QED
    BY <1>6, <1>7, <2>1, <2>2, <2>3
<1>10. ASSUME NEW i \in 1..Len(answers')
       PROVE  answers'[i].client \in 1..Len(clients') /\ answers'[i].batch <= clients'[answers'[i].client].batch
  <2>1. CASE i <= Len(answers)
    BY <1>6, <1>7, <1>8, <2>1
  <2>2. CASE i > Len(answers)
    BY <1>7, <2>2
  <2> QED
    BY <1>6, <1>7, <2>1, <2>2
<1> QED
  BY <1>7, <1>9, <1>10 DEF AnswersInOrder

\* A step that replaces one client by one that was sent and published no less, while some askers come to rest.
LEMMA OneChangesAndRests ==
  ASSUME ServerInv, NEW c \in 1..Len(clients), NEW new \in ServerClient, clients' = [clients EXCEPT ![c] = new],
         new.sent >= clients[c].sent, new.batch >= clients[c].batch, InOrder(new),
         NEW some \in SUBSET bench.askers, Server!Rest(some), UNCHANGED <<bench, text, answers, closes>>,
         \A a \in bench.askers \ some :
           asker[a].at \in {"starts", "requests"} /\ asker[a].client = c => new.exited = clients[c].exited,
         manager' \in 0..Len(clients), OneRuns'
  PROVE  ServerInv'
<1>1. /\ clients' \in Seq(ServerClient) /\ Len(clients') = Len(clients) /\ clients'[c] = new
      /\ \A d \in 1..Len(clients) : d # c => clients'[d] = clients[d]
      /\ \A d \in 1..Len(clients) : clients[d] \in ServerClient /\ InOrder(clients[d])
  BY OneChanges
<1>2. ServerTyped'
  BY <1>1, Rests DEF ServerInv, ServerTyped
<1>3. AskersServed'
  <2>1. ASSUME NEW a \in bench.askers
        PROVE  /\ asker'[a].at # "rests" => asker'[a].client \in 1..Len(clients')
               /\ asker'[a].at \in {"starts", "requests"} => ~clients'[asker'[a].client].exited
               /\ asker'[a].at \in {"requests", "diagnoses"} => clients'[asker'[a].client].sent >= asker'[a].of
    <3>1. CASE a \in some
      BY <3>1, Rests
    <3>2. CASE a \notin some
      <4>1. asker'[a] = asker[a]
        BY <3>2, Rests
      <4> QED
        BY <3>2, <4>1, WaitsOn
    <3> QED
      BY <3>1, <3>2
  <2> QED
    BY <2>1 DEF AskersServed
<1>4. AnswersInOrder'
  BY OneGoesOn
<1>5. \A d \in 1..Len(clients') : InOrder(clients[d])'
  BY <1>1 DEF InOrder
<1> QED
  BY <1>2, <1>3, <1>4, <1>5 DEF ServerInv

LEMMA BootFailsKeeps ==
  ASSUME ServerInv, NEW c \in DOMAIN clients, Server!BootFails(c)
  PROVE  ServerInv'
<1>1. c \in 1..Len(clients) /\ clients[c] \in ServerClient /\ InOrder(clients[c])
  BY DEF ServerInv, ServerTyped
<1> DEFINE new == [clients[c] EXCEPT !.boot = "failed"]
<1>2. /\ new \in ServerClient /\ new.sent = clients[c].sent /\ new.batch = clients[c].batch /\ new.owed = clients[c].owed
      /\ new.exited = clients[c].exited /\ new.proc = clients[c].proc
  BY <1>1 DEF ServerClient
<1>3. new.sent \in Nat /\ new.batch \in Nat
  BY <1>1, <1>2, ClientFields
<1>4. clients' = [clients EXCEPT ![c] = new]
  BY DEF Server!BootFails
<1> HIDE DEF new
<1>5. InOrder(new)
  BY <1>1, <1>2 DEF InOrder
<1>6. /\ bench.fails /\ manager' = 0 /\ UNCHANGED <<bench, text, answers, closes>>
      /\ Server!Rest(Server!At("starts", c)) /\ Server!At("starts", c) \in SUBSET bench.askers
  BY DEF Server!BootFails, Server!At
<1>7. OneRuns'
  BY <1>6 DEF OneRuns
<1>8. manager' \in 0..Len(clients)
  BY <1>1, <1>6 DEF ServerInv, ServerTyped
<1>9. new.sent >= clients[c].sent /\ new.batch >= clients[c].batch
  BY <1>2, <1>3
<1> QED
  BY <1>1, <1>2, <1>4, <1>5, <1>6, <1>7, <1>8, <1>9, OneChangesAndRests

LEMMA DiesKeeps ==
  ASSUME ServerInv, NEW c \in DOMAIN clients, Server!Dies(c)
  PROVE  ServerInv'
<1>1. c \in 1..Len(clients) /\ clients[c] \in ServerClient /\ InOrder(clients[c])
  BY DEF ServerInv, ServerTyped
<1> DEFINE new == [clients[c] EXCEPT !.proc = "gone"]
<1>2. /\ new \in ServerClient /\ new.sent = clients[c].sent /\ new.batch = clients[c].batch /\ new.owed = clients[c].owed
      /\ new.exited = clients[c].exited /\ new.proc = "gone"
  BY <1>1 DEF ServerClient
<1>3. new.sent \in Nat /\ new.batch \in Nat
  BY <1>1, <1>2, ClientFields
<1>4. clients' = [clients EXCEPT ![c] = new]
  BY DEF Server!Dies
<1> HIDE DEF new
<1>5. InOrder(new)
  BY <1>1, <1>2 DEF InOrder
<1>6. UNCHANGED <<bench, text, answers, closes, manager, asker>>
  BY DEF Server!Dies
<1>7. Server!Rest({})
  BY <1>6 DEF Server!Rest, ServerInv, ServerTyped
<1>8. OneRuns'
  <2>1. /\ Len(clients') = Len(clients) /\ clients'[c] = new /\ \A d \in 1..Len(clients) : d # c => clients'[d] = clients[d]
    BY <1>1, <1>2, <1>4, OneChanges
  <2> QED
    BY <1>1, <1>2, <1>6, <2>1 DEF ServerInv, OneRuns
<1>9. manager' \in 0..Len(clients) /\ {} \in SUBSET bench.askers
  BY <1>6 DEF ServerInv, ServerTyped
<1>10. new.sent >= clients[c].sent /\ new.batch >= clients[c].batch
  BY <1>2, <1>3
<1> QED
  BY <1>1, <1>2, <1>4, <1>5, <1>6, <1>7, <1>8, <1>9, <1>10, OneChangesAndRests

LEMMA ExitSeenKeeps ==
  ASSUME ServerInv, NEW c \in DOMAIN clients, Server!ExitSeen(c)
  PROVE  ServerInv'
<1>1. c \in 1..Len(clients) /\ clients[c] \in ServerClient /\ InOrder(clients[c]) /\ clients[c].proc = "gone" /\ ~clients[c].exited
  BY DEF ServerInv, ServerTyped, Server!ExitSeen
<1> DEFINE new == [clients[c] EXCEPT !.exited = TRUE, !.boot = IF clients[c].boot = "boots" THEN "failed" ELSE clients[c].boot]
<1>2. /\ new \in ServerClient /\ new.sent = clients[c].sent /\ new.batch = clients[c].batch /\ new.owed = clients[c].owed
      /\ new.exited /\ new.proc = "gone"
  BY <1>1 DEF ServerClient
<1>3. new.sent \in Nat /\ new.batch \in Nat
  BY <1>1, <1>2, ClientFields
<1>4. clients' = [clients EXCEPT ![c] = new]
  BY DEF Server!ExitSeen
<1> HIDE DEF new
<1>5. InOrder(new)
  BY <1>1, <1>2 DEF InOrder
<1> DEFINE some == Server!At("starts", c) \cup Server!At("requests", c)
<1>6. /\ UNCHANGED <<bench, text, answers, closes>> /\ manager' \in {0, manager}
      /\ Server!Rest(some) /\ some \in SUBSET bench.askers
  BY DEF Server!ExitSeen, Server!At
<1>7. OneRuns'
  <2>1. /\ Len(clients') = Len(clients) /\ clients'[c] = new /\ \A d \in 1..Len(clients) : d # c => clients'[d] = clients[d]
    BY <1>1, <1>2, <1>4, OneChanges
  <2>2. \A d \in 1..Len(clients) : clients[d].proc = "lives" => ~clients[d].exited
    BY DEF ServerInv, InOrder
  <2>3. ASSUME ~bench.fails, NEW d \in 1..Len(clients)
        PROVE  /\ ~clients'[d].exited => manager' = d \/ closes' > 0
               /\ clients'[d].proc = "lives" /\ ~clients'[d].closing => manager' = d
    <3>1. CASE d = c
      BY <1>2, <2>1, <3>1
    <3>2. CASE d # c
      BY <1>1, <1>6, <2>1, <2>2, <2>3, <3>2 DEF ServerInv, OneRuns
    <3> QED
      BY <3>1, <3>2
  <2> QED
    BY <1>6, <2>1, <2>3 DEF ServerInv, OneRuns
<1>8. manager' \in 0..Len(clients)
  BY <1>1, <1>6 DEF ServerInv, ServerTyped
<1>9. \A a \in bench.askers \ some : ~(asker[a].at \in {"starts", "requests"} /\ asker[a].client = c)
  BY DEF Server!At
<1>10. new.sent >= clients[c].sent /\ new.batch >= clients[c].batch
  BY <1>2, <1>3
<1>11. \A a \in bench.askers \ some :
         asker[a].at \in {"starts", "requests"} /\ asker[a].client = c => new.exited = clients[c].exited
  BY <1>9
<1>13. c \in 1..Len(clients) /\ new \in ServerClient
  BY <1>1, <1>2
<1>12. Server!Rest(some) /\ some \in SUBSET bench.askers /\ UNCHANGED <<bench, text, answers, closes>>
  BY <1>6
<1> HIDE DEF some
<1> QED
  BY <1>4, <1>5, <1>7, <1>8, <1>10, <1>11, <1>12, <1>13, OneChangesAndRests

LEMMA RestOfTexts ==
  ASSUME NEW s \in Seq(Nat), NEW i \in 1..Len(s)
  PROVE  /\ SubSeq(s, i + 1, Len(s)) \in Seq(Nat) /\ Len(SubSeq(s, i + 1, Len(s))) = Len(s) - i
         /\ \A k \in 1..Len(SubSeq(s, i + 1, Len(s))) :
              k + i \in 1..Len(s) /\ SubSeq(s, i + 1, Len(s))[k] = s[k + i]
<1>1. Len(s) \in Nat /\ i \in Nat
  OBVIOUS
<1>2. Len(SubSeq(s, i + 1, Len(s))) = Len(s) - i
  BY <1>1
<1>3. ASSUME NEW k \in 1..(Len(s) - i)
      PROVE  k + i \in 1..Len(s) /\ SubSeq(s, i + 1, Len(s))[k] = s[k + i]
  <2>1. k \in Nat /\ k + i \in 1..Len(s) /\ (i + 1) + k - 1 = k + i
    BY <1>1
  <2> QED
    BY <1>1, <2>1
<1>4. SubSeq(s, i + 1, Len(s)) \in Seq(Nat)
  <2>1. \A k \in 1..(Len(s) - i) : s[k + i] \in Nat
    BY <1>1, <1>3
  <2> QED
    BY <1>1, SubSeqProperties
<1> QED
  BY <1>2, <1>3, <1>4

LEMMA PublishKeeps ==
  ASSUME ServerInv, NEW c \in DOMAIN clients, Server!Publish(c)
  PROVE  ServerInv'
<1>1. c \in 1..Len(clients) /\ clients[c] \in ServerClient /\ InOrder(clients[c]) /\ clients[c].owed \in Seq(Nat)
  BY ClientFields DEF ServerInv, ServerTyped
<1>2. PICK i \in DOMAIN clients[c].owed :
        /\ clients' = [clients EXCEPT ![c].batch = clients[c].owed[i],
                                      ![c].owed = SubSeq(@, i + 1, Len(@))]
        /\ Server!Diagnosed(Server!At("diagnoses", c), clients[c].owed[i], "published")
  BY DEF Server!Publish
<1>a. i \in 1..Len(clients[c].owed)
  BY <1>1
<1> DEFINE rest == SubSeq(clients[c].owed, i + 1, Len(clients[c].owed))
<1> DEFINE new == [clients[c] EXCEPT !.batch = clients[c].owed[i], !.owed = rest]
<1>3. /\ rest \in Seq(Nat) /\ Len(rest) = Len(clients[c].owed) - i
      /\ \A k \in 1..Len(rest) : k + i \in 1..Len(clients[c].owed) /\ rest[k] = clients[c].owed[k + i]
  BY <1>1, <1>a, RestOfTexts
<1> HIDE DEF rest
<1>4. clients[c].owed[i] \in Nat
  BY <1>1, <1>a
<1>5. /\ new \in ServerClient /\ new.sent = clients[c].sent /\ new.batch = clients[c].owed[i] /\ new.owed = rest
      /\ new.exited = clients[c].exited /\ new.proc = clients[c].proc /\ new.closing = clients[c].closing
  BY <1>1, <1>3, <1>4 DEF ServerClient
<1>6. clients' = [clients EXCEPT ![c] = new]
  BY <1>1, <1>2 DEF rest, ServerInv, ServerTyped
<1> HIDE DEF new
<1>7. InOrder(new)
  <2>1. \A k \in 1..Len(clients[c].owed) : clients[c].owed[k] \in Nat /\ clients[c].owed[k] <= clients[c].sent
    BY <1>1 DEF InOrder
  <2>2. \A j, k \in 1..Len(clients[c].owed) : j <= k => clients[c].owed[j] <= clients[c].owed[k]
    BY <1>1 DEF InOrder
  <2>3. i \in Nat /\ Len(rest) \in Nat
    BY <1>1, <1>a, <1>3
  <2>4. \A k \in 1..Len(rest) : clients[c].owed[i] <= rest[k] /\ rest[k] <= clients[c].sent
    <3>1. ASSUME NEW k \in 1..Len(rest) PROVE clients[c].owed[i] <= clients[c].owed[k + i]
      <4>1. k + i \in 1..Len(clients[c].owed) /\ i <= k + i
        BY <1>3, <2>3
      <4> QED
        BY <1>a, <2>2, <4>1
    <3> QED
      BY <1>3, <2>1, <3>1
  <2>5. ASSUME NEW j \in 1..Len(rest), NEW k \in 1..Len(rest), j <= k PROVE rest[j] <= rest[k]
    <3>1. /\ j + i \in 1..Len(clients[c].owed) /\ k + i \in 1..Len(clients[c].owed) /\ j + i <= k + i
          /\ rest[j] = clients[c].owed[j + i] /\ rest[k] = clients[c].owed[k + i]
      BY <1>3, <2>3, <2>5
    <3> QED
      BY <2>2, <3>1
  <2> QED
    BY <1>1, <1>a, <1>5, <2>1, <2>4, <2>5 DEF InOrder
<1>8. UNCHANGED <<bench, text, manager, closes>>
  BY DEF Server!Publish
<1>9. /\ clients' \in Seq(ServerClient) /\ Len(clients') = Len(clients) /\ clients'[c] = new
      /\ \A d \in 1..Len(clients) : d # c => clients'[d] = clients[d]
      /\ \A d \in 1..Len(clients) : clients[d] \in ServerClient /\ InOrder(clients[d])
  BY <1>1, <1>5, <1>6, OneChanges
<1>10. answers' \in Seq(Said) /\ AnswersInOrder'
  <2>1. clients[c].owed[i] >= clients[c].batch
    BY <1>1, <1>a, <1>4, ClientFields DEF InOrder
  <2>2. \A d \in 1..Len(clients) : d # c => clients'[d] = clients[d]
    BY <1>9
  <2>3. clients'[c].batch = clients[c].owed[i] /\ Server!At("diagnoses", c) \in SUBSET Server!At("diagnoses", c)
    BY <1>5, <1>9
  <2> QED
    BY <1>1, <1>2, <1>a, <1>4, <1>9, <2>1, <2>2, <2>3, DiagnosedKeeps
<1>11. Server!Rest(Server!At("diagnoses", c)) /\ Server!At("diagnoses", c) \in SUBSET bench.askers
  BY <1>2 DEF Server!Diagnosed, Server!At
<1>12. ServerTyped'
  BY <1>8, <1>9, <1>10, <1>11, Rests DEF ServerInv, ServerTyped
<1>13. AskersServed'
  <2>1. ASSUME NEW a \in bench.askers
        PROVE  /\ asker'[a].at # "rests" => asker'[a].client \in 1..Len(clients')
               /\ asker'[a].at \in {"starts", "requests"} => ~clients'[asker'[a].client].exited
               /\ asker'[a].at \in {"requests", "diagnoses"} => clients'[asker'[a].client].sent >= asker'[a].of
    <3>1. CASE a \in Server!At("diagnoses", c)
      BY <1>8, <1>11, <3>1, Rests
    <3>2. CASE a \notin Server!At("diagnoses", c)
      <4>1. asker'[a] = asker[a]
        BY <1>8, <1>11, <3>2, Rests
      <4>2. new.sent >= clients[c].sent
        BY <1>1, <1>5, ClientFields
      <4> QED
        BY <1>1, <1>5, <1>6, <4>1, <4>2, WaitsOn
    <3> QED
      BY <3>1, <3>2
  <2> QED
    BY <1>8, <2>1 DEF AskersServed
<1>14. \A d \in 1..Len(clients') : InOrder(clients[d])'
  BY <1>7, <1>8, <1>9 DEF InOrder
<1>15. OneRuns'
  BY <1>1, <1>5, <1>8, <1>9 DEF ServerInv, OneRuns
<1> QED
  BY <1>10, <1>12, <1>13, <1>14, <1>15 DEF ServerInv

LEMMA WaitEndsKeeps ==
  ASSUME ServerInv, NEW a \in bench.askers, Server!WaitEnds(a)
  PROVE  ServerInv'
<1> DEFINE c == asker[a].client
<1>1. /\ asker[a].at = "diagnoses" /\ Server!Diagnosed({a}, clients[c].batch, "waited")
      /\ UNCHANGED <<bench, text, clients, manager, closes>>
  BY DEF Server!WaitEnds
<1>2. c \in 1..Len(clients)
  BY <1>1 DEF ServerInv, AskersServed
<1>3. clients \in Seq(ServerClient) /\ clients[c].batch \in Nat
  BY <1>2, ClientFields DEF ServerInv, ServerTyped
<1>4. Server!Rest({a}) /\ {a} \in SUBSET bench.askers /\ {a} \in SUBSET Server!At("diagnoses", c)
  BY <1>1 DEF Server!Diagnosed, Server!At
<1> HIDE DEF c
<1>5. answers' \in Seq(Said) /\ AnswersInOrder'
  <2>1. clients[c].batch >= clients[c].batch /\ clients' \in Seq(ServerClient) /\ Len(clients') = Len(clients)
        /\ clients'[c].batch = clients[c].batch /\ \A d \in 1..Len(clients) : d # c => clients'[d] = clients[d]
    BY <1>1, <1>3
  <2> QED
    BY <1>1, <1>2, <1>3, <1>4, <2>1, DiagnosedKeeps
<1>6. ServerTyped'
  BY <1>1, <1>4, <1>5, Rests DEF ServerInv, ServerTyped
<1>7. AskersServed'
  BY <1>1, <1>4, Rests DEF ServerInv, AskersServed
<1> QED
  BY <1>1, <1>5, <1>6, <1>7 DEF ServerInv, OneRuns, InOrder

LEMMA AnswerKeeps ==
  ASSUME ServerInv, NEW a \in bench.askers, Server!Answer(a) \/ Server!RequestTimesOut(a)
  PROVE  ServerInv'
<1>1. Server!Rest({a}) /\ {a} \in SUBSET bench.askers /\ UNCHANGED <<bench, text, clients, manager, closes, answers>>
  BY DEF Server!Answer, Server!RequestTimesOut
<1>2. ServerTyped'
  BY <1>1, Rests DEF ServerInv, ServerTyped
<1>3. AskersServed'
  BY <1>1, Rests DEF ServerInv, AskersServed
<1> QED
  BY <1>1, <1>2, <1>3 DEF ServerInv, AnswersInOrder, OneRuns, InOrder

LEMMA CloseAllKeeps ==
  ASSUME ServerInv, Server!CloseAll
  PROVE  ServerInv'
<1>1. /\ closes' = closes + 1 /\ closes \in Nat /\ manager' = 0 /\ UNCHANGED <<bench, text, asker, answers>>
      /\ clients \in Seq(ServerClient) /\ manager \in 0..Len(clients)
  BY DEF Server!CloseAll, ServerInv, ServerTyped
<1>2. /\ clients' \in Seq(ServerClient) /\ Len(clients') = Len(clients)
      /\ \A d \in 1..Len(clients) :
           /\ clients'[d].sent = clients[d].sent /\ clients'[d].batch = clients[d].batch /\ clients'[d].owed = clients[d].owed
           /\ clients'[d].exited = clients[d].exited /\ clients'[d].proc = clients[d].proc
           /\ clients[d].closing => clients'[d].closing
           /\ d = manager => clients'[d].closing \/ clients[d].exited
  <2>1. CASE Server!Alive(manager)
    <3> DEFINE new == [clients[manager] EXCEPT !.closing = TRUE]
    <3>1. manager \in 1..Len(clients) /\ clients[manager] \in ServerClient
      BY <1>1, <2>1 DEF Server!Alive
    <3>2. /\ new \in ServerClient /\ new.sent = clients[manager].sent /\ new.batch = clients[manager].batch
          /\ new.owed = clients[manager].owed /\ new.exited = clients[manager].exited
          /\ new.proc = clients[manager].proc /\ new.closing = TRUE
      BY <3>1 DEF ServerClient
    <3>3. clients' = [clients EXCEPT ![manager] = new]
      BY <2>1 DEF Server!CloseAll
    <3> HIDE DEF new
    <3> QED
      BY <3>1, <3>2, <3>3, OneChanges
  <2>2. CASE ~Server!Alive(manager)
    <3>1. clients' = clients
      BY <2>2 DEF Server!CloseAll
    <3>2. \A d \in 1..Len(clients) : d = manager => clients[d].exited
      BY <1>1, <2>2 DEF Server!Alive
    <3> QED
      BY <1>1, <3>1, <3>2
  <2> QED
    BY <2>1, <2>2
<1>3. ServerTyped'
  BY <1>1, <1>2 DEF ServerInv, ServerTyped
<1>4. AskersServed'
  BY <1>1, <1>2 DEF ServerInv, AskersServed
<1>5. AnswersInOrder'
  BY <1>1, <1>2 DEF ServerInv, AnswersInOrder
<1>6. \A d \in 1..Len(clients') : InOrder(clients[d])'
  BY <1>1, <1>2 DEF ServerInv, InOrder
<1>7. OneRuns'
  <2>1. ASSUME ~bench.fails, NEW d \in 1..Len(clients), clients'[d].proc = "lives" PROVE clients'[d].closing
    <3>1. ~clients[d].exited /\ clients[d].proc = "lives"
      BY <1>2, <2>1 DEF ServerInv, InOrder
    <3>2. clients[d].closing \/ manager = d
      BY <2>1, <3>1 DEF ServerInv, OneRuns
    <3> QED
      BY <1>2, <3>1, <3>2
  <2> QED
    BY <1>1, <1>2, <2>1 DEF OneRuns
<1> QED
  BY <1>3, <1>4, <1>5, <1>6, <1>7 DEF ServerInv

LEMMA ServerKeeps == ServerInv /\ [Server!Next]_OfServer => ServerInv'
<1> SUFFICES ASSUME ServerInv, [Server!Next]_OfServer PROVE ServerInv'
  OBVIOUS
<1>1. CASE Server!EditFile
  <2>1. text' = text + 1 /\ UNCHANGED <<bench, clients, manager, asker, answers, closes>>
    BY <1>1 DEF Server!EditFile
  <2>2. \A c \in 1..Len(clients) : clients[c].sent \in Nat
    BY ClientFields DEF ServerInv, ServerTyped
  <2>3. \A c \in 1..Len(clients') : InOrder(clients[c])'
    BY <2>1, <2>2 DEF ServerInv, ServerTyped, InOrder
  <2> QED
    BY <2>1, <2>3 DEF ServerInv, ServerTyped, AskersServed, AnswersInOrder, OneRuns
<1>2. CASE UNCHANGED OfServer
  BY <1>2 DEF OfServer, ServerInv, ServerTyped, AskersServed, AnswersInOrder, OneRuns, InOrder
<1>3. ASSUME NEW a \in bench.askers, Server!Ask(a) \/ Server!Answer(a) \/ Server!RequestTimesOut(a) \/ Server!WaitEnds(a)
      PROVE  ServerInv'
  BY <1>3, AskKeeps, AnswerKeeps, WaitEndsKeeps
<1>4. ASSUME NEW c \in DOMAIN clients,
             Server!Boots(c) \/ Server!BootFails(c) \/ Server!Publish(c) \/ Server!Dies(c) \/ Server!ExitSeen(c)
      PROVE  ServerInv'
  BY <1>4, BootsKeeps, BootFailsKeeps, PublishKeeps, DiesKeeps, ExitSeenKeeps
<1> QED
  BY <1>1, <1>2, <1>3, <1>4, CloseAllKeeps DEF Server!Next

LEMMA ServedThen == ServerInv => Server!QuestionsServed
<1> SUFFICES ASSUME ServerInv PROVE Server!QuestionsServed
  OBVIOUS
<1>1. clients \in Seq(ServerClient) /\ answers \in Seq(Said)
  BY DEF ServerInv, ServerTyped
<1>2. DOMAIN clients = 1..Len(clients) /\ DOMAIN answers = 1..Len(answers)
  BY <1>1
<1>3. bench.fails \/ Server!OneServer
  BY <1>2 DEF ServerInv, OneRuns, Server!OneServer
<1>4. \A i, j \in DOMAIN answers : i < j /\ answers[i].client = answers[j].client => answers[i].batch <= answers[j].batch
  BY <1>2 DEF ServerInv, AnswersInOrder
<1> QED
  BY <1>3, <1>4 DEF ServerInv, AskersServed, Server!QuestionsServed

-----------------------------------------------------------------------------
(* Together.                                                               *)

\* A tasks.json that was written outlives the process: its numbers name the same tasks, whatever exits, crashes
\* and failed saves there are, and what changed since is under a timer (tasks/tracker.ts).
THEOREM PlanKept == SessionSpec => []Tasks!PlanSurvives
<1>1. SessionInit => PlanIsKept
  BY PlanKeptAtFirst DEF SessionInit
<1>2. PlanIsKept /\ [SessionNext]_sessionVars => PlanIsKept'
  BY TasksStep, PlanStep
<1> QED
  BY <1>1, <1>2, SurvivesThen, PTL DEF SessionSpec, sessionVars

\* A rewind puts back what the first touch since its turn found, however the snapshots of the editors interleave
\* and wherever a crash comes, but for the paths whose first touch a crash spoiled in the ledger
\* (checkpoints/store.ts); and the plan is kept.
THEOREM BesideIsKept == SessionSpec => []KeptBeside
<1>1. SessionInit => DeskInv
  BY DeskAtFirst DEF SessionInit
<1>2. DeskInv /\ [SessionNext]_sessionVars => DeskInv'
  BY DeskStep, DeskKeeps
<1>3. SessionInit => PlanIsKept
  BY PlanKeptAtFirst DEF SessionInit
<1>4. PlanIsKept /\ [SessionNext]_sessionVars => PlanIsKept'
  BY TasksStep, PlanStep
<1>5. DeskInv /\ PlanIsKept => KeptBeside
  BY SurvivesThen DEF DeskInv, KeptBeside
<1> QED
  BY <1>1, <1>2, <1>3, <1>4, <1>5, PTL DEF SessionSpec, sessionVars

\* The semaphore's waiters are woken as slots come free and what a run recorded is replayed (workflow/runner.ts,
\* scheduler.ts); no question waits for a server that has exited, and answers are of the text asked about
\* (lsp/manager.ts, client.ts).
THEOREM WaitersAreServed == SessionSpec => []WaitersServed
<1>1. SessionInit => FlowInv
  BY FlowAtFirst DEF SessionInit
<1>2. FlowInv /\ [SessionNext]_sessionVars => FlowInv'
  BY FlowStep, FlowKeeps
<1>3. SessionInit => ServerInv
  BY ServerAtFirst DEF SessionInit
<1>4. ServerInv /\ [SessionNext]_sessionVars => ServerInv'
  BY ServerStep, ServerKeeps
<1>5. FlowInv /\ ServerInv => WaitersServed
  BY AccountedThen, ServedThen DEF WaitersServed
<1> QED
  BY <1>1, <1>2, <1>3, <1>4, <1>5, PTL DEF SessionSpec, sessionVars

=============================================================================
