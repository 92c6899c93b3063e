--------------------------- MODULE TurnLoopProofs ---------------------------
(***************************************************************************)
(* A tool with effects runs at most once for a call, and the record tells  *)
(* of each call what happened: for any messages, hosts and hooks, any      *)
(* number of crashes, and whatever new turns are run over dead ones.       *)
(*                                                                         *)
(* An engine that begins a message is the only one to have seen it: none   *)
(* of its calls is begun.  An engine that goes on with a turn asks the     *)
(* markers, and it finds no result of a call it is about to settle because *)
(* the turn it reads back has every result that follows its last message.  *)
(* That is what much of it is about: the turns are read by recursion       *)
(* over the log, and a least log that reads back a turn with a gap would   *)
(* have a shorter one.                                                     *)
(***************************************************************************)
EXTENDS TurnLoop, SequenceTheorems, WellFoundedInduction, TLAPS

-----------------------------------------------------------------------------
(* Least and greatest numbers.                                             *)

LEMMA LessThan ==
  \E R : IsWellFoundedOn(R, Nat) /\ \A x, y \in Nat : <<y, x>> \in R <=> y < x
<1>1. IsWellFoundedOn(OpToRel(<, Nat), Nat)
  BY NatLessThanWellFounded
<1>2. \A x, y \in Nat : <<y, x>> \in OpToRel(<, Nat) <=> y < x
  BY DEF OpToRel
<1> QED
  BY <1>1, <1>2, Zenon

LEMMA LeastNat ==
  ASSUME NEW S \in SUBSET Nat, S # {}
  PROVE  \E m \in S : \A n \in S : m <= n
<1>1. PICK R : IsWellFoundedOn(R, Nat) /\ \A x, y \in Nat : <<y, x>> \in R <=> y < x
  BY LessThan
<1>2. PICK x \in S : \A y \in S : ~(<<y, x>> \in R)
  BY <1>1, WFMin
<1>3. \A y \in S : ~(y < x)
  BY <1>1, <1>2
<1>4. \A y \in S : x <= y
  BY <1>3
<1> QED
  BY <1>4

LEMMA MinIsLeast ==
  ASSUME NEW S \in SUBSET Nat, S # {}
  PROVE  Min(S) \in S /\ \A n \in S : Min(S) <= n
<1>1. \E m \in S : \A n \in S : m <= n
  BY LeastNat
<1> QED
  BY <1>1 DEF Min

LEMMA MaxIsGreatest ==
  ASSUME NEW b \in Nat, NEW S \in SUBSET (0..b), S # {}
  PROVE  Max(S) \in S /\ \A n \in S : n <= Max(S)
<1> DEFINE Below == {b - n : n \in S}
<1>0. \A n \in S : b - n \in Nat
  OBVIOUS
<1>1. Below \in SUBSET Nat /\ Below # {}
  BY <1>0
<1>2. PICK m \in Below : \A n \in Below : m <= n
  BY <1>1, LeastNat
<1>3. PICK x \in S : m = b - x
  BY <1>2
<1>4. \A y \in S : x >= y
  <2> SUFFICES ASSUME NEW y \in S PROVE x >= y
    OBVIOUS
  <2>1. b - y \in Below
    OBVIOUS
  <2>2. m <= b - y
    BY <1>2, <2>1
  <2> QED
    BY <1>3, <2>2
<1>5. \E z \in S : \A y \in S : z >= y
  BY <1>4
<1>6. Max(S) \in S /\ \A y \in S : Max(S) >= y
  BY <1>5 DEF Max
<1> QED
  BY <1>6

-----------------------------------------------------------------------------
(* The turns that are read back.                                           *)

Ends == {"end", "park"}

LEMMA LastEndIs ==
  ASSUME NEW e, NEW n \in Nat
  PROVE  /\ LastEnd(e, n) \in 0..n
         /\ LastEnd(e, n) > 0 => e[LastEnd(e, n)].kind \in Ends
         /\ \A i \in (LastEnd(e, n) + 1)..n : e[i].kind \notin Ends
<1> DEFINE S == {0} \cup {i \in 1..n : e[i].kind \in {"end", "park"}}
<1>1. S \in SUBSET (0..n) /\ S # {}
  OBVIOUS
<1>2. Max(S) \in S /\ \A i \in S : i <= Max(S)
  BY <1>1, MaxIsGreatest
<1>3. \A i \in (Max(S) + 1)..n : i \notin S /\ i \in 1..n
  BY <1>2
<1> HIDE DEF S
<1>4. LastEnd(e, n) = Max(S)
  BY DEF LastEnd, S
<1> QED
  BY <1>1, <1>2, <1>3, <1>4 DEF S, Ends

\* Turns of fewer entries are all that a turn is read from.
LEMMA TurnAtBelow ==
  ASSUME NEW e, NEW n \in Nat, NEW f, NEW g, \A k \in 0..(n - 1) : f[k] = g[k]
  PROVE  TurnAt(e, f, n) = TurnAt(e, g, n)
<1> DEFINE p == LastEnd(e, n)
<1>1. p \in 0..n
  BY LastEndIs
<1>2. CASE p = 0
  BY <1>2 DEF TurnAt
<1>3. CASE p > 0
  <2>1. f[p - 1] = g[p - 1]
    BY <1>1, <1>3
  <2> QED
    BY <2>1 DEF TurnAt
<1> QED
  BY <1>1, <1>2, <1>3

LEMMA TurnsExist ==
  ASSUME NEW e, NEW len \in Nat
  PROVE  \E f : f = [n \in 0..len |-> TurnAt(e, f, n)]
<1> DEFINE Bad == {m \in Nat : ~\E f : f = [n \in 0..m |-> TurnAt(e, f, n)]}
<1>1. SUFFICES ASSUME Bad # {} PROVE FALSE
  OBVIOUS
<1>2. PICK m \in Bad : \A k \in Bad : m <= k
  BY <1>1, LeastNat
<1>3. \E g : \A k \in 0..(m - 1) : k \in DOMAIN g /\ g[k] = TurnAt(e, g, k)
  <2>1. CASE m = 0
    BY <2>1
  <2>2. CASE m # 0
    <3>1. m - 1 \in Nat /\ ~(m <= m - 1)
      BY <2>2
    <3>2. m - 1 \notin Bad
      BY <1>2, <3>1
    <3>3. PICK g : g = [n \in 0..(m - 1) |-> TurnAt(e, g, n)]
      BY <3>1, <3>2
    <3>4. \A k \in 0..(m - 1) : k \in DOMAIN g /\ g[k] = TurnAt(e, g, k)
      BY <3>3, Zenon
    <3> QED
      BY <3>4
  <2> QED
    BY <2>1, <2>2
<1>4. PICK g : \A k \in 0..(m - 1) : k \in DOMAIN g /\ g[k] = TurnAt(e, g, k)
  BY <1>3
<1> DEFINE h == [n \in 0..m |-> TurnAt(e, g, n)]
<1>5. \A k \in 0..(m - 1) : h[k] = g[k]
  BY <1>4
<1>6. \A n \in 0..m : TurnAt(e, g, n) = TurnAt(e, h, n)
  <2> SUFFICES ASSUME NEW n \in 0..m PROVE TurnAt(e, g, n) = TurnAt(e, h, n)
    OBVIOUS
  <2>1. n \in Nat /\ \A k \in 0..(n - 1) : g[k] = h[k]
    BY <1>5
  <2> HIDE DEF h
  <2> QED
    BY <2>1, TurnAtBelow
<1>7. h = [n \in 0..m |-> TurnAt(e, h, n)]
  <2>1. h = [n \in 0..m |-> TurnAt(e, g, n)]
    OBVIOUS
  <2> HIDE DEF h
  <2> QED
    BY <1>6, <2>1, Zenon
<1> HIDE DEF h
<1> QED
  BY <1>2, <1>7

LEMMA TurnsInIs ==
  ASSUME NEW e, Len(e) \in Nat
  PROVE  TurnsIn(e) = [n \in 0..Len(e) |-> TurnAt(e, TurnsIn(e), n)]
<1>1. \E f : f = [n \in 0..Len(e) |-> TurnAt(e, f, n)]
  BY TurnsExist
<1> QED
  BY <1>1, Zenon DEF TurnsIn

\* A turn of n entries has whatever follows one of its entries, but the ends of runs.
Whole(e, turn, n) ==
  /\ turn \subseteq 1..n
  /\ \A a \in turn : \A i \in a..n : i \in turn \/ e[i].kind \in Ends

LEMMA WholeTurns ==
  ASSUME NEW e, Len(e) \in Nat
  PROVE  \A n \in 0..Len(e) : Whole(e, TurnsIn(e)[n], n)
<1> DEFINE Bad == {n \in 0..Len(e) : ~Whole(e, TurnsIn(e)[n], n)}
<1>1. SUFFICES ASSUME Bad # {} PROVE FALSE
  OBVIOUS
<1>2. PICK n \in Bad : \A k \in Bad : n <= k
  <2>1. Bad \in SUBSET Nat
    OBVIOUS
  <2> QED
    BY <1>1, <2>1, LeastNat
<1> DEFINE p == LastEnd(e, n)
<1> DEFINE before == TurnsIn(e)[p - 1]
<1>3. p \in 0..n /\ (p > 0 => e[p].kind \in Ends) /\ n \in 0..Len(e)
  BY LastEndIs
<1>4. TurnsIn(e)[n] = TurnAt(e, TurnsIn(e), n)
  BY <1>3, TurnsInIs, Zenon
<1>5. \/ p > 0 /\ TurnsIn(e)[n] = before \cup (p + 1)..n
      \/ TurnsIn(e)[n] = Opened(e, p, n)
  BY <1>4 DEF TurnAt
<1>6. CASE p > 0 /\ TurnsIn(e)[n] = before \cup (p + 1)..n
  <2>1. p - 1 \in 0..Len(e) /\ ~(n <= p - 1)
    BY <1>3, <1>6
  <2>2. p - 1 \notin Bad
    BY <1>2, <2>1
  <2>3. Whole(e, before, p - 1)
    BY <2>1, <2>2
  <2> HIDE DEF p, before
  <2>4. Whole(e, before \cup (p + 1)..n, n)
    BY <1>3, <1>6, <2>3 DEF Whole
  <2> QED
    BY <1>2, <1>6, <2>4
<1>7. CASE TurnsIn(e)[n] = Opened(e, p, n)
  <2> DEFINE users == {i \in (p + 1)..n : e[i].kind = "user"}
  <2> HIDE DEF p
  <2>1. users \in SUBSET Nat /\ \A u \in users : u \in 1..n
    BY <1>3
  <2>2. users # {} => Min(users) \in 1..n
    <3> HIDE DEF users
    <3> QED
      BY <2>1, MinIsLeast
  <2>3. Opened(e, p, n) = IF users = {} THEN {} ELSE Min(users)..n
    BY DEF Opened
  <2> HIDE DEF users
  <2>4. Whole(e, Opened(e, p, n), n)
    BY <1>3, <2>2, <2>3 DEF Whole
  <2> QED
    BY <1>2, <1>7, <2>4
<1> QED
  BY <1>5, <1>6, <1>7

-----------------------------------------------------------------------------
(* The invariant.                                                          *)

IsCall(at, n) ==
  /\ at = <<at[1], at[2]>> /\ at[1] \in 1..n
  /\ log[at[1]].kind = "assistant" /\ at[2] \in DOMAIN log[at[1]].calls

\* A marker and a result are of a call of a message before them; a result has its call's id.
EntryOK(i) ==
  /\ log[i].kind = "assistant" =>
       Len(log[i].calls) \in Nat /\ DOMAIN log[i].calls = 1..Len(log[i].calls)
  /\ log[i].kind \in {"tool_result", "tool_started"} => IsCall(log[i].at, i - 1)
  /\ log[i].kind = "tool_result" => log[i].id = log[log[i].at[1]].calls[log[i].at[2]].id

LogOK ==
  /\ log \in Seq(ToSet(log)) /\ acked \in 0..Len(log)
  /\ \A i \in 1..Len(log) : EntryOK(i)

StartedBy(at, n) == \E i \in 1..n : log[i].kind = "tool_started" /\ log[i].at = at
Resulted(at) == \E i \in 1..Len(log) : log[i].kind = "tool_result" /\ log[i].at = at

\* What ran is on record within what a crash leaves, and ran once.
RanOnce ==
  /\ ran \in Seq(ToSet(ran))
  /\ \A at \in ToSet(ran) : StartedBy(at, acked)
  /\ AtMostOnce

AtCalls == eng.step \in {"call", "marking", "started", "done"}

\* The calls left to do are of a message of the log and have no result.  In the turn of this engine
\* none of them was begun, but for the one it is at; a batch is run whole.
Pending ==
  /\ eng.entry \in 1..Len(log) /\ log[eng.entry].kind = "assistant"
  /\ eng.todo # {} /\ eng.todo \subseteq DOMAIN Calls
  /\ \A k \in eng.todo : ~Resulted(<<eng.entry, k>>)
  /\ ~eng.settling =>
       \A k \in eng.todo : StartedBy(<<eng.entry, k>>, Len(log)) => eng.step # "call" /\ k = Index
  /\ Batch => eng.step = "call" /\ eng.todo = DOMAIN Calls

\* The marker of the call it is at is written, then durable, then its effect happens.
AtWork ==
  /\ DOMAIN eng = DOMAIN Resting
  /\ AtCalls => Pending
  /\ eng.step = "marking" => StartedBy(Here, Len(log)) /\ Here \notin ToSet(ran)
  /\ eng.step = "started" => StartedBy(Here, acked) /\ Here \notin ToSet(ran)
  /\ eng.step = "done" => Here \in ToSet(ran)

IInv == LogOK /\ RanOnce /\ AtWork /\ ResultTellsTruth

-----------------------------------------------------------------------------
(* How a log grows.                                                        *)

LEMMA LogDomain ==
  ASSUME LogOK
  PROVE  Len(log) \in Nat /\ DOMAIN log = 1..Len(log) /\ acked \in Nat /\ acked <= Len(log)
<1>1. Len(log) \in Nat /\ DOMAIN log = 1..Len(log)
  BY LenProperties DEF LogOK
<1> QED
  BY <1>1 DEF LogOK

\* The log keeps what it has and has n more entries.
Grows(n) ==
  /\ n \in Nat /\ Len(log') = Len(log) + n /\ log' \in Seq(ToSet(log'))
  /\ \A i \in 1..Len(log) : log'[i] = log[i]

LEMMA SeqOfItsOwn ==
  ASSUME NEW S, NEW s \in Seq(S)
  PROVE  s \in Seq(ToSet(s))
<1>1. Len(s) \in Nat /\ DOMAIN s = 1..Len(s) /\ s \in [1..Len(s) -> S]
  BY LenProperties
<1>2. s \in [1..Len(s) -> ToSet(s)]
  BY <1>1 DEF ToSet
<1> QED
  BY <1>1, <1>2, SeqDef

LEMMA Appended ==
  ASSUME LogOK, NEW S, NEW es \in Seq(S), AppendIn(es)
  PROVE  Grows(Len(es)) /\ \A i \in 1..Len(es) : log'[Len(log) + i] = es[i]
<1> DEFINE T == ToSet(log) \cup S
<1>1. log \in Seq(T) /\ es \in Seq(T)
  BY SeqMonotonic DEF LogOK
<1>2. Len(log) \in Nat /\ Len(es) \in Nat
  BY LenProperties DEF LogOK
<1>3. log' = log \o es
  BY DEF AppendIn
<1>4. /\ log' \in Seq(T) /\ Len(log') = Len(log) + Len(es)
      /\ \A i \in 1..(Len(log) + Len(es)) : log'[i] = IF i <= Len(log) THEN log[i] ELSE es[i - Len(log)]
  BY <1>1, <1>3, ConcatProperties
<1>5. log' \in Seq(ToSet(log'))
  BY <1>4, SeqOfItsOwn
<1>6. \A i \in 1..Len(log) : log'[i] = log[i]
  BY <1>2, <1>4
<1>7. \A i \in 1..Len(es) : log'[Len(log) + i] = es[i]
  BY <1>2, <1>4
<1> QED
  BY <1>2, <1>4, <1>5, <1>6, <1>7 DEF Grows

LEMMA AppendedOne ==
  ASSUME LogOK, NEW entry, AppendIn(<<entry>>)
  PROVE  Grows(1) /\ log'[Len(log) + 1] = entry
<1> DEFINE es == <<entry>>
<1>1. es \in Seq({entry}) /\ Len(es) = 1 /\ es[1] = entry
  OBVIOUS
<1> HIDE DEF es
<1>2. AppendIn(es)
  BY DEF es
<1>3. Grows(Len(es)) /\ \A i \in 1..Len(es) : log'[Len(log) + i] = es[i]
  BY <1>1, <1>2, Appended
<1> QED
  BY <1>1, <1>3

LEMMA LogGrows ==
  ASSUME LogOK, NEW n \in Nat, Grows(n), acked' \in acked..Len(log'),
         \A i \in (Len(log) + 1)..(Len(log) + n) : EntryOK(i)'
  PROVE  LogOK'
<1>1. Len(log) \in Nat /\ acked \in Nat
  BY LogDomain
<1>2. ASSUME NEW i \in 1..Len(log)
      PROVE  EntryOK(i)'
  <2>1. EntryOK(i) /\ log'[i] = log[i]
    BY DEF LogOK, Grows
  <2>2. log[i].kind \in {"tool_result", "tool_started"} =>
          log[i].at[1] \in 1..Len(log) /\ log'[log[i].at[1]] = log[log[i].at[1]]
    BY <1>1, <2>1 DEF EntryOK, IsCall, Grows
  <2> QED
    BY <2>1, <2>2 DEF EntryOK, IsCall
<1>3. \A i \in 1..Len(log') : EntryOK(i)'
  BY <1>1, <1>2 DEF Grows
<1> QED
  BY <1>1, <1>3 DEF LogOK, Grows

\* Nothing is begun and nothing is given a result by entries that are neither.
LEMMA Untouched ==
  ASSUME LogOK, NEW n \in Nat, Grows(n), NEW at
  PROVE  /\ \A m \in 0..Len(log) : StartedBy(at, m)' <=> StartedBy(at, m)
         /\ (\A i \in (Len(log) + 1)..(Len(log) + n) : ~(log'[i].kind = "tool_started" /\ log'[i].at = at))
              => (StartedBy(at, Len(log))' <=> StartedBy(at, Len(log)))
         /\ (\A i \in (Len(log) + 1)..(Len(log) + n) : ~(log'[i].kind = "tool_result" /\ log'[i].at = at))
              => (Resulted(at)' <=> Resulted(at))
<1>1. Len(log) \in Nat /\ Len(log') = Len(log) + n /\ \A i \in 1..Len(log) : log'[i] = log[i]
  BY LogDomain DEF Grows
<1> QED
  BY <1>1 DEF StartedBy, Resulted

LEMMA TruthGrows ==
  ASSUME LogOK, ResultTellsTruth, NEW n \in Nat, Grows(n), ran' = ran,
         \A i \in (Len(log) + 1)..(Len(log) + n) : log'[i].kind = "tool_result" =>
           LET call == log'[log'[i].at[1]].calls[log'[i].at[2]]
           IN /\ ~call.ro /\ log'[i].told \in {"denied", "refused"} => log'[i].at \notin ToSet(ran)
              /\ ~call.ro /\ log'[i].told = "ran" => log'[i].at \in ToSet(ran)
              /\ ~Resulted(log'[i].at)
              /\ \A j \in (Len(log) + 1)..(Len(log) + n) :
                   log'[j].kind = "tool_result" /\ log'[j].at = log'[i].at => j = i
  PROVE  ResultTellsTruth'
<1>1. /\ Len(log) \in Nat /\ DOMAIN log = 1..Len(log) /\ Len(log') = Len(log) + n
      /\ DOMAIN log' = 1..(Len(log) + n) /\ \A i \in 1..Len(log) : log'[i] = log[i]
  BY LogDomain, LenProperties DEF Grows
<1>2. \A i \in 1..Len(log) : log[i].kind = "tool_result" =>
        log[i].at[1] \in 1..Len(log) /\ log'[log[i].at[1]] = log[log[i].at[1]]
  BY <1>1 DEF LogOK, EntryOK, IsCall
<1> SUFFICES ASSUME NEW i \in 1..(Len(log) + n), log'[i].kind = "tool_result"
             PROVE  LET call == log'[log'[i].at[1]].calls[log'[i].at[2]]
                    IN /\ ~call.ro /\ log'[i].told \in {"denied", "refused"} => log'[i].at \notin ToSet(ran)
                       /\ ~call.ro /\ log'[i].told = "ran" => log'[i].at \in ToSet(ran)
                       /\ \A j \in 1..(Len(log) + n) :
                            log'[j].kind = "tool_result" /\ log'[i].at = log'[j].at => i = j
  BY <1>1 DEF ResultTellsTruth, Results
<1>3. CASE i \in 1..Len(log)
  <2>1. log'[i] = log[i] /\ i \in Results
    BY <1>1, <1>3 DEF Results
  <2>2. log'[log'[i].at[1]] = log[log[i].at[1]]
    BY <1>2, <1>3, <2>1
  <2>3. \A j \in 1..(Len(log) + n) :
          log'[j].kind = "tool_result" /\ log'[i].at = log'[j].at => i = j
    <3> SUFFICES ASSUME NEW j \in 1..(Len(log) + n), log'[j].kind = "tool_result",
                        log'[i].at = log'[j].at
                 PROVE  i = j
      OBVIOUS
    <3>1. CASE j \in 1..Len(log)
      BY <1>1, <2>1, <3>1 DEF ResultTellsTruth, Results
    <3>2. CASE j \notin 1..Len(log)
      <4>1. ~Resulted(log'[j].at)
        BY <1>1, <3>2
      <4> QED
        BY <1>3, <2>1, <4>1 DEF Resulted
    <3> QED
      BY <3>1, <3>2
  <2> QED
    BY <2>1, <2>2, <2>3 DEF ResultTellsTruth
<1>4. CASE i \notin 1..Len(log)
  <2>1. i \in (Len(log) + 1)..(Len(log) + n)
    BY <1>1, <1>4
  <2>2. \A j \in 1..Len(log) : log'[j].kind = "tool_result" => log'[i].at # log'[j].at
    BY <1>1, <2>1 DEF Resulted
  <2>3. \A j \in 1..(Len(log) + n) :
          log'[j].kind = "tool_result" /\ log'[i].at = log'[j].at => i = j
    <3> SUFFICES ASSUME NEW j \in 1..(Len(log) + n), log'[j].kind = "tool_result",
                        log'[i].at = log'[j].at
                 PROVE  i = j
      OBVIOUS
    <3>1. j \in (Len(log) + 1)..(Len(log) + n)
      BY <1>1, <2>2
    <3> QED
      BY <2>1, <3>1
  <2> QED
    BY <2>1, <2>3
<1> QED
  BY <1>3, <1>4

\* What ran stays on record where the log keeps what is acked.
LEMMA RanKept ==
  ASSUME RanOnce, LogOK, ran' = ran, acked' \in Nat, acked <= acked',
         \A i \in 1..acked : log'[i] = log[i]
  PROVE  RanOnce'
<1>1. acked \in Nat
  BY LogDomain
<1>2. \A at : StartedBy(at, acked) => StartedBy(at, acked)'
  BY <1>1 DEF StartedBy
<1> QED
  BY <1>2 DEF RanOnce, AtMostOnce

-----------------------------------------------------------------------------
(* The steps.                                                              *)

LEMMA IndexIsPending ==
  ASSUME LogOK, Pending
  PROVE  /\ Index \in eng.todo /\ Index \in DOMAIN Calls /\ ThisCall = log[eng.entry].calls[Index]
         /\ DOMAIN Calls = 1..Len(Calls) /\ Len(Calls) \in Nat
         /\ ~Resulted(Here)
<1>1. DOMAIN Calls = 1..Len(Calls) /\ Len(Calls) \in Nat
  BY DEF LogOK, EntryOK, Pending, Calls
<1>2. eng.todo \in SUBSET Nat /\ eng.todo # {}
  BY <1>1 DEF Pending
<1>3. Index \in eng.todo
  BY <1>2, MinIsLeast DEF Index
<1> QED
  BY <1>1, <1>3 DEF Pending, ThisCall, Calls, Here

\* Entries that are no markers and no results are appended, and the engine is at no call.
LEMMA PlainStep ==
  ASSUME IInv, NEW S, NEW es \in Seq(S), AppendIn(es),
         \A i \in 1..Len(es) : es[i].kind \in {"user", "end", "park"},
         UNCHANGED <<acked, ran>>, DOMAIN eng' = DOMAIN Resting,
         eng'.step \in {"resting", "top", "answered"}
  PROVE  IInv'
<1>1. Grows(Len(es)) /\ \A i \in 1..Len(es) : log'[Len(log) + i] = es[i]
  BY Appended DEF IInv
<1>2. Len(log) \in Nat /\ Len(es) \in Nat /\ acked \in Nat /\ acked <= Len(log)
  BY LogDomain, LenProperties DEF IInv
<1>3. \A i \in (Len(log) + 1)..(Len(log) + Len(es)) : log'[i].kind \in {"user", "end", "park"}
  <2> SUFFICES ASSUME NEW i \in (Len(log) + 1)..(Len(log) + Len(es))
               PROVE  log'[i].kind \in {"user", "end", "park"}
    OBVIOUS
  <2>1. i - Len(log) \in 1..Len(es) /\ Len(log) + (i - Len(log)) = i
    BY <1>2
  <2>2. log'[i] = es[i - Len(log)]
    BY <1>1, <2>1
  <2> QED
    BY <2>1, <2>2
<1>4. LogOK'
  <2>1. acked' \in acked..Len(log')
    BY <1>1, <1>2 DEF Grows
  <2>2. \A i \in (Len(log) + 1)..(Len(log) + Len(es)) : EntryOK(i)'
    BY <1>3 DEF EntryOK
  <2> QED
    BY <1>1, <1>2, <2>1, <2>2, LogGrows DEF IInv
<1>5. ResultTellsTruth'
  BY <1>1, <1>2, <1>3, TruthGrows DEF IInv
<1>6. RanOnce'
  BY <1>1, <1>2, RanKept DEF IInv, Grows
<1>7. AtWork'
  BY DEF AtWork, AtCalls
<1> QED
  BY <1>4, <1>5, <1>6, <1>7 DEF IInv

\* The engine leaves its calls and nothing is written.
LEMMA QuietStep ==
  ASSUME IInv, UNCHANGED <<log, acked, ran>>, AtWork'
  PROVE  IInv'
<1>1. LogOK'
  BY DEF IInv, LogOK, EntryOK, IsCall
<1>2. RanOnce' /\ ResultTellsTruth'
  BY DEF IInv, RanOnce, AtMostOnce, StartedBy, ResultTellsTruth, Results
<1> QED
  BY <1>1, <1>2 DEF IInv

LEMMA EngineShape ==
  /\ DOMAIN Resting = {"step", "author", "from", "entry", "todo", "settling", "double", "decided"}
  /\ Resting.step = "resting"
  BY DEF Resting

\* A turn that is continued has no result of a call that it settles: a turn read back has all that
\* follows its last message, and results name their calls by id.
LEMMA ContinueStep ==
  ASSUME IInv, NEW turn, Whole(log, turn, Len(log)), NEW decided,
         Continue(log, turn, decided), UNCHANGED <<log, acked, ran>>
  PROVE  IInv'
<1>0. PICK a : a = LastAssistant(log, turn)
  OBVIOUS
<1>1. Len(log) \in Nat /\ DOMAIN log = 1..Len(log) /\ LogOK
  BY LogDomain DEF IInv
<1>2. /\ DOMAIN eng' = DOMAIN Resting /\ eng'.step = Step(log, turn) /\ eng'.entry = a
      /\ eng'.todo = Unanswered(log, turn) /\ eng'.settling = TRUE
  BY <1>0, EngineShape DEF Continue
<1>3. eng'.step \in {"call", "answered", "top"} /\ (eng'.step = "call" => eng'.todo # {})
  BY <1>2 DEF Step
<1>4. a = 0 \/ (a \in turn /\ log[a].kind = "assistant")
  <2> DEFINE S == {0} \cup {i \in turn : log[i].kind = "assistant"}
  <2>3. turn \subseteq 0..Len(log)
    BY <1>1 DEF Whole
  <2>4. 0 \in 0..Len(log) /\ 0 \in S
    BY <1>1
  <2>5. \A i \in S : i \in 0..Len(log)
    BY <2>3, <2>4
  <2> HIDE DEF S
  <2>1. S \in SUBSET (0..Len(log)) /\ S # {}
    BY <2>4, <2>5
  <2>2. Max(S) \in S
    BY <1>1, <2>1, MaxIsGreatest
  <2> QED
    BY <1>0, <2>2 DEF LastAssistant, S
<1>5. ASSUME eng'.step = "call"
      PROVE  Pending'
  <2>1. a # 0
    BY <1>0, <1>2, <1>3, <1>5 DEF Unanswered
  <2>2. a \in turn /\ log[a].kind = "assistant" /\ a \in 1..Len(log)
    BY <1>4, <2>1 DEF Whole
  <2>3. eng'.todo = {k \in DOMAIN log[a].calls :
          ~\E i \in turn : i > a /\ log[i].kind = "tool_result" /\ log[i].id = log[a].calls[k].id}
    BY <1>0, <1>2, <2>1 DEF Unanswered
  <2>4. ASSUME NEW k \in eng'.todo, Resulted(<<a, k>>)
        PROVE  FALSE
    <3>1. PICK i \in 1..Len(log) : log[i].kind = "tool_result" /\ log[i].at = <<a, k>>
      BY <2>4 DEF Resulted
    <3>2. a \in 1..(i - 1) /\ log[i].id = log[a].calls[k].id
      BY <1>1, <3>1 DEF LogOK, EntryOK, IsCall
    <3>3. i \in a..Len(log) /\ i > a
      BY <1>1, <3>1, <3>2
    <3>4. i \in turn
      BY <2>2, <3>1, <3>3 DEF Whole, Ends
    <3> QED
      BY <2>3, <3>1, <3>2, <3>3, <3>4
  <2>5. \A k \in eng'.todo : ~Resulted(<<a, k>>)'
    BY <2>4 DEF Resulted
  <2> QED
    BY <1>2, <1>3, <1>5, <2>2, <2>3, <2>5 DEF Pending, Calls, Batch
<1>6. AtWork'
  BY <1>2, <1>3, <1>5 DEF AtWork, AtCalls
<1> QED
  BY <1>6, QuietStep

LEMMA WholeToContinue ==
  ASSUME LogOK
  PROVE  /\ Whole(log, InFlight(log), Len(log))
         /\ Whole(log, ParkedTurn(log) \cup AfterPark(log), Len(log))
<1> DEFINE p == LastEnd(log, Len(log))
<1>1. Len(log) \in Nat
  BY LogDomain
<1>2. \A n \in 0..Len(log) : Whole(log, TurnsIn(log)[n], n)
  BY <1>1, WholeTurns
<1>3. Whole(log, InFlight(log), Len(log))
  BY <1>1, <1>2 DEF InFlight
<1>4. p \in 0..Len(log) /\ (p > 0 => log[p].kind \in Ends)
  BY <1>1, LastEndIs
<1>5. AfterPark(log) = (p + 1)..Len(log)
  BY DEF AfterPark
<1>6. ParkedTurn(log) = IF p = 0 THEN {} ELSE TurnsIn(log)[p - 1]
  BY DEF ParkedTurn
<1> HIDE DEF p
<1>7. ASSUME p = 0
      PROVE  Whole(log, ParkedTurn(log) \cup AfterPark(log), Len(log))
  <2>1. ParkedTurn(log) \cup AfterPark(log) = 1..Len(log)
    BY <1>5, <1>6, <1>7
  <2> QED
    BY <1>1, <2>1 DEF Whole
<1>8. ASSUME p # 0
      PROVE  Whole(log, ParkedTurn(log) \cup AfterPark(log), Len(log))
  <2>1. Whole(log, ParkedTurn(log), p - 1)
    BY <1>2, <1>4, <1>6, <1>8
  <2> QED
    BY <1>1, <1>4, <1>5, <1>8, <2>1 DEF Whole
<1> QED
  BY <1>3, <1>7, <1>8

LEMMA CallModelStep ==
  ASSUME IInv, CallModel
  PROVE  IInv'
<1>1. PICK message \in Messages :
        LET entry == Len(log) + 1
            calls == [k \in DOMAIN message |-> [id |-> IdOf(message[k], entry), ro |-> message[k].ro]]
        IN /\ AppendIn(<<Assistant(calls)>>)
           /\ eng' = [eng EXCEPT !.step = IF calls = <<>> THEN "answered" ELSE "call", !.entry = entry,
                                 !.todo = DOMAIN calls, !.settling = FALSE,
                                 !.double = DuplicateIds(calls), !.decided = NoDecision]
  BY DEF CallModel
<1>0. PICK entry : entry = Len(log) + 1
  OBVIOUS
<1> DEFINE calls == [k \in DOMAIN message |-> [id |-> IdOf(message[k], entry), ro |-> message[k].ro]]
<1>2. AppendIn(<<Assistant(calls)>>) /\ UNCHANGED <<acked, ran>>
  BY <1>0, <1>1 DEF CallModel
<1>3. DOMAIN calls = 1..Len(calls) /\ Len(calls) \in Nat
  BY TurnAssumption
<1>4. /\ DOMAIN eng' = DOMAIN Resting /\ eng'.step = (IF calls = <<>> THEN "answered" ELSE "call")
      /\ eng'.entry = entry /\ eng'.todo = DOMAIN calls /\ eng'.settling = FALSE
  BY <1>0, <1>1, EngineShape DEF IInv, AtWork
<1>5. Assistant(calls).kind = "assistant" /\ Assistant(calls).calls = calls
  BY DEF Assistant
<1> HIDE DEF calls
<1>6. Grows(1) /\ log'[entry] = Assistant(calls)
  BY <1>0, <1>2, AppendedOne DEF IInv
<1>7. /\ Len(log) \in Nat /\ acked \in Nat /\ acked <= Len(log) /\ Len(log') = Len(log) + 1
      /\ \A i \in 1..Len(log) : log'[i] = log[i]
  BY <1>6, LogDomain DEF IInv, Grows
<1>8. LogOK'
  <2>1. EntryOK(entry)'
    BY <1>3, <1>5, <1>6 DEF EntryOK
  <2>2. acked' \in acked..Len(log')
    BY <1>2, <1>7
  <2>3. \A i \in (Len(log) + 1)..(Len(log) + 1) : EntryOK(i)'
    BY <1>0, <1>7, <2>1
  <2> QED
    BY <1>6, <2>2, <2>3, LogGrows DEF IInv
<1>9. \A i \in (Len(log) + 1)..(Len(log) + 1) : log'[i].kind = "assistant"
  BY <1>0, <1>5, <1>6, <1>7
<1>10. ResultTellsTruth'
  BY <1>2, <1>6, <1>9, TruthGrows DEF IInv
<1>11. RanOnce'
  BY <1>2, <1>7, RanKept DEF IInv
<1>12. \A k : ~Resulted(<<entry, k>>)' /\ ~StartedBy(<<entry, k>>, Len(log))'
  <2>1. \A i \in 1..Len(log) : log'[i].kind \in {"tool_result", "tool_started"} =>
          log'[i].at[1] \in 1..(i - 1)
    BY <1>7 DEF IInv, LogOK, EntryOK, IsCall
  <2>2. \A i \in 1..Len(log') : log'[i].kind \in {"tool_result", "tool_started"} =>
          log'[i].at[1] # entry
    BY <1>0, <1>7, <1>9, <2>1
  <2> QED
    BY <1>0, <1>7, <2>2 DEF Resulted, StartedBy
<1>13. ASSUME eng'.step = "call"
       PROVE  Pending'
  <2>1. calls # <<>> /\ DOMAIN calls # {}
    <3>1. calls # <<>>
      BY <1>4, <1>13
    <3>2. Len(calls) # 0
      <4>1. calls = [k \in 1..Len(calls) |-> calls[k]]
        BY <1>3 DEF calls
      <4> SUFFICES ASSUME Len(calls) = 0 PROVE FALSE
        OBVIOUS
      <4> QED
        BY <3>1, <4>1
    <3> QED
      BY <1>3, <3>1, <3>2
  <2> QED
    BY <1>0, <1>4, <1>5, <1>6, <1>7, <1>12, <1>13, <2>1 DEF Pending, Calls, Batch
<1>14. AtWork'
  BY <1>4, <1>13 DEF AtWork, AtCalls
<1> QED
  BY <1>8, <1>10, <1>11, <1>14 DEF IInv

\* A call is given its one result, and the others stay as they were.
LEMMA AnswerStep ==
  ASSUME IInv, AtCalls, NEW told, Answer(told), UNCHANGED <<acked, ran>>, ~Batch,
         ~ThisCall.ro /\ told \in {"denied", "refused"} => Here \notin ToSet(ran),
         ~ThisCall.ro /\ told = "ran" => Here \in ToSet(ran)
  PROVE  IInv'
<1>1. LogOK /\ Pending /\ Len(log) \in Nat /\ acked \in Nat /\ acked <= Len(log)
  BY LogDomain DEF IInv, AtWork
<1>2. PICK a, k : a = eng.entry /\ k = Index
  OBVIOUS
<1>3. /\ Here = <<a, k>> /\ a \in 1..Len(log) /\ log[a].kind = "assistant" /\ k \in eng.todo
      /\ k \in DOMAIN log[a].calls /\ ThisCall = log[a].calls[k] /\ ~Resulted(<<a, k>>)
  BY <1>1, <1>2, IndexIsPending DEF Here, Pending, Calls, ThisCall
<1>4. PICK entry : entry = Result(<<a, k>>, log[a].calls[k].id, told)
  OBVIOUS
<1>5. /\ entry.kind = "tool_result" /\ entry.at = <<a, k>> /\ entry.id = log[a].calls[k].id
      /\ entry.told = told
  BY <1>4 DEF Result
<1>6. AppendIn(<<entry>>) /\ eng' = AfterCall
  BY <1>3, <1>4 DEF Answer
<1>7. Grows(1) /\ log'[Len(log) + 1] = entry
  BY <1>1, <1>6, AppendedOne
<1>8. Len(log') = Len(log) + 1 /\ \A i \in 1..Len(log) : log'[i] = log[i]
  BY <1>7 DEF Grows
<1>9. \A i \in (Len(log) + 1)..(Len(log) + 1) : log'[i] = entry
  BY <1>1, <1>7
<1>10. LogOK'
  <2>1. \A i \in (Len(log) + 1)..(Len(log) + 1) : EntryOK(i)'
    <3> SUFFICES ASSUME NEW i \in (Len(log) + 1)..(Len(log) + 1) PROVE EntryOK(i)'
      OBVIOUS
    <3>1. log'[i] = entry /\ i - 1 = Len(log) /\ log'[a] = log[a]
      BY <1>1, <1>3, <1>8, <1>9
    <3> QED
      BY <1>3, <1>5, <3>1 DEF EntryOK, IsCall
  <2>2. acked' \in acked..Len(log')
    BY <1>1, <1>8
  <2> QED
    BY <1>1, <1>7, <2>1, <2>2, LogGrows
<1>11. ResultTellsTruth'
  <2>1. \A i \in (Len(log) + 1)..(Len(log) + 1) :
          log'[i].at = <<a, k>> /\ log'[i].told = told /\ log'[a].calls[k] = ThisCall
    BY <1>3, <1>5, <1>8, <1>9
  <2>2. \A i, j \in (Len(log) + 1)..(Len(log) + 1) : i = j
    BY <1>1
  <2> QED
    BY <1>1, <1>3, <1>7, <2>1, <2>2, TruthGrows, SMTT(30) DEF IInv
<1>12. RanOnce'
  BY <1>1, <1>8, RanKept DEF IInv
<1>13. /\ DOMAIN eng' = DOMAIN Resting /\ eng'.entry = a /\ eng'.todo = eng.todo \ {k}
       /\ eng'.settling = eng.settling /\ eng'.double = eng.double
       /\ eng'.step = (IF eng.todo = {k} THEN "top" ELSE "call")
  BY <1>2, <1>6, EngineShape DEF AfterCall, IInv, AtWork
<1>14. ASSUME eng'.step = "call"
       PROVE  Pending'
  <2>1. Calls' = Calls /\ ~Batch'
    BY <1>2, <1>3, <1>8, <1>13 DEF Calls, Batch
  <2>2. eng'.todo # {} /\ eng'.todo \subseteq DOMAIN Calls
    BY <1>1, <1>3, <1>13, <1>14 DEF Pending
  <2>3. ASSUME NEW l \in eng'.todo
        PROVE  ~Resulted(<<a, l>>)' /\ (~eng.settling => ~StartedBy(<<a, l>>, Len(log))')
    <3>1. l \in eng.todo /\ l # k
      BY <1>13, <2>3
    <3>2. ~Resulted(<<a, l>>) /\ (~eng.settling => ~StartedBy(<<a, l>>, Len(log)))
      BY <1>1, <1>2, <3>1 DEF Pending
    <3>3. <<a, l>> # <<a, k>>
      BY <3>1
    <3> QED
      BY <1>1, <1>5, <1>7, <1>9, <3>2, <3>3, Untouched
  <2> QED
    BY <1>3, <1>8, <1>13, <2>1, <2>2, <2>3 DEF Pending
<1>15. AtWork'
  BY <1>13, <1>14 DEF AtWork, AtCalls
<1> QED
  BY <1>10, <1>11, <1>12, <1>15 DEF IInv

\* What is about to be settled has not run: its marker would be there.
LEMMA NotBegun ==
  ASSUME IInv, eng.step = "call", ~Begun
  PROVE  ~StartedBy(Here, Len(log)) /\ Here \notin ToSet(ran)
<1>1. LogOK /\ Pending /\ Len(log) \in Nat /\ DOMAIN log = 1..Len(log) /\ acked \in Nat /\ acked <= Len(log)
  BY LogDomain DEF IInv, AtWork, AtCalls
<1>2. Index \in eng.todo
  BY <1>1, IndexIsPending
<1>3. ~StartedBy(Here, Len(log))
  <2>1. CASE eng.settling
    BY <1>1, <2>1 DEF Begun, Started, StartedBy
  <2>2. CASE ~eng.settling
    BY <1>1, <1>2, <2>2 DEF Pending, Here
  <2> QED
    BY <2>1, <2>2
<1>4. ~StartedBy(Here, acked)
  BY <1>1, <1>3 DEF StartedBy
<1> QED
  BY <1>3, <1>4 DEF IInv, RanOnce

LEMMA InterruptStep ==
  ASSUME IInv, Interrupt
  PROVE  IInv'
<1>1. ~Batch
  BY DEF Interrupt, Begun, Batch
<1> QED
  BY <1>1, AnswerStep DEF Interrupt, AtCall, AtCalls

LEMMA RefuseStep ==
  ASSUME IInv, RefuseDouble
  PROVE  IInv'
<1>1. ~Batch /\ Here \notin ToSet(ran)
  BY NotBegun DEF RefuseDouble, AtCall, Batch
<1> QED
  BY <1>1, AnswerStep DEF RefuseDouble, AtCall, AtCalls

LEMMA DenyStep ==
  ASSUME IInv, Deny
  PROVE  IInv'
<1>1. ~Batch /\ Here \notin ToSet(ran)
  BY NotBegun DEF Deny, Executes, AtCall
<1> QED
  BY <1>1, AnswerStep DEF Deny, Executes, AtCall, AtCalls

LEMMA RunReadOnlyStep ==
  ASSUME IInv, RunReadOnly
  PROVE  IInv'
<1>1. ~Batch /\ ThisCall.ro
  BY DEF RunReadOnly, Allowed, Executes
<1> QED
  BY <1>1, AnswerStep DEF RunReadOnly, Allowed, Executes, AtCall, AtCalls

LEMMA RecordStep ==
  ASSUME IInv, Record
  PROVE  IInv'
<1>1. AtCalls /\ Here \in ToSet(ran) /\ Pending
  BY DEF Record, IInv, AtWork, AtCalls
<1>2. ~Batch
  BY <1>1 DEF Record, Pending
<1> QED
  BY <1>1, <1>2, AnswerStep DEF Record

\* The marker goes into the log before the tool is begun.
LEMMA MarkStep ==
  ASSUME IInv, MarkStarted
  PROVE  IInv'
<1>1. /\ LogOK /\ Pending /\ Len(log) \in Nat /\ acked \in Nat /\ acked <= Len(log)
      /\ eng.step = "call" /\ ~Begun /\ ~Batch /\ UNCHANGED <<acked, ran>>
  BY LogDomain DEF IInv, AtWork, AtCalls, MarkStarted, Allowed, Executes, AtCall
<1>2. PICK a, k : a = eng.entry /\ k = Index
  OBVIOUS
<1>3. /\ Here = <<a, k>> /\ a \in 1..Len(log) /\ log[a].kind = "assistant" /\ k \in eng.todo
      /\ k \in DOMAIN log[a].calls
  BY <1>1, <1>2, IndexIsPending DEF Here, Pending, Calls
<1>4. Here \notin ToSet(ran) /\ ~StartedBy(Here, Len(log))
  BY <1>1, NotBegun
<1>5. PICK entry : entry = Marker(<<a, k>>)
  OBVIOUS
<1>6. entry.kind = "tool_started" /\ entry.at = <<a, k>>
  BY <1>5 DEF Marker
<1>7. AppendIn(<<entry>>) /\ eng' = [eng EXCEPT !.step = "marking"]
  BY <1>3, <1>5 DEF MarkStarted
<1>8. Grows(1) /\ log'[Len(log) + 1] = entry
  BY <1>1, <1>7, AppendedOne
<1>9. Len(log') = Len(log) + 1 /\ \A i \in 1..Len(log) : log'[i] = log[i]
  BY <1>8 DEF Grows
<1>10. \A i \in (Len(log) + 1)..(Len(log) + 1) : log'[i] = entry
  BY <1>1, <1>8
<1>11. LogOK'
  <2>1. \A i \in (Len(log) + 1)..(Len(log) + 1) : EntryOK(i)'
    <3> SUFFICES ASSUME NEW i \in (Len(log) + 1)..(Len(log) + 1) PROVE EntryOK(i)'
      OBVIOUS
    <3>1. log'[i] = entry /\ i - 1 = Len(log) /\ log'[a] = log[a]
      BY <1>1, <1>3, <1>9, <1>10
    <3> QED
      BY <1>3, <1>6, <3>1 DEF EntryOK, IsCall
  <2>2. acked' \in acked..Len(log')
    BY <1>1, <1>9
  <2> QED
    BY <1>1, <1>8, <2>1, <2>2, LogGrows
<1>12. ResultTellsTruth'
  BY <1>1, <1>6, <1>8, <1>10, TruthGrows DEF IInv
<1>13. RanOnce'
  BY <1>1, <1>9, RanKept DEF IInv
<1>14. /\ DOMAIN eng' = DOMAIN Resting /\ eng'.entry = a /\ eng'.todo = eng.todo
       /\ eng'.settling = eng.settling /\ eng'.double = eng.double /\ eng'.step = "marking"
  BY <1>2, <1>7, EngineShape DEF IInv, AtWork
<1>15. Calls' = Calls /\ Index' = k /\ Here' = <<a, k>>
  BY <1>2, <1>3, <1>9, <1>14 DEF Calls, Index, Here
<1>16. Pending'
  <2>1. ASSUME NEW l \in eng.todo
        PROVE  ~Resulted(<<a, l>>)' /\ (~eng.settling /\ l # k => ~StartedBy(<<a, l>>, Len(log))')
    <3>1. ~Resulted(<<a, l>>) /\ (~eng.settling /\ l # k => ~StartedBy(<<a, l>>, Len(log)))
      BY <1>1, <1>2, <2>1 DEF Pending
    <3>2. l # k => <<a, l>> # <<a, k>>
      OBVIOUS
    <3> QED
      BY <1>1, <1>6, <1>8, <1>10, <3>1, <3>2, Untouched
  <2>2. ~Batch'
    BY <1>1, <1>14, <1>15 DEF Batch
  <2> QED
    BY <1>1, <1>2, <1>3, <1>9, <1>14, <1>15, <2>1, <2>2 DEF Pending
<1>17. StartedBy(Here, Len(log))'
  BY <1>1, <1>6, <1>8, <1>9, <1>15 DEF StartedBy
<1>18. AtWork'
  BY <1>1, <1>3, <1>4, <1>14, <1>15, <1>16, <1>17 DEF AtWork
<1> QED
  BY <1>11, <1>12, <1>13, <1>18 DEF IInv

\* The tool waits until its marker is durable.
LEMMA MarkedStep ==
  ASSUME IInv, Marked
  PROVE  IInv'
<1>1. Len(log) \in Nat /\ acked \in Nat /\ acked <= Len(log)
  BY LogDomain DEF IInv
<1>2. /\ eng.step = "marking" /\ acked' = Len(log) /\ UNCHANGED <<log, ran>>
      /\ DOMAIN eng' = DOMAIN Resting /\ eng'.entry = eng.entry /\ eng'.todo = eng.todo
      /\ eng'.settling = eng.settling /\ eng'.double = eng.double /\ eng'.step = "started"
  BY EngineShape DEF Marked, IInv, AtWork
<1>3. LogOK'
  BY <1>1, <1>2 DEF IInv, LogOK, EntryOK, IsCall
<1>4. RanOnce' /\ ResultTellsTruth'
  <2>1. RanOnce'
    BY <1>1, <1>2, RanKept DEF IInv
  <2> QED
    BY <1>2, <2>1 DEF IInv, ResultTellsTruth, Results
<1>5. Calls' = Calls /\ Index' = Index /\ Here' = Here /\ (Batch' <=> Batch)
  BY <1>2 DEF Calls, Index, Here, Batch
<1>6. Pending /\ StartedBy(Here, Len(log)) /\ Here \notin ToSet(ran)
  BY <1>2 DEF IInv, AtWork, AtCalls
<1>7. Pending'
  BY <1>2, <1>5, <1>6 DEF Pending, Resulted, StartedBy
<1>8. StartedBy(Here, acked)'
  BY <1>2, <1>5, <1>6 DEF StartedBy
<1>9. AtWork'
  BY <1>2, <1>5, <1>6, <1>7, <1>8 DEF AtWork
<1> QED
  BY <1>3, <1>4, <1>9 DEF IInv

\* The effect happens: for the first time, and on a call of no result.
LEMMA RunToolStep ==
  ASSUME IInv, RunTool
  PROVE  IInv'
<1>1. Len(log) \in Nat /\ DOMAIN log = 1..Len(log) /\ acked \in Nat /\ acked <= Len(log)
  BY LogDomain DEF IInv
<1>2. /\ eng.step = "started" /\ ran' = Append(ran, Here) /\ UNCHANGED <<log, acked>>
      /\ DOMAIN eng' = DOMAIN Resting /\ eng'.entry = eng.entry /\ eng'.todo = eng.todo
      /\ eng'.settling = eng.settling /\ eng'.double = eng.double /\ eng'.step = "done"
  BY EngineShape DEF RunTool, IInv, AtWork
<1>3. Pending /\ StartedBy(Here, acked) /\ Here \notin ToSet(ran) /\ ~Resulted(Here)
  BY <1>2, IndexIsPending DEF IInv, AtWork, AtCalls
<1>4. PICK here : here = Here
  OBVIOUS
<1>5. /\ ran' \in Seq(ToSet(ran) \cup {here}) /\ Len(ran) \in Nat /\ Len(ran') = Len(ran) + 1
      /\ DOMAIN ran = 1..Len(ran) /\ DOMAIN ran' = 1..(Len(ran) + 1)
      /\ \A i \in 1..Len(ran) : ran'[i] = ran[i]
      /\ ran'[Len(ran) + 1] = here
  <2>1. ran \in Seq(ToSet(ran) \cup {here})
    BY SeqMonotonic DEF IInv, RanOnce
  <2> QED
    BY <1>2, <1>4, <2>1, AppendProperties, LenProperties
<1>6. ToSet(ran)' = ToSet(ran) \cup {here}
  BY <1>5 DEF ToSet
<1>7. LogOK'
  BY <1>2 DEF IInv, LogOK, EntryOK, IsCall
<1>8. RanOnce'
  <2>1. ran' \in Seq(ToSet(ran)')
    BY <1>5, <1>6
  <2>2. \A at \in ToSet(ran)' : StartedBy(at, acked)'
    BY <1>2, <1>3, <1>4, <1>6 DEF IInv, RanOnce, StartedBy
  <2>3. AtMostOnce'
    <3>1. \A i \in 1..Len(ran) : ran[i] # here
      BY <1>3, <1>4, <1>5 DEF ToSet
    <3> QED
      BY <1>5, <3>1 DEF IInv, RanOnce, AtMostOnce
  <2> QED
    BY <2>1, <2>2, <2>3 DEF RanOnce
<1>9. ResultTellsTruth'
  <2>1. \A i \in Results : log[i].at # here
    BY <1>1, <1>3, <1>4 DEF Resulted, Results
  <2>2. Results' = Results
    BY <1>2 DEF Results
  <2> QED
    BY <1>2, <1>6, <2>1, <2>2 DEF IInv, ResultTellsTruth
<1>10. Calls' = Calls /\ Index' = Index /\ Here' = Here /\ (Batch' <=> Batch)
  BY <1>2 DEF Calls, Index, Here, Batch
<1>11. Pending'
  BY <1>2, <1>3, <1>10 DEF Pending, Resulted, StartedBy
<1>12. AtWork'
  BY <1>2, <1>4, <1>6, <1>10, <1>11 DEF AtWork
<1> QED
  BY <1>7, <1>8, <1>9, <1>12 DEF IInv

\* A batch gives each of its calls its result; they have no effects.
LEMMA RunBatchStep ==
  ASSUME IInv, RunBatch
  PROVE  IInv'
<1>1. /\ LogOK /\ Pending /\ Len(log) \in Nat /\ acked \in Nat /\ acked <= Len(log)
      /\ Batch /\ UNCHANGED <<acked, ran>>
  BY LogDomain DEF IInv, AtWork, AtCalls, RunBatch, AtCall
<1>2. PICK a, calls : a = eng.entry /\ calls = Calls
  OBVIOUS
<1>3. /\ a \in 1..Len(log) /\ log[a].kind = "assistant" /\ calls = log[a].calls
      /\ Len(calls) \in Nat /\ DOMAIN calls = 1..Len(calls)
      /\ \A k \in DOMAIN calls : calls[k].ro /\ ~Resulted(<<a, k>>)
  BY <1>1, <1>2, IndexIsPending DEF Pending, Batch, Calls
<1>4. PICK es : es = [k \in 1..Len(calls) |-> Result(<<a, k>>, calls[k].id, "ran")]
  OBVIOUS
<1>5. AppendIn(es) /\ eng' = [eng EXCEPT !.step = "top", !.todo = {}]
  BY <1>2, <1>3, <1>4 DEF RunBatch
<1>6. /\ es \in Seq({es[k] : k \in 1..Len(calls)}) /\ Len(es) = Len(calls)
      /\ \A k \in 1..Len(calls) : /\ es[k].kind = "tool_result" /\ es[k].at = <<a, k>>
                                  /\ es[k].id = calls[k].id /\ es[k].told = "ran"
  <2>1. es \in [1..Len(calls) -> {es[k] : k \in 1..Len(calls)}]
    BY <1>4
  <2>2. es \in Seq({es[k] : k \in 1..Len(calls)}) /\ Len(es) = Len(calls)
    BY <1>3, <2>1, SeqDef, SMTT(30)
  <2> QED
    BY <1>4, <2>2 DEF Result
<1>7. Grows(Len(calls)) /\ \A i \in 1..Len(calls) : log'[Len(log) + i] = es[i]
  BY <1>1, <1>5, <1>6, Appended
<1>8. Len(log') = Len(log) + Len(calls) /\ \A i \in 1..Len(log) : log'[i] = log[i]
  BY <1>7 DEF Grows
<1>9. \A i \in (Len(log) + 1)..(Len(log) + Len(calls)) :
        /\ i - Len(log) \in 1..Len(calls)
        /\ log'[i].kind = "tool_result" /\ log'[i].at = <<a, i - Len(log)>>
        /\ log'[i].id = calls[i - Len(log)].id /\ log'[i].told = "ran"
  <2> SUFFICES ASSUME NEW i \in (Len(log) + 1)..(Len(log) + Len(calls))
               PROVE  /\ i - Len(log) \in 1..Len(calls)
                      /\ log'[i].kind = "tool_result" /\ log'[i].at = <<a, i - Len(log)>>
                      /\ log'[i].id = calls[i - Len(log)].id /\ log'[i].told = "ran"
    OBVIOUS
  <2>1. i - Len(log) \in 1..Len(calls) /\ Len(log) + (i - Len(log)) = i
    BY <1>1, <1>3
  <2>2. log'[i] = es[i - Len(log)]
    BY <1>7, <2>1
  <2> QED
    BY <1>6, <2>1, <2>2
<1>10. LogOK'
  <2>1. \A i \in (Len(log) + 1)..(Len(log) + Len(calls)) : EntryOK(i)'
    <3> SUFFICES ASSUME NEW i \in (Len(log) + 1)..(Len(log) + Len(calls)) PROVE EntryOK(i)'
      OBVIOUS
    <3>1. PICK k \in 1..Len(calls) : k = i - Len(log)
      BY <1>9
    <3>2. /\ log'[i].kind = "tool_result" /\ log'[i].at = <<a, k>> /\ log'[i].id = calls[k].id
          /\ log'[a] = log[a] /\ a \in 1..(i - 1)
      BY <1>1, <1>3, <1>8, <1>9, <3>1
    <3> QED
      BY <1>3, <3>1, <3>2 DEF EntryOK, IsCall
  <2>2. acked' \in acked..Len(log')
    BY <1>1, <1>3, <1>8
  <2> QED
    BY <1>1, <1>3, <1>7, <2>1, <2>2, LogGrows
<1>11. ResultTellsTruth'
  <2>1. \A i \in (Len(log) + 1)..(Len(log) + Len(calls)) :
          /\ log'[log'[i].at[1]].calls[log'[i].at[2]].ro
          /\ ~Resulted(log'[i].at)
          /\ \A j \in (Len(log) + 1)..(Len(log) + Len(calls)) : log'[j].at = log'[i].at => j = i
    <3> SUFFICES ASSUME NEW i \in (Len(log) + 1)..(Len(log) + Len(calls))
                 PROVE  /\ log'[log'[i].at[1]].calls[log'[i].at[2]].ro
                        /\ ~Resulted(log'[i].at)
                        /\ \A j \in (Len(log) + 1)..(Len(log) + Len(calls)) :
                             log'[j].at = log'[i].at => j = i
      OBVIOUS
    <3>1. PICK k \in 1..Len(calls) : k = i - Len(log) /\ log'[i].at = <<a, k>>
      BY <1>9
    <3>2. log'[a] = log[a]
      BY <1>3, <1>8
    <3>3. ASSUME NEW j \in (Len(log) + 1)..(Len(log) + Len(calls)), log'[j].at = log'[i].at
          PROVE  j = i
      <4>1. PICK l \in 1..Len(calls) : l = j - Len(log) /\ log'[j].at = <<a, l>>
        BY <1>9
      <4>2. l = k
        BY <3>1, <3>3, <4>1
      <4> QED
        BY <1>1, <1>3, <3>1, <4>1, <4>2
    <3> QED
      BY <1>3, <3>1, <3>2, <3>3
  <2> QED
    BY <1>1, <1>3, <1>7, <2>1, TruthGrows DEF IInv
<1>12. RanOnce'
  BY <1>1, <1>8, RanKept DEF IInv
<1>13. AtWork'
  BY <1>5, EngineShape DEF AtWork, AtCalls, IInv
<1> QED
  BY <1>10, <1>11, <1>12, <1>13 DEF IInv

\* A crash keeps what is acked, and with it the record of all that ran.
LEMMA CrashStep ==
  ASSUME IInv, Crash
  PROVE  IInv'
<1>1. LogOK /\ Len(log) \in Nat /\ DOMAIN log = 1..Len(log) /\ acked \in Nat /\ acked <= Len(log)
  BY LogDomain DEF IInv
<1>2. PICK n \in acked..Len(log) : log' = SubSeq(log, 1, n)
  BY DEF Crash
<1>3. eng' = Resting /\ UNCHANGED <<acked, ran>> /\ n \in Nat /\ n <= Len(log) /\ acked <= n
  BY <1>1, <1>2 DEF Crash
<1>4. /\ log' \in Seq(ToSet(log)) /\ Len(log') = n
      /\ \A i \in 1..n : log'[i] = log[i]
  <2>1. \A i \in 1..n : log[i] \in ToSet(log)
    BY <1>1, <1>3 DEF ToSet
  <2> QED
    BY <1>2, <1>3, <2>1, SubSeqProperties
<1>5. log' \in Seq(ToSet(log')) /\ DOMAIN log' = 1..n
  BY <1>4, SeqOfItsOwn, LenProperties
<1>6. LogOK'
  <2>1. ASSUME NEW i \in 1..n
        PROVE  EntryOK(i)'
    <3>1. EntryOK(i) /\ log'[i] = log[i]
      BY <1>1, <1>3, <1>4 DEF LogOK
    <3>2. log[i].kind \in {"tool_result", "tool_started"} =>
            log[i].at[1] \in 1..n /\ log'[log[i].at[1]] = log[log[i].at[1]]
      BY <1>3, <1>4, <3>1 DEF EntryOK, IsCall
    <3> QED
      BY <3>1, <3>2 DEF EntryOK, IsCall
  <2> QED
    BY <1>1, <1>3, <1>4, <1>5, <2>1 DEF LogOK
<1>7. RanOnce'
  BY <1>1, <1>3, <1>4, RanKept DEF IInv
<1>8. ResultTellsTruth'
  <2>1. \A i \in Results' : i \in Results /\ log'[i] = log[i] /\ log'[log[i].at[1]] = log[log[i].at[1]]
    <3> SUFFICES ASSUME NEW i \in 1..n, log'[i].kind = "tool_result"
                 PROVE  i \in Results /\ log'[i] = log[i] /\ log'[log[i].at[1]] = log[log[i].at[1]]
      BY <1>5 DEF Results
    <3>1. log'[i] = log[i] /\ i \in 1..Len(log) /\ EntryOK(i)
      BY <1>1, <1>3, <1>4 DEF LogOK
    <3>2. log[i].at[1] \in 1..n
      BY <1>3, <3>1 DEF EntryOK, IsCall
    <3> QED
      BY <1>1, <1>4, <3>1, <3>2 DEF Results
  <2> QED
    BY <1>3, <2>1, SMTT(30) DEF IInv, ResultTellsTruth
<1>9. AtWork'
  BY <1>3, EngineShape DEF AtWork, AtCalls
<1> QED
  BY <1>6, <1>7, <1>8, <1>9 DEF IInv

LEMMA PlainOne ==
  ASSUME IInv, NEW entry, AppendIn(<<entry>>), entry.kind \in {"user", "end", "park"},
         UNCHANGED <<acked, ran>>, DOMAIN eng' = DOMAIN Resting,
         eng'.step \in {"resting", "top", "answered"}
  PROVE  IInv'
<1> DEFINE es == <<entry>>
<1>1. es \in Seq({entry}) /\ Len(es) = 1 /\ es[1] = entry
  OBVIOUS
<1> HIDE DEF es
<1>2. AppendIn(es)
  BY DEF es
<1>3. \A i \in 1..Len(es) : es[i].kind \in {"user", "end", "park"}
  BY <1>1
<1> QED
  BY <1>1, <1>2, <1>3, PlainStep

LEMMA RunStep ==
  ASSUME IInv, Run
  PROVE  IInv'
<1>1. PICK seed \in Seeds, author \in Authors : Reject(seed) \/ Prompt(seed, author)
  BY DEF Run
<1>2. eng.step = "resting" /\ UNCHANGED <<acked, ran>> /\ DOMAIN eng = DOMAIN Resting
  BY DEF Run, IInv, AtWork
<1> DEFINE S == {User("system", FALSE), User(author, TRUE)}
<1>3. seed \in Seq(S) /\ (seed = <<>> \/ seed = <<User("system", FALSE)>>)
  <2>1. seed = <<>> \/ seed = <<User("system", FALSE)>>
    BY DEF Seeds
  <2>2. <<>> \in Seq(S) /\ <<User("system", FALSE)>> \in Seq(S)
    OBVIOUS
  <2> QED
    BY <2>1, <2>2
<1>4. \A entry \in S : entry.kind = "user"
  BY DEF User
<1>5. CASE Reject(seed)
  <2>1. \A i \in 1..Len(seed) : seed[i].kind \in {"user", "end", "park"}
    <3> HIDE DEF S
    <3> QED
      BY <1>3, <1>4, ElementOfSeq
  <2> HIDE DEF S
  <2> QED
    BY <1>2, <1>3, <1>5, <2>1, PlainStep DEF Reject
<1>6. CASE Prompt(seed, author)
  <2>1. PICK es : es = Append(seed, User(author, TRUE))
    OBVIOUS
  <2>2. User(author, TRUE) \in S
    OBVIOUS
  <2> HIDE DEF S
  <2>3. es \in Seq(S)
    BY <1>3, <2>1, <2>2, AppendProperties
  <2>4. \A i \in 1..Len(es) : es[i].kind \in {"user", "end", "park"}
    BY <1>4, <2>3, ElementOfSeq
  <2>5. AppendIn(es) /\ DOMAIN eng' = DOMAIN Resting /\ eng'.step = "top"
    BY <1>6, <2>1, EngineShape DEF Prompt
  <2> QED
    BY <1>2, <2>3, <2>4, <2>5, PlainStep
<1> QED
  BY <1>1, <1>5, <1>6

LEMMA StepHolds ==
  ASSUME IInv, [Next]_vars
  PROVE  IInv'
<1>1. CASE Run
  BY <1>1, RunStep
<1>2. CASE Resume
  <2>1. ToResume(log) \in {InFlight(log), ParkedTurn(log) \cup AfterPark(log)}
    BY <1>2 DEF Resume, ToResume
  <2>2. Whole(log, ToResume(log), Len(log))
    BY <2>1, WholeToContinue DEF IInv
  <2> QED
    BY <1>2, <2>2, ContinueStep DEF Resume
<1>3. CASE Approve
  <2>1. Whole(log, ParkedTurn(log) \cup AfterPark(log), Len(log))
    BY WholeToContinue DEF IInv
  <2> QED
    BY <1>3, <2>1, ContinueStep DEF Approve
<1>4. CASE Interrupt \/ RefuseDouble \/ Deny \/ RunReadOnly \/ MarkStarted
  BY <1>4, InterruptStep, RefuseStep, DenyStep, RunReadOnlyStep, MarkStep
<1>5. CASE ParkCall \/ ParkBatch
  <2>1. PICK k : ParkHere(k) /\ UNCHANGED <<acked, ran>>
    BY <1>5 DEF ParkCall, ParkBatch, Executes, AtCall
  <2>2. PICK entry : entry = Park(k, Calls[k].id)
    OBVIOUS
  <2>3. AppendIn(<<entry>>) /\ eng' = Resting /\ entry.kind = "park"
    BY <2>1, <2>2 DEF ParkHere, Park
  <2> QED
    BY <2>1, <2>3, EngineShape, PlainOne
<1>6. CASE Marked \/ RunTool \/ Record \/ RunBatch
  BY <1>6, MarkedStep, RunToolStep, RecordStep, RunBatchStep
<1>7. CASE CallModel
  BY <1>7, CallModelStep
<1>8. CASE FoldIn \/ Inject
  <2>1. Said /\ UNCHANGED <<acked, ran>>
    BY <1>8 DEF FoldIn, Inject
  <2>2. PICK entry : entry = User("peer", FALSE)
    OBVIOUS
  <2>3. /\ AppendIn(<<entry>>) /\ entry.kind = "user" /\ eng'.step = "top"
        /\ DOMAIN eng' = DOMAIN Resting
    BY <2>1, <2>2, EngineShape DEF Said, User, IInv, AtWork
  <2> QED
    BY <2>1, <2>3, PlainOne
<1>9. CASE Finish \/ Cancel
  <2>1. Ended /\ UNCHANGED <<acked, ran>>
    BY <1>9 DEF Finish, Cancel
  <2>2. AppendIn(<<End>>) /\ End.kind = "end" /\ eng' = Resting
    BY <2>1 DEF Ended, End
  <2> QED
    BY <2>1, <2>2, EngineShape, PlainOne
<1>10. CASE Stop
  <2>1. AtWork'
    BY <1>10, EngineShape DEF Stop, AtWork, AtCalls
  <2> QED
    BY <1>10, <2>1, QuietStep DEF Stop
<1>11. CASE Crash
  BY <1>11, CrashStep
<1>12. CASE UNCHANGED vars
  <2>1. AtWork'
    BY <1>12 DEF vars, IInv, AtWork, AtCalls, Pending, Resulted, StartedBy, Batch, Calls, Index, Here
  <2> QED
    BY <1>12, <2>1, QuietStep DEF vars
<1> QED
  BY <1>1, <1>2, <1>3, <1>4, <1>5, <1>6, <1>7, <1>8, <1>9, <1>10, <1>11, <1>12 DEF Next

LEMMA InitHolds == Init => IInv
<1> SUFFICES ASSUME Init PROVE IInv
  OBVIOUS
<1>1. /\ log = <<>> /\ ran = <<>> /\ acked = 0 /\ eng = Resting
      /\ Len(<<>>) = 0 /\ DOMAIN <<>> = {} /\ \A S : <<>> \in Seq(S)
  BY EmptySeq DEF Init
<1>2. ToSet(ran) = {}
  BY <1>1 DEF ToSet
<1>3. LogOK
  BY <1>1 DEF LogOK
<1>4. RanOnce
  BY <1>1, <1>2 DEF RanOnce, AtMostOnce
<1>5. AtWork /\ ResultTellsTruth
  BY <1>1, EngineShape DEF AtWork, AtCalls, ResultTellsTruth, Results
<1> QED
  BY <1>3, <1>4, <1>5 DEF IInv

LEMMA Invariance == Spec => []IInv
  BY InitHolds, StepHolds, PTL DEF Spec

\* A tool with effects runs at most once for a call, over any crashes, resumes and approvals:
\* markStarted(), startedFrom() and settlePending().
THEOREM RunsAtMostOnce == Spec => []AtMostOnce
<1>1. IInv => AtMostOnce
  BY DEF IInv, RanOnce
<1> QED
  BY <1>1, Invariance, PTL

\* The record tells what happened: an effect has its durable marker, a call that ran is not called
\* denied or refused, one told as run has run, and no call has two results.
THEOREM RecordTellsTruth == Spec => []RecordIsTrue
<1>1. IInv => RecordIsTrue
  <2> SUFFICES ASSUME IInv PROVE RecordIsTrue
    OBVIOUS
  <2>1. Len(log) \in Nat /\ DOMAIN log = 1..Len(log) /\ acked \in Nat /\ acked <= Len(log)
    BY LogDomain DEF IInv
  <2>2. EffectOnRecord
    <3> SUFFICES ASSUME NEW i \in DOMAIN ran PROVE Started(ran[i])
      BY DEF EffectOnRecord
    <3>1. StartedBy(ran[i], acked)
      BY DEF IInv, RanOnce, ToSet
    <3> QED
      BY <2>1, <3>1 DEF StartedBy, Started
  <2> QED
    BY <2>2 DEF IInv, RecordIsTrue
<1> QED
  BY <1>1, Invariance, PTL

=============================================================================
