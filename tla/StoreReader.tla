----------------------------- MODULE StoreReader -----------------------------
(***************************************************************************)
(* How the engine's client asks the session store                          *)
(* (src/packages/harness/src/store/remote/client.ts): call(), with its     *)
(* attempts, its waits and its budget of time; readAll(), page after page  *)
(* of a log that grows; and stream(), an event stream cut into chunks      *)
(* anywhere, that its caller takes up again after the last event it saw.   *)
(*                                                                         *)
(* Time is in units of RETRY_BASE_MS.  A call starts at 0.                 *)
(***************************************************************************)
EXTENDS Integers, SequencesExt

CONSTANT
  Asks \* [op, log, grows, cut, breaks, waits, ends, budget, timeout]: what is asked, the events there are and
       \* may come, the most in a page, the line breaks of the stream, what Retry-After may say, how often a
       \* stream may end, and RETRY_BUDGET_MS and the timeout of an attempt in units

MaxAttempts == 3

VARIABLES
  ask,
  log,     \* how many events the store has
  call,    \* the call under way: [at, attempt, wait]
  now,
  ran,     \* how often the store did what was asked
  told,    \* what the caller was told
  events,  \* what it has, in order: of a read, or of a stream
  last,    \* the last seq of the read, once it ended
  wire,    \* what the store has sent of the stream and was not read
  buf, pendingCr,
  ends

callVars == <<call, now, ran, told>>
streamVars == <<wire, buf, pendingCr, ends>>
vars == <<ask, log, callVars, events, last, streamVars>>

Start == [at |-> "asks", attempt |-> 1, wait |-> 0]

Init ==
  /\ ask \in Asks
  /\ log = ask.log
  /\ call = IF ask.op = "stream" THEN [Start EXCEPT !.at = "rests"] ELSE Start
  /\ now = 0 /\ ran = 0 /\ told = "nothing"
  /\ events = <<>> /\ last = 0
  /\ wire = <<>> /\ buf = <<>> /\ pendingCr = FALSE /\ ends = 0

\* Another engine's appends.
Grow ==
  /\ call.at # "streams" /\ log < ask.log + ask.grows /\ log' = log + 1
  /\ UNCHANGED <<ask, callVars, events, last, streamVars>>

-----------------------------------------------------------------------------
(* call().                                                                 *)

Appends == ask.op = "append"

Tell(what) == told' = what /\ call' = [call EXCEPT !.at = "rests"]

\* An attempt ends, at the latest with its timeout, which is cut to what is left of the budget.
AttemptEnds == \E t \in now..(now + Min({ask.timeout, ask.budget - now})) : now' = t

Does == ran' = ran + 1

Asking == call.at = "asks"

\* No answer: the store may have done it.
NoAnswer ==
  /\ Asking /\ AttemptEnds /\ (Does \/ UNCHANGED ran)
  /\ IF Appends THEN call' = [call EXCEPT !.at = "fails", !.wait = 0] /\ UNCHANGED told
     ELSE Tell("unreachable")
  /\ UNCHANGED <<ask, log, events, last, streamVars>>

\* A store that is busy did not do it.
Busy ==
  /\ Asking /\ AttemptEnds
  /\ \E w \in ask.waits : call' = [call EXCEPT !.at = "fails", !.wait = w]
  /\ UNCHANGED <<ask, log, ran, told, events, last, streamVars>>

\* Another 5xx, that may come after it was done.
Errs ==
  /\ Asking /\ AttemptEnds /\ (Does \/ UNCHANGED ran)
  /\ IF Appends THEN call' = [call EXCEPT !.at = "fails", !.wait = 0] /\ UNCHANGED told
     ELSE Tell("error")
  /\ UNCHANGED <<ask, log, events, last, streamVars>>

\* A refusal, thrown at once: of an append that is sent again it may come after the first was done.
Refuses ==
  /\ Asking /\ AttemptEnds
  /\ Tell("refused")
  /\ UNCHANGED <<ask, log, ran, events, last, streamVars>>

Wait == Max({2 ^ (call.attempt - 1), call.wait})

Retry ==
  /\ call.at = "fails"
  /\ IF call.attempt = MaxAttempts \/ now + Wait >= ask.budget
     THEN Tell("gives up") /\ UNCHANGED now
     ELSE /\ call' = [call EXCEPT !.at = "asks", !.attempt = @ + 1]
          /\ now' = now + Wait /\ UNCHANGED told
  /\ UNCHANGED <<ask, log, ran, events, last, streamVars>>

Answers ==
  /\ Asking /\ ask.op # "readAll" /\ AttemptEnds /\ Does
  /\ Tell("answer")
  /\ UNCHANGED <<ask, log, events, last, streamVars>>

\* The caller's signal: an attempt or a wait is given up.
Abort ==
  /\ ask.op = "renew" /\ call.at # "rests"
  /\ Tell("aborted")
  /\ (Asking /\ Does) \/ UNCHANGED ran
  /\ UNCHANGED <<ask, log, now, events, last, streamVars>>

-----------------------------------------------------------------------------
(* readAll(): each page is a call of its own.                              *)

Seen == IF events = <<>> THEN 0 ELSE Last(events)

Page ==
  /\ Asking /\ ask.op = "readAll" /\ now' = 0
  /\ \E n \in Min({1, log - Seen})..Min({ask.cut, log - Seen}) :
       /\ events' = events \o [i \in 1..n |-> Seen + i]
       /\ IF Seen + n >= log
          THEN Tell("answer") /\ last' = log
          ELSE call' = Start /\ UNCHANGED <<told, last>>
  /\ UNCHANGED <<ask, log, ran, streamVars>>

-----------------------------------------------------------------------------
(* stream().                                                               *)

Streams == ask.op = "stream"
CR == <<"CR">>
LF == <<"LF">>

\* An event, and a comment, as the store writes them: lines with their breaks, and a blank line.
Event(seq) == <<<<"id", seq>>>> \o ask.breaks \o <<<<"data", seq>>>> \o ask.breaks \o ask.breaks
Comment == <<<<"comment">>>> \o ask.breaks \o ask.breaks

\* The caller connects, after the last event it saw.
Connect ==
  /\ Streams /\ call.at = "rests" /\ ends <= ask.ends
  /\ call' = [call EXCEPT !.at = "streams"]
  /\ wire' = FlattenSeq([i \in 1..(log - Seen) |-> Event(Seen + i)])
  /\ buf' = <<>> /\ pendingCr' = FALSE
  /\ UNCHANGED <<ask, log, now, ran, told, events, last, ends>>

StreamGrows ==
  /\ Streams /\ call.at = "streams" /\ log < ask.log + ask.grows /\ log' = log + 1
  /\ wire' \in {wire \o Event(log + 1), wire \o Comment \o Event(log + 1)}
  /\ UNCHANGED <<ask, callVars, events, last, buf, pendingCr, ends>>

\* The line breaks made one: a CR LF, or a CR alone, is an LF.
Normal(text) ==
  LET kept == SelectSeq([i \in DOMAIN text |-> i], LAMBDA i : text[i] # LF \/ i = 1 \/ text[i - 1] # CR)
  IN [i \in DOMAIN kept |-> IF text[kept[i]] = CR THEN LF ELSE text[kept[i]]]

\* sseEvent: a block with an id and data is an event.
Yield(block) ==
  LET Of(field) == SelectSeq(block, LAMBDA line : line[1] = field)
  IN IF Of("id") = <<>> \/ Of("data") = <<>> THEN <<>> ELSE <<Last(Of("id"))[2]>>

\* A blank line ends a block.
Take(parsed, c) ==
  IF c = LF /\ parsed.buf # <<>> /\ Last(parsed.buf) = LF
  THEN [buf |-> <<>>, events |-> parsed.events \o Yield(parsed.buf)]
  ELSE [parsed EXCEPT !.buf = Append(@, c)]

\* A CR that ends a chunk waits for the next one.
Holds(text) == Last(text) = CR

Chunk ==
  /\ call.at = "streams"
  /\ \E n \in 1..Len(wire) :
       LET text == (IF pendingCr THEN <<CR>> ELSE <<>>) \o SubSeq(wire, 1, n)
           held == Holds(text)
           parsed == FoldLeft(Take, [buf |-> buf, events |-> events], Normal(IF held THEN Front(text) ELSE text))
       IN /\ wire' = SubSeq(wire, n + 1, Len(wire))
          /\ pendingCr' = held /\ buf' = parsed.buf /\ events' = parsed.events
  /\ UNCHANGED <<ask, log, callVars, last, ends>>

\* The store ends the stream, it breaks, or the caller stops: what was not read is gone.
StreamEnds ==
  /\ call.at = "streams"
  /\ call' = [call EXCEPT !.at = "rests"] /\ ends' = ends + 1
  /\ wire' = <<>> /\ buf' = <<>> /\ pendingCr' = FALSE
  /\ UNCHANGED <<ask, log, now, ran, told, events, last>>

Next ==
  \/ Grow \/ NoAnswer \/ Busy \/ Errs \/ Refuses \/ Retry \/ Answers \/ Abort \/ Page
  \/ Connect \/ StreamGrows \/ Chunk \/ StreamEnds

Spec == Init /\ [][Next]_vars

-----------------------------------------------------------------------------
(* Properties.                                                             *)

\* A reader has the log from its start, with nothing left out and nothing twice: page after page of a log that
\* grows, and over every cut of a stream into chunks and connections.
ReadsTheLog ==
  /\ \A i \in DOMAIN events : events[i] = i
  /\ Len(events) <= log
  /\ ask.op = "readAll" /\ told = "answer" => Len(events) = last

\* Nothing but an append is asked for again once the store may have done it: of any other call, a refusal at
\* whichever attempt, or giving up, means that nothing was done.  A call is over when its budget is, however
\* its attempts and waits add up.
AskedSafely ==
  /\ ~Appends => ran <= 1 /\ (told \in {"refused", "gives up"} => ran = 0)
  /\ now <= ask.budget

ClientAccounted == ReadsTheLog /\ AskedSafely
=============================================================================
