--------------------------- MODULE GatewayClient ---------------------------
(***************************************************************************)
(* One streamed model call through the gateway: stream() connects with     *)
(* retries, relays what comes, and on a failure streams again, fails over  *)
(* to the next model of its ladder, or throws.  A person may cancel it at  *)
(* any time; what is shown to them is what came since the last reset.      *)
(*                                                                         *)
(* Models are the rungs of the ladder, 1 being the one requested, and      *)
(* Other, one the gateway may answer with on its own.  A failure is known  *)
(* by what the client does of it:                                          *)
(*   busy      a status worth a retry       refused  the model, by policy  *)
(*   fatal     any other status             token    the session token     *)
(*   denied    a swap under fallback: deny  stream   an error in a stream  *)
(*   network, timeout, cancelled                                           *)
(***************************************************************************)
EXTENDS Integers, Sequences

CONSTANTS
  Rungs,            \* the models of the ladder
  Denies,           \* may model.fallback be deny?
  MaxRetries,       \* handshake retries of one attempt
  MaxStreamRetry,   \* attempts on a model after its first, before any content
  MaxResume,        \* attempts after a connection lost with content shown
  MaxStreamResume,  \* attempts after an upstream error with content shown
  Swaps,            \* models the gateway may answer with when asked for another
  MaxDeltas         \* bound: content events of one stream

Other == 0
Models == 0..Rungs

ASSUME GatewayAssumption ==
  /\ Rungs \in Nat \ {0} /\ Denies \in BOOLEAN /\ Swaps \subseteq Models
  /\ {MaxRetries, MaxStreamRetry, MaxResume, MaxStreamResume, MaxDeltas} \subseteq Nat

Retryable == {"busy", "network", "timeout", "stream"}
Failures == Retryable \cup {"refused", "fatal", "token", "denied", "cancelled"}

VARIABLES
  deny,          \* is model.fallback deny?
  aborted,       \* was the call cancelled?
  pc,            \* connect, sent, open, stream, failed, waits, done
  rung,          \* the model asked
  attempt,       \* retries on it without content
  resume, streamResume,  \* attempts after content, by cause
  tries, reread, \* the handshake's retries; was its token read again?
  timedOut,      \* has the attempt's idle signal fired?
  emitted,       \* did the attempt yield content?
  err, primary,  \* why it failed; why the model requested did, or "none"
  announced,     \* the switches yielded, as <<from, to>>
  last,          \* the latest of them, or <<>>
  served, told,  \* who answers the attempt, and with how much content
  shown,         \* content on the screen: <<request, model>>
  requests,      \* requests the client says it sent
  phantom,       \* was one of them refused before it was sent?
  outcome        \* how the call ended

handshake == <<tries, reread, timedOut>>
budget == <<rung, attempt, resume, streamResume, primary>>
switches == <<announced, last>>
reply == <<served, told>>
vars == <<deny, aborted, pc, rung, attempt, resume, streamResume, tries, reread, timedOut, emitted,
          err, primary, announced, last, served, told, shown, requests, phantom, outcome>>

\* Under deny the loop gives the client no ladder.
Ladder == IF deny THEN 1 ELSE Rungs

Init ==
  /\ deny \in {FALSE, Denies} /\ aborted = FALSE /\ pc = "connect"
  /\ rung = 1 /\ attempt = 0 /\ resume = 0 /\ streamResume = 0
  /\ tries = 0 /\ reread = FALSE /\ timedOut = FALSE /\ emitted = FALSE
  /\ err = "none" /\ primary = "none" /\ announced = {} /\ last = <<>>
  /\ served = 1 /\ told = 0 /\ shown = <<>> /\ requests = 0 /\ phantom = FALSE
  /\ outcome = [st |-> "none"]

-----------------------------------------------------------------------------
(* The handshake.                                                          *)

Fail(why) == pc' = "failed" /\ err' = why

\* A cancelled call sends nothing more; nor does one with no credential to read.  A fetch
\* whose signal has fired already is refused on the spot, and counted all the same.
Connect ==
  /\ pc = "connect"
  /\ \/ Fail(IF aborted THEN "cancelled" ELSE "fatal") /\ UNCHANGED <<requests, phantom>>
     \/ /\ ~aborted
        /\ pc' = "sent" /\ requests' = requests + 1 /\ phantom' = (phantom \/ timedOut)
        /\ UNCHANGED err
  /\ UNCHANGED <<deny, aborted, budget, handshake, emitted, switches, reply, shown, outcome>>

\* Another handshake after a pause, or the failure is the attempt's.
TryAgain(why) ==
  IF tries < MaxRetries THEN tries' = tries + 1 /\ pc' = "waits" /\ UNCHANGED err
  ELSE Fail(why) /\ UNCHANGED tries

\* The gateway accepts: the stream is open.
Accepted ==
  /\ pc = "sent" /\ ~timedOut
  /\ pc' = "open"
  /\ UNCHANGED <<deny, aborted, budget, handshake, emitted, err, switches, reply, shown, requests, phantom, outcome>>

\* It answers with an error; a refused session token is read again once.
Answered(why) ==
  /\ pc = "sent" /\ ~timedOut
  /\ \/ why = "busy" /\ TryAgain(why) /\ UNCHANGED reread
     \/ why = "token" /\ ~reread /\ reread' = TRUE /\ pc' = "connect" /\ UNCHANGED <<tries, err>>
     \/ why = "token" /\ reread /\ Fail(why) /\ UNCHANGED <<tries, reread>>
     \/ why \in {"refused", "fatal"} /\ Fail(why) /\ UNCHANGED <<tries, reread>>
  /\ UNCHANGED <<deny, aborted, budget, timedOut, emitted, switches, reply, shown, requests, phantom, outcome>>

\* The request does not get through.
Unreachable ==
  /\ pc = "sent" /\ ~timedOut
  /\ TryAgain(IF aborted THEN "cancelled" ELSE "network")
  /\ UNCHANGED <<deny, aborted, budget, reread, timedOut, emitted, switches, reply, shown, requests, phantom, outcome>>

\* The fetch is aborted: by the person, or by the idle timer, whose signal stays fired.
FetchAborted ==
  /\ pc = "sent"
  /\ IF aborted THEN Fail("cancelled") /\ UNCHANGED <<tries, timedOut>>
     ELSE TryAgain("timeout") /\ timedOut' = TRUE
  /\ UNCHANGED <<deny, aborted, budget, reread, emitted, switches, reply, shown, requests, phantom, outcome>>

\* A pause ends; nothing cuts it short.
Wake ==
  /\ pc = "waits" /\ pc' = "connect"
  /\ UNCHANGED <<deny, aborted, budget, handshake, emitted, err, switches, reply, shown, requests, phantom, outcome>>

-----------------------------------------------------------------------------
(* The stream.                                                             *)

\* Mutant: a swap is announced to the first who asks.
AnnounceOnce(from, to) ==
  IF announced # {} THEN UNCHANGED switches
  ELSE announced' = {<<from, to>>} /\ last' = <<from, to>>

\* A switch is announced once per call.
Announce(from, to) ==
  IF <<from, to>> \in announced THEN UNCHANGED switches
  ELSE announced' = announced \cup {<<from, to>>} /\ last' = <<from, to>>

\* The answer says which model it is of; under deny it must be the one asked.
Start(m) ==
  /\ pc = "open"
  /\ IF m # rung /\ deny THEN Fail("denied") /\ UNCHANGED <<switches, served>>
     ELSE /\ pc' = "stream" /\ served' = m /\ UNCHANGED err
          /\ IF m # rung THEN Announce(rung, m) ELSE UNCHANGED switches
  /\ UNCHANGED <<deny, aborted, budget, handshake, emitted, told, shown, requests, phantom, outcome>>

Delta ==
  /\ pc = "stream" /\ told < MaxDeltas
  /\ told' = told + 1 /\ emitted' = TRUE
  /\ shown' = Append(shown, <<requests, served>>)
  /\ UNCHANGED <<deny, aborted, pc, budget, handshake, err, switches, served, requests, phantom, outcome>>

\* The stream ends as it should: its content is the result.
Complete ==
  /\ pc = "stream"
  /\ pc' = "done"
  /\ outcome' = [st |-> "result", model |-> served, content |-> told, request |-> requests,
                 fallback |-> last # <<>>]
  /\ UNCHANGED <<deny, aborted, budget, handshake, emitted, err, switches, reply, shown, requests, phantom>>

\* It does not: an error event, or an end before the end, which count as such even for a
\* cancelled call; a connection lost; an error nobody knows; or no stream comes at all.
Breaks ==
  /\ pc \in {"open", "stream"}
  /\ \E why \in {"stream", "network", "fatal"} \cup (IF pc = "open" THEN {"busy", "refused"} ELSE {}) : Fail(why)
  /\ UNCHANGED <<deny, aborted, budget, handshake, emitted, switches, reply, shown, requests, phantom, outcome>>

\* Mutant: the idle timer runs from the first event only.
SilenceOnceOpen ==
  /\ pc = "stream"
  /\ Fail(IF aborted THEN "cancelled" ELSE "timeout")
  /\ UNCHANGED <<deny, aborted, budget, handshake, emitted, switches, reply, shown, requests, phantom, outcome>>

\* The signal of the attempt fires: the person's, or the idle timer's after a silence.
Silence ==
  /\ pc \in {"open", "stream"}
  /\ Fail(IF aborted THEN "cancelled" ELSE "timeout")
  /\ UNCHANGED <<deny, aborted, budget, handshake, emitted, switches, reply, shown, requests, phantom, outcome>>

Abort ==
  /\ ~aborted /\ pc \notin {"failed", "done"}
  /\ aborted' = TRUE
  /\ UNCHANGED <<deny, pc, budget, handshake, emitted, err, switches, reply, shown, requests, phantom, outcome>>

-----------------------------------------------------------------------------
(* What becomes of a failed attempt: the first of these that applies.      *)

\* The next attempt, on model m, starts afresh.
Again(next, m) ==
  /\ pc' = next /\ err' = "none" /\ served' = m /\ told' = 0
  /\ tries' = 0 /\ reread' = FALSE /\ timedOut' = FALSE /\ emitted' = FALSE

\* Mutant: what was shown stays.
AgainUnreset ==
  /\ attempt' = 0 /\ UNCHANGED shown
  /\ Again("waits", rung)

\* The same call once more, from its beginning: the screen is told to drop what it has.
FromTheTop ==
  /\ attempt' = 0 /\ shown' = <<>>
  /\ Again("waits", rung)

\* A connection lost after content.
Resumes == emitted /\ err \in {"network", "timeout"} /\ ~aborted /\ resume < MaxResume

\* Mutant: a resume is not counted.
ResumeFree ==
  /\ pc = "failed" /\ Resumes
  /\ FromTheTop
  /\ UNCHANGED <<deny, aborted, rung, resume, streamResume, primary, switches, requests, phantom, outcome>>

Resume ==
  /\ pc = "failed" /\ Resumes
  /\ FromTheTop /\ resume' = resume + 1
  /\ UNCHANGED <<deny, aborted, rung, streamResume, primary, switches, requests, phantom, outcome>>

\* An upstream error after content.
Restreams == emitted /\ err = "stream" /\ ~aborted /\ streamResume < MaxStreamResume

Restream ==
  /\ pc = "failed" /\ Restreams
  /\ FromTheTop /\ streamResume' = streamResume + 1
  /\ UNCHANGED <<deny, aborted, rung, resume, primary, switches, requests, phantom, outcome>>

\* On to the next rung, announced before its first word.
NextRung ==
  /\ rung' = rung + 1 /\ attempt' = 0
  /\ announced' = announced \cup {<<rung, rung + 1>>} /\ last' = <<rung, rung + 1>>
  /\ Again("connect", rung + 1)

\* A rung that policy refuses is skipped.
Skips == ~emitted /\ err = "refused" /\ rung > 1

Skip ==
  /\ pc = "failed" /\ Skips /\ rung < Ladder
  /\ NextRung
  /\ UNCHANGED <<deny, aborted, resume, streamResume, primary, shown, requests, phantom, outcome>>

\* A transient failure before any content: again on the same model, then the next one.
Transient == ~emitted /\ err \in Retryable

RetryStream ==
  /\ pc = "failed" /\ Transient /\ attempt < MaxStreamRetry
  /\ attempt' = attempt + 1
  /\ Again("waits", rung)
  /\ UNCHANGED <<deny, aborted, rung, resume, streamResume, primary, switches, shown, requests, phantom, outcome>>

FailOver ==
  /\ pc = "failed" /\ Transient /\ attempt >= MaxStreamRetry /\ rung < Ladder
  /\ primary' = IF rung = 1 THEN err ELSE primary
  /\ NextRung
  /\ UNCHANGED <<deny, aborted, resume, streamResume, shown, requests, phantom, outcome>>

\* The error the call ends with: when the last rung is refused, that of the model requested.
Thrown == IF Skips THEN primary ELSE err

Throw ==
  /\ pc = "failed" /\ ~Resumes /\ ~Restreams
  /\ Skips => rung = Ladder
  /\ Transient => attempt >= MaxStreamRetry /\ rung = Ladder
  /\ pc' = "done"
  /\ outcome' = [st |-> "error", why |-> Thrown, rung |-> IF Skips THEN 1 ELSE rung]
  /\ UNCHANGED <<deny, aborted, budget, handshake, emitted, err, switches, reply, shown, requests, phantom>>

Next ==
  \/ Connect \/ Accepted \/ Unreachable \/ FetchAborted \/ Wake
  \/ \E why \in {"busy", "token", "refused", "fatal"} : Answered(why)
  \/ \E m \in Swaps \cup {rung} : Start(m)
  \/ Delta \/ Complete \/ Breaks \/ Silence \/ Abort
  \/ Resume \/ Restream \/ Skip \/ RetryStream \/ FailOver \/ Throw

Spec == Init /\ [][Next]_vars

\* The client's own steps and its timers, the idle one included; nothing of the gateway.
LiveSpec ==
  /\ Spec
  /\ WF_vars(Connect \/ FetchAborted \/ Wake \/ Silence)
  /\ WF_vars(Resume \/ Restream \/ Skip \/ RetryStream \/ FailOver \/ Throw)

-----------------------------------------------------------------------------
(* Properties.                                                             *)

TypeOK ==
  /\ deny \in BOOLEAN /\ aborted \in BOOLEAN /\ reread \in BOOLEAN /\ timedOut \in BOOLEAN
  /\ emitted \in BOOLEAN
  /\ pc \in {"connect", "sent", "open", "stream", "failed", "waits", "done"}
  /\ rung \in 1..Ladder /\ attempt \in 0..MaxStreamRetry /\ tries \in 0..MaxRetries
  /\ resume \in 0..MaxResume /\ streamResume \in 0..MaxStreamResume
  /\ err \in Failures \cup {"none"} /\ primary \in Failures \cup {"none"}
  /\ announced \subseteq Models \X Models /\ (last = <<>> <=> announced = {})
  /\ served \in Models /\ told \in 0..MaxDeltas
  /\ requests \in Nat /\ phantom \in BOOLEAN

\* What is on the screen is what one attempt said, the latest that said anything; and a
\* result is exactly what is on the screen.
ShownIsAnswer ==
  /\ emitted => Len(shown) = told /\ \A i \in DOMAIN shown : shown[i] = <<requests, served>>
  /\ ~emitted => shown = <<>>
  /\ outcome.st = "result" => Len(shown) = outcome.content /\ \A i \in DOMAIN shown : shown[i] = <<outcome.request, outcome.model>>

\* Another model than the one requested is never heard before a switch to it was
\* announced, and not at all under deny; and its result says so.
SwitchAnnounced ==
  /\ \A i \in DOMAIN shown : shown[i][2] # 1 => ~deny /\ \E from \in Models : <<from, shown[i][2]>> \in announced
  /\ outcome.st = "result" /\ outcome.model # 1 => outcome.fallback

\* However the gateway fails, a call is no more than so many requests.
Attempts == (Rungs + MaxResume + MaxStreamResume) * (MaxStreamRetry + 1)
RequestsBounded == requests <= Attempts * (MaxRetries + 2)

\* Every call ends, whatever the gateway does or leaves undone.
EveryCallEnds == <>(pc = "done")

\* The attempts a result reports are requests that were sent.
AttemptsTrue == outcome.st = "result" => ~phantom

\* A result that reports a fallback is of another model than the one requested.
FallbackTrue == outcome.st = "result" /\ outcome.fallback => outcome.model # 1

\* A cancelled call that fails, fails as cancelled.
CancelIsCancel == outcome.st = "error" /\ aborted => outcome.why = "cancelled"
=============================================================================
