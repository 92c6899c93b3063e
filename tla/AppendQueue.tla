---------------------------- MODULE AppendQueue ----------------------------
(***************************************************************************)
(* The local store's background writer: pushes go on an in-memory queue, a *)
(* timer starts a drain, and a drain writes the blobs, then one batch of   *)
(* lines per file.  Past its caps the queue drops the oldest half of the   *)
(* fullest file and leaves a marker.  flush() waits for what is in flight  *)
(* and drains until nothing is pending.                                    *)
(*                                                                         *)
(* The event loop: a promise that settled wakes those who await it before  *)
(* any timer or I/O callback runs (Quiet); only other code that is already *)
(* running, a push or a flush call, comes between.                         *)
(***************************************************************************)
EXTENDS Integers, SequencesExt

CONSTANTS
  Files,           \* the .jsonl files
  Blobs,           \* attachments, each written as a file of its own
  NoBlob,          \* the reference of a line without one
  Sizes,           \* what a line takes
  MaxPending,      \* the cap on lines
  MaxPendingBytes, \* the cap on bytes
  Flushers,        \* who calls flush()
  MaxPushed,       \* bound: lines pushed
  MaxFlushes,      \* bound: flush() calls per flusher
  MaxFailures      \* bound: writes that fail

ASSUME QueueAssumption ==
  /\ NoBlob \notin Blobs /\ Sizes \subseteq Nat \ {0}
  /\ {MaxPending, MaxPendingBytes} \subseteq Nat \ {0}
  /\ {MaxPushed, MaxFlushes, MaxFailures} \subseteq Nat

VARIABLES
  pending,    \* a batch per file, in the order the files came
  totalLines, \* lines in it
  totalBytes, \* and their size
  files,      \* the blobs to be written, in order
  timer,      \* is the flush timer set?
  draining,   \* the drain in flight
  dropped,    \* lines dropped, as the host's health line shows it
  failures,   \* writes that failed, likewise
  disk,       \* what each file holds
  blobDisk,   \* the blobs written
  pushed,     \* lines pushed so far
  flush,      \* each flusher's call
  faults      \* writes that failed so far

queueVars == <<pending, totalLines, totalBytes, files, dropped>>
vars == <<queueVars, timer, draining, failures, disk, blobDisk, pushed, flush, faults>>

\* A line is the n-th of its file; a marker stands for count items dropped.
Line(n, size, blob) == [n |-> n, size |-> size, blob |-> blob, count |-> 0]
Marker(count) == [n |-> 0, size |-> 1, blob |-> NoBlob, count |-> count]
IsLine(l) == l.n > 0

LineSet == {l \in [n: 0..MaxPushed, size: Sizes \cup {1}, blob: Blobs \cup {NoBlob}, count: Nat] :
              l.n = 0 <=> l.count > 0}

\* Not draining; and a drain that took the lines but not yet wrote them.
Idle == [on |-> FALSE, blobs |-> <<>>, taken |-> FALSE, batch |-> <<>>]

SumOf(f(_), s) == FoldSeq(LAMBDA x, acc : f(x) + acc, 0, s)
LinesIn(p) == SumOf(LAMBDA e : Len(e.lines), p)
BytesOf(s) == SumOf(LAMBDA l : l.size, s)
BytesIn(p) == SumOf(LAMBDA e : BytesOf(e.lines), p)
LinesOf(p, f) == IF \E i \in DOMAIN p : p[i].file = f
                 THEN p[CHOOSE i \in DOMAIN p : p[i].file = f].lines ELSE <<>>

\* What of file f is on disk, on its way, and pending, oldest first.
Trace(f) == disk[f] \o LinesOf(draining.batch, f) \o LinesOf(pending, f)

\* The lines of f not settled yet.
Unsettled(f) == {l.n : l \in {x \in ToSet(LinesOf(draining.batch, f)) \cup ToSet(LinesOf(pending, f)) : IsLine(x)}}

TypeOK ==
  /\ \A i \in DOMAIN pending : pending[i].file \in Files /\ pending[i].lines # <<>>
                                /\ ToSet(pending[i].lines) \subseteq LineSet
  /\ \A i, j \in DOMAIN pending : pending[i].file = pending[j].file => i = j
  /\ totalLines = LinesIn(pending) /\ totalBytes = BytesIn(pending)
  /\ ToSet(files) \subseteq Blobs /\ IsInjective(files)
  /\ timer \in BOOLEAN /\ draining.on \in BOOLEAN
  /\ (~draining.on => draining = Idle)
  /\ dropped \in Nat /\ failures \in Nat
  /\ \A f \in Files : ToSet(disk[f]) \subseteq LineSet
  /\ blobDisk \subseteq Blobs /\ pushed \in [Files -> 0..MaxPushed]
  /\ \A w \in Flushers : flush[w].st \in {"none", "awaits", "woken", "done"}

Init ==
  /\ pending = <<>> /\ totalLines = 0 /\ totalBytes = 0 /\ files = <<>>
  /\ timer = FALSE /\ draining = Idle /\ dropped = 0 /\ failures = 0
  /\ disk = [f \in Files |-> <<>>] /\ blobDisk = {}
  /\ pushed = [f \in Files |-> 0] /\ faults = 0
  /\ flush = [w \in Flushers |-> [st |-> "none", need |-> {}, calls |-> 0]]

-----------------------------------------------------------------------------
(* Pushing.                                                                *)

\* schedule(): not while the timer is set or a drain is in flight.
Schedule == timer' = (timer \/ ~draining.on)

\* A line joins its file's batch, which is new at the end or where it was.
Joined(p, f, l) ==
  IF \E i \in DOMAIN p : p[i].file = f
  THEN [i \in DOMAIN p |-> IF p[i].file = f THEN [p[i] EXCEPT !.lines = Append(@, l)] ELSE p[i]]
  ELSE Append(p, [file |-> f, lines |-> <<l>>])

\* The first of the batches with the most lines.
Fullest(p) == CHOOSE i \in DOMAIN p :
  \A j \in DOMAIN p : Len(p[j].lines) <= Len(p[i].lines) /\ (j < i => Len(p[j].lines) < Len(p[i].lines))

ShedCount(p) == LET half == Len(p[Fullest(p)].lines) \div 2 IN IF half > 1 THEN half ELSE 1

\* Mutant: the marker goes where the next line goes.
CutAndMarkLast(lines, n) == Append(SubSeq(lines, n + 1, Len(lines)), Marker(n))

\* The oldest n lines make way for a marker.
CutAndMark(lines, n) == <<Marker(n)>> \o SubSeq(lines, n + 1, Len(lines))

\* shed(): the totals follow what goes and what comes.
Shed(p, lines, bytes) ==
  LET i == Fullest(p)
      n == ShedCount(p)
  IN /\ pending' = [p EXCEPT ![i].lines = CutAndMark(@, n)]
     /\ totalLines' = lines - n + 1
     /\ totalBytes' = bytes - BytesOf(SubSeq(p[i].lines, 1, n)) + 1
     /\ dropped' = dropped + n

\* push(): the line, then the shedding its own arrival calls for, then the timer.
PushLine(f, size, blob) ==
  LET p == Joined(pending, f, Line(pushed[f] + 1, size, blob))
      over == totalLines + 1 > MaxPending \/ totalBytes + size > MaxPendingBytes
  IN /\ MapThenSumSet(LAMBDA g : pushed[g], Files) < MaxPushed
     /\ pushed' = [pushed EXCEPT ![f] = @ + 1]
     /\ IF over THEN Shed(p, totalLines + 1, totalBytes + size)
        ELSE /\ pending' = p
             /\ totalLines' = totalLines + 1 /\ totalBytes' = totalBytes + size
             /\ UNCHANGED dropped
     /\ Schedule
     /\ UNCHANGED <<draining, failures, disk, blobDisk, flush, faults>>

Push(f, size) == PushLine(f, size, NoBlob) /\ UNCHANGED files

\* LocalConversation.append() of an entry with an attachment: pushFile(), then the
\* line that refers to it.
PushWithBlob(f, size, b) ==
  /\ PushLine(f, size, b)
  /\ files' = IF b \in ToSet(files) THEN files ELSE Append(files, b)

-----------------------------------------------------------------------------
(* Draining.                                                               *)

Work == totalLines > 0 \/ files # <<>>

\* No promise reaction is due: timers and I/O may go on.
Drained == draining.on /\ draining.taken /\ draining.batch = <<>>
Quiet == ~Drained /\ \A w \in Flushers : flush[w].st # "woken"

TakeLines == pending' = <<>> /\ totalLines' = 0 /\ totalBytes' = 0

\* drain(): joins the one in flight, else takes the blobs, and the lines too if
\* there is no blob to wait for.
Drain ==
  IF draining.on THEN UNCHANGED <<draining, queueVars>>
  ELSE /\ files' = <<>>
       /\ IF files = <<>>
          THEN draining' = [on |-> TRUE, blobs |-> <<>>, taken |-> TRUE, batch |-> pending] /\ TakeLines
          ELSE /\ draining' = [on |-> TRUE, blobs |-> files, taken |-> FALSE, batch |-> <<>>]
               /\ UNCHANGED <<pending, totalLines, totalBytes>>
       /\ UNCHANGED dropped

\* The timer fires.
TimerFires ==
  /\ timer /\ Quiet
  /\ timer' = FALSE
  /\ Drain
  /\ UNCHANGED <<failures, disk, blobDisk, pushed, flush, faults>>

Fault(ok) == ok \/ faults < MaxFailures
Faulted(ok) == faults' = IF ok THEN faults ELSE faults + 1

\* A blob's write ends; after the last one the pending lines are taken.
BlobEnds(ok) ==
  /\ draining.on /\ draining.blobs # <<>> /\ Quiet /\ Fault(ok)
  /\ blobDisk' = IF ok THEN blobDisk \cup {Head(draining.blobs)} ELSE blobDisk
  /\ failures' = IF ok THEN failures ELSE failures + 1
  /\ Faulted(ok)
  /\ IF Len(draining.blobs) > 1
     THEN draining' = [draining EXCEPT !.blobs = Tail(@)] /\ UNCHANGED <<pending, totalLines, totalBytes>>
     ELSE draining' = [on |-> TRUE, blobs |-> <<>>, taken |-> TRUE, batch |-> pending] /\ TakeLines
  /\ UNCHANGED <<files, dropped, timer, disk, pushed, flush>>

CountFailed(batch) == Len(batch.lines)

\* One file's append ends; a failed one may have written its first lines.
AppendEnds(ok) ==
  /\ draining.on /\ draining.batch # <<>> /\ Quiet /\ Fault(ok)
  /\ LET b == Head(draining.batch) IN
     /\ \E k \in (IF ok THEN {Len(b.lines)} ELSE 0..Len(b.lines) - 1) :
          disk' = [disk EXCEPT ![b.file] = @ \o SubSeq(b.lines, 1, k)]
     /\ failures' = IF ok THEN failures ELSE failures + CountFailed(b)
  /\ Faulted(ok)
  /\ draining' = [draining EXCEPT !.batch = Tail(@)]
  /\ UNCHANGED <<queueVars, timer, blobDisk, pushed, flush>>

Woken == [w \in Flushers |-> IF flush[w].st = "awaits" THEN [flush[w] EXCEPT !.st = "woken"] ELSE flush[w]]

\* Mutant: the end of a drain schedules nothing.
DrainEndsIdle ==
  /\ Drained
  /\ draining' = Idle
  /\ flush' = Woken
  /\ UNCHANGED <<queueVars, timer, failures, disk, blobDisk, pushed, faults>>

\* The drain's promise settles: what came meanwhile is scheduled, and the flushers
\* that await it wake.
DrainEnds ==
  /\ Drained
  /\ draining' = Idle
  /\ timer' = (timer \/ Work)
  /\ flush' = Woken
  /\ UNCHANGED <<queueVars, failures, disk, blobDisk, pushed, faults>>

-----------------------------------------------------------------------------
(* flush().                                                                *)

NeedNow == {<<f, n>> \in Files \X (1..MaxPushed) : n \in Unsettled(f)}

\* The loop of flush(): drain while there is work, else return.
FlushLoop(w, fl) ==
  IF Work THEN flush' = [flush EXCEPT ![w] = [fl EXCEPT !.st = "awaits"]] /\ Drain
  ELSE flush' = [flush EXCEPT ![w] = [fl EXCEPT !.st = "done"]] /\ UNCHANGED <<queueVars, draining>>

\* Mutant: a drain in flight is not waited for.
FlushNoWait(w) ==
  /\ flush[w].st \in {"none", "done"} /\ flush[w].calls < MaxFlushes
  /\ FlushLoop(w, [st |-> "awaits", need |-> NeedNow, calls |-> flush[w].calls + 1])
  /\ timer' = FALSE
  /\ UNCHANGED <<failures, disk, blobDisk, pushed, faults>>

\* flush() is called: the timer is cleared, and a drain in flight is waited for.
Flush(w) ==
  LET fl == [st |-> "awaits", need |-> NeedNow, calls |-> flush[w].calls + 1] IN
  /\ flush[w].st \in {"none", "done"} /\ flush[w].calls < MaxFlushes
  /\ timer' = FALSE
  /\ IF draining.on THEN flush' = [flush EXCEPT ![w] = fl] /\ UNCHANGED <<queueVars, draining>>
     ELSE FlushLoop(w, fl)
  /\ UNCHANGED <<failures, disk, blobDisk, pushed, faults>>

\* A flusher goes on when the drain it awaited has ended.
FlushResumes(w) ==
  /\ flush[w].st = "woken"
  /\ FlushLoop(w, flush[w])
  /\ UNCHANGED <<timer, failures, disk, blobDisk, pushed, faults>>

Next ==
  \/ \E f \in Files, s \in Sizes : Push(f, s) \/ \E b \in Blobs : PushWithBlob(f, s, b)
  \/ TimerFires \/ DrainEnds
  \/ \E ok \in BOOLEAN : BlobEnds(ok) \/ AppendEnds(ok)
  \/ \E w \in Flushers : Flush(w) \/ FlushResumes(w)

Spec == Init /\ [][Next]_vars

\* The event loop runs due reactions, fires a set timer, and the file system answers.
FairSpec ==
  /\ Spec
  /\ WF_vars(TimerFires) /\ WF_vars(DrainEnds)
  /\ WF_vars(\E ok \in BOOLEAN : BlobEnds(ok) \/ AppendEnds(ok))
  /\ \A w \in Flushers : WF_vars(FlushResumes(w))

-----------------------------------------------------------------------------
(* Properties.                                                             *)

Numbers(f) == [i \in DOMAIN SelectSeq(Trace(f), IsLine) |-> SelectSeq(Trace(f), IsLine)[i].n]
Present(f) == ToSet(Numbers(f))

\* Lines of a file keep the order they were pushed in, from the queue through the
\* batches to the disk.
OrderKept == \A f \in Files : \A i, j \in DOMAIN Numbers(f) : i < j => Numbers(f)[i] < Numbers(f)[j]

\* Without failed writes, a line that is missing has a marker at its place.
NoSilentHole ==
  faults = 0 => \A f \in Files : \A n \in 1..pushed[f] \ Present(f) :
    \E i \in DOMAIN Trace(f) :
      /\ ~IsLine(Trace(f)[i])
      /\ \A j \in DOMAIN Trace(f) : IsLine(Trace(f)[j]) => (j < i <=> Trace(f)[j].n < n)

\* The counters the host reports cover every line that is gone.
LossesCounted ==
  MapThenSumSet(LAMBDA f : pushed[f] - Cardinality(Present(f)), Files) <= dropped + failures

\* Whatever is shed, fails or is pushed meanwhile, each line is in its place, counted or
\* marked, and the totals are of what is pending (shed, drainOnce).
LinesAccounted == TypeOK /\ OrderKept /\ NoSilentHole /\ LossesCounted

\* flush() writes everything pending at its call, whatever the timer, the pushes and
\* a drain in flight do meanwhile.
FlushWrites ==
  \A w \in Flushers : flush[w].st = "done" => \A x \in flush[w].need : x[2] \notin Unsettled(x[1])

\* What the code keeps of it with several at once: of what a flush() that returned was
\* called for, all is written or lost, but for lines that the drain in flight is writing
\* while another flush() awaits that drain.
FlushCovered ==
  \A w \in Flushers : flush[w].st = "done" => \A x \in flush[w].need :
    x[2] \in Unsettled(x[1]) =>
      /\ \E l \in ToSet(LinesOf(draining.batch, x[1])) : l.n = x[2]
      /\ \E v \in Flushers \ {w} : flush[v].st = "awaits"

\* A line that refers to a blob is written after it.
BlobFirst ==
  faults = 0 => \A f \in Files : \A l \in ToSet(disk[f]) : l.blob # NoBlob => l.blob \in blobDisk

\* The byte cap bounds what is pending, to within the line just pushed.
CapHolds == totalBytes <= MaxPendingBytes + (CHOOSE s \in Sizes : \A t \in Sizes : t <= s)

\* What is pushed does not stay in memory: whatever the drain in flight, a timer or a
\* flush takes it.
EventuallyWritten == (Work \/ draining.on) ~> (~Work /\ ~draining.on)

=============================================================================
