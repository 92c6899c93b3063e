---------------------------- MODULE Checkpoints -----------------------------
(***************************************************************************)
(* The checkpoint store (src/packages/harness/src/checkpoints/store.ts):   *)
(* before an edit, the file's pre-image is recorded for the turn, once per *)
(* path; rewinding to a turn restores each path that it or a later turn    *)
(* touched, and forgets those turns.  The two ledgers are files of lines:  *)
(* a line that does not parse makes its whole file read as empty.          *)
(*                                                                         *)
(* The workspace is a content per path, Absent where there is no file.     *)
(* Blobs are never removed, so a record's blob is the content itself.  The *)
(* host begins the turns, has each edit tool snapshot before it writes,    *)
(* and rewinds between turns.                                              *)
(***************************************************************************)
EXTENDS Integers, FiniteSets, Sequences, SequencesExt

CONSTANTS
  Absent,
  Torn,  \* what a crash leaves of a line
  Desks  \* [paths, editors, turns, writes, crashes, failures]: the files, the agents whose tools edit
         \* them, bounds

VARIABLES
  desk,
  disk,      \* the content of each path
  turns,     \* turns.jsonl: [turn]
  files,     \* files.jsonl: [turn, path, blob]
  editing,   \* per editor: its tool call
  rewinding, \* the rewind under way, with what it read
  found,     \* per turn and path: what was there when the turn first touched it
  restored,  \* what the last rewind was to restore, until something is written again
  spoiled,   \* per turn: the paths whose lines a crash cost the ledger, or left behind in it
  writes, crashes, failures

vars == <<desk, disk, turns, files, editing, rewinding, found, restored, spoiled, writes, crashes, failures>>

No == [at |-> "none"]
Paths == desk.paths
Editors == desk.editors
Turns == 1..desk.turns
NotYet == [t \in Turns |-> [p \in Paths |-> {}]]

Init ==
  /\ desk \in Desks
  /\ disk \in [Paths -> {0, Absent}]
  /\ turns = <<>> /\ files = <<>>
  /\ editing = [e \in Editors |-> No] /\ rewinding = No
  /\ found = NotYet /\ restored = {} /\ spoiled = [t \in Turns |-> {}]
  /\ writes = 0 /\ crashes = 0 /\ failures = 0

\* readJsonl, and an append: a line behind a torn one is part of it.
Lines(ledger) == IF Contains(ledger, Torn) THEN <<>> ELSE ledger
Added(ledger, line) == IF Contains(ledger, Torn) THEN ledger ELSE Append(ledger, line)

Idle == rewinding = No /\ \A e \in Editors : editing[e] = No
ThisTurn == Len(Lines(turns))

-----------------------------------------------------------------------------
(* A turn, and the edits in it.                                            *)

\* Before a turn begins, its author may change a file.
ByHand == {disk} \cup {[disk EXCEPT ![p] = c] : p \in Paths, c \in {writes + 1, Absent}}

BeginTurn ==
  /\ Idle /\ ThisTurn < desk.turns
  /\ turns' = Added(turns, [turn |-> ThisTurn + 1])
  /\ disk' \in IF writes < desk.writes THEN ByHand ELSE {disk}
  /\ writes' = IF disk' = disk THEN writes ELSE writes + 1
  /\ restored' = {}
  /\ UNCHANGED <<desk, files, editing, rewinding, found, spoiled, crashes, failures>>

Snapshot(e, p) ==
  /\ rewinding = No /\ editing[e] = No /\ ThisTurn > 0 /\ writes < desk.writes
  /\ editing' = [editing EXCEPT ![e] = [at |-> "reads", path |-> p, turn |-> ThisTurn]]
  /\ UNCHANGED <<desk, disk, turns, files, rewinding, found, restored, spoiled, writes, crashes, failures>>

Touches(ledger, of, p) == {i \in DOMAIN ledger : ledger[i].turn \in of /\ ledger[i].path = p}

ReadLedger(e) ==
  /\ editing[e].at = "reads"
  /\ editing' = [editing EXCEPT ![e].at =
       IF Touches(Lines(files), {editing[e].turn}, editing[e].path) # {} THEN "known" ELSE "new"]
  /\ UNCHANGED <<desk, disk, turns, files, rewinding, found, restored, spoiled, writes, crashes, failures>>

\* By what the ledger said then, the pre-image is read and its line handed to the file system in one go.
TakePreImage(e) ==
  /\ editing[e].at \in {"known", "new"}
  /\ editing' = [editing EXCEPT ![e] =
       IF @.at = "known" THEN [@ EXCEPT !.at = "edits"]
       ELSE [at |-> "records", path |-> @.path, turn |-> @.turn, blob |-> disk[@.path]]]
  /\ UNCHANGED <<desk, disk, turns, files, rewinding, found, restored, spoiled, writes, crashes, failures>>

Touch(t, p) == found' = [found EXCEPT ![t][p] = IF @ = {} THEN {disk[p]} ELSE @]

RecordTouch(e) ==
  /\ editing[e].at = "records"
  /\ files' = Added(files, [turn |-> editing[e].turn, path |-> editing[e].path, blob |-> editing[e].blob])
  /\ editing' = [editing EXCEPT ![e] = [at |-> "edits", path |-> @.path, turn |-> @.turn]]
  /\ Touch(editing[e].turn, editing[e].path)
  /\ UNCHANGED <<desk, disk, turns, rewinding, restored, spoiled, writes, crashes, failures>>

\* The tool writes the file, or fails and leaves it.
Edit(e) ==
  /\ editing[e].at = "edits"
  /\ editing' = [editing EXCEPT ![e] = No]
  /\ Touch(editing[e].turn, editing[e].path)
  /\ \/ /\ writes < desk.writes /\ writes' = writes + 1
        /\ disk' = [disk EXCEPT ![editing[e].path] = writes + 1]
        /\ restored' = {}
     \/ UNCHANGED <<disk, restored, writes>>
  /\ UNCHANGED <<desk, turns, files, rewinding, spoiled, crashes, failures>>

-----------------------------------------------------------------------------
(* rewind().  Both ledgers are read first; the rest is one go, that only a *)
(* crash cuts short.                                                       *)

StartRewind(t) ==
  /\ Idle /\ Contains(Lines(turns), [turn |-> t])
  /\ rewinding' = [at |-> "restores", turn |-> t, turns |-> Lines(turns), files |-> Lines(files), failed |-> {}]
  /\ UNCHANGED <<desk, disk, turns, files, editing, found, restored, spoiled, writes, crashes, failures>>

\* Mutant: of a turn's touches, the last (f.turn <= seen.turn).
LastImage(ledger, t, p) ==
  LET touches == Touches(ledger, t..desk.turns, p)
      Sooner(i, j) == ledger[i].turn < ledger[j].turn \/ (ledger[i].turn = ledger[j].turn /\ i >= j)
  IN ledger[CHOOSE i \in touches : \A j \in touches : Sooner(i, j)].blob

\* The earliest touch of p at or after the turn: its blob.
PreImage(ledger, t, p) ==
  LET touches == Touches(ledger, t..desk.turns, p)
      Sooner(i, j) == ledger[i].turn < ledger[j].turn \/ (ledger[i].turn = ledger[j].turn /\ i <= j)
  IN ledger[CHOOSE i \in touches : \A j \in touches : Sooner(i, j)].blob

\* A path that cannot be restored is left, and named in the result.
RestoreFiles ==
  /\ rewinding.at = "restores"
  /\ LET touched == {p \in Paths : Touches(rewinding.files, rewinding.turn..desk.turns, p) # {}}
     IN \E failed \in SUBSET touched :
          /\ Cardinality(failed) + failures <= desk.failures
          /\ failures' = failures + Cardinality(failed)
          /\ disk' = [p \in Paths |-> IF p \in touched \ failed THEN PreImage(rewinding.files, rewinding.turn, p) ELSE disk[p]]
          /\ rewinding' = [rewinding EXCEPT !.at = "turns", !.failed = failed]
  /\ restored' = {}
  /\ UNCHANGED <<desk, turns, files, editing, found, spoiled, writes, crashes>>

\* What was there before the turn: what the first touch since then found, of each path that was touched.
Since(t, p) == {u \in Turns : u >= t /\ found[u][p] # {}}
Original(t, p) == found[CHOOSE u \in Since(t, p) : \A v \in Since(t, p) : u <= v][p]

\* A crash took or left lines of p, of a turn that may be the first touch.
Lost(t, p) == \E u \in Turns : u >= t /\ p \in spoiled[u] /\ \A v \in Since(t, p) : u <= v

\* The lines of turns before t: filter(), as a function of how many were looked at.
Before(ledger, t) ==
  LET kept[n \in 0..Len(ledger)] ==
        IF n = 0 THEN <<>> ELSE IF ledger[n].turn < t THEN Append(kept[n - 1], ledger[n]) ELSE kept[n - 1]
  IN kept[Len(ledger)]

ForgetTurns ==
  /\ rewinding.at = "turns"
  /\ turns' = Before(rewinding.turns, rewinding.turn)
  /\ rewinding' = [rewinding EXCEPT !.at = "files"]
  /\ restored' = {[path |-> p, to |-> Original(rewinding.turn, p)] :
                    p \in {p \in Paths \ rewinding.failed : Since(rewinding.turn, p) # {} /\ ~Lost(rewinding.turn, p)}}
  /\ found' = [t \in Turns |-> IF t >= rewinding.turn THEN NotYet[t] ELSE found[t]]
  /\ UNCHANGED <<desk, disk, files, editing, spoiled, writes, crashes, failures>>

ForgetFiles ==
  /\ rewinding.at = "files"
  /\ files' = Before(rewinding.files, rewinding.turn)
  /\ rewinding' = No
  /\ spoiled' = [t \in Turns |-> IF t >= rewinding.turn THEN {} ELSE spoiled[t]]
  /\ UNCHANGED <<desk, disk, turns, editing, found, restored, writes, crashes, failures>>

-----------------------------------------------------------------------------

\* A rewind that is cut short between the ledgers leaves the files of turns that are forgotten.
Left == [t \in Turns |->
  IF t >= rewinding.turn THEN spoiled[t] \cup {p \in Paths : Touches(Lines(files), {t}, p) # {}} ELSE spoiled[t]]

\* A crash: an edit or a rewind goes no further, and a line being written may be torn.
Crash ==
  /\ crashes < desk.crashes /\ crashes' = crashes + 1
  /\ ~Idle
  /\ editing' = [e \in Editors |-> No] /\ rewinding' = No
  /\ \/ /\ \E e \in Editors : editing[e].at = "records"
        /\ files' = Added(files, Torn)
        /\ spoiled' = [t \in Turns |-> Paths]
     \/ /\ files' = files
        /\ spoiled' = IF rewinding.at = "files" THEN Left ELSE spoiled
  /\ UNCHANGED <<desk, disk, turns, found, restored, writes, failures>>

Next ==
  \/ BeginTurn \/ RestoreFiles \/ ForgetTurns \/ ForgetFiles \/ Crash
  \/ \E e \in Editors, p \in Paths : Snapshot(e, p)
  \/ \E e \in Editors : ReadLedger(e) \/ TakePreImage(e) \/ RecordTouch(e) \/ Edit(e)
  \/ \E t \in Turns : StartRewind(t)

Spec == Init /\ [][Next]_vars

-----------------------------------------------------------------------------
(* Properties.                                                             *)

\* A rewind puts each path that the turn or a later one touched back to what the first of those touches
\* found, whoever edits it and however their snapshots interleave, unless that path's restore failed or a
\* crash cost the ledger the lines of that touch, or left older ones of its turn in it.
RewindRestores == \A r \in restored : disk[r.path] \in r.to

\* "forgets those turns so a later rewind sees a consistent ledger".
LedgersAgree == Idle => \A i \in DOMAIN Lines(files) : Contains(Lines(turns), [turn |-> files[i].turn])

\* A crash loses no more than the line that was being written: what was recorded before is still read.
LedgerReads == files # <<>> /\ files # <<Torn>> => Lines(files) # <<>>
=============================================================================
