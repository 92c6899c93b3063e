----------------------------- MODULE LocalStore -----------------------------
(***************************************************************************)
(* The files of the local store: a conversation, the session registry and  *)
(* a mailbox.  They are one directory that several processes share and no  *)
(* lock guards; what holds them together is the order of appends, renames  *)
(* and caches within each process.                                         *)
(*                                                                         *)
(* A plan says which of the three a behaviour is about.  The background    *)
(* writer under the conversation has a module of its own, AppendQueue:     *)
(* here it writes what is pending, line by line, and a flush waits for it. *)
(***************************************************************************)
EXTENDS Integers, FiniteSets, Sequences, SequencesExt

CONSTANTS Procs, Actors, Reader, Records, Jobs, Letters, Plans, Null, Unset

\* A plan bounds the entries, crashes, patches and letters, and says which processes are
\* at the registry and whether actors meet at the conversation.
ASSUME LocalAssumption ==
  /\ IsFiniteSet(Jobs) /\ Jobs \cap Procs = {}
  /\ \A p \in Plans :
       /\ {p.entries, p.crashes} \subseteq Nat
       /\ p.busy \in BOOLEAN
       /\ p.jobs \subseteq Jobs /\ p.letters \subseteq Letters /\ p.procs \subseteq Procs

\* No file, no record, no letters: null is none of them.
ASSUME NullAssumption ==
  /\ Null \notin Records /\ Null \notin Seq(Letters)
  /\ Null \notin [patches : SUBSET Jobs, at : Nat]
  /\ \A map \in SUBSET Records : map # Null

VARIABLES
  plan, crashes,
  file,      \* the conversation's file: half lines, the second half ends the line
  parent,    \* of each entry made, the entry it is chained to
  pending, writing, drains,  \* the writer: lines, half lines on their way, drains ended
  cached,    \* the engine's cached head
  actor,     \* what the run, the bus and the reader are at
  reader,    \* the reader's cursor and what it was given
  stale,     \* history: heads held, the cached one and entries appended on one that was not the last
  record,    \* the registry: the file of each session
  legacy,    \* the old single file, or Null
  migration, \* of each process
  chain,     \* of each process and record: the patches in line
  patch,     \* each patch
  now,       \* the clock patches are stamped from
  over,      \* history: what others wrote since a patch or a split read, and what those overwrote
  listing,   \* of each process: the cached listing, and the one being read
  inode,     \* the mailbox: every file ever, its letters in order; Null when removed
  live,      \* the one that bears the mailbox's name, or 0
  letter,    \* each letter
  drain,     \* of each process: the file it claimed
  late       \* history: letters written to a file that a drain had read

conversation == <<file, parent, pending, writing, drains, cached, actor, reader, stale>>
registry == <<record, legacy, migration, chain, patch, now, listing, over>>
mailbox == <<inode, live, letter, drain, late>>
vars == <<plan, crashes, conversation, registry, mailbox>>

NoneStale == [heads |-> {}, cache |-> FALSE, entries |-> {}]
Resting == [step |-> "rest", wait |-> 0, head |-> Null]
NoPatch == [step |-> "none", proc |-> Null, rec |-> Null, cur |-> Null, at |-> 0, called |-> 0]
NotMigrated == [step |-> "none", map |-> {}, rec |-> Null]
NoListing == [cache |-> Null, out |-> Null, left |-> {}]
Fresh == [patches |-> {}, at |-> 0]

Init ==
  /\ plan \in Plans /\ crashes = 0
  /\ file = <<>> /\ parent = <<>> /\ pending = <<>> /\ writing = <<>> /\ drains = 0
  /\ cached = Unset /\ actor = [a \in Actors \cup {Reader} |-> Resting]
  /\ reader = [cursor |-> 0, items |-> <<>>] /\ stale = NoneStale
  /\ \E old \in (IF plan.procs = {} THEN {{}} ELSE SUBSET Records) :
       /\ record = [r \in Records |-> IF r \in old THEN Null ELSE Fresh]
       /\ legacy = IF old = {} THEN Null ELSE old
  /\ migration = [p \in Procs |-> NotMigrated]
  /\ chain = [p \in Procs |-> [r \in Records |-> <<>>]]
  /\ patch = [j \in Jobs |-> NoPatch] /\ now = 0
  /\ listing = [p \in Procs |-> NoListing]
  /\ over = [since |-> [o \in Jobs \cup Procs |-> {}], gone |-> {}]
  /\ inode = <<>> /\ live = 0
  /\ letter = [m \in Letters |-> [step |-> "none", file |-> 0, got |-> 0]]
  /\ drain = [p \in Procs |-> [step |-> "rest", file |-> 0, got |-> <<>>]]
  /\ late = {}

-----------------------------------------------------------------------------
(* Lines.  An entry is a line of two halves; what stands between two line  *)
(* ends parses when it is one entry's two halves and no more.              *)

Halves(e) == <<[entry |-> e, ends |-> FALSE], [entry |-> e, ends |-> TRUE]>>
LineEnds(cells) == {i \in DOMAIN cells : cells[i].ends}
LineFrom(cells, i) ==
  LET before == {k \in LineEnds(cells) : k < i} IN SubSeq(cells, 1 + IF before = {} THEN 0 ELSE Max(before), i)
Parses(line) == Len(line) = 2 /\ line = Halves(line[1].entry)

\* The complete lines that parse, in order.
Entries(cells) ==
  LET good == {i \in LineEnds(cells) : Parses(LineFrom(cells, i))}
  IN [k \in 1..Cardinality(good) |-> cells[SetToSortSeq(good, <)[k]].entry]

\* tailJsonl(): the lines that ended since the cursor, and the cursor after them.
TailJsonl(cells, cursor) ==
  LET new == SubSeq(cells, cursor + 1, Len(cells))
      last == IF LineEnds(new) = {} THEN 0 ELSE Max(LineEnds(new))
  IN [items |-> Entries(SubSeq(new, 1, last)), cursor |-> cursor + last]

\* lastLine() and its parse: a torn line, like no line, gives no head.
LastLine == IF file = <<>> THEN <<>> ELSE LineFrom(file, Len(file))
LastHead == IF LastLine # <<>> /\ Parses(LastLine) THEN LastLine[1].entry ELSE Null

-----------------------------------------------------------------------------
(* The conversation.                                                       *)

Draining == writing # <<>>
StartDrain == writing' = FlattenSeq([i \in DOMAIN pending |-> Halves(pending[i])]) /\ pending' = <<>>

\* push()'s timer.
Timer ==
  /\ pending # <<>> /\ ~Draining /\ StartDrain
  /\ UNCHANGED <<plan, crashes, file, parent, drains, cached, actor, reader, stale, registry, mailbox>>

Write ==
  /\ Draining
  /\ file' = Append(file, Head(writing)) /\ writing' = Tail(writing)
  /\ drains' = IF writing' = <<>> THEN drains + 1 ELSE drains
  /\ UNCHANGED <<plan, crashes, parent, pending, cached, actor, reader, stale, registry, mailbox>>

\* flush(): a drain at work first ...
Flushing == [step |-> "flush", wait |-> IF Draining THEN drains + 1 ELSE 0, head |-> Null]

\* ... then, while something is pending, a drain, its own or one at work.
FlushMore(a) ==
  /\ actor[a].step = "flush" /\ actor[a].wait <= drains /\ pending # <<>>
  /\ IF Draining THEN UNCHANGED <<pending, writing>> ELSE StartDrain
  /\ actor' = [actor EXCEPT ![a].wait = drains + 1]
  /\ UNCHANGED <<plan, crashes, file, parent, drains, cached, reader, stale, registry, mailbox>>

Flushed(a) == actor[a].step = "flush" /\ actor[a].wait <= drains /\ pending = <<>>

\* History.  A head is not the last entry when it is got from a cache that is not, from
\* a line that a crash tore or before the last line is written, which a flush beside
\* another may leave (AppendQueue); or when another appends before its holder does.
Holds(a, old) == stale' = [stale EXCEPT !.heads = IF old THEN @ \cup {a} ELSE @ \ {a}]
Overtakes(a, e) ==
  stale' = [heads |-> (stale.heads \cup {b \in Actors : actor[b].step \in {"cache", "append"}}) \ {a},
            cache |-> FALSE,
            entries |-> IF a \in stale.heads THEN stale.entries \cup {e} ELSE stale.entries]

\* head(): the cached one; a cold one behind a flush.
AskHead(a) ==
  /\ actor[a].step = "rest" /\ Len(parent) < plan.entries
  /\ plan.busy \/ \A b \in Actors : actor[b].step = "rest"
  /\ actor' = [actor EXCEPT ![a] =
       IF cached # Unset THEN [step |-> "append", wait |-> 0, head |-> cached] ELSE Flushing]
  /\ Holds(a, cached # Unset /\ stale.cache)
  /\ UNCHANGED <<plan, crashes, file, parent, pending, writing, drains, cached, reader, registry, mailbox>>

ReadLastLine(a) ==
  /\ Flushed(a)
  /\ actor' = [actor EXCEPT ![a] = [step |-> "cache", wait |-> 0, head |-> LastHead]]
  /\ Holds(a, Draining \/ (LastLine # <<>> /\ ~Parses(LastLine)))
  /\ UNCHANGED <<plan, crashes, file, parent, pending, writing, drains, cached, reader, registry, mailbox>>

CacheHead(a) ==
  /\ actor[a].step = "cache"
  /\ cached' = actor[a].head /\ actor' = [actor EXCEPT ![a].step = "append"]
  /\ stale' = [stale EXCEPT !.cache = a \in stale.heads]
  /\ UNCHANGED <<plan, crashes, file, parent, pending, writing, drains, reader, registry, mailbox>>

\* Mutant: an append leaves the cached head.
ForgetHead(e) == UNCHANGED cached

\* heads.set().
Remember(e) == cached' = e

\* append(): at once to the queue and the cache.  A run goes on from its own entry.
AppendEntry(a) ==
  /\ actor[a].step = "append" /\ Len(parent) < plan.entries
  /\ LET e == Len(parent) + 1
     IN /\ parent' = Append(parent, actor[a].head)
        /\ pending' = Append(pending, e) /\ Remember(e) /\ Overtakes(a, e)
        /\ actor' \in {[actor EXCEPT ![a] = Resting], [actor EXCEPT ![a].head = e]}
  /\ UNCHANGED <<plan, crashes, file, writing, drains, reader, registry, mailbox>>

\* tail() of the engine's own process flushes too; one of another cannot.
AskTail ==
  /\ actor[Reader].step = "rest" /\ pending # <<>>
  /\ actor' = [actor EXCEPT ![Reader] = Flushing]
  /\ UNCHANGED <<plan, crashes, file, parent, pending, writing, drains, cached, reader, stale, registry, mailbox>>

TailOn ==
  /\ actor[Reader].step = "rest" \/ Flushed(Reader)
  /\ LET t == TailJsonl(file, reader.cursor)
     IN reader' = [cursor |-> t.cursor, items |-> reader.items \o t.items]
  /\ actor' = [actor EXCEPT ![Reader] = Resting]
  /\ UNCHANGED <<plan, crashes, file, parent, pending, writing, drains, cached, stale, registry, mailbox>>

-----------------------------------------------------------------------------
(* The registry.                                                           *)

Shared == UNCHANGED <<plan, crashes, conversation, mailbox>>

\* migrate(), once for a process.
Migrate(p) ==
  /\ migration[p].step = "none" /\ p \in plan.procs
  /\ migration' = [migration EXCEPT ![p].step = IF legacy = Null THEN "done" ELSE "read"]
  /\ UNCHANGED <<record, legacy, chain, patch, now, listing, over>> /\ Shared

ReadLegacy(p) ==
  /\ migration[p].step = "read"
  /\ migration' = [migration EXCEPT ![p] =
       [step |-> "split", map |-> IF legacy = Null THEN {} ELSE legacy, rec |-> Null]]
  /\ UNCHANGED <<record, legacy, chain, patch, now, listing, over>> /\ Shared

\* existsSync() of the next record, and on to its write if there is none.
SplitRecord(p, r) ==
  /\ migration[p].step = "split" /\ migration[p].rec = Null /\ r \in migration[p].map
  /\ migration' = [migration EXCEPT ![p].map = @ \ {r}, ![p].rec = IF record[r] = Null THEN r ELSE Null]
  /\ over' = [over EXCEPT !.since[p] = {}]
  /\ UNCHANGED <<record, legacy, chain, patch, now, listing>> /\ Shared

WriteSplit(p) ==
  /\ migration[p].rec # Null
  /\ record' = [record EXCEPT ![migration[p].rec] = Fresh]
  /\ migration' = [migration EXCEPT ![p].rec = Null]
  /\ over' = [over EXCEPT !.gone = @ \cup over.since[p]]
  /\ UNCHANGED <<legacy, chain, patch, now, listing>> /\ Shared

Split(p) == migration[p].step = "split" /\ migration[p].map = {} /\ migration[p].rec = Null

\* The rename, which fails when the file is gone: the failed promise is kept.
RenameLegacy(p) ==
  /\ Split(p)
  /\ migration' = [migration EXCEPT ![p].step = IF legacy = Null THEN "failed" ELSE "done"]
  /\ legacy' = Null
  /\ UNCHANGED <<record, chain, patch, now, listing, over>> /\ Shared

\* patchSession(): the call, which waits for the migration ...
CallPatch(p, j, r) ==
  /\ p \in plan.procs /\ j \in plan.jobs /\ patch[j].step = "none" /\ migration[p].step # "none"
  /\ patch' = [patch EXCEPT ![j] = [NoPatch EXCEPT !.step = "called", !.proc = p, !.rec = r,
       !.called = 1 + Cardinality({k \in Jobs : patch[k].step # "none"})]]
  /\ UNCHANGED <<record, legacy, migration, chain, now, listing, over>> /\ Shared

\* ... is refused with it, or drops the listing and gets in line ...
GetInLine(j) ==
  /\ patch[j].step = "called"
  /\ \A k \in Jobs : patch[k].step = "called" /\ patch[k].proc = patch[j].proc => patch[k].called >= patch[j].called
  /\ LET p == patch[j].proc
     IN \/ /\ migration[p].step = "failed"
           /\ patch' = [patch EXCEPT ![j].step = "refused"] /\ UNCHANGED <<chain, listing>>
        \/ /\ migration[p].step = "done"
           /\ patch' = [patch EXCEPT ![j].step = "inline"]
           /\ chain' = [chain EXCEPT ![p][patch[j].rec] = Append(@, j)]
           /\ listing' = [listing EXCEPT ![p].cache = Null]
  /\ UNCHANGED <<record, legacy, migration, now, over>> /\ Shared

\* Mutant: no serialize().
AnyTurn(j) == patch[j].step = "inline"

\* serialize(): whose turn it is.
AtTurn(j) ==
  LET line == chain[patch[j].proc][patch[j].rec]
  IN patch[j].step = "inline" /\ line # <<>> /\ Head(line) = j
LeaveLine(j) == chain' = [chain EXCEPT ![patch[j].proc][patch[j].rec] = Tail(@)]

\* ... reads the record, and is stamped, or ends where there is none ...
LoadRecord(j) ==
  /\ AtTurn(j)
  /\ IF record[patch[j].rec] = Null
     THEN patch' = [patch EXCEPT ![j].step = "absent"] /\ LeaveLine(j) /\ UNCHANGED now
     ELSE /\ now' = now + 1
          /\ patch' = [patch EXCEPT ![j].step = "loaded", ![j].cur = record[patch[j].rec], ![j].at = now']
          /\ UNCHANGED chain
  /\ UNCHANGED <<record, legacy, migration, listing, over>> /\ Shared

\* History: another process read the record, or missed it, before it is written here.
Behind(o, j) ==
  \/ o \in Jobs /\ patch[o].step = "loaded" /\ patch[o].rec = patch[j].rec /\ patch[o].proc # patch[j].proc
  \/ o \in Procs /\ migration[o].rec = patch[j].rec

\* ... and renames the merged record into place.
WriteRecord(j) ==
  /\ patch[j].step = "loaded"
  /\ record' = [record EXCEPT ![patch[j].rec] =
       [patches |-> patch[j].cur.patches \cup {j}, at |-> patch[j].at]]
  /\ patch' = [patch EXCEPT ![j].step = "settled", ![j].cur = Null] /\ LeaveLine(j)
  /\ over' = [since |-> [o \in Jobs \cup Procs |-> IF Behind(o, j) THEN over.since[o] \cup {j} ELSE over.since[o]],
              gone |-> over.gone \cup over.since[j]]
  /\ UNCHANGED <<legacy, migration, now, listing>> /\ Shared

\* listSessions(): file by file, and into the cache; a second later it is stale.
StartListing(p) ==
  /\ migration[p].step = "done" /\ listing[p].cache = Null /\ listing[p].out = Null
  /\ listing' = [listing EXCEPT ![p].out = <<>>, ![p].left = {r \in Records : record[r] # Null}]
  /\ UNCHANGED <<record, legacy, migration, chain, patch, now, over>> /\ Shared

ListRecord(p, r) ==
  /\ r \in listing[p].left
  /\ listing' = [listing EXCEPT ![p].left = @ \ {r}, ![p].out = Append(@, [rec |-> r, patches |-> record[r].patches])]
  /\ UNCHANGED <<record, legacy, migration, chain, patch, now, over>> /\ Shared

CacheListing(p) ==
  /\ listing[p].out # Null /\ listing[p].left = {}
  /\ listing' = [listing EXCEPT ![p].out = Null, ![p].cache = listing[p].out]
  /\ UNCHANGED <<record, legacy, migration, chain, patch, now, over>> /\ Shared

ExpireListing(p) ==
  /\ listing[p].cache # Null
  /\ listing' = [listing EXCEPT ![p].cache = Null]
  /\ UNCHANGED <<record, legacy, migration, chain, patch, now, over>> /\ Shared

-----------------------------------------------------------------------------
(* The mailbox.                                                            *)

Elsewhere == UNCHANGED <<plan, crashes, conversation, registry>>

\* post(): appendFile opens the file of that name, making it, and then writes.
OpenBox(m) ==
  /\ m \in plan.letters /\ letter[m].step = "none"
  /\ IF live = 0
     THEN inode' = Append(inode, <<>>) /\ live' = Len(inode) + 1
     ELSE UNCHANGED <<inode, live>>
  /\ letter' = [letter EXCEPT ![m].step = "open", ![m].file = live']
  /\ UNCHANGED <<drain, late>> /\ Elsewhere

\* A drain has read the file, which is all it will: it was claimed between open and write.
WasRead(f) == inode[f] = Null \/ \E p \in Procs : drain[p].step = "read" /\ drain[p].file = f

WriteLetter(m) ==
  /\ letter[m].step = "open"
  /\ inode' = [inode EXCEPT ![letter[m].file] = IF @ = Null THEN Null ELSE Append(@, m)]
  /\ letter' = [letter EXCEPT ![m].step = "posted"]
  /\ late' = IF WasRead(letter[m].file) THEN late \cup {m} ELSE late
  /\ UNCHANGED <<live, drain>> /\ Elsewhere

TakeName == live' = 0

\* drain(): a rename claims the file, then it is read, then removed.
Claim(p) ==
  /\ drain[p].step = "rest" /\ live # 0
  /\ drain' = [drain EXCEPT ![p] = [step |-> "claimed", file |-> live, got |-> <<>>]]
  /\ TakeName
  /\ UNCHANGED <<inode, letter, late>> /\ Elsewhere

ReadClaim(p) ==
  /\ drain[p].step = "claimed"
  /\ drain' = [drain EXCEPT ![p].step = "read", ![p].got = inode[drain[p].file]]
  /\ UNCHANGED <<inode, live, letter, late>> /\ Elsewhere

RemoveClaim(p) ==
  /\ drain[p].step = "read"
  /\ letter' = [m \in Letters |->
       IF m \in ToSet(drain[p].got) THEN [letter[m] EXCEPT !.got = @ + 1] ELSE letter[m]]
  /\ drain' = [drain EXCEPT ![p] = [step |-> "rest", file |-> 0, got |-> <<>>]]
  /\ inode' = [inode EXCEPT ![drain[p].file] = Null]
  /\ UNCHANGED <<live, late>> /\ Elsewhere

-----------------------------------------------------------------------------
(* A process dies: files stay, a line perhaps half written, and the rest   *)
(* of what it had is gone.  The first process is the conversation's.       *)

Dies == crashes < plan.crashes /\ crashes' = crashes + 1 /\ UNCHANGED plan

CrashEngine ==
  /\ Dies /\ plan.entries > 0
  /\ pending' = <<>> /\ writing' = <<>> /\ drains' = 0 /\ cached' = Unset
  /\ actor' = [a \in Actors \cup {Reader} |-> Resting]
  /\ stale' = [stale EXCEPT !.heads = {}, !.cache = FALSE]
  /\ UNCHANGED <<file, parent, reader, registry, mailbox>>

CrashClerk(p) ==
  /\ Dies /\ p \in plan.procs
  /\ migration' = [migration EXCEPT ![p] = NotMigrated]
  /\ chain' = [chain EXCEPT ![p] = [r \in Records |-> <<>>]]
  /\ patch' = [j \in Jobs |->
       IF patch[j].proc = p /\ patch[j].step \in {"called", "inline", "loaded"}
       THEN [patch[j] EXCEPT !.step = "lost", !.cur = Null] ELSE patch[j]]
  /\ listing' = [listing EXCEPT ![p] = NoListing]
  /\ UNCHANGED <<record, legacy, now, over, conversation, mailbox>>

CrashDrain(p) ==
  /\ Dies /\ drain[p].step # "rest"
  /\ drain' = [drain EXCEPT ![p] = [step |-> "rest", file |-> 0, got |-> <<>>]]
  /\ UNCHANGED <<inode, live, letter, late, conversation, registry>>

Next ==
  \/ \E a \in Actors : AskHead(a) \/ ReadLastLine(a) \/ CacheHead(a) \/ AppendEntry(a)
  \/ \E a \in Actors \cup {Reader} : FlushMore(a)
  \/ Timer \/ Write \/ AskTail \/ TailOn
  \/ \E p \in Procs :
       \/ Migrate(p) \/ ReadLegacy(p) \/ WriteSplit(p) \/ RenameLegacy(p)
       \/ StartListing(p) \/ CacheListing(p) \/ ExpireListing(p)
       \/ \E r \in Records : SplitRecord(p, r) \/ ListRecord(p, r)
       \/ \E j \in Jobs, r \in Records : CallPatch(p, j, r)
       \/ Claim(p) \/ ReadClaim(p) \/ RemoveClaim(p)
       \/ CrashClerk(p) \/ CrashDrain(p)
  \/ \E j \in Jobs : GetInLine(j) \/ LoadRecord(j) \/ WriteRecord(j)
  \/ \E m \in Letters : OpenBox(m) \/ WriteLetter(m)
  \/ CrashEngine

Spec == Init /\ [][Next]_vars

-----------------------------------------------------------------------------
(* Properties.                                                             *)

\* What an exporter was given, tail by tail, is what one reading of the file up to
\* its cursor gives, and the cursor is at a line's end: a line still being written,
\* or torn by a crash, is left for later, and no line comes twice (tailJsonl()).
TailExact ==
  /\ reader.items = Entries(SubSeq(file, 1, reader.cursor))
  /\ reader.cursor \in {0} \cup LineEnds(file)

\* The entries of the file are one chain: each hangs from the one before it,
\* whatever crashes lost between them.  The head is cached, read cold behind a
\* flush, and cached again.
OneChain ==
  LET entries == Entries(file)
  IN \A i \in DOMAIN entries : parent[entries[i]] = IF i = 1 THEN Null ELSE entries[i - 1]

\* Line by line, those included that went on in a half a crash left, each entry hangs
\* from that of the line before, whatever crashes lost; but for one whose writer had a
\* head that was torn, or was passed by before it was used: that one hangs from a line
\* still before it, or begins anew.
ChainKept ==
  LET Entry(i) == file[i].entry
      Before(i) == {k \in LineEnds(file) : k < i}
  IN \A i \in LineEnds(file) :
       IF Entry(i) \in stale.entries
       THEN parent[Entry(i)] \in {Null} \cup {Entry(k) : k \in Before(i)}
       ELSE parent[Entry(i)] = IF Before(i) = {} THEN Null ELSE Entry(Max(Before(i)))

\* Every line that ended can be parsed, or read() fails for the whole session.
SessionLoads == \A i \in LineEnds(file) : Parses(LineFrom(file, i))

\* A patch that was written is still in its record: patches of one record, from
\* everywhere in a process, read and write it one after the other (serialize()).  Only
\* what another process read before that and writes after it, its own patch or the split
\* of the old file, overwrites it.
PatchesKept ==
  \A j \in Jobs : patch[j].step = "settled" /\ j \notin over.gone => j \in record[patch[j].rec].patches

\* The split of the old file loses no session: each is in that file or has its own,
\* whichever process does it and wherever one dies.
LegacyKept == \A r \in Records : record[r] = Null => legacy # Null /\ r \in legacy

\* A record once written stays: through its patches, its split, and crashes.
RegistryKept == PatchesKept /\ LegacyKept

\* Of two records, the one patched last by a process bears the later time.
LastPatchedIsNewest ==
  \A j, k \in Jobs :
    /\ patch[j].step = "settled" /\ patch[k].step = "settled"
    /\ patch[j].proc = patch[k].proc /\ patch[j].called < patch[k].called
    => patch[j].at < patch[k].at

\* The registry serves every process.
MigrationServes == \A p \in Procs : migration[p].step # "failed"

\* A cached listing has what its own process wrote.
ListingHasOwnWrites ==
  \A p \in Procs, j \in Jobs :
    listing[p].cache # Null /\ patch[j].step = "settled" /\ patch[j].proc = p =>
      \E i \in DOMAIN listing[p].cache :
        listing[p].cache[i].rec = patch[j].rec /\ j \in listing[p].cache[i].patches

\* A letter is handed out at most once, and one that was posted stays in a file
\* until then, whoever drains and wherever a drain dies ...
KeptOnce(m) ==
  /\ letter[m].got <= 1
  /\ letter[m].step = "posted" /\ letter[m].got = 0 =>
       \E i \in DOMAIN inode : inode[i] # Null /\ m \in ToSet(inode[i])
LetterOnce == \A m \in Letters : KeptOnce(m)

\* ... but for one that was written after the drain of its file had read it; this one
\* is handed out to nobody.
LettersKept == \A m \in Letters : IF m \in late THEN letter[m].got = 0 ELSE KeptOnce(m)

\* ... and will be: that file is the mailbox, or a drain has it.
LetterInReach ==
  \A m \in Letters : letter[m].step = "posted" /\ letter[m].got = 0 =>
    letter[m].file = live \/ \E p \in Procs : drain[p].step # "rest" /\ drain[p].file = letter[m].file
=============================================================================
