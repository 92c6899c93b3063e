---------------------------- MODULE SharedProofs -----------------------------
(***************************************************************************)
(* What the processes of one project share in the local store, in the      *)
(* whole of MCSession and for any bounds: the registry of the sessions and *)
(* the mailbox.                                                            *)
(*                                                                         *)
(* A patch is in its record from its write on, because patches of one      *)
(* process stand in line, and what another overwrites had been read before *)
(* it; the split of the old registry file knows each session without a     *)
(* file; and a letter is in one place at a time, which a drain that has    *)
(* read the file does not look at again.                                   *)
(***************************************************************************)
EXTENDS MCSession, SequenceTheorems, FiniteSetTheorems, TLAPS

sessionVars == <<side, rounds, OfFiles, OfDesk, OfTasks, OfFlow, OfClient, OfServer>>

\* A step of the session is one of the files, or leaves them.
LEMMA FilesStep == [SessionNext]_sessionVars => [Next]_OfFiles
<1>1. FilesNext => Next
  BY DEF FilesNext, Files, Next
<1>2. RoundsNext => UNCHANGED OfFiles
  BY DEF RoundsNext, Run
<1>3. DeskNext \/ TasksNext => UNCHANGED OfFiles
  BY DEF DeskNext, AtDesk, TasksNext, OfPlan
<1>4. FlowNext \/ ServerNext => UNCHANGED OfFiles
  BY DEF FlowNext, InFlow, ServerNext, OfBench
<1>5. ClientNext => UNCHANGED OfFiles
  BY DEF ClientNext, Asked
<1> QED
  BY <1>1, <1>2, <1>3, <1>4, <1>5 DEF SessionNext, sessionVars
-----------------------------------------------------------------------------
(* The registry.                                                           *)

Record == [patches : SUBSET Jobs, at : Nat]
Patch ==
  [step : {"none", "called", "refused", "inline", "absent", "loaded", "settled", "lost"}, proc : Procs \cup {Null},
   rec : Records \cup {Null}, cur : Record \cup {Null}, at : Nat, called : Nat]
Migration == [step : {"none", "read", "split", "done", "failed"}, map : SUBSET Records, rec : Records \cup {Null}]

Over == [since : [Jobs \cup Procs -> SUBSET Jobs], gone : SUBSET Jobs]

RegistryTyped ==
  /\ plan \in Plans /\ now \in Nat /\ over \in Over
  /\ record \in [Records -> Record \cup {Null}]
  /\ legacy \in (SUBSET Records) \cup {Null}
  /\ migration \in [Procs -> Migration]
  /\ chain \in [Procs -> [Records -> Seq(Jobs)]]
  /\ patch \in [Jobs -> Patch]

\* A split knows each session that has no file yet.
SplitKnows ==
  \A p \in Procs :
    /\ migration[p].rec # Null => migration[p].step = "split"
    /\ migration[p].step = "split" =>
         \A r \in Records : record[r] = Null => r \in migration[p].map \/ migration[p].rec = r

LegacyInv == RegistryTyped /\ SplitKnows /\ LegacyKept

\* Who patches, and who splits, is of the plan.
OfThePlan ==
  /\ \A p \in Procs : migration[p].step # "none" => p \in plan.procs
  /\ \A j \in Jobs : patch[j].step # "none" =>
       j \in plan.jobs /\ patch[j].proc \in plan.procs /\ patch[j].rec \in Records

IsFirst(j, line) == line # <<>> /\ Head(line) = j

Settled(j, r) == patch[j].step = "settled" /\ patch[j].rec = r

\* A split that is about to write a record knows of each patch there that it came in between.
SplitMisses ==
  \A p \in Procs, j \in Jobs :
    migration[p].rec # Null /\ Settled(j, migration[p].rec) => j \in over.since[p] \cup over.gone

\* A patch in line has the migration behind it, and one that read its record is first in line for it, and has what was
\* written there before, or it came in between.
InLine ==
  \A j \in Jobs :
    /\ patch[j].step \in {"inline", "loaded"} => migration[patch[j].proc].step = "done"
    /\ patch[j].step = "loaded" =>
         /\ IsFirst(j, chain[patch[j].proc][patch[j].rec])
         /\ patch[j].cur \in Record /\ record[patch[j].rec] # Null
         /\ \A k \in Jobs : Settled(k, patch[j].rec) => k \in patch[j].cur.patches \cup over.since[j] \cup over.gone

RegistryInv ==
  /\ LegacyInv /\ OfThePlan /\ SplitMisses /\ InLine
  /\ \A j \in Jobs : patch[j].step = "settled" => record[patch[j].rec] # Null
  /\ PatchesKept

LEMMA RegistryAtFirst == Init => RegistryInv
<1> SUFFICES ASSUME Init PROVE RegistryInv
  OBVIOUS
<1>1. PICK old \in SUBSET Records :
        /\ record = [r \in Records |-> IF r \in old THEN Null ELSE Fresh]
        /\ legacy = IF old = {} THEN Null ELSE old
  BY DEF Init
<1>2. Fresh \in Record /\ Fresh # Null
  BY NullAssumption DEF Fresh, Record
<1>3. \A r \in Records : record[r] = Null => r \in old
  BY <1>1, <1>2
<1>4. old # {} => legacy = old /\ old # Null
  BY <1>1, NullAssumption
<1>5. migration \in [Procs -> Migration] /\ \A p \in Procs : migration[p] = NotMigrated
  BY DEF Init, NotMigrated, Migration
<1>6. patch \in [Jobs -> Patch] /\ \A j \in Jobs : patch[j].step = "none"
  BY DEF Init, NoPatch, Patch
<1>7. RegistryTyped
  <2>1. chain \in [Procs -> [Records -> Seq(Jobs)]]
    BY DEF Init
  <2>2. record \in [Records -> Record \cup {Null}] /\ legacy \in (SUBSET Records) \cup {Null}
    BY <1>1, <1>2
  <2> QED
    BY <1>5, <1>6, <2>1, <2>2 DEF Init, RegistryTyped, Over
<1>8. SplitKnows /\ OfThePlan /\ SplitMisses
  BY <1>5, <1>6 DEF SplitKnows, OfThePlan, SplitMisses, NotMigrated
<1> QED
  BY <1>3, <1>4, <1>6, <1>7, <1>8 DEF RegistryInv, LegacyInv, LegacyKept, InLine, PatchesKept

\* What a step of one process's migration leaves.
LEMMA MigrationGoesOn ==
  ASSUME RegistryTyped, NEW p \in Procs, NEW m \in Migration, migration' = [migration EXCEPT ![p] = m]
  PROVE  /\ migration' \in [Procs -> Migration] /\ migration'[p] = m
         /\ \A q \in Procs \ {p} : migration'[q] = migration[q]
BY DEF RegistryTyped

\* What a step of one patch leaves.
LEMMA PatchGoesOn ==
  ASSUME RegistryTyped, NEW j \in Jobs, NEW x \in Patch, patch' = [patch EXCEPT ![j] = x]
  PROVE  /\ patch' \in [Jobs -> Patch] /\ patch'[j] = x
         /\ \A k \in Jobs \ {j} : patch'[k] = patch[k]
BY DEF RegistryTyped

\* A migration's step that writes no record, and that only goes to "done" or "failed" from a split that is over.
LEMMA MigrationKeeps ==
  ASSUME RegistryInv, NEW p \in plan.procs, NEW m \in Migration,
         migration' = [migration EXCEPT ![p] = m], UNCHANGED <<plan, record, chain, patch, now>>,
         over' \in Over, over'.gone = over.gone, \A o \in (Jobs \cup Procs) \ {p} : over'.since[o] = over.since[o],
         migration[p].step # "done", m.step # "none",
         legacy' \in (SUBSET Records) \cup {Null}, LegacyKept',
         m.rec # Null => m.step = "split" /\ record[m.rec] = Null,
         m.step = "split" => \A r \in Records : record[r] = Null => r \in m.map \/ m.rec = r
  PROVE  RegistryInv'
<1>1. p \in Procs
  BY LocalAssumption DEF RegistryInv, LegacyInv, RegistryTyped
<1>2. /\ migration' \in [Procs -> Migration] /\ migration'[p] = m
      /\ \A q \in Procs \ {p} : migration'[q] = migration[q]
  BY <1>1, MigrationGoesOn DEF RegistryInv, LegacyInv
<1>3. RegistryTyped' /\ SplitKnows'
  BY <1>1, <1>2 DEF RegistryInv, LegacyInv, RegistryTyped, SplitKnows
<1>4. OfThePlan'
  BY <1>1, <1>2 DEF RegistryInv, OfThePlan
<1>5. SplitMisses'
  <2>1. ASSUME NEW q \in Procs, NEW j \in Jobs, migration'[q].rec # Null, Settled(j, migration'[q].rec)
        PROVE  j \in over'.since[q] \cup over'.gone
    <3>1. CASE q = p
      BY <1>2, <2>1, <3>1 DEF RegistryInv, Settled
    <3>2. CASE q # p
      BY <1>2, <2>1, <3>2 DEF RegistryInv, SplitMisses
    <3> QED
      BY <3>1, <3>2
  <2> QED
    BY <2>1 DEF SplitMisses, Settled
<1>6. InLine'
  <2>1. ASSUME NEW j \in Jobs, patch[j].step \in {"inline", "loaded"}
        PROVE  migration'[patch[j].proc].step = "done"
    <3>1. migration[patch[j].proc].step = "done" /\ patch[j].proc \in Procs
      BY <2>1, LocalAssumption DEF RegistryInv, InLine, OfThePlan, LegacyInv, RegistryTyped
    <3> QED
      BY <1>2, <3>1
  <2>2. \A j \in Jobs : over'.since[j] = over.since[j]
    BY <1>1, LocalAssumption
  <2> QED
    BY <2>1, <2>2 DEF RegistryInv, InLine, IsFirst, Settled
<1> QED
  BY <1>3, <1>4, <1>5, <1>6 DEF RegistryInv, LegacyInv, PatchesKept

LEMMA MigrateKeeps ==
  ASSUME RegistryInv, NEW p \in Procs, Migrate(p) \/ ReadLegacy(p) \/ RenameLegacy(p)
  PROVE  RegistryInv'
<1>1. migration[p] \in Migration /\ p \in plan.procs /\ UNCHANGED <<plan, record, chain, patch, now, over>> /\ over \in Over
  BY DEF Migrate, ReadLegacy, RenameLegacy, Split, Shared, RegistryInv, LegacyInv, RegistryTyped, OfThePlan
<1>2. CASE Migrate(p)
  <2> DEFINE m == [migration[p] EXCEPT !.step = IF legacy = Null THEN "done" ELSE "read"]
  <2>1. m \in Migration /\ m.step \in {"done", "read"} /\ m.rec = migration[p].rec
    BY <1>1 DEF Migration
  <2>2. m.rec = Null
    BY <1>2, <2>1 DEF Migrate, RegistryInv, LegacyInv, SplitKnows
  <2>3. migration' = [migration EXCEPT ![p] = m] /\ legacy' = legacy /\ migration[p].step = "none"
    BY <1>2 DEF Migrate
  <2>4. LegacyKept' /\ legacy' \in (SUBSET Records) \cup {Null}
    BY <1>1, <2>3 DEF RegistryInv, LegacyInv, LegacyKept, RegistryTyped
  <2> HIDE DEF m
  <2> QED
    BY <1>1, <2>1, <2>2, <2>3, <2>4, MigrationKeeps
<1>3. CASE ReadLegacy(p)
  <2> DEFINE m == [step |-> "split", map |-> IF legacy = Null THEN {} ELSE legacy, rec |-> Null]
  <2>1. m \in Migration /\ m.step = "split" /\ m.rec = Null
    BY DEF Migration, RegistryInv, LegacyInv, RegistryTyped
  <2>2. \A r \in Records : record[r] = Null => r \in m.map
    BY DEF RegistryInv, LegacyInv, LegacyKept
  <2>3. migration' = [migration EXCEPT ![p] = m] /\ legacy' = legacy /\ migration[p].step = "read"
    BY <1>3 DEF ReadLegacy
  <2>4. LegacyKept' /\ legacy' \in (SUBSET Records) \cup {Null}
    BY <1>1, <2>3 DEF RegistryInv, LegacyInv, LegacyKept, RegistryTyped
  <2> HIDE DEF m
  <2> QED
    BY <1>1, <2>1, <2>2, <2>3, <2>4, MigrationKeeps
<1>4. CASE RenameLegacy(p)
  <2> DEFINE m == [migration[p] EXCEPT !.step = IF legacy = Null THEN "failed" ELSE "done"]
  <2>1. m \in Migration /\ m.step \in {"failed", "done"} /\ m.rec = migration[p].rec
    BY <1>1 DEF Migration
  <2>2. /\ migration' = [migration EXCEPT ![p] = m] /\ legacy' = Null /\ migration[p].step = "split"
        /\ migration[p].rec = Null /\ migration[p].map = {}
    BY <1>4 DEF RenameLegacy, Split
  <2>3. \A r \in Records : record[r] # Null
    BY <2>2, NullAssumption DEF RegistryInv, LegacyInv, SplitKnows
  <2>4. LegacyKept' /\ legacy' \in (SUBSET Records) \cup {Null}
    BY <1>1, <2>2, <2>3 DEF LegacyKept
  <2> HIDE DEF m
  <2> QED
    BY <1>1, <2>1, <2>2, <2>4, MigrationKeeps
<1> QED
  BY <1>2, <1>3, <1>4

LEMMA SplitRecordKeeps ==
  ASSUME RegistryInv, NEW p \in Procs, NEW r \in Records, SplitRecord(p, r)
  PROVE  RegistryInv'
<1> DEFINE m == [migration[p] EXCEPT !.map = @ \ {r}, !.rec = IF record[r] = Null THEN r ELSE Null]
<1>1. /\ migration[p] \in Migration /\ p \in plan.procs /\ UNCHANGED <<plan, record, chain, patch, now, legacy>>
      /\ migration' = [migration EXCEPT ![p] = m] /\ migration[p].step = "split" /\ migration[p].rec = Null
  BY DEF SplitRecord, Shared, RegistryInv, LegacyInv, RegistryTyped, OfThePlan
<1>2. /\ m \in Migration /\ m.step = "split" /\ m.map = migration[p].map \ {r}
      /\ m.rec = IF record[r] = Null THEN r ELSE Null
  BY <1>1 DEF Migration
<1>3. \A q \in Records : record[q] = Null => q \in migration[p].map
  BY <1>1, NullAssumption DEF RegistryInv, LegacyInv, SplitKnows
<1>4. LegacyKept' /\ legacy' \in (SUBSET Records) \cup {Null}
  BY <1>1 DEF RegistryInv, LegacyInv, LegacyKept, RegistryTyped
<1>5. /\ over' \in Over /\ over'.gone = over.gone
      /\ \A o \in (Jobs \cup Procs) \ {p} : over'.since[o] = over.since[o]
  BY DEF SplitRecord, RegistryInv, LegacyInv, RegistryTyped, Over
<1> HIDE DEF m
<1> QED
  BY <1>1, <1>2, <1>3, <1>4, <1>5, MigrationKeeps

LEMMA WriteSplitKeeps ==
  ASSUME RegistryInv, NEW p \in Procs, WriteSplit(p)
  PROVE  RegistryInv'
<1> DEFINE r == migration[p].rec
           m == [migration[p] EXCEPT !.rec = Null]
<1>1. /\ r \in Records /\ migration[p] \in Migration /\ migration[p].step = "split"
      /\ record' = [record EXCEPT ![r] = Fresh] /\ migration' = [migration EXCEPT ![p] = m]
      /\ UNCHANGED <<plan, legacy, chain, patch, now>>
      /\ over \in Over /\ over' = [over EXCEPT !.gone = @ \cup over.since[p]]
  BY DEF WriteSplit, Shared, RegistryInv, LegacyInv, RegistryTyped, SplitKnows, Migration
<1>2. m \in Migration /\ m.step = "split" /\ m.map = migration[p].map /\ m.rec = Null
  BY <1>1 DEF Migration
<1>3. Fresh \in Record /\ Fresh # Null
  BY NullAssumption DEF Fresh, Record
<1>13. over' \in Over /\ over'.gone = over.gone \cup over.since[p] /\ over'.since = over.since
  BY <1>1 DEF Over
<1> HIDE DEF m, r
<1>4. /\ migration' \in [Procs -> Migration] /\ migration'[p] = m
      /\ \A q \in Procs \ {p} : migration'[q] = migration[q]
  BY <1>1, <1>2, MigrationGoesOn DEF RegistryInv, LegacyInv
<1>5. /\ record' \in [Records -> Record \cup {Null}] /\ record'[r] = Fresh
      /\ \A q \in Records \ {r} : record'[q] = record[q]
  BY <1>1, <1>3 DEF RegistryInv, LegacyInv, RegistryTyped
<1>6. RegistryTyped' /\ LegacyKept'
  BY <1>1, <1>3, <1>4, <1>5, <1>13 DEF RegistryInv, LegacyInv, RegistryTyped, LegacyKept
<1>7. SplitKnows'
  <2>1. ASSUME NEW q \in Procs, migration'[q].step = "split", NEW s \in Records, record'[s] = Null
        PROVE  s \in migration'[q].map \/ migration'[q].rec = s
    <3>1. s # r /\ record[s] = Null
      BY <1>3, <1>5, <2>1
    <3>2. s \in migration[q].map \/ migration[q].rec = s
      BY <1>1, <1>2, <1>4, <2>1, <3>1 DEF RegistryInv, LegacyInv, SplitKnows
    <3> QED
      BY <1>2, <1>4, <3>1, <3>2 DEF r
  <2>2. \A q \in Procs : migration'[q].rec # Null => migration'[q].step = "split"
    BY <1>2, <1>4 DEF RegistryInv, LegacyInv, SplitKnows
  <2> QED
    BY <2>1, <2>2 DEF SplitKnows
<1>8. ASSUME NEW j \in Jobs, Settled(j, r) PROVE j \in over'.gone
  BY <1>1, <1>8, <1>13, NullAssumption DEF RegistryInv, SplitMisses, WriteSplit, r
<1>9. OfThePlan'
  BY <1>1, <1>2, <1>4 DEF RegistryInv, OfThePlan
<1>10. SplitMisses'
  <2>1. ASSUME NEW q \in Procs, migration'[q].rec # Null PROVE q # p /\ migration'[q] = migration[q]
    BY <1>2, <1>4, <2>1
  <2> QED
    BY <1>1, <1>13, <2>1 DEF RegistryInv, SplitMisses, Settled
<1>11. InLine'
  <2>1. ASSUME NEW j \in Jobs, patch[j].step \in {"inline", "loaded"}
        PROVE  migration'[patch[j].proc].step = "done"
    <3>1. migration[patch[j].proc].step = "done" /\ patch[j].proc \in Procs
      BY <2>1, LocalAssumption DEF RegistryInv, InLine, OfThePlan, LegacyInv, RegistryTyped
    <3> QED
      BY <1>1, <1>4, <3>1
  <2>2. ASSUME NEW j \in Jobs, patch[j].step = "loaded" PROVE record'[patch[j].rec] # Null
    <3>1. patch[j].rec \in Records /\ record[patch[j].rec] # Null
      BY <2>2 DEF RegistryInv, OfThePlan, InLine
    <3> QED
      BY <1>3, <1>5, <3>1
  <2>3. ASSUME NEW j \in Jobs, patch[j].step = "loaded", NEW k \in Jobs, Settled(k, patch[j].rec)
        PROVE  k \in patch[j].cur.patches \cup over'.since[j] \cup over'.gone
    BY <1>13, <2>3 DEF RegistryInv, InLine
  <2>4. UNCHANGED <<patch, chain>>
    BY <1>1
  <2> QED
    BY <2>1, <2>2, <2>3, <2>4 DEF RegistryInv, InLine, IsFirst, Settled
<1>12. ASSUME NEW j \in Jobs, patch[j].step = "settled"
       PROVE  /\ record'[patch[j].rec] # Null
              /\ j \notin over'.gone => j \in record'[patch[j].rec].patches
  <2>1. patch[j].rec \in Records /\ record[patch[j].rec] # Null
    BY <1>12 DEF RegistryInv, OfThePlan
  <2>2. CASE patch[j].rec = r
    BY <1>3, <1>5, <1>8, <1>12, <2>2 DEF Settled
  <2>3. CASE patch[j].rec # r
    BY <1>5, <1>12, <1>13, <2>1, <2>3 DEF RegistryInv, PatchesKept
  <2> QED
    BY <2>2, <2>3
<1> QED
  BY <1>1, <1>6, <1>7, <1>9, <1>10, <1>11, <1>12 DEF RegistryInv, LegacyInv, PatchesKept

\* A step of one patch that writes no record, and that joins or leaves a line as it says.
LEMMA PatchKeeps ==
  ASSUME RegistryInv, NEW j \in Jobs, NEW x \in Patch,
         patch' = [patch EXCEPT ![j] = x], UNCHANGED <<plan, record, legacy, migration, over>>, now' \in Nat,
         x.step \in {"called", "refused", "inline", "absent", "loaded"},
         j \in plan.jobs, x.proc \in plan.procs, x.rec \in Records,
         chain' \in [Procs -> [Records -> Seq(Jobs)]],
         x.step \in {"inline", "loaded"} => migration[x.proc].step = "done",
         x.step = "loaded" => IsFirst(j, chain'[x.proc][x.rec]) /\ x.cur = record[x.rec] /\ record[x.rec] # Null,
         \A k \in Jobs \ {j} : patch[k].step = "loaded" => IsFirst(k, chain'[patch[k].proc][patch[k].rec])
  PROVE  RegistryInv'
<1>1. patch' \in [Jobs -> Patch] /\ patch'[j] = x /\ \A k \in Jobs \ {j} : patch'[k] = patch[k]
  BY PatchGoesOn DEF RegistryInv, LegacyInv
<1>2. RegistryTyped' /\ SplitKnows' /\ LegacyKept'
  BY <1>1 DEF RegistryInv, LegacyInv, RegistryTyped, SplitKnows, LegacyKept
<1>3. OfThePlan'
  BY <1>1 DEF RegistryInv, OfThePlan
<1>4. \A k \in Jobs, r \in Records : Settled(k, r)' => k # j /\ Settled(k, r)
  BY <1>1 DEF Settled
<1>5. SplitMisses'
  <2>1. \A p \in Procs : migration[p].rec \in Records \cup {Null}
    BY DEF RegistryInv, LegacyInv, RegistryTyped, Migration
  <2> QED
    BY <1>4, <2>1 DEF RegistryInv, SplitMisses, Settled
<1>6. InLine'
  <2>1. ASSUME NEW i \in Jobs, patch'[i].step = "loaded", NEW k \in Jobs, Settled(k, patch[i].rec)'
        PROVE  k \in patch'[i].cur.patches \cup over'.since[i] \cup over'.gone
    <3>1. patch'[i].rec \in Records
      BY <1>3, <2>1 DEF OfThePlan
    <3>2. Settled(k, patch'[i].rec)
      BY <1>4, <2>1, <3>1 DEF Settled
    <3>3. CASE i = j
      BY <1>1, <2>1, <3>2, <3>3 DEF RegistryInv, PatchesKept, Settled
    <3>4. CASE i # j
      BY <1>1, <2>1, <3>2, <3>4 DEF RegistryInv, InLine
    <3> QED
      BY <3>3, <3>4
  <2>2. ASSUME NEW i \in Jobs
        PROVE  /\ patch'[i].step \in {"inline", "loaded"} => migration'[patch'[i].proc].step = "done"
               /\ patch'[i].step = "loaded" =>
                    /\ IsFirst(i, chain'[patch'[i].proc][patch'[i].rec])
                    /\ patch'[i].cur \in Record /\ record'[patch'[i].rec] # Null
    <3>1. CASE i = j
      BY <1>1, <3>1 DEF RegistryInv, LegacyInv, RegistryTyped
    <3>2. CASE i # j
      BY <1>1, <3>2 DEF RegistryInv, InLine
    <3> QED
      BY <3>1, <3>2
  <2> QED
    BY <2>1, <2>2 DEF InLine, IsFirst, Settled
<1>7. PatchesKept' /\ \A k \in Jobs : patch'[k].step = "settled" => record'[patch'[k].rec] # Null
  BY <1>1 DEF RegistryInv, PatchesKept
<1> QED
  BY <1>2, <1>3, <1>5, <1>6, <1>7 DEF RegistryInv, LegacyInv

LEMMA CallPatchKeeps ==
  ASSUME RegistryInv, NEW p \in Procs, NEW j \in Jobs, NEW r \in Records, CallPatch(p, j, r)
  PROVE  RegistryInv'
<1> DEFINE c == 1 + Cardinality({k \in Jobs : patch[k].step # "none"})
           x == [NoPatch EXCEPT !.step = "called", !.proc = p, !.rec = r, !.called = c]
<1>1. c \in Nat
  <2>1. IsFiniteSet({k \in Jobs : patch[k].step # "none"})
    BY LocalAssumption, FS_Subset
  <2> QED
    BY <2>1, FS_CardinalityType
<1> HIDE DEF c
<1>2. x \in Patch /\ x.step = "called" /\ x.proc = p /\ x.rec = r
  BY <1>1 DEF NoPatch, Patch
<1>3. patch' = [patch EXCEPT ![j] = x] /\ UNCHANGED <<plan, record, legacy, migration, now, chain, over>>
      /\ p \in plan.procs /\ j \in plan.jobs
  BY DEF CallPatch, Shared, c
<1> HIDE DEF x
<1> QED
  BY <1>2, <1>3, PatchKeeps DEF RegistryInv, LegacyInv, RegistryTyped, InLine, IsFirst

LEMMA GetInLineKeeps ==
  ASSUME RegistryInv, NEW j \in Jobs, GetInLine(j)
  PROVE  RegistryInv'
<1> DEFINE p == patch[j].proc
           r == patch[j].rec
<1>1. /\ patch[j] \in Patch /\ p \in plan.procs /\ p \in Procs /\ r \in Records /\ j \in plan.jobs
      /\ UNCHANGED <<plan, record, legacy, migration, now, over>>
  BY LocalAssumption DEF GetInLine, Shared, RegistryInv, LegacyInv, RegistryTyped, OfThePlan
<1>2. chain \in [Procs -> [Records -> Seq(Jobs)]]
      /\ \A k \in Jobs : patch[k].step = "loaded" => IsFirst(k, chain[patch[k].proc][patch[k].rec])
  BY DEF RegistryInv, LegacyInv, RegistryTyped, InLine
<1>3. CASE patch' = [patch EXCEPT ![j].step = "refused"] /\ UNCHANGED <<chain, listing>>
  <2> DEFINE x == [patch[j] EXCEPT !.step = "refused"]
  <2>1. x \in Patch /\ x.step = "refused" /\ x.proc = p /\ x.rec = r
    BY <1>1 DEF Patch
  <2>2. patch' = [patch EXCEPT ![j] = x]
    BY <1>3
  <2> HIDE DEF x, p, r
  <2> QED
    BY <1>1, <1>2, <1>3, <2>1, <2>2, PatchKeeps DEF RegistryInv, LegacyInv, RegistryTyped, IsFirst
<1>4. CASE /\ migration[p].step = "done" /\ patch' = [patch EXCEPT ![j].step = "inline"]
           /\ chain' = [chain EXCEPT ![p][patch[j].rec] = Append(@, j)]
  <2> DEFINE x == [patch[j] EXCEPT !.step = "inline"]
  <2>1. x \in Patch /\ x.step = "inline" /\ x.proc = p /\ x.rec = r
    BY <1>1 DEF Patch
  <2>2. patch' = [patch EXCEPT ![j] = x]
    BY <1>4
  <2>3. chain[p][r] \in Seq(Jobs) /\ Append(chain[p][r], j) \in Seq(Jobs) /\ Append(chain[p][r], j) # <<>>
        /\ (chain[p][r] # <<>> => Head(Append(chain[p][r], j)) = Head(chain[p][r]))
    BY <1>1, <1>2
  <2>4. /\ chain' \in [Procs -> [Records -> Seq(Jobs)]]
        /\ \A q \in Procs, s \in Records :
             chain'[q][s] = IF q = p /\ s = r THEN Append(chain[p][r], j) ELSE chain[q][s]
    BY <1>1, <1>2, <1>4, <2>3
  <2> HIDE DEF x, p, r
  <2>5. ASSUME NEW k \in Jobs \ {j}, patch[k].step = "loaded" PROVE IsFirst(k, chain'[patch[k].proc][patch[k].rec])
    <3>1. patch[k].proc \in Procs /\ patch[k].rec \in Records /\ IsFirst(k, chain[patch[k].proc][patch[k].rec])
      BY <1>2, <2>5, LocalAssumption DEF RegistryInv, OfThePlan, LegacyInv, RegistryTyped
    <3> QED
      BY <2>2, <2>3, <2>4, <2>5, <3>1 DEF IsFirst, RegistryInv, LegacyInv, RegistryTyped
  <2> QED
    BY <1>1, <1>4, <2>1, <2>2, <2>4, <2>5, PatchKeeps DEF RegistryInv, LegacyInv, RegistryTyped
<1> QED
  BY <1>3, <1>4 DEF GetInLine

\* The first in line leaves: no other one there has read its record.
LEMMA LeavesLine ==
  ASSUME RegistryInv, NEW j \in Jobs, patch[j].proc \in Procs, patch[j].rec \in Records,
         IsFirst(j, chain[patch[j].proc][patch[j].rec]), LeaveLine(j)
  PROVE  /\ chain' \in [Procs -> [Records -> Seq(Jobs)]]
         /\ \A k \in Jobs \ {j} : patch[k].step = "loaded" =>
              /\ chain'[patch[k].proc][patch[k].rec] = chain[patch[k].proc][patch[k].rec]
              /\ ~(patch[k].proc = patch[j].proc /\ patch[k].rec = patch[j].rec)
<1> DEFINE p == patch[j].proc
           r == patch[j].rec
<1>1. /\ chain \in [Procs -> [Records -> Seq(Jobs)]] /\ p \in Procs /\ r \in Records
      /\ chain[p][r] # <<>> /\ Head(chain[p][r]) = j /\ chain' = [chain EXCEPT ![p][r] = Tail(@)]
  BY DEF RegistryInv, LegacyInv, RegistryTyped, IsFirst, LeaveLine
<1> HIDE DEF p, r
<1>2. Tail(chain[p][r]) \in Seq(Jobs)
  BY <1>1
<1>3. /\ chain' \in [Procs -> [Records -> Seq(Jobs)]]
      /\ \A q \in Procs, s \in Records : ~(q = p /\ s = r) => chain'[q][s] = chain[q][s]
  BY <1>1, <1>2
<1>4. ASSUME NEW k \in Jobs \ {j}, patch[k].step = "loaded"
      PROVE  /\ patch[k].proc \in Procs /\ patch[k].rec \in Records
             /\ ~(patch[k].proc = p /\ patch[k].rec = r)
  <2>1. patch[k].proc \in Procs /\ patch[k].rec \in Records /\ IsFirst(k, chain[patch[k].proc][patch[k].rec])
    BY <1>4, LocalAssumption DEF RegistryInv, OfThePlan, LegacyInv, RegistryTyped, InLine
  <2> QED
    BY <1>1, <2>1 DEF IsFirst
<1> QED
  BY <1>3, <1>4 DEF p, r

LEMMA Loaded ==
  ASSUME NEW y \in Patch, NEW cur \in Record \cup {Null}, NEW t \in Nat
  PROVE  /\ [y EXCEPT !.step = "loaded", !.cur = cur, !.at = t] \in Patch
         /\ [y EXCEPT !.step = "loaded", !.cur = cur, !.at = t] =
              [step |-> "loaded", proc |-> y.proc, rec |-> y.rec, cur |-> cur, at |-> t, called |-> y.called]
<1>1. /\ y.proc \in Procs \cup {Null} /\ y.rec \in Records \cup {Null} /\ y.called \in Nat
  BY DEF Patch
<1> DEFINE y1 == [y EXCEPT !.step = "loaded"]
           y2 == [y1 EXCEPT !.cur = cur]
<1>2. y1 = [step |-> "loaded", proc |-> y.proc, rec |-> y.rec, cur |-> y.cur, at |-> y.at, called |-> y.called]
  BY DEF Patch
<1> HIDE DEF y1
<1>3. y2 = [step |-> "loaded", proc |-> y.proc, rec |-> y.rec, cur |-> cur, at |-> y.at, called |-> y.called]
  BY <1>2
<1> HIDE DEF y2
<1>4. [y2 EXCEPT !.at = t] =
        [step |-> "loaded", proc |-> y.proc, rec |-> y.rec, cur |-> cur, at |-> t, called |-> y.called]
  BY <1>3
<1>5. [y2 EXCEPT !.at = t] = [y EXCEPT !.step = "loaded", !.cur = cur, !.at = t]
  BY DEF y2, y1
<1> QED
  BY <1>1, <1>4, <1>5 DEF Patch

LEMMA LoadRecordKeeps ==
  ASSUME RegistryInv, NEW j \in Jobs, LoadRecord(j)
  PROVE  RegistryInv'
<1> DEFINE p == patch[j].proc
           r == patch[j].rec
<1>1. /\ patch[j] \in Patch /\ p \in plan.procs /\ p \in Procs /\ r \in Records /\ j \in plan.jobs
      /\ UNCHANGED <<plan, record, legacy, migration, over>> /\ IsFirst(j, chain[p][r]) /\ now \in Nat
      /\ record[r] \in Record \cup {Null} /\ migration[p].step = "done"
  BY LocalAssumption DEF LoadRecord, AtTurn, Shared, RegistryInv, LegacyInv, RegistryTyped, OfThePlan, InLine, IsFirst
<1>2. chain \in [Procs -> [Records -> Seq(Jobs)]]
      /\ \A k \in Jobs : patch[k].step = "loaded" => IsFirst(k, chain[patch[k].proc][patch[k].rec])
  BY DEF RegistryInv, LegacyInv, RegistryTyped, InLine
<1>3. CASE record[r] = Null
  <2> DEFINE x == [patch[j] EXCEPT !.step = "absent"]
  <2>1. x \in Patch /\ x.step = "absent" /\ x.proc = p /\ x.rec = r
    BY <1>1 DEF Patch
  <2>2. patch' = [patch EXCEPT ![j] = x] /\ LeaveLine(j) /\ now' = now
    BY <1>3 DEF LoadRecord
  <2>3. /\ chain' \in [Procs -> [Records -> Seq(Jobs)]]
        /\ \A k \in Jobs \ {j} : patch[k].step = "loaded" =>
             chain'[patch[k].proc][patch[k].rec] = chain[patch[k].proc][patch[k].rec]
    BY <1>1, <2>2, LeavesLine
  <2>4. \A k \in Jobs \ {j} : patch[k].step = "loaded" => IsFirst(k, chain'[patch[k].proc][patch[k].rec])
    BY <1>2, <2>2, <2>3 DEF IsFirst, RegistryInv, LegacyInv, RegistryTyped
  <2>5. \A k \in Jobs \ {j} : patch'[k] = patch[k]
    BY <2>2 DEF RegistryInv, LegacyInv, RegistryTyped
  <2> HIDE DEF x, p, r
  <2> QED
    BY <1>1, <2>1, <2>2, <2>3, <2>4, <2>5, PatchKeeps
<1>4. CASE record[r] # Null
  <2> DEFINE x == [patch[j] EXCEPT !.step = "loaded", !.cur = record[r], !.at = now + 1]
  <2>1. x \in Patch /\ x.step = "loaded" /\ x.proc = p /\ x.rec = r /\ x.cur = record[r]
    <3>1. patch[j] \in Patch /\ record[r] \in Record \cup {Null} /\ now + 1 \in Nat
      BY <1>1
    <3>2. /\ x \in Patch
          /\ x = [step |-> "loaded", proc |-> patch[j].proc, rec |-> patch[j].rec, cur |-> record[r], at |-> now + 1,
                  called |-> patch[j].called]
      <4> HIDE DEF r
      <4> QED
        BY <3>1, Loaded
    <3> HIDE DEF x
    <3> QED
      BY <3>2
  <2>2. patch' = [patch EXCEPT ![j] = x] /\ now' = now + 1 /\ chain' = chain
    BY <1>4 DEF LoadRecord
  <2>3. \A k \in Jobs \ {j} : patch'[k] = patch[k]
    BY <2>2 DEF RegistryInv, LegacyInv, RegistryTyped
  <2> HIDE DEF x, p, r
  <2>4. IsFirst(j, chain'[x.proc][x.rec]) /\ \A k \in Jobs \ {j} : patch[k].step = "loaded" => IsFirst(k, chain'[patch[k].proc][patch[k].rec])
    BY <1>1, <1>2, <2>1, <2>2, <2>3 DEF IsFirst
  <2>5. now' \in Nat /\ chain' \in [Procs -> [Records -> Seq(Jobs)]]
    BY <1>1, <1>2, <2>2
  <2> QED
    BY <1>1, <1>4, <2>1, <2>2, <2>4, <2>5, PatchKeeps
<1> QED
  BY <1>3, <1>4

LEMMA WriteRecordKeeps ==
  ASSUME RegistryInv, NEW j \in Jobs, WriteRecord(j)
  PROVE  RegistryInv'
<1> DEFINE p == patch[j].proc
           r == patch[j].rec
           x == [patch[j] EXCEPT !.step = "settled", !.cur = Null]
           new == [patches |-> patch[j].cur.patches \cup {j}, at |-> patch[j].at]
<1>1. /\ patch[j] \in Patch /\ patch[j].step = "loaded" /\ p \in Procs /\ r \in Records /\ j \in plan.jobs
      /\ IsFirst(j, chain[p][r]) /\ patch[j].cur \in Record
      /\ p \in plan.procs /\ migration[p].step = "done"
  BY LocalAssumption DEF WriteRecord, RegistryInv, LegacyInv, RegistryTyped, OfThePlan, InLine
<1>2. /\ UNCHANGED <<plan, legacy, migration, now>> /\ LeaveLine(j)
      /\ patch' = [patch EXCEPT ![j] = x] /\ record' = [record EXCEPT ![r] = new]
  BY DEF WriteRecord, Shared
<1>3. x \in Patch /\ x.step = "settled" /\ x.proc = p /\ x.rec = r
  BY <1>1 DEF Patch
<1>4. new \in Record /\ new # Null /\ new.patches = patch[j].cur.patches \cup {j}
  BY <1>1, NullAssumption DEF Record, Patch
<1> HIDE DEF x, new
<1>5. patch' \in [Jobs -> Patch] /\ patch'[j] = x /\ \A k \in Jobs \ {j} : patch'[k] = patch[k]
  BY <1>2, <1>3, PatchGoesOn DEF RegistryInv, LegacyInv
<1>6. /\ record' \in [Records -> Record \cup {Null}] /\ record'[r] = new
      /\ \A s \in Records \ {r} : record'[s] = record[s]
  BY <1>1, <1>2, <1>4 DEF RegistryInv, LegacyInv, RegistryTyped
<1>7. /\ chain' \in [Procs -> [Records -> Seq(Jobs)]]
      /\ \A k \in Jobs \ {j} : patch[k].step = "loaded" =>
           /\ chain'[patch[k].proc][patch[k].rec] = chain[patch[k].proc][patch[k].rec]
           /\ ~(patch[k].proc = patch[j].proc /\ patch[k].rec = patch[j].rec)
  BY <1>1, <1>2, LeavesLine
<1>8. /\ over \in Over
      /\ over' = [since |-> [o \in Jobs \cup Procs |-> IF Behind(o, j) THEN over.since[o] \cup {j} ELSE over.since[o]],
                  gone |-> over.gone \cup over.since[j]]
  BY DEF WriteRecord, RegistryInv, LegacyInv, RegistryTyped
<1>9. /\ over' \in Over /\ over'.gone = over.gone \cup over.since[j]
      /\ \A o \in Jobs \cup Procs : over'.since[o] = IF Behind(o, j) THEN over.since[o] \cup {j} ELSE over.since[o]
  <2>1. [o \in Jobs \cup Procs |-> IF Behind(o, j) THEN over.since[o] \cup {j} ELSE over.since[o]]
          \in [Jobs \cup Procs -> SUBSET Jobs]
    BY <1>8 DEF Over
  <2> QED
    BY <1>8, <2>1 DEF Over
<1>10. RegistryTyped' /\ LegacyKept' /\ SplitKnows'
  BY <1>2, <1>4, <1>5, <1>6, <1>7, <1>9 DEF RegistryInv, LegacyInv, RegistryTyped, LegacyKept, SplitKnows
<1>11. OfThePlan'
  BY <1>1, <1>2, <1>3, <1>5 DEF RegistryInv, OfThePlan
<1>12. \A k \in Jobs : \A t : Settled(k, t)' => Settled(k, t) \/ (k = j /\ t = r)
  BY <1>3, <1>5 DEF Settled
<1>13. SplitMisses'
  <2>1. ASSUME NEW q \in Procs, migration[q].rec # Null, NEW k \in Jobs, Settled(k, migration[q].rec)'
        PROVE  k \in over'.since[q] \cup over'.gone
    <3>1. CASE Settled(k, migration[q].rec)
      BY <1>9, <2>1, <3>1 DEF RegistryInv, SplitMisses
    <3>2. CASE k = j /\ migration[q].rec = r
      BY <1>9, <3>2 DEF Behind
    <3> QED
      BY <1>2, <1>12, <2>1, <3>1, <3>2 DEF Settled
  <2> QED
    BY <1>2, <2>1 DEF SplitMisses, Settled
<1>14. InLine'
  <2>1. ASSUME NEW k \in Jobs \ {j}, patch[k].step = "loaded"
        PROVE  record'[patch[k].rec] # Null /\ IsFirst(k, chain'[patch[k].proc][patch[k].rec])
    <3>1. patch[k].rec \in Records /\ IsFirst(k, chain[patch[k].proc][patch[k].rec]) /\ record[patch[k].rec] # Null
      BY <2>1 DEF RegistryInv, InLine, OfThePlan
    <3> QED
      BY <1>4, <1>6, <1>7, <2>1, <3>1 DEF IsFirst
  <2>2. ASSUME NEW k \in Jobs \ {j}, patch[k].step = "loaded", NEW i \in Jobs, Settled(i, patch[k].rec)'
        PROVE  i \in patch[k].cur.patches \cup over'.since[k] \cup over'.gone
    <3>1. CASE Settled(i, patch[k].rec)
      BY <1>9, <2>2, <3>1 DEF RegistryInv, InLine
    <3>2. CASE i = j /\ patch[k].rec = r
      <4>1. patch[k].proc # p
        BY <1>7, <2>2, <3>2
      <4> QED
        BY <1>9, <2>2, <3>2, <4>1 DEF Behind
    <3>3. patch'[k] = patch[k]
      BY <1>5, <2>2
    <3> QED
      BY <1>12, <2>2, <3>1, <3>2, <3>3 DEF Settled
  <2>3. ASSUME NEW k \in Jobs, patch'[k].step \in {"inline", "loaded"} PROVE k # j /\ patch'[k] = patch[k]
    BY <1>3, <1>5, <2>3
  <2>4. \A k \in Jobs : patch'[k].step \in {"inline", "loaded"} => migration'[patch'[k].proc].step = "done"
    BY <1>2, <2>3 DEF RegistryInv, InLine
  <2>5. ASSUME NEW k \in Jobs, patch'[k].step = "loaded"
        PROVE  /\ IsFirst(k, chain'[patch'[k].proc][patch'[k].rec])
               /\ patch'[k].cur \in Record /\ record'[patch'[k].rec] # Null
               /\ \A i \in Jobs : Settled(i, patch[k].rec)' =>
                    i \in patch'[k].cur.patches \cup over'.since[k] \cup over'.gone
    <3>1. k # j /\ patch'[k] = patch[k] /\ patch[k].step = "loaded" /\ patch[k].cur \in Record
      BY <2>3, <2>5 DEF RegistryInv, InLine
    <3> QED
      BY <2>1, <2>2, <3>1 DEF Settled
  <2> QED
    BY <2>4, <2>5 DEF InLine, IsFirst, Settled
<1>15. ASSUME NEW k \in Jobs, patch'[k].step = "settled"
       PROVE  /\ record'[patch'[k].rec] # Null
              /\ k \notin over'.gone => k \in record'[patch'[k].rec].patches
  <2>1. CASE k = j
    BY <1>1, <1>3, <1>4, <1>5, <1>6, <2>1
  <2>2. CASE k # j
    <3>1. patch[k].step = "settled" /\ patch[k].rec \in Records /\ patch'[k].rec = patch[k].rec
      BY <1>5, <1>15, <2>2 DEF RegistryInv, OfThePlan
    <3>2. record[patch[k].rec] # Null /\ (k \notin over.gone => k \in record[patch[k].rec].patches)
      BY <3>1 DEF RegistryInv, PatchesKept
    <3>3. patch[k].rec = r => k \in patch[j].cur.patches \cup over.since[j] \cup over.gone
      BY <1>1, <3>1 DEF RegistryInv, InLine, Settled
    <3> QED
      BY <1>1, <1>4, <1>6, <1>9, <3>1, <3>2, <3>3
  <2> QED
    BY <2>1, <2>2
<1> QED
  BY <1>10, <1>11, <1>13, <1>14, <1>15 DEF RegistryInv, LegacyInv, PatchesKept

LEMMA CrashClerkKeeps ==
  ASSUME RegistryInv, NEW p \in Procs, CrashClerk(p)
  PROVE  RegistryInv'
<1> DEFINE Lost(j) == patch[j].proc = p /\ patch[j].step \in {"called", "inline", "loaded"}
<1>1. /\ UNCHANGED <<plan, record, legacy, now, over>>
      /\ migration' = [migration EXCEPT ![p] = NotMigrated]
      /\ chain' = [chain EXCEPT ![p] = [r \in Records |-> <<>>]]
      /\ patch' = [j \in Jobs |-> IF Lost(j) THEN [patch[j] EXCEPT !.step = "lost", !.cur = Null] ELSE patch[j]]
  BY DEF CrashClerk, Dies
<1> HIDE DEF Lost
<1>2. NotMigrated \in Migration /\ NotMigrated.step = "none" /\ NotMigrated.rec = Null
  BY DEF NotMigrated, Migration
<1>3. /\ migration' \in [Procs -> Migration] /\ migration'[p] = NotMigrated
      /\ \A q \in Procs \ {p} : migration'[q] = migration[q]
  BY <1>1, <1>2, MigrationGoesOn DEF RegistryInv, LegacyInv
<1>4. chain' \in [Procs -> [Records -> Seq(Jobs)]] /\ \A q \in Procs \ {p} : chain'[q] = chain[q]
  <2>1. [r \in Records |-> <<>>] \in [Records -> Seq(Jobs)]
    OBVIOUS
  <2> QED
    BY <1>1, <2>1 DEF RegistryInv, LegacyInv, RegistryTyped
<1>5. /\ patch' \in [Jobs -> Patch]
      /\ \A j \in Jobs :
           /\ patch'[j].proc = patch[j].proc /\ patch'[j].rec = patch[j].rec
           /\ IF Lost(j) THEN patch'[j].step = "lost" /\ patch[j].step # "none" ELSE patch'[j] = patch[j]
  <2>1. ASSUME NEW j \in Jobs
        PROVE  /\ patch'[j] \in Patch /\ patch'[j].proc = patch[j].proc /\ patch'[j].rec = patch[j].rec
               /\ IF Lost(j) THEN patch'[j].step = "lost" /\ patch[j].step # "none" ELSE patch'[j] = patch[j]
    <3>1. patch[j] \in Patch
      BY DEF RegistryInv, LegacyInv, RegistryTyped
    <3>2. CASE Lost(j)
      <4>1. patch'[j] = [patch[j] EXCEPT !.step = "lost", !.cur = Null] /\ patch[j].step # "none"
        BY <1>1, <3>2 DEF Lost
      <4> QED
        BY <3>1, <3>2, <4>1 DEF Patch
    <3>3. CASE ~Lost(j)
      BY <1>1, <3>1, <3>3
    <3> QED
      BY <3>2, <3>3
  <2>2. DOMAIN patch' = Jobs /\ patch' = [j \in Jobs |-> patch'[j]]
    BY <1>1
  <2> QED
    BY <2>1, <2>2
<1>6. RegistryTyped' /\ LegacyKept' /\ SplitKnows'
  BY <1>1, <1>2, <1>3, <1>4, <1>5 DEF RegistryInv, LegacyInv, RegistryTyped, LegacyKept, SplitKnows
<1>7. OfThePlan'
  BY <1>1, <1>2, <1>3, <1>5 DEF RegistryInv, OfThePlan
<1>8. \A j \in Jobs : \A r : Settled(j, r)' => Settled(j, r)
  BY <1>5 DEF Settled
<1>9. SplitMisses'
  <2>1. ASSUME NEW q \in Procs, migration'[q].rec # Null PROVE migration'[q] = migration[q]
    BY <1>2, <1>3, <2>1
  <2> QED
    BY <1>1, <1>8, <2>1 DEF RegistryInv, SplitMisses, Settled
<1>10. InLine'
  <2>1. ASSUME NEW j \in Jobs, patch'[j].step \in {"inline", "loaded"}
        PROVE  patch'[j] = patch[j] /\ patch[j].proc \in Procs \ {p}
    BY <1>5, <2>1, LocalAssumption DEF Lost, RegistryInv, OfThePlan, LegacyInv, RegistryTyped
  <2>2. ASSUME NEW j \in Jobs, patch'[j].step = "loaded"
        PROVE  /\ IsFirst(j, chain'[patch'[j].proc][patch'[j].rec])
               /\ patch'[j].cur \in Record /\ record'[patch'[j].rec] # Null
               /\ \A k \in Jobs : Settled(k, patch[j].rec)' =>
                    k \in patch'[j].cur.patches \cup over'.since[j] \cup over'.gone
    <3>1. patch'[j] = patch[j] /\ patch[j].proc \in Procs \ {p} /\ patch[j].step = "loaded"
      BY <2>1, <2>2
    <3>2. chain'[patch'[j].proc] = chain[patch[j].proc] /\ record' = record /\ over' = over
      BY <1>1, <1>4, <3>1
    <3>3. /\ IsFirst(j, chain[patch[j].proc][patch[j].rec]) /\ patch[j].cur \in Record /\ record[patch[j].rec] # Null
          /\ \A k \in Jobs : Settled(k, patch[j].rec) => k \in patch[j].cur.patches \cup over.since[j] \cup over.gone
      BY <3>1 DEF RegistryInv, InLine
    <3>4. \A k \in Jobs : Settled(k, patch[j].rec)' => Settled(k, patch[j].rec)
      BY <1>5, <3>1 DEF Settled
    <3> QED
      BY <3>1, <3>2, <3>3, <3>4
  <2>3. \A j \in Jobs : patch'[j].step \in {"inline", "loaded"} => migration'[patch'[j].proc].step = "done"
    BY <1>3, <2>1 DEF RegistryInv, InLine
  <2> QED
    BY <2>2, <2>3 DEF InLine, Settled
<1>11. PatchesKept' /\ \A j \in Jobs : patch'[j].step = "settled" => record'[patch'[j].rec] # Null
  <2>1. ASSUME NEW j \in Jobs, patch'[j].step = "settled" PROVE patch[j].step = "settled" /\ patch'[j].rec = patch[j].rec
    BY <1>5, <2>1
  <2> QED
    BY <1>1, <2>1 DEF RegistryInv, PatchesKept
<1> QED
  BY <1>6, <1>7, <1>9, <1>10, <1>11 DEF RegistryInv, LegacyInv

LEMMA RegistryRests == RegistryInv /\ UNCHANGED <<plan, record, legacy, migration, chain, patch, now, over>> => RegistryInv'
BY DEF RegistryInv, LegacyInv, RegistryTyped, SplitKnows, LegacyKept, OfThePlan, SplitMisses, InLine, IsFirst, Settled,
       PatchesKept

\* The steps that the registry has no part in.
LEMMA RegistryApart ==
  /\ \A a \in Actors : AskHead(a) \/ ReadLastLine(a) \/ CacheHead(a) \/ AppendEntry(a) => UNCHANGED <<plan, registry>>
  /\ \A a \in Actors \cup {Reader} : FlushMore(a) => UNCHANGED <<plan, registry>>
  /\ Timer \/ Write \/ AskTail \/ TailOn \/ CrashEngine => UNCHANGED <<plan, registry>>
  /\ \A p \in Procs : Claim(p) \/ ReadClaim(p) \/ RemoveClaim(p) \/ CrashDrain(p) => UNCHANGED <<plan, registry>>
  /\ \A m \in Letters : OpenBox(m) \/ WriteLetter(m) => UNCHANGED <<plan, registry>>
<1>1. \A a \in Actors : AskHead(a) \/ ReadLastLine(a) \/ CacheHead(a) \/ AppendEntry(a) => UNCHANGED <<plan, registry>>
  BY DEF AskHead, ReadLastLine, CacheHead, AppendEntry
<1>2. \A a \in Actors \cup {Reader} : FlushMore(a) => UNCHANGED <<plan, registry>>
  BY DEF FlushMore
<1>3. Timer \/ Write \/ AskTail \/ TailOn \/ CrashEngine => UNCHANGED <<plan, registry>>
  BY DEF Timer, Write, AskTail, TailOn, CrashEngine, Dies
<1>4. \A p \in Procs : Claim(p) \/ ReadClaim(p) \/ RemoveClaim(p) \/ CrashDrain(p) => UNCHANGED <<plan, registry>>
  BY DEF Claim, ReadClaim, RemoveClaim, CrashDrain, Elsewhere, Dies
<1>5. \A m \in Letters : OpenBox(m) \/ WriteLetter(m) => UNCHANGED <<plan, registry>>
  BY DEF OpenBox, WriteLetter, Elsewhere
<1> QED
  BY <1>1, <1>2, <1>3, <1>4, <1>5

LEMMA RegistryKeeps ==
  ASSUME RegistryInv, [Next]_OfFiles
  PROVE  RegistryInv'
<1>1. ASSUME UNCHANGED <<plan, registry>> PROVE RegistryInv'
  BY <1>1, RegistryRests DEF registry
<1>2. ASSUME NEW p \in Procs, StartListing(p) \/ CacheListing(p) \/ ExpireListing(p) \/ \E r \in Records : ListRecord(p, r)
      PROVE  RegistryInv'
  BY <1>2, RegistryRests DEF StartListing, CacheListing, ExpireListing, ListRecord, Shared
<1>3. ASSUME NEW p \in Procs,
             \/ Migrate(p) \/ ReadLegacy(p) \/ RenameLegacy(p) \/ WriteSplit(p) \/ CrashClerk(p)
             \/ \E r \in Records : SplitRecord(p, r) \/ \E j \in Jobs : CallPatch(p, j, r)
      PROVE  RegistryInv'
  BY <1>3, MigrateKeeps, WriteSplitKeeps, CrashClerkKeeps, SplitRecordKeeps, CallPatchKeeps
<1>4. ASSUME NEW j \in Jobs, GetInLine(j) \/ LoadRecord(j) \/ WriteRecord(j) PROVE RegistryInv'
  BY <1>4, GetInLineKeeps, LoadRecordKeeps, WriteRecordKeeps
<1>5. CASE UNCHANGED OfFiles
  BY <1>1, <1>5 DEF OfFiles, vars
<1> QED
  BY <1>1, <1>2, <1>3, <1>4, <1>5, RegistryApart DEF Next

-----------------------------------------------------------------------------
(* The mailbox.                                                            *)

Letter == [step : {"none", "open", "posted"}, file : Nat, got : Nat]
Drainer == [step : {"rest", "claimed", "read"}, file : Nat, got : Seq(Letters) \cup {Null}]

MailboxTyped ==
  /\ plan \in Plans
  /\ inode \in Seq(Seq(Letters) \cup {Null}) /\ live \in 0..Len(inode)
  /\ letter \in [Letters -> Letter] /\ late \in SUBSET Letters
  /\ drain \in [Procs -> Drainer]

There(box, i) == i \in 1..Len(box) /\ box[i] # Null

\* What a drain got of a file it read is what is there, but for letters that came late.
ReadsAll(got, f) ==
  /\ got \in Seq(Letters)
  /\ \A m \in Letters : m \in ToSet(got) <=> m \in ToSet(inode[f]) /\ m \notin late

\* A claimed file is there, is not the mailbox, and is of one process; until it is read no letter was late for it.
ClaimsApart ==
  /\ live # 0 => There(inode, live)
  /\ \A p \in Procs : drain[p].step # "rest" =>
       /\ There(inode, drain[p].file) /\ drain[p].file # live
       /\ drain[p].step = "read" => ReadsAll(drain[p].got, drain[p].file)
       /\ drain[p].step = "claimed" => \A m \in late : letter[m].file # drain[p].file
       /\ \A q \in Procs : drain[q].step # "rest" /\ drain[q].file = drain[p].file => p = q

\* A letter in a file was posted to that file, and not handed out; one that was late is not in the mailbox.
LettersInPlace ==
  /\ \A m \in Letters : letter[m].step = "open" => letter[m].file \in 1..Len(inode)
  /\ \A m \in Letters : letter[m].step # "posted" => letter[m].got = 0
  /\ \A m \in Letters : letter[m].got <= 1
  /\ \A m \in late : letter[m].step = "posted" /\ letter[m].got = 0 /\ letter[m].file # live /\ letter[m].file \in 1..Len(inode)
  /\ \A m \in Letters : letter[m].step = "posted" /\ letter[m].got = 0 /\ m \notin late =>
       There(inode, letter[m].file) /\ m \in ToSet(inode[letter[m].file])
  /\ \A i \in 1..Len(inode) : inode[i] # Null => \A m \in ToSet(inode[i]) :
       letter[m].step = "posted" /\ letter[m].got = 0 /\ letter[m].file = i

MailboxInv == MailboxTyped /\ ClaimsApart /\ LettersInPlace

LEMMA MailboxAtFirst == Init => MailboxInv
<1> SUFFICES ASSUME Init PROVE MailboxInv
  OBVIOUS
<1>1. plan \in Plans /\ inode = <<>> /\ live = 0 /\ late = {}
  BY DEF Init
<1>2. letter \in [Letters -> Letter] /\ \A m \in Letters : letter[m].step = "none" /\ letter[m].got = 0
  BY DEF Init, Letter
<1>3. drain \in [Procs -> Drainer] /\ \A p \in Procs : drain[p].step = "rest"
  <2>1. <<>> \in Seq(Letters)
    OBVIOUS
  <2> QED
    BY <2>1 DEF Init, Drainer
<1>4. MailboxTyped
  BY <1>1, <1>2, <1>3 DEF MailboxTyped
<1> QED
  BY <1>1, <1>2, <1>3, <1>4 DEF MailboxInv, ClaimsApart, LettersInPlace

LEMMA InFile == \A s \in Seq(Letters) : ToSet(s) \subseteq Letters
BY DEF ToSet

LEMMA OneMore ==
  ASSUME NEW s \in Seq(Letters), NEW m \in Letters
  PROVE  Append(s, m) \in Seq(Letters) /\ ToSet(Append(s, m)) = ToSet(s) \cup {m}
<1>1. /\ Append(s, m) \in Seq(Letters) /\ DOMAIN Append(s, m) = 1..Len(s) + 1 /\ DOMAIN s = 1..Len(s) /\ Len(s) \in Nat
      /\ Append(s, m)[Len(s) + 1] = m /\ \A i \in 1..Len(s) : Append(s, m)[i] = s[i]
  OBVIOUS
<1>2. \A x : x \in ToSet(Append(s, m)) <=> x \in ToSet(s) \/ x = m
  BY <1>1 DEF ToSet
<1> QED
  BY <1>1, <1>2

LEMMA OpenBoxKeeps ==
  ASSUME MailboxInv, NEW m \in Letters, OpenBox(m)
  PROVE  MailboxInv'
<1>1. /\ inode \in Seq(Seq(Letters) \cup {Null}) /\ live \in 0..Len(inode) /\ letter \in [Letters -> Letter]
      /\ letter[m].step = "none" /\ UNCHANGED <<plan, drain, late>>
      /\ letter' = [letter EXCEPT ![m].step = "open", ![m].file = live']
  BY DEF MailboxInv, MailboxTyped, OpenBox, Elsewhere
<1>2. /\ inode' \in Seq(Seq(Letters) \cup {Null}) /\ live' \in 1..Len(inode') /\ There(inode', live') /\ Len(inode') >= Len(inode)
      /\ \A i \in 1..Len(inode) : inode'[i] = inode[i]
      /\ \A i \in 1..Len(inode') : i \notin 1..Len(inode) => inode'[i] = <<>>
      /\ live # 0 => live' = live
      /\ live = 0 => live' = Len(inode) + 1
  <2>1. CASE live = 0
    <3>1. inode' = Append(inode, <<>>) /\ live' = Len(inode) + 1
      BY <2>1 DEF OpenBox
    <3>2. <<>> \in Seq(Letters)
      OBVIOUS
    <3>3. <<>> # Null
      BY <3>2, NullAssumption
    <3> QED
      BY <1>1, <2>1, <3>1, <3>2, <3>3 DEF There
  <2>2. CASE live # 0
    <3>1. UNCHANGED <<inode, live>>
      BY <2>2 DEF OpenBox
    <3> QED
      BY <1>1, <2>2, <3>1 DEF There, MailboxInv, ClaimsApart
  <2> QED
    BY <2>1, <2>2
<1>3. /\ letter' \in [Letters -> Letter] /\ letter'[m].step = "open" /\ letter'[m].file = live'
      /\ letter'[m].got = letter[m].got
      /\ \A k \in Letters \ {m} : letter'[k] = letter[k]
  <2> DEFINE x == [letter[m] EXCEPT !.step = "open", !.file = live']
  <2>1. live' \in Nat /\ letter[m] \in Letter
    BY <1>1, <1>2
  <2>2. x \in Letter /\ x.step = "open" /\ x.file = live' /\ x.got = letter[m].got
    BY <2>1 DEF Letter
  <2>3. letter' = [letter EXCEPT ![m] = x]
    BY <1>1
  <2> HIDE DEF x
  <2> QED
    BY <1>1, <2>2, <2>3
<1>4. MailboxTyped'
  BY <1>1, <1>2, <1>3 DEF MailboxInv, MailboxTyped
<1>5. \A k \in late : k # m /\ letter'[k] = letter[k]
  BY <1>1, <1>3 DEF MailboxInv, MailboxTyped, LettersInPlace
<1>6. ClaimsApart'
  <2>1. ASSUME NEW p \in Procs, drain[p].step # "rest"
        PROVE  There(inode', drain[p].file) /\ drain[p].file # live' /\ inode'[drain[p].file] = inode[drain[p].file]
    <3>1. There(inode, drain[p].file) /\ drain[p].file # live
      BY <2>1 DEF MailboxInv, ClaimsApart
    <3> QED
      BY <1>1, <1>2, <3>1 DEF There
  <2>2. ASSUME NEW p \in Procs, drain[p].step = "read" PROVE ReadsAll(drain[p].got, drain[p].file)'
    BY <1>1, <2>1, <2>2 DEF MailboxInv, ClaimsApart, ReadsAll
  <2>3. ASSUME NEW p \in Procs, drain[p].step = "claimed", NEW k \in late PROVE letter'[k].file # drain[p].file
    BY <1>5, <2>3 DEF MailboxInv, ClaimsApart
  <2>4. ASSUME NEW p \in Procs, drain'[p].step # "rest"
        PROVE  /\ There(inode', drain'[p].file) /\ drain'[p].file # live'
               /\ drain'[p].step = "read" => ReadsAll(drain[p].got, drain[p].file)'
               /\ drain'[p].step = "claimed" => \A k \in late' : letter'[k].file # drain'[p].file
               /\ \A q \in Procs : drain'[q].step # "rest" /\ drain'[q].file = drain'[p].file => p = q
    <3>1. drain' = drain /\ late' = late /\ drain[p].step # "rest"
      BY <1>1, <2>4
    <3>2. \A q \in Procs : drain[q].step # "rest" /\ drain[q].file = drain[p].file => p = q
      BY <3>1 DEF MailboxInv, ClaimsApart
    <3> QED
      BY <2>1, <2>2, <2>3, <3>1, <3>2
  <2> QED
    BY <1>2, <2>4 DEF ClaimsApart
<1>7. LettersInPlace'
  <2>1. \A k \in Letters : letter'[k].step = "open" => letter'[k].file \in 1..Len(inode')
    BY <1>1, <1>2, <1>3 DEF MailboxInv, LettersInPlace
  <2>2. /\ \A k \in Letters : letter'[k].step # "posted" => letter'[k].got = 0
        /\ \A k \in Letters : letter'[k].got <= 1
    BY <1>1, <1>3 DEF MailboxInv, LettersInPlace
  <2>3. ASSUME NEW k \in Letters, letter'[k].step = "posted", letter'[k].got = 0, k \notin late
        PROVE  There(inode', letter'[k].file) /\ k \in ToSet(inode'[letter'[k].file])
    <3>1. letter'[k] = letter[k]
      BY <1>3, <2>3
    <3>2. There(inode, letter[k].file) /\ k \in ToSet(inode[letter[k].file])
      BY <2>3, <3>1 DEF MailboxInv, LettersInPlace
    <3>3. letter[k].file \in 1..Len(inode) /\ inode[letter[k].file] # Null
      BY <3>2 DEF There
    <3>4. letter[k].file \in 1..Len(inode') /\ inode'[letter[k].file] = inode[letter[k].file]
      BY <1>1, <1>2, <3>3
    <3> QED
      BY <3>1, <3>2, <3>3, <3>4 DEF There
  <2>4. ASSUME NEW i \in 1..Len(inode'), inode'[i] # Null, NEW k \in ToSet(inode'[i])
        PROVE  letter'[k].step = "posted" /\ letter'[k].got = 0 /\ letter'[k].file = i
    <3>1. i \in 1..Len(inode)
      BY <1>2, <2>4 DEF ToSet
    <3>2. inode'[i] = inode[i] /\ inode[i] \in Seq(Letters)
      BY <1>1, <1>2, <2>4, <3>1
    <3>3. k \in Letters
      BY <2>4, <3>2, InFile
    <3>4. letter[k].step = "posted" /\ letter[k].got = 0 /\ letter[k].file = i
      BY <2>4, <3>1, <3>2 DEF MailboxInv, LettersInPlace
    <3> QED
      BY <1>1, <1>3, <3>3, <3>4
  <2>5. ASSUME NEW k \in late
        PROVE  letter'[k].step = "posted" /\ letter'[k].got = 0 /\ letter'[k].file # live' /\ letter'[k].file \in 1..Len(inode')
    <3>1. /\ letter[k].step = "posted" /\ letter[k].got = 0 /\ letter[k].file # live /\ letter[k].file \in 1..Len(inode)
          /\ letter'[k] = letter[k]
      BY <1>5, <2>5 DEF MailboxInv, LettersInPlace
    <3> QED
      BY <1>1, <1>2, <3>1
  <2> QED
    BY <1>1, <2>1, <2>2, <2>3, <2>4, <2>5 DEF LettersInPlace
<1> QED
  BY <1>4, <1>6, <1>7 DEF MailboxInv

LEMMA WriteLetterKeeps ==
  ASSUME MailboxInv, NEW m \in Letters, WriteLetter(m)
  PROVE  MailboxInv'
<1> DEFINE f == letter[m].file
           x == [letter[m] EXCEPT !.step = "posted"]
<1>1. /\ inode \in Seq(Seq(Letters) \cup {Null}) /\ letter \in [Letters -> Letter] /\ letter[m] \in Letter
      /\ f \in 1..Len(inode) /\ letter[m].step = "open" /\ letter[m].got = 0 /\ UNCHANGED <<plan, live, drain>>
      /\ inode' = [inode EXCEPT ![f] = IF @ = Null THEN Null ELSE Append(@, m)]
      /\ letter' = [letter EXCEPT ![m] = x]
      /\ late \in SUBSET Letters /\ m \notin late /\ late' = IF WasRead(f) THEN late \cup {m} ELSE late
  BY DEF MailboxInv, MailboxTyped, ClaimsApart, LettersInPlace, WriteLetter, Elsewhere
<1>2. x \in Letter /\ x.step = "posted" /\ x.file = f /\ x.got = 0
  BY <1>1 DEF Letter
<1> HIDE DEF x
<1>3. /\ WasRead(f) => f # live /\ \A p \in Procs : drain[p].step = "claimed" => drain[p].file # f
      /\ inode[f] = Null => WasRead(f)
  BY <1>1 DEF WasRead, MailboxInv, ClaimsApart, There
<1>4. \A p \in Procs : drain[p].step = "read" /\ drain[p].file = f => WasRead(f)
  BY DEF WasRead
<1> HIDE DEF f
<1>5. inode[f] \in Seq(Letters) \cup {Null} /\ (inode[f] # Null => inode[f] \in Seq(Letters))
  BY <1>1
<1>6. ASSUME inode[f] # Null
      PROVE  Append(inode[f], m) \in Seq(Letters) /\ ToSet(Append(inode[f], m)) = ToSet(inode[f]) \cup {m} /\ Append(inode[f], m) # Null
  <2>1. Append(inode[f], m) \in Seq(Letters) /\ ToSet(Append(inode[f], m)) = ToSet(inode[f]) \cup {m}
    BY <1>5, <1>6, OneMore
  <2> QED
    BY <2>1, NullAssumption
<1>7. /\ inode' \in Seq(Seq(Letters) \cup {Null}) /\ Len(inode') = Len(inode)
      /\ inode'[f] = IF inode[f] = Null THEN Null ELSE Append(inode[f], m)
      /\ \A i \in 1..Len(inode) : i # f => inode'[i] = inode[i]
  BY <1>1, <1>5, <1>6
<1>8. letter' \in [Letters -> Letter] /\ letter'[m] = x /\ \A k \in Letters \ {m} : letter'[k] = letter[k]
  BY <1>1, <1>2
<1>9. \A i : There(inode, i) <=> There(inode', i)
  BY <1>1, <1>6, <1>7 DEF There
<1>10. MailboxTyped'
  BY <1>1, <1>7, <1>8 DEF MailboxInv, MailboxTyped
<1>11. ASSUME NEW i \in 1..Len(inode), inode[i] # Null
       PROVE  ToSet(inode'[i]) = IF i = f THEN ToSet(inode[i]) \cup {m} ELSE ToSet(inode[i])
  <2>1. CASE i = f
    <3>1. inode'[i] = Append(inode[f], m)
      BY <1>7, <1>11, <2>1
    <3> QED
      BY <1>6, <1>11, <2>1, <3>1
  <2>2. CASE i # f
    <3>1. inode'[i] = inode[i]
      BY <1>7, <2>2
    <3> QED
      BY <2>2, <3>1
  <2> QED
    BY <2>1, <2>2
<1>12. ClaimsApart'
  <2>1. ASSUME NEW p \in Procs, drain[p].step = "read" PROVE ReadsAll(drain[p].got, drain[p].file)'
    <3>1. ReadsAll(drain[p].got, drain[p].file) /\ There(inode, drain[p].file)
      BY <2>1 DEF MailboxInv, ClaimsApart
    <3>2. m \notin ToSet(inode[drain[p].file])
      BY <1>1, <3>1 DEF MailboxInv, LettersInPlace, There
    <3>3. CASE drain[p].file = f
      <4>1. late' = late \cup {m} /\ ToSet(inode'[f]) = ToSet(inode[f]) \cup {m}
        BY <1>1, <1>4, <1>11, <2>1, <3>1, <3>3 DEF There
      <4> QED
        BY <1>1, <3>1, <3>2, <3>3, <4>1 DEF ReadsAll
    <3>4. CASE drain[p].file # f
      <4>1. ToSet(inode'[drain[p].file]) = ToSet(inode[drain[p].file]) /\ \A k \in Letters \ {m} : k \in late' <=> k \in late
        BY <1>1, <1>11, <3>1, <3>4 DEF There
      <4> QED
        BY <1>1, <3>1, <3>2, <4>1 DEF ReadsAll
    <3> QED
      BY <3>3, <3>4
  <2>2. ASSUME NEW p \in Procs, drain[p].step = "claimed", NEW k \in late' PROVE letter'[k].file # drain[p].file
    <3>1. CASE k = m
      BY <1>1, <1>2, <1>3, <1>8, <2>2, <3>1
    <3>2. CASE k # m
      BY <1>1, <1>8, <2>2, <3>2 DEF MailboxInv, ClaimsApart
    <3> QED
      BY <3>1, <3>2
  <2> QED
    BY <1>1, <1>9, <2>1, <2>2 DEF MailboxInv, ClaimsApart
<1>13. LettersInPlace'
  <2>1. \A k \in Letters : letter'[k].step = "open" => letter'[k].file \in 1..Len(inode')
    BY <1>2, <1>7, <1>8 DEF MailboxInv, LettersInPlace
  <2>2. /\ \A k \in Letters : letter'[k].step # "posted" => letter'[k].got = 0
        /\ \A k \in Letters : letter'[k].got <= 1
    BY <1>2, <1>8 DEF MailboxInv, LettersInPlace
  <2>3. ASSUME NEW k \in Letters, letter'[k].step = "posted", letter'[k].got = 0, k \notin late'
        PROVE  There(inode', letter'[k].file) /\ k \in ToSet(inode'[letter'[k].file])
    <3>1. CASE k = m
      <4>1. inode[f] # Null
        BY <1>1, <1>3, <2>3, <3>1
      <4>2. ToSet(inode'[f]) = ToSet(inode[f]) \cup {m}
        BY <1>1, <1>11, <4>1
      <4>3. There(inode', f)
        BY <1>1, <1>9, <4>1 DEF There
      <4>4. letter'[k].file = f
        BY <1>2, <1>8, <3>1
      <4> QED
        BY <3>1, <4>2, <4>3, <4>4
    <3>2. CASE k # m
      <4>1. letter'[k] = letter[k] /\ There(inode, letter[k].file) /\ k \in ToSet(inode[letter[k].file])
        BY <1>1, <1>8, <2>3, <3>2 DEF MailboxInv, LettersInPlace
      <4> QED
        BY <1>9, <1>11, <4>1 DEF There
    <3> QED
      BY <3>1, <3>2
  <2>4. ASSUME NEW i \in 1..Len(inode'), inode'[i] # Null, NEW k \in ToSet(inode'[i])
        PROVE  letter'[k].step = "posted" /\ letter'[k].got = 0 /\ letter'[k].file = i
    <3>1. i \in 1..Len(inode) /\ inode[i] # Null /\ inode[i] \in Seq(Letters)
      BY <1>1, <1>7, <1>9, <2>4 DEF There
    <3>2. CASE i = f /\ k = m
      BY <1>2, <1>8, <3>2
    <3>3. CASE ~(i = f /\ k = m)
      <4>1. k \in ToSet(inode[i])
        BY <1>11, <2>4, <3>1, <3>3
      <4>2. k \in Letters /\ letter[k].step = "posted" /\ letter[k].got = 0 /\ letter[k].file = i
        BY <3>1, <4>1, InFile DEF MailboxInv, LettersInPlace
      <4> QED
        BY <1>1, <1>8, <4>2
    <3> QED
      BY <3>2, <3>3
  <2>5. ASSUME NEW k \in late'
        PROVE  letter'[k].step = "posted" /\ letter'[k].got = 0 /\ letter'[k].file # live' /\ letter'[k].file \in 1..Len(inode')
    <3>1. CASE k = m
      BY <1>1, <1>2, <1>3, <1>7, <1>8, <2>5, <3>1
    <3>2. CASE k # m
      BY <1>1, <1>7, <1>8, <2>5, <3>2 DEF MailboxInv, LettersInPlace
    <3> QED
      BY <3>1, <3>2
  <2> QED
    BY <2>1, <2>2, <2>3, <2>4, <2>5 DEF LettersInPlace
<1> QED
  BY <1>10, <1>12, <1>13 DEF MailboxInv

\* A step of one drain that writes no file and hands out nothing.
LEMMA DrainGoesOn ==
  ASSUME MailboxInv, NEW p \in Procs, NEW x \in Drainer, drain' = [drain EXCEPT ![p] = x],
         UNCHANGED <<plan, inode, letter, late>>, live' \in {0, live},
         x.step # "rest" =>
           /\ There(inode, x.file) /\ x.file # live'
           /\ x.step = "read" => ReadsAll(x.got, x.file)
           /\ x.step = "claimed" => \A m \in late : letter[m].file # x.file
           /\ \A q \in Procs \ {p} : drain[q].step # "rest" => drain[q].file # x.file
  PROVE  MailboxInv'
<1>1. drain' \in [Procs -> Drainer] /\ drain'[p] = x /\ \A q \in Procs \ {p} : drain'[q] = drain[q]
  BY DEF MailboxInv, MailboxTyped
<1>2. MailboxTyped'
  BY <1>1 DEF MailboxInv, MailboxTyped
<1>3. ClaimsApart'
  <2>1. \A q \in Procs : drain[q].step # "rest" => drain[q].file # 0
    BY DEF MailboxInv, ClaimsApart, There
  <2>2. \A q \in Procs : drain[q].step # "rest" => drain[q].file # live'
    BY <2>1 DEF MailboxInv, ClaimsApart
  <2> QED
    BY <1>1, <2>2 DEF MailboxInv, ClaimsApart, ReadsAll
<1>4. LettersInPlace'
  BY DEF MailboxInv, LettersInPlace
<1> QED
  BY <1>2, <1>3, <1>4 DEF MailboxInv

LEMMA ClaimKeeps ==
  ASSUME MailboxInv, NEW p \in Procs, Claim(p) \/ ReadClaim(p) \/ CrashDrain(p)
  PROVE  MailboxInv'
<1>1. drain[p] \in Drainer /\ plan \in Plans /\ inode \in Seq(Seq(Letters) \cup {Null}) /\ live \in 0..Len(inode)
  BY DEF MailboxInv, MailboxTyped
<1>2. <<>> \in Seq(Letters)
  OBVIOUS
<1>3. CASE Claim(p)
  <2> DEFINE x == [step |-> "claimed", file |-> live, got |-> <<>>]
  <2>1. x \in Drainer /\ x.step = "claimed" /\ x.file = live
    BY <1>1, <1>2 DEF Drainer
  <2>2. /\ live # 0 /\ live' = 0 /\ UNCHANGED <<plan, inode, letter, late>> /\ drain' = [drain EXCEPT ![p] = x]
    BY <1>1, <1>3 DEF Claim, TakeName, Elsewhere
  <2>3. There(inode, live) /\ \A q \in Procs : drain[q].step # "rest" => drain[q].file # live
    BY <2>2 DEF MailboxInv, ClaimsApart
  <2>4. live # live' /\ \A m \in late : letter[m].file # live
    BY <2>2 DEF MailboxInv, LettersInPlace
  <2> HIDE DEF x
  <2> QED
    BY <2>1, <2>2, <2>3, <2>4, DrainGoesOn
<1>4. CASE ReadClaim(p)
  <2> DEFINE x == [drain[p] EXCEPT !.step = "read", !.got = inode[drain[p].file]]
  <2>1. /\ drain[p].step = "claimed" /\ UNCHANGED <<plan, inode, live, letter, late>> /\ drain' = [drain EXCEPT ![p] = x]
    BY <1>4 DEF ReadClaim, Elsewhere
  <2>2. /\ There(inode, drain[p].file) /\ drain[p].file # live
        /\ \A q \in Procs \ {p} : drain[q].step # "rest" => drain[q].file # drain[p].file
    BY <2>1 DEF MailboxInv, ClaimsApart
  <2>3. inode[drain[p].file] \in Seq(Letters) /\ ReadsAll(inode[drain[p].file], drain[p].file)
    <3>1. drain[p].file \in 1..Len(inode) /\ inode[drain[p].file] \in Seq(Letters)
      BY <1>1, <2>2 DEF There
    <3>2. \A m \in late : letter[m].file # drain[p].file
      BY <2>1 DEF MailboxInv, ClaimsApart
    <3>3. \A m \in ToSet(inode[drain[p].file]) : letter[m].file = drain[p].file
      BY <2>2, <3>1 DEF MailboxInv, LettersInPlace, There
    <3> QED
      BY <3>1, <3>2, <3>3 DEF ReadsAll
  <2>4. x \in Drainer /\ x.step = "read" /\ x.file = drain[p].file /\ x.got = inode[drain[p].file]
    BY <1>1, <2>3 DEF Drainer
  <2> HIDE DEF x
  <2> QED
    BY <2>1, <2>2, <2>3, <2>4, DrainGoesOn
<1>5. CASE CrashDrain(p)
  <2> DEFINE x == [step |-> "rest", file |-> 0, got |-> <<>>]
  <2>1. x \in Drainer /\ x.step = "rest"
    BY <1>2 DEF Drainer
  <2>2. UNCHANGED <<plan, inode, live, letter, late>> /\ drain' = [drain EXCEPT ![p] = x]
    BY <1>5 DEF CrashDrain, Dies
  <2> HIDE DEF x
  <2> QED
    BY <2>1, <2>2, DrainGoesOn
<1> QED
  BY <1>3, <1>4, <1>5

LEMMA RemoveClaimKeeps ==
  ASSUME MailboxInv, NEW p \in Procs, RemoveClaim(p)
  PROVE  MailboxInv'
<1> DEFINE f == drain[p].file
           x == [step |-> "rest", file |-> 0, got |-> <<>>]
           Got(m) == m \in ToSet(drain[p].got)
<1>1. /\ inode \in Seq(Seq(Letters) \cup {Null}) /\ letter \in [Letters -> Letter] /\ live \in 0..Len(inode)
      /\ f \in 1..Len(inode) /\ inode[f] # Null /\ f # live /\ ReadsAll(drain[p].got, f)
      /\ UNCHANGED <<plan, live, late>> /\ inode' = [inode EXCEPT ![f] = Null] /\ drain' = [drain EXCEPT ![p] = x]
      /\ letter' = [m \in Letters |-> IF Got(m) THEN [letter[m] EXCEPT !.got = @ + 1] ELSE letter[m]]
      /\ \A q \in Procs \ {p} : drain[q].step # "rest" => drain[q].file # f
  BY DEF MailboxInv, MailboxTyped, ClaimsApart, There, RemoveClaim, Elsewhere
<1>2. x \in Drainer /\ x.step = "rest"
  <2>1. <<>> \in Seq(Letters)
    OBVIOUS
  <2> QED
    BY <2>1 DEF Drainer
<1>3. inode[f] \in Seq(Letters) /\ \A m \in Letters : Got(m) <=> m \in ToSet(inode[f]) /\ m \notin late
  BY <1>1 DEF ReadsAll
<1>4. \A m \in Letters : Got(m) => letter[m].step = "posted" /\ letter[m].got = 0 /\ letter[m].file = f
  BY <1>1, <1>3 DEF MailboxInv, LettersInPlace
<1> HIDE DEF x, f, Got
<1>5. /\ inode' \in Seq(Seq(Letters) \cup {Null}) /\ Len(inode') = Len(inode) /\ inode'[f] = Null
      /\ \A i \in 1..Len(inode) : i # f => inode'[i] = inode[i]
  BY <1>1
<1>6. drain' \in [Procs -> Drainer] /\ drain'[p] = x /\ \A q \in Procs \ {p} : drain'[q] = drain[q]
  BY <1>1, <1>2 DEF MailboxInv, MailboxTyped
<1>7. /\ letter' \in [Letters -> Letter]
      /\ \A m \in Letters :
           /\ letter'[m].step = letter[m].step /\ letter'[m].file = letter[m].file
           /\ letter'[m].got = IF Got(m) THEN 1 ELSE letter[m].got
  <2>1. ASSUME NEW m \in Letters
        PROVE  /\ letter'[m] \in Letter /\ letter'[m].step = letter[m].step /\ letter'[m].file = letter[m].file
               /\ letter'[m].got = IF Got(m) THEN 1 ELSE letter[m].got
    <3>1. letter[m] \in Letter
      BY <1>1
    <3>2. CASE Got(m)
      <4>1. letter'[m] = [letter[m] EXCEPT !.got = @ + 1] /\ letter[m].got = 0
        BY <1>1, <1>4, <3>2
      <4> QED
        BY <3>1, <3>2, <4>1 DEF Letter
    <3>3. CASE ~Got(m)
      BY <1>1, <3>1, <3>3
    <3> QED
      BY <3>2, <3>3
  <2>2. letter' = [m \in Letters |-> letter'[m]]
    BY <1>1
  <2> QED
    BY <2>1, <2>2
<1>8. MailboxTyped'
  BY <1>1, <1>5, <1>6, <1>7 DEF MailboxInv, MailboxTyped
<1>9. \A i : There(inode, i) /\ i # f => There(inode', i) /\ inode'[i] = inode[i]
  BY <1>5 DEF There
<1>10. ClaimsApart'
  <2>1. live' # 0 => There(inode', live')
    BY <1>1, <1>9 DEF MailboxInv, ClaimsApart
  <2>2. ASSUME NEW q \in Procs, drain'[q].step # "rest"
        PROVE  /\ q # p /\ drain'[q] = drain[q] /\ drain[q].file # f /\ There(inode', drain[q].file)
               /\ inode'[drain[q].file] = inode[drain[q].file]
    <3>1. q # p /\ drain'[q] = drain[q] /\ drain[q].file # f
      BY <1>1, <1>2, <1>6, <2>2
    <3> QED
      BY <1>9, <2>2, <3>1 DEF MailboxInv, ClaimsApart
  <2>3. ASSUME NEW q \in Procs, drain'[q].step # "rest"
        PROVE  /\ There(inode', drain'[q].file) /\ drain'[q].file # live'
               /\ drain'[q].step = "read" => ReadsAll(drain[q].got, drain[q].file)'
               /\ drain'[q].step = "claimed" => \A m \in late' : letter'[m].file # drain'[q].file
    <3>1. /\ drain[q].step # "rest" /\ drain[q].file # live /\ late \in SUBSET Letters
          /\ drain[q].step = "read" => ReadsAll(drain[q].got, drain[q].file)
          /\ drain[q].step = "claimed" => \A m \in late : letter[m].file # drain[q].file
      BY <2>2, <2>3 DEF MailboxInv, MailboxTyped, ClaimsApart
    <3>2. drain'[q].step = "claimed" => \A m \in late' : letter'[m].file # drain'[q].file
      BY <1>1, <1>7, <2>2, <2>3, <3>1
    <3>3. drain'[q].step = "read" => ReadsAll(drain[q].got, drain[q].file)'
      BY <1>1, <2>2, <2>3, <3>1 DEF ReadsAll
    <3> QED
      BY <1>1, <2>2, <2>3, <3>1, <3>2, <3>3
  <2>4. ASSUME NEW q \in Procs, drain'[q].step # "rest", NEW o \in Procs, drain'[o].step # "rest",
               drain'[o].file = drain'[q].file
        PROVE  q = o
    BY <2>2, <2>4 DEF MailboxInv, ClaimsApart
  <2> QED
    BY <2>1, <2>3, <2>4 DEF ClaimsApart
<1>11. LettersInPlace'
  <2>1. /\ \A m \in Letters : letter'[m].step = "open" => letter'[m].file \in 1..Len(inode')
        /\ \A m \in Letters : letter'[m].step # "posted" => letter'[m].got = 0
        /\ \A m \in Letters : letter'[m].got <= 1
    BY <1>1, <1>4, <1>5, <1>7 DEF MailboxInv, LettersInPlace
  <2>2. ASSUME NEW m \in Letters, letter'[m].step = "posted", letter'[m].got = 0, m \notin late
        PROVE  There(inode', letter'[m].file) /\ m \in ToSet(inode'[letter'[m].file])
    <3>1. ~Got(m) /\ There(inode, letter[m].file) /\ m \in ToSet(inode[letter[m].file])
      BY <1>7, <2>2 DEF MailboxInv, LettersInPlace
    <3>2. letter[m].file # f
      BY <1>3, <2>2, <3>1
    <3> QED
      BY <1>7, <1>9, <3>1, <3>2
  <2>4. \A m \in late : /\ letter'[m].step = "posted" /\ letter'[m].got = 0
                        /\ letter'[m].file # live' /\ letter'[m].file \in 1..Len(inode')
    BY <1>1, <1>3, <1>5, <1>7 DEF MailboxInv, MailboxTyped, LettersInPlace
  <2>3. ASSUME NEW i \in 1..Len(inode'), inode'[i] # Null, NEW m \in ToSet(inode'[i])
        PROVE  letter'[m].step = "posted" /\ letter'[m].got = 0 /\ letter'[m].file = i
    <3>1. i \in 1..Len(inode) /\ i # f /\ inode'[i] = inode[i] /\ inode[i] # Null /\ inode[i] \in Seq(Letters)
      BY <1>1, <1>5, <2>3
    <3>2. m \in Letters /\ letter[m].step = "posted" /\ letter[m].got = 0 /\ letter[m].file = i
      BY <2>3, <3>1, InFile DEF MailboxInv, LettersInPlace
    <3> QED
      BY <1>4, <1>7, <3>1, <3>2
  <2> QED
    BY <1>1, <2>1, <2>2, <2>3, <2>4 DEF LettersInPlace
<1> QED
  BY <1>8, <1>10, <1>11 DEF MailboxInv

\* The steps that the mailbox has no part in.
LEMMA MailboxApart ==
  /\ \A a \in Actors : AskHead(a) \/ ReadLastLine(a) \/ CacheHead(a) \/ AppendEntry(a) => UNCHANGED <<plan, mailbox>>
  /\ \A a \in Actors \cup {Reader} : FlushMore(a) => UNCHANGED <<plan, mailbox>>
  /\ Timer \/ Write \/ AskTail \/ TailOn \/ CrashEngine => UNCHANGED <<plan, mailbox>>
  /\ \A p \in Procs :
       /\ Migrate(p) \/ ReadLegacy(p) \/ WriteSplit(p) \/ RenameLegacy(p) => UNCHANGED <<plan, mailbox>>
       /\ StartListing(p) \/ CacheListing(p) \/ ExpireListing(p) \/ CrashClerk(p) => UNCHANGED <<plan, mailbox>>
       /\ \A r \in Records : SplitRecord(p, r) \/ ListRecord(p, r) => UNCHANGED <<plan, mailbox>>
       /\ \A j \in Jobs, r \in Records : CallPatch(p, j, r) => UNCHANGED <<plan, mailbox>>
  /\ \A j \in Jobs : GetInLine(j) \/ LoadRecord(j) \/ WriteRecord(j) => UNCHANGED <<plan, mailbox>>
<1>1. \A a \in Actors : AskHead(a) \/ ReadLastLine(a) \/ CacheHead(a) \/ AppendEntry(a) => UNCHANGED <<plan, mailbox>>
  BY DEF AskHead, ReadLastLine, CacheHead, AppendEntry
<1>2. \A a \in Actors \cup {Reader} : FlushMore(a) => UNCHANGED <<plan, mailbox>>
  BY DEF FlushMore
<1>3. Timer \/ Write \/ AskTail \/ TailOn \/ CrashEngine => UNCHANGED <<plan, mailbox>>
  BY DEF Timer, Write, AskTail, TailOn, CrashEngine, Dies
<1>4. ASSUME NEW p \in Procs
      PROVE  /\ Migrate(p) \/ ReadLegacy(p) \/ WriteSplit(p) \/ RenameLegacy(p) => UNCHANGED <<plan, mailbox>>
             /\ StartListing(p) \/ CacheListing(p) \/ ExpireListing(p) \/ CrashClerk(p) => UNCHANGED <<plan, mailbox>>
             /\ \A r \in Records : SplitRecord(p, r) \/ ListRecord(p, r) => UNCHANGED <<plan, mailbox>>
             /\ \A j \in Jobs, r \in Records : CallPatch(p, j, r) => UNCHANGED <<plan, mailbox>>
  <2>1. Migrate(p) \/ ReadLegacy(p) \/ WriteSplit(p) \/ RenameLegacy(p) => UNCHANGED <<plan, mailbox>>
    BY DEF Migrate, ReadLegacy, WriteSplit, RenameLegacy, Shared
  <2>2. StartListing(p) \/ CacheListing(p) \/ ExpireListing(p) \/ CrashClerk(p) => UNCHANGED <<plan, mailbox>>
    BY DEF StartListing, CacheListing, ExpireListing, CrashClerk, Shared, Dies
  <2>3. \A r \in Records : SplitRecord(p, r) \/ ListRecord(p, r) => UNCHANGED <<plan, mailbox>>
    BY DEF SplitRecord, ListRecord, Shared
  <2>4. \A j \in Jobs, r \in Records : CallPatch(p, j, r) => UNCHANGED <<plan, mailbox>>
    BY DEF CallPatch, Shared
  <2> QED
    BY <2>1, <2>2, <2>3, <2>4
<1>5. \A j \in Jobs : GetInLine(j) \/ LoadRecord(j) \/ WriteRecord(j) => UNCHANGED <<plan, mailbox>>
  BY DEF GetInLine, LoadRecord, WriteRecord, Shared
<1> QED
  BY <1>1, <1>2, <1>3, <1>4, <1>5

LEMMA MailboxKeeps ==
  ASSUME MailboxInv, [Next]_OfFiles
  PROVE  MailboxInv'
<1>1. ASSUME UNCHANGED <<plan, mailbox>> PROVE MailboxInv'
  BY <1>1 DEF mailbox, MailboxInv, MailboxTyped, ClaimsApart, ReadsAll, LettersInPlace
<1>2. ASSUME NEW p \in Procs, Claim(p) \/ ReadClaim(p) \/ RemoveClaim(p) \/ CrashDrain(p) PROVE MailboxInv'
  BY <1>2, ClaimKeeps, RemoveClaimKeeps
<1>3. ASSUME NEW m \in Letters, OpenBox(m) \/ WriteLetter(m) PROVE MailboxInv'
  BY <1>3, OpenBoxKeeps, WriteLetterKeeps
<1>4. CASE UNCHANGED OfFiles
  BY <1>1, <1>4 DEF OfFiles, vars
<1> QED
  BY <1>1, <1>2, <1>3, <1>4, MailboxApart DEF Next

LEMMA OnceThen == MailboxInv => LettersKept
<1> SUFFICES ASSUME MailboxInv PROVE LettersKept
  OBVIOUS
<1>1. \A i : There(inode, i) => i \in DOMAIN inode /\ inode[i] # Null
  BY DEF There, MailboxInv, MailboxTyped
<1> QED
  BY <1>1 DEF MailboxInv, LettersInPlace, LettersKept, KeptOnce

-----------------------------------------------------------------------------
(* Together.                                                               *)

\* A patch that was written stays in its record, over patches of the same process and over splits and patches of others
\* but those that had read the record before it; no session is lost by the split of the old registry file, whatever
\* crashes; a letter is handed out once and kept until then, whoever posts, drains or dies, but for one written to a
\* file after the drain of that file had read it (store/local.ts).
THEOREM SharedIsKept == SessionSpec => []SharedKept
<1>1. SessionInit => RegistryInv /\ MailboxInv
  BY RegistryAtFirst, MailboxAtFirst DEF SessionInit
<1>2. RegistryInv /\ [SessionNext]_sessionVars => RegistryInv'
  BY FilesStep, RegistryKeeps
<1>3. MailboxInv /\ [SessionNext]_sessionVars => MailboxInv'
  BY FilesStep, MailboxKeeps
<1>4. RegistryInv /\ MailboxInv => SharedKept
  BY OnceThen DEF RegistryInv, LegacyInv, RegistryKept, SharedKept
<1> QED
  BY <1>1, <1>2, <1>3, <1>4, PTL DEF SessionSpec, sessionVars

=============================================================================
