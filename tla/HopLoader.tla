----------------------------- MODULE HopLoader ------------------------------
(***************************************************************************)
(* A HOP is found, read, its parents first, and composed; the settings go  *)
(* over it.  A reference is a builtin's name, a name under the project's   *)
(* or the person's hops, with a version or without, or a path.  A load may *)
(* be confined to a directory, whatever paths and links its files hold.    *)
(*                                                                         *)
(* A place in the file system is a sequence of names; a world fixes what   *)
(* is there.  Nothing else changes the files during a load.                *)
(***************************************************************************)
EXTENDS HopProfile

CONSTANTS
  Worlds,   \* file systems, with what is asked of them
  Root,     \* the directory of a confined load
  Cwd,      \* the project
  Home,     \* the person's directory
  Versions, \* names of versions, with their three numbers
  Nothing   \* no profile yet

\* Of its leaves a file of a world gives only prompts as files; and AnyModel does match each
\* model it names.
ASSUME WorldsAssumption ==
  \A w \in Worlds : \A d \in DOMAIN w.hops :
    LET y == w.hops[d] IN
    /\ Typed(y.own) /\ PinnedModels(y.own) \subseteq AnyModel
    /\ \A p \in DOMAIN y.files : p[1] \in {"prompts", "modules"}

VARIABLES
  world,
  at,       \* the reference being resolved, and from where
  frames,   \* directories whose hop.yaml was read, the child's first
  got,      \* the profile composed last
  line,     \* and those composed before it, builtins included
  read,     \* files read, where they really are
  touched,  \* places looked at
  out,      \* how the load stands
  effective \* the profile's leaves under the settings

vars == <<world, at, frames, got, line, read, touched, out, effective>>

-----------------------------------------------------------------------------
(* Files.                                                                  *)

\* Where a place is once links are followed.
Real(p) ==
  LET links == {l \in DOMAIN world.links : IsPrefix(l, p)} IN
  IF links = {} THEN p
  ELSE LET l == CHOOSE x \in links : TRUE IN world.links[l] \o SubSeq(p, Len(l) + 1, Len(p))

HopFile(dir) == Append(dir, "hop.yaml")
Files == {HopFile(d) : d \in DOMAIN world.hops} \cup world.texts
Exists(p) == \E f \in Files : IsPrefix(Real(p), f)

\* resolve(): a path as it is written, from a directory.
Resolved(path, from) ==
  IF path.absolute THEN path.down ELSE SubSeq(from, 1, Len(from) - path.up) \o path.down

\* Mutant: a place is judged by its text alone.
ConfinedByText(p) == world.confined => IsPrefix(Root, p)

\* confined(): inside by the text, and once more where the links lead.
Confined(p) ==
  world.confined => IsPrefix(Root, p) /\ (Exists(p) => IsPrefix(Real(Root), Real(p)))

\* What the judgement looks at: nothing outside by the text.
Looks(p) == IF world.confined /\ ~IsPrefix(Root, p) THEN {} ELSE {p}

-----------------------------------------------------------------------------
(* Names.                                                                  *)

Older(a, b) ==
  LET x == Versions[a]  y == Versions[b]
      k == SelectInSeq([i \in 1..3 |-> x[i] # y[i]], LAMBDA differs : differs)
  IN k # 0 /\ x[k] < y[k]

\* The directory of a name under a root: flat or by version, the newest unless pinned; or
\* none; or an error for a layout of both kinds or a version that is not there.
NamedDir(root, ref) ==
  LET base == root \o <<"hops", ref.name>>
      flat == Exists(HopFile(base))
      versions == {v \in DOMAIN Versions : Exists(HopFile(Append(base, v)))}
      Fails == (flat /\ (versions # {} \/ ref.version # Unset))
               \/ (versions # {} /\ ref.version # Unset /\ ref.version \notin versions)
  IN CASE Fails -> [found |-> "error"]
       [] ~Fails /\ flat -> [found |-> "dir", dir |-> base]
       [] ~Fails /\ versions = {} /\ ~flat -> [found |-> "none"]
       [] ~Fails /\ versions # {} /\ ~flat ->
            [found |-> "dir", dir |-> Append(base, IF ref.version # Unset THEN ref.version
                                                   ELSE CHOOSE v \in versions : \A w \in versions : w = v \/ Older(w, v))]

\* resolveProfile(): a builtin first, in the version that is compiled in.
IsBuiltin(ref) == ~ref.path /\ ref.name \in DOMAIN Builtins
BuiltinFits(ref) == ref.version \in {Unset, BuiltinVersion[ref.name]}

\* The directory a reference leads to, or why it leads to none.
Find(ref, from) ==
  IF ref.path
  THEN LET base == Resolved(ref.to, from) IN
       IF Confined(base) /\ Exists(base) THEN [found |-> "dir", dir |-> base] ELSE [found |-> "error"]
  ELSE IF world.confined THEN [found |-> "error"]
  ELSE LET project == NamedDir(Cwd, ref) IN
       IF project.found # "none" THEN project ELSE NamedDir(Home, ref)

-----------------------------------------------------------------------------
(* Loading.                                                                *)

Ask(ref, from) == [ref |-> ref, from |-> from]

Init ==
  /\ world \in Worlds
  /\ at = Ask(world.ask, Cwd) /\ frames = <<>> /\ got = Nothing /\ line = <<>>
  /\ read = {} /\ touched = {} /\ out = "resolving" /\ effective = <<>>

Fail == out' = "failed" /\ UNCHANGED <<at, frames, got, line>>

\* resolveProfile() ends at a builtin.
TakeBuiltin ==
  /\ out = "resolving" /\ IsBuiltin(at.ref)
  /\ IF BuiltinFits(at.ref)
     THEN /\ got' = Builtins[at.ref.name] /\ line' = <<Builtins[at.ref.name]>> /\ out' = "composing"
          /\ UNCHANGED <<at, frames>>
     ELSE Fail
  /\ UNCHANGED <<world, read, touched, effective>>

\* depth > 4.
TooDeep == Len(frames) > 4

\* loadFromDir(): the file is inside, is there, and is a hop.yaml of the schema; its parent
\* is next, resolved from its directory.
ReadHop ==
  /\ out = "resolving" /\ ~IsBuiltin(at.ref)
  /\ LET place == Find(at.ref, at.from)
         file == HopFile(place.dir)
         IsRead == place.found = "dir" /\ Confined(file) /\ Exists(file)
         y == world.hops[Real(place.dir)]
     IN /\ touched' = touched \cup (IF at.ref.path THEN Looks(Resolved(at.ref.to, at.from)) ELSE {})
                              \cup (IF place.found = "dir" THEN Looks(file) ELSE {})
        /\ read' = IF IsRead THEN read \cup {Real(file)} ELSE read
        /\ IF IsRead /\ Real(place.dir) \in DOMAIN world.hops /\ SchemaAccepts(y) /\ ~TooDeep
           THEN /\ frames' = Append(frames, place.dir) /\ at' = Ask(y.extends, place.dir)
                /\ UNCHANGED <<got, line, out>>
           ELSE Fail
  /\ UNCHANGED <<world, effective>>

Texts(y, dir) == {Resolved(y.files[f], dir) : f \in DOMAIN y.files}

\* composeProfile(): the last directory's file over the profile it extends.  Prompt files
\* are read one by one: before one is refused, or a block is, some others may have been.
Compose ==
  /\ out = "composing" /\ frames # <<>>
  /\ LET dir == Last(frames)
         y == world.hops[Real(dir)]
         texts == Texts(y, dir)
         own == [p \in DOMAIN y.own |-> IF p \in DOMAIN y.files THEN Resolved(y.files[p], dir) ELSE y.own[p]]
         there == {f \in texts : Confined(f) /\ Exists(f)}
         Reads(some) ==
           touched' = touched \cup UNION {Looks(f) : f \in some} /\ read' = read \cup {Real(f) : f \in some \cap there}
     IN IF Accepts(got, y, own) /\ there = texts
        THEN /\ Reads(texts)
             /\ got' = Composed(got, y, own) /\ line' = Append(line, got')
             /\ frames' = Front(frames) /\ UNCHANGED <<at, out>>
        ELSE /\ \E some \in SUBSET IF LockViolated(got.locked, Overridden(y)) THEN {} ELSE texts : Reads(some)
             /\ Fail
  /\ UNCHANGED <<world, effective>>

-----------------------------------------------------------------------------
(* Settings.                                                               *)

\* Where a setting goes in a profile.
SettingOf ==
  Put(<<"mode">>, <<"permissions", "defaultMode">>) ++ Put(<<"maxTurns">>, <<"budgets", "maxTurns">>)
  ++ Put(<<"permissions", "allow">>, <<"permissions", "allow">>)
  ++ Put(<<"permissions", "deny">>, <<"permissions", "deny">>)
  ++ Put(<<"routing", "subtasks">>, <<"routing", "subagents">>) ++ Put(<<"routing", "budget">>, <<"routing", "subagents">>)
  ++ Put(<<"routing", "escalation">>, <<"routing", "escalation", "ladder">>)
  ++ Put(<<"routing", "escalationPatience">>, <<"routing", "escalation", "patience">>)
  ++ Put(<<"routing", "classifyStart">>, <<"routing", "classifyStart">>)
  ++ Put(<<"verify", "command">>, <<"verification", "command">>) ++ Put(<<"verify", "auto">>, <<"verification", "command">>)
  ++ Put(<<"verify", "selfCheck">>, <<"verification", "selfCheck", "enabled">>)
  ++ Put(<<"verify", "selfCheckMinEdits">>, <<"verification", "selfCheck", "minEdits">>)
  ++ Put(<<"verify", "antiChurn">>, <<"verification", "antiChurn", "enabled">>)
  ++ Put(<<"verify", "agent">>, <<"verification", "agent", "enabled">>)

\* loadSettings(): the person's file, the project's, the environment, the flags.
Explicit(layers) == FoldLeft(LAMBDA acc, l : l ++ acc, <<>>, layers)

\* assertSettingsRespectLocks().
Respects(locked, explicit) ==
  \A s \in DOMAIN explicit \cap DOMAIN SettingOf : ~LockViolated(locked, {SettingOf[s]})

\* What the host makes of a setting: it goes over the profile's leaf.
Layered(leaf, explicit) ==
  LET over == DOMAIN explicit \cap DOMAIN SettingOf IN
  [p \in {SettingOf[s] : s \in over} |-> explicit[CHOOSE s \in over : SettingOf[s] = p]] ++ leaf

\* The profile is loaded; the host puts the settings over it.
Settle ==
  /\ out = "composing" /\ frames = <<>>
  /\ LET explicit == Explicit(world.settings) IN
     IF Respects(got.locked, explicit)
     THEN out' = "running" /\ effective' = Layered(got.leaf, explicit)
     ELSE out' = "refused" /\ UNCHANGED effective
  /\ UNCHANGED <<world, at, frames, got, line, read, touched>>

Next == TakeBuiltin \/ ReadHop \/ Compose \/ Settle

Spec == Init /\ [][Next]_vars

-----------------------------------------------------------------------------
(* Properties.                                                             *)

\* Leaves under a lock of a profile.
LockedLeaves(p) == {q \in DOMAIN p.leaf \cup DOMAIN effective : \E l \in p.locked : Under(q, l)}

\* Leaves that no child inherits, and those its modules add to.
OwnOnly == Policy \cup {Publication}
Joined == {<<"tools", "include">>, <<"prompts", "system">>}

\* What a profile locked is at every later stage what it was there: after each child and
\* under the settings, through every way there is to set a leaf (presentLeafPaths, locked,
\* assertSettingsRespectLocks).  Denials may be added; of what modules join see LockedForAll.
LocksHold ==
  out = "running" =>
    \A i \in DOMAIN line : \A q \in LockedLeaves(line[i]) \ UNION {OwnOnly, Joined, {<<"permissions", "deny">>}} :
      Get(effective, q) = Get(line[i].leaf, q)

\* No profile of the chain is looser than the one it extends: denials only add up, a name
\* that is required stays named (the child may make it optional), the envelope stays and
\* goes with no autopilot, a kube credential that is asked for is declared, and no own pin
\* is outside the policy (composeProfile).
NeverLooser ==
  \A i \in DOMAIN line \ {1} :
    LET parent == line[i - 1].leaf  child == line[i].leaf IN
    /\ Or(Get(parent, <<"permissions", "deny">>), {}) \subseteq child[<<"permissions", "deny">>]
    /\ \A p \in ByName : DOMAIN Or(Get(parent, p), <<>>) \subseteq DOMAIN Or(Get(child, p), <<>>)
    /\ Safety \in DOMAIN parent => Get(child, Safety) = parent[Safety]
    /\ Safety \in DOMAIN child =>
         /\ child[<<"permissions", "defaultMode">>] # "autopilot"
         /\ child[Safety].requirePlanArtifact => "plan" \in child[Safety].hash
    /\ DOMAIN Or(Get(child, <<"requires", "kube">>), <<>>) \subseteq Names(Kube(child))
    /\ \A m \in PinnedModels(child) : PolicyAllows(child, m)

\* A confined load reads no file outside its directory, wherever the links lead, and looks
\* at nothing a path names outside it (confined).
ReadsConfined ==
  world.confined =>
    /\ \A f \in read : IsPrefix(Real(Root), f)
    /\ \A p \in touched : IsPrefix(Root, p)

-----------------------------------------------------------------------------
(* What the code says and does not keep.                                   *)

\* A locked path may not be overridden (types.ts): nor by a module's prompt or tools.
LockedForAll ==
  \A i, j \in DOMAIN line : i < j =>
    \A q \in {p \in Joined \cap DOMAIN line[i].leaf : \E l \in line[i].locked : Under(p, l)} :
      Get(line[j].leaf, q) = line[i].leaf[q]

\* Locked evaluation suites stay.
LockedEvalsStay ==
  \A i, j \in DOMAIN line : i < j /\ <<"evals">> \in line[i].locked => line[j].evals = line[i].evals

\* A lock on a section forbids a child to touch it, not to leave it alone.
UntouchedExtends ==
  out = "composing" /\ frames # <<>> /\ DOMAIN world.hops[Real(Last(frames))].own = {} =>
    ~LockViolated(got.locked, Overridden(world.hops[Real(Last(frames))]))
=============================================================================
