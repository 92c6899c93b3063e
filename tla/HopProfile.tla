----------------------------- MODULE HopProfile -----------------------------
(***************************************************************************)
(* A HOP (profile) composed over the one it extends: per present leaf the  *)
(* child's value or the parent's, lists that add up, blocks that must be   *)
(* whole, and what a child may not touch because an ancestor locked it.    *)
(*                                                                         *)
(* A hop.yaml is a record: its leaves (own), its prompt files (files), its *)
(* modules, eval suites, and the paths it locks.  A path is a sequence of  *)
(* keys.  A list is a set, a glob the set of ids it matches; a map by name *)
(* is a function.  The safety block and a tier are one leaf each.          *)
(***************************************************************************)
EXTENDS Integers, FiniteSets, SequencesExt, TLC

CONSTANTS
  Unset,    \* a leaf nobody set
  AnyModel, \* the glob that matches every model
  Words     \* rules, names of what is required, parts of a hash

\* A function over another: what it has, and the other's values for the rest.
Over(f, g) == [x \in DOMAIN f \cup DOMAIN g |-> IF x \in DOMAIN f THEN f[x] ELSE g[x]]
f ++ g == Over(f, g)
Put(p, value) == [q \in {p} |-> value]

Of(block, keys) == {<<block, k>> : k \in keys}
Under(p, l) == IsPrefix(l, p)
Get(f, p) == IF p \in DOMAIN f THEN f[p] ELSE Unset
Or(value, default) == IF value = Unset THEN default ELSE value
Only(f, P) == [p \in DOMAIN f \cap P |-> f[p]]
Except(f, P) == [p \in DOMAIN f \ P |-> f[p]]

SafetyBlock == [requirePlanArtifact : BOOLEAN, hash : SUBSET Words]
Levels == {"required", "optional"}

\* No value is Unset.
ASSUME UnsetAssumption ==
  /\ Unset \notin SafetyBlock
  /\ \A S \in SUBSET Words : Unset # S /\ Unset \notin [S -> Levels]

\* What the code itself says of them.
ASSUME WordsAssumption ==
  {"plan", "websearch", "Write", "Edit", "Bash(git push*)", "Bash(git commit*)"} \subseteq Words

-----------------------------------------------------------------------------
(* What a hop.yaml may say.                                                *)

TierNames == {"cheap", "mid", "frontier", "max"}
Closed == Of("memory", {"topics", "reads", "writes"})
Ontology == <<"memory", "ontology">>
Publication == <<"memory", "publication">>
Concatenated == Of("permissions", {"allow", "deny"})
ByName == Of("requires", {"binaries", "mcp", "agents", "skills", "kube"})
Policy == Of("model_policy", {"allow", "deny"})
TuningRequired == Of("tuning", {"cadence", "minRunsSinceLast", "canaryFraction", "canaryMinRuns",
                                "promote", "frontierMetric", "promotionMargin", "goldenSuite"})
Safety == <<"safety">>
Credentials == <<"credentials">>

MemoryLeaves ==
  UNION {Closed, Of("memory", {"workspace", "tenant", "policy", "ontology", "owner", "mode", "sharing", "publication", "promotion"}),
         {<<"memory", "limits", k>> : k \in {"max_nodes", "max_bytes", "max_write_bytes"}}}

TuningLeaves == TuningRequired \cup Of("tuning", {"maxAge", "triggers"})

ModelLeaves ==
  UNION {Of("model", {"main", "allowInvokeAny", "subscribe", "fallback"}),
         {<<"model", "subagents", k>> : k \in {"readOnly", "verify"}},
         {<<"model", "tiers", t>> : t \in TierNames}}

BoxLeaves == Of("sandbox", {"size_class", "template", "egress"}) \cup Of("workspace", {"policy"})

Leaves ==
  UNION {Of("prompts", {"system", "verifierAgent", "summarizer", "condenser"}),
         {<<"verification", "observe">>, <<"routing", "subagents">>, <<"routing", "classifyStart">>},
         {<<"verification", "selfCheck", k>> : k \in {"enabled", "minEdits"}},
         {<<"verification", "antiChurn", k>> : k \in {"enabled", "threshold"}},
         {<<"verification", "agent", k>> : k \in {"enabled", "tier", "riskGateMinChangedLines", "riskGate", "failMode", "task"}},
         {<<"routing", "escalation", k>> : k \in {"ladder", "patience"}},
         {<<"permissions", "defaultMode">>, <<"tools", "include">>, <<"catalog", "profile">>,
          <<"budgets", "maxTurns">>, <<"telemetry", "taskType">>, Safety, Credentials},
         Concatenated, ByName, Of("requires", {"models", "memory"}), Policy,
         MemoryLeaves, TuningLeaves, ModelLeaves, BoxLeaves, Of("processes", {"mcp_stdio", "hooks", "lsp"})}

\* Leaves that are lists of rules, maps by name, or a safety block.
Typed(leaf) ==
  /\ \A p \in DOMAIN leaf \cap Concatenated : leaf[p] \in SUBSET Words
  /\ \A p \in DOMAIN leaf \cap ByName : DOMAIN leaf[p] \subseteq Words /\ leaf[p] \in [DOMAIN leaf[p] -> Levels]
  /\ Safety \in DOMAIN leaf => leaf[Safety] \in SafetyBlock

Names(list) == {x.name : x \in list}
UniqueNames(list) == Cardinality(Names(list)) = Cardinality(list)

\* The memory contract: a topic that asks for feedback has a publication to go to, ids are
\* given once, a state has a real key, and what is declared is covered by writes.
MemoryValid(own) ==
  LET topics == Or(Get(own, <<"memory", "topics">>), {})  writes == Or(Get(own, <<"memory", "writes">>), {}) IN
  /\ (\E t \in topics : t.feedback = "ask") => Publication \in DOMAIN own
  /\ \A t, u \in topics : t.id = u.id => t = u
  /\ \A t \in topics : ~(t.kind = "state" /\ t.key = "dedup")
  /\ writes # {} => \A t \in topics : \E glob \in writes : t.id \in glob

\* A credential is by reference, and of one of two kinds.
CredentialsValid(own) ==
  \A c \in Or(Get(own, Credentials), {}) : ~c.value /\ (c.tool = "kube" => c.source \in {"secret", "local-context"})

\* The schema refuses what it does not know.
SchemaAccepts(y) ==
  /\ DOMAIN y.own \subseteq Leaves
  /\ MemoryValid(y.own) /\ CredentialsValid(y.own)
  /\ UniqueNames(Or(Get(y.own, <<"processes", "mcp_stdio">>), {}))

\* Lists the schema puts in whether the file has them or not, and the names that writes
\* default to: a parsed file has these leaves too.
Defaulted(own) ==
  Closed \cup {Ontology} \cup IF \E p \in DOMAIN own : p[1] = "requires" THEN ByName ELSE {}

WritesOf(own) ==
  LET writes == Or(Get(own, <<"memory", "writes">>), {}) IN
  IF writes # {} THEN writes ELSE {{t.id} : t \in Or(Get(own, <<"memory", "topics">>), {})}

-----------------------------------------------------------------------------
(* Locks.                                                                  *)

Meta == {"spec", "name", "version", "description", "extends", "locked", "tunable", "evals"}

\* The leaves a child sets over its parent's; more denials are no override.
Overridden(y) ==
  {p \in DOMAIN y.own \cup Defaulted(y.own)
         \cup UNION {{<<"modules", m, k>> : k \in DOMAIN y.modules[m]} : m \in DOMAIN y.modules} :
     ~Under(p, <<"permissions", "deny">>) /\ p[1] \notin Meta}

\* A lock holds for the leaf it names and for all below it.
LockViolated(locked, paths) == \E p \in paths, l \in locked : Under(p, l)

\* Mutant: a child's locks replace its parent's.
LockedOwn(parent, y, safety) == y.locked \cup IF safety = Unset THEN {} ELSE {Safety}

\* Locks add up, and a safety block is one.
Locked(parent, y, safety) == parent.locked \cup y.locked \cup IF safety = Unset THEN {} ELSE {Safety}

-----------------------------------------------------------------------------
(* Blocks.                                                                 *)

\* Memory topics, reads and writes come from one file; a publication from its own.
Memory(parent, own) ==
  LET OwnTopics == \E p \in Closed : Or(Get(own, p), {}) # {}
      list == [p \in Closed |-> IF p = <<"memory", "writes">> THEN WritesOf(own) ELSE Or(Get(own, p), {})]
      inherited == {p \in DOMAIN parent.leaf : p[1] = "memory"} \ {Publication}
      said == Except(Only(own, {p \in DOMAIN own : p[1] = "memory"}), {p \in Closed \cup {Ontology} : Or(Get(own, p), {}) = {}})
      all == (IF OwnTopics THEN list ELSE <<>>) ++ said ++ Except(Only(parent.leaf, inherited), IF OwnTopics THEN Closed ELSE {})
      Makes(p) == ~(p \in Of("memory", {"owner", "mode", "sharing", "publication"})) /\ (p \in Closed => all[p] # {})
  IN IF \E p \in DOMAIN all : Makes(p) THEN all ELSE <<>>

\* Suites that gate promotion, by their role unless they say.
WithGates(evals) ==
  {[e EXCEPT !.gates = IF e.gates = Unset THEN e.role \in {"golden", "probe"} ELSE e.gates] : e \in evals}

\* A tuning block is whole, and measured by suites there are.
TuningHolds(leaf, evals) ==
  LET Suite(p, role) == \E e \in evals : e.name = leaf[p] /\ e.role = role
      golden == {e \in evals : e.name = leaf[<<"tuning", "goldenSuite">>]}
  IN (\E p \in DOMAIN leaf : p[1] = "tuning") =>
       /\ TuningRequired \subseteq DOMAIN leaf
       /\ Suite(<<"tuning", "frontierMetric">>, "frontier") /\ Suite(<<"tuning", "goldenSuite">>, "golden")
       /\ leaf[<<"tuning", "promote">>] = "auto" => \A e \in golden : e.gates

Rank(t) == CASE t = "cheap" -> 0 [] t = "mid" -> 1 [] t = "frontier" -> 2 [] t = "max" -> 3

\* A model block names its main model, whose fallbacks are no lower tier's own.
ModelHolds(leaf) ==
  LET main == Get(leaf, <<"model", "main">>)
      Tier(t) == Get(leaf, <<"model", "tiers", t>>)
      tiers == {t \in TierNames : Tier(t) # Unset}
  IN (\E p \in DOMAIN leaf : p[1] = "model") =>
       /\ main # Unset
       /\ main \in tiers => \A t \in tiers : Tier(t).primary \in Tier(main).fallbacks => Rank(t) >= Rank(main)

\* A safety block that wants a plan hashes it.
LockPlanHash(safety) ==
  IF safety = Unset THEN Unset
  ELSE IF safety.requirePlanArtifact THEN [safety EXCEPT !.hash = @ \cup {"plan"}] ELSE safety

\* Enabled modules add their tools to a list; with no list there is every tool.
Tools(include, modules) ==
  IF include = Unset THEN Unset ELSE include \cup UNION {modules[m].tools : m \in {x \in DOMAIN modules : modules[x].enabled}}

\* ... and their prompts to the system prompt.
System(text, modules) == text \o SetToSeq({m \in DOMAIN modules : modules[m].enabled})

Kube(leaf) == {c \in Or(Get(leaf, Credentials), {}) : c.tool = "kube"}

\* Kube credentials have a name each, and those required are declared.
KubeHolds(leaf) ==
  /\ UniqueNames(Kube(leaf))
  /\ DOMAIN Or(Get(leaf, <<"requires", "kube">>), <<>>) \subseteq Names(Kube(leaf))

\* An envelope goes with no autopilot, and no promotion without a person.
EnvelopeHolds(leaf) ==
  Safety \in DOMAIN leaf =>
    leaf[<<"permissions", "defaultMode">>] # "autopilot" /\ Get(leaf, <<"tuning", "promote">>) # "auto"

-----------------------------------------------------------------------------
(* The model policy.                                                       *)

PolicyAllows(leaf, model) ==
  LET deny == Or(Get(leaf, <<"model_policy", "deny">>), {})  allow == Or(Get(leaf, <<"model_policy", "allow">>), {}) IN
  /\ ~ \E glob \in deny : model \in glob
  /\ allow = {} \/ \E glob \in allow : model \in glob

\* What a HOP names that is no tier.
PinnedModels(leaf) ==
  LET tiers == {Get(leaf, <<"model", "tiers", t>>) : t \in TierNames} \ {Unset}
      named == {Get(leaf, p) : p \in {<<"model", "main">>, <<"model", "subagents", "readOnly">>, <<"model", "subagents", "verify">>}}
  IN (named \cup {t.primary : t \in tiers} \cup UNION {t.fallbacks : t \in tiers}) \ (TierNames \cup {"inherit", Unset})

PinsOutsidePolicy(leaf) ==
  LET allow == Or(Get(leaf, <<"model_policy", "allow">>), {}) IN
  IF allow \subseteq {AnyModel} /\ Or(Get(leaf, <<"model_policy", "deny">>), {}) = {} THEN {}
  ELSE {m \in PinnedModels(leaf) : ~PolicyAllows(leaf, m)}

-----------------------------------------------------------------------------
(* Composition.                                                            *)

\* Mutant: a child's denials are all there are.
DenyReplaced(parent, own, p) == Or(Get(own, p), Or(Get(parent.leaf, p), {}))

\* Rules add up: no child takes one away.
Concat(parent, own, p) == Or(Get(parent.leaf, p), {}) \cup Or(Get(own, p), {})

\* What is required adds up by name, the child's word for a name first.
Union(parent, own, p) == Or(Get(own, p), <<>>) ++ Or(Get(parent.leaf, p), <<>>)

\* The leaves of a child with its files read: its own over its parent's.
LeafOver(parent, y, own) ==
  LET inherited == {p \in DOMAIN parent.leaf : p \notin Policy /\ p[1] # "memory"}
      base == Only(own, {p \in DOMAIN own : p[1] # "memory"}) ++ Only(parent.leaf, inherited)
      required == {p \in ByName : \E f \in {own, parent.leaf} : p \in DOMAIN f}
      safety == LockPlanHash(Get(base, Safety))
      include == Tools(Get(base, <<"tools", "include">>), y.modules)
  IN [p \in Concatenated |-> Concat(parent, own, p)]
     ++ [p \in required |-> Union(parent, own, p)]
     ++ (IF safety = Unset THEN <<>> ELSE Put(Safety, safety))
     ++ (IF include = Unset THEN <<>> ELSE Put(<<"tools", "include">>, include))
     ++ Put(<<"prompts", "system">>, System(base[<<"prompts", "system">>], y.modules))
     ++ Memory(parent, own)
     ++ base

EvalsOver(parent, y) == WithGates(IF y.evals # {} THEN y.evals ELSE parent.evals)

Accepts(parent, y, own) ==
  LET leaf == LeafOver(parent, y, own) IN
  /\ ~LockViolated(parent.locked, Overridden(y))
  /\ TuningHolds(leaf, EvalsOver(parent, y)) /\ ModelHolds(leaf) /\ EnvelopeHolds(leaf)
  /\ KubeHolds(leaf) /\ PinsOutsidePolicy(leaf) = {}

Composed(parent, y, own) ==
  LET leaf == LeafOver(parent, y, own) IN
  [name |-> y.name, chain |-> Append(parent.chain, parent.name), leaf |-> leaf,
   modules |-> y.modules, evals |-> EvalsOver(parent, y),
   locked |-> Locked(parent, y, Get(leaf, Safety))]

-----------------------------------------------------------------------------
(* The profiles that are compiled in.                                      *)

Coding ==
  [name |-> "coding", chain |-> <<>>, modules |-> <<>>, evals |-> {}, locked |-> {},
   leaf |-> Put(<<"prompts", "system">>, <<"coding">>)
         ++ Put(<<"permissions", "defaultMode">>, "autopilot")
         ++ Put(<<"permissions", "allow">>, {}) ++ Put(<<"permissions", "deny">>, {})
         ++ Put(<<"verification", "agent", "failMode">>, "open") ++ Put(<<"budgets", "maxTurns">>, 200)
         ++ Put(<<"routing", "subagents">>, "catalog") ++ Put(<<"routing", "escalation", "patience">>, 2)
         ++ Put(<<"requires", "binaries">>, <<>>) ++ Put(<<"requires", "mcp">>, [n \in {"websearch"} |-> "required"])
         ++ Put(<<"memory", "workspace">>, "from-host")]

Reviewer ==
  [Coding EXCEPT
     !.name = "reviewer",
     !.leaf = Except(Put(<<"prompts", "system">>, <<"reviewer">>)
         ++ Put(<<"permissions", "defaultMode">>, "recon")
         ++ Put(<<"permissions", "deny">>, {"Write", "Edit", "Bash(git push*)", "Bash(git commit*)"})
         ++ Put(<<"tools", "include">>, {"Read", "Bash"}) ++ Put(<<"verification", "agent", "failMode">>, "closed")
         ++ Put(<<"budgets", "maxTurns">>, 100) ++ Put(<<"requires", "mcp">>, <<>>)
         ++ @, {<<"memory", "workspace">>}),
     !.locked = {<<"permissions", "defaultMode">>, <<"permissions", "deny">>, <<"verification", "agent", "failMode">>}]

BuiltinVersion == [coding |-> "1.1.0", reviewer |-> "1.0.0"]
Builtins == [n \in {"coding", "reviewer"} |-> IF n = "coding" THEN Coding ELSE Reviewer]
=============================================================================
