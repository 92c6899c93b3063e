--------------------------- MODULE HopLoaderProofs ---------------------------
(***************************************************************************)
(* Locks hold, children only tighten, confined loads stay inside: for any  *)
(* files, links, references, settings and depth of the chain.              *)
(*                                                                         *)
(* One step composes one child, and what it locks must hold three children *)
(* later and under the settings.  So the invariant is about the chain: each*)
(* profile is whole (what a child concatenates is there, memory is a block *)
(* or nothing) and sealed (its safety block is locked), and each keeps what*)
(* any before it had locked, leaf by leaf.  A child keeps because of a leaf*)
(* under a lock it may say only what its parent says; the leaves where that*)
(* is not enough are those it inherits in another way: the memory block,   *)
(* which is taken whole unless a file says something of it, the prompts,   *)
(* which are joined, and the names, which are the child's own.             *)
(***************************************************************************)
EXTENDS HopLoader, TLAPS

-----------------------------------------------------------------------------
(* The invariant.                                                          *)

\* What no child inherits, and what a child may add to.
Exempt == UNION {OwnOnly, Joined, {<<"permissions", "deny">>}}

\* Is a leaf under a lock that a child and the settings must keep?
Fixed(prof, q) == q \notin Exempt /\ \E l \in prof.locked : Under(q, l)

InMemory(leaf) == {p \in DOMAIN leaf : p[1] = "memory" /\ p # Publication}

\* The leaves for which there is a memory block at all.
Carries(leaf, p) ==
  p \notin Of("memory", {"owner", "mode", "sharing", "publication"}) /\ (p \in Closed => leaf[p] # {})

\* A profile that was composed, or is compiled in.
Whole(prof) ==
  /\ DOMAIN prof.leaf \subseteq Leaves /\ Concatenated \subseteq DOMAIN prof.leaf
  /\ Typed(prof.leaf) /\ PinnedModels(prof.leaf) \subseteq AnyModel
  /\ InMemory(prof.leaf) # {} => \E p \in InMemory(prof.leaf) : Carries(prof.leaf, p)

\* Its safety block is locked, and hashes the plan that it wants.
Sealed(prof) ==
  Safety \in DOMAIN prof.leaf =>
    Safety \in prof.locked /\ (prof.leaf[Safety].requirePlanArtifact => "plan" \in prof.leaf[Safety].hash)

\* What p has locked q has locked, with the values p has.
Keeps(p, q) ==
  /\ p.locked \subseteq q.locked
  /\ \A x \in DOMAIN p.leaf \cup DOMAIN q.leaf : Fixed(p, x) => Get(q.leaf, x) = Get(p.leaf, x)

\* A profile is no looser than the one it extends.
Tighter(parent, child) ==
  /\ Or(Get(parent, <<"permissions", "deny">>), {}) \subseteq child[<<"permissions", "deny">>]
  /\ \A p \in ByName : DOMAIN Or(Get(parent, p), <<>>) \subseteq DOMAIN Or(Get(child, p), <<>>)
  /\ Safety \in DOMAIN parent => Get(child, Safety) = parent[Safety]
  /\ Safety \in DOMAIN child =>
       /\ child[<<"permissions", "defaultMode">>] # "autopilot"
       /\ child[Safety].requirePlanArtifact => "plan" \in child[Safety].hash
  /\ DOMAIN Or(Get(child, <<"requires", "kube">>), <<>>) \subseteq Names(Kube(child))
  /\ \A m \in PinnedModels(child) : PolicyAllows(child, m)

\* Where a place is in a file system.
RealIn(w, p) ==
  LET links == {l \in DOMAIN w.links : IsPrefix(l, p)} IN
  IF links = {} THEN p
  ELSE LET l == CHOOSE x \in links : TRUE IN w.links[l] \o SubSeq(p, Len(l) + 1, Len(p))

\* A directory that was read holds a hop.yaml of the schema.
IsHop(w, dir) == RealIn(w, dir) \in DOMAIN w.hops /\ SchemaAccepts(w.hops[RealIn(w, dir)])

IsSeq(s) == s \in Seq({s[i] : i \in DOMAIN s})

\* The load is on its way down to a builtin, or back up with a profile.
Stages ==
  /\ world \in Worlds
  /\ IsSeq(frames) /\ \A i \in DOMAIN frames : IsHop(world, frames[i])
  /\ IsSeq(line)
  /\ out = "resolving" => line = <<>>
  /\ out \in {"composing", "running"} => line # <<>>
  /\ line # <<>> => line[Len(line)] = got

\* Each profile is whole, keeps what those before it locked, and is no looser.
Descends(s) ==
  /\ \A i \in DOMAIN s : Whole(s[i]) /\ Sealed(s[i])
  /\ \A i \in DOMAIN s \ {1} : Tighter(s[i - 1].leaf, s[i].leaf)
  /\ \A i, j \in DOMAIN s : i <= j => Keeps(s[i], s[j])

\* The settings leave alone what is fixed.
UnderLocks ==
  out = "running" =>
    \A q \in DOMAIN got.leaf \cup DOMAIN effective : Fixed(got, q) => Get(effective, q) = Get(got.leaf, q)

IInv == Stages /\ Descends(line) /\ UnderLocks /\ ReadsConfined

-----------------------------------------------------------------------------
(* A function over another.                                                *)

LEMMA OverIs ==
  ASSUME NEW f, NEW g
  PROVE  /\ DOMAIN (f ++ g) = DOMAIN f \cup DOMAIN g
         /\ \A x \in DOMAIN f : (f ++ g)[x] = f[x]
         /\ \A x \in DOMAIN g : x \notin DOMAIN f => (f ++ g)[x] = g[x]
<1>1. f ++ g = Over(f, g)
  BY DEF ++
<1>2. Over(f, g) = [x \in DOMAIN f \cup DOMAIN g |-> IF x \in DOMAIN f THEN f[x] ELSE g[x]]
  BY DEF Over
<1> QED BY <1>1, <1>2

LEMMA PutIs ==
  ASSUME NEW p, NEW v
  PROVE  DOMAIN Put(p, v) = {p} /\ Put(p, v)[p] = v
BY DEF Put

LEMMA MaybePut ==
  ASSUME NEW p, NEW v, NEW f, f = IF v = Unset THEN <<>> ELSE Put(p, v)
  PROVE  DOMAIN f \subseteq {p} /\ (v # Unset => p \in DOMAIN f /\ f[p] = v)
<1>1. DOMAIN Put(p, v) = {p} /\ Put(p, v)[p] = v
  BY PutIs
<1>2. CASE v = Unset
  BY <1>2
<1>3. CASE v # Unset
  BY <1>1, <1>3
<1> QED BY <1>2, <1>3

-----------------------------------------------------------------------------
(* Leaves.                                                                 *)

LEMMA Heads ==
  /\ \A p \in Concatenated : p[1] = "permissions"
  /\ \A p \in ByName : p[1] = "requires"
  /\ \A p \in Policy : p[1] = "model_policy"
  /\ \A p \in MemoryLeaves : p[1] = "memory"
  /\ \A p \in ModelLeaves : p[1] = "model"
  /\ \A p \in Closed \cup {Ontology, Publication} : p[1] = "memory"
  /\ Safety[1] = "safety"
  /\ \A p \in Joined : p[1] \in {"tools", "prompts"}
<1>1. \A p \in Concatenated : p[1] = "permissions"
  BY DEF Concatenated, Of
<1>2. \A p \in ByName : p[1] = "requires"
  BY DEF ByName, Of
<1>3. \A p \in Policy : p[1] = "model_policy"
  BY DEF Policy, Of
<1>4. \A p \in Closed \cup {Ontology, Publication} : p[1] = "memory"
  BY DEF Closed, Ontology, Publication, Of
<1>5. \A p \in MemoryLeaves : p[1] = "memory"
  BY <1>4 DEF MemoryLeaves, Of
<1>6. \A p \in ModelLeaves : p[1] = "model"
  BY DEF ModelLeaves, Of
<1>7. Safety[1] = "safety"
  BY DEF Safety
<1>8. \A p \in Joined : p[1] \in {"tools", "prompts"}
  BY DEF Joined
<1> QED BY <1>1, <1>2, <1>3, <1>4, <1>5, <1>6, <1>7, <1>8

LEMMA LeavesHave ==
  /\ Concatenated \subseteq Leaves /\ ByName \subseteq Leaves /\ MemoryLeaves \subseteq Leaves
  /\ Closed \cup {Ontology, Publication} \subseteq Leaves /\ Joined \subseteq Leaves /\ Safety \in Leaves
<1>1. Closed \cup {Ontology, Publication} \subseteq MemoryLeaves
  BY DEF MemoryLeaves, Closed, Ontology, Publication, Of
<1>2. MemoryLeaves \subseteq Leaves /\ Concatenated \subseteq Leaves /\ ByName \subseteq Leaves
  BY DEF Leaves
<1>3. Joined \subseteq Leaves /\ Safety \in Leaves
  BY DEF Leaves, Joined, Of
<1> QED BY <1>1, <1>2, <1>3

\* No leaf is a profile's own matter, and none but the denials is under them.
LEMMA LeafShape ==
  ASSUME NEW p \in Leaves
  PROVE  p[1] \notin Meta /\ (Under(p, <<"permissions", "deny">>) => p = <<"permissions", "deny">>)
<1>1. ASSUME p[1] \notin Meta, p[1] # "permissions"
      PROVE  p[1] \notin Meta /\ ~Under(p, <<"permissions", "deny">>)
  BY <1>1 DEF Under, IsPrefix
<1>2. p \in MemoryLeaves \cup ModelLeaves => p[1] \notin Meta /\ p[1] # "permissions"
  BY Heads DEF Meta
<1>3. p \in TuningLeaves => p[1] \notin Meta /\ p[1] # "permissions"
  BY DEF TuningLeaves, TuningRequired, Of, Meta
<1>4. p \in BoxLeaves \cup Of("processes", {"mcp_stdio", "hooks", "lsp"}) => p[1] \notin Meta /\ p[1] # "permissions"
  BY DEF BoxLeaves, Of, Meta
<1>5. p \in ByName \cup Policy \cup Of("requires", {"models", "memory"}) => p[1] \notin Meta /\ p[1] # "permissions"
  BY Heads DEF Of, Meta
<1>6. p \in {Safety, Credentials} => p[1] \notin Meta /\ p[1] # "permissions"
  BY DEF Safety, Credentials, Meta
<1>7. p \in Of("prompts", {"system", "verifierAgent", "summarizer", "condenser"}) => p[1] \notin Meta /\ p[1] # "permissions"
  BY DEF Of, Meta
<1>8. p \in {<<"verification", "observe">>, <<"routing", "subagents">>, <<"routing", "classifyStart">>}
              \cup {<<"tools", "include">>, <<"catalog", "profile">>, <<"budgets", "maxTurns">>, <<"telemetry", "taskType">>}
      => p[1] \notin Meta /\ p[1] # "permissions"
  BY DEF Meta
<1>9. p \in UNION {{<<"verification", "selfCheck", k>> : k \in {"enabled", "minEdits"}},
                   {<<"verification", "antiChurn", k>> : k \in {"enabled", "threshold"}},
                   {<<"verification", "agent", k>> : k \in {"enabled", "tier", "riskGateMinChangedLines", "riskGate", "failMode", "task"}},
                   {<<"routing", "escalation", k>> : k \in {"ladder", "patience"}}}
      => p[1] \notin Meta /\ p[1] # "permissions"
  BY DEF Meta
<1>10. p \in Concatenated \cup {<<"permissions", "defaultMode">>} =>
         p[1] \notin Meta /\ (Under(p, <<"permissions", "deny">>) => p = <<"permissions", "deny">>)
  BY DEF Concatenated, Of, Meta, Under, IsPrefix
<1> QED BY <1>1, <1>2, <1>3, <1>4, <1>5, <1>6, <1>7, <1>8, <1>9, <1>10 DEF Leaves

-----------------------------------------------------------------------------
(* The leaves of a child.                                                  *)

\* A memory block is made of memory's leaves.
LEMMA MemoryIsMemory ==
  ASSUME NEW parent, NEW own, DOMAIN own \subseteq Leaves, DOMAIN parent.leaf \subseteq Leaves
  PROVE  \A p \in DOMAIN Memory(parent, own) : p[1] = "memory" /\ p \in Leaves
<1> DEFINE OwnTopics == \E p \in Closed : Or(Get(own, p), {}) # {}
           list == [p \in Closed |-> IF p = <<"memory", "writes">> THEN WritesOf(own) ELSE Or(Get(own, p), {})]
           inherited == {p \in DOMAIN parent.leaf : p[1] = "memory"} \ {Publication}
           said == Except(Only(own, {p \in DOMAIN own : p[1] = "memory"}), {p \in Closed \cup {Ontology} : Or(Get(own, p), {}) = {}})
           mine == IF OwnTopics THEN list ELSE <<>>
           rest == Except(Only(parent.leaf, inherited), IF OwnTopics THEN Closed ELSE {})
           all == mine ++ said ++ rest
<1>1. DOMAIN Memory(parent, own) \subseteq DOMAIN all
  BY DEF Memory
<1>2. DOMAIN all = DOMAIN mine \cup DOMAIN said \cup DOMAIN rest
  <2> HIDE DEF mine, said, rest
  <2>1. DOMAIN (mine ++ said) = DOMAIN mine \cup DOMAIN said
    BY OverIs
  <2> QED BY <2>1, OverIs
<1>3. \A p \in DOMAIN mine : p[1] = "memory" /\ p \in Leaves
  BY Heads, LeavesHave
<1>4. \A p \in DOMAIN said : p[1] = "memory" /\ p \in Leaves
  BY DEF Except, Only
<1>5. \A p \in DOMAIN rest : p[1] = "memory" /\ p \in Leaves
  BY DEF Except, Only
<1> HIDE DEF all, mine, said, rest
<1> QED BY <1>1, <1>2, <1>3, <1>4, <1>5

LEMMA ChildLeaves ==
  ASSUME NEW parent, NEW y, NEW own, DOMAIN own \subseteq Leaves, DOMAIN parent.leaf \subseteq Leaves,
         NEW leaf, leaf = LeafOver(parent, y, own)
  PROVE  /\ DOMAIN leaf \subseteq Leaves
         /\ \A p \in Concatenated : p \in DOMAIN leaf /\ leaf[p] = Concat(parent, own, p)
         /\ \A p \in ByName :
              /\ p \in DOMAIN leaf <=> p \in DOMAIN own \cup DOMAIN parent.leaf
              /\ p \in DOMAIN leaf => leaf[p] = Union(parent, own, p)
         /\ \A p \in Leaves : p[1] = "memory" =>
              /\ p \in DOMAIN leaf <=> p \in DOMAIN Memory(parent, own)
              /\ p \in DOMAIN leaf => leaf[p] = Memory(parent, own)[p]
         /\ \A p \in Leaves \ UNION {Concatenated, ByName, {Safety}, Joined} : p[1] # "memory" =>
              /\ p \in DOMAIN leaf <=> p \in DOMAIN own \/ (p \in DOMAIN parent.leaf /\ p \notin Policy)
              /\ p \in DOMAIN own => leaf[p] = own[p]
              /\ p \in DOMAIN leaf /\ p \notin DOMAIN own => leaf[p] = parent.leaf[p]
         /\ Safety \in DOMAIN leaf => Safety \in DOMAIN own \cup DOMAIN parent.leaf
         /\ LET block == LockPlanHash(IF Safety \in DOMAIN own THEN own[Safety] ELSE Get(parent.leaf, Safety))
            IN block # Unset => Safety \in DOMAIN leaf /\ leaf[Safety] = block
<1> DEFINE inherited == {p \in DOMAIN parent.leaf : p \notin Policy /\ p[1] # "memory"}
           mine == Only(own, {p \in DOMAIN own : p[1] # "memory"})
           theirs == Only(parent.leaf, inherited)
           base == mine ++ theirs
           required == {p \in ByName : \E f \in {own, parent.leaf} : p \in DOMAIN f}
           safety == LockPlanHash(Get(base, Safety))
           include == Tools(Get(base, <<"tools", "include">>), y.modules)
           A == [p \in Concatenated |-> Concat(parent, own, p)]
           B == [p \in required |-> Union(parent, own, p)]
           C == IF safety = Unset THEN <<>> ELSE Put(Safety, safety)
           D == IF include = Unset THEN <<>> ELSE Put(<<"tools", "include">>, include)
           E == Put(<<"prompts", "system">>, System(base[<<"prompts", "system">>], y.modules))
           F == Memory(parent, own)
<1>1. leaf = A ++ B ++ C ++ D ++ E ++ F ++ base
  BY DEF LeafOver
<1>2. DOMAIN A = Concatenated /\ (\A p \in Concatenated : A[p] = Concat(parent, own, p))
  OBVIOUS
<1>3. DOMAIN B = required /\ (\A p \in required : B[p] = Union(parent, own, p))
  OBVIOUS
<1>4. DOMAIN C \subseteq {Safety}
  <2> HIDE DEF safety
  <2> QED BY MaybePut
<1>41. safety # Unset => Safety \in DOMAIN C /\ C[Safety] = safety
  <2> HIDE DEF safety
  <2> QED BY MaybePut
<1>42. safety = Unset => DOMAIN C = {}
  <2> HIDE DEF safety
  <2> QED OBVIOUS
<1>5. DOMAIN D \subseteq Joined
  <2>1. DOMAIN D \subseteq {<<"tools", "include">>}
    <3> HIDE DEF include
    <3> QED BY MaybePut
  <2> QED BY <2>1 DEF Joined
<1>6. DOMAIN E \subseteq Joined
  <2> DEFINE v == System(base[<<"prompts", "system">>], y.modules)
  <2>1. DOMAIN E = {<<"prompts", "system">>}
    <3> HIDE DEF v
    <3> QED BY PutIs
  <2> QED BY <2>1 DEF Joined
<1>7. \A p \in DOMAIN F : p[1] = "memory" /\ p \in Leaves
  BY MemoryIsMemory
<1>8. /\ \A p : p \in DOMAIN mine <=> p \in DOMAIN own /\ p[1] # "memory"
      /\ \A p \in DOMAIN mine : mine[p] = own[p]
  BY DEF Only
<1>9. /\ \A p : p \in DOMAIN theirs <=> p \in DOMAIN parent.leaf /\ p \notin Policy /\ p[1] # "memory"
      /\ \A p \in DOMAIN theirs : theirs[p] = parent.leaf[p]
  BY DEF Only
<1> HIDE DEF mine, theirs
<1>10. /\ \A p : p \in DOMAIN base <=> p[1] # "memory" /\ (p \in DOMAIN own \/ (p \in DOMAIN parent.leaf /\ p \notin Policy))
       /\ \A p \in DOMAIN base : base[p] = IF p \in DOMAIN own THEN own[p] ELSE parent.leaf[p]
  <2>1. /\ DOMAIN (mine ++ theirs) = DOMAIN mine \cup DOMAIN theirs
        /\ \A x \in DOMAIN mine : (mine ++ theirs)[x] = mine[x]
        /\ \A x \in DOMAIN theirs : x \notin DOMAIN mine => (mine ++ theirs)[x] = theirs[x]
    BY OverIs
  <2> QED BY <1>8, <1>9, <2>1
<1> DEFINE given == IF Safety \in DOMAIN own THEN own[Safety] ELSE Get(parent.leaf, Safety)
<1>43. Get(base, Safety) = given
  <2>1. Safety[1] # "memory" /\ Safety \notin Policy
    BY Heads
  <2> HIDE DEF base
  <2> QED BY <1>10, <2>1 DEF Get
<1>44. safety = LockPlanHash(given)
  <2> HIDE DEF base, given
  <2> QED BY <1>43
<1> HIDE DEF A, B, C, D, E, F, base, given, safety
<1> DEFINE AB == A ++ B  AC == AB ++ C  AD == AC ++ D  AE == AD ++ E  AF == AE ++ F
<1>11. DOMAIN AB = DOMAIN A \cup DOMAIN B /\ (\A p \in DOMAIN A : AB[p] = A[p])
       /\ (\A p \in DOMAIN B : p \notin DOMAIN A => AB[p] = B[p])
  BY OverIs
<1>12. leaf = AF ++ base
  BY <1>1
<1> HIDE DEF AB
<1>13. DOMAIN AC = DOMAIN AB \cup DOMAIN C /\ (\A p \in DOMAIN AB : AC[p] = AB[p])
       /\ (\A p \in DOMAIN C : p \notin DOMAIN AB => AC[p] = C[p])
  BY OverIs
<1> HIDE DEF AC
<1>14. DOMAIN AD = DOMAIN AC \cup DOMAIN D /\ (\A p \in DOMAIN AC : AD[p] = AC[p])
  BY OverIs
<1> HIDE DEF AD
<1>15. DOMAIN AE = DOMAIN AD \cup DOMAIN E /\ (\A p \in DOMAIN AD : AE[p] = AD[p])
  BY OverIs
<1> HIDE DEF AE
<1>16. DOMAIN AF = DOMAIN AE \cup DOMAIN F /\ (\A p \in DOMAIN AE : AF[p] = AE[p])
       /\ (\A p \in DOMAIN F : p \notin DOMAIN AE => AF[p] = F[p])
  BY OverIs
<1> HIDE DEF AF
<1>17. DOMAIN leaf = DOMAIN AF \cup DOMAIN base /\ (\A p \in DOMAIN AF : leaf[p] = AF[p])
       /\ (\A p \in DOMAIN base : p \notin DOMAIN AF => leaf[p] = base[p])
  <2>1. /\ DOMAIN (AF ++ base) = DOMAIN AF \cup DOMAIN base
        /\ \A x \in DOMAIN AF : (AF ++ base)[x] = AF[x]
        /\ \A x \in DOMAIN base : x \notin DOMAIN AF => (AF ++ base)[x] = base[x]
    BY OverIs
  <2> QED BY <1>12, <2>1
<1>18. DOMAIN AE \subseteq Concatenated \cup required \cup {Safety} \cup Joined
  BY <1>2, <1>3, <1>4, <1>5, <1>6, <1>11, <1>13, <1>14, <1>15
<1>19. \A p \in DOMAIN AE : p[1] # "memory"
  BY <1>18, Heads
<1>20. \A p \in DOMAIN AB : p \in DOMAIN leaf /\ leaf[p] = AB[p]
  BY <1>13, <1>14, <1>15, <1>16, <1>17
<1>21. DOMAIN leaf \subseteq Leaves
  BY <1>7, <1>10, <1>16, <1>17, <1>18, LeavesHave
<1>22. ASSUME NEW p \in Concatenated PROVE p \in DOMAIN leaf /\ leaf[p] = Concat(parent, own, p)
  BY <1>2, <1>11, <1>20
<1>23. ASSUME NEW p \in ByName
       PROVE  /\ p \in DOMAIN leaf <=> p \in DOMAIN own \cup DOMAIN parent.leaf
              /\ p \in DOMAIN leaf => leaf[p] = Union(parent, own, p)
  <2>1. p \notin Concatenated /\ p # Safety /\ p \notin Joined /\ p[1] # "memory"
    BY Heads
  <2>2. p \in required <=> p \in DOMAIN own \cup DOMAIN parent.leaf
    OBVIOUS
  <2>3. p \in required => p \in DOMAIN leaf /\ leaf[p] = Union(parent, own, p)
    BY <1>2, <1>3, <1>11, <1>20, <2>1
  <2>4. p \in DOMAIN leaf => p \in required
    BY <1>7, <1>10, <1>16, <1>17, <1>18, <2>1, <2>2
  <2> QED BY <2>2, <2>3, <2>4
<1>24. ASSUME NEW p \in Leaves, p[1] = "memory"
       PROVE  /\ p \in DOMAIN leaf <=> p \in DOMAIN F
              /\ p \in DOMAIN leaf => leaf[p] = F[p]
  BY <1>10, <1>16, <1>17, <1>19, <1>24
<1>25. ASSUME NEW p \in Leaves \ UNION {Concatenated, ByName, {Safety}, Joined}, p[1] # "memory"
       PROVE  /\ p \in DOMAIN leaf <=> p \in DOMAIN own \/ (p \in DOMAIN parent.leaf /\ p \notin Policy)
              /\ p \in DOMAIN own => leaf[p] = own[p]
              /\ p \in DOMAIN leaf /\ p \notin DOMAIN own => leaf[p] = parent.leaf[p]
  <2>1. p \notin DOMAIN AF
    BY <1>7, <1>16, <1>18, <1>25
  <2> QED BY <1>10, <1>17, <1>25, <2>1
<1>26. Safety \notin DOMAIN AB /\ Safety \notin Joined /\ Safety[1] # "memory" /\ Safety \notin Policy
  BY <1>2, <1>3, <1>11, Heads
<1>27. safety # Unset => Safety \in DOMAIN leaf /\ leaf[Safety] = safety
  BY <1>13, <1>14, <1>15, <1>16, <1>17, <1>26, <1>41
<1>28. Safety \in DOMAIN leaf => Safety \in DOMAIN own \cup DOMAIN parent.leaf
  <2> SUFFICES ASSUME Safety \in DOMAIN leaf, Safety \notin DOMAIN own \cup DOMAIN parent.leaf PROVE FALSE
    OBVIOUS
  <2>1. given = Unset
    BY DEF given, Get
  <2>2. safety = Unset
    BY <1>44, <2>1 DEF LockPlanHash
  <2> QED BY <1>5, <1>6, <1>7, <1>10, <1>13, <1>14, <1>15, <1>16, <1>17, <1>26, <1>42, <2>2
<1> QED BY <1>21, <1>22, <1>23, <1>24, <1>25, <1>27, <1>28, <1>44 DEF F, given

-----------------------------------------------------------------------------
(* Memory.                                                                 *)

\* A block there is has a leaf that carries it, and a leaf that the child does not set and that is in no list of
\* the schema's defaults stays as it is.
LEMMA MemoryStays ==
  ASSUME NEW parent, NEW own, DOMAIN own \subseteq Leaves, Whole(parent)
  PROVE  LET M == Memory(parent, own) IN
         /\ DOMAIN M # {} => \E p \in DOMAIN M : p # Publication /\ Carries(M, p)
         /\ \A q \in Leaves : q[1] = "memory" /\ q \notin DOMAIN own \cup Closed \cup {Ontology, Publication} =>
              /\ q \in DOMAIN M <=> q \in DOMAIN parent.leaf
              /\ q \in DOMAIN M => M[q] = parent.leaf[q]
<1> DEFINE OwnTopics == \E p \in Closed : Or(Get(own, p), {}) # {}
           list == [p \in Closed |-> IF p = <<"memory", "writes">> THEN WritesOf(own) ELSE Or(Get(own, p), {})]
           inherited == {p \in DOMAIN parent.leaf : p[1] = "memory"} \ {Publication}
           said == Except(Only(own, {p \in DOMAIN own : p[1] = "memory"}), {p \in Closed \cup {Ontology} : Or(Get(own, p), {}) = {}})
           mine == IF OwnTopics THEN list ELSE <<>>
           rest == Except(Only(parent.leaf, inherited), IF OwnTopics THEN Closed ELSE {})
           all == mine ++ said ++ rest
           Makes(p) == ~(p \in Of("memory", {"owner", "mode", "sharing", "publication"})) /\ (p \in Closed => all[p] # {})
           M == Memory(parent, own)
<1>1. M = IF \E p \in DOMAIN all : Makes(p) THEN all ELSE <<>>
  BY DEF Memory
<1>2. /\ OwnTopics => DOMAIN mine = Closed
      /\ ~OwnTopics => DOMAIN mine = {}
  <2>1. CASE OwnTopics
    BY <2>1
  <2>2. CASE ~OwnTopics
    BY <2>2
  <2> QED BY <2>1, <2>2
<1>3. ASSUME NEW p \in Closed, Or(Get(own, p), {}) # {} PROVE p \in DOMAIN mine /\ mine[p] # {}
  <2>1. OwnTopics
    BY <1>3
  <2>2. mine = list
    BY <2>1
  <2>3. CASE p = <<"memory", "writes">>
    <3>1. WritesOf(own) # {}
      BY <1>3, <2>3 DEF WritesOf
    <3>2. list[p] = WritesOf(own)
      BY <2>3
    <3> QED BY <2>1, <2>2, <3>1, <3>2
  <2>4. CASE p # <<"memory", "writes">>
    <3>1. list[p] = Or(Get(own, p), {})
      BY <2>4
    <3> QED BY <1>3, <2>2, <3>1
  <2> QED BY <2>3, <2>4
<1>4. \A p \in DOMAIN said : p \in DOMAIN own /\ (p \in Closed => Or(Get(own, p), {}) # {})
  BY DEF Except, Only
<1>5. /\ \A p : p \in DOMAIN rest <=> /\ p \in DOMAIN parent.leaf /\ p[1] = "memory" /\ p # Publication
                                      /\ ~(OwnTopics /\ p \in Closed)
      /\ \A p \in DOMAIN rest : rest[p] = parent.leaf[p]
  <2> DEFINE S == IF OwnTopics THEN Closed ELSE {}
  <2>1. \A p : p \in S <=> OwnTopics /\ p \in Closed
    OBVIOUS
  <2> HIDE DEF S
  <2>2. DOMAIN Only(parent.leaf, inherited) = inherited /\ \A p \in inherited : Only(parent.leaf, inherited)[p] = parent.leaf[p]
    BY DEF Only
  <2> QED BY <2>1, <2>2 DEF Except, S
<1> HIDE DEF mine, said, rest
<1>6. /\ DOMAIN all = DOMAIN mine \cup DOMAIN said \cup DOMAIN rest
      /\ \A p \in DOMAIN mine : all[p] = mine[p]
      /\ \A p \in DOMAIN rest : p \notin DOMAIN mine \cup DOMAIN said => all[p] = rest[p]
  <2> DEFINE some == mine ++ said
  <2>1. DOMAIN some = DOMAIN mine \cup DOMAIN said /\ \A p \in DOMAIN mine : some[p] = mine[p]
    BY OverIs
  <2>2. all = some ++ rest
    OBVIOUS
  <2> HIDE DEF some, all
  <2>3. /\ DOMAIN (some ++ rest) = DOMAIN some \cup DOMAIN rest
        /\ \A p \in DOMAIN some : (some ++ rest)[p] = some[p]
        /\ \A p \in DOMAIN rest : p \notin DOMAIN some => (some ++ rest)[p] = rest[p]
    BY OverIs
  <2> QED BY <2>1, <2>2, <2>3
<1> HIDE DEF all
<1>7. DOMAIN M # {} => \E p \in DOMAIN M : p # Publication /\ Carries(M, p)
  <2> SUFFICES ASSUME DOMAIN M # {} PROVE \E p \in DOMAIN M : p # Publication /\ Carries(M, p)
    OBVIOUS
  <2>1. M = all /\ \E p \in DOMAIN all : Makes(p)
    BY <1>1
  <2>2. PICK p \in DOMAIN all : Makes(p)
    BY <2>1
  <2>3. p # Publication
    BY <2>2 DEF Of, Publication
  <2> QED BY <2>1, <2>2, <2>3 DEF Carries
<1>8. ASSUME NEW q \in DOMAIN parent.leaf, q[1] = "memory", q \notin DOMAIN own \cup Closed \cup {Ontology, Publication}
      PROVE  q \in DOMAIN M
  <2>1. q \in DOMAIN all
    BY <1>5, <1>6, <1>8
  <2>2. \E p \in DOMAIN all : Makes(p)
    <3>1. CASE OwnTopics
      <4>1. PICK p \in Closed : Or(Get(own, p), {}) # {}
        BY <3>1
      <4>2. p \in DOMAIN all /\ all[p] # {}
        BY <1>3, <1>6, <4>1
      <4>3. p \notin Of("memory", {"owner", "mode", "sharing", "publication"})
        BY DEF Closed, Of
      <4> QED BY <4>2, <4>3
    <3>2. CASE ~OwnTopics
      <4>1. q \in InMemory(parent.leaf)
        BY <1>8 DEF InMemory
      <4>2. PICK c \in InMemory(parent.leaf) : Carries(parent.leaf, c)
        BY <4>1 DEF Whole
      <4>3. c \in DOMAIN rest /\ rest[c] = parent.leaf[c] /\ c \notin DOMAIN mine
        BY <1>2, <1>5, <3>2, <4>2 DEF InMemory
      <4>4. c \in Closed => all[c] # {}
        <5> SUFFICES ASSUME c \in Closed PROVE all[c] # {}
          OBVIOUS
        <5>1. c \notin DOMAIN said
          BY <1>4, <3>2
        <5> QED BY <1>6, <4>2, <4>3, <5>1 DEF Carries
      <4> QED BY <1>6, <4>2, <4>3, <4>4 DEF Carries
    <3> QED BY <3>1, <3>2
  <2> QED BY <1>1, <2>1, <2>2
<1>9. ASSUME NEW q \in DOMAIN M, q[1] = "memory", q \notin DOMAIN own \cup Closed \cup {Ontology, Publication}
      PROVE  q \in DOMAIN parent.leaf /\ M[q] = parent.leaf[q]
  <2>1. M = all
    BY <1>1, <1>9
  <2>2. q \in DOMAIN rest /\ q \notin DOMAIN mine /\ q \notin DOMAIN said
    BY <1>2, <1>4, <1>6, <1>9, <2>1
  <2> QED BY <1>5, <1>6, <2>1, <2>2
<1> QED BY <1>7, <1>8, <1>9

-----------------------------------------------------------------------------
(* Safety blocks, requirements, pins.                                      *)

\* A block hashes the plan it wants, and hashing it again changes nothing.
LEMMA LockedHash ==
  ASSUME NEW block \in SafetyBlock
  PROVE  /\ LockPlanHash(block) \in SafetyBlock /\ LockPlanHash(block) # Unset
         /\ LockPlanHash(block).requirePlanArtifact => "plan" \in LockPlanHash(block).hash
         /\ (block.requirePlanArtifact => "plan" \in block.hash) => LockPlanHash(block) = block
<1>1. block # Unset
  BY UnsetAssumption
<1>2. CASE ~block.requirePlanArtifact
  BY <1>1, <1>2, UnsetAssumption DEF LockPlanHash
<1>3. CASE block.requirePlanArtifact
  <2> DEFINE more == [block EXCEPT !.hash = block.hash \cup {"plan"}]
  <2>1. LockPlanHash(block) = more
    BY <1>1, <1>3 DEF LockPlanHash
  <2>2. more.hash = block.hash \cup {"plan"} /\ more.requirePlanArtifact = block.requirePlanArtifact
    BY DEF SafetyBlock
  <2>3. more \in SafetyBlock
    BY WordsAssumption DEF SafetyBlock
  <2>4. "plan" \in block.hash => more = block
    <3> SUFFICES ASSUME "plan" \in block.hash PROVE more = block
      OBVIOUS
    <3>1. block.hash \cup {"plan"} = block.hash
      OBVIOUS
    <3>2. [block EXCEPT !.hash = block.hash] = block
      BY DEF SafetyBlock
    <3> QED BY <3>1, <3>2
  <2> QED BY <1>3, <2>1, <2>2, <2>3, <2>4, UnsetAssumption
<1> QED BY <1>2, <1>3

\* Maps by name stay maps by name when one is put over another.
IsMap(r) == DOMAIN r \subseteq Words /\ r \in [DOMAIN r -> Levels]

LEMMA MapOverMap ==
  ASSUME NEW f, NEW g, IsMap(f), IsMap(g)
  PROVE  IsMap(f ++ g) /\ f ++ g # Unset /\ f # Unset
<1>1. /\ DOMAIN (f ++ g) = DOMAIN f \cup DOMAIN g
      /\ \A x \in DOMAIN f : (f ++ g)[x] = f[x]
      /\ \A x \in DOMAIN g : x \notin DOMAIN f => (f ++ g)[x] = g[x]
  BY OverIs
<1>2. f ++ g = [x \in DOMAIN f \cup DOMAIN g |-> IF x \in DOMAIN f THEN f[x] ELSE g[x]]
  <2>1. f ++ g = Over(f, g)
    BY DEF ++
  <2>2. Over(f, g) = [x \in DOMAIN f \cup DOMAIN g |-> IF x \in DOMAIN f THEN f[x] ELSE g[x]]
    BY DEF Over
  <2> QED BY <2>1, <2>2
<1>3. f ++ g \in [DOMAIN f \cup DOMAIN g -> Levels]
  BY <1>2 DEF IsMap
<1> QED BY <1>1, <1>3, UnsetAssumption DEF IsMap

LEMMA NothingOverMap ==
  ASSUME NEW f, IsMap(f)
  PROVE  <<>> ++ f = f /\ IsMap(<<>>)
<1>1. DOMAIN <<>> = {}
  OBVIOUS
<1>2. <<>> ++ f = Over(<<>>, f)
  BY DEF ++
<1>3. Over(<<>>, f) = [x \in DOMAIN f |-> f[x]]
  <2>1. Over(<<>>, f) = [x \in DOMAIN <<>> \cup DOMAIN f |-> IF x \in DOMAIN <<>> THEN <<>>[x] ELSE f[x]]
    BY DEF Over
  <2>2. DOMAIN <<>> \cup DOMAIN f = DOMAIN f
    BY <1>1
  <2>3. \A x \in DOMAIN f : (IF x \in DOMAIN <<>> THEN <<>>[x] ELSE f[x]) = f[x]
    BY <1>1
  <2> QED BY <2>1, <2>2, <2>3
<1>4. f = [x \in DOMAIN f |-> f[x]]
  BY DEF IsMap
<1>5. IsMap(<<>>)
  BY <1>1 DEF IsMap
<1> QED BY <1>2, <1>3, <1>4, <1>5

\* What a profile pins comes from its own leaves or its parent's.
LEMMA PinsFrom ==
  ASSUME NEW a, NEW b, NEW c, \A p \in ModelLeaves : Get(a, p) \in {Get(b, p), Get(c, p)}
  PROVE  PinnedModels(a) \subseteq PinnedModels(b) \cup PinnedModels(c)
<1> DEFINE Places == {<<"model", "main">>, <<"model", "subagents", "readOnly">>, <<"model", "subagents", "verify">>}
           Tiers(f) == {Get(f, <<"model", "tiers", t>>) : t \in TierNames} \ {Unset}
           Named(f) == {Get(f, p) : p \in Places}
           Pins(f) == (Named(f) \cup {t.primary : t \in Tiers(f)} \cup UNION {t.fallbacks : t \in Tiers(f)})
                        \ (TierNames \cup {"inherit", Unset})
<1>1. \A p \in Places : p \in ModelLeaves
  BY DEF ModelLeaves, Of
<1>2. \A t \in TierNames : <<"model", "tiers", t>> \in ModelLeaves
  BY DEF ModelLeaves
<1>3. Named(a) \subseteq Named(b) \cup Named(c)
  BY <1>1
<1>4. Tiers(a) \subseteq Tiers(b) \cup Tiers(c)
  BY <1>2
<1>5. \A f : PinnedModels(f) = Pins(f)
  BY DEF PinnedModels
<1> HIDE DEF Named, Tiers
<1>6. Pins(a) \subseteq Pins(b) \cup Pins(c)
  BY <1>3, <1>4
<1> HIDE DEF Pins
<1> QED BY <1>5, <1>6

-----------------------------------------------------------------------------
(* What a child does to its parent.                                        *)

\* A child does not set what is fixed.
LEMMA NotOver ==
  ASSUME NEW parent, NEW y, DOMAIN y.own \subseteq Leaves, ~LockViolated(parent.locked, Overridden(y)),
         NEW x \in Leaves, Fixed(parent, x)
  PROVE  x \notin DOMAIN y.own \cup Defaulted(y.own)
<1> SUFFICES ASSUME x \in DOMAIN y.own \cup Defaulted(y.own) PROVE FALSE
  OBVIOUS
<1>1. x[1] \notin Meta /\ ~Under(x, <<"permissions", "deny">>)
  BY LeafShape DEF Fixed, Exempt
<1>2. x \in Overridden(y)
  BY <1>1 DEF Overridden
<1> QED BY <1>2 DEF LockViolated, Fixed

\* What a file says, its prompt files found: the rest of it is as it was.
LEMMA OwnIsTyped ==
  ASSUME NEW y, NEW own, DOMAIN own = DOMAIN y.own, \A p \in DOMAIN own \ DOMAIN y.files : own[p] = y.own[p],
         DOMAIN y.own \subseteq Leaves, Typed(y.own), PinnedModels(y.own) \subseteq AnyModel,
         \A p \in DOMAIN y.files : p[1] \in {"prompts", "modules"}
  PROVE  Typed(own) /\ PinnedModels(own) \subseteq AnyModel
<1>1. \A p \in DOMAIN own : p[1] \notin {"prompts", "modules"} => own[p] = y.own[p]
  OBVIOUS
<1>2. Typed(own)
  <2>1. ASSUME NEW p \in DOMAIN own \cap Concatenated PROVE own[p] = y.own[p]
    BY <1>1, Heads
  <2>2. ASSUME NEW p \in DOMAIN own \cap ByName PROVE own[p] = y.own[p]
    BY <1>1, Heads
  <2>3. Safety \in DOMAIN own => own[Safety] = y.own[Safety]
    BY <1>1, Heads
  <2> HIDE DEF Typed
  <2> QED BY <2>1, <2>2, <2>3 DEF Typed
<1>3. \A p \in ModelLeaves : Get(own, p) \in {Get(y.own, p), Get(y.own, p)}
  BY <1>1, Heads DEF Get
<1>4. PinnedModels(own) \subseteq PinnedModels(y.own) \cup PinnedModels(y.own)
  BY <1>3, PinsFrom
<1> QED BY <1>2, <1>4

LEMMA ChildLists ==
  ASSUME NEW parent, NEW own, NEW p \in Concatenated, Whole(parent), Typed(own)
  PROVE  /\ Concat(parent, own, p) \in SUBSET Words
         /\ parent.leaf[p] \subseteq Concat(parent, own, p) /\ Or(Get(parent.leaf, p), {}) = parent.leaf[p]
         /\ p \notin DOMAIN own => Concat(parent, own, p) = parent.leaf[p]
<1>1. p \in DOMAIN parent.leaf /\ parent.leaf[p] \in SUBSET Words
  BY DEF Whole, Typed
<1>2. Or(Get(parent.leaf, p), {}) = parent.leaf[p]
  BY <1>1, UnsetAssumption DEF Or, Get
<1>3. Or(Get(own, p), {}) \in SUBSET Words
  BY DEF Typed, Or, Get
<1>4. p \notin DOMAIN own => Or(Get(own, p), {}) = {}
  BY DEF Or, Get
<1> QED BY <1>1, <1>2, <1>3, <1>4 DEF Concat

\* Of a map by name there may be none.
LEMMA MapOrNone ==
  ASSUME NEW f, NEW p \in ByName, Typed(f)
  PROVE  /\ IsMap(Or(Get(f, p), <<>>))
         /\ p \in DOMAIN f => IsMap(f[p]) /\ f[p] # Unset /\ Or(Get(f, p), <<>>) = f[p]
         /\ p \notin DOMAIN f => Or(Get(f, p), <<>>) = <<>>
<1>1. CASE p \notin DOMAIN f
  <2>1. Or(Get(f, p), <<>>) = <<>>
    BY <1>1 DEF Or, Get
  <2>2. IsMap(<<>>)
    BY DEF IsMap
  <2> QED BY <1>1, <2>1, <2>2
<1>2. CASE p \in DOMAIN f
  <2>1. IsMap(f[p])
    BY <1>2 DEF Typed, IsMap
  <2>2. f[p] # Unset
    BY <2>1, UnsetAssumption DEF IsMap
  <2> QED BY <1>2, <2>1, <2>2 DEF Or, Get
<1> QED BY <1>1, <1>2

LEMMA ChildMaps ==
  ASSUME NEW parent, NEW own, NEW p \in ByName, Whole(parent), Typed(own)
  PROVE  /\ IsMap(Union(parent, own, p)) /\ Union(parent, own, p) # Unset
         /\ DOMAIN Or(Get(parent.leaf, p), <<>>) \subseteq DOMAIN Union(parent, own, p)
         /\ p \notin DOMAIN own /\ p \in DOMAIN parent.leaf => Union(parent, own, p) = parent.leaf[p]
<1> DEFINE f == Or(Get(own, p), <<>>)  g == Or(Get(parent.leaf, p), <<>>)
<1>1. IsMap(f) /\ IsMap(g)
  BY MapOrNone DEF Whole
<1>2. Union(parent, own, p) = f ++ g
  BY DEF Union
<1>3. p \notin DOMAIN own => f = <<>>
  BY MapOrNone
<1>4. p \in DOMAIN parent.leaf => g = parent.leaf[p]
  BY MapOrNone DEF Whole
<1> HIDE DEF f, g
<1>5. IsMap(f ++ g) /\ f ++ g # Unset
  BY <1>1, MapOverMap
<1>6. DOMAIN (f ++ g) = DOMAIN f \cup DOMAIN g
  BY OverIs
<1>7. f = <<>> => f ++ g = g
  BY <1>1, NothingOverMap
<1> QED BY <1>2, <1>3, <1>4, <1>5, <1>6, <1>7 DEF g

\* A child that is accepted keeps what is locked, and is whole again.
LEMMA ChildKeeps ==
  ASSUME NEW parent, NEW y, NEW own, Whole(parent), Sealed(parent),
         DOMAIN own = DOMAIN y.own, DOMAIN y.own \subseteq Leaves, Typed(own),
         ~LockViolated(parent.locked, Overridden(y)),
         NEW leaf, leaf = LeafOver(parent, y, own),
         NEW x \in Leaves, Fixed(parent, x)
  PROVE  Get(leaf, x) = Get(parent.leaf, x)
<1>1. x \notin DOMAIN own \cup Defaulted(y.own)
  BY NotOver
<1>2. x \notin OwnOnly /\ x \notin Joined /\ x # <<"permissions", "deny">>
  BY DEF Fixed, Exempt
<1>3. DOMAIN parent.leaf \subseteq Leaves /\ Typed(parent.leaf)
  BY DEF Whole
<1>4. CASE x \in Concatenated
  <2>1. x \in DOMAIN leaf /\ leaf[x] = Concat(parent, own, x)
    BY <1>3, <1>4, ChildLeaves
  <2>2. x \in DOMAIN parent.leaf
    BY <1>4 DEF Whole
  <2>3. Concat(parent, own, x) = parent.leaf[x]
    BY <1>1, <1>4, ChildLists
  <2> QED BY <2>1, <2>2, <2>3 DEF Get
<1>5. CASE x \in ByName
  <2>1. /\ x \in DOMAIN leaf <=> x \in DOMAIN own \cup DOMAIN parent.leaf
        /\ x \in DOMAIN leaf => leaf[x] = Union(parent, own, x)
    BY <1>3, <1>5, ChildLeaves
  <2>2. x \in DOMAIN parent.leaf => Union(parent, own, x) = parent.leaf[x]
    BY <1>1, <1>5, ChildMaps
  <2> QED BY <1>1, <2>1, <2>2 DEF Get
<1>6. CASE x = Safety
  <2>1. /\ Safety \in DOMAIN leaf => Safety \in DOMAIN own \cup DOMAIN parent.leaf
        /\ LET block == LockPlanHash(IF Safety \in DOMAIN own THEN own[Safety] ELSE Get(parent.leaf, Safety))
           IN block # Unset => Safety \in DOMAIN leaf /\ leaf[Safety] = block
    BY <1>3, ChildLeaves
  <2>2. CASE Safety \notin DOMAIN parent.leaf
    BY <1>1, <1>6, <2>1, <2>2 DEF Get
  <2>3. CASE Safety \in DOMAIN parent.leaf
    <3>1. parent.leaf[Safety] \in SafetyBlock
      BY <1>3, <2>3 DEF Typed
    <3>2. LockPlanHash(parent.leaf[Safety]) = parent.leaf[Safety] /\ LockPlanHash(parent.leaf[Safety]) # Unset
      BY <2>3, <3>1, LockedHash DEF Sealed
    <3> QED BY <1>1, <1>6, <2>1, <2>3, <3>2 DEF Get
  <2> QED BY <2>2, <2>3
<1>7. CASE x[1] = "memory"
  <2>1. x \notin DOMAIN own \cup Closed \cup {Ontology, Publication}
    BY <1>1, <1>2 DEF Defaulted, OwnOnly
  <2>2. /\ x \in DOMAIN Memory(parent, own) <=> x \in DOMAIN parent.leaf
        /\ x \in DOMAIN Memory(parent, own) => Memory(parent, own)[x] = parent.leaf[x]
    BY <1>7, <2>1, MemoryStays
  <2>3. /\ x \in DOMAIN leaf <=> x \in DOMAIN Memory(parent, own)
        /\ x \in DOMAIN leaf => leaf[x] = Memory(parent, own)[x]
    BY <1>3, <1>7, ChildLeaves
  <2> QED BY <2>2, <2>3 DEF Get
<1>8. CASE x \notin UNION {Concatenated, ByName, {Safety}, Joined} /\ x[1] # "memory"
  <2>1. /\ x \in DOMAIN leaf <=> x \in DOMAIN own \/ (x \in DOMAIN parent.leaf /\ x \notin Policy)
        /\ x \in DOMAIN leaf /\ x \notin DOMAIN own => leaf[x] = parent.leaf[x]
    BY <1>3, <1>8, ChildLeaves
  <2> QED BY <1>1, <1>2, <2>1 DEF Get, OwnOnly
<1> QED BY <1>2, <1>4, <1>5, <1>6, <1>7, <1>8

LEMMA ChildIsWhole ==
  ASSUME NEW parent, NEW y, NEW own, Whole(parent), Sealed(parent),
         DOMAIN own \subseteq Leaves, Typed(own), PinnedModels(own) \subseteq AnyModel,
         NEW leaf, leaf = LeafOver(parent, y, own), NEW prof, prof.leaf = leaf
  PROVE  /\ Whole(prof)
         /\ Safety \in DOMAIN leaf =>
              /\ leaf[Safety] \in SafetyBlock
              /\ leaf[Safety].requirePlanArtifact => "plan" \in leaf[Safety].hash
<1>1. DOMAIN parent.leaf \subseteq Leaves /\ Typed(parent.leaf)
  BY DEF Whole
<1>2. DOMAIN leaf \subseteq Leaves /\ Concatenated \subseteq DOMAIN leaf
  BY <1>1, ChildLeaves
<1>3. \A p \in Concatenated : leaf[p] \in SUBSET Words
  <2> TAKE p \in Concatenated
  <2>1. leaf[p] = Concat(parent, own, p)
    BY <1>1, ChildLeaves
  <2> QED BY <2>1, ChildLists
<1>4. \A p \in DOMAIN leaf \cap ByName : IsMap(leaf[p])
  <2> TAKE p \in DOMAIN leaf \cap ByName
  <2>1. leaf[p] = Union(parent, own, p)
    BY <1>1, ChildLeaves
  <2> QED BY <2>1, ChildMaps
<1>5. Safety \in DOMAIN leaf =>
        /\ leaf[Safety] \in SafetyBlock
        /\ leaf[Safety].requirePlanArtifact => "plan" \in leaf[Safety].hash
  <2> SUFFICES ASSUME Safety \in DOMAIN leaf
               PROVE  /\ leaf[Safety] \in SafetyBlock
                      /\ leaf[Safety].requirePlanArtifact => "plan" \in leaf[Safety].hash
    OBVIOUS
  <2> DEFINE given == IF Safety \in DOMAIN own THEN own[Safety] ELSE Get(parent.leaf, Safety)
  <2>1. Safety \in DOMAIN own \cup DOMAIN parent.leaf
    BY <1>1, ChildLeaves
  <2>2. given \in SafetyBlock
    BY <1>1, <2>1 DEF Typed, Get
  <2>3. LockPlanHash(given) # Unset => leaf[Safety] = LockPlanHash(given)
    BY <1>1, ChildLeaves
  <2> HIDE DEF given
  <2> QED BY <2>2, <2>3, LockedHash
<1>6. Typed(leaf)
  BY <1>3, <1>4, <1>5 DEF Typed, IsMap
<1>7. PinnedModels(leaf) \subseteq AnyModel
  <2>1. ASSUME NEW p \in ModelLeaves PROVE Get(leaf, p) \in {Get(own, p), Get(parent.leaf, p)}
    <3>1. p \in Leaves \ UNION {Concatenated, ByName, {Safety}, Joined} /\ p[1] # "memory" /\ p \notin Policy
      BY Heads DEF Leaves
    <3>2. /\ p \in DOMAIN leaf <=> p \in DOMAIN own \/ (p \in DOMAIN parent.leaf /\ p \notin Policy)
          /\ p \in DOMAIN own => leaf[p] = own[p]
          /\ p \in DOMAIN leaf /\ p \notin DOMAIN own => leaf[p] = parent.leaf[p]
      BY <1>1, <3>1, ChildLeaves
    <3> QED BY <3>1, <3>2 DEF Get
  <2>2. PinnedModels(leaf) \subseteq PinnedModels(own) \cup PinnedModels(parent.leaf)
    BY <2>1, PinsFrom
  <2> QED BY <2>2 DEF Whole
<1>8. InMemory(leaf) # {} => \E p \in InMemory(leaf) : Carries(leaf, p)
  <2> DEFINE M == Memory(parent, own)
  <2>1. \A p \in Leaves : p[1] = "memory" => (p \in DOMAIN leaf <=> p \in DOMAIN M) /\ (p \in DOMAIN leaf => leaf[p] = M[p])
    BY <1>1, ChildLeaves
  <2>2. \A p \in DOMAIN M : p[1] = "memory" /\ p \in Leaves
    BY <1>1, MemoryIsMemory
  <2>3. DOMAIN M # {} => \E p \in DOMAIN M : p # Publication /\ Carries(M, p)
    BY MemoryStays
  <2> HIDE DEF M
  <2> SUFFICES ASSUME InMemory(leaf) # {} PROVE \E p \in InMemory(leaf) : Carries(leaf, p)
    OBVIOUS
  <2>4. DOMAIN M # {}
    BY <1>2, <2>1 DEF InMemory
  <2>5. PICK p \in DOMAIN M : p # Publication /\ Carries(M, p)
    BY <2>3, <2>4
  <2>6. p \in DOMAIN leaf /\ leaf[p] = M[p] /\ p[1] = "memory"
    BY <2>1, <2>2
  <2> QED BY <2>5, <2>6 DEF InMemory, Carries
<1> QED BY <1>2, <1>5, <1>6, <1>7, <1>8 DEF Whole

\* A profile composed over another is whole and sealed, keeps what the other locked, and is no looser.
LEMMA ChildOf ==
  ASSUME NEW parent, NEW y, NEW own, Whole(parent), Sealed(parent),
         DOMAIN own = DOMAIN y.own, DOMAIN y.own \subseteq Leaves, Typed(own), PinnedModels(own) \subseteq AnyModel,
         Accepts(parent, y, own), NEW child, child = Composed(parent, y, own)
  PROVE  Whole(child) /\ Sealed(child) /\ Keeps(parent, child) /\ Tighter(parent.leaf, child.leaf)
<1> DEFINE leaf == LeafOver(parent, y, own)
<1>1. child.leaf = leaf /\ child.locked = Locked(parent, y, Get(leaf, Safety))
  BY DEF Composed
<1>2. /\ ~LockViolated(parent.locked, Overridden(y))
      /\ EnvelopeHolds(leaf) /\ KubeHolds(leaf) /\ PinsOutsidePolicy(leaf) = {}
  BY DEF Accepts
<1>3. DOMAIN parent.leaf \subseteq Leaves /\ Typed(parent.leaf)
  BY DEF Whole
<1>4. \A p \in Concatenated : leaf[p] = Concat(parent, own, p)
  BY <1>3, ChildLeaves
<1>5. \A p \in ByName : /\ p \in DOMAIN leaf <=> p \in DOMAIN own \cup DOMAIN parent.leaf
                        /\ p \in DOMAIN leaf => leaf[p] = Union(parent, own, p)
  BY <1>3, ChildLeaves
<1>6. /\ Whole(child)
      /\ Safety \in DOMAIN leaf =>
              /\ leaf[Safety] \in SafetyBlock
              /\ leaf[Safety].requirePlanArtifact => "plan" \in leaf[Safety].hash
  BY <1>1, ChildIsWhole
<1>7. \A x \in Leaves : Fixed(parent, x) => Get(leaf, x) = Get(parent.leaf, x)
  BY <1>2, ChildKeeps
<1> HIDE DEF leaf
<1>8. Sealed(child)
  <2>1. Safety \in DOMAIN leaf => Get(leaf, Safety) # Unset
    BY <1>6, UnsetAssumption DEF Get
  <2> QED BY <1>1, <1>6, <2>1 DEF Sealed, Locked
<1>9. Keeps(parent, child)
  <2>1. parent.locked \subseteq child.locked
    BY <1>1 DEF Locked
  <2>2. DOMAIN leaf \subseteq Leaves
    BY <1>1, <1>6 DEF Whole
  <2> QED BY <1>1, <1>3, <1>7, <2>1, <2>2 DEF Keeps
<1>10. Tighter(parent.leaf, leaf)
  <2>1. Or(Get(parent.leaf, <<"permissions", "deny">>), {}) \subseteq leaf[<<"permissions", "deny">>]
    <3>1. <<"permissions", "deny">> \in Concatenated
      BY DEF Concatenated, Of
    <3> QED BY <1>4, <3>1, ChildLists
  <2>2. \A p \in ByName : DOMAIN Or(Get(parent.leaf, p), <<>>) \subseteq DOMAIN Or(Get(leaf, p), <<>>)
    <3> TAKE p \in ByName
    <3>1. CASE p \in DOMAIN parent.leaf
      <4>1. p \in DOMAIN leaf /\ leaf[p] = Union(parent, own, p) /\ Union(parent, own, p) # Unset
        BY <1>5, <3>1, ChildMaps
      <4>2. Or(Get(leaf, p), <<>>) = Union(parent, own, p)
        BY <4>1 DEF Or, Get
      <4> QED BY <4>2, ChildMaps
    <3>2. CASE p \notin DOMAIN parent.leaf
      <4>1. Or(Get(parent.leaf, p), <<>>) = <<>>
        BY <1>3, <3>2, MapOrNone
      <4> QED BY <4>1
    <3> QED BY <3>1, <3>2
  <2>3. Safety \in DOMAIN parent.leaf => Get(leaf, Safety) = parent.leaf[Safety]
    <3> SUFFICES ASSUME Safety \in DOMAIN parent.leaf PROVE Get(leaf, Safety) = parent.leaf[Safety]
      OBVIOUS
    <3>1. Safety \in parent.locked
      BY DEF Sealed
    <3>2. Under(Safety, Safety)
      BY DEF Under, IsPrefix, Safety
    <3>3. Safety \notin Exempt
      BY Heads DEF Exempt, OwnOnly, Publication, Joined, Safety, Policy, Of
    <3> QED BY <1>7, <3>1, <3>2, <3>3, LeavesHave DEF Fixed, Get
  <2>4. Safety \in DOMAIN leaf =>
          /\ leaf[<<"permissions", "defaultMode">>] # "autopilot"
          /\ leaf[Safety].requirePlanArtifact => "plan" \in leaf[Safety].hash
    BY <1>2, <1>6 DEF EnvelopeHolds
  <2>5. DOMAIN Or(Get(leaf, <<"requires", "kube">>), <<>>) \subseteq Names(Kube(leaf))
    BY <1>2 DEF KubeHolds
  <2>6. ASSUME NEW m \in PinnedModels(leaf) PROVE PolicyAllows(leaf, m)
    <3> DEFINE allow == Or(Get(leaf, <<"model_policy", "allow">>), {})
               deny == Or(Get(leaf, <<"model_policy", "deny">>), {})
    <3>1. CASE allow \subseteq {AnyModel} /\ deny = {}
      <4>1. m \in AnyModel
        BY <1>1, <1>6 DEF Whole
      <4> QED BY <3>1, <4>1 DEF PolicyAllows
    <3>2. CASE ~(allow \subseteq {AnyModel} /\ deny = {})
      <4>1. PinsOutsidePolicy(leaf) = {n \in PinnedModels(leaf) : ~PolicyAllows(leaf, n)}
        BY <3>2 DEF PinsOutsidePolicy
      <4> QED BY <1>2, <4>1
    <3> QED BY <3>1, <3>2
  <2> QED BY <2>1, <2>2, <2>3, <2>4, <2>5, <2>6 DEF Tighter
<1> QED BY <1>1, <1>6, <1>8, <1>9, <1>10

\* Keeping is transitive.
LEMMA KeepsOn ==
  ASSUME NEW p, NEW q, NEW r, Keeps(p, q), Keeps(q, r)
  PROVE  Keeps(p, r)
<1> SUFFICES ASSUME NEW x, Fixed(p, x) PROVE Get(r.leaf, x) = Get(p.leaf, x)
  BY DEF Keeps
<1>1. Fixed(q, x)
  BY DEF Fixed, Keeps
<1>2. Get(q.leaf, x) = Get(p.leaf, x)
  BY DEF Keeps, Get
<1>3. Get(r.leaf, x) = Get(q.leaf, x)
  BY <1>1 DEF Keeps, Get
<1> QED BY <1>2, <1>3

LEMMA KeepsItself ==
  ASSUME NEW p
  PROVE  Keeps(p, p)
BY DEF Keeps

-----------------------------------------------------------------------------
(* The profiles that are compiled in.                                      *)

\* A function that has all that another has.
Extends(g, f) == DOMAIN f \subseteq DOMAIN g /\ \A x \in DOMAIN f : g[x] = f[x]

LEMMA ExtendsOn ==
  ASSUME NEW f, NEW g, NEW h, Extends(g, f), Extends(h, g)
  PROVE  Extends(h, f)
BY DEF Extends

LEMMA MorePut ==
  ASSUME NEW f, NEW p, NEW v
  PROVE  /\ DOMAIN (f ++ Put(p, v)) = DOMAIN f \cup {p}
         /\ Extends(f ++ Put(p, v), f)
         /\ p \notin DOMAIN f => (f ++ Put(p, v))[p] = v
<1> DEFINE g == Put(p, v)
<1>1. DOMAIN g = {p} /\ g[p] = v
  BY PutIs
<1> HIDE DEF g
<1>2. /\ DOMAIN (f ++ g) = DOMAIN f \cup DOMAIN g
      /\ \A x \in DOMAIN f : (f ++ g)[x] = f[x]
      /\ \A x \in DOMAIN g : x \notin DOMAIN f => (f ++ g)[x] = g[x]
  BY OverIs
<1>3. /\ DOMAIN (f ++ g) = DOMAIN f \cup {p}
      /\ Extends(f ++ g, f)
      /\ p \notin DOMAIN f => (f ++ g)[p] = v
  BY <1>1, <1>2 DEF Extends
<1> QED BY <1>3 DEF g

CodingSays ==
  {<<"prompts", "system">>, <<"permissions", "defaultMode">>, <<"permissions", "allow">>, <<"permissions", "deny">>,
   <<"verification", "agent", "failMode">>, <<"budgets", "maxTurns">>, <<"routing", "subagents">>,
   <<"routing", "escalation", "patience">>, <<"requires", "binaries">>, <<"requires", "mcp">>, <<"memory", "workspace">>}

LEMMA CodingLeaves ==
  /\ DOMAIN Coding.leaf = CodingSays
  /\ Coding.leaf[<<"permissions", "allow">>] = {} /\ Coding.leaf[<<"permissions", "deny">>] = {}
  /\ Coding.leaf[<<"requires", "binaries">>] = <<>>
  /\ Coding.leaf[<<"requires", "mcp">>] = [n \in {"websearch"} |-> "required"]
<1> DEFINE L1 == Put(<<"prompts", "system">>, <<"coding">>)
           L2 == L1 ++ Put(<<"permissions", "defaultMode">>, "autopilot")
           L3 == L2 ++ Put(<<"permissions", "allow">>, {})
           L4 == L3 ++ Put(<<"permissions", "deny">>, {})
           L5 == L4 ++ Put(<<"verification", "agent", "failMode">>, "open")
           L6 == L5 ++ Put(<<"budgets", "maxTurns">>, 200)
           L7 == L6 ++ Put(<<"routing", "subagents">>, "catalog")
           L8 == L7 ++ Put(<<"routing", "escalation", "patience">>, 2)
           L9 == L8 ++ Put(<<"requires", "binaries">>, <<>>)
           L10 == L9 ++ Put(<<"requires", "mcp">>, [n \in {"websearch"} |-> "required"])
           L11 == L10 ++ Put(<<"memory", "workspace">>, "from-host")
<1>1. Coding.leaf = L11
  BY DEF Coding
<1>2. DOMAIN L1 = {<<"prompts", "system">>}
  BY PutIs
<1> HIDE DEF L1
<1>3.
      /\ DOMAIN L2 = DOMAIN L1 \cup {<<"permissions", "defaultMode">>}
      /\ Extends(L2, L1)
      /\ <<"permissions", "defaultMode">> \notin DOMAIN L1 => L2[<<"permissions", "defaultMode">>] = "autopilot"
  BY MorePut
<1> HIDE DEF L2
<1>4.
      /\ DOMAIN L3 = DOMAIN L2 \cup {<<"permissions", "allow">>}
      /\ Extends(L3, L2)
      /\ <<"permissions", "allow">> \notin DOMAIN L2 => L3[<<"permissions", "allow">>] = {}
  BY MorePut
<1> HIDE DEF L3
<1>5.
      /\ DOMAIN L4 = DOMAIN L3 \cup {<<"permissions", "deny">>}
      /\ Extends(L4, L3)
      /\ <<"permissions", "deny">> \notin DOMAIN L3 => L4[<<"permissions", "deny">>] = {}
  BY MorePut
<1> HIDE DEF L4
<1>6.
      /\ DOMAIN L5 = DOMAIN L4 \cup {<<"verification", "agent", "failMode">>}
      /\ Extends(L5, L4)
      /\ <<"verification", "agent", "failMode">> \notin DOMAIN L4 => L5[<<"verification", "agent", "failMode">>] = "open"
  BY MorePut
<1> HIDE DEF L5
<1>7.
      /\ DOMAIN L6 = DOMAIN L5 \cup {<<"budgets", "maxTurns">>}
      /\ Extends(L6, L5)
      /\ <<"budgets", "maxTurns">> \notin DOMAIN L5 => L6[<<"budgets", "maxTurns">>] = 200
  BY MorePut
<1> HIDE DEF L6
<1>8.
      /\ DOMAIN L7 = DOMAIN L6 \cup {<<"routing", "subagents">>}
      /\ Extends(L7, L6)
      /\ <<"routing", "subagents">> \notin DOMAIN L6 => L7[<<"routing", "subagents">>] = "catalog"
  BY MorePut
<1> HIDE DEF L7
<1>9.
      /\ DOMAIN L8 = DOMAIN L7 \cup {<<"routing", "escalation", "patience">>}
      /\ Extends(L8, L7)
      /\ <<"routing", "escalation", "patience">> \notin DOMAIN L7 => L8[<<"routing", "escalation", "patience">>] = 2
  BY MorePut
<1> HIDE DEF L8
<1>10.
      /\ DOMAIN L9 = DOMAIN L8 \cup {<<"requires", "binaries">>}
      /\ Extends(L9, L8)
      /\ <<"requires", "binaries">> \notin DOMAIN L8 => L9[<<"requires", "binaries">>] = <<>>
  BY MorePut
<1> HIDE DEF L9
<1>11.
      /\ DOMAIN L10 = DOMAIN L9 \cup {<<"requires", "mcp">>}
      /\ Extends(L10, L9)
      /\ <<"requires", "mcp">> \notin DOMAIN L9 => L10[<<"requires", "mcp">>] = [n \in {"websearch"} |-> "required"]
  BY MorePut
<1> HIDE DEF L10
<1>12.
      /\ DOMAIN L11 = DOMAIN L10 \cup {<<"memory", "workspace">>}
      /\ Extends(L11, L10)
      /\ <<"memory", "workspace">> \notin DOMAIN L10 => L11[<<"memory", "workspace">>] = "from-host"
  BY MorePut
<1> HIDE DEF L11
<1>20. DOMAIN L11 = CodingSays
  BY <1>2, <1>3, <1>4, <1>5, <1>6, <1>7, <1>8, <1>9, <1>10, <1>11, <1>12 DEF CodingSays
<1>50. Extends(L11, L10)
  BY <1>12
<1>49. Extends(L11, L9)
  BY <1>50, <1>11, ExtendsOn
<1>48. Extends(L11, L8)
  BY <1>49, <1>10, ExtendsOn
<1>47. Extends(L11, L7)
  BY <1>48, <1>9, ExtendsOn
<1>46. Extends(L11, L6)
  BY <1>47, <1>8, ExtendsOn
<1>45. Extends(L11, L5)
  BY <1>46, <1>7, ExtendsOn
<1>44. Extends(L11, L4)
  BY <1>45, <1>6, ExtendsOn
<1>43. Extends(L11, L3)
  BY <1>44, <1>5, ExtendsOn
<1>21. L11[<<"permissions", "allow">>] = {}
  <2>1. <<"permissions", "allow">> \notin DOMAIN L2
    BY <1>2, <1>3
  <2>2. <<"permissions", "allow">> \in DOMAIN L3 /\ L3[<<"permissions", "allow">>] = {}
    BY <2>1, <1>4
  <2> QED BY <2>2, <1>43 DEF Extends
<1>22. L11[<<"permissions", "deny">>] = {}
  <2>1. <<"permissions", "deny">> \notin DOMAIN L3
    BY <1>2, <1>3, <1>4
  <2>2. <<"permissions", "deny">> \in DOMAIN L4 /\ L4[<<"permissions", "deny">>] = {}
    BY <2>1, <1>5
  <2> QED BY <2>2, <1>44 DEF Extends
<1>23. L11[<<"requires", "binaries">>] = <<>>
  <2>1. <<"requires", "binaries">> \notin DOMAIN L8
    BY <1>2, <1>3, <1>4, <1>5, <1>6, <1>7, <1>8, <1>9
  <2>2. <<"requires", "binaries">> \in DOMAIN L9 /\ L9[<<"requires", "binaries">>] = <<>>
    BY <2>1, <1>10
  <2> QED BY <2>2, <1>49 DEF Extends
<1>24. L11[<<"requires", "mcp">>] = [n \in {"websearch"} |-> "required"]
  <2>1. <<"requires", "mcp">> \notin DOMAIN L9
    BY <1>2, <1>3, <1>4, <1>5, <1>6, <1>7, <1>8, <1>9, <1>10
  <2>2. <<"requires", "mcp">> \in DOMAIN L10 /\ L10[<<"requires", "mcp">>] = [n \in {"websearch"} |-> "required"]
    BY <2>1, <1>11
  <2> QED BY <2>2, <1>50 DEF Extends
<1> QED BY <1>1, <1>20, <1>21, <1>22, <1>23, <1>24

ReviewerSays == (CodingSays \cup {<<"tools", "include">>}) \ {<<"memory", "workspace">>}

LEMMA ReviewerLeaves ==
  /\ DOMAIN Reviewer.leaf = ReviewerSays
  /\ Reviewer.leaf[<<"permissions", "allow">>] = {}
  /\ Reviewer.leaf[<<"permissions", "deny">>] = {"Write", "Edit", "Bash(git push*)", "Bash(git commit*)"}
  /\ Reviewer.leaf[<<"requires", "binaries">>] = <<>> /\ Reviewer.leaf[<<"requires", "mcp">>] = <<>>
<1> DEFINE L1 == Put(<<"prompts", "system">>, <<"reviewer">>)
           L2 == L1 ++ Put(<<"permissions", "defaultMode">>, "recon")
           L3 == L2 ++ Put(<<"permissions", "deny">>, {"Write", "Edit", "Bash(git push*)", "Bash(git commit*)"})
           L4 == L3 ++ Put(<<"tools", "include">>, {"Read", "Bash"})
           L5 == L4 ++ Put(<<"verification", "agent", "failMode">>, "closed")
           L6 == L5 ++ Put(<<"budgets", "maxTurns">>, 100)
           L7 == L6 ++ Put(<<"requires", "mcp">>, <<>>)
           under == Coding.leaf
           all == L7 ++ under
<1>1. Reviewer.leaf = Except(all, {<<"memory", "workspace">>})
  <2>1. Coding = [name |-> Coding.name, chain |-> Coding.chain, modules |-> Coding.modules, evals |-> Coding.evals,
                  locked |-> Coding.locked, leaf |-> Coding.leaf]
    BY DEF Coding
  <2> HIDE DEF L7
  <2> QED BY <2>1 DEF Reviewer, L7
<1> HIDE DEF under
<1>2. DOMAIN L1 = {<<"prompts", "system">>}
  BY PutIs
<1> HIDE DEF L1
<1>3.
      /\ DOMAIN L2 = DOMAIN L1 \cup {<<"permissions", "defaultMode">>}
      /\ Extends(L2, L1)
      /\ <<"permissions", "defaultMode">> \notin DOMAIN L1 => L2[<<"permissions", "defaultMode">>] = "recon"
  BY MorePut
<1> HIDE DEF L2
<1>4.
      /\ DOMAIN L3 = DOMAIN L2 \cup {<<"permissions", "deny">>}
      /\ Extends(L3, L2)
      /\ <<"permissions", "deny">> \notin DOMAIN L2 => L3[<<"permissions", "deny">>] = {"Write", "Edit", "Bash(git push*)", "Bash(git commit*)"}
  BY MorePut
<1> HIDE DEF L3
<1>5.
      /\ DOMAIN L4 = DOMAIN L3 \cup {<<"tools", "include">>}
      /\ Extends(L4, L3)
      /\ <<"tools", "include">> \notin DOMAIN L3 => L4[<<"tools", "include">>] = {"Read", "Bash"}
  BY MorePut
<1> HIDE DEF L4
<1>6.
      /\ DOMAIN L5 = DOMAIN L4 \cup {<<"verification", "agent", "failMode">>}
      /\ Extends(L5, L4)
      /\ <<"verification", "agent", "failMode">> \notin DOMAIN L4 => L5[<<"verification", "agent", "failMode">>] = "closed"
  BY MorePut
<1> HIDE DEF L5
<1>7.
      /\ DOMAIN L6 = DOMAIN L5 \cup {<<"budgets", "maxTurns">>}
      /\ Extends(L6, L5)
      /\ <<"budgets", "maxTurns">> \notin DOMAIN L5 => L6[<<"budgets", "maxTurns">>] = 100
  BY MorePut
<1> HIDE DEF L6
<1>8.
      /\ DOMAIN L7 = DOMAIN L6 \cup {<<"requires", "mcp">>}
      /\ Extends(L7, L6)
      /\ <<"requires", "mcp">> \notin DOMAIN L6 => L7[<<"requires", "mcp">>] = <<>>
  BY MorePut
<1> HIDE DEF L7
<1>9. /\ DOMAIN all = DOMAIN L7 \cup DOMAIN under
      /\ \A x \in DOMAIN L7 : all[x] = L7[x]
      /\ \A x \in DOMAIN under : x \notin DOMAIN L7 => all[x] = under[x]
  BY OverIs
<1> HIDE DEF all
<1>10. /\ DOMAIN Reviewer.leaf = DOMAIN all \ {<<"memory", "workspace">>}
       /\ \A x \in DOMAIN Reviewer.leaf : Reviewer.leaf[x] = all[x]
  BY <1>1 DEF Except
<1>11. DOMAIN L7 = {<<"prompts", "system">>, <<"permissions", "defaultMode">>, <<"permissions", "deny">>, <<"tools", "include">>, <<"verification", "agent", "failMode">>, <<"budgets", "maxTurns">>, <<"requires", "mcp">>}
  BY <1>2, <1>3, <1>4, <1>5, <1>6, <1>7, <1>8
<1>12. DOMAIN under = CodingSays /\ under[<<"permissions", "allow">>] = {} /\ under[<<"requires", "binaries">>] = <<>>
  BY CodingLeaves DEF under
<1>20. DOMAIN Reviewer.leaf = ReviewerSays
  BY <1>9, <1>10, <1>11, <1>12 DEF ReviewerSays, CodingSays
<1>46. Extends(L7, L6)
  BY <1>8
<1>45. Extends(L7, L5)
  BY <1>46, <1>7, ExtendsOn
<1>44. Extends(L7, L4)
  BY <1>45, <1>6, ExtendsOn
<1>43. Extends(L7, L3)
  BY <1>44, <1>5, ExtendsOn
<1>21. L7[<<"permissions", "deny">>] = {"Write", "Edit", "Bash(git push*)", "Bash(git commit*)"}
  <2>1. <<"permissions", "deny">> \notin DOMAIN L2
    BY <1>2, <1>3
  <2>2. <<"permissions", "deny">> \in DOMAIN L3 /\ L3[<<"permissions", "deny">>] = {"Write", "Edit", "Bash(git push*)", "Bash(git commit*)"}
    BY <2>1, <1>4
  <2> QED BY <2>2, <1>43 DEF Extends
<1>22. L7[<<"requires", "mcp">>] = <<>>
  <2>1. <<"requires", "mcp">> \notin DOMAIN L6
    BY <1>2, <1>3, <1>4, <1>5, <1>6, <1>7
  <2> QED BY <2>1, <1>8
<1>23. <<"permissions", "allow">> \notin DOMAIN L7 /\ <<"requires", "binaries">> \notin DOMAIN L7
  BY <1>11
<1>24. {<<"permissions", "allow">>, <<"permissions", "deny">>, <<"requires", "binaries">>, <<"requires", "mcp">>} \subseteq ReviewerSays
  BY DEF ReviewerSays, CodingSays
<1>25. <<"permissions", "allow">> \in CodingSays /\ <<"requires", "binaries">> \in CodingSays
  BY DEF CodingSays
<1>26. <<"permissions", "deny">> \in DOMAIN L7 /\ <<"requires", "mcp">> \in DOMAIN L7
  BY <1>11
<1> QED BY <1>9, <1>10, <1>12, <1>20, <1>21, <1>22, <1>23, <1>24, <1>25, <1>26

\* No model is named, and nothing is a safety block.
LEMMA NamesNone ==
  ASSUME NEW leaf, \A p \in ModelLeaves : p \notin DOMAIN leaf
  PROVE  PinnedModels(leaf) = {}
<1>1. \A p \in ModelLeaves : Get(leaf, p) = Unset
  BY DEF Get
<1>2. {Get(leaf, p) : p \in {<<"model", "main">>, <<"model", "subagents", "readOnly">>, <<"model", "subagents", "verify">>}} = {Unset}
  BY <1>1 DEF ModelLeaves, Of
<1>3. {Get(leaf, <<"model", "tiers", t>>) : t \in TierNames} \ {Unset} = {}
  BY <1>1 DEF ModelLeaves
<1> QED BY <1>2, <1>3 DEF PinnedModels

LEMMA BuiltinsHold ==
  ASSUME NEW n \in {"coding", "reviewer"}
  PROVE  Whole(Builtins[n]) /\ Sealed(Builtins[n])
<1>1. CodingSays \cup {<<"tools", "include">>} \subseteq Leaves
  BY DEF CodingSays, Leaves, Concatenated, ByName, MemoryLeaves, Of
<1>2. /\ Concatenated \subseteq CodingSays /\ Safety \notin CodingSays \cup {<<"tools", "include">>}
      /\ (CodingSays \cup {<<"tools", "include">>}) \cap ByName = {<<"requires", "binaries">>, <<"requires", "mcp">>}
      /\ Concatenated = {<<"permissions", "allow">>, <<"permissions", "deny">>}
      /\ \A p \in CodingSays \cup {<<"tools", "include">>} : p[1] # "model"
  BY DEF CodingSays, Concatenated, ByName, Safety, Of
<1>3. ASSUME NEW prof, DOMAIN prof.leaf \in {CodingSays, ReviewerSays},
             prof.leaf[<<"permissions", "allow">>] \in SUBSET Words, prof.leaf[<<"permissions", "deny">>] \in SUBSET Words,
             IsMap(prof.leaf[<<"requires", "binaries">>]), IsMap(prof.leaf[<<"requires", "mcp">>])
      PROVE  Whole(prof) /\ Sealed(prof)
  <2>1. DOMAIN prof.leaf \subseteq CodingSays \cup {<<"tools", "include">>}
    BY <1>3 DEF ReviewerSays
  <2>2. Concatenated \subseteq DOMAIN prof.leaf
    <3>1. <<"memory", "workspace">> \notin Concatenated
      BY DEF Concatenated, Of
    <3> QED BY <1>2, <1>3, <3>1 DEF ReviewerSays
  <2>3. Typed(prof.leaf)
    <3>1. \A p \in DOMAIN prof.leaf \cap Concatenated : prof.leaf[p] \in SUBSET Words
      BY <1>2, <1>3
    <3>2. \A p \in DOMAIN prof.leaf \cap ByName : IsMap(prof.leaf[p])
      BY <1>2, <1>3, <2>1
    <3>3. Safety \notin DOMAIN prof.leaf
      BY <1>2, <2>1
    <3> QED BY <3>1, <3>2, <3>3 DEF Typed, IsMap
  <2>4. PinnedModels(prof.leaf) \subseteq AnyModel
    BY <1>2, <2>1, Heads, NamesNone
  <2>5. InMemory(prof.leaf) # {} => \E p \in InMemory(prof.leaf) : Carries(prof.leaf, p)
    <3> SUFFICES ASSUME NEW p \in InMemory(prof.leaf) PROVE Carries(prof.leaf, p)
      OBVIOUS
    <3>1. p = <<"memory", "workspace">>
      BY <2>1 DEF InMemory, CodingSays
    <3> QED BY <3>1 DEF Carries, Closed, Of
  <2> QED BY <1>1, <1>2, <2>1, <2>2, <2>3, <2>4, <2>5 DEF Whole, Sealed
<1>4. IsMap(<<>>)
  BY DEF IsMap
<1>5. IsMap([m \in {"websearch"} |-> "required"])
  BY WordsAssumption DEF IsMap, Levels
<1>6. Whole(Coding) /\ Sealed(Coding)
  BY <1>3, <1>4, <1>5, CodingLeaves
<1>7. Whole(Reviewer) /\ Sealed(Reviewer)
  <2>1. DOMAIN Reviewer.leaf = ReviewerSays
    BY ReviewerLeaves
  <2>2. Reviewer.leaf[<<"permissions", "allow">>] \in SUBSET Words /\ Reviewer.leaf[<<"permissions", "deny">>] \in SUBSET Words
    BY ReviewerLeaves, WordsAssumption
  <2>3. IsMap(Reviewer.leaf[<<"requires", "binaries">>]) /\ IsMap(Reviewer.leaf[<<"requires", "mcp">>])
    BY <1>4, ReviewerLeaves
  <2> QED BY <1>3, <2>1, <2>2, <2>3
<1>8. Builtins[n] \in {Coding, Reviewer}
  BY DEF Builtins
<1> QED BY <1>6, <1>7, <1>8

-----------------------------------------------------------------------------
(* Settings.                                                               *)

\* Settings that respect the locks leave what is under one alone.
LEMMA SettingsKeep ==
  ASSUME NEW locked, NEW leaf, NEW explicit, Respects(locked, explicit), NEW q, \E l \in locked : Under(q, l)
  PROVE  Get(Layered(leaf, explicit), q) = Get(leaf, q)
<1> DEFINE over == DOMAIN explicit \cap DOMAIN SettingOf
           set == [p \in {SettingOf[s] : s \in over} |-> explicit[CHOOSE s \in over : SettingOf[s] = p]]
<1>1. q \notin DOMAIN set
  BY DEF Respects, LockViolated
<1>2. Layered(leaf, explicit) = set ++ leaf
  BY DEF Layered
<1> HIDE DEF set
<1>3. /\ DOMAIN (set ++ leaf) = DOMAIN set \cup DOMAIN leaf
      /\ \A x \in DOMAIN leaf : x \notin DOMAIN set => (set ++ leaf)[x] = leaf[x]
  BY OverIs
<1> QED BY <1>1, <1>2, <1>3 DEF Get

-----------------------------------------------------------------------------
(* Sequences.                                                              *)

LEMMA Appended ==
  ASSUME NEW s, IsSeq(s), NEW x
  PROVE  /\ IsSeq(Append(s, x)) /\ Append(s, x) # <<>>
         /\ Len(s) \in Nat /\ DOMAIN s = 1..Len(s)
         /\ Len(Append(s, x)) = Len(s) + 1 /\ DOMAIN Append(s, x) = 1..Len(s) + 1
         /\ Append(s, x)[Len(s) + 1] = x /\ \A i \in DOMAIN s : Append(s, x)[i] = s[i]
<1> DEFINE S == {s[i] : i \in DOMAIN s}  t == Append(s, x)  T == {t[i] : i \in DOMAIN t}
<1>1. s \in Seq(S) /\ s \in Seq(S \cup {x})
  BY DEF IsSeq
<1>2. t \in Seq(S \cup {x}) /\ Len(t) = Len(s) + 1 /\ Len(s) \in Nat /\ DOMAIN s = 1..Len(s) /\ DOMAIN t = 1..Len(s) + 1
  BY <1>1
<1>3. t[Len(s) + 1] = x /\ \A i \in DOMAIN s : t[i] = s[i]
  BY <1>1
<1>4. t \in Seq(T)
  <2> HIDE DEF t
  <2> QED BY <1>2
<1>5. t # <<>>
  <2> HIDE DEF t
  <2> QED BY <1>2
<1> QED BY <1>2, <1>3, <1>4, <1>5 DEF IsSeq

LEMMA Fronted ==
  ASSUME NEW s, IsSeq(s), s # <<>>
  PROVE  /\ IsSeq(Front(s)) /\ \A i \in DOMAIN Front(s) : i \in DOMAIN s /\ Front(s)[i] = s[i]
         /\ Len(s) \in DOMAIN s /\ Last(s) = s[Len(s)]
<1> DEFINE S == {s[i] : i \in DOMAIN s}  t == Front(s)  T == {t[i] : i \in DOMAIN t}
<1>1. s \in Seq(S) /\ Len(s) \in Nat /\ DOMAIN s = 1..Len(s) /\ Len(s) # 0
  BY DEF IsSeq
<1>2. t \in Seq(S) /\ Len(t) = Len(s) - 1 /\ DOMAIN t = 1..Len(s) - 1 /\ \A i \in DOMAIN t : t[i] = s[i]
  BY <1>1 DEF Front
<1>3. t \in Seq(T)
  <2>1. t \in Seq(S) /\ Len(t) \in Nat /\ DOMAIN t = 1..Len(t)
    BY <1>2
  <2> HIDE DEF t
  <2> QED BY <2>1
<1> QED BY <1>1, <1>2, <1>3 DEF IsSeq, Last

-----------------------------------------------------------------------------
(* The steps.                                                              *)

LEMMA LongerLine ==
  ASSUME NEW s, IsSeq(s), s # <<>>, Descends(s), NEW child, Whole(child), Sealed(child),
         Keeps(s[Len(s)], child), Tighter(s[Len(s)].leaf, child.leaf)
  PROVE  Descends(Append(s, child))
<1> DEFINE t == Append(s, child)  n == Len(s)
<1>1. /\ n \in Nat /\ DOMAIN s = 1..n /\ DOMAIN t = 1..n + 1
      /\ t[n + 1] = child /\ \A i \in DOMAIN s : t[i] = s[i]
  BY Appended
<1>2. n \in DOMAIN s
  BY Fronted
<1> HIDE DEF t, n
<1>3. \A i \in DOMAIN t : Whole(t[i]) /\ Sealed(t[i])
  <2> TAKE i \in DOMAIN t
  <2>1. i = n + 1 \/ i \in DOMAIN s
    BY <1>1
  <2> QED BY <1>1, <2>1 DEF Descends
<1>4. \A i \in DOMAIN t \ {1} : Tighter(t[i - 1].leaf, t[i].leaf)
  <2> TAKE i \in DOMAIN t \ {1}
  <2>1. CASE i = n + 1
    <3>1. i - 1 = n /\ t[n] = s[n]
      BY <1>1, <1>2, <2>1
    <3> QED BY <1>1, <2>1, <3>1 DEF n
  <2>2. CASE i # n + 1
    <3>1. i \in DOMAIN s \ {1} /\ i - 1 \in DOMAIN s
      BY <1>1, <2>2
    <3>2. t[i] = s[i] /\ t[i - 1] = s[i - 1]
      BY <1>1, <3>1
    <3> QED BY <3>1, <3>2 DEF Descends
  <2> QED BY <2>1, <2>2
<1>5. ASSUME NEW i \in DOMAIN t, NEW j \in DOMAIN t, i <= j PROVE Keeps(t[i], t[j])
  <2>1. CASE i = n + 1
    <3>1. j = n + 1
      BY <1>1, <1>5, <2>1
    <3> QED BY <2>1, <3>1, KeepsItself
  <2>2. CASE i # n + 1 /\ j = n + 1
    <3>1. i \in DOMAIN s /\ i <= n /\ t[i] = s[i] /\ t[j] = child
      BY <1>1, <2>2
    <3>2. Keeps(s[i], s[n])
      BY <1>2, <3>1 DEF Descends
    <3>3. Keeps(s[n], child)
      BY DEF n
    <3>4. Keeps(s[i], child)
      BY <3>2, <3>3, KeepsOn
    <3> QED BY <3>1, <3>4
  <2>3. CASE i # n + 1 /\ j # n + 1
    <3>1. i \in DOMAIN s /\ j \in DOMAIN s /\ t[i] = s[i] /\ t[j] = s[j]
      BY <1>1, <2>3
    <3>2. Keeps(s[i], s[j])
      BY <1>5, <3>1 DEF Descends
    <3> QED BY <3>1, <3>2
  <2> QED BY <2>1, <2>2, <2>3
<1> QED BY <1>3, <1>4, <1>5 DEF Descends, t

LEMMA InitHolds == Init => IInv
<1> SUFFICES ASSUME Init PROVE IInv
  OBVIOUS
<1> USE DEF Init
<1>1. IsSeq(<<>>) /\ DOMAIN <<>> = {}
  BY DEF IsSeq
<1>2. Stages
  BY <1>1 DEF Stages
<1>3. Descends(line)
  BY <1>1 DEF Descends
<1>4. UnderLocks /\ ReadsConfined
  BY DEF UnderLocks, ReadsConfined
<1> QED BY <1>2, <1>3, <1>4 DEF IInv

\* While the world is what it was, so is where its places are.
LEMMA WorldStays ==
  ASSUME world' = world
  PROVE  /\ Real(Root)' = Real(Root)
         /\ ReadsConfined /\ UNCHANGED <<read, touched>> => ReadsConfined'
<1>1. Real(Root)' = Real(Root)
  BY DEF Real
<1> QED BY <1>1 DEF ReadsConfined

LEMMA TakeBuiltinHolds == IInv /\ TakeBuiltin => IInv'
<1> SUFFICES ASSUME IInv, TakeBuiltin PROVE IInv'
  OBVIOUS
<1>1. world' = world /\ UNCHANGED <<read, touched, effective, frames>> /\ out' \in {"composing", "failed"}
  BY DEF TakeBuiltin, Fail
<1>2. ReadsConfined'
  BY <1>1, WorldStays DEF IInv
<1>3. UnderLocks'
  BY <1>1 DEF UnderLocks
<1>4. CASE out' = "composing"
  <2> DEFINE prof == Builtins[at.ref.name]
  <2>1. got' = prof /\ line' = <<prof>> /\ at.ref.name \in DOMAIN Builtins
    BY <1>4 DEF TakeBuiltin, IsBuiltin, Fail
  <2>2. Whole(prof) /\ Sealed(prof)
    <3>1. DOMAIN Builtins = {"coding", "reviewer"}
      BY DEF Builtins
    <3> HIDE DEF prof
    <3> QED BY <2>1, <3>1, BuiltinsHold DEF prof
  <2> HIDE DEF prof
  <2>3. IsSeq(<<prof>>) /\ DOMAIN <<prof>> = {1} /\ <<prof>> # <<>> /\ Len(<<prof>>) = 1 /\ <<prof>>[1] = prof
    BY DEF IsSeq
  <2>4. Stages'
    BY <1>1, <1>4, <2>1, <2>3 DEF IInv, Stages
  <2>5. Descends(<<prof>>)
    BY <2>2, <2>3, KeepsItself DEF Descends
  <2> QED BY <1>2, <1>3, <2>1, <2>4, <2>5 DEF IInv
<1>5. CASE out' = "failed"
  <2>1. UNCHANGED <<got, line>>
    BY <1>5 DEF TakeBuiltin, Fail
  <2>2. Stages'
    BY <1>1, <1>5, <2>1 DEF IInv, Stages
  <2> QED BY <1>2, <1>3, <2>1, <2>2 DEF IInv
<1> QED BY <1>1, <1>4, <1>5

LEMMA RealIs ==
  ASSUME NEW p
  PROVE  Real(p) = RealIn(world, p)
BY DEF Real, RealIn

\* What is read and looked at is inside when the load is confined.
LEMMA ReadsMore ==
  ASSUME ReadsConfined, world' = world,
         NEW places, touched' = touched \cup UNION {Looks(p) : p \in places},
         NEW files, read' = read \cup {Real(f) : f \in files}, \A f \in files : Confined(f) /\ Exists(f)
  PROVE  ReadsConfined'
<1> SUFFICES ASSUME world.confined
             PROVE  /\ \A f \in read' : IsPrefix(Real(Root), f)
                    /\ \A p \in touched' : IsPrefix(Root, p)
  BY WorldStays DEF ReadsConfined
<1>1. \A p \in places : \A q \in Looks(p) : IsPrefix(Root, q)
  BY DEF Looks
<1>2. \A f \in files : IsPrefix(Real(Root), Real(f))
  BY DEF Confined
<1> QED BY <1>1, <1>2 DEF ReadsConfined

LEMMA ReadHopHolds == IInv /\ ReadHop => IInv'
<1> SUFFICES ASSUME IInv, ReadHop PROVE IInv'
  OBVIOUS
<1> DEFINE place == Find(at.ref, at.from)
           file == HopFile(place.dir)
           IsRead == place.found = "dir" /\ Confined(file) /\ Exists(file)
           y == world.hops[Real(place.dir)]
           Goes == IsRead /\ Real(place.dir) \in DOMAIN world.hops /\ SchemaAccepts(y) /\ ~TooDeep
           path == Resolved(at.ref.to, at.from)
           places == (IF at.ref.path THEN {path} ELSE {}) \cup (IF place.found = "dir" THEN {file} ELSE {})
           files == IF IsRead THEN {file} ELSE {}
<1>1. /\ out = "resolving" /\ world' = world /\ UNCHANGED effective
      /\ touched' = touched \cup (IF at.ref.path THEN Looks(path) ELSE {}) \cup (IF place.found = "dir" THEN Looks(file) ELSE {})
      /\ read' = IF IsRead THEN read \cup {Real(file)} ELSE read
      /\ Goes => frames' = Append(frames, place.dir) /\ UNCHANGED <<got, line, out>>
      /\ ~Goes => out' = "failed" /\ UNCHANGED <<frames, got, line>>
  BY DEF ReadHop, Fail
<1>2. Goes => IsHop(world, place.dir)
  BY RealIs DEF IsHop
<1>3. IsRead => Confined(file) /\ Exists(file)
  OBVIOUS
<1> HIDE DEF Goes, IsRead, file, path, place
<1>4. ReadsConfined'
  <2>1. touched' = touched \cup UNION {Looks(p) : p \in places}
    BY <1>1
  <2>2. read' = read \cup {Real(f) : f \in files}
    BY <1>1
  <2>3. \A f \in files : Confined(f) /\ Exists(f)
    BY <1>3
  <2> HIDE DEF places, files
  <2> QED BY <1>1, <2>1, <2>2, <2>3, ReadsMore DEF IInv
<1>5. CASE Goes
  <2>1. frames' = Append(frames, place.dir) /\ UNCHANGED <<got, line, out>>
    BY <1>1, <1>5
  <2>2. IsSeq(frames) /\ \A i \in DOMAIN frames : IsHop(world, frames[i])
    BY DEF IInv, Stages
  <2>3. /\ IsSeq(frames') /\ DOMAIN frames = 1..Len(frames) /\ DOMAIN frames' = 1..Len(frames) + 1 /\ Len(frames) \in Nat
        /\ frames'[Len(frames) + 1] = place.dir /\ \A i \in DOMAIN frames : frames'[i] = frames[i]
    BY <2>1, <2>2, Appended
  <2>4. \A i \in DOMAIN frames' : IsHop(world, frames'[i])
    <3> TAKE i \in DOMAIN frames'
    <3>1. i = Len(frames) + 1 \/ i \in DOMAIN frames
      BY <2>3
    <3> QED BY <1>2, <1>5, <2>2, <2>3, <3>1
  <2>5. Stages'
    <3>1. (\A i \in DOMAIN frames : IsHop(world, frames[i]))'
      BY <1>1, <2>4
    <3> QED BY <1>1, <2>1, <2>3, <3>1 DEF IInv, Stages
  <2>6. UnderLocks'
    BY <1>1, <2>1 DEF UnderLocks
  <2> QED BY <1>4, <2>1, <2>5, <2>6 DEF IInv
<1>6. CASE ~Goes
  <2>1. out' = "failed" /\ UNCHANGED <<frames, got, line>>
    BY <1>1, <1>6
  <2>2. Stages' /\ UnderLocks'
    BY <1>1, <2>1 DEF IInv, Stages, UnderLocks
  <2> QED BY <1>4, <2>1, <2>2 DEF IInv
<1> QED BY <1>5, <1>6

LEMMA ComposeHolds == IInv /\ Compose => IInv'
<1> SUFFICES ASSUME IInv, Compose PROVE IInv'
  OBVIOUS
<1> DEFINE dir == Last(frames)
           y == world.hops[Real(dir)]
           texts == Texts(y, dir)
           own == [p \in DOMAIN y.own |-> IF p \in DOMAIN y.files THEN Resolved(y.files[p], dir) ELSE y.own[p]]
           there == {f \in texts : Confined(f) /\ Exists(f)}
           Goes == Accepts(got, y, own) /\ there = texts
<1>1. /\ out = "composing" /\ frames # <<>> /\ world' = world /\ UNCHANGED effective
      /\ Goes => /\ got' = Composed(got, y, own) /\ line' = Append(line, got')
                 /\ frames' = Front(frames) /\ UNCHANGED out
      /\ ~Goes => out' = "failed" /\ UNCHANGED <<frames, got, line>>
  BY DEF Compose, Fail
<1>2. \E some \in SUBSET texts : touched' = touched \cup UNION {Looks(f) : f \in some}
                               /\ read' = read \cup {Real(f) : f \in some \cap there}
  <2>1. CASE Goes
    BY <2>1 DEF Compose
  <2>2. CASE ~Goes
    BY <2>2 DEF Compose
  <2> QED BY <2>1, <2>2
<1>3. ReadsConfined'
  <2>1. PICK some \in SUBSET texts : touched' = touched \cup UNION {Looks(f) : f \in some}
                                  /\ read' = read \cup {Real(f) : f \in some \cap there}
    BY <1>2
  <2>2. \A f \in some \cap there : Confined(f) /\ Exists(f)
    OBVIOUS
  <2> HIDE DEF there, texts
  <2> QED BY <1>1, <2>1, <2>2, ReadsMore DEF IInv
<1>4. Stages /\ Descends(line)
  BY DEF IInv
<1>5. Len(frames) \in DOMAIN frames /\ dir = frames[Len(frames)]
  BY <1>1, <1>4, Fronted DEF Stages
<1>6. IsHop(world, dir)
  BY <1>4, <1>5 DEF Stages
<1>7. Real(dir) \in DOMAIN world.hops /\ SchemaAccepts(y)
  BY <1>6, RealIs DEF IsHop
<1>8. Typed(y.own) /\ PinnedModels(y.own) \subseteq AnyModel /\ \A p \in DOMAIN y.files : p[1] \in {"prompts", "modules"}
  BY <1>4, <1>7, WorldsAssumption DEF Stages
<1>9. DOMAIN y.own \subseteq Leaves
  BY <1>7 DEF SchemaAccepts
<1>10. DOMAIN own = DOMAIN y.own /\ \A p \in DOMAIN own \ DOMAIN y.files : own[p] = y.own[p]
  OBVIOUS
<1> HIDE DEF own, y, texts, there
<1>11. Typed(own) /\ PinnedModels(own) \subseteq AnyModel
  BY <1>8, <1>9, <1>10, OwnIsTyped
<1>12. line # <<>> /\ line[Len(line)] = got /\ Len(line) \in DOMAIN line /\ IsSeq(line)
  BY <1>1, <1>4, Fronted DEF Stages
<1>13. Whole(got) /\ Sealed(got)
  BY <1>4, <1>12 DEF Descends
<1>14. UnderLocks'
  BY <1>1 DEF UnderLocks
<1>15. CASE Goes
  <2>1. got' = Composed(got, y, own) /\ line' = Append(line, got') /\ frames' = Front(frames) /\ UNCHANGED out
    BY <1>1, <1>15
  <2>2. Accepts(got, y, own)
    BY <1>15
  <2> HIDE DEF Goes
  <2>3. Whole(got') /\ Sealed(got') /\ Keeps(got, got') /\ Tighter(got.leaf, got'.leaf)
    BY <1>9, <1>10, <1>11, <1>13, <2>1, <2>2, ChildOf
  <2>4. Descends(line')
    BY <1>4, <1>12, <2>1, <2>3, LongerLine
  <2>5. IsSeq(line') /\ line' # <<>> /\ line'[Len(line')] = got'
    <3>1. Len(line') = Len(line) + 1 /\ line'[Len(line) + 1] = got' /\ IsSeq(line') /\ line' # <<>>
      BY <1>12, <2>1, Appended
    <3> QED BY <3>1
  <2>6. IsSeq(frames') /\ \A i \in DOMAIN frames' : i \in DOMAIN frames /\ frames'[i] = frames[i]
    BY <1>1, <1>4, <2>1, Fronted DEF Stages
  <2>7. (\A i \in DOMAIN frames : IsHop(world, frames[i]))'
    BY <1>1, <1>4, <2>6 DEF Stages
  <2>8. Stages'
    BY <1>1, <1>4, <2>1, <2>5, <2>6, <2>7 DEF Stages
  <2> QED BY <1>3, <1>14, <2>4, <2>8 DEF IInv
<1>16. CASE ~Goes
  <2>1. out' = "failed" /\ UNCHANGED <<frames, got, line>>
    BY <1>1, <1>16
  <2>2. Stages'
    BY <1>1, <1>4, <2>1 DEF Stages
  <2> QED BY <1>3, <1>4, <1>14, <2>1, <2>2 DEF IInv
<1> QED BY <1>15, <1>16

LEMMA SettleHolds == IInv /\ Settle => IInv'
<1> SUFFICES ASSUME IInv, Settle PROVE IInv'
  OBVIOUS
<1> DEFINE explicit == Explicit(world.settings)
<1>1. /\ out = "composing" /\ UNCHANGED <<world, at, frames, got, line, read, touched>>
      /\ out' \in {"running", "refused"}
      /\ out' = "running" => Respects(got.locked, explicit) /\ effective' = Layered(got.leaf, explicit)
  BY DEF Settle
<1> HIDE DEF explicit
<1>2. ReadsConfined'
  BY <1>1, WorldStays DEF IInv
<1>3. Stages'
  BY <1>1 DEF IInv, Stages
<1>4. UnderLocks'
  <2> SUFFICES ASSUME out' = "running", NEW q, Fixed(got, q)
               PROVE  Get(effective', q) = Get(got.leaf, q)
    BY <1>1 DEF UnderLocks
  <2> QED BY <1>1, SettingsKeep DEF Fixed
<1> QED BY <1>1, <1>2, <1>3, <1>4 DEF IInv

LEMMA StutterHolds == IInv /\ UNCHANGED vars => IInv'
<1> SUFFICES ASSUME IInv, UNCHANGED vars PROVE IInv'
  OBVIOUS
<1>1. ReadsConfined'
  BY WorldStays DEF vars, IInv
<1>2. Stages' /\ UnderLocks' /\ Descends(line)'
  BY DEF vars, IInv, Stages, UnderLocks
<1> QED BY <1>1, <1>2 DEF IInv

\* The invariant holds in every state: profiles are whole and sealed, each keeps what those
\* before it locked (load.ts, composeProfile), and what is read is inside.
LEMMA InvariantHolds == Spec => []IInv
<1>1. IInv /\ [Next]_vars => IInv'
  BY TakeBuiltinHolds, ReadHopHolds, ComposeHolds, SettleHolds, StutterHolds DEF Next
<1> QED BY <1>1, InitHolds, PTL DEF Spec

-----------------------------------------------------------------------------
(* The theorems.                                                           *)

\* What a profile locked is what it was at every later stage, after each child and under
\* the settings (presentLeafPaths, lockViolation, assertSettingsRespectLocks).
THEOREM LocksAreKept == Spec => []LocksHold
<1>1. IInv => LocksHold
  <2> SUFFICES ASSUME IInv, out = "running", NEW i \in DOMAIN line,
                      NEW q \in LockedLeaves(line[i]) \ UNION {OwnOnly, Joined, {<<"permissions", "deny">>}}
               PROVE  Get(effective, q) = Get(line[i].leaf, q)
    BY DEF LocksHold
  <2>1. Fixed(line[i], q)
    BY DEF Fixed, Exempt, LockedLeaves
  <2>2. line # <<>> /\ IsSeq(line) /\ line[Len(line)] = got
    BY DEF IInv, Stages
  <2>3. DOMAIN line = 1..Len(line) /\ Len(line) \in Nat
    BY <2>2 DEF IsSeq
  <2>4. i <= Len(line) /\ Len(line) \in DOMAIN line
    BY <2>3
  <2>5. Keeps(line[i], got)
    BY <2>2, <2>4 DEF IInv, Descends
  <2>6. Get(got.leaf, q) = Get(line[i].leaf, q)
    BY <2>1, <2>5 DEF Keeps, Get
  <2>7. Fixed(got, q)
    BY <2>1, <2>5 DEF Keeps, Fixed
  <2>8. Get(effective, q) = Get(got.leaf, q)
    BY <2>7 DEF IInv, UnderLocks, Get
  <2> QED BY <2>6, <2>8
<1> QED BY <1>1, InvariantHolds, PTL

\* No profile drops a denial, a required name or the safety block of the one it extends, goes with autopilot under a
\* safety block, asks for a kube credential it has not declared, or pins a model its policy bars (composeProfile).
THEOREM ChildrenOnlyTighten == Spec => []NeverLooser
<1>1. IInv => NeverLooser
  BY DEF IInv, Descends, Tighter, NeverLooser
<1> QED BY <1>1, InvariantHolds, PTL

\* A confined load reads nothing outside its directory (confined).
THEOREM ReadsStayInside == Spec => []ReadsConfined
<1> QED BY InvariantHolds, PTL DEF IInv
====
