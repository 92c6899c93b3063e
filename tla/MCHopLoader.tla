---------------------------- MODULE MCHopLoader -----------------------------
EXTENDS HopLoader

Name(n) == [path |-> FALSE, name |-> n, version |-> Unset]
Pinned(n, v) == [path |-> FALSE, name |-> n, version |-> v]
Rel(up, down) == [path |-> TRUE, to |-> [absolute |-> FALSE, up |-> up, down |-> down]]
At(place) == [path |-> TRUE, to |-> [absolute |-> TRUE, up |-> 0, down |-> place]]

Hop(name, own) ==
  [name |-> name, extends |-> Name("coding"), own |-> own, files |-> <<>>, modules |-> <<>>, evals |-> {}, locked |-> {}]
Locks(y, paths) == [y EXCEPT !.locked = paths]
Ext(y, ref) == [y EXCEPT !.extends = ref]

Mode == <<"permissions", "defaultMode">>
Allow == <<"permissions", "allow">>
Deny == <<"permissions", "deny">>
Turns == <<"budgets", "maxTurns">>
Include == <<"tools", "include">>
Envelope(hash) == [requirePlanArtifact |-> TRUE, hash |-> hash]
TierOf(primary, fallbacks) == [primary |-> primary, fallbacks |-> fallbacks]
Suite(name, role, gates) == [name |-> name, role |-> role, gates |-> gates]
Suites(gates) == {Suite("golden", "golden", gates), Suite("score", "frontier", Unset)}
Tuned(promote) ==
  [p \in TuningRequired |-> CASE p[2] = "promote" -> promote [] p[2] = "goldenSuite" -> "golden"
                              [] p[2] = "frontierMetric" -> "score" [] OTHER -> "x"]
Topic(id, kind, feedback) == [id |-> id, kind |-> kind, key |-> IF kind = "state" THEN "dedup" ELSE "k", feedback |-> feedback]
KubeCred(name) == [tool |-> "kube", name |-> name, source |-> "secret", value |-> FALSE]
Tool(t) == [m \in {"aws"} |-> [enabled |-> TRUE, tools |-> {t}]]

\* What each file of a chain may hold.
Bodies ==
  "plain" :> Hop("plain", <<>>)
  @@ "cruise" :> Locks(Hop("cruise", Mode :> "cruise" @@ Deny :> {"Bash(git push*)"}), {<<"permissions">>})
  @@ "turns" :> Locks(Hop("turns", Turns :> 50), {Turns})
  @@ "more" :> Hop("more", Turns :> 80 @@ Allow :> {"Bash"})
  @@ "deny" :> Hop("deny", Deny :> {"Write"})
  @@ "apply" :> Hop("apply", Mode :> "cruise" @@ Safety :> Envelope({"identity"}))
  @@ "envelope" :> Hop("envelope", Safety :> Envelope({"plan"}))
  @@ "autopilot" :> Hop("autopilot", Mode :> "autopilot")
  @@ "tuned" :> [Hop("tuned", Tuned("human")) EXCEPT !.evals = Suites(Unset), !.locked = {<<"tuning", "cadence">>}]
  @@ "promote" :> [Hop("promote", <<"tuning", "promote">> :> "auto") EXCEPT !.evals = Suites(TRUE)]
  @@ "suites" :> [Hop("suites", <<>>) EXCEPT !.evals = Suites(FALSE)]
  @@ "ungated" :> [Hop("ungated", Tuned("auto")) EXCEPT !.evals = Suites(FALSE)]
  @@ "model" :> Hop("model", <<"model", "main">> :> "mid" @@ <<"model", "tiers", "mid">> :> TierOf("m2", {"m3"}))
  @@ "lower" :> Hop("lower", <<"model", "tiers", "cheap">> :> TierOf("m3", {}) @@ <<"model", "main">> :> "mid")
  @@ "policy" :> Hop("policy", <<"model_policy", "allow">> :> {{"m2", "m3"}} @@ <<"model_policy", "deny">> :> {{"m3"}})
  @@ "kube" :> Hop("kube", Credentials :> {KubeCred("prod")} @@ <<"requires", "kube">> :> [n \in {"prod"} |-> "required"])
  @@ "nokube" :> Hop("nokube", Credentials :> {})
  @@ "mcp" :> Locks(Hop("mcp", <<"requires", "mcp">> :> [n \in {"websearch", "pager"} |-> "optional"]), {<<"requires", "agents">>})
  @@ "topics" :> Hop("topics", <<"memory", "topics">> :> {Topic("t", "record", "off")} @@ <<"memory", "tenant">> :> "t1")
  @@ "asks" :> Hop("asks", <<"memory", "topics">> :> {Topic("t", "record", "ask")} @@ Publication :> "p1")
  @@ "keyless" :> Hop("keyless", <<"memory", "topics">> :> {Topic("t", "state", "off")})
  @@ "notes" :> Locks(Hop("notes", <<"memory", "workspace">> :> "w"), {<<"memory", "workspace">>, <<"routing">>})
  @@ "module" :> [Hop("module", <<>>) EXCEPT !.modules = Tool("Write")]
  @@ "tools" :> Hop("tools", Include :> {"Read"})

Chain(base, mid, leaf) ==
  <<"p", "base">> :> base @@ <<"p", "mid">> :> Ext(mid, Rel(1, <<"base">>)) @@ <<"p", "leaf">> :> Ext(leaf, Rel(1, <<"mid">>))

W(hops, ask) == [hops |-> hops, ask |-> ask, texts |-> {}, links |-> <<>>, confined |-> FALSE, settings |-> <<>>]
Asks(w, explicit) == [w EXCEPT !.settings = explicit]

Settings ==
  "none" :> <<>>
  @@ "turns" :> <<(<<"maxTurns">> :> 9), (<<"mode">> :> "manual")>>
  @@ "escalation" :> <<(<<"routing", "escalationPatience">> :> 5), (<<"mode">> :> "recon"), (<<"maxTurns">> :> 7)>>

ChainWorld(x) ==
  Asks(W(Chain(IF x[5] = "reviewer" THEN Ext(Bodies[x[1]], Name("reviewer")) ELSE Bodies[x[1]], Bodies[x[2]], Bodies[x[3]]),
         Rel(0, <<"leaf">>)), Settings[x[4]])

Chained ==
  ((DOMAIN Bodies) \X (DOMAIN Bodies) \X {"plain", "more", "deny", "autopilot", "policy", "nokube", "topics"} \X {"none"} \X {"coding"})
  \cup ((DOMAIN Bodies) \X {"plain", "deny", "module"} \X {"plain"} \X {"turns", "escalation"} \X {"coding", "reviewer"})

\* Where names and paths lead.
N(n) == <<"p", "hops", n>>
U(n) == <<"u", "hops", n>>
Bundle(y) == [W(<<"b", "hop">> :> y @@ <<"b", "base">> :> Bodies["deny"] @@ <<"o">> :> Bodies["plain"], At(<<"b", "hop">>)) EXCEPT
                !.confined = TRUE, !.texts = {<<"b", "hop", "system.md">>, <<"o", "secret">>}]
WithFile(place) ==
  [Hop("files", <<"prompts", "system">> :> "file") EXCEPT !.files = <<"prompts", "system">> :> place]
In(down) == [absolute |-> FALSE, up |-> 0, down |-> down]
Linked(w, from, to) == [w EXCEPT !.links = from :> to]

Places ==
  "unasked" :> W(<<>>, Name("coding"))
  @@ "pin" :> W(<<>>, Pinned("coding", "1.1.0"))
  @@ "old" :> W(<<>>, Pinned("reviewer", "0.9.0"))
  @@ "flat" :> W(N("a") :> Bodies["deny"] @@ U("a") :> Bodies["more"], Name("a"))
  @@ "flat pinned" :> W(N("a") :> Bodies["deny"], Pinned("a", "1.9.0"))
  @@ "newest" :> W(U("a") \o <<"1.9.0">> :> Bodies["deny"] @@ U("a") \o <<"1.10.0">> :> Bodies["more"], Name("a"))
  @@ "pinned" :> W(N("a") \o <<"1.9.0">> :> Bodies["deny"] @@ N("a") \o <<"1.10.0">> :> Bodies["more"], Pinned("a", "1.9.0"))
  @@ "missing" :> W(N("a") \o <<"1.9.0">> :> Bodies["deny"] @@ U("a") \o <<"1.10.0">> :> Bodies["more"], Pinned("a", "1.10.0"))
  @@ "both" :> W(N("a") :> Bodies["deny"] @@ N("a") \o <<"1.9.0">> :> Bodies["more"], Name("a"))
  @@ "circle" :> W(N("a") :> Ext(Bodies["deny"], Name("b")) @@ N("b") :> Ext(Bodies["more"], Name("a")), Name("a"))
  @@ "named parent" :> Bundle(Ext(Bodies["more"], Name("a")))
  @@ "builtin parent" :> Bundle(Ext(Bodies["more"], Name("reviewer")))
  @@ "inside" :> Bundle(Ext(WithFile(In(<<"system.md">>)), Rel(1, <<"base">>)))
  @@ "outside" :> Bundle(Ext(Bodies["more"], Rel(2, <<"o">>)))
  @@ "far file" :> Bundle(WithFile([absolute |-> TRUE, up |-> 0, down |-> <<"o", "secret">>]))
  @@ "up file" :> Bundle(WithFile([absolute |-> FALSE, up |-> 2, down |-> <<"o", "secret">>]))
  @@ "no file" :> Bundle(WithFile(In(<<"none.md">>)))
  @@ "linked file" :> Linked(Bundle(WithFile(In(<<"link.md">>))), <<"b", "hop", "link.md">>, <<"o", "secret">>)
  @@ "linked dir" :> Linked(Bundle(Ext(Bodies["more"], Rel(1, <<"link">>))), <<"b", "link">>, <<"o">>)
  @@ "linked inside" :> Linked(Bundle(Ext(Bodies["more"], Rel(1, <<"link">>))), <<"b", "link">>, <<"b", "base">>)
  @@ "module file" :> Bundle([Bodies["module"] EXCEPT !.files = <<"modules", "aws", "prompt">> :> In(<<"system.md">>)])
  @@ "far module" :> Bundle([Bodies["module"] EXCEPT !.files = <<"modules", "aws", "prompt">> :> [In(<<"o", "secret">>) EXCEPT !.up = 2]])
  @@ "linked root" :> [Linked(Bundle(Bodies["more"]), <<"b">>, <<"real">>) EXCEPT
                         !.hops = <<"real", "hop">> :> Bodies["more"]]

AllWorlds == {ChainWorld(x) : x \in Chained} \cup Range(Places)

\* One chain for each promise that is not kept.
Parents ==
  "tools" :> Locks(Bodies["tools"], {Include}) @@ "evals" :> Locks(Bodies["tuned"], {<<"evals">>})
  @@ "memory" :> Locks(Bodies["topics"], {<<"memory">>})
Kept ==
  {W(Chain(Parents[x[1]], Bodies[x[2]], Bodies["plain"]), Rel(0, <<"leaf">>)) :
     x \in {<<"tools", "module">>, <<"evals", "suites">>, <<"memory", "plain">>}}

VersionNumbers == "1.9.0" :> <<1, 9, 0>> @@ "1.10.0" :> <<1, 10, 0>>
RootDir == <<"b">>
CwdDir == <<"p">>
HomeDir == <<"u">>
AnyGlob == {"m2", "m3"}
WordsSaid == {"plan", "identity", "websearch", "pager", "prod", "Write", "Edit", "Bash", "Bash(git push*)", "Bash(git commit*)"}
=============================================================================
