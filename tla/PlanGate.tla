------------------------------ MODULE PlanGate ------------------------------
(***************************************************************************)
(* The preApply plan gate (permission/plan-gate.ts): which plans (dry      *)
(* runs) and applies a line runs, keyed to a target with the directory and *)
(* environment each runs in; which of them is recorded; whether an apply   *)
(* matches a recorded plan.  Flags are read the way the tool reads them:   *)
(* canonicalize or refuse.  A flag word is a member of FlagWord's domain,  *)
(* its name spelled out and its attached value, "" when the word has none. *)
(***************************************************************************)
EXTENDS ShellLine

CONSTANTS FlagWord,     \* flag word -> [name, value]
          NonLiteral,   \* words with an expansion, a glob or `~`
          Absolute,     \* directories written with a leading /
          Unknown       \* what a field is when it could not be computed

----------------------------------------------------------------------------
\* Flags

KUBE ==
  [value |-> {"filename", "namespace", "context", "kubeconfig", "server", "output", "replicas"},
   bool |-> {"dry-run", "prune", "edit"},
   repeatable |-> {"filename"},
   global |-> {"namespace", "context", "kubeconfig", "server"},
   drop |-> {"output", "dry-run", "namespace", "context", "kubeconfig", "server"},
   identity |-> {"namespace", "context", "kubeconfig", "server"},
   files |-> {"filename", "kubeconfig"}]

HELM ==
  [value |-> {"namespace", "kube-context", "values", "set", "version", "repo", "post-renderer"},
   bool |-> {"install", "dry-run", "detailed-exitcode"},
   repeatable |-> {"set", "values"},
   global |-> {"namespace", "kube-context"},
   drop |-> {"dry-run", "namespace", "kube-context"},
   identity |-> {"namespace", "kube-context"},
   files |-> {"values"}]

\* helm-diff's display flags shape what is shown, not what the upgrade applies.
HELM_DIFF == [HELM EXCEPT !.drop = @ \cup {"detailed-exitcode"}]

TF ==
  [value |-> {"chdir", "var", "var-file", "out", "state"},
   bool |-> {"auto-approve", "destroy", "refresh-only", "detailed-exitcode"},
   repeatable |-> {"var", "var-file"},
   global |-> {"chdir"},
   drop |-> {"auto-approve", "detailed-exitcode", "out", "chdir"},
   identity |-> {"chdir"},
   files |-> {"var-file", "state"}]

SpecOf(tool) ==
  CASE tool = "kubectl" -> KUBE [] tool = "helm" -> HELM [] tool = "terraform" -> TF

IsFlag(w) == w \in DOMAIN FlagWord

Given(s, name) == SelectSeq(s.values, LAMBDA v : v[1] = name)

\* A flag that does not accumulate but comes twice is refused, not resolved.
Put(spec, s, name, value) ==
  IF Given(s, name) # <<>> /\ name \notin spec.repeatable THEN [s EXCEPT !.why = TRUE]
  ELSE [s EXCEPT !.values = Append(@, <<name, value>>),
                 !.keep = IF name \in spec.drop THEN @ ELSE Append(@, <<name, value>>),
                 !.pending = ""]

\* A value flag takes the next word, whatever it looks like; a bare unknown flag is
\* refused (its arity is unknown); `--dry-run server`, spaced, has no target word.
ReadFlag(spec, s, w) ==
  IF s.why THEN s
  ELSE IF s.pending # "" THEN Put(spec, s, s.pending, w)
  ELSE IF ~IsFlag(w)
       THEN IF s.mode /\ w \in {"server", "client", "none"} THEN [s EXCEPT !.mode = FALSE]
            ELSE [s EXCEPT !.keep = Append(@, <<w>>), !.mode = FALSE]
  ELSE LET f == FlagWord[w]  t == [s EXCEPT !.mode = w = "--dry-run"] IN
       CASE f.value # "" -> Put(spec, t, f.name, f.value)
         [] f.value = "" /\ f.name \in spec.value -> [t EXCEPT !.pending = f.name]
         [] f.value = "" /\ f.name \in spec.bool -> Put(spec, t, f.name, "true")
         [] OTHER -> [t EXCEPT !.why = TRUE]

CanonicalFlags(spec, ws) ==
  LET s == FoldLeft(LAMBDA a, w : ReadFlag(spec, a, w),
                    [values |-> <<>>, keep |-> <<>>, pending |-> "", mode |-> FALSE, why |-> FALSE],
                    ws) IN
  [s EXCEPT !.why = @ \/ s.pending # ""]

Value(cf, name) == LET vs == Given(cf, name) IN IF vs = <<>> THEN "" ELSE vs[1][2]

\* The global flags before the verb: how many words they take, and whether one of them
\* is not a known global.
SplitGlobals(tool, ws) ==
  FoldLeft(LAMBDA s, w :
             IF s.done \/ s.unknown THEN s
             ELSE IF s.pending THEN [s EXCEPT !.pending = FALSE, !.n = @ + 1]
             ELSE IF ~IsFlag(w) THEN [s EXCEPT !.done = TRUE]
             ELSE IF FlagWord[w].name \notin SpecOf(tool).global THEN [s EXCEPT !.unknown = TRUE]
             ELSE [s EXCEPT !.n = @ + 1, !.pending = FlagWord[w].value = ""],
           [n |-> 0, pending |-> FALSE, done |-> FALSE, unknown |-> FALSE], ws)

VerbLed(tool, ws) == LET n == SplitGlobals(tool, ws).n IN SubSeq(ws, n + 1, Len(ws)) \o SubSeq(ws, 1, n)

\* kubectl's preferences file changes a command's flags unseen.
NamesKuberc(tool, ws) == tool = "kubectl" /\ "--kuberc" \in ToSet(ws)

----------------------------------------------------------------------------
\* One simple command: a plan, an apply, or neither

BARE_ONLY == {"kubectl", "helm", "terraform"}
OTHER_TOOLS == {"pulumi", "aws"}
GATED_TOOLS == BARE_ONLY \cup OTHER_TOOLS

PlanCommand(kind, tool, target, inputs, must) ==
  [kind |-> kind, tool |-> tool, target |-> target, inputs |-> inputs, mustExist |-> must]

Neither == PlanCommand("none", "", <<>>, {}, {})

\* An apply that no plan matches: plans are never of this target.
Unreadable(tool) == PlanCommand("apply", tool, <<<<>>, <<<<"unreadable">>>>>>, {}, {})

DryRun(ws) ==
  LET modes == {FlagWord[w].value : w \in {v \in ToSet(ws) : IsFlag(v) /\ FlagWord[v].name = "dry-run"}} IN
  IF modes # {} /\ modes \subseteq {"", "client", "server", "true"} THEN "plan" ELSE "apply"

IdentityKey(spec, cf) == SelectSeq(cf.values, LAMBDA v : v[1] \in spec.identity)

FlagInputs(spec, cf) == {v[2] : v \in {x \in ToSet(cf.values) : x[1] \in spec.files}}

KUBECTL_MUTATING == {"apply", "delete", "scale", "edit"}

\* `diff` is the plan of the apply of the same words.
KubeCommand(ws, verb, cf) ==
  LET change == [i \in DOMAIN cf.keep |-> IF cf.keep[i] = <<"diff">> THEN <<"apply">> ELSE cf.keep[i]] IN
  IF NamesKuberc("kubectl", ws) \/ SplitGlobals("kubectl", ws).unknown THEN Unreadable("kubectl")
  ELSE IF verb \notin KUBECTL_MUTATING \cup {"diff"} THEN Neither
  ELSE IF cf.why THEN Unreadable("kubectl")
  ELSE PlanCommand(IF verb = "diff" THEN "plan" ELSE DryRun(ws), "kubectl",
                   <<IdentityKey(KUBE, cf), change>>, FlagInputs(KUBE, cf), {})

ClassifyKube(ws) == KubeCommand(ws, Head(VerbLed("kubectl", ws)), CanonicalFlags(KUBE, ws))

\* What a chart is built from must be bound: a local directory that exists, or an exact
\* version; a post-renderer by its path.
LocalScripts == {"./render"}
Remote(chart) == chart \in {"oci://chart"}

HelmCommand(ws, spec, verb, cf) ==
  LET diff == spec = HELM_DIFF
      change == SelectSeq(cf.keep, LAMBDA k : k # <<"diff">>)
      words == SelectSeq(change, LAMBDA k : Len(k) = 1)
      chart == IF Len(words) > 2 THEN words[3][1] ELSE ""
      pinned == Value(cf, "version") = "1.2.3"
      renderer == Value(cf, "post-renderer") IN
  IF SplitGlobals("helm", ws).unknown THEN Unreadable("helm")
  ELSE IF verb \notin {"install", "upgrade", "uninstall"} THEN Neither
  ELSE IF \/ cf.why
          \/ renderer # "" /\ renderer \notin LocalScripts
          \/ (Remote(chart) \/ Value(cf, "repo") # "") /\ ~pinned
       THEN Unreadable("helm")
  ELSE LET sources == {renderer, IF Remote(chart) THEN "" ELSE chart} \ {""} IN
       PlanCommand(IF diff THEN "plan" ELSE DryRun(ws), "helm",
                   <<IdentityKey(spec, cf), change>>, FlagInputs(spec, cf) \cup sources,
                   sources \ (IF pinned THEN {chart} ELSE {}))

HelmSpec(led) == IF led[1] = "diff" THEN HELM_DIFF ELSE HELM
HelmVerb(led) == IF led[1] = "diff" THEN led[2] ELSE led[1]
HelmLed(ws, led) == HelmCommand(ws, HelmSpec(led), HelmVerb(led), CanonicalFlags(HelmSpec(led), ws))

ClassifyHelm(ws) == HelmLed(ws, VerbLed("helm", ws))

\* A saved plan binds itself; an unsaved one binds the directory and its var files.
\* `destroy` is the apply of `plan -destroy`.
TerraformCommand(cf) ==
  LET words == SelectSeq(cf.keep, LAMBDA k : Len(k) = 1)
      verb == words[1][1]
      dir == IF Value(cf, "chdir") = "" THEN "." ELSE Value(cf, "chdir")
      flags == SelectSeq(cf.keep, LAMBDA k : Len(k) = 2 /\ k[1] # "destroy")
      carried == SelectSeq(flags, LAMBDA k : k[1] \notin {"var", "var-file", "refresh-only"})
      destroys == verb = "destroy" \/ Given(cf, "destroy") # <<>>
      file == IF verb = "plan" THEN Value(cf, "out")
              ELSE IF verb = "apply" /\ Len(words) > 1 THEN words[2][1] ELSE ""
      kind == IF verb = "plan" THEN "plan" ELSE "apply" IN
  IF cf.why THEN Unreadable("terraform")
  ELSE IF verb \notin {"plan", "apply", "destroy"} THEN Neither
  ELSE IF file # "" THEN PlanCommand(kind, "terraform", <<<<<<dir, "planfile">>>>, carried>>, {file}, {})
  ELSE PlanCommand(kind, "terraform", <<<<<<dir, IF destroys THEN "destroy" ELSE "">>>>, flags>>,
                   {dir} \cup FlagInputs(TF, cf), {})

ClassifyTerraform(ws) == TerraformCommand(CanonicalFlags(TF, ws))

\* The other tools have no flags of their own to bind; the AWS CLI plans only as change sets.
OTHER_PLANS == {"preview", "create-change-set"}
OTHER_APPLIES == {"up", "destroy", "delete-stack", "execute-change-set"}

ClassifyOther(tool, ws) ==
  LET named == SelectSeq(ws, LAMBDA w : ~IsFlag(w) /\ w \notin OTHER_PLANS \cup OTHER_APPLIES)
      target == <<<<>>, [i \in DOMAIN named |-> <<named[i]>>]>> IN
  IF ToSet(ws) \cap OTHER_PLANS # {} THEN PlanCommand("plan", tool, target, {}, {})
  ELSE IF ToSet(ws) \cap OTHER_APPLIES # {} THEN PlanCommand(DryRun(ws), tool, target, {}, {})
  ELSE Neither

\* A gated tool run by a path is whatever that file is.
ClassifyWords(pathed, words) ==
  IF words[1] \notin GATED_TOOLS \/ Len(words) < 2 THEN Neither
  ELSE IF pathed /\ words[1] \in BARE_ONLY THEN Unreadable(words[1])
  ELSE CASE words[1] = "kubectl" -> ClassifyKube(Tail(words))
         [] words[1] = "helm" -> ClassifyHelm(Tail(words))
         [] words[1] = "terraform" -> ClassifyTerraform(Tail(words))
         [] OTHER -> ClassifyOther(words[1], Tail(words))

ClassifyPlanCommand(form) ==
  LET pathed == form[1] \in {"path", "relative"} IN
  ClassifyWords(pathed, IF pathed THEN Tail(form) ELSE form)

----------------------------------------------------------------------------
\* The whole line

CONTEXT_ONLY == {"cd", "export", "unset", "true"}
ENV_OPAQUE == {"read", "alias"}
LOCKED_ENV == {"KUBECTL_KUBERC", "PATH"}

SetNothing(s, w) == s     \* mutant: assignments are not read

SetEnv(s, w) ==
  LET a == Assign[w] IN
  [s EXCEPT !.env = {e \in @ : e[1] # a.name} \cup {<<a.name, a.value>>},
            !.why = @ \/ ~a.literal \/ a.name \in LOCKED_ENV]

\* The assignments that lead a part, `env`'s among them; a prefix ends them.
LeadAssigns(p) ==
  LET ws == SelectSeq(p.pre, LAMBDA w : w \notin {"{", "!"})
      n == Max({0} \cup {k \in DOMAIN ws : \A j \in 1..k : ws[j] \in DOMAIN Assign \cup {"env", "env -i"}}) IN
  SubSeq(ws, 1, n)

ReadableNow(p) == ToSet(p.pre) \subseteq {"{", "!", "env", "timeout", "nohup", "command"} \cup DOMAIN Assign

Written(p) == IF p.by = "name" THEN p.cmd ELSE <<p.by>> \o p.cmd

ChangeDir(s, to) ==
  IF to \in NonLiteral THEN [s EXCEPT !.why = TRUE]
  ELSE [s EXCEPT !.dir = IF to \in Absolute THEN <<to>> ELSE Append(@, to)]

UnsetEnv(s, name) == [s EXCEPT !.env = {e \in @ : e[1] # name}, !.why = @ \/ name \in LOCKED_ENV]

AddStep(s, p, pc) ==
  IF ~ReadableNow(p) \/ pc.kind = "none" THEN s
  ELSE [s EXCEPT !.steps = Append(@, [pc |-> pc, cwd |-> s.dir, env |-> s.env]),
                 !.negated = @ \/ (pc.kind = "plan" /\ "!" \in ToSet(p.pre))]

\* One part of the line, with the directory and environment read so far.
ReadPart(s, p) ==
  LET t == FoldLeft(LAMBDA a, w : IF w \in DOMAIN Assign THEN SetEnv(a, w) ELSE a,
                    [s EXCEPT !.why = @ \/ ToSet(p.pre) \cap {"env -i", "assigning expansion", "for"} # {}],
                    LeadAssigns(p))
      head == IF p.cmd = <<>> THEN "nothing" ELSE p.cmd[1] IN
  CASE head = "nothing" -> t
    [] head = "cd" -> ChangeDir(t, p.cmd[2])
    [] head = "export" -> SetEnv(t, p.cmd[2])
    [] head = "unset" -> UnsetEnv(t, p.cmd[2])
    [] head \in ENV_OPAQUE -> [t EXCEPT !.why = TRUE]
    [] OTHER -> AddStep(t, p, ClassifyPlanCommand(Written(p)))

Kinds(pcs, kind) == Len(SelectSeq(pcs, LAMBDA pc : pc.kind = kind))

ReadSteps(line, cwd) ==
  FoldLeft(ReadPart, [dir |-> cwd, env |-> {}, steps |-> <<>>, why |-> FALSE, negated |-> FALSE],
           SplitShellCommands(line))

\* Against d, the decomposition, and what each of its commands is; s is what the parts read.
CrossCheck(line, d, seen, s) ==
  LET pcs == [i \in DOMAIN s.steps |-> s.steps[i].pc]
      why == \/ s.why
             \/ Kinds(seen, "apply") > Kinds(pcs, "apply")
             \/ Kinds(seen, "plan") > Kinds(pcs, "plan")
      gated == \E i \in DOMAIN line : Len(line[i].cmd) > 0 /\ line[i].cmd[1] \in GATED_TOOLS
      final == d.commands[Len(d.commands)]
      dryRuns == SelectSeq(s.steps, LAMBDA x : x.pc.kind = "plan") IN
  IF d.opaque THEN [steps |-> <<>>, unreadable |-> TRUE, recordable |-> <<>>]
  ELSE [steps |-> s.steps,
        unreadable |-> why /\ (gated \/ s.steps # <<>> \/ Kinds(seen, "none") < Len(seen)),
        \* the line's one dry run, when its exit status is the line's
        recordable |->
          IF /\ ~why /\ ~s.negated /\ Len(dryRuns) = 1 /\ Kinds(seen, "apply") = 0
             /\ d.commands # <<>> /\ final.forms # {}
             /\ Last(seen).kind = "plan"
             /\ \A i \in 1..(Len(d.commands) - 1) :
                  d.commands[i].forms = {} \/ d.commands[i].first[1] \in CONTEXT_ONLY
             /\ line[Len(line)].then # "&"
          THEN dryRuns ELSE <<>>]

Seen(d) == [i \in DOMAIN Runs(d) |-> ClassifyPlanCommand(Runs(d)[i].first)]

PlanOf(line, cwd, d) == CrossCheck(line, d, Seen(d), ReadSteps(line, cwd))

PlanLine(line, cwd) == PlanOf(line, cwd, DecomposeBash(line))

----------------------------------------------------------------------------
\* Recorded plans

\* A dry run's exit status says it ran: 0, or the one that says there are changes.
PlanExitOk(pc, form, code) ==
  \/ code = 0
  \/ pc.tool = "kubectl" /\ code = 1 /\ "diff" \in ToSet(form)
  \/ pc.tool = "terraform" /\ code = 2 /\ "-detailed-exitcode" \in ToSet(form)
  \/ pc.tool = "helm" /\ code = 2 /\ {"diff", "--detailed-exitcode"} \subseteq ToSet(form)

\* Only the newest plan of the same tool, target and directory is consulted; an unknown
\* field never matches.
MatchPlan(artifacts, apply, hashFields) ==
  LET same == SelectSeq(artifacts, LAMBDA a : /\ a.tool = apply.tool
                                              /\ a.target = apply.target
                                              /\ a.cwd = apply.cwd)
      newest == same[Len(same)] IN
  /\ same # <<>>
  /\ \A f \in hashFields : newest.fields[f] # Unknown /\ newest.fields[f] = apply.fields[f]

----------------------------------------------------------------------------
\* The one line a mutation capability is granted to

\* A change that starts a program the line does not name.
SpawnsProgram(form) ==
  \/ form[1] = "helm" /\ \E w \in ToSet(form) : IsFlag(w) /\ FlagWord[w].name = "post-renderer"
  \/ form[1] = "kubectl" /\ ToSet(form) \cap {"edit", "--edit"} # {}

TargetFlags == {"kubeconfig", "server"}

LeavesGovernedKubeconfig(form, env) ==
  \/ \E e \in env : e[1] = "KUBECONFIG"
  \/ /\ form[1] \in {"kubectl", "helm"}
     /\ \E w \in ToSet(form) : IsFlag(w) /\ FlagWord[w].name \in TargetFlags

KUBE_READS == [kubectl |-> {"get", "wait"}, helm |-> {"status"}]

KubeRead(form) ==
  /\ form[1] \in DOMAIN KUBE_READS /\ Len(form) > 1
  /\ ~SplitGlobals(form[1], Tail(form)).unknown
  /\ Head(VerbLed(form[1], Tail(form))) \in KUBE_READS[form[1]]

SoleChange(line, d, pl, changes) ==
  LET step == pl.steps[1]
      running == {c.first : c \in {x \in ToSet(d.commands) : x.forms # {} /\ x.first[1] \notin CONTEXT_ONLY}} IN
  /\ ~d.opaque /\ line # <<>> /\ line[Len(line)].then # "&"
  /\ ~pl.unreadable /\ Len(pl.steps) = 1
  /\ step.pc.kind = "apply" /\ step.pc.tool \in {"kubectl", "helm"}
  /\ Len(changes) = 1 /\ ~SpawnsProgram(changes[1].first)
  /\ \A f \in running : ~LeavesGovernedKubeconfig(f, step.env)
  /\ \A f \in running : f = changes[1].first \/ KubeRead(f)

Changes(d) == SelectSeq(Runs(d), LAMBDA c : ClassifyPlanCommand(c.first).kind = "apply")

SoleKubeApply(line, cwd) ==
  SoleChange(line, DecomposeBash(line), PlanLine(line, cwd), Changes(DecomposeBash(line)))
=============================================================================
