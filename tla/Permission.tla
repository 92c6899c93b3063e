----------------------------- MODULE Permission -----------------------------
(***************************************************************************)
(* The permission decision (permission/engine.ts, safety.ts,               *)
(* containment.ts, safety-envelope.ts): hard denials, the deny rules, the  *)
(* safety envelope, the allow rules, the mode.                             *)
(*                                                                         *)
(* A request is [tool, line, path, readOnly, isEdit, isMemory]; line is    *)
(* <<>> unless the tool is Bash.  A rule is [tools, any, cmd, to]: the     *)
(* tools its name part matches, whether it has no pattern, and else the    *)
(* words the pattern begins with (a trailing `*`) and the redirection      *)
(* target it names ("" for none).                                          *)
(***************************************************************************)
EXTENDS PlanGate

----------------------------------------------------------------------------
\* Matching

GlobMatch(rule, form, targets) ==
  /\ IsPrefix(rule.cmd, form)
  /\ rule.to = "" \/ rule.to \in targets

RepresentativeArg(req) == <<req.path>>

\* A deny on Bash fires if any command the line runs matches, in any form, with or without
\* its redirections; on a line that cannot be decomposed every one fires.
LineMatch(rule, d) ==
  IF "Bash" \in rule.tools
  THEN \/ d.opaque \/ rule.any
       \/ \E i \in DOMAIN d.commands :
            \E f \in IF d.commands[i].forms = {} THEN {<<>>} ELSE d.commands[i].forms :
              GlobMatch(rule, f, d.commands[i].targets)
  ELSE /\ rule.tools \cap {"Write", "Edit"} # {}
       /\ ~d.opaque
       /\ \E w \in d.writes : rule.any \/ (w.literal /\ IsPrefix(rule.cmd, <<w.target>>))

RuleMatch(rule, req) ==
  IF req.tool = "Bash" THEN LineMatch(rule, DecomposeBash(req.line))
  ELSE req.tool \in rule.tools /\ (rule.any \/ GlobMatch(rule, RepresentativeArg(req), {}))

\* A Write or Edit rule the line's redirections cannot be checked against.
Unchecked(rule, d) ==
  /\ "Bash" \notin rule.tools /\ rule.tools \cap {"Write", "Edit"} # {}
  /\ ~LineMatch(rule, d)
  /\ d.opaque \/ \E w \in d.writes : ~w.literal

UncheckedWriteRule(rule, req) == req.tool = "Bash" /\ Unchecked(rule, DecomposeBash(req.line))

\* An allow on Bash needs every command to match, and a line nothing on which is refused.
RuleMatches(rule, req) ==
  LET d == DecomposeBash(req.line)  run == Runs(d) IN
  /\ rule.tools = {req.tool}
  /\ \/ rule.any
     \/ req.tool # "Bash" /\ GlobMatch(rule, RepresentativeArg(req), {})
     \/ /\ req.tool = "Bash" /\ ~RefusesAutoApproval(d)
        /\ run # <<>>
        /\ \A i \in DOMAIN run :
             ~run[i].argsUnknown /\ \E f \in run[i].forms : GlobMatch(rule, f, {})

----------------------------------------------------------------------------
\* Denials no mode and no rule overrides

CATASTROPHIC == {<<"mkfs">>, <<"rm", "-rf", "/">>}
PROTECTED_WRITE == {".git/config"}

CatastrophicDeny(line) == \E i \in DOMAIN line : \E c \in CATASTROPHIC : IsPrefix(c, line[i].cmd)

ContentSafetyDeny(path) == path \in PROTECTED_WRITE

RedirectTargets(line) ==
  {r.target : r \in {x \in UNION {ToSet(Redirections(line[i])) : i \in DOMAIN line} : x.writes}}

HardDeny(req) ==
  \/ /\ req.tool = "Bash"
     /\ \/ CatastrophicDeny(req.line)
        \/ \E t \in RedirectTargets(req.line) : ContentSafetyDeny(t)
  \/ req.tool \in {"Write", "Edit"} /\ ContentSafetyDeny(req.path)

\* Autopilot asks nobody: the routes out of its containment are refused.
ESCAPES == {"sudo", "crontab"}
PROFILES == {".bashrc"}

ContainmentDeny(line) ==
  \/ \E i \in DOMAIN line : line[i].cmd # <<>> /\ line[i].cmd[1] \in ESCAPES
  \/ \E i \in 1..(Len(line) - 1) :
       /\ line[i].cmd # <<>> /\ line[i].cmd[1] = "curl" /\ line[i].then = "|"
       /\ line[i + 1].cmd # <<>> /\ line[i + 1].cmd[1] \in SHELLS
  \/ RedirectTargets(line) \cap PROFILES # {}

----------------------------------------------------------------------------
\* The safety envelope.  A policy is [destructive, mutative, readOnly: sets of patterns;
\* destructiveAsks, planNeeded, scopeAsks]; the action's signals are [inScope, over].

Rank == [memory |-> 0, readOnly |-> 1, unknown |-> 2, mutative |-> 3, destructive |-> 4]

Hit(patterns, forms) == \E p \in patterns, f \in forms : IsPrefix(p, f)

DefaultClass(req) ==
  IF req.isMemory THEN "memory" ELSE IF req.readOnly THEN "readOnly" ELSE "unknown"

ClassifyForms(safety, req, forms) ==
  IF Hit(safety.destructive, forms) THEN "destructive"
  ELSE IF Hit(safety.mutative, forms) THEN "mutative"
  ELSE IF Hit(safety.readOnly, forms) THEN "readOnly"
  ELSE DefaultClass(req)

\* One command's class: also in its verb-led form; unreadable is destructive.
ClassOf(safety, req, c) ==
  LET tool == c.first[1] IN
  IF tool \in BARE_ONLY
  THEN LET args == Tail(c.first) IN
       IF \/ \E f \in c.forms : f[1] \in {"path", "relative"}
          \/ NamesKuberc(tool, args) \/ SplitGlobals(tool, args).unknown
       THEN "destructive"
       ELSE ClassifyForms(safety, req, c.forms \cup {<<tool>> \o VerbLed(tool, args)})
  ELSE ClassifyForms(safety, req, c.forms)

\* The older split's reading of the line, as written.
AnyMatch(patterns, req) ==
  \/ <<req.tool>> \in patterns
  \/ req.tool = "Bash" /\ \E i \in DOMAIN SplitShellCommands(req.line) :
       LET p == SplitShellCommands(req.line)[i] IN
       p.pre = <<>> /\ "subshell" \notin Around(p) /\ Hit(patterns, {Written(p)})

\* A line is as dangerous as its most dangerous command; one that only sets the context
\* adds nothing; one that cannot be decomposed is destructive.
ClassifyAction(safety, req) ==
  LET d == DecomposeBash(req.line)
      classes == {ClassOf(safety, req, c) :
                    c \in {x \in ToSet(d.commands) : x.forms # {} /\ x.first[1] \notin CONTEXT_ONLY}} IN
  IF AnyMatch(safety.destructive, req) THEN "destructive"
  ELSE IF req.tool = "Bash" /\ d.opaque THEN "destructive"
  ELSE IF req.tool = "Bash" /\ classes # {} THEN CHOOSE c \in classes : \A x \in classes : Rank[x] <= Rank[c]
  ELSE IF AnyMatch(safety.mutative, req) THEN "mutative"
  ELSE IF AnyMatch(safety.readOnly, req) THEN "readOnly"
  ELSE DefaultClass(req)

\* planApproved: a recorded plan matches; signals: what the dry run said of the change.
Disposed(safety, class, signals, planApproved) ==
  CASE class \in {"readOnly", "memory", "unknown"} -> "allow"
    [] class \in {"mutative", "destructive"} /\ safety.scopeAsks /\ ~signals.inScope -> "park"
    [] class \in {"mutative", "destructive"} /\ ~(safety.scopeAsks /\ ~signals.inScope) ->
         IF signals.over THEN "park"
         ELSE IF safety.planNeeded /\ ~planApproved THEN "deny"
         ELSE IF class = "destructive" /\ safety.destructiveAsks THEN "park"
         ELSE "allow"

EvaluateSafety(safety, req, signals, planApproved) ==
  Disposed(safety, ClassifyAction(safety, req), signals, planApproved)

----------------------------------------------------------------------------
\* The cascade

DefaultForMode(mode, req) ==
  LET ungated == req.readOnly \/ req.isMemory IN
  CASE mode = "autopilot" -> "allow"
    [] mode = "cruise" -> IF \/ ungated \/ req.isEdit
                             \/ req.tool = "Bash" /\ IsReadOnlyShell(req.line)
                          THEN "allow" ELSE "ask"
    [] mode = "recon" -> IF ungated THEN "allow" ELSE "deny"
    [] mode = "manual" -> IF ungated THEN "allow" ELSE "ask"

\* A rule the redirections could not be checked against turns an allow into a question.
Unless(c, req, b) ==
  IF b = "allow" /\ \E r \in c.deny : UncheckedWriteRule(r, req) THEN "ask" ELSE b

\* safety is the envelope's disposition, "none" when it does not apply.  In recon an
\* envelope's allow decides nothing.
CreatePolicy(c, req, safety) ==
  IF \/ HardDeny(req)
     \/ c.mode = "autopilot" /\ req.tool = "Bash" /\ ContainmentDeny(req.line)
     \/ \E r \in c.deny : RuleMatch(r, req)
     \/ safety = "deny"
  THEN "deny"
  ELSE IF safety = "park" THEN "ask"
  ELSE Unless(c, req,
         IF \/ safety = "allow" /\ c.mode # "recon"
            \/ \E r \in c.allow : RuleMatches(r, req)
         THEN "allow" ELSE DefaultForMode(c.mode, req))
=============================================================================
