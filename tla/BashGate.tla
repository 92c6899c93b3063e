------------------------------ MODULE BashGate ------------------------------
(***************************************************************************)
(* A session's Bash calls through the permission decision and the plan     *)
(* gate.  The host around them (which computes the plan's fields, records  *)
(* a dry run after it, and asks the person) is not in this repository: it  *)
(* is modelled from plan-gate.ts's and safety-envelope.ts's account of it. *)
(*                                                                         *)
(* Against the code's reading of a line stands what bash does with it:     *)
(* Executed, MayRun and At are written from the shell's rules, not from    *)
(* the decomposer.                                                         *)
(***************************************************************************)
EXTENDS Permission

CONSTANTS Lines,        \* the lines the model may send: name -> line
          Configs,      \* the configurations by number: [mode, deny, allow, safety, planned: does an envelope apply?,
                        \*  tries: the lines of a session under it, edits: a bound, the
                        \*  edits of each directory]
          Dirs,         \* the directories: sequences of names under the session's
          MaxPlans      \* bound: dry runs recorded

ASSUME LinesAssumption == \A n \in DOMAIN Lines, i \in 1..4 : i \in DOMAIN Lines[n] => IsPart(Lines[n][i])

VARIABLES config,   \* the session's configuration, fixed at the start
          content,  \* version of the files of each directory
          saved,    \* the version a directory's saved plan was made from, or "none"
          plans,    \* the recorded artifacts, oldest first
          reviewed, \* history: the dry runs that bash did run, to their end
          last      \* the last call: [line, how], how it was let through or not

vars == <<config, content, saved, plans, reviewed, last>>

----------------------------------------------------------------------------
\* What bash does

Commands == {c \in UNION {{Lines[n][i].cmd : i \in DOMAIN Lines[n]} : n \in DOMAIN Lines} : c # <<>>}

\* After `command -v` and `for` no command runs; a shell with a script given as its
\* argument is the script's commands; xargs alone runs echo.
Executed(p) ==
  /\ ToSet(p.pre) \cap {"command -v", "for"} = {}
  /\ p.cmd # <<>> \/ "xargs" \in ToSet(p.pre)

\* Unknown to a reader of the line: it may be any command.
Dark(p) ==
  \/ p.by \in {"expansion", "glob", "function", "broken"}
  \/ ToSet(p.pre) \cap {"env -S", "unknown option"} # {}
  \/ p.cmd # <<>> /\ (p.cmd[1] \in OPAQUE_HEAD \/ (p.cmd[1] \in SHELLS /\ p.cmd[2] # "file"))

MayRun(line) ==
  IF \E i \in DOMAIN line : Executed(line[i]) /\ Dark(line[i]) THEN Commands
  ELSE {IF line[i].cmd = <<>> THEN <<"echo">> ELSE line[i].cmd :
          i \in {j \in DOMAIN line : Executed(line[j])}}

\* A redirection after a group is its commands' as well.
FilesWritten(line) ==
  {r \in UNION {ToSet(line[i].to) \cup UNION {ToSet(line[i].in[k].to) : k \in DOMAIN line[i].in} : i \in DOMAIN line} :
     r.writes /\ (r.target # "/dev/null" \/ ~r.literal)}

\* The subshells a command is in: constructs and pipelines.
Shells(line, i) ==
  [k \in {j \in DOMAIN line[i].in : line[i].in[j].kind \in Nesting} |-> line[i].in[k].id]

Piped(line, i) == line[i].then \in {"|", "&"} \/ (i > 1 /\ line[i - 1].then = "|")

\* Does what command j sets hold at command i?
Holds(line, j, i) ==
  /\ j < i /\ ~Piped(line, j)
  /\ \A k \in DOMAIN Shells(line, j) : k \in DOMAIN Shells(line, i) /\ Shells(line, i)[k] = Shells(line, j)[k]

Dir(line, i) ==
  FoldLeft(LAMBDA d, j : IF line[j].cmd # <<>> /\ line[j].cmd[1] = "cd" /\ Holds(line, j, i)
                         THEN IF line[j].cmd[2] \in Absolute THEN <<line[j].cmd[2]>> ELSE Append(d, line[j].cmd[2])
                         ELSE d,
           <<>>, [k \in DOMAIN line |-> k])

Env(line, i) ==
  {<<Assign[w].name, Assign[w].value>> : w \in
     {x \in DOMAIN Assign :
        \/ x \in ToSet(line[i].pre)
        \/ \E j \in DOMAIN line : line[j].cmd = <<"export", x>> /\ Holds(line, j, i)}}

\* The plans and applies a line runs, each where it runs.
At(line, i) ==
  [pc |-> ClassifyPlanCommand(Written(line[i])), dir |-> Dir(line, i), env |-> Env(line, i)]

Really(line, kind) ==
  {At(line, i) : i \in {j \in DOMAIN line :
     /\ Executed(line[j]) /\ line[j].cmd # <<>> /\ line[j].cmd[1] \in GATED_TOOLS
     /\ ClassifyPlanCommand(Written(line[j])).kind = kind}}

----------------------------------------------------------------------------
\* What the code makes of each line, and decides under each configuration

Request(line) ==
  [tool |-> "Bash", line |-> line, path |-> "", readOnly |-> FALSE, isEdit |-> FALSE, isMemory |-> FALSE]

\* Tables by line; `@@` has TLC evaluate each of them once.
Read == <<>> @@ [n \in DOMAIN Lines |-> PlanLine(Lines[n], <<>>)]
Plans == <<>> @@ [n \in DOMAIN Lines |-> Really(Lines[n], "plan")]
Applies == <<>> @@ [n \in DOMAIN Lines |-> Really(Lines[n], "apply")]

Granted == {n \in DOMAIN Lines : SoleKubeApply(Lines[n], <<>>)}

Signals == {[inScope |-> TRUE, over |-> FALSE], [inScope |-> FALSE, over |-> FALSE]}

Disposition(c, line, signals, approved) ==
  IF c.planned THEN EvaluateSafety(c.safety, Request(line), signals, approved) ELSE "none"

\* The decision on each call; the plans and the signals matter only under an envelope.
Calls ==
  UNION {{[config |-> c, line |-> n, approved |-> approved, signals |-> signals] :
            n \in Configs[c].tries,
            approved \in IF Configs[c].planned THEN BOOLEAN ELSE {FALSE},
            signals \in IF Configs[c].planned THEN Signals ELSE {CHOOSE s \in Signals : s.inScope}} :
         c \in DOMAIN Configs}

Decision(c, q) ==
  CreatePolicy(c, Request(Lines[q.line]), Disposition(c, Lines[q.line], q.signals, q.approved))

Decisions == {[call |-> q, is |-> Decision(Configs[q.config], q)] : q \in Calls}

----------------------------------------------------------------------------
\* The host

\* What a step is bound by: a saved plan's bytes, or the files of its directory.
SavesPlan(pc) == pc.inputs = {"p"}

Bytes(pc, dir) == IF dir \notin Dirs THEN Unknown ELSE IF SavesPlan(pc) THEN saved[dir] ELSE content[dir]

Key(step) ==
  [tool |-> step.pc.tool, target |-> <<step.pc.target, step.env>>, cwd |-> step.cwd,
   fields |-> [plan |-> Bytes(step.pc, step.cwd)]]

PlanApproved(read) ==
  /\ ~read.unreadable
  /\ \A step \in ToSet(read.steps) : step.pc.kind = "apply" => MatchPlan(plans, Key(step), {"plan"})

\* Terraform saves the plan it was asked to; the host records the dry run after it, by the
\* bytes it finds then.
Save(name) ==
  saved' = [d \in Dirs |->
    IF \E s \in Plans[name] : s.dir = d /\ SavesPlan(s.pc) THEN content[d] ELSE saved[d]]

Record(name, rec, code) ==
  IF Configs[config].planned /\ rec # <<>> /\ PlanExitOk(rec[1].pc, Last(Lines[name]).cmd, code)
  THEN plans' = Append(plans, [Key(rec[1]) EXCEPT !.fields.plan =
                                 IF @ # Unknown /\ SavesPlan(rec[1].pc) THEN content[rec[1].cwd] ELSE @])
  ELSE UNCHANGED plans

\* History: the dry run bash ran to its end as the line's last command.
EndsWith(line) ==
  {at \in {At(line, n) : n \in {i \in {Len(line)} :
              line[i].cmd # <<>> /\ line[i].then # "&" /\ "!" \notin ToSet(line[i].pre) /\ Executed(line[i])}} :
     at.pc.kind = "plan" /\ at.dir \in Dirs}

Ends == <<>> @@ [n \in DOMAIN Lines |-> EndsWith(Lines[n])]

RanToEnd(name, code) ==
  IF Configs[config].planned /\ \A at \in Ends[name] : PlanExitOk(at.pc, Last(Lines[name]).cmd, code)
  THEN reviewed' = reviewed \cup {[at |-> at, of |-> content[at.dir]] : at \in Ends[name]}
  ELSE UNCHANGED reviewed

----------------------------------------------------------------------------

Idle == [line |-> "none", how |-> "none", granted |-> FALSE]

Init ==
  /\ config \in DOMAIN Configs
  /\ content = [d \in Dirs |-> 0]
  /\ saved = [d \in Dirs |-> Unknown]
  /\ plans = <<>> /\ reviewed = {}
  /\ last = Idle

Decided(name, signals, approved, how) ==
  [call |-> [config |-> config, line |-> name, approved |-> approved, signals |-> signals], is |-> how]
    \in Decisions

\* A call that is let through, at once or by the person; code is its exit status, which
\* matters after a dry run.
Run(name, signals, code) ==
  /\ Plans[name] = {} => code = 0
  /\ Len(plans) < MaxPlans \/ Read[name].recordable = <<>>
  /\ \E how \in {"allow", "ask"} :
       /\ Decided(name, signals, Configs[config].planned /\ PlanApproved(Read[name]), how)
       /\ last' = [line |-> name, how |-> how, granted |-> name \in Granted]
  /\ Save(name) /\ Record(name, Read[name].recordable, code) /\ RanToEnd(name, code)
  /\ UNCHANGED <<config, content>>

\* The agent or the person edits files.
Edit(d) ==
  /\ content[d] < Configs[config].edits
  /\ content' = [content EXCEPT ![d] = @ + 1]
  /\ last' = Idle
  /\ UNCHANGED <<config, saved, plans, reviewed>>

Next ==
  \/ \E n \in Configs[config].tries, s \in Signals, c \in {0, 1, 2} : Run(n, s, c)
  \/ \E d \in Dirs : Edit(d)

Spec == Init /\ [][Next]_vars

----------------------------------------------------------------------------
\* Properties

\* A command that a deny rule names is never run, wherever on the line the shell would
\* run it and however the line was let through (engine.ts:109, shell-decompose.ts).
DeniedNeverRuns ==
  last.how # "none" =>
    \A r \in Configs[config].deny, c \in MayRun(Lines[last.line]) :
      ~("Bash" \in r.tools /\ r.to = "" /\ IsPrefix(r.cmd, c))

\* Nor is a file written that a deny rule on Write names, unless the person was asked
\* (engine.ts:224).
DeniedNeverWritten ==
  last.how # "none" =>
    \A r \in Configs[config].deny, w \in FilesWritten(Lines[last.line]) :
      "Write" \in r.tools =>
        IF w.literal THEN ~IsPrefix(r.cmd, <<w.target>>) ELSE last.how = "ask"

\* A deny rule holds against every way the shell has to run the command or write the file.
DenyHolds == DeniedNeverRuns /\ DeniedNeverWritten

\* What ran with nobody asked, outside autopilot and the envelope, is named by an allow
\* rule or only reads, writes no file and changes no environment (engine.ts:175,
\* readonly-shell.ts:235).
UnaskedIsNamed ==
  LET line == Lines[last.line] IN
  /\ last.how = "allow" /\ Configs[config].mode # "autopilot" /\ ~Configs[config].planned
  /\ ~ \E r \in Configs[config].allow : r.any
  => /\ \/ \E r \in Configs[config].allow : \A c \in MayRun(line) : IsPrefix(r.cmd, c)
        \/ Configs[config].mode = "cruise" /\ \A c \in MayRun(line) : ArgvIsReadOnly(c)
     /\ FilesWritten(line) = {}
     /\ \A i \in DOMAIN line : Env(line, i) = {}

\* No line does what nobody allowed: by a rule's denial, or for want of a rule or an answer.
NothingUnallowed == DenyHolds /\ UnaskedIsNamed

\* With a plan demanded, an apply that ran without a question was dry-run before, to its
\* end, in the directory and environment it runs in, on the files as they are now
\* (plan-gate.ts:622, safety-envelope.ts:176).
AppliesWereReviewed ==
  last.how = "allow" /\ Configs[config].planned =>
    \A a \in Applies[last.line] :
      \E r \in reviewed :
        /\ r.at.pc.tool = a.pc.tool /\ r.at.pc.target = a.pc.target
        /\ r.at.dir = a.dir /\ r.at.env = a.env
        /\ r.of = IF SavesPlan(a.pc) THEN saved[a.dir] ELSE content[a.dir]

\* A line that is handed the capability to change a cluster runs one change, reaches the
\* governed cluster with it, and runs nothing else but reads of that cluster
\* (plan-gate.ts:872).
GrantIsSole ==
  LET line == Lines[last.line]  changes == {i \in DOMAIN line :
                                     line[i].cmd # <<>> /\ Executed(line[i]) /\ At(line, i).pc.kind = "apply"} IN
  last.granted =>
    /\ Cardinality(changes) = 1
    /\ \A i \in DOMAIN line : ~ \E e \in Env(line, i) : e[1] = "KUBECONFIG"
    /\ \A c \in MayRun(line) : c[1] \in CONTEXT_ONLY \/ KubeRead(c) \/ ClassifyPlanCommand(c).kind = "apply"

\* What a plan lets through is what was planned, alone.
PlanHolds == AppliesWereReviewed /\ GrantIsSole

\* In recon only reads run (what engine.ts:19 says of the mode).
ReconReads ==
  last.how # "none" /\ Configs[config].mode = "recon" =>
    \A c \in MayRun(Lines[last.line]) : ArgvIsReadOnly(c)
=============================================================================
