----------------------------- MODULE ShellLine -----------------------------
(***************************************************************************)
(* A Bash line as the permission layer reads it (permission/               *)
(* shell-decompose.ts, readonly-shell.ts, safety.ts).  Text is abstracted: *)
(* a line is the sequence of its simple commands in the order the          *)
(* decomposer meets them (a substitution's before the command it is in),   *)
(* each a record of                                                        *)
(*   in    the constructs around it, outermost first: [kind, id, to], to   *)
(*         being the redirections written after a group, subshell or       *)
(*         `sh -c`                                                         *)
(*   pre   the words before the command: assignments, prefixes, compound   *)
(*         words                                                           *)
(*   cmd   the command's name and its arguments, <<>> when there is none   *)
(*   by    "name"; "path" or "relative"; or a form the decomposer does     *)
(*         not read: "expansion", "glob", "function", "broken" (quotes or  *)
(*         parentheses that do not close)                                  *)
(*   git   TRUE when git's global options precede its subcommand           *)
(*   to    its redirections: [writes, literal, target]                     *)
(*   then  the operator after it: ";", "&&", "|" or "&"                    *)
(***************************************************************************)
EXTENDS Integers, FiniteSets, SequencesExt

CONSTANT Assign    \* the NAME=value words: word -> [name, value, literal]

----------------------------------------------------------------------------
\* What is around a command

\* What the decomposer cuts a line into.
IsPart(p) ==
  /\ DOMAIN p = {"in", "pre", "cmd", "by", "git", "to", "then"}
  /\ p.by \in {"name", "path", "relative", "expansion", "glob", "function", "broken"}
  /\ p.then \in {";", "&&", "|", "&"}
  /\ \A i \in DOMAIN p.in : p.in[i].kind \in {"group", "substitution", "subshell", "sh -c", "sh -lc"}

\* Quotes, braces or parentheses that do not close.
Broken(p) == p.by = "broken"

MAX_DEPTH == 3

\* The constructs the decomposer recurses into; a login or interactive shell, and zsh
\* without -f, read an rc file first.
Nesting == {"substitution", "subshell", "sh -c", "sh -lc"}

Around(p) == {p.in[i].kind : i \in DOMAIN p.in}

Depth(p) == Cardinality({i \in DOMAIN p.in : p.in[i].kind \in Nesting})

\* A group's redirections are each inner command's, as are a subshell's and a shell's.
Redirections(p) == p.to \o FlattenSeq([i \in DOMAIN p.in |-> p.in[i].to])

HARMLESS == "/dev/null"

WritesFile(r) == r.writes /\ ~(r.literal /\ r.target = HARMLESS)

----------------------------------------------------------------------------
\* The words before a command

PlainPrefix == {"timeout", "nohup", "command", "env", "{", "if", "!"}
Opaque == {"env -S", "unknown option"}
ChangesEnv == DOMAIN Assign \cup {"env -i", "assigning expansion"}

ReadPrefix(s, w) ==
  CASE ~s.runs \/ s.opaque -> s
    [] w \in PlainPrefix -> s
    [] w \in ChangesEnv -> [s EXCEPT !.env = TRUE]
    [] w = "for" -> [s EXCEPT !.env = TRUE, !.runs = FALSE]
    [] w = "command -v" -> [s EXCEPT !.runs = FALSE]
    [] w = "xargs" -> [s EXCEPT !.args = TRUE]
    [] w \in Opaque -> [s EXCEPT !.opaque = TRUE]

AfterPrefix(p) ==
  FoldLeft(ReadPrefix, [runs |-> TRUE, env |-> FALSE, args |-> FALSE, opaque |-> FALSE], p.pre)

----------------------------------------------------------------------------
\* One simple command

OPAQUE_HEAD == {"eval", "source", "exec", "sudo", "trap"}
SHELLS == {"bash", "zsh"}
ASSIGNING_BUILTINS == {"export", "unset", "read", "alias"}

\* A shell runs a script file (best effort), or a script that is not literal, its
\* standard input or a here-doc; one with a literal script is the "sh -c" around others.
ShellRunsFile(cmd) == Len(cmd) > 1 /\ cmd[2] = "file"

Name(p) == IF p.cmd # <<>> THEN p.cmd[1] ELSE "echo"       \* xargs's own default

Names(p) == p.cmd # <<>> \/ AfterPrefix(p).args

OpaqueForm(p) ==
  \/ Depth(p) > MAX_DEPTH
  \/ AfterPrefix(p).opaque
  \/ Broken(p)
  \/ /\ AfterPrefix(p).runs /\ Names(p)
     /\ \/ p.by \in {"expansion", "glob", "function"}
        \/ Name(p) \in OPAQUE_HEAD
        \/ Name(p) \in SHELLS /\ ~ShellRunsFile(p.cmd)

EnvChanged(p) ==
  \/ AfterPrefix(p).env
  \/ AfterPrefix(p).runs /\ Name(p) \in ASSIGNING_BUILTINS
  \/ "sh -lc" \in Around(p)

\* By a path both the basename's form and the form as written are tried.
Forms(p) ==
  LET form == IF p.cmd = <<>> THEN <<Name(p)>> ELSE p.cmd IN
  IF p.by = "name" THEN {form} ELSE {form, <<p.by>> \o form}

Entry(p) ==
  [forms |-> IF AfterPrefix(p).runs /\ Names(p) THEN Forms(p) ELSE {},
   first |-> IF p.cmd = <<>> THEN <<Name(p)>> ELSE p.cmd,
   targets |-> {r.target : r \in ToSet(Redirections(p))},
   argsUnknown |-> AfterPrefix(p).args,
   envInjected |-> p.git,
   bestEffort |-> p.by = "relative" \/ Name(p) \in SHELLS]

\* A redirection with no command is recorded too.
Recorded(p) == Entry(p).forms # {} \/ p.to # <<>>

DecomposeBash(line) ==
  IF \E i \in DOMAIN line : OpaqueForm(line[i])
  THEN [commands |-> <<>>, opaque |-> TRUE, writes |-> {}]
  ELSE LET env == \E i \in DOMAIN line : EnvChanged(line[i])
           entries == SelectSeq(line, Recorded) IN
       [commands |-> [i \in DOMAIN entries |->
                        [Entry(entries[i]) EXCEPT !.envInjected = @ \/ env]],
        opaque |-> FALSE,
        writes |-> {r \in UNION {ToSet(Redirections(line[i])) : i \in DOMAIN line} :
                      WritesFile(r)}]

RefusesUnread(d) == d.opaque \/ d.writes # {}     \* mutant: the environment is no matter

RefusesAutoApproval(d) ==
  \/ d.opaque
  \/ d.writes # {}
  \/ \E i \in DOMAIN d.commands : d.commands[i].envInjected

Runs(d) == SelectSeq(d.commands, LAMBDA c : c.forms # {})

----------------------------------------------------------------------------
\* The older reader (safety.ts): it splits at operators and into substitutions, keeps
\* prefixes, and does not look into a shell's script.

SplitShellCommands(line) ==
  SelectSeq(line, LAMBDA p : ~ \E i \in DOMAIN p.in : p.in[i].kind \in {"sh -c", "sh -lc"})

----------------------------------------------------------------------------
\* Read-only programs (readonly-shell.ts)

READ_ONLY == {"ls", "cat", "echo", "true"}
ReadUnlessOption == {"find", "sed", "sort"}     \* read-only without their writing options
WritingOption == {"-delete", "-i", "-o", "--output"}
GIT_READ == {"status", "log", "diff"}

ArgvIsReadOnly(cmd) ==
  \/ cmd[1] \in READ_ONLY
  \/ cmd[1] \in ReadUnlessOption /\ ToSet(cmd) \cap WritingOption = {}
  \/ cmd[1] = "git" /\ Len(cmd) > 1 /\ cmd[2] \in GIT_READ /\ ToSet(cmd) \cap WritingOption = {}

\* A simple command by itself: `env` and `command` run the rest, which must be read-only
\* itself; any other prefix is a program outside the known set.
SimpleIsReadOnly(p) ==
  \/ p.pre = <<"command -v">>
  \/ /\ ToSet(p.pre) \subseteq {"env", "command"}
     /\ IF p.cmd = <<>> THEN p.pre # <<>> ELSE ArgvIsReadOnly(p.cmd)

IsReadOnlyShell(line) ==
  /\ line # <<>>
  /\ ~RefusesAutoApproval(DecomposeBash(line))
  /\ \A i \in DOMAIN line :
       /\ line[i].in = <<>>
       /\ line[i].then # "&"
       /\ \A r \in ToSet(line[i].to) : r.target = HARMLESS /\ r.writes
       /\ SimpleIsReadOnly(line[i])
=============================================================================
