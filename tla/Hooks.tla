------------------------------- MODULE Hooks -------------------------------
(***************************************************************************)
(* The lifecycle hooks of the agent (src/packages/harness/src/hooks): what *)
(* each kind of hook makes of the way its run ends, and what the loop      *)
(* reads from the results of a chain of them.                              *)
(*                                                                         *)
(* A hook is [kind, on, when, meets, says]: the events it is registered    *)
(* for, the tools its `when` admits, how its run ends and, where it        *)
(* answers, the result it gives.  A run ends when it                       *)
(*   "answers"  with a result in JSON;                                     *)
(*   "vetoes"   a command prints its result and exits with code 2;         *)
(*   "prose"    it answers something that is no JSON;                      *)
(*   "fails"    it throws, cannot be started, or is refused by its server; *)
(*   "hangs"    past its own time limit.                                   *)
(* A result says whether to block, which input to use instead (None: the   *)
(* input stands), whether a note goes to the model, and how to answer a    *)
(* permission request (None: it does not).                                 *)
(***************************************************************************)
EXTENDS Sequences, SequencesExt

CONSTANT None

Nothing == [block |-> FALSE, input |-> None, note |-> FALSE, decision |-> None]

Printed(hook) ==
  CASE hook.meets \in {"answers", "vetoes"} -> hook.says
    [] hook.meets = "prose" -> [Nothing EXCEPT !.note = TRUE]
    [] OTHER -> Nothing

\* A hook in this process: one that throws leaves no result at all.
FunctionResults(hook) == IF hook.meets = "fails" THEN <<>> ELSE <<hook.says>>

\* A shell command, here or through a runner: killed at its time limit, what it had printed is read.
CommandResult(hook) ==
  IF hook.meets = "vetoes" THEN [Printed(hook) EXCEPT !.block = TRUE] ELSE Printed(hook)

HttpResult(hook) == Printed(hook)

\* A rule judged by a model: a clear block, or nothing.
PromptResult(hook) ==
  [Nothing EXCEPT !.block = hook.meets = "answers" /\ hook.says.block]

Results(hook, tool) ==
  CASE tool \notin hook.when -> <<Nothing>>
    [] hook.kind = "function" -> FunctionResults(hook)
    [] hook.kind = "command" -> <<CommandResult(hook)>>
    [] hook.kind = "http" -> <<HttpResult(hook)>>
    [] hook.kind = "prompt" -> <<PromptResult(hook)>>

RunHooks(hooks, event, tool) ==
  FlattenSeq([i \in DOMAIN hooks |->
                IF event \in hooks[i].on THEN Results(hooks[i], tool) ELSE <<>>])

-----------------------------------------------------------------------------
(* What executeTool and resolve read from the results.                     *)

Blocks(results) == \E i \in DOMAIN results : results[i].block

Rewritten(results, input) ==
  FoldLeft(LAMBDA standing, r : IF r.input # None THEN r.input ELSE standing, input, results)

Annotates(results) == \E i \in DOMAIN results : results[i].note

Answers(results) == SelectSeq(results, LAMBDA r : r.decision # None)

Answer(results) == IF Answers(results) = <<>> THEN None ELSE Head(Answers(results)).decision
=============================================================================
