------------------------------ MODULE ToolGate ------------------------------
(***************************************************************************)
(* One tool call after another, as executeTool of loop/agent.ts makes it:  *)
(* the PreToolUse hooks, the lookup of the tool, the decision (the policy, *)
(* a judge, hooks and a person asked in its place, a park), the tool's     *)
(* run in a shell process of the engine's, in a sandbox or on an MCP       *)
(* server, and what the model is told of it.  The session's agent Root and *)
(* a sub-agent Sub call at the same time, while connections come and go,   *)
(* the person interrupts, and hooks and rules change under them.           *)
(*                                                                         *)
(* A call is [tool, input]; an input is [shown, rest, parses]: what a park *)
(* shows of it, what it does not show, and whether the tool's schema       *)
(* accepts it.  at[a] is where the call of agent a is:                     *)
(*   "idle", "resolving" (a tool that may still register), "deciding",     *)
(*   "judging", "asking", "parked", "starting", "re_resolving",            *)
(*   "launching", "running".                                               *)
(* jobs[c] is the shell process of call c, rpc[c] its request elsewhere.   *)
(***************************************************************************)
EXTENDS McpManager

CONSTANT Worlds

VARIABLES
  at, nth,      \* where each agent's call is, and which of its calls that is
  input,        \* of the call, as the hooks left it
  tool,         \* what the name resolved to: Builtin, an attempt whose client serves it, or None
  promise,      \* the promise a lookup waits for; 0 if the server has none
  approved,     \* the person's answer to the park of this call, [shown, decision], or None
  hooks,        \* which of the world's chains of hooks is configured
  tightened,    \* the rules now deny the inputs of world.denies
  aborted,      \* the run's signal
  jobs, rpc,
  results,      \* what was answered to the model for each call
  \* History.
  agreed,       \* <<call, input>> that a hook, the judge or a person allowed
  allowed       \* per call, what the gate let through: [input, on, put, denied, ran], or None

gateVars == <<world, at, nth, input, tool, promise, approved, hooks, tightened, aborted,
              jobs, rpc, results, agreed, allowed>>
vars == <<gateVars, mcpVars>>

Builtin == 0

Agents == DOMAIN world.calls
Calls == UNION {{<<a, i>> : i \in DOMAIN world.calls[a]} : a \in Agents}
Now(a) == <<a, nth[a]>>
Call(c) == world.calls[c[1]][c[2]]

NoJob == [child |-> "none", held |-> FALSE, listens |-> FALSE, given |-> 0,
          task |-> FALSE, told |-> FALSE, lease |-> FALSE]
NoRequest == [step |-> "none", tries |-> 0, effects |-> 0]

Init ==
  /\ world \in Worlds
  /\ McpInit
  /\ at = [a \in Agents |-> "idle"] /\ nth = [a \in Agents |-> 1]
  /\ input = [a \in Agents |-> None] /\ tool = [a \in Agents |-> None]
  /\ promise = [a \in Agents |-> 0] /\ approved = [a \in Agents |-> None]
  /\ hooks = 1 /\ tightened = FALSE /\ aborted = FALSE
  /\ jobs = [c \in Calls |-> NoJob] /\ rpc = [c \in Calls |-> NoRequest]
  /\ results = [c \in Calls |-> None]
  /\ agreed = {} /\ allowed = [c \in Calls |-> None]

-----------------------------------------------------------------------------
(* What the model is told.                                                 *)

Conclude(a, result) ==
  /\ results' = [results EXCEPT ![Now(a)] = result]
  /\ at' = [at EXCEPT ![a] = "idle"]
  /\ nth' = [nth EXCEPT ![a] = @ + 1]
  /\ approved' = [approved EXCEPT ![a] = None]

\* The result of a call that was denied or ran, after its PostToolUse hooks.
Observed(c, how) ==
  [how |-> how, noted |-> Annotates(RunHooks(world.hooks[hooks], "PostToolUse", Call(c).tool))]

Block(a) == Conclude(a, [how |-> "blocked", noted |-> FALSE])

Refuse(a) == Conclude(a, Observed(Now(a), "denied"))

\* The end of a tool's run; one that lost the race against the signal reaches nobody.
Deliver(c, how) ==
  IF at[c[1]] = "running" /\ Now(c[1]) = c
  THEN Conclude(c[1], Observed(c, how))
  ELSE UNCHANGED <<results, at, nth, approved>>

Goto(a, step) == at' = [at EXCEPT ![a] = step] /\ UNCHANGED <<results, nth, approved>>

-----------------------------------------------------------------------------
(* Looking a tool up, once to decide and once to run it.                   *)

Missing(a) == Call(Now(a)).tool = "Mcp" /\ registry[a] = None

Waits == [deciding |-> "resolving", launching |-> "re_resolving"]

Resolve(a, next) ==
  /\ tool' = [tool EXCEPT ![a] = IF Call(Now(a)).tool = "Mcp" THEN registry[a] ELSE Builtin]
  /\ promise' = [promise EXCEPT ![a] = Len(settled)]
  /\ at' = [at EXCEPT ![a] = IF Missing(a) THEN Waits[next] ELSE next]

Resolved(a, next) ==
  /\ at[a] = Waits[next]
  /\ promise[a] # 0 => settled[promise[a]]
  /\ registry' = LateResolved(a)
  /\ tool' = [tool EXCEPT ![a] = Lookup(a)]
  /\ Goto(a, next)
  /\ UNCHANGED <<world, input, promise, hooks, tightened, aborted, jobs, rpc, agreed, allowed,
                 attempts, client, listed, status, settled, deferred, loaded, leaving, spent>>

-----------------------------------------------------------------------------
(* Deciding.                                                               *)

\* Mutant: an answer stands whatever the hooks have made of the call.
HeldAnyway(held, rewritten) == held # None

StillHeld(held, rewritten) == held # None /\ held.shown = rewritten.shown

PreToolUse(a, held) ==
  LET heard     == RunHooks(world.hooks[hooks], "PreToolUse", Call(Now(a)).tool)
      rewritten == Rewritten(heard, Call(Now(a)).input)
  IN /\ IF Blocks(heard)
        THEN Block(a) /\ UNCHANGED <<input, tool, promise>>
        ELSE /\ input' = [input EXCEPT ![a] = rewritten]
             /\ approved' = [approved EXCEPT ![a] = IF StillHeld(held, rewritten) THEN held ELSE None]
             /\ Resolve(a, "deciding")
             /\ UNCHANGED <<results, nth>>
     /\ UNCHANGED <<world, hooks, tightened, aborted, jobs, rpc, allowed, mcpVars>>

TakeCall(a) ==
  /\ at[a] = "idle" /\ a \in DOMAIN registry /\ ~aborted
  /\ nth[a] \in DOMAIN world.calls[a]
  /\ PreToolUse(a, None)
  /\ UNCHANGED agreed

\* canUseTool, of the call as it is now and of what was found of its tool.
Policy(a) ==
  CASE tightened /\ input[a] \in world.denies -> "deny"
    [] tool[a] = Builtin /\ Call(Now(a)).tool = "Search" -> "allow"
    [] tool[a] \in Attempts /\ attempts[tool[a]].hint -> "allow"
    [] OTHER -> world.policy[input[a]]

Asks(a) == Policy(a) \in {"ask", "edge"}

Allow(a) ==
  /\ allowed' = [allowed EXCEPT ![Now(a)] =
                   [input |-> input[a], on |-> tool[a], put |-> Policy(a) # "allow",
                    denied |-> at[a] = "deciding" /\ Policy(a) = "deny", ran |-> None]]
  /\ Goto(a, "starting")

Agree(a) == agreed' = agreed \cup {<<Now(a), input[a]>>}

NoneAsked == UNCHANGED <<world, input, tool, promise, hooks, tightened, aborted, jobs, rpc, mcpVars>>

Headless(a) ==
  /\ IF world.parks = "every_ask" \/ (world.parks = "edges" /\ Policy(a) = "edge")
     THEN Goto(a, "parked") ELSE Refuse(a)
  /\ UNCHANGED <<agreed, allowed>>

AskHooks(a) == Answer(RunHooks(world.hooks[hooks], "PermissionRequest", Call(Now(a)).tool))

Ask(a) ==
  CASE AskHooks(a) = "allow" -> Allow(a) /\ Agree(a)
    [] AskHooks(a) = "deny" -> Refuse(a) /\ UNCHANGED <<agreed, allowed>>
    [] OTHER -> IF world.person THEN Goto(a, "asking") /\ UNCHANGED <<agreed, allowed>>
                ELSE Headless(a)

\* A call the person has answered: a denial of the policy still wins.
Decided(a, behavior) ==
  /\ IF behavior = "deny" \/ approved[a].decision = "deny"
     THEN Refuse(a) /\ UNCHANGED allowed ELSE Allow(a)
  /\ UNCHANGED agreed

Decide(a) ==
  /\ at[a] = "deciding"
  /\ CASE Asks(a) /\ world.judge -> Goto(a, "judging") /\ UNCHANGED <<agreed, allowed>>
       [] approved[a] # None /\ ~(Asks(a) /\ world.judge) -> Decided(a, Policy(a))
       [] OTHER ->
            \/ Asks(a) /\ Ask(a)
            \/ Policy(a) = "allow" /\ Allow(a) /\ UNCHANGED agreed
            \/ Policy(a) = "deny" /\ Refuse(a) /\ UNCHANGED <<agreed, allowed>>
  /\ NoneAsked

\* A reply that is no verdict, an error and a reply past the deadline leave the ask as it was.
Verdict(reply) == IF reply \in {"allow", "deny"} THEN reply ELSE "ask"

JudgeReplies(a) ==
  /\ at[a] = "judging"
  /\ \E reply \in {"allow", "deny", "unsure", "prose", "fails", "hangs"} :
       IF approved[a] # None THEN Decided(a, Verdict(reply))
       ELSE CASE Verdict(reply) = "allow" -> Allow(a) /\ Agree(a)
              [] Verdict(reply) = "deny" -> Refuse(a) /\ UNCHANGED <<agreed, allowed>>
              [] OTHER -> Ask(a)
  /\ NoneAsked

PersonAnswers(a) ==
  /\ at[a] = "asking"
  /\ \/ Allow(a) /\ Agree(a)
     \/ Refuse(a) /\ UNCHANGED <<agreed, allowed>>
     \/ Headless(a)
  /\ NoneAsked

\* The person answers a park: the call is made again from its start, with the answer.
Approve(a) ==
  /\ at[a] = "parked"
  /\ \E decision \in {"allow", "deny"} :
       /\ PreToolUse(a, [shown |-> input[a].shown, decision |-> decision])
       /\ IF decision = "allow" THEN Agree(a) ELSE UNCHANGED agreed

-----------------------------------------------------------------------------
(* Running: runTool, raced against the signal.                             *)

StartTool(a) ==
  /\ at[a] = "starting"
  /\ Resolve(a, "launching")
  /\ UNCHANGED <<world, nth, input, approved, hooks, tightened, aborted, jobs, rpc, results,
                 agreed, allowed, mcpVars>>

Runs(a) == tool[a] # None /\ (tool[a] = Builtin \/ Shown) /\ input[a].parses

\* The tool is called even when the race is already lost.
Launched(a) ==
  /\ allowed' = [allowed EXCEPT ![Now(a)].ran = tool[a]]
  /\ IF aborted THEN Conclude(a, Observed(Now(a), "interrupted")) ELSE Goto(a, "running")

AsItIs == UNCHANGED <<world, input, tool, promise, hooks, tightened, aborted, agreed>>

LaunchFails(a) ==
  /\ at[a] = "launching" /\ ~Runs(a)
  /\ Conclude(a, Observed(Now(a), IF aborted THEN "interrupted" ELSE "error"))
  /\ UNCHANGED <<jobs, rpc, allowed, mcpVars>> /\ AsItIs

\* ToolSearch loads the tool if it is deferred, and registered where the search looks.
Search(a) ==
  /\ at[a] = "launching" /\ Runs(a) /\ Call(Now(a)).tool = "Search"
  /\ allowed' = [allowed EXCEPT ![Now(a)].ran = tool[a]]
  /\ loaded' = (loaded \/ (deferred /\ registry[Root] # None))
  /\ Conclude(a, Observed(Now(a), IF aborted THEN "interrupted" ELSE "ok"))
  /\ UNCHANGED <<jobs, rpc, attempts, client, listed, status, settled, registry, deferred, leaving, spent>>
  /\ AsItIs

Spawn(a) ==
  /\ at[a] = "launching" /\ Runs(a) /\ Call(Now(a)).tool = "Bash" /\ world.shell = "local"
  /\ jobs' = [jobs EXCEPT ![Now(a)] = [@ EXCEPT !.child = "running", !.listens = ~aborted, !.lease = TRUE]]
  /\ Launched(a)
  /\ UNCHANGED <<rpc, mcpVars>> /\ AsItIs

\* The shell of a sandbox.
Remote(a) == Call(Now(a)).tool = "Bash" /\ world.shell = "routed"

Send(a) ==
  /\ at[a] = "launching" /\ Runs(a) /\ (Remote(a) \/ Call(Now(a)).tool = "Mcp")
  /\ rpc' = [rpc EXCEPT ![Now(a)] = [@ EXCEPT !.step = "sent", !.tries = 1]]
  /\ Launched(a)
  /\ UNCHANGED <<jobs, mcpVars>> /\ AsItIs

\* The signal: a tool that runs is answered for at once; a child that listens is killed.
Interrupt ==
  /\ world.interrupts /\ ~aborted
  /\ aborted' = TRUE
  /\ jobs' = [c \in Calls |-> IF jobs[c].listens /\ jobs[c].child = "running"
                              THEN [jobs[c] EXCEPT !.child = "dying"] ELSE jobs[c]]
  /\ LET running == {a \in Agents : at[a] = "running"}
     IN /\ results' = [c \in Calls |-> IF c[1] \in running /\ c = Now(c[1])
                                       THEN Observed(c, "interrupted") ELSE results[c]]
        /\ at' = [a \in Agents |-> IF a \in running THEN "idle" ELSE at[a]]
        /\ nth' = [a \in Agents |-> IF a \in running THEN nth[a] + 1 ELSE nth[a]]
        /\ approved' = [a \in Agents |-> IF a \in running THEN None ELSE approved[a]]
  /\ UNCHANGED <<world, input, tool, promise, hooks, tightened, rpc, agreed, allowed, mcpVars>>

-----------------------------------------------------------------------------
(* A shell process: "running", "dying" (killed), "exited" (a grandchild    *)
(* may still hold its pipes), "closed", or "failed" to start.              *)

Alive(c) == jobs[c].child \in {"running", "dying"}

JobStep == UNCHANGED <<rpc, allowed, mcpVars>> /\ AsItIs

Finalized(c, job) == [job EXCEPT !.given = IF jobs[c].task THEN @ ELSE 1, !.listens = FALSE]

Finalize(c, how) ==
  IF jobs[c].given = 0 THEN Deliver(c, how) ELSE UNCHANGED <<results, at, nth, approved>>

SpawnFails(c) ==
  /\ Alive(c) /\ ~jobs[c].task
  /\ jobs' = [jobs EXCEPT ![c] = Finalized(c, [@ EXCEPT !.child = "failed", !.lease = FALSE])]
  /\ Finalize(c, "error")
  /\ JobStep

ChildExits(c) ==
  /\ Alive(c)
  /\ \E held \in world.leaves :
       jobs' = [jobs EXCEPT ![c] = [@ EXCEPT !.child = "exited", !.held = held, !.lease = FALSE]]
  /\ UNCHANGED <<results, at, nth, approved>> /\ JobStep

\* Mutant: the end of an adopted child goes unseen.
PipesCloseUnseen(c) ==
  /\ jobs[c].child = "exited"
  /\ jobs' = [jobs EXCEPT ![c] = Finalized(c, [@ EXCEPT !.child = "closed"])]
  /\ Finalize(c, "ok")
  /\ JobStep

\* The result is given; of a task that was adopted, its inbox is told.
PipesClose(c) ==
  /\ jobs[c].child = "exited"
  /\ jobs' = [jobs EXCEPT ![c] = Finalized(c, [@ EXCEPT !.child = "closed", !.told = jobs[c].task])]
  /\ Finalize(c, "ok")
  /\ JobStep

\* 250 ms after the exit the result no longer waits for the pipes.
GraceEnds(c) ==
  /\ jobs[c].child = "exited" /\ jobs[c].given = 0
  /\ jobs' = [jobs EXCEPT ![c] = Finalized(c, @)]
  /\ Deliver(c, "ok")
  /\ JobStep

\* The command's time is up: the background tasks adopt it.
ShellTimesOut(c) ==
  /\ jobs[c].child # "none" /\ jobs[c].given = 0
  /\ jobs' = [jobs EXCEPT ![c] = [@ EXCEPT !.given = 1, !.task = TRUE, !.listens = FALSE]]
  /\ Deliver(c, "adopted")
  /\ JobStep

-----------------------------------------------------------------------------
(* A request to an MCP server or to a sandbox.                             *)

ToServer(c) == Call(c).tool = "Mcp"

Reached(c) == ToServer(c) => attempts[allowed[c].ran].open

UnderWay(c) == rpc[c].step \in {"sent", "served"}

RpcStep == UNCHANGED <<jobs, allowed, mcpVars>> /\ AsItIs

Over(c, how) == rpc' = [rpc EXCEPT ![c].step = "over"] /\ Deliver(c, how)

Serve(c) ==
  /\ rpc[c].step = "sent" /\ Reached(c)
  /\ rpc' = [rpc EXCEPT ![c] = [@ EXCEPT !.step = "served", !.effects = rpc[c].effects + 1]]
  /\ UNCHANGED <<results, at, nth, approved>> /\ RpcStep

Replies(c) ==
  /\ rpc[c].step = "served" /\ Reached(c)
  /\ Over(c, "ok")
  /\ RpcStep

Retries(c) == rpc[c].tries = 1

\* The server closes the stream before it has answered.
StreamEnds(c) ==
  /\ world.mcp.loses /\ ToServer(c) /\ UnderWay(c)
  /\ IF Retries(c)
     THEN /\ rpc' = [rpc EXCEPT ![c] = [@ EXCEPT !.step = "sent", !.tries = rpc[c].tries + 1]]
          /\ UNCHANGED <<results, at, nth, approved>>
     ELSE Over(c, "error")
  /\ RpcStep

RequestFails(c) ==
  /\ UnderWay(c)
  /\ Over(c, "error")
  /\ RpcStep

-----------------------------------------------------------------------------

\* The host configures other hooks while a call is under way or parked.
Reconfigure ==
  /\ hooks = 1 /\ Len(world.hooks) = 2
  /\ hooks' = 2
  /\ UNCHANGED <<world, at, nth, input, tool, promise, approved, tightened, aborted, jobs, rpc,
                 results, agreed, allowed, mcpVars>>

Tighten ==
  /\ ~tightened /\ world.denies # {}
  /\ tightened' = TRUE
  /\ UNCHANGED <<world, at, nth, input, tool, promise, approved, hooks, aborted, jobs, rpc,
                 results, agreed, allowed, mcpVars>>

Next ==
  \/ \E a \in Agents :
       \/ TakeCall(a) \/ Resolved(a, "deciding") \/ Decide(a) \/ JudgeReplies(a)
       \/ PersonAnswers(a) \/ Approve(a) \/ StartTool(a) \/ Resolved(a, "launching")
       \/ LaunchFails(a) \/ Search(a) \/ Spawn(a) \/ Send(a)
  \/ \E c \in Calls :
       \/ SpawnFails(c) \/ ChildExits(c) \/ PipesClose(c) \/ GraceEnds(c) \/ ShellTimesOut(c)
       \/ Serve(c) \/ Replies(c) \/ StreamEnds(c) \/ RequestFails(c)
  \/ Interrupt \/ Reconfigure \/ Tighten
  \/ ConnectAll /\ UNCHANGED gateVars
  \/ Connect /\ UNCHANGED gateVars
  \/ \E n \in Attempts :
       \/ EarlierClosed(n) /\ UNCHANGED gateVars
       \/ Connected(n) /\ UNCHANGED gateVars
       \/ Listed(n) /\ UNCHANGED gateVars
       \/ ConnectFails(n) /\ UNCHANGED gateVars
       \/ ConnectTimesOut(n) /\ UNCHANGED gateVars
       \/ ClientErrs(n) /\ UNCHANGED gateVars
       \/ ServerDies(n) /\ UNCHANGED gateVars
  \/ Disconnect /\ UNCHANGED gateVars
  \/ ReconnectAll /\ UNCHANGED gateVars
  \/ Left /\ UNCHANGED gateVars
  \/ Filter /\ UNCHANGED gateVars

\* The engine goes on by itself, timers run out, a killed process exits and a pipe that
\* nothing holds closes.  No server, judge, person or host need ever do anything.
Fairness ==
  /\ \A a \in {Root, Sub} :
       WF_vars(a \in Agents /\ (\/ Resolved(a, "deciding") \/ Resolved(a, "launching") \/ Decide(a)
                                \/ StartTool(a) \/ LaunchFails(a) \/ Search(a) \/ Spawn(a) \/ Send(a)))
  /\ \A c \in {Root, Sub} \X {1, 2} :
       /\ WF_vars(c \in Calls /\ ShellTimesOut(c))
       /\ WF_vars(c \in Calls /\ jobs[c].child = "dying" /\ ChildExits(c))
       /\ WF_vars(c \in Calls /\ ~jobs[c].held /\ PipesClose(c))
  /\ WF_vars(Left /\ UNCHANGED gateVars)
  /\ \A n \in 1..3 :
       /\ WF_vars(n \in Attempts /\ EarlierClosed(n) /\ UNCHANGED gateVars)
       /\ WF_vars(n \in Attempts /\ ConnectTimesOut(n) /\ UNCHANGED gateVars)

Spec == Init /\ [][Next]_vars /\ Fairness

-----------------------------------------------------------------------------
(* Properties.                                                             *)

Started == {c \in Calls : allowed[c] # None}

\* A call that the policy put to somebody runs only if a hook, the judge or a person allowed that
\* very call, on an input that showed the same; and none runs that the policy denied (executeTool,
\* resolveDecided: hooks and rules may change between the park and its answer).
RanAsShown ==
  \A c \in Started :
    /\ allowed[c].put => \E g \in agreed : g[1] = c /\ g[2].shown = allowed[c].input.shown
    /\ ~allowed[c].denied

\* A process that runs is some call's under way, a background task's, about to die, or one whose
\* call the person interrupted; a task that ends is told of, and a lease is held only while the
\* process runs; and its call is given one result (run() of tools/builtin/bash.ts).
CommandAccounted ==
  \A c \in Calls :
    /\ Alive(c) =>
         \/ at[c[1]] = "running" /\ Now(c[1]) = c
         \/ jobs[c].task
         \/ jobs[c].child = "dying"
         \/ aborted /\ jobs[c].given = 0
    /\ jobs[c].task /\ jobs[c].child = "closed" => jobs[c].told
    /\ jobs[c].lease => Alive(c)
    /\ jobs[c].given <= 1

\* No registry offers a tool of a connection that connect() gave up on, however late the connection
\* got to list its tools (McpManager.connect).
GaveUpIsGone ==
  \A r \in DOMAIN registry : registry[r] # None => ~attempts[registry[r]].late

\* The newest promise of a server is resolved again and again: a call that waits for it goes on
\* (McpManager.connectAll, connect and its time limit).
EveryAttemptSettles == []<>(settled = <<>> \/ settled[Len(settled)])

-----------------------------------------------------------------------------
(* What comments of the code say and the code does not do.                 *)

\* An approved call runs on the very input that was approved (agent.ts, executeTool).
RanAsDecided ==
  \A c \in Started :
    allowed[c].put => \E g \in agreed : g[1] = c /\ g[2] = allowed[c].input

\* Once the person has interrupted, no call's process is started (bash.ts).
InterruptStops ==
  [][\A c \in Calls : aborted /\ jobs[c].child = "none" => jobs'[c].child = "none"]_vars

\* An adopted command that ends is told of (bash.ts, adoptChild).
AdoptedIsTold ==
  LET first == <<Root, 1>>
      ended == first \in Calls /\ jobs[first].task /\ jobs[first].child \in {"exited", "closed"}
  IN ended ~> (ended /\ jobs[first].told)

\* A call that waits for a server goes on (manager.ts, waitFor).
WaitersGoOn ==
  (Root \in Agents /\ at[Root] = "resolving") ~> (at[Root] # "resolving")

\* A request has its effect once (manager.ts, callTool).
EffectOnce == \A c \in Calls : rpc[c].effects <= 1

\* A client that is open is the one the manager holds (manager.ts, connect).
ClientsKept == \A n \in Attempts : attempts[n].open => client = n

\* The tool that runs is the tool the decision was about (agent.ts, executeTool).
DecidedToolRan == \A c \in Started : allowed[c].ran # None => allowed[c].ran = allowed[c].on

\* A hook whose body is no JSON changes nothing (engine.ts, runHttp).
BadBodyIsNoOp ==
  \A c \in Calls :
    /\ hooks = 1 /\ results[c] # None
    /\ \A i \in DOMAIN world.hooks[1] : world.hooks[1][i].kind = "http" /\ world.hooks[1][i].meets = "prose"
    => ~results[c].noted
=============================================================================
