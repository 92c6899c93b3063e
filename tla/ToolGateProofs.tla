--------------------------- MODULE ToolGateProofs ---------------------------
(***************************************************************************)
(* Three invariants of ToolGate, for every set of worlds: GaveUpIsGone of  *)
(* the MCP manager, RanAsShown of the permission gate, and                 *)
(* CommandAccounted of the shell's processes.  What the hooks make of a    *)
(* call is arbitrary in all three: nothing is used of RunHooks.            *)
(***************************************************************************)
EXTENDS ToolGate, SequenceTheorems, TLAPS

(* The connections to the server.                                          *)

Attempt ==
  [step : {"closing", "connecting", "listing", "over"}, late : BOOLEAN, open : BOOLEAN,
   into : {Root}, hint : UNION {w.mcp.hints : w \in Worlds}]

\* A tool that a registry offers is of an attempt that listed it in time and is over: nothing makes
\* an attempt late any more.
Offered ==
  \A r \in DOMAIN registry :
    registry[r] # None =>
      /\ registry[r] \in DOMAIN attempts
      /\ attempts[registry[r]].step = "over" /\ ~attempts[registry[r]].late

McpInv == world \in Worlds /\ attempts \in Seq(Attempt) /\ Root \in DOMAIN registry /\ Offered

\* What is over stays over, late or not as it was.
Settles(s, t) ==
  /\ t \in Seq(Attempt)
  /\ \A n \in DOMAIN s :
       n \in DOMAIN t /\ (s[n].step = "over" => t[n].step = "over" /\ t[n].late = s[n].late)

LEMMA OneChanged ==
  ASSUME NEW s \in Seq(Attempt), NEW n \in DOMAIN s, NEW v \in Attempt,
         s[n].step = "over" => v.step = "over" /\ v.late = s[n].late
  PROVE  Settles(s, [s EXCEPT ![n] = v])
<1>1. [s EXCEPT ![n] = v] \in Seq(Attempt) /\ DOMAIN [s EXCEPT ![n] = v] = DOMAIN s
  BY ExceptSeq
<1> QED
  BY <1>1 DEF Settles

LEMMA ShutKeeps ==
  ASSUME NEW n, attempts \in Seq(Attempt)
  PROVE  Settles(attempts, Shut(n))
<1>1. CASE n = None \/ n \notin DOMAIN attempts
  <2>1. DOMAIN attempts = 1..Len(attempts) /\ attempts \in [1..Len(attempts) -> Attempt]
    BY LenProperties
  <2>2. \A v : n \notin DOMAIN attempts => [attempts EXCEPT ![n] = v] = attempts
    BY <2>1
  <2> DEFINE v == [attempts[n] EXCEPT !.open = FALSE]
  <2>3. Shut(n) = IF n = None THEN attempts ELSE [attempts EXCEPT ![n] = v]
    BY Zenon DEF Shut
  <2> HIDE DEF v
  <2>4. Shut(n) = attempts
    BY <1>1, <2>2, <2>3, Zenon
  <2> QED
    BY <2>4 DEF Settles
<1>2. CASE n # None /\ n \in DOMAIN attempts
  <2>1. attempts[n] \in Attempt
    BY <1>2, ElementOfSeq, LenProperties
  <2> DEFINE v == [attempts[n] EXCEPT !.open = FALSE]
  <2>2. v \in Attempt /\ v.step = attempts[n].step /\ v.late = attempts[n].late
    BY <2>1 DEF Attempt
  <2>3. Shut(n) = [attempts EXCEPT ![n] = v]
    BY <1>2 DEF Shut
  <2> HIDE DEF v
  <2> QED
    BY <1>2, <2>2, <2>3, OneChanged
<1> QED
  BY <1>1, <1>2

LEMMA BeginSettles ==
  ASSUME McpInv, Begin(Root)
  PROVE  Settles(attempts, attempts')
<1> DEFINE s == Shut(client)
<1>1. s \in Seq(Attempt) /\ Settles(attempts, s)
  BY ShutKeeps DEF Settles, McpInv
<1>2. PICK a \in Attempt : attempts' = Append(s, a)
  BY DEF Begin, Attempt, McpInv
<1> HIDE DEF s
<1>3. /\ attempts' \in Seq(Attempt)
      /\ DOMAIN s = 1..Len(s) /\ DOMAIN attempts' = 1..(Len(s) + 1) /\ Len(s) \in Nat
      /\ \A n \in 1..Len(s) : attempts'[n] = s[n]
  BY <1>1, <1>2, AppendProperties, LenProperties
<1> QED
  BY <1>1, <1>3 DEF Settles

\* What is offered afterwards was offered before, or has listed its tool in time.
LEMMA StaysOffered ==
  ASSUME McpInv, world' = world, Settles(attempts, attempts'), Root \in DOMAIN registry',
         \A r \in DOMAIN registry' :
            \/ registry'[r] = None
            \/ \E q \in DOMAIN registry : registry'[r] = registry[q]
            \/ /\ registry'[r] \in DOMAIN attempts'
               /\ attempts'[registry'[r]].step = "over" /\ ~attempts'[registry'[r]].late
  PROVE  McpInv'
  BY DEF McpInv, Offered, Settles

\* An attempt that is not over moves.
LEMMA AttemptMoves ==
  ASSUME McpInv, NEW n \in DOMAIN attempts, NEW v \in Attempt, attempts[n].step # "over",
         attempts' = [attempts EXCEPT ![n] = v]
  PROVE  Settles(attempts, attempts') /\ n \in DOMAIN attempts' /\ attempts'[n] = v
<1>1. attempts \in Seq(Attempt)
  BY DEF McpInv
<1>2. Settles(attempts, attempts')
  BY <1>1, OneChanged
<1> QED
  BY <1>2 DEF Settles

LEMMA TypedAttempt ==
  ASSUME McpInv, NEW n \in DOMAIN attempts
  PROVE  attempts[n] \in Attempt
  BY ElementOfSeq, LenProperties DEF McpInv

LEMMA SettlesSelf ==
  ASSUME McpInv
  PROVE  Settles(attempts, attempts)
  BY DEF McpInv, Settles

ConnectionStep(n) ==
  \/ EarlierClosed(n) \/ Connected(n) \/ Listed(n) \/ ConnectFails(n) \/ ConnectTimesOut(n)
  \/ ClientErrs(n) \/ ServerDies(n)

ManagerStep ==
  \/ ConnectAll \/ Connect \/ Disconnect \/ ReconnectAll \/ Left \/ Filter
  \/ \E n \in Attempts : ConnectionStep(n)

LEMMA ConnectionKeeps ==
  ASSUME McpInv, world' = world, NEW n \in Attempts, ConnectionStep(n)
  PROVE  McpInv'
<1> USE DEF Attempts
<1>1. attempts[n] \in Attempt /\ attempts \in Seq(Attempt) /\ Root \in DOMAIN registry
  BY TypedAttempt DEF McpInv
<1>2. CASE EarlierClosed(n)
  <2> DEFINE v == [attempts[n] EXCEPT !.step = "connecting"]
  <2>0. v \in Attempt
    BY <1>1 DEF Attempt
  <2>1. attempts' = [attempts EXCEPT ![n] = v]
    BY <1>2 DEF EarlierClosed
  <2>2. Settles(attempts, attempts')
    BY <1>2, <2>0, <2>1, AttemptMoves DEF EarlierClosed
  <2> QED
    BY <1>1, <1>2, <2>2, StaysOffered DEF EarlierClosed
<1>3. CASE Connected(n)
  <2> DEFINE v == [attempts[n] EXCEPT !.step = "listing", !.open = TRUE]
  <2>0. v \in Attempt
    BY <1>1 DEF Attempt
  <2>1. attempts' = [attempts EXCEPT ![n] = v]
    BY <1>3 DEF Connected
  <2>2. Settles(attempts, attempts')
    BY <1>3, <2>0, <2>1, AttemptMoves DEF Connected
  <2> QED
    BY <1>1, <1>3, <2>2, StaysOffered DEF Connected
<1>4. CASE Listed(n)
  <2> DEFINE v == [attempts[n] EXCEPT !.step = "over"]
  <2>0. v \in Attempt
    BY <1>1 DEF Attempt
  <2>1. attempts' = [attempts EXCEPT ![n] = v]
    BY <1>4 DEF Listed
  <2>2. Settles(attempts, attempts') /\ n \in DOMAIN attempts' /\ attempts'[n] = v
    BY <1>4, <2>0, <2>1, AttemptMoves DEF Listed
  <2>3. registry' = registry \/ (registry' = [registry EXCEPT ![Root] = n] /\ ~attempts[n].late)
    BY <1>4 DEF Listed, Registered, Wanted
  <2>4. v.step = "over" /\ v.late = attempts[n].late
    BY <1>1 DEF Attempt
  <2> HIDE DEF v
  <2> QED
    BY <1>1, <2>2, <2>3, <2>4, StaysOffered
<1>5. CASE ConnectFails(n)
  <2> DEFINE v == [attempts[n] EXCEPT !.step = "over"]
  <2>0. v \in Attempt
    BY <1>1 DEF Attempt
  <2>1. attempts' = [attempts EXCEPT ![n] = v]
    BY <1>5 DEF ConnectFails
  <2>2. Settles(attempts, attempts')
    BY <1>5, <2>0, <2>1, AttemptMoves DEF ConnectFails
  <2> QED
    BY <1>1, <1>5, <2>2, StaysOffered DEF ConnectFails
<1>6. CASE ConnectTimesOut(n)
  <2> DEFINE v == [attempts[n] EXCEPT !.late = TRUE]
  <2>0. v \in Attempt
    BY <1>1 DEF Attempt
  <2>1. attempts' = [attempts EXCEPT ![n] = v]
    BY <1>6 DEF ConnectTimesOut
  <2>2. Settles(attempts, attempts')
    BY <1>6, <2>0, <2>1, AttemptMoves DEF ConnectTimesOut
  <2> QED
    BY <1>1, <1>6, <2>2, StaysOffered DEF ConnectTimesOut
<1>7. CASE ClientErrs(n)
  BY <1>1, <1>7, SettlesSelf, StaysOffered DEF ClientErrs
<1>8. CASE ServerDies(n)
  BY <1>1, <1>8, ShutKeeps, StaysOffered DEF ServerDies
<1> QED
  BY <1>2, <1>3, <1>4, <1>5, <1>6, <1>7, <1>8 DEF ConnectionStep

LEMMA ManagerKeeps ==
  ASSUME McpInv, world' = world, ManagerStep
  PROVE  McpInv'
<1>1. attempts \in Seq(Attempt) /\ Root \in DOMAIN registry
  BY DEF McpInv
<1>2. CASE ConnectAll
  BY <1>1, <1>2, BeginSettles, StaysOffered DEF ConnectAll
<1>3. CASE Connect
  BY <1>1, <1>3, BeginSettles, StaysOffered DEF Connect
<1>4. CASE Disconnect \/ ReconnectAll
  BY <1>1, <1>4, ShutKeeps, StaysOffered DEF Disconnect, ReconnectAll, Leave
<1>5. CASE Left
  <2>1. Settles(attempts, attempts')
    BY <1>5, BeginSettles, SettlesSelf DEF Left
  <2>2. registry' = [r \in DOMAIN registry |-> IF r \in world.mcp.named THEN None ELSE registry[r]]
    BY <1>5 DEF Left
  <2> QED
    BY <1>1, <2>1, <2>2, StaysOffered
<1>6. CASE Filter
  <2>1. /\ DOMAIN registry' = DOMAIN registry \cup {Sub}
        /\ \A r \in DOMAIN registry : registry'[r] = registry[r]
        /\ registry'[Sub] = registry[Root]
    BY <1>6 DEF Filter
  <2>2. attempts' = attempts
    BY <1>6 DEF Filter
  <2> QED
    BY <1>1, <2>1, <2>2, SettlesSelf, StaysOffered
<1>7. CASE \E n \in Attempts : ConnectionStep(n)
  BY <1>7, ConnectionKeeps
<1> QED
  BY <1>2, <1>3, <1>4, <1>5, <1>6, <1>7 DEF ManagerStep

LEMMA ResolvedKeeps ==
  ASSUME McpInv, NEW a, NEW next, Resolved(a, next)
  PROVE  McpInv'
<1>1. world' = world /\ attempts' = attempts
  BY DEF Resolved
<1>2. registry' = [registry EXCEPT ![a] = Lookup(a)]
  BY DEF Resolved, LateResolved
<1>3. Root \in DOMAIN registry /\ (Lookup(a) = registry[a] \/ Lookup(a) = registry[Root])
  BY DEF McpInv, Lookup
<1> QED
  BY <1>1, <1>2, <1>3, SettlesSelf, StaysOffered

\* What a step of the gate leaves alone, but for the lookup of a tool that came late.
DecisionStep(a) ==
  \/ TakeCall(a) \/ Decide(a) \/ JudgeReplies(a) \/ PersonAnswers(a) \/ Approve(a) \/ StartTool(a)
  \/ LaunchFails(a) \/ Search(a) \/ Spawn(a) \/ Send(a)

ProcessStep(c) ==
  SpawnFails(c) \/ ChildExits(c) \/ PipesClose(c) \/ GraceEnds(c) \/ ShellTimesOut(c)

RequestStep(c) == Serve(c) \/ Replies(c) \/ StreamEnds(c) \/ RequestFails(c)

LEMMA NextIs ==
  ASSUME [Next]_vars
  PROVE  \/ \E a \in Agents :
              DecisionStep(a) \/ Resolved(a, "deciding") \/ Resolved(a, "launching")
         \/ \E c \in Calls : ProcessStep(c) \/ RequestStep(c)
         \/ Interrupt \/ Reconfigure \/ Tighten
         \/ ManagerStep /\ UNCHANGED gateVars
         \/ UNCHANGED vars
  BY Zenon DEF Next, DecisionStep, ProcessStep, RequestStep, ManagerStep, ConnectionStep

LEMMA GateLeavesServer ==
  ASSUME \/ \E a : DecisionStep(a)
         \/ \E c : ProcessStep(c) \/ RequestStep(c)
         \/ Interrupt \/ Reconfigure \/ Tighten
  PROVE  UNCHANGED <<world, attempts, registry>>
<1>1. ASSUME NEW a, DecisionStep(a)
      PROVE  UNCHANGED <<world, attempts, registry>>
  BY <1>1 DEF DecisionStep, TakeCall, Decide, JudgeReplies, PersonAnswers, Approve, StartTool,
              LaunchFails, Search, Spawn, Send, PreToolUse, NoneAsked, AsItIs, mcpVars
<1>2. ASSUME NEW c, ProcessStep(c)
      PROVE  UNCHANGED <<world, attempts, registry>>
  BY <1>2 DEF ProcessStep, SpawnFails, ChildExits, PipesClose, GraceEnds, ShellTimesOut, JobStep,
              AsItIs, mcpVars
<1>3. ASSUME NEW c, RequestStep(c)
      PROVE  UNCHANGED <<world, attempts, registry>>
  BY <1>3 DEF RequestStep, Serve, Replies, StreamEnds, RequestFails, RpcStep, AsItIs, mcpVars
<1>4. Interrupt \/ Reconfigure \/ Tighten => UNCHANGED <<world, attempts, registry>>
  BY DEF Interrupt, Reconfigure, Tighten, mcpVars
<1> QED
  BY <1>1, <1>2, <1>3, <1>4

\* No registry offers a tool of a connection that connect() gave up on, however late its listing
\* comes, through retries, reconnections and sub-agents' registries (McpManager.connect).
THEOREM GivenUpStaysGone == Spec => []GaveUpIsGone
<1>1. Init => McpInv
  BY EmptySeq DEF Init, McpInit, McpInv, Offered
<1>2. ASSUME McpInv, [Next]_vars
      PROVE  McpInv'
  <2>1. ASSUME UNCHANGED <<world, attempts, registry>>
        PROVE  McpInv'
    BY <1>2, <2>1 DEF McpInv, Offered
  <2>2. CASE \E a \in Agents : Resolved(a, "deciding") \/ Resolved(a, "launching")
    BY <1>2, <2>2, ResolvedKeeps
  <2>3. CASE ManagerStep /\ UNCHANGED gateVars
    BY <1>2, <2>3, ManagerKeeps DEF gateVars
  <2>4. CASE UNCHANGED vars
    BY <2>1, <2>4 DEF vars, gateVars, mcpVars
  <2>5. CASE \/ \E a \in Agents : DecisionStep(a)
             \/ \E c \in Calls : ProcessStep(c) \/ RequestStep(c)
             \/ Interrupt \/ Reconfigure \/ Tighten
    BY <2>1, <2>5, GateLeavesServer
  <2> QED
    BY <1>2, <2>2, <2>3, <2>4, <2>5, NextIs
<1>3. McpInv => GaveUpIsGone
  BY DEF McpInv, Offered, GaveUpIsGone
<1> QED
  BY <1>1, <1>2, <1>3, PTL DEF Spec

-----------------------------------------------------------------------------
(* The decision.                                                           *)

Steps ==
  {"idle", "resolving", "deciding", "judging", "asking", "parked", "starting", "re_resolving",
   "launching", "running"}

GateShape ==
  /\ at \in [Agents -> Steps] /\ nth \in [Agents -> Nat]
  /\ DOMAIN input = Agents /\ DOMAIN approved = Agents /\ DOMAIN allowed = Calls
  /\ \A a \in Agents : at[a] # "idle" => Now(a) \in Calls

\* Somebody allowed the call, on an input that showed this.
Witnessed(c, shown) == \E g \in agreed : g[1] = c /\ g[2].shown = shown

LetThrough(c) ==
  \E i, on, ran : \E put \in BOOLEAN :
    /\ allowed[c] = [input |-> i, on |-> on, put |-> put, denied |-> FALSE, ran |-> ran]
    /\ put => Witnessed(c, i.shown)

Decisive == {"starting", "re_resolving", "launching"}

\* An answer the call still holds is about what it shows now; and a call on its way to run was
\* let through.
HeldRight(a) ==
  /\ approved[a] # None =>
       /\ approved[a].shown = input[a].shown
       /\ approved[a].decision # "deny" => Witnessed(Now(a), input[a].shown)
  /\ at[a] \in Decisive => LetThrough(Now(a))

RightlyRun(c) == allowed[c] # None => LetThrough(c)

GateInv ==
  /\ GateShape
  /\ \A a \in Agents : HeldRight(a)
  /\ \A c \in Calls : RightlyRun(c)

\* A step of one agent's call.
OwnMove(a) ==
  /\ world' = world /\ at' \in [Agents -> Steps] /\ nth' \in [Agents -> Nat]
  /\ DOMAIN input' = Agents /\ DOMAIN approved' = Agents /\ DOMAIN allowed' = Calls
  /\ \A b \in Agents \ {a} :
       at'[b] = at[b] /\ nth'[b] = nth[b] /\ input'[b] = input[b] /\ approved'[b] = approved[b]
  /\ \A c \in Calls \ {Now(a)} : allowed'[c] = allowed[c]
  /\ agreed \subseteq agreed'
  /\ at'[a] # "idle" => nth'[a] = nth[a] /\ Now(a) \in Calls

LEMMA SameCalls ==
  ASSUME world' = world
  PROVE  Agents' = Agents /\ Calls' = Calls
  BY DEF Agents, Calls

LEMMA StaysThrough ==
  ASSUME NEW c, LetThrough(c), allowed'[c] = allowed[c], agreed \subseteq agreed'
  PROVE  LetThrough(c)'
<1>1. PICK i, on, ran : \E put \in BOOLEAN :
        /\ allowed[c] = [input |-> i, on |-> on, put |-> put, denied |-> FALSE, ran |-> ran]
        /\ put => Witnessed(c, i.shown)
  BY DEF LetThrough
<1>2. PICK put \in BOOLEAN :
        /\ allowed'[c] = [input |-> i, on |-> on, put |-> put, denied |-> FALSE, ran |-> ran]
        /\ put => Witnessed(c, i.shown)
  BY <1>1
<1>3. Witnessed(c, i.shown) => Witnessed(c, i.shown)'
  BY DEF Witnessed
<1> QED
  BY <1>2, <1>3 DEF LetThrough

\* The same of the call of an agent, whose number does not change.
LEMMA NowStaysThrough ==
  ASSUME NEW a, LetThrough(Now(a)), Now(a)' = Now(a), allowed'[Now(a)] = allowed[Now(a)],
         agreed \subseteq agreed'
  PROVE  LetThrough(Now(a))'
<1>1. PICK i, on, ran : \E put \in BOOLEAN :
        /\ allowed[Now(a)] = [input |-> i, on |-> on, put |-> put, denied |-> FALSE, ran |-> ran]
        /\ put => Witnessed(Now(a), i.shown)
  BY DEF LetThrough
<1>2. PICK put \in BOOLEAN :
        /\ allowed'[Now(a)'] = [input |-> i, on |-> on, put |-> put, denied |-> FALSE, ran |-> ran]
        /\ put => Witnessed(Now(a), i.shown)
  BY <1>1
<1>3. Witnessed(Now(a), i.shown) => Witnessed(Now(a), i.shown)'
  BY DEF Witnessed
<1> QED
  BY <1>2, <1>3 DEF LetThrough

LEMMA OwnMoveKeeps ==
  ASSUME GateInv, NEW a \in Agents, OwnMove(a), HeldRight(a)',
         Now(a) \in Calls => allowed'[Now(a)] = allowed[Now(a)]
                             \/ \E c \in Calls : c = Now(a) /\ RightlyRun(c)'
  PROVE  GateInv'
<1>1. Agents' = Agents /\ Calls' = Calls
  BY SameCalls DEF OwnMove
<1>2. \A b \in Agents \ {a} : Now(b)' = Now(b) /\ Now(b) # Now(a)
  BY DEF OwnMove, Now
<1>3. at'[a] # "idle" => Now(a)' = Now(a) /\ Now(a) \in Calls
  BY DEF OwnMove, Now
<1>4. \A c, shown : Witnessed(c, shown) => Witnessed(c, shown)'
  BY DEF OwnMove, Witnessed
<1>5. \A c \in Calls : allowed'[c] = allowed[c] /\ LetThrough(c) => LetThrough(c)'
  BY StaysThrough DEF OwnMove
<1>6. GateShape'
  BY <1>1, <1>2, <1>3 DEF GateInv, GateShape, OwnMove
<1>7. ASSUME NEW c \in Calls
      PROVE  RightlyRun(c)'
  <2>1. CASE allowed'[c] = allowed[c]
    BY <1>5, <2>1 DEF RightlyRun, GateInv
  <2>2. CASE allowed'[c] # allowed[c]
    BY <2>2 DEF OwnMove
  <2> QED
    BY <2>1, <2>2
<1>8. ASSUME NEW b \in Agents \ {a}
      PROVE  HeldRight(b)'
  <2>1. /\ at'[b] = at[b] /\ input'[b] = input[b] /\ approved'[b] = approved[b]
        /\ Now(b)' = Now(b) /\ HeldRight(b)
    BY <1>2 DEF OwnMove, GateInv
  <2>2. at[b] \in Decisive => Now(b) \in Calls /\ allowed'[Now(b)] = allowed[Now(b)]
    BY <1>2 DEF OwnMove, GateInv, GateShape, Decisive
  <2>3. at[b] \in Decisive => LetThrough(Now(b))'
    BY <2>1, <2>2, NowStaysThrough DEF HeldRight, OwnMove
  <2> QED
    BY <1>4, <2>1, <2>3 DEF HeldRight, Witnessed
<1> QED
  BY <1>1, <1>6, <1>7, <1>8 DEF GateInv

(* The outcomes of a step of the call of a.                                *)

LEMMA ConcludeMoves ==
  ASSUME GateInv, NEW a \in Agents, NEW result, Conclude(a, result),
         world' = world, input' = input, agreed \subseteq agreed', allowed' = allowed
  PROVE  OwnMove(a) /\ HeldRight(a)'
<1>1. /\ at \in [Agents -> Steps] /\ nth \in [Agents -> Nat]
      /\ DOMAIN input = Agents /\ DOMAIN approved = Agents /\ DOMAIN allowed = Calls
  BY DEF GateInv, GateShape
<1>2. /\ at' = [at EXCEPT ![a] = "idle"] /\ nth' = [nth EXCEPT ![a] = nth[a] + 1]
      /\ approved' = [approved EXCEPT ![a] = None]
  BY Zenon DEF Conclude
<1>3. at' \in [Agents -> Steps] /\ nth' \in [Agents -> Nat] /\ DOMAIN approved' = Agents
  <2>1. nth[a] + 1 \in Nat /\ "idle" \in Steps
    BY <1>1 DEF Steps
  <2> QED
    BY <1>1, <1>2, <2>1
<1>4. at'[a] = "idle" /\ approved'[a] = None
  BY <1>1, <1>2
<1>5. \A b \in Agents \ {a} : at'[b] = at[b] /\ nth'[b] = nth[b] /\ approved'[b] = approved[b]
  BY <1>1, <1>2
<1> QED
  BY <1>1, <1>3, <1>4, <1>5 DEF OwnMove, HeldRight, Decisive

LEMMA ConcludeKeeps ==
  ASSUME GateInv, NEW a \in Agents, NEW result, Conclude(a, result),
         world' = world, input' = input, agreed \subseteq agreed', allowed' = allowed
  PROVE  GateInv'
  BY ConcludeMoves, OwnMoveKeeps

\* The agent's answer stays right when nothing it is about changes.
LEMMA AnswerStands ==
  ASSUME NEW a, HeldRight(a), agreed \subseteq agreed', input' = input, approved' = approved, nth' = nth
  PROVE  /\ approved'[a] # None =>
              /\ approved'[a].shown = input'[a].shown
              /\ approved'[a].decision # "deny" => Witnessed(Now(a), input[a].shown)'
  BY DEF HeldRight, Witnessed, Now

LEMMA GotoKeeps ==
  ASSUME GateInv, NEW a \in Agents, NEW step \in Steps, Goto(a, step), at[a] # "idle",
         world' = world, input' = input, agreed \subseteq agreed', allowed' = allowed,
         step \in Decisive => at[a] \in Decisive
  PROVE  GateInv'
<1>1. Now(a) \in Calls /\ HeldRight(a)
  BY DEF GateInv, GateShape
<1>2. OwnMove(a)
  BY <1>1 DEF GateInv, GateShape, OwnMove, Goto
<1>3. at'[a] = step /\ Now(a)' = Now(a)
  BY DEF GateInv, GateShape, Goto, Now
<1>4. HeldRight(a)'
  <2>1. at'[a] \in Decisive => LetThrough(Now(a))'
    BY <1>1, <1>3, NowStaysThrough DEF HeldRight
  <2> QED
    BY <1>1, <2>1, AnswerStands DEF HeldRight, Goto
<1> QED
  BY <1>2, <1>4, OwnMoveKeeps

LEMMA AllowKeeps ==
  ASSUME GateInv, NEW a \in Agents, Allow(a), at[a] # "idle",
         world' = world, input' = input, agreed \subseteq agreed',
         at[a] # "deciding" \/ Policy(a) # "deny",
         Policy(a) # "allow" => \E g \in agreed' : g[1] = Now(a) /\ g[2].shown = input[a].shown
  PROVE  GateInv'
<1>1. Now(a) \in Calls /\ HeldRight(a)
  BY DEF GateInv, GateShape
<1>2. OwnMove(a)
  BY <1>1 DEF GateInv, GateShape, OwnMove, Allow, Goto, Steps
<1>3. Now(a)' = Now(a)
  BY DEF Allow, Goto, Now
<1> DEFINE put == Policy(a) # "allow"
<1>4. allowed'[Now(a)] = [input |-> input[a], on |-> tool[a], put |-> put, denied |-> FALSE,
                          ran |-> None]
  BY <1>1 DEF Allow, GateInv, GateShape
<1>5. put \in BOOLEAN /\ (put => \E g \in agreed' : g[1] = Now(a) /\ g[2].shown = input[a].shown)
  OBVIOUS
<1> HIDE DEF put
<1>6. LetThrough(Now(a))'
  BY <1>3, <1>4, <1>5 DEF LetThrough, Witnessed
<1>7. HeldRight(a)'
  BY <1>1, <1>6, AnswerStands DEF HeldRight, Allow, Goto
<1>8. \A c \in Calls : c = Now(a) => RightlyRun(c)'
  BY <1>3, <1>4, <1>5 DEF LetThrough, RightlyRun, Witnessed
<1> QED
  BY <1>1, <1>2, <1>7, <1>8, OwnMoveKeeps

\* The hooks before a call, taken up anew or with the answer to its park.
LEMMA PreToolUseKeeps ==
  ASSUME GateInv, NEW a \in Agents, NEW held, PreToolUse(a, held), Now(a) \in Calls,
         agreed \subseteq agreed',
         held # None /\ held.decision # "deny" =>
           \E g \in agreed' : g[1] = Now(a) /\ g[2].shown = held.shown
  PROVE  GateInv'
<1>1. world' = world /\ allowed' = allowed
  BY DEF PreToolUse
<1> DEFINE heard == RunHooks(world.hooks[hooks], "PreToolUse", Call(Now(a)).tool)
           rewritten == Rewritten(heard, Call(Now(a)).input)
<1>2. CASE Blocks(heard)
  <2>1. Conclude(a, [how |-> "blocked", noted |-> FALSE]) /\ input' = input
    BY <1>2 DEF PreToolUse, Block
  <2> QED
    BY <1>1, <2>1, ConcludeKeeps
<1>3. CASE ~Blocks(heard)
  <2>1. /\ input' = [input EXCEPT ![a] = rewritten]
        /\ approved' = [approved EXCEPT ![a] = IF StillHeld(held, rewritten) THEN held ELSE None]
        /\ Resolve(a, "deciding") /\ nth' = nth
    BY <1>3 DEF PreToolUse
  <2> HIDE DEF heard, rewritten
  <2>2. \E step \in {"resolving", "deciding"} : at' = [at EXCEPT ![a] = step]
    BY <2>1 DEF Resolve, Waits
  <2>3. OwnMove(a)
    BY <1>1, <2>1, <2>2 DEF GateInv, GateShape, OwnMove, Steps
  <2>4. at'[a] \notin Decisive /\ Now(a)' = Now(a) /\ input'[a] = rewritten
    BY <2>1, <2>2 DEF GateInv, GateShape, Decisive, Now
  <2>5. approved'[a] # None => approved'[a] = held /\ held # None /\ held.shown = input'[a].shown
    BY <2>1, <2>4 DEF GateInv, GateShape, StillHeld
  <2>6. HeldRight(a)'
    BY <2>4, <2>5 DEF HeldRight, Witnessed
  <2> QED
    BY <1>1, <2>3, <2>6, OwnMoveKeeps
<1> QED
  BY <1>2, <1>3

(* The steps of the gate.                                                  *)

LEMMA RefuseKeeps ==
  ASSUME GateInv, NEW a \in Agents, Refuse(a), world' = world, input' = input,
         agreed \subseteq agreed', allowed' = allowed
  PROVE  GateInv'
  BY ConcludeKeeps DEF Refuse

LEMMA HeadlessKeeps ==
  ASSUME GateInv, NEW a \in Agents, Headless(a), at[a] # "idle", world' = world, input' = input
  PROVE  GateInv'
  BY RefuseKeeps, GotoKeeps DEF Headless, Steps, Decisive

LEMMA AgreeWitnesses ==
  ASSUME NEW a, Agree(a)
  PROVE  /\ agreed \subseteq agreed'
         /\ \E g \in agreed' : g[1] = Now(a) /\ g[2].shown = input[a].shown
<1>1. <<Now(a), input[a]>> \in agreed' /\ agreed \subseteq agreed'
  BY DEF Agree
<1> QED
  BY <1>1, Zenon

LEMMA AskKeeps ==
  ASSUME GateInv, NEW a \in Agents, Ask(a), at[a] # "idle", at[a] # "deciding" \/ Asks(a),
         world' = world, input' = input
  PROVE  GateInv'
<1>1. CASE AskHooks(a) = "allow"
  <2>1. Allow(a) /\ Agree(a)
    BY <1>1 DEF Ask
  <2>2. at[a] # "deciding" \/ Policy(a) # "deny"
    BY DEF Asks
  <2> QED
    BY <2>1, <2>2, AgreeWitnesses, AllowKeeps
<1>2. CASE AskHooks(a) = "deny"
  BY <1>2, RefuseKeeps DEF Ask
<1>3. CASE AskHooks(a) \notin {"allow", "deny"} /\ world.person
  BY <1>3, GotoKeeps DEF Ask, Steps, Decisive
<1>4. CASE AskHooks(a) \notin {"allow", "deny"} /\ ~world.person
  BY <1>4, HeadlessKeeps DEF Ask
<1> QED
  BY <1>1, <1>2, <1>3, <1>4

LEMMA DecidedKeeps ==
  ASSUME GateInv, NEW a \in Agents, NEW behavior, Decided(a, behavior), approved[a] # None,
         at[a] # "idle", at[a] # "deciding" \/ behavior = Policy(a), world' = world, input' = input
  PROVE  GateInv'
<1>1. agreed' = agreed
  BY DEF Decided
<1>2. CASE behavior = "deny" \/ approved[a].decision = "deny"
  BY <1>1, <1>2, RefuseKeeps DEF Decided
<1>3. CASE behavior # "deny" /\ approved[a].decision # "deny"
  <2>1. Allow(a)
    BY <1>3 DEF Decided
  <2>2. Witnessed(Now(a), input[a].shown)
    BY <1>3 DEF GateInv, HeldRight
  <2> QED
    BY <1>1, <1>3, <2>1, <2>2, AllowKeeps DEF Witnessed
<1> QED
  BY <1>2, <1>3

LEMMA DecideKeeps ==
  ASSUME GateInv, NEW a \in Agents, Decide(a)
  PROVE  GateInv'
<1>1. at[a] = "deciding" /\ world' = world /\ input' = input
  BY DEF Decide, NoneAsked
<1>2. CASE Asks(a) /\ world.judge
  BY <1>1, <1>2, GotoKeeps DEF Decide, Steps, Decisive
<1>3. CASE ~(Asks(a) /\ world.judge) /\ approved[a] # None
  <2>1. Decided(a, Policy(a))
    BY <1>3 DEF Decide
  <2> QED
    BY <1>1, <1>3, <2>1, DecidedKeeps
<1>4. CASE ~(Asks(a) /\ world.judge) /\ approved[a] = None
  <2>1. CASE Asks(a) /\ Ask(a)
    BY <1>1, <2>1, AskKeeps
  <2>2. CASE Policy(a) = "allow" /\ Allow(a) /\ UNCHANGED agreed
    BY <1>1, <2>2, AllowKeeps
  <2>3. CASE Refuse(a) /\ UNCHANGED <<agreed, allowed>>
    BY <1>1, <2>3, RefuseKeeps
  <2> QED
    BY <1>4, <2>1, <2>2, <2>3 DEF Decide
<1> QED
  BY <1>2, <1>3, <1>4

LEMMA JudgeKeeps ==
  ASSUME GateInv, NEW a \in Agents, JudgeReplies(a)
  PROVE  GateInv'
<1>1. at[a] = "judging" /\ world' = world /\ input' = input
  BY DEF JudgeReplies, NoneAsked
<1>2. CASE approved[a] # None
  <2>1. \E reply : Decided(a, Verdict(reply))
    BY <1>2 DEF JudgeReplies
  <2> QED
    BY <1>1, <1>2, <2>1, DecidedKeeps
<1>3. CASE approved[a] = None
  <2>1. CASE Allow(a) /\ Agree(a)
    BY <1>1, <2>1, AgreeWitnesses, AllowKeeps
  <2>2. CASE Refuse(a) /\ UNCHANGED <<agreed, allowed>>
    BY <1>1, <2>2, RefuseKeeps
  <2>3. CASE Ask(a)
    BY <1>1, <2>3, AskKeeps
  <2> QED
    BY <1>3, <2>1, <2>2, <2>3 DEF JudgeReplies
<1> QED
  BY <1>2, <1>3

LEMMA PersonKeeps ==
  ASSUME GateInv, NEW a \in Agents, PersonAnswers(a)
  PROVE  GateInv'
<1>1. at[a] = "asking" /\ world' = world /\ input' = input
  BY DEF PersonAnswers, NoneAsked
<1>2. CASE Allow(a) /\ Agree(a)
  BY <1>1, <1>2, AgreeWitnesses, AllowKeeps
<1>3. CASE Refuse(a) /\ UNCHANGED <<agreed, allowed>>
  BY <1>1, <1>3, RefuseKeeps
<1>4. CASE Headless(a)
  BY <1>1, <1>4, HeadlessKeeps
<1> QED
  BY <1>2, <1>3, <1>4 DEF PersonAnswers

LEMMA TakeCallKeeps ==
  ASSUME GateInv, NEW a \in Agents, TakeCall(a)
  PROVE  GateInv'
<1>1. Now(a) \in Calls /\ agreed' = agreed /\ PreToolUse(a, None)
  BY DEF TakeCall, Now, Calls
<1> QED
  BY <1>1, PreToolUseKeeps

LEMMA ApproveKeeps ==
  ASSUME GateInv, NEW a \in Agents, Approve(a)
  PROVE  GateInv'
<1>1. PICK decision \in {"allow", "deny"} :
        /\ PreToolUse(a, [shown |-> input[a].shown, decision |-> decision])
        /\ IF decision = "allow" THEN Agree(a) ELSE UNCHANGED agreed
  BY DEF Approve
<1>2. Now(a) \in Calls
  BY DEF Approve, GateInv, GateShape
<1> DEFINE held == [shown |-> input[a].shown, decision |-> decision]
<1>3. agreed \subseteq agreed'
  BY <1>1, AgreeWitnesses
<1>4. held.decision # "deny" => \E g \in agreed' : g[1] = Now(a) /\ g[2].shown = held.shown
  BY <1>1, AgreeWitnesses
<1> HIDE DEF held
<1>5. PreToolUse(a, held)
  BY <1>1 DEF held
<1> QED
  BY <1>2, <1>3, <1>4, <1>5, PreToolUseKeeps

LEMMA StartToolKeeps ==
  ASSUME GateInv, NEW a \in Agents, StartTool(a)
  PROVE  GateInv'
<1>1. /\ world' = world /\ nth' = nth /\ input' = input /\ approved' = approved
      /\ agreed' = agreed /\ allowed' = allowed
  BY DEF StartTool
<1>2. /\ Now(a) \in Calls /\ HeldRight(a) /\ at[a] \in Decisive
      /\ at \in [Agents -> Steps] /\ nth \in [Agents -> Nat]
      /\ DOMAIN input = Agents /\ DOMAIN approved = Agents /\ DOMAIN allowed = Calls
  BY DEF StartTool, GateInv, GateShape, Decisive
<1>3. \E step \in {"re_resolving", "launching"} : at' = [at EXCEPT ![a] = step]
  BY DEF StartTool, Resolve, Waits
<1>4. OwnMove(a)
  BY <1>1, <1>2, <1>3 DEF OwnMove, Steps
<1>5. Now(a)' = Now(a)
  BY <1>1 DEF Now
<1>6. LetThrough(Now(a))'
  BY <1>1, <1>2, <1>5, NowStaysThrough DEF HeldRight
<1>7. HeldRight(a)'
  BY <1>1, <1>2, <1>6, AnswerStands DEF HeldRight
<1> QED
  BY <1>1, <1>4, <1>7, OwnMoveKeeps

LEMMA ResolvedKeepsGate ==
  ASSUME GateInv, NEW a \in Agents, NEW next \in {"deciding", "launching"}, Resolved(a, next)
  PROVE  GateInv'
<1>1. /\ world' = world /\ input' = input /\ agreed' = agreed /\ allowed' = allowed
      /\ Goto(a, next) /\ at[a] = Waits[next]
  BY DEF Resolved
<1>2. at[a] # "idle" /\ next \in Steps /\ (next \in Decisive => at[a] \in Decisive)
  BY <1>1 DEF Waits, Steps, Decisive
<1> QED
  BY <1>1, <1>2, GotoKeeps

LEMMA RanNoted ==
  ASSUME NEW r, NEW i, NEW on, NEW put, NEW denied, NEW ran, NEW now,
         r = [input |-> i, on |-> on, put |-> put, denied |-> denied, ran |-> ran]
  PROVE  [r EXCEPT !.ran = now]
           = [input |-> i, on |-> on, put |-> put, denied |-> denied, ran |-> now]
  OBVIOUS

\* A tool that is run, whether or not somebody still waits for it.
LEMMA RunKeeps ==
  ASSUME GateInv, NEW a \in Agents, at[a] = "launching",
         allowed' = [allowed EXCEPT ![Now(a)].ran = tool[a]],
         \/ \E result : Conclude(a, result)
         \/ Goto(a, "running"),
         world' = world, input' = input, agreed' = agreed
  PROVE  GateInv'
<1>1. /\ Now(a) \in Calls /\ HeldRight(a) /\ LetThrough(Now(a))
      /\ at \in [Agents -> Steps] /\ nth \in [Agents -> Nat]
      /\ DOMAIN input = Agents /\ DOMAIN approved = Agents /\ DOMAIN allowed = Calls
  BY DEF GateInv, GateShape, HeldRight, Decisive
<1>2. PICK i, on, ran : \E put \in BOOLEAN :
        /\ allowed[Now(a)] = [input |-> i, on |-> on, put |-> put, denied |-> FALSE, ran |-> ran]
        /\ put => Witnessed(Now(a), i.shown)
  BY <1>1 DEF LetThrough
<1>3. PICK put \in BOOLEAN :
        /\ allowed[Now(a)] = [input |-> i, on |-> on, put |-> put, denied |-> FALSE, ran |-> ran]
        /\ put => Witnessed(Now(a), i.shown)
  BY <1>2
<1>4. allowed'[Now(a)] = [input |-> i, on |-> on, put |-> put, denied |-> FALSE, ran |-> tool[a]]
  <2> DEFINE r == allowed[Now(a)]
  <2>1. allowed'[Now(a)] = [r EXCEPT !.ran = tool[a]]
    BY <1>1
  <2>2. r = [input |-> i, on |-> on, put |-> put, denied |-> FALSE, ran |-> ran]
    BY <1>3
  <2> HIDE DEF r
  <2> QED
    BY ONLY <2>1, <2>2, RanNoted, Zenon
<1>5. \A c \in Calls : c = Now(a) => RightlyRun(c)'
  BY <1>3, <1>4 DEF RightlyRun, LetThrough, Witnessed
<1>6. DOMAIN allowed' = Calls /\ \A c \in Calls \ {Now(a)} : allowed'[c] = allowed[c]
  BY <1>1
<1>7. CASE \E result : Conclude(a, result)
  <2>1. /\ at' = [at EXCEPT ![a] = "idle"] /\ nth' = [nth EXCEPT ![a] = nth[a] + 1]
        /\ approved' = [approved EXCEPT ![a] = None]
    BY <1>7, Zenon DEF Conclude
  <2>2. nth[a] + 1 \in Nat /\ "idle" \in Steps
    BY <1>1 DEF Steps
  <2>3. /\ at' \in [Agents -> Steps] /\ nth' \in [Agents -> Nat] /\ DOMAIN approved' = Agents
        /\ at'[a] = "idle" /\ approved'[a] = None
        /\ \A b \in Agents \ {a} : at'[b] = at[b] /\ nth'[b] = nth[b] /\ approved'[b] = approved[b]
    BY <1>1, <2>1, <2>2
  <2>4. OwnMove(a) /\ HeldRight(a)'
    BY <1>1, <1>6, <2>3 DEF OwnMove, HeldRight, Decisive
  <2> QED
    BY <1>5, <2>4, OwnMoveKeeps
<1>8. CASE Goto(a, "running")
  <2>1. /\ at' = [at EXCEPT ![a] = "running"] /\ nth' = nth /\ approved' = approved
    BY <1>8 DEF Goto
  <2>2. OwnMove(a)
    BY <1>1, <1>6, <2>1 DEF OwnMove, Steps
  <2>3. at'[a] \notin Decisive
    BY <1>1, <2>1 DEF Decisive
  <2>4. HeldRight(a)'
    BY <1>1, <2>1, <2>3, AnswerStands DEF HeldRight
  <2> QED
    BY <1>5, <2>2, <2>4, OwnMoveKeeps
<1> QED
  BY <1>7, <1>8

LEMMA LaunchKeeps ==
  ASSUME GateInv, NEW a \in Agents, LaunchFails(a) \/ Search(a) \/ Spawn(a) \/ Send(a)
  PROVE  GateInv'
<1>1. at[a] = "launching" /\ world' = world /\ input' = input /\ agreed' = agreed
  BY DEF LaunchFails, Search, Spawn, Send, AsItIs
<1>2. CASE LaunchFails(a)
  BY <1>1, <1>2, ConcludeKeeps DEF LaunchFails
<1>3. CASE Search(a)
  BY <1>1, <1>3, RunKeeps DEF Search
<1>4. CASE Spawn(a) \/ Send(a)
  <2>1. Launched(a)
    BY <1>4 DEF Spawn, Send
  <2> QED
    BY <1>1, <2>1, RunKeeps DEF Launched
<1> QED
  BY <1>2, <1>3, <1>4

LEMMA RestKeeps ==
  ASSUME GateInv, UNCHANGED <<world, at, nth, input, approved, agreed, allowed>>
  PROVE  GateInv'
<1>1. Agents' = Agents /\ Calls' = Calls
  BY SameCalls
<1>2. \A a \in Agents : Now(a)' = Now(a)
  BY DEF Now
<1>3. GateShape'
  BY <1>1, <1>2 DEF GateInv, GateShape
<1>4. ASSUME NEW a \in Agents
      PROVE  HeldRight(a)'
  <2>1. HeldRight(a)
    BY DEF GateInv
  <2>2. at[a] \in Decisive => LetThrough(Now(a))'
    BY <1>2, <2>1, NowStaysThrough DEF HeldRight
  <2> QED
    BY <2>1, <2>2, AnswerStands DEF HeldRight
<1>5. \A d \in Calls : RightlyRun(d)'
  BY StaysThrough DEF GateInv, RightlyRun
<1> QED
  BY <1>1, <1>3, <1>4, <1>5 DEF GateInv

\* The end of a tool's run concludes its call, or reaches nobody.
LEMMA DeliverKeeps ==
  ASSUME GateInv, NEW c \in Calls,
         (\E how : Deliver(c, how)) \/ UNCHANGED <<at, nth, approved>>,
         world' = world, input' = input, agreed' = agreed, allowed' = allowed
  PROVE  GateInv'
<1>1. c[1] \in Agents
  BY DEF Calls
<1>2. ASSUME NEW how, Deliver(c, how)
      PROVE  GateInv'
  BY <1>1, <1>2, ConcludeKeeps, RestKeeps DEF Deliver
<1> QED
  BY <1>2, RestKeeps

LEMMA ProcessKeeps ==
  ASSUME GateInv, NEW c \in Calls, ProcessStep(c) \/ RequestStep(c)
  PROVE  GateInv'
<1>1. world' = world /\ input' = input /\ agreed' = agreed /\ allowed' = allowed
  BY DEF ProcessStep, SpawnFails, ChildExits, PipesClose, GraceEnds, ShellTimesOut, RequestStep,
         Serve, Replies, StreamEnds, RequestFails, JobStep, RpcStep, AsItIs
<1>2. (\E how : Deliver(c, how)) \/ UNCHANGED <<at, nth, approved>>
  <2>1. CASE ProcessStep(c)
    BY <2>1 DEF ProcessStep, SpawnFails, ChildExits, PipesClose, GraceEnds, ShellTimesOut, Finalize
  <2>2. CASE RequestStep(c)
    BY <2>2 DEF RequestStep, Serve, Replies, StreamEnds, RequestFails, Over
  <2> QED
    BY <2>1, <2>2
<1> QED
  BY <1>1, <1>2, DeliverKeeps

\* A step that neither agrees nor lets through, and only ends calls that run.
LEMMA InterruptKeeps ==
  ASSUME GateInv, Interrupt
  PROVE  GateInv'
<1>1. /\ world' = world /\ input' = input /\ agreed' = agreed /\ allowed' = allowed
      /\ at' = [a \in Agents |-> IF at[a] = "running" THEN "idle" ELSE at[a]]
      /\ nth' = [a \in Agents |-> IF at[a] = "running" THEN nth[a] + 1 ELSE nth[a]]
      /\ approved' = [a \in Agents |-> IF at[a] = "running" THEN None ELSE approved[a]]
  BY DEF Interrupt
<1>2. Agents' = Agents /\ Calls' = Calls
  BY <1>1, SameCalls
<1>3. /\ at \in [Agents -> Steps] /\ nth \in [Agents -> Nat]
      /\ DOMAIN input = Agents /\ DOMAIN allowed = Calls
      /\ \A a \in Agents : at[a] # "idle" => Now(a) \in Calls
  BY DEF GateInv, GateShape
<1>4. at' \in [Agents -> Steps] /\ nth' \in [Agents -> Nat] /\ DOMAIN approved' = Agents
  BY <1>1, <1>3 DEF Steps
<1>5. ASSUME NEW a \in Agents
      PROVE  (at'[a] # "idle" => Now(a)' \in Calls) /\ HeldRight(a)'
  <2>1. CASE at[a] = "running"
    <3>1. at'[a] = "idle" /\ approved'[a] = None
      BY <1>1, <2>1
    <3> QED
      BY <3>1 DEF HeldRight, Decisive
  <2>2. CASE at[a] # "running"
    <3>1. at'[a] = at[a] /\ nth'[a] = nth[a] /\ approved'[a] = approved[a]
      BY <1>1, <2>2
    <3>2. Now(a)' = Now(a) /\ HeldRight(a)
      BY <3>1 DEF Now, GateInv
    <3>3. at[a] \in Decisive => LetThrough(Now(a))'
      BY <1>1, <3>2, NowStaysThrough DEF HeldRight
    <3>4. approved[a] # None =>
            /\ approved[a].shown = input[a].shown
            /\ approved[a].decision # "deny" => Witnessed(Now(a), input[a].shown)'
      BY <1>1, <3>2 DEF HeldRight, Witnessed
    <3> QED
      BY <1>1, <1>3, <3>1, <3>2, <3>3, <3>4 DEF HeldRight
  <2> QED
    BY <2>1, <2>2
<1>6. GateShape'
  BY <1>1, <1>2, <1>3, <1>4, <1>5 DEF GateShape
<1>7. \A d \in Calls : RightlyRun(d)'
  BY <1>1, StaysThrough DEF GateInv, RightlyRun
<1> QED
  BY <1>2, <1>5, <1>6, <1>7 DEF GateInv

LEMMA GateNextKeeps ==
  ASSUME GateInv, [Next]_vars
  PROVE  GateInv'
<1>1. ASSUME NEW a \in Agents, DecisionStep(a)
      PROVE  GateInv'
  BY <1>1, TakeCallKeeps, DecideKeeps, JudgeKeeps, PersonKeeps, ApproveKeeps, StartToolKeeps,
     LaunchKeeps DEF DecisionStep
<1>2. ASSUME NEW a \in Agents, Resolved(a, "deciding") \/ Resolved(a, "launching")
      PROVE  GateInv'
  BY <1>2, ResolvedKeepsGate
<1>3. ASSUME NEW c \in Calls, ProcessStep(c) \/ RequestStep(c)
      PROVE  GateInv'
  BY <1>3, ProcessKeeps
<1>4. CASE Reconfigure \/ Tighten
  BY <1>4, RestKeeps DEF Reconfigure, Tighten
<1>5. CASE UNCHANGED gateVars \/ UNCHANGED vars
  BY <1>5, RestKeeps DEF gateVars, vars
<1> QED
  BY <1>1, <1>2, <1>3, <1>4, <1>5, InterruptKeeps, NextIs

\* Whatever the hooks rewrite, the rules become and the judge answers between a park and the
\* person's answer, a call that was put to somebody runs only if somebody allowed that call on an
\* input that showed the same, and never one the policy denied (executeTool, resolveDecided).
THEOREM RunsWhatWasShown == Spec => []RanAsShown
<1>1. Init => GateInv
  BY DEF Init, GateInv, GateShape, HeldRight, RightlyRun, Decisive, Steps
<1>2. GateInv /\ [Next]_vars => GateInv'
  BY GateNextKeeps
<1>3. GateInv => RanAsShown
  <2> SUFFICES ASSUME GateInv, NEW c \in Calls, allowed[c] # None
               PROVE  /\ allowed[c].put =>
                           \E g \in agreed : g[1] = c /\ g[2].shown = allowed[c].input.shown
                      /\ ~allowed[c].denied
    BY DEF RanAsShown, Started
  <2>1. LetThrough(c)
    BY DEF GateInv, RightlyRun
  <2> QED
    BY <2>1 DEF LetThrough, Witnessed
<1> QED
  BY <1>1, <1>2, <1>3, PTL DEF Spec

-----------------------------------------------------------------------------
(* The processes of the shell.                                             *)

Job ==
  [child : {"none", "running", "dying", "exited", "closed", "failed"},
   held : {FALSE} \cup UNION {w.leaves : w \in Worlds},
   listens : BOOLEAN, given : {0, 1}, task : BOOLEAN, told : BOOLEAN, lease : BOOLEAN]

Exchange == [step : {"none", "sent", "served", "over"}, tries : Nat, effects : Nat]

\* A process that is alive and has given its result is a task's; one that ended has given it.
Sound(j) ==
  /\ j.task => j.given = 1
  /\ j.child \in {"running", "dying"} /\ j.given = 1 => j.task
  /\ j.child \in {"closed", "failed"} => j.given = 1
  /\ j.task /\ j.child = "closed" => j.told
  /\ j.lease => j.child \in {"running", "dying"}

UsesShell(c) == Call(c).tool = "Bash" /\ world.shell = "local"

Running(c) == at[c[1]] = "running" /\ Now(c[1]) = c

\* A process that has not given its result is of the call that runs, or of one interrupted; and a
\* call never has both a process and a request.
OfItsCall(c) ==
  /\ jobs[c].child = "running" /\ jobs[c].given = 0 => Running(c) \/ aborted
  /\ jobs[c].child # "none" => UsesShell(c)
  /\ rpc[c].step # "none" => ~UsesShell(c)

\* The calls of a that have not been run yet.
Ahead(a, k) == k \in Nat /\ <<a, nth[a] + k>> \in Calls /\ (k = 0 => at[a] # "running")

Fresh(a) == \A k : Ahead(a, k) => jobs[<<a, nth[a] + k>>] = NoJob

JobShape ==
  /\ world \in Worlds /\ jobs \in [Calls -> Job] /\ aborted \in BOOLEAN
  /\ rpc \in [Calls -> Exchange]

JobInv ==
  /\ JobShape
  /\ \A c \in Calls : Sound(jobs[c]) /\ OfItsCall(c)
  /\ \A a \in Agents : Fresh(a)

\* A call that goes on to its next step, or is answered for.
Advances(a) ==
  \/ nth'[a] = nth[a] /\ (at'[a] # "running" => at[a] # "running")
  \/ nth'[a] = nth[a] + 1

LEMMA StaysFresh ==
  ASSUME GateShape, GateShape', JobInv, world' = world, NEW a \in Agents, Advances(a),
         \A k \in Nat : Ahead(a, k)' => jobs'[<<a, nth'[a] + k>>] = jobs[<<a, nth'[a] + k>>]
  PROVE  Fresh(a)'
<1> SUFFICES ASSUME NEW k, Ahead(a, k)'
             PROVE  jobs'[<<a, nth'[a] + k>>] = NoJob
  BY DEF Fresh
<1>1. k \in Nat /\ <<a, nth'[a] + k>> \in Calls /\ (k = 0 => at'[a] # "running")
  BY SameCalls DEF Ahead
<1>2. nth[a] \in Nat
  BY DEF GateShape
<1>3. \E i : Ahead(a, i) /\ nth[a] + i = nth'[a] + k
  <2>1. CASE nth'[a] = nth[a] /\ (at'[a] # "running" => at[a] # "running")
    BY <1>1, <2>1 DEF Ahead
  <2>2. CASE nth'[a] = nth[a] + 1
    <3>1. k + 1 \in Nat /\ k + 1 # 0 /\ nth[a] + (k + 1) = nth'[a] + k
      BY <1>1, <1>2, <2>2
    <3> QED
      BY <1>1, <3>1 DEF Ahead
  <2> QED
    BY <2>1, <2>2 DEF Advances
<1>4. jobs[<<a, nth'[a] + k>>] = NoJob
  BY <1>3 DEF JobInv, Fresh
<1> QED
  BY <1>1, <1>4

\* A step that changes the process or the request of one call at most.
LEMMA OneJobChanges ==
  ASSUME GateShape, GateShape', JobInv, world' = world, JobShape', NEW c \in Calls,
         \A d \in Calls \ {c} : jobs'[d] = jobs[d] /\ rpc'[d] = rpc[d],
         aborted' = aborted,
         Sound(jobs[c])', OfItsCall(c)',
         \A d \in Calls \ {c} : Running(d) => Running(d)',
         \A a \in Agents : Advances(a),
         \A a \in Agents : \A k \in Nat : Ahead(a, k)' =>
            <<a, nth'[a] + k>> # c \/ jobs'[c] = jobs[c]
  PROVE  JobInv'
<1>1. Agents' = Agents /\ Calls' = Calls
  BY SameCalls
<1>2. ASSUME NEW d \in Calls \ {c}
      PROVE  Sound(jobs[d])' /\ OfItsCall(d)'
  <2>1. Sound(jobs[d]) /\ OfItsCall(d) /\ jobs'[d] = jobs[d] /\ rpc'[d] = rpc[d]
    BY <1>2 DEF JobInv
  <2>2. UsesShell(d)' <=> UsesShell(d)
    BY DEF UsesShell, Call
  <2>3. Sound(jobs[d])'
    BY <2>1 DEF Sound
  <2> QED
    BY <1>2, <2>1, <2>2, <2>3 DEF OfItsCall
<1>3. ASSUME NEW a \in Agents
      PROVE  Fresh(a)'
  <2>1. \A k \in Nat : Ahead(a, k)' => <<a, nth'[a] + k>> \in Calls
    BY <1>1 DEF Ahead
  <2>2. \A k \in Nat : Ahead(a, k)' => jobs'[<<a, nth'[a] + k>>] = jobs[<<a, nth'[a] + k>>]
    BY <2>1
  <2> QED
    BY <2>2, StaysFresh
<1> QED
  BY <1>1, <1>2, <1>3 DEF JobInv

LEMMA NoJobChanges ==
  ASSUME GateShape, GateShape', JobInv, UNCHANGED <<world, jobs, rpc, aborted>>,
         \A d \in Calls : Running(d) => Running(d)',
         \A a \in Agents : Advances(a)
  PROVE  JobInv'
<1>1. Agents' = Agents /\ Calls' = Calls
  BY SameCalls
<1>2. JobShape'
  BY <1>1 DEF JobInv, JobShape
<1>3. ASSUME NEW d \in Calls
      PROVE  Sound(jobs[d])' /\ OfItsCall(d)'
  <2>1. Sound(jobs[d]) /\ OfItsCall(d)
    BY DEF JobInv
  <2>2. UsesShell(d)' <=> UsesShell(d)
    BY DEF UsesShell, Call
  <2>3. Sound(jobs[d])'
    BY <2>1 DEF Sound
  <2> QED
    BY <2>1, <2>2, <2>3 DEF OfItsCall
<1>4. \A a \in Agents : Fresh(a)'
  BY StaysFresh
<1> QED
  BY <1>1, <1>2, <1>3, <1>4 DEF JobInv

\* A call that is not running moves, or is answered for.
LEMMA MovesOn ==
  ASSUME GateShape, NEW a \in Agents, at[a] # "running", NEW step, at' = [at EXCEPT ![a] = step],
         nth' = nth \/ nth' = [nth EXCEPT ![a] = nth[a] + 1]
  PROVE  /\ \A d \in Calls : Running(d) => Running(d)'
         /\ \A b \in Agents : Advances(b)
<1>1. \A b \in Agents \ {a} : at'[b] = at[b] /\ nth'[b] = nth[b]
  BY DEF GateShape
<1>2. nth'[a] = nth[a] \/ nth'[a] = nth[a] + 1
  BY DEF GateShape
<1>3. \A d \in Calls : d[1] \in Agents
  BY DEF Calls
<1> QED
  BY <1>1, <1>2, <1>3 DEF Running, Advances, Now

LEMMA ConcludesOrGoes ==
  ASSUME NEW a, \/ \E result : Conclude(a, result)
                \/ \E step : Goto(a, step)
                \/ Resolve(a, "deciding") /\ nth' = nth
                \/ Resolve(a, "launching") /\ nth' = nth
  PROVE  /\ \E step : at' = [at EXCEPT ![a] = step]
         /\ nth' = nth \/ nth' = [nth EXCEPT ![a] = nth[a] + 1]
<1>1. ASSUME NEW result, Conclude(a, result)
      PROVE  at' = [at EXCEPT ![a] = "idle"] /\ nth' = [nth EXCEPT ![a] = nth[a] + 1]
  BY <1>1, Zenon DEF Conclude
<1>2. ASSUME NEW step, Goto(a, step)
      PROVE  at' = [at EXCEPT ![a] = step] /\ nth' = nth
  BY <1>2 DEF Goto
<1>3. ASSUME NEW next, Resolve(a, next)
      PROVE  \E step : at' = [at EXCEPT ![a] = step]
  BY <1>3 DEF Resolve
<1> QED
  BY <1>1, <1>2, <1>3

LEMMA DecisionMoves ==
  ASSUME NEW a, DecisionStep(a) \/ Resolved(a, "deciding") \/ Resolved(a, "launching")
  PROVE  /\ at[a] # "running"
         /\ \E step : at' = [at EXCEPT ![a] = step]
         /\ nth' = nth \/ nth' = [nth EXCEPT ![a] = nth[a] + 1]
         /\ world' = world /\ aborted' = aborted
         /\ ~(Spawn(a) \/ Send(a)) => jobs' = jobs /\ rpc' = rpc
<1>1. ASSUME NEW held, PreToolUse(a, held)
      PROVE  (\E result : Conclude(a, result)) \/ (Resolve(a, "deciding") /\ nth' = nth)
  BY <1>1 DEF PreToolUse, Block
<1>2. Headless(a) \/ Refuse(a) \/ Allow(a) =>
        (\E result : Conclude(a, result)) \/ (\E step : Goto(a, step))
  BY DEF Headless, Refuse, Allow
<1>3. Ask(a) \/ (\E behavior : Decided(a, behavior)) =>
        (\E result : Conclude(a, result)) \/ (\E step : Goto(a, step))
  BY <1>2 DEF Ask, Decided
<1>4. CASE TakeCall(a) \/ Approve(a)
  BY <1>1, <1>4, ConcludesOrGoes DEF TakeCall, Approve, PreToolUse
<1>5. CASE Decide(a) \/ JudgeReplies(a) \/ PersonAnswers(a)
  <2>1. (\E result : Conclude(a, result)) \/ (\E step : Goto(a, step))
    BY <1>2, <1>3, <1>5 DEF Decide, JudgeReplies, PersonAnswers
  <2> QED
    BY <1>5, <2>1, ConcludesOrGoes DEF Decide, JudgeReplies, PersonAnswers, NoneAsked
<1>6. CASE StartTool(a)
  BY <1>6, ConcludesOrGoes DEF StartTool
<1>7. CASE Resolved(a, "deciding") \/ Resolved(a, "launching")
  BY <1>7, ConcludesOrGoes DEF Resolved, Waits
<1>8. CASE LaunchFails(a) \/ Search(a) \/ Spawn(a) \/ Send(a)
  BY <1>8, ConcludesOrGoes DEF LaunchFails, Search, Spawn, Send, Launched, AsItIs
<1> QED
  BY <1>4, <1>5, <1>6, <1>7, <1>8 DEF DecisionStep

LEMMA DeliverMoves ==
  ASSUME GateShape, NEW c \in Calls, (\E how : Deliver(c, how)) \/ UNCHANGED <<at, nth>>
  PROVE  /\ \A d \in Calls \ {c} : Running(d) => Running(d)'
         /\ \A b \in Agents : Advances(b)
<1>1. CASE UNCHANGED <<at, nth>>
  BY <1>1 DEF Running, Advances, Now
<1>2. CASE at[c[1]] = "running" /\ Now(c[1]) = c /\ \E result : Conclude(c[1], result)
  <2>1. c[1] \in Agents /\ \A d \in Calls : d[1] \in Agents
    BY DEF Calls
  <2>2. at' = [at EXCEPT ![c[1]] = "idle"] /\ nth' = [nth EXCEPT ![c[1]] = nth[c[1]] + 1]
    BY <1>2, Zenon DEF Conclude
  <2>3. \A b \in Agents \ {c[1]} : at'[b] = at[b] /\ nth'[b] = nth[b]
    BY <2>2 DEF GateShape
  <2>4. nth'[c[1]] = nth[c[1]] + 1
    BY <2>1, <2>2 DEF GateShape
  <2>5. ASSUME NEW d \in Calls \ {c}, Running(d)
        PROVE  Running(d)'
    <3>1. d[1] # c[1]
      BY <1>2, <2>5 DEF Running
    <3> QED
      BY <2>1, <2>3, <2>5, <3>1 DEF Running, Now
  <2> QED
    BY <2>3, <2>4, <2>5 DEF Advances
<1> QED
  BY <1>1, <1>2 DEF Deliver

LEMMA SpawnKeepsJobs ==
  ASSUME GateShape, GateShape', JobInv, NEW a \in Agents, Spawn(a)
  PROVE  JobInv'
<1>1. /\ at[a] = "launching" /\ world' = world /\ aborted' = aborted /\ rpc' = rpc
      /\ Call(Now(a)).tool = "Bash" /\ world.shell = "local"
      /\ jobs' = [jobs EXCEPT ![Now(a)] = [@ EXCEPT !.child = "running", !.listens = ~aborted, !.lease = TRUE]]
      /\ Launched(a)
  BY DEF Spawn, AsItIs
<1>2. Now(a) \in Calls /\ nth[a] \in Nat
  BY <1>1 DEF GateShape
<1>3. jobs[Now(a)] = NoJob
  <2>1. <<a, nth[a] + 0>> = Now(a)
    BY <1>2 DEF Now
  <2>2. Ahead(a, 0)
    BY <1>1, <1>2, <2>1 DEF Ahead
  <2> QED
    BY <2>1, <2>2 DEF JobInv, Fresh
<1> DEFINE started == [NoJob EXCEPT !.child = "running", !.listens = ~aborted, !.lease = TRUE]
<1>4. /\ started \in Job /\ Sound(started)
      /\ started.child = "running" /\ started.given = 0
  <2>1. NoJob \in Job /\ NoJob.given = 0
    BY DEF Job, NoJob
  <2>2. (~aborted) \in BOOLEAN
    BY DEF JobInv, JobShape
  <2>3. started \in Job /\ started.child = "running" /\ started.given = 0
    BY <2>1, <2>2 DEF Job
  <2>4. started.task = NoJob.task /\ ~NoJob.task
    BY DEF NoJob
  <2> QED
    BY <2>3, <2>4 DEF Sound
<1>5. jobs' = [jobs EXCEPT ![Now(a)] = started]
  BY <1>1, <1>3
<1> HIDE DEF started
<1>6. Calls' = Calls /\ Agents' = Agents
  BY <1>1, SameCalls
<1>7. JobShape'
  BY <1>1, <1>2, <1>4, <1>5, <1>6 DEF JobInv, JobShape
<1>8. jobs'[Now(a)] = started /\ \A d \in Calls \ {Now(a)} : jobs'[d] = jobs[d]
  BY <1>2, <1>5 DEF JobInv, JobShape
<1>9. (\A d \in Calls : Running(d) => Running(d)') /\ (\A b \in Agents : Advances(b))
  BY <1>1, DecisionMoves, MovesOn DEF DecisionStep
<1>10. \/ aborted' /\ nth'[a] = nth[a] + 1
       \/ at'[a] = "running" /\ nth'[a] = nth[a]
  <2>1. CASE aborted
    <3>1. nth' = [nth EXCEPT ![a] = nth[a] + 1]
      BY <1>1, <2>1, Zenon DEF Launched, Conclude
    <3> QED
      BY <1>1, <2>1, <3>1 DEF GateShape
  <2>2. CASE ~aborted
    <3>1. at' = [at EXCEPT ![a] = "running"] /\ nth' = nth
      BY <1>1, <2>2 DEF Launched, Goto
    <3> QED
      BY <3>1 DEF GateShape
  <2> QED
    BY <2>1, <2>2
<1>11. \A c \in Calls : c = Now(a) => Sound(jobs[c])' /\ OfItsCall(c)'
  <2> SUFFICES ASSUME NEW c \in Calls, c = Now(a)
               PROVE  Sound(jobs[c])' /\ OfItsCall(c)'
    OBVIOUS
  <2>1. jobs'[c] = started /\ c[1] = a
    BY <1>8 DEF Now
  <2>2. Sound(jobs[c])'
    BY <1>4, <2>1 DEF Sound
  <2>3. aborted' \/ Running(c)'
    BY <1>10, <2>1 DEF Running, Now
  <2>4. UsesShell(c)' <=> UsesShell(c)
    BY <1>1 DEF UsesShell, Call
  <2>5. UsesShell(c)
    BY <1>1 DEF UsesShell
  <2>6. rpc[c].step # "none" => ~UsesShell(c)
    BY DEF JobInv, OfItsCall
  <2> QED
    BY <1>1, <2>2, <2>3, <2>4, <2>5, <2>6 DEF OfItsCall
<1>12. \A b \in Agents : \A k \in Nat : Ahead(b, k)' => <<b, nth'[b] + k>> # Now(a)
  <2> SUFFICES ASSUME NEW k \in Nat, Ahead(a, k)', nth'[a] + k = nth[a]
               PROVE  FALSE
    BY DEF Now
  <2> QED
    BY <1>2, <1>10 DEF Ahead
<1> QED
  BY <1>1, <1>2, <1>7, <1>8, <1>9, <1>11, <1>12, OneJobChanges

LEMMA SendKeepsJobs ==
  ASSUME GateShape, GateShape', JobInv, NEW a \in Agents, Send(a)
  PROVE  JobInv'
<1>1. /\ at[a] = "launching" /\ world' = world /\ aborted' = aborted /\ jobs' = jobs
      /\ rpc' = [rpc EXCEPT ![Now(a)] = [@ EXCEPT !.step = "sent", !.tries = 1]]
  BY DEF Send, AsItIs
<1>2. Now(a) \in Calls /\ ~UsesShell(Now(a))
  BY <1>1 DEF Send, Remote, UsesShell, GateShape
<1>3. Calls' = Calls /\ Agents' = Agents
  BY <1>1, SameCalls
<1>4. /\ rpc' \in [Calls -> Exchange]
      /\ \A d \in Calls \ {Now(a)} : rpc'[d] = rpc[d]
  <2>1. [rpc[Now(a)] EXCEPT !.step = "sent", !.tries = 1] \in Exchange
    BY <1>2 DEF JobInv, JobShape, Exchange
  <2> QED
    BY <1>1, <1>2, <2>1 DEF JobInv, JobShape
<1>5. JobShape'
  BY <1>1, <1>3, <1>4 DEF JobInv, JobShape
<1>6. (\A d \in Calls : Running(d) => Running(d)') /\ (\A b \in Agents : Advances(b))
  BY <1>1, DecisionMoves, MovesOn DEF DecisionStep
<1>7. \A c \in Calls : c = Now(a) => Sound(jobs[c])' /\ OfItsCall(c)'
  <2> SUFFICES ASSUME NEW c \in Calls, c = Now(a)
               PROVE  Sound(jobs[c])' /\ OfItsCall(c)'
    OBVIOUS
  <2>1. Sound(jobs[c]) /\ OfItsCall(c)
    BY DEF JobInv
  <2>2. Sound(jobs[c])'
    BY <1>1, <2>1 DEF Sound
  <2>3. UsesShell(c)' <=> UsesShell(c)
    BY <1>1 DEF UsesShell, Call
  <2> QED
    BY <1>1, <1>2, <1>6, <2>1, <2>2, <2>3 DEF OfItsCall
<1> QED
  BY <1>1, <1>2, <1>4, <1>5, <1>6, <1>7, OneJobChanges

LEMMA DecisionKeepsJobs ==
  ASSUME GateShape, GateShape', JobInv, NEW a \in Agents,
         DecisionStep(a) \/ Resolved(a, "deciding") \/ Resolved(a, "launching")
  PROVE  JobInv'
<1>1. CASE Spawn(a) \/ Send(a)
  BY <1>1, SpawnKeepsJobs, SendKeepsJobs
<1>2. CASE ~(Spawn(a) \/ Send(a))
  <2>1. UNCHANGED <<world, jobs, rpc, aborted>>
    BY <1>2, DecisionMoves
  <2>2. (\A d \in Calls : Running(d) => Running(d)') /\ (\A b \in Agents : Advances(b))
    BY DecisionMoves, MovesOn
  <2> QED
    BY <2>1, <2>2, NoJobChanges
<1> QED
  BY <1>1, <1>2

\* A step of a process that was started: what it becomes is sound, and no longer waits for a result
\* as a process that runs does.
LEMMA JobMoves ==
  ASSUME GateShape, GateShape', JobInv, NEW c \in Calls, NEW j \in Job,
         jobs' = [jobs EXCEPT ![c] = j], UNCHANGED <<world, rpc, aborted>>,
         jobs[c].child # "none", Sound(j), j.child = "running" => j.given = 1,
         (\E how : Deliver(c, how)) \/ UNCHANGED <<at, nth>>
  PROVE  JobInv'
<1>1. Calls' = Calls /\ Agents' = Agents
  BY SameCalls
<1>2. JobShape'
  BY <1>1 DEF JobInv, JobShape
<1>3. jobs'[c] = j /\ \A d \in Calls \ {c} : jobs'[d] = jobs[d]
  BY DEF JobInv, JobShape
<1>4. /\ \A d \in Calls \ {c} : Running(d) => Running(d)'
      /\ \A b \in Agents : Advances(b)
  BY DeliverMoves
<1>5. OfItsCall(c)'
  <2>1. UsesShell(c)' <=> UsesShell(c)
    BY DEF UsesShell, Call
  <2>2. OfItsCall(c)
    BY DEF JobInv
  <2>3. j.child = "running" => j.given # 0
    OBVIOUS
  <2> QED
    BY <1>3, <2>1, <2>2, <2>3 DEF OfItsCall
<1>6. Sound(jobs[c])'
  BY <1>3 DEF Sound
<1>7. ASSUME NEW a \in Agents, NEW k \in Nat, Ahead(a, k)', <<a, nth'[a] + k>> = c
      PROVE  FALSE
  <2>1. nth[a] \in Nat /\ <<a, nth'[a] + k>> \in Calls /\ (k = 0 => at'[a] # "running")
    BY <1>1, <1>7 DEF Ahead, GateShape
  <2>2. \E i : Ahead(a, i) /\ nth[a] + i = nth'[a] + k
    <3>1. CASE nth'[a] = nth[a] /\ (at'[a] # "running" => at[a] # "running")
      BY <2>1, <3>1 DEF Ahead
    <3>2. CASE nth'[a] = nth[a] + 1
      <4>1. k + 1 \in Nat /\ k + 1 # 0 /\ nth[a] + (k + 1) = nth'[a] + k
        BY <2>1, <3>2
      <4> QED
        BY <2>1, <4>1 DEF Ahead
    <3> QED
      BY <1>4, <3>1, <3>2 DEF Advances
  <2>3. jobs[c] = NoJob
    BY <1>7, <2>2 DEF JobInv, Fresh
  <2> QED
    BY <2>3 DEF NoJob
<1> QED
  BY <1>2, <1>3, <1>4, <1>5, <1>6, <1>7, OneJobChanges

LEMMA ProcessKeepsJobs ==
  ASSUME GateShape, GateShape', JobInv, NEW c \in Calls, ProcessStep(c)
  PROVE  JobInv'
<1>1. jobs[c] \in Job /\ Sound(jobs[c]) /\ world \in Worlds
  BY DEF JobInv, JobShape
<1>2. UNCHANGED <<world, rpc, aborted>>
  BY DEF ProcessStep, SpawnFails, ChildExits, PipesClose, GraceEnds, ShellTimesOut, JobStep, AsItIs
<1>3. CASE SpawnFails(c)
  <2> DEFINE j == Finalized(c, [jobs[c] EXCEPT !.child = "failed", !.lease = FALSE])
  <2>1. jobs' = [jobs EXCEPT ![c] = j] /\ jobs[c].child # "none"
    BY <1>3 DEF SpawnFails, Alive
  <2>2. (\E how : Deliver(c, how)) \/ UNCHANGED <<at, nth>>
    BY <1>3 DEF SpawnFails, Finalize
  <2>3. j \in Job /\ Sound(j) /\ (j.child = "running" => j.given = 1)
    BY <1>1, <1>3 DEF SpawnFails, Finalized, Job, Sound
  <2> HIDE DEF j
  <2> QED
    BY <1>2, <2>1, <2>2, <2>3, JobMoves
<1>4. CASE ChildExits(c)
  <2>1. PICK held \in world.leaves :
          jobs' = [jobs EXCEPT ![c] = [@ EXCEPT !.child = "exited", !.held = held, !.lease = FALSE]]
    BY <1>4 DEF ChildExits
  <2> DEFINE j == [jobs[c] EXCEPT !.child = "exited", !.held = held, !.lease = FALSE]
  <2>2. jobs' = [jobs EXCEPT ![c] = j]
    BY <2>1
  <2>3. UNCHANGED <<at, nth>> /\ jobs[c].child # "none"
    BY <1>4 DEF ChildExits, Alive
  <2>4. held \in {FALSE} \cup UNION {w.leaves : w \in Worlds}
    BY <1>1, <2>1
  <2>5. j \in Job /\ Sound(j) /\ (j.child = "running" => j.given = 1)
    BY <1>1, <2>4 DEF Job, Sound
  <2> HIDE DEF j
  <2> QED
    BY <1>2, <2>2, <2>3, <2>5, JobMoves
<1>5. CASE PipesClose(c)
  <2> DEFINE j == Finalized(c, [jobs[c] EXCEPT !.child = "closed", !.told = jobs[c].task])
  <2>1. jobs' = [jobs EXCEPT ![c] = j] /\ jobs[c].child = "exited"
    BY <1>5 DEF PipesClose
  <2>2. (\E how : Deliver(c, how)) \/ UNCHANGED <<at, nth>>
    BY <1>5 DEF PipesClose, Finalize
  <2>3. j \in Job /\ Sound(j) /\ (j.child = "running" => j.given = 1)
    BY <1>1, <2>1 DEF Finalized, Job, Sound
  <2> HIDE DEF j
  <2> QED
    BY <1>2, <2>1, <2>2, <2>3, JobMoves
<1>6. CASE GraceEnds(c)
  <2> DEFINE j == Finalized(c, jobs[c])
  <2>1. jobs' = [jobs EXCEPT ![c] = j] /\ jobs[c].child = "exited"
    BY <1>6 DEF GraceEnds
  <2>2. \E how : Deliver(c, how)
    BY <1>6 DEF GraceEnds
  <2>3. j \in Job /\ Sound(j) /\ (j.child = "running" => j.given = 1)
    BY <1>1, <2>1 DEF Finalized, Job, Sound
  <2> HIDE DEF j
  <2> QED
    BY <1>2, <2>1, <2>2, <2>3, JobMoves
<1>7. CASE ShellTimesOut(c)
  <2> DEFINE j == [jobs[c] EXCEPT !.given = 1, !.task = TRUE, !.listens = FALSE]
  <2>1. jobs' = [jobs EXCEPT ![c] = j] /\ jobs[c].child # "none" /\ jobs[c].given = 0
    BY <1>7 DEF ShellTimesOut
  <2>2. \E how : Deliver(c, how)
    BY <1>7 DEF ShellTimesOut
  <2>3. /\ j \in Job /\ j.given = 1 /\ j.task
        /\ j.child = jobs[c].child /\ j.lease = jobs[c].lease
    BY <1>1 DEF Job
  <2> HIDE DEF j
  <2>4. Sound(j)
    BY <1>1, <2>1, <2>3 DEF Sound
  <2> QED
    BY <1>2, <2>1, <2>2, <2>3, <2>4, JobMoves
<1> QED
  BY <1>3, <1>4, <1>5, <1>6, <1>7 DEF ProcessStep

LEMMA RequestKeepsJobs ==
  ASSUME GateShape, GateShape', JobInv, NEW c \in Calls, RequestStep(c)
  PROVE  JobInv'
<1>1. UNCHANGED <<world, jobs, aborted>>
  BY DEF RequestStep, Serve, Replies, StreamEnds, RequestFails, RpcStep, AsItIs
<1>2. rpc[c].step # "none" /\ ~UsesShell(c)
  <2>1. rpc[c].step # "none"
    BY DEF RequestStep, Serve, Replies, StreamEnds, RequestFails, UnderWay
  <2> QED
    BY <2>1 DEF JobInv, OfItsCall
<1>3. Calls' = Calls /\ Agents' = Agents
  BY <1>1, SameCalls
<1>4. rpc \in [Calls -> Exchange]
  BY DEF JobInv, JobShape
<1>5. rpc' \in [Calls -> Exchange] /\ \A d \in Calls \ {c} : rpc'[d] = rpc[d]
  <2> DEFINE r == rpc[c]
  <2>1. r \in Exchange
    BY <1>4
  <2> HIDE DEF r
  <2>2. CASE Serve(c)
    <3>1. rpc' = [rpc EXCEPT ![c] = [r EXCEPT !.step = "served", !.effects = r.effects + 1]]
      BY <2>2 DEF Serve, r
    <3>2. r.effects + 1 \in Nat
      BY <2>1 DEF Exchange
    <3>3. [r EXCEPT !.step = "served", !.effects = r.effects + 1] \in Exchange
      BY <2>1, <3>2 DEF Exchange
    <3> QED
      BY <1>4, <3>1, <3>3
  <2>3. CASE \E how : Over(c, how)
    <3>1. rpc' = [rpc EXCEPT ![c] = [r EXCEPT !.step = "over"]]
      BY <2>3 DEF Over, r
    <3>2. [r EXCEPT !.step = "over"] \in Exchange
      BY <2>1 DEF Exchange
    <3> QED
      BY <1>4, <3>1, <3>2
  <2>4. CASE rpc' = [rpc EXCEPT ![c] = [@ EXCEPT !.step = "sent", !.tries = rpc[c].tries + 1]]
    <3>1. rpc' = [rpc EXCEPT ![c] = [r EXCEPT !.step = "sent", !.tries = r.tries + 1]]
      BY <2>4 DEF r
    <3>2. r.tries + 1 \in Nat
      BY <2>1 DEF Exchange
    <3>3. [r EXCEPT !.step = "sent", !.tries = r.tries + 1] \in Exchange
      BY <2>1, <3>2 DEF Exchange
    <3> QED
      BY <1>4, <3>1, <3>3
  <2> QED
    BY <2>2, <2>3, <2>4 DEF RequestStep, Replies, StreamEnds, RequestFails
<1>6. JobShape'
  BY <1>1, <1>3, <1>5 DEF JobInv, JobShape
<1>7. (\E how : Deliver(c, how)) \/ UNCHANGED <<at, nth>>
  BY DEF RequestStep, Serve, Replies, StreamEnds, RequestFails, Over
<1>8. /\ \A d \in Calls \ {c} : Running(d) => Running(d)'
      /\ \A b \in Agents : Advances(b)
  BY <1>7, DeliverMoves
<1>9. Sound(jobs[c])' /\ OfItsCall(c)'
  <2>1. Sound(jobs[c]) /\ jobs[c].child = "none"
    BY <1>2 DEF JobInv, OfItsCall
  <2>2. UsesShell(c)' <=> UsesShell(c)
    BY <1>1 DEF UsesShell, Call
  <2>3. Sound(jobs[c])'
    BY <1>1, <2>1 DEF Sound
  <2> QED
    BY <1>1, <1>2, <2>1, <2>2, <2>3 DEF OfItsCall
<1> QED
  BY <1>1, <1>5, <1>6, <1>8, <1>9, OneJobChanges

LEMMA InterruptKeepsJobs ==
  ASSUME GateShape, GateShape', JobInv, Interrupt
  PROVE  JobInv'
<1>1. /\ world' = world /\ rpc' = rpc /\ aborted' = TRUE
      /\ jobs' = [c \in Calls |-> IF jobs[c].listens /\ jobs[c].child = "running"
                                  THEN [jobs[c] EXCEPT !.child = "dying"] ELSE jobs[c]]
      /\ at' = [a \in Agents |-> IF at[a] = "running" THEN "idle" ELSE at[a]]
      /\ nth' = [a \in Agents |-> IF at[a] = "running" THEN nth[a] + 1 ELSE nth[a]]
  BY DEF Interrupt
<1>2. Calls' = Calls /\ Agents' = Agents
  BY <1>1, SameCalls
<1>3. ASSUME NEW c \in Calls
      PROVE  /\ jobs'[c] \in Job /\ Sound(jobs[c])' /\ OfItsCall(c)'
             /\ jobs[c] = NoJob => jobs'[c] = jobs[c]
  <2>1. jobs[c] \in Job /\ Sound(jobs[c]) /\ OfItsCall(c)
    BY DEF JobInv, JobShape
  <2>2. UsesShell(c)' <=> UsesShell(c)
    BY <1>1 DEF UsesShell, Call
  <2>3. CASE jobs[c].listens /\ jobs[c].child = "running"
    <3> DEFINE j == [jobs[c] EXCEPT !.child = "dying"]
    <3>1. jobs'[c] = j
      BY <1>1, <2>3
    <3>2. j \in Job /\ Sound(j) /\ j.child = "dying"
      BY <2>1, <2>3 DEF Job, Sound
    <3>3. jobs[c] # NoJob
      BY <2>3 DEF NoJob
    <3> HIDE DEF j
    <3>4. Sound(jobs[c])'
      BY <3>1, <3>2 DEF Sound
    <3> QED
      BY <1>1, <2>1, <2>2, <2>3, <3>1, <3>2, <3>3, <3>4 DEF OfItsCall
  <2>4. CASE ~(jobs[c].listens /\ jobs[c].child = "running")
    <3>1. jobs'[c] = jobs[c]
      BY <1>1, <2>4
    <3>2. Sound(jobs[c])'
      BY <2>1, <3>1 DEF Sound
    <3> QED
      BY <1>1, <2>1, <2>2, <3>1, <3>2 DEF OfItsCall
  <2> QED
    BY <2>3, <2>4
<1>4. JobShape'
  BY <1>1, <1>2, <1>3 DEF JobInv, JobShape
<1>5. ASSUME NEW a \in Agents
      PROVE  Fresh(a)'
  <2> SUFFICES ASSUME NEW k, Ahead(a, k)'
               PROVE  jobs'[<<a, nth'[a] + k>>] = NoJob
    BY DEF Fresh
  <2>1. /\ k \in Nat /\ <<a, nth'[a] + k>> \in Calls /\ nth[a] \in Nat
        /\ at'[a] # "running"
    BY <1>1, <1>2 DEF Ahead, GateShape
  <2>2. \E i : Ahead(a, i) /\ nth[a] + i = nth'[a] + k
    <3>1. CASE at[a] # "running"
      BY <1>1, <2>1, <3>1 DEF Ahead
    <3>2. CASE at[a] = "running"
      <4>1. k + 1 \in Nat /\ k + 1 # 0 /\ nth[a] + (k + 1) = nth'[a] + k
        BY <1>1, <2>1, <3>2
      <4> QED
        BY <2>1, <4>1 DEF Ahead
    <3> QED
      BY <3>1, <3>2
  <2>3. jobs[<<a, nth'[a] + k>>] = NoJob
    BY <2>2 DEF JobInv, Fresh
  <2> QED
    BY <1>3, <2>1, <2>3
<1> QED
  BY <1>2, <1>3, <1>4, <1>5 DEF JobInv

CommandInv == GateInv /\ JobInv

LEMMA JobsNextKeeps ==
  ASSUME CommandInv, [Next]_vars
  PROVE  CommandInv'
<1>1. GateInv' /\ GateShape /\ GateShape' /\ JobInv
  BY GateNextKeeps DEF CommandInv, GateInv
<1>2. CASE \E a \in Agents : DecisionStep(a) \/ Resolved(a, "deciding") \/ Resolved(a, "launching")
  BY <1>1, <1>2, DecisionKeepsJobs DEF CommandInv
<1>3. CASE \E c \in Calls : ProcessStep(c) \/ RequestStep(c)
  BY <1>1, <1>3, ProcessKeepsJobs, RequestKeepsJobs DEF CommandInv
<1>4. CASE Interrupt
  BY <1>1, <1>4, InterruptKeepsJobs DEF CommandInv
<1>5. CASE Reconfigure \/ Tighten \/ UNCHANGED gateVars \/ UNCHANGED vars
  <2>1. UNCHANGED <<world, jobs, rpc, aborted, at, nth>>
    BY <1>5 DEF Reconfigure, Tighten, gateVars, vars
  <2>2. /\ \A d \in Calls : Running(d) => Running(d)'
        /\ \A a \in Agents : Advances(a)
    BY <2>1 DEF Running, Advances, Now
  <2> QED
    BY <1>1, <2>1, <2>2, NoJobChanges DEF CommandInv
<1> QED
  BY <1>2, <1>3, <1>4, <1>5, NextIs

\* Every process that runs is accounted for, a task that ends is told of, a lease is held only while
\* its process runs and each call is given one result, however its timers, the end of its pipes and
\* the interrupt fall (run() of tools/builtin/bash.ts).
THEOREM EveryCommandAccounted == Spec => []CommandAccounted
<1>1. Init => CommandInv
  <2> SUFFICES ASSUME Init
               PROVE  CommandInv
    OBVIOUS
  <2>1. GateInv
    BY DEF Init, GateInv, GateShape, HeldRight, RightlyRun, Decisive, Steps
  <2>2. NoJob \in Job /\ Sound(NoJob) /\ NoJob.child = "none"
    BY DEF NoJob, Job, Sound
  <2>3. NoRequest \in Exchange /\ NoRequest.step = "none"
    BY DEF NoRequest, Exchange
  <2>4. JobShape
    BY <2>2, <2>3 DEF Init, JobShape
  <2>5. \A c \in Calls : Sound(jobs[c]) /\ OfItsCall(c)
    BY <2>2, <2>3 DEF Init, OfItsCall
  <2>6. \A a \in Agents : Fresh(a)
    BY DEF Init, Fresh, Ahead
  <2> QED
    BY <2>1, <2>4, <2>5, <2>6 DEF CommandInv, JobInv
<1>2. CommandInv /\ [Next]_vars => CommandInv'
  BY JobsNextKeeps
<1>3. CommandInv => CommandAccounted
  <2> SUFFICES ASSUME CommandInv, NEW c \in Calls
               PROVE  /\ Alive(c) =>
                           \/ at[c[1]] = "running" /\ Now(c[1]) = c
                           \/ jobs[c].task
                           \/ jobs[c].child = "dying"
                           \/ aborted /\ jobs[c].given = 0
                      /\ jobs[c].task /\ jobs[c].child = "closed" => jobs[c].told
                      /\ jobs[c].lease => Alive(c)
                      /\ jobs[c].given <= 1
    BY DEF CommandAccounted
  <2>1. jobs[c] \in Job /\ Sound(jobs[c]) /\ OfItsCall(c)
    BY DEF CommandInv, JobInv, JobShape
  <2>2. jobs[c].given \in {0, 1}
    BY <2>1 DEF Job
  <2> QED
    BY <2>1, <2>2 DEF Sound, OfItsCall, Running, Alive
<1> QED
  BY <1>1, <1>2, <1>3, PTL DEF Spec

=============================================================================
