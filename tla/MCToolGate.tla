---------------------------- MODULE MCToolGate ----------------------------
EXTENDS ToolGate

In(shown, rest) == [shown |-> shown, rest |-> rest, parses |-> TRUE]
X1 == In("x", 1)
X2 == In("x", 2)
Y1 == In("y", 1)
Bad == [In("x", 3) EXCEPT !.parses = FALSE]

Bash(i) == [tool |-> "Bash", input |-> i]
Mcp(i) == [tool |-> "Mcp", input |-> i]
SearchTool == [tool |-> "Search", input |-> X1]

AllTools == {"Bash", "Mcp", "Search"}

Hook(kind, on, meets, says) ==
  [kind |-> kind, on |-> on, when |-> AllTools, meets |-> meets, says |-> says]

RewriteTo(i) == Hook("function", {"PreToolUse"}, "answers", [Nothing EXCEPT !.input = i])
Answering(decision) ==
  Hook("command", {"PermissionRequest"}, "answers", [Nothing EXCEPT !.decision = decision])
Vetoes == [Hook("command", {"PreToolUse"}, "vetoes", Nothing) EXCEPT !.when = {"Search"}]
Noting == Hook("http", {"PostToolUse"}, "prose", Nothing)
Broken == Hook("function", {"PreToolUse", "PermissionRequest", "PostToolUse"}, "fails", Nothing)
Judged(block) == Hook("prompt", {"PreToolUse"}, "answers", [Nothing EXCEPT !.block = block])

All(behavior) == [i \in {X1, X2, Y1, Bad} |-> behavior]

Requests == {"connectAll", "connect", "error", "death", "disconnect", "reconnectAll"}
Often(counts) == [r \in Requests |-> IF r \in DOMAIN counts THEN counts[r] ELSE 0]

NoMcp == [allowed |-> Often(<<>>), hints |-> {FALSE}, admitted |-> TRUE, hidden |-> FALSE,
          defers |-> FALSE, named |-> {Root}, filters |-> FALSE, loses |-> FALSE]

Plain ==
  [calls |-> (Root :> <<Bash(X1)>>), hooks |-> <<<<>>>>, policy |-> All("allow"), denies |-> {},
   parks |-> "off", person |-> FALSE, judge |-> FALSE, shell |-> "local", leaves |-> {FALSE},
   interrupts |-> FALSE, mcp |-> NoMcp]

\* Calls that park, with the hooks and the policy changed before the person's answer.
Parks ==
  {[Plain EXCEPT !.calls = (Root :> <<Bash(X1), Bash(Y1)>>), !.policy = All("edge"), !.parks = parks, !.judge = judge,
                 !.denies = {X2, Y1}, !.hooks = chains]
     : parks \in {"edges", "every_ask"}, judge \in BOOLEAN,
       chains \in {<<<<Broken>>, <<RewriteTo(Y1)>>>>, <<<<RewriteTo(X1)>>, <<RewriteTo(X2)>>>>,
                   <<<<Noting>>, <<Judged(TRUE)>>>>}}

\* A judge, a person and hooks that answer for the person.
Asked ==
  {[Plain EXCEPT !.calls = (Root :> <<Bash(X1)>>) @@ (Sub :> <<Bash(Bad)>>), !.policy = All("ask"), !.judge = judge,
                 !.person = person, !.parks = parks, !.hooks = chains, !.mcp.filters = TRUE, !.denies = {X1}]
     : judge \in BOOLEAN, person \in BOOLEAN, parks \in {"off", "every_ask"},
       chains \in {<<<<Broken, Noting>>, <<Answering("allow")>>>>,
                   <<<<Answering("deny"), Answering("allow")>>>>, <<<<Judged(FALSE)>>, <<RewriteTo(Bad)>>>>}}

\* The shell's processes, two at a time, with what they leave behind and the person's interrupt.
Shells ==
  {[Plain EXCEPT !.calls = (Root :> <<Bash(X1), Bash(Y1)>>) @@ (Sub :> <<Bash(X2)>>), !.leaves = BOOLEAN,
                 !.interrupts = TRUE, !.shell = shell, !.mcp.filters = TRUE]
     : shell \in {"local", "routed"}}

Mcps(counts) == [NoMcp EXCEPT !.allowed = Often(counts)]

\* A server that connects, fails, is slow, is closed and comes back, with calls waiting for it.
Servers ==
  {[Plain EXCEPT !.calls = (Root :> <<>>),
                 !.mcp = Mcps("connectAll" :> 1 @@ "reconnectAll" :> 1 @@ "connect" :> 1)],
   [Plain EXCEPT !.calls = (Root :> <<Mcp(X1)>>) @@ (Sub :> <<Mcp(X2)>>),
                 !.mcp = [Mcps("connectAll" :> 1 @@ "reconnectAll" :> 1) EXCEPT !.filters = TRUE]],
   [Plain EXCEPT !.calls = (Root :> <<>>) @@ (Sub :> <<Mcp(X2)>>),
                 !.mcp = [Mcps("connectAll" :> 1 @@ "death" :> 1 @@ "connect" :> 1) EXCEPT !.filters = TRUE]]}

\* A tool that is deferred until it is searched for, hidden or not admitted, and answers that are lost.
Deferring ==
  {[Plain EXCEPT !.calls = (Root :> <<SearchTool, Mcp(X1)>>), !.hooks = <<<<Vetoes>>, <<>>>>,
                 !.mcp = [Mcps("connectAll" :> 1 @@ "disconnect" :> 1) EXCEPT !.defers = TRUE, !.hints = BOOLEAN]],
   [Plain EXCEPT !.calls = (Root :> <<SearchTool, Mcp(X1)>>),
                 !.mcp = [Mcps("connectAll" :> 1 @@ "error" :> 1 @@ "death" :> 1) EXCEPT !.defers = TRUE, !.loses = TRUE],
                 !.interrupts = TRUE],
   [Plain EXCEPT !.calls = (Root :> <<Mcp(X1)>>), !.mcp = [Mcps("connectAll" :> 2) EXCEPT !.hidden = TRUE]],
   [Plain EXCEPT !.calls = (Root :> <<Mcp(X1)>>), !.mcp = [Mcps("connectAll" :> 2) EXCEPT !.admitted = FALSE]]}

GateWorlds == Parks \cup Asked \cup Shells \cup Servers \cup Deferring

===========================================================================
