----------------------------- MODULE McpManager -----------------------------
(***************************************************************************)
(* One MCP server in the manager of src/packages/harness/src/mcp, with the *)
(* tool registries and the ledger of deferred tools that its connections   *)
(* change.  Servers do not interact, so one is enough; it offers one tool. *)
(*                                                                         *)
(* A connection attempt is [step, late, open, into, hint]:                 *)
(*   step  "closing" (the earlier client is being closed), "connecting",   *)
(*         "listing" (its tools), "over";                                  *)
(*   late  connect() gave up on it; what it does goes on all the same;     *)
(*   open  its client is connected;                                        *)
(*   into  the registry its tool is registered in;                         *)
(*   hint  what the server says of its tool: it only reads.                *)
(* Clients, tools and promises are numbered by when they were made; a tool *)
(* is the number of the attempt whose client it calls.                     *)
(***************************************************************************)
EXTENDS Naturals, FiniteSets, Hooks

CONSTANTS
  Root, Sub     \* the session's registry, and a sub-agent's, made from it by filter()

VARIABLES
  world,        \* the case under study; of it this module reads world.mcp
  attempts,
  client,       \* clientByName: the attempt whose client it holds, or None
  listed,       \* toolsByServer: the attempt whose tool it holds, or None
  status,       \* statuses: "none", "ok" or "failed"
  settled,      \* every promise ever made for the server: has it been resolved?
  registry,     \* the registries there are, and the tool each has for the server
  deferred,     \* DeferredTools: is the tool deferred, and was it loaded?
  loaded,
  leaving,      \* disconnect() is closing the client, "for_good" or "to_return"; else "no"
  spent         \* how many times each request of the person's was made

mcpVars == <<attempts, client, listed, status, settled, registry, deferred, loaded, leaving, spent>>

Attempts == DOMAIN attempts

McpInit ==
  /\ attempts = <<>> /\ client = None /\ listed = None
  /\ status = "none" /\ settled = <<>>
  /\ registry = [r \in {Root} |-> None]
  /\ deferred = FALSE /\ loaded = FALSE
  /\ leaving = "no"
  /\ spent = [request \in DOMAIN world.mcp.allowed |-> 0]

\* Bound: how often the person asks for each thing is given by the world.
Request(request) ==
  /\ spent[request] < world.mcp.allowed[request]
  /\ spent' = [spent EXCEPT ![request] = @ + 1]

-----------------------------------------------------------------------------
(* Connecting.                                                             *)

MarkPending(promises) == Append(promises, FALSE)

\* Mutant: it resolves the promise there was when the first attempt began.
FirstSettled == IF settled = <<>> THEN <<>> ELSE [settled EXCEPT ![1] = TRUE]

\* connect() resolves the promise the server has by then.
Settled == IF settled = <<>> THEN <<>> ELSE [settled EXCEPT ![Len(settled)] = TRUE]

Shut(n) == IF n = None THEN attempts ELSE [attempts EXCEPT ![n].open = FALSE]

Begin(into) ==
  /\ \E hint \in world.mcp.hints :
       attempts' = Append(Shut(client),
                          [step |-> IF client = None THEN "connecting" ELSE "closing",
                           late |-> FALSE, open |-> FALSE, into |-> into, hint |-> hint])
  /\ client' = None

ConnectAll ==
  /\ Request("connectAll")
  /\ Begin(Root)
  /\ settled' = MarkPending(settled)
  /\ UNCHANGED <<listed, status, registry, deferred, loaded, leaving>>

\* A retry of one server, from the panel that lists them.
Connect ==
  /\ Request("connect")
  /\ Begin(Root)
  /\ settled' = IF settled = <<>> THEN MarkPending(settled) ELSE settled
  /\ UNCHANGED <<listed, status, registry, deferred, loaded, leaving>>

EarlierClosed(n) ==
  /\ attempts[n].step = "closing"
  /\ attempts' = [attempts EXCEPT ![n].step = "connecting"]
  /\ UNCHANGED <<client, listed, status, settled, registry, deferred, loaded, leaving, spent>>

\* The client is kept, whether or not connect() still waits for it.
Connected(n) ==
  /\ attempts[n].step = "connecting"
  /\ attempts' = [attempts EXCEPT ![n].step = "listing", ![n].open = TRUE]
  /\ client' = n
  /\ UNCHANGED <<listed, status, settled, registry, deferred, loaded, leaving, spent>>

Registered(tool) ==
  IF world.mcp.admitted THEN [registry EXCEPT ![Root] = tool] ELSE registry

\* Mutant: what the listing of an attempt given up on brings is registered all the same.
WantedAnyway(n) == TRUE

\* The check, after the listing, of whether connect() gave up meanwhile.
Wanted(n) == ~attempts[n].late

Listed(n) ==
  /\ attempts[n].step = "listing" /\ attempts[n].open
  /\ attempts' = [attempts EXCEPT ![n].step = "over"]
  /\ IF Wanted(n)
     THEN /\ listed' = n
          /\ registry' = IF world.mcp.hidden THEN registry ELSE Registered(n)
          /\ deferred' = (deferred \/ (~world.mcp.hidden /\ world.mcp.defers))
          /\ status' = "ok"
          /\ settled' = Settled
     ELSE UNCHANGED <<listed, status, settled, registry, deferred>>
  /\ UNCHANGED <<client, loaded, leaving, spent>>

\* The transport, the handshake or the listing fails; a client closed by then always makes it fail.
ConnectFails(n) ==
  /\ attempts[n].step \in {"connecting", "listing"}
  /\ attempts' = [attempts EXCEPT ![n].step = "over"]
  /\ IF attempts[n].late THEN UNCHANGED <<status, settled>>
     ELSE status' = "failed" /\ settled' = Settled
  /\ UNCHANGED <<client, listed, registry, deferred, loaded, leaving, spent>>

ConnectTimesOut(n) ==
  /\ attempts[n].step \in {"connecting", "listing"} /\ ~attempts[n].late
  /\ attempts' = [attempts EXCEPT ![n].late = TRUE]
  /\ status' = "failed" /\ settled' = Settled
  /\ UNCHANGED <<client, listed, registry, deferred, loaded, leaving, spent>>

\* onerror of a client, its connection kept.
ClientErrs(n) ==
  /\ attempts[n].open
  /\ Request("error")
  /\ status' = "failed"
  /\ UNCHANGED <<attempts, client, listed, settled, registry, deferred, loaded, leaving>>

\* The server's process or connection ends: the client closes.
ServerDies(n) ==
  /\ attempts[n].open
  /\ Request("death")
  /\ attempts' = Shut(n)
  /\ UNCHANGED <<client, listed, status, settled, registry, deferred, loaded, leaving>>

-----------------------------------------------------------------------------
(* Disconnecting, and reconnecting all.                                    *)

Leave(request, why) ==
  /\ leaving = "no" /\ attempts # <<>>
  /\ Request(request)
  /\ attempts' = Shut(client)
  /\ client' = None /\ status' = "none" /\ leaving' = why
  /\ UNCHANGED <<listed, settled, registry, deferred, loaded>>

Disconnect == Leave("disconnect", "for_good")

ReconnectAll == Leave("reconnectAll", "to_return")

\* The tool leaves the registries the host names; toolsByServer keeps it.
Left ==
  /\ leaving # "no"
  /\ leaving' = "no"
  /\ registry' = [r \in DOMAIN registry |-> IF r \in world.mcp.named THEN None ELSE registry[r]]
  /\ LET forgets == \E r \in DOMAIN registry \cap world.mcp.named : registry[r] # None
     IN deferred' = (deferred /\ ~forgets) /\ loaded' = (loaded /\ ~forgets)
  /\ IF leaving = "to_return"
     THEN Begin(Root) /\ settled' = MarkPending(settled)
     ELSE UNCHANGED <<attempts, client, settled>>
  /\ UNCHANGED <<listed, status, spent>>

-----------------------------------------------------------------------------
(* A sub-agent's registry.                                                 *)

Filter ==
  /\ Sub \notin DOMAIN registry /\ world.mcp.filters
  /\ registry' = [r \in DOMAIN registry \cup {Sub} |-> IF r = Sub THEN registry[Root] ELSE registry[r]]
  /\ UNCHANGED <<attempts, client, listed, status, settled, deferred, loaded, leaving, spent>>

\* What a lookup that waited finds; a filtered registry takes it from the one it was made from.
Lookup(r) == IF registry[r] # None THEN registry[r] ELSE registry[Root]

LateResolved(r) == [registry EXCEPT ![r] = Lookup(r)]

Shown == ~deferred \/ loaded

=============================================================================
