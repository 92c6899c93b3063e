# A verification project for the mlpal harness

The harness runs coding agents: a loop that calls a model through a gateway,
runs tools, and keeps a session's conversation in a log that outlives the
process. This directory models its core in TLA+, checks the models with TLC
and proves theorems about them with TLAPS.

All paths below are under `src/packages/harness/src/` unless they say otherwise.

## 1. The system

| Component | State it keeps | Operations | What is hard |
|---|---|---|---|
| Session store (P1 service; reference in `test/fake-session-store.ts`) | log, append records, lease, inbox items | append, lease grant/renew/release, consume an item, pages, stream | idempotent retry, fencing of old writers |
| Append writer (`store/remote/batcher.ts`, `remote-store.ts`, `client.ts`) | in-order queue, batch in flight, acked seq, memory views | write, consume, drain, close | lost answers, delayed requests, take-overs, wake-ups of one drain loop |
| Store client's reads (`store/remote/client.ts`) | a call's attempts and budget, a stream's buffer and cursor | call, readAll, stream | a retry that is not safe, a log that grows between pages, a line break cut in two |
| Lease keeper (`store/remote/lease.ts`) | held lease, deadline, renews under way | adopt, renew timer, deadline, release, drop | overlapping renews, old answers, late timers, clock skew |
| Local background writer (`store/append-queue.ts`) | pending lines per file, blobs, counters, drain in flight | push, shed, schedule, drain, flush | pushes during a drain, caps, failed writes, several flushers |
| Local store (`store/local.ts`) | head cache, conversation file, registry records, mailbox files | head, append, tail, patch, migrate, list, post, drain | caches written after an await, files several processes share without a lock |
| Turn loop (`loop/agent.ts`) | entries of the session, place within a turn | run, resume, approve, tool execution, park, inject, finish | crashes between an effect and its record, parked calls, reading a turn back |
| Message history and compaction (`loop/messages.ts`, `context/compaction.ts`) | the run's messages beside the log | load, heal, clear, cut, summarise, fold | two copies of one conversation |
| One tool call (`loop/agent.ts` executeTool, `hooks/`, `permission/`, `tools/`) | the call's input, the decision, the process or request | hooks, look-up, decide, ask, park, run, answer | rules and tools that change under a call, processes left behind |
| Permission engine, shell reading, plan gate (`permission/`) | rules, recorded plans | decide, decompose a line, match an apply to a dry run | ways to a command that the reader of the line does not take |
| MCP manager (`mcp/`), tool registry (`tools/registry.ts`) | connections, promises that calls wait for, tools | connect, time out, list, close, reconnect, call, retry | a connection given up on that answers late; a lost response asked for again |
| Event inbox and background work (`events/inbox.ts`, `events/persist.ts`, `tools/builtin/background.ts`) | queue, remembered ids, saved file, tasks | emit, drain, wait, save, restore, start, exit, adopt | debounced saves, restarts, caps, names given again |
| Gateway client (`gateway/client.ts`) | budgets and place of one model call | stream, connect, idle timeout, resume, fail over | four nested retry budgets, a stream that breaks half-way, model swaps, cancellation |
| Sub-agents (`subagent/task.ts`, `subagent/background.ts`), session event bus (`events/session-bus.ts`) | a record per child, the run's side queue, the bus's line, the subscription | call, mint, settle, kill, steer, notify; emit, flush, append at the head, hand back | events raised while a run starts, ends or is abandoned; kill against settle; the bus and a run appending to one chain |
| Profiles, or HOPs (`profile/`) | a chain of files, its locks | find, confine, compose, lay settings over | each file legal, the chain not; links and parents |
| Checkpoints (`checkpoints/store.ts`) | two ledgers of lines, pre-images | beginTurn, snapshot, rewind | a snapshot that reads before it records; a crash between the ledgers |
| Task tracker (`tasks/tracker.ts`) | numbered tasks, a debounced save | create, update, flush, restore | numbers told before they are saved |
| Workflow runner (`workflow/runner.ts`) | call counter, cache, semaphore | agent, parallel, pipeline, rerun | a slot freed before its waiter runs; numbers that follow the order of returns |
| Language servers (`lsp/`) | one client per server, texts sent, diagnostics published | ask, open, publish, exit, close | servers that die with questions pending; diagnostics of an older text |
| Routing, model registry, verifiers, memory, sandboxes, commands, telemetry | see `PROJECT.json` | | |

How they interact. The turn loop appends its entries through a store backend:
the remote one (append writer, lease keeper and store client against the
session store) or the local one (background writer under the conversation,
registry and mailbox files). It waits for the acknowledgement of a
`tool_started` marker before it runs a tool with effects. A call goes through
PreToolUse hooks, the permission decision and perhaps a person before its tool
runs, in a shell of the engine's, a sandbox or on an MCP server. Tools start
background work, whose events go to the inbox; the loop drains the inbox
between model calls and may sleep on it. The Agent tool starts children, whose
events reach the session's stream through its bus: into the run's queue while
there is a run, else straight into the conversation. Model calls go through the
gateway client, whose `reset` events tell the screen to drop what it shows. A
run, a resume and a rewind rebuild the messages from the log.

Every component runs in one JavaScript event loop per process: an action of a
model is a stretch of code between two awaits (exceptions are named in the
module headers), and interleaving comes from awaits, timers, other processes,
the network and crashes.

What makes each component correct is the list of its properties in section 3.
`PROJECT.json` lists every component, those not modelled with the reason, and
the hazards of the code at their lines with the properties that cover them.

## 2. The modules

| Module | Models | State and actions against the code |
|---|---|---|
| `SessionStore` | the store as one writer sees it | `log`, `appends`, `holder`, `items`; the append handler is `AppendCode` (lease check, replay lookup, item check, limits, in the order of the reference store). The inbox side is modelled from how the client uses it and is marked external |
| `AppendBatcher` (extends it) | `AppendBatcher`, `RemoteStore.open/write/consume/close`, the client's append call | per engine incarnation: `queue`, `inFlight`, `draining`, `kicked`, `attempt`, `wire`, `outcome` (the promises), `kept` and `folded` (the memory views: what a refusal takes out again, and the session records, which it does not). `net` holds requests that may arrive after their sender gave up |
| `DurableLog` | what the remote backend promises: one log, one writer at a time, order, truthful promises | abstract; `AppendBatcher` implements it (`Durable == INSTANCE DurableLog WITH ...`) |
| `StoreReader` | `call()`, `readAll()`, `stream()` | `call`, `clock`, `ran` are a call's attempts and time; `wire`, `buf`, `pendingCr` the bytes of a stream in chunks |
| `LeaseKeeper` | the keeper and the store's lease over integer time | `deadline`, `nextRenew`, `calls` (renews under way, orphaned ones too), `expiry` at the store; `Tick` advances the clock no further than a due timer plus `Late` |
| `AppendQueue` | `AppendQueue` with its timer, promise reactions and I/O | `pending`, `files`, `timer`, `draining`, `flush` (where each caller is); `disk` and `blobDisk` are the files |
| `LocalStore` | conversation, registry and mailbox files | `file` holds half lines, so a crash may leave one; `cached` and `actor` are `head()`'s awaits; `record`, `legacy`, `migration`, `chain`, `listing` the registry; `inode` the mailbox, so a post may hold a file that was renamed. `stale`, `over` and `late` are history: heads that are not the last entry, patches another process overwrote, letters written to a file that was read |
| `TurnLoop` | `run`, `resume`, `approve`, the calls of a message, and `heldCall`, `inFlightTurn`, `turnToResume` | `log` with the durable prefix `acked`; `eng` is the engine's place; `ran` the effects that happened. A `world` fixes what the host, hooks and provider may do |
| `RunRounds` | the rounds of a run: what the model is sent and what of the log it stands for | `messages` beside `log`; `loadMessages`, the heal, clearing, cut, summary and boundary as operators; the reasons to go on as actions. It reads turns back by `TurnLoop`'s operators |
| `ToolGate` (extends `McpManager`, `Hooks`) | one tool call after another, of an agent and a sub-agent | `at` is the place in `executeTool`; `jobs` the shells with pipes and grandchildren, `rpc` what was sent to a server or sandbox; `agreed` and `allowed` are history |
| `McpManager` | one server's connections, the promises calls wait for, registries, deferred tools | an attempt per connection: closing, connecting, listing, over; one that was given up on goes on |
| `Hooks` | the chain of hooks of an event | operators |
| `ShellLine`, `PlanGate`, `Permission` | a Bash line as the code reads it; dry runs and applies; the decision | operators over lines as sequences of simple commands in nested constructs |
| `BashGate` (extends them) | a session's Bash calls, against what bash would run | `Executed`, `MayRun`, `At` are written from the shell's rules, not from the decomposer |
| `HopProfile`, `HopLoader` | composition leaf by leaf with locks; finding and confining references | operators; the loader's steps read one file each over a `world` of files and links |
| `EventInbox` | inbox, persistence, shells and monitors over process lives | `inbox`, `file`, `saving`, `timer`, `tasks`, `held` (drained, not yet appended), `log`; work has an identity of its own, so two tasks of one name can be told apart |
| `GatewayClient` | one call of `stream()` | `pc`, the four budgets, `shown` (what the screen has: the request and model of each piece of content), `announced` |
| `Subagents` | children of one session, its runs as far as they meet them, the bus | `task` (record and runner of each call), `side`/`taken` (the run's queue, and what its end drained), `idle`/`bus` (the bus's line and its step), `tip` (may the run append under the last entry?), `told`, `inbox`; `emitted`, `rejected`, `cut` are history |
| `Checkpoints` | snapshots, rewinds, the two ledgers | `turns` and `files` are the ledgers; `editing`, `rewinding` where each editor and the rewind are between awaits: `ReadLedger` is the read of the ledger, `TakePreImage` its continuation, which goes by what was read. `found` (what each touch met) and `spoiled` (the touches whose lines a crash took or left behind) are history |
| `TaskTracker` | create, update, the debounced save, process lives | `items`, `seq`, `timer`, `file` (the last save that succeeded); `told` and `safe` are history |
| `Workflow` | agent(), semaphore, cache, parallel and pipeline | `micro` is the queue of continuations: a release wakes a waiter that takes its slot in a continuation of its own |
| `LanguageServer` | the manager's client, its process, questions and diagnostics | `clients` by when they were made; `asker` the tool calls; `answers` is history |
| `MCSession` (extends `LocalStore`, instances the others) | one state graph for the files, the rounds and what is kept beside them | `side` picks whose behaviour it is |
| `AppendBatcherProofs`, `CallerProofs` (of `LeaseKeeper` and `GatewayClient`), `TurnLoopProofs`, `SubagentsProofs`, `ToolGateProofs`, `HopLoaderProofs`, `SessionProofs` and `SharedProofs` (of `MCSession`) | theorems | section 5 |
| other `MC*` | instances for TLC | model values, message sets, worlds, plans |

Abstractions. Events, lines and messages are identities with a size; the text
of anything is left out, but where a property is about the reading of text
(shell lines, profile files): there it is words and keys. The turn loop runs on
what `DurableLog` promises instead of the batcher (entries become durable in
order, a crash keeps a prefix with all that was waited for), and the batcher
runs on a lease that may lapse at any time instead of the keeper's clock: each
uses the weaker interface of the module below. `MCSession`'s sides do not
share variables: the code under them does not either, but for files that each
owns alone.

Choices to know when reading them:

- `TurnLoop`: a tool runs to its end; `resumesFirst` is a host that resumes a
  dead turn before it runs another; in one of the three checked worlds it does
  not, because `run()` does not look. `PassedOver` names what `TurnsSurvive`
  excuses: a turn that went on from its park with something else than the held
  call's result, which is what `ParkAnswerable` and `NeverStuck` of section 4 show.
- `RunRounds`: sizes are abstract tokens, a call is by its tool and size; calls
  run one by one, and what hooks and rules do to them is in `ToolGate`.
- `ToolGate`: one server and one tool of it; the person, the judge, the host
  and the server do what they may at any time, or never.
- `BashGate`: the host that records a dry run and asks the person is not in the
  repository; it is modelled from the gate's own account of it.
- `EventInbox`: `past`, `slipped` and `met` are history: the work of earlier
  processes; that of it no saved roster had, or whose end was saved as told and
  died in hand; and the ids restored. They name what `EndsReported` excuses, which
  is what `LossReported`, `SavedAsTold` and `EndsKept` of section 4 show. The file
  system does not fail; `flush()` of the persistence
  and `drainNotifications()` are not modelled; `Waits` is the `backgroundWait`
  option; `RestoresTwice` is a host that restores into an inbox it has used.
- `GatewayClient`: the idle timer does not fire during a back-off pause (by
  default it is 300 s and a pause at most 30 s); the error kinds are classed by
  what the client does of them; under `fallback: deny` the loop gives the
  client no ladder (`loop/agent.ts:1018`). TLC's runs let the gateway answer
  with one model of its own (`Swaps = {0}`), the proofs with any.
- `Subagents`: a session has one run at a time, with an `AgentSession` of its
  own. Entries other than the children's events are left out, but for the head
  they move. `rejected` and `cut` name what `OnceInOrder` excuses: events that
  met a run whose turn never began, and what was in hand when a write was
  refused. `OneFate` excuses the answer of an inline child that was killed, which is its
  text or error though the record says cancelled (`KillsAlike`, section 4). An event that
  waits in the bus's line can be overtaken by one a next
  run shows live, so order is about each way apart. A child that wrote no
  session id raises nothing, as in the code; the host is taken to report the id
  before the child works. Whether a line of the bus is ever emptied is not
  checked.
- `LocalStore`: the actors at the conversation are of one process, which has one
  cache of heads; another process only reads. `ChainKept` excuses an entry whose
  writer had a head that was torn, or that another entry passed by before it was
  used (`OneChain`, section 4): such an entry must still hang from a line before
  it. `PatchesKept` excuses a patch that another process overwrote with a patch or
  a split for which it had read the record before, the last-write-wins that the comment
  at `store/local.ts:267` grants; `LettersKept` excuses a letter written to a file after
  the drain of that file had read it (`LetterOnce`, section 4).
- `Checkpoints`: a restore is promised of each path whose first touch since the
  rewind's turn was not spoiled: a torn line spoils all of its ledger (`LedgerReads`, section 4),
  a crash between the ledgers what it leaves of the turns that are forgotten
  (`LedgersAgree`). A line of `turns.jsonl` is appended whole; only the touches' lines tear.
- `StoreReader`: the store may refuse the retry of a call that an earlier attempt ran.
- `LanguageServer`: a server publishes for the texts it was sent in their
  order, perhaps leaving some out; nothing is asked after `closeAll()`.

## 3. The runs

| Run | What it asks | Bounds, and why they are enough |
|---|---|---|
| `append_takeover` | `NoDuplicate`, `AckedIsDurable`, `LogSound` | two incarnations, two pushes each, two attempts per call, batches of two: a retry, a take-over between an attempt and its delayed copy, and a failed batch with another queued all occur. Symmetry over engines |
| `append_limits` | `OpenedAndShown`, `EverySettles`, `ImplementsDurableLog` | one engine, three pushes of sizes at, over the batch's and over the store's limit, one item that may be withdrawn; and two pushes of entries and session records under a store that takes less in one event than the batcher sends in a batch (`strict`), so that what was shown at once is refused, alone and out of a batch |
| `lease` | `HeldIsLive`, `EndedLapses`, `DeadlineNeverBack` | ttl 12, cadence 4, margin 2, skew 1: renews overlap (delay 5), three failures in a row cost the lease, two leases, clock to 20 |
| `queue` | `LinesAccounted`, `FlushCovered`, `EventuallyWritten` | three lines in two files past a cap of two, one blob, two failing writes, two flushers: one drain wakes both, and the second finds the drain that the first began |
| `turn` | `AtMostOnce`, `RecordIsTrue`, `TurnsReadBack` | messages with no call, one, two with effects, a read-only pair, a mix, two of one id; a careful world of eight entries with one crash and two authors; a careless one of seven with two crashes, turns run over dead ones, ids used again, hooks that change calls and batches that park; and all of these in eight entries under a host that resumes first |
| `inbox` | `QueueIsTrue`, `NoLostWakeup`, `EndsReported` | queue of two, memory of four ids; a shell and a monitor; a monitor and a repeated mail; a shell, or a monitor, before the shell of the next process, which may be given the first one's name, and a third process that restores; a crash at any step |
| `gateway` | `ShownIsAnswer`, `SwitchAnnounced`, `RequestsBounded`, `EveryCallEnds` | three rungs, one retry in each of the four budgets, so each is used up and reset; one delta per stream |
| `subagents` | `OnceInOrder`, `OneFate` | three plans: one child of either kind with two runs, an inbox that comes or goes, guidance, a kill, an event of its own, refused writes and abandoned streams; two children and two runs; two children, one run, a kill and an event. An event can so meet each stage of a run, and two ends each other |
| `session` | `LogKept`, `SharedKept`, `SentIsPaired`, `NothingForgotten`, `TurnWithinBudget`, `KeptBeside`, `WaitersServed` | four entries of one actor over two crashes, and three of two actors at one cache over one, at any half line; three patches by one process and two by two, each with the migration and a crash; two letters opened and written while two processes drain and one may die; six worlds of rounds, up to ten entries, with windows so small that each kind of compaction happens, one or two crashes, parks, rewinds and reasons to go on; two files and a restore that fails, or two editors of one file whose snapshots interleave and a crash that tears a line or comes between the ledgers, over two turns; three tasks over two processes; four items over two slots; logs of three entries in pages of two, and streams of one line in chunks with each kind of line break; two askers of a server that dies or fails to start |
| `bash` | `NothingUnallowed`, `PlanHolds` | 76 lines, one or more for each construct the reader knows, under 38 configurations of mode, rules and envelope; two directories, two plans on record, so a plan can be stale, elsewhere, or another's |
| `gate` | `RanAsShown`, `CommandAccounted`, `GaveUpIsGone`, `EveryAttemptSettles` | worlds of one or two calls that each turn one thing on: hooks that rewrite, veto or fail, a judge, a person who answers late, rules that tighten, shells with grandchildren, a sandbox, connections that fail, are slow, or are replaced |
| `profile` | `LocksHold`, `NeverLooser`, `ReadsConfined` | some 4,000 loads: chains of three files out of 24 bodies over a builtin, settings in layers, and each kind of reference, version layout and link |

What they show: the invariants and temporal properties hold on these
instances, and each is broken by a plausible bug (the `mutants`): a dropped
lease check, a cap counted once too low, a marker written after its tool, a
resume that is not counted, a pre-image taken of the last edit, and so on. Each
property is stated, with the code it is about, at the end of its module; those
of `session` are grouped in `MCSession` by what a user would lose.

`CHECK_DEADLOCK FALSE` is set everywhere because every model legitimately
stops: incarnations die or close, the bounds on pushes, entries, starts or
the clock are reached, a call is over, or everything is at rest.

### Fairness

- `AppendBatcher.LiveSpec`: weak fairness of what the JavaScript runtime runs
  by itself: microtasks, retry timers, and reading an answer that has arrived
  or timing out. Nothing of the network or the store is fair: a request may
  never arrive. `EverySettles` holds because the client's own timeouts do fire.
- `AppendQueue.FairSpec`: timers fire, settled promises wake those who await
  them, I/O that was started ends, well or badly.
- `MCAppendBatcher.LimitsSpec`: the same, under either store; the limits stand in no
  guard of the actions that are fair.
- `GatewayClient.LiveSpec`: the client's own steps and its timers, the idle
  one included; nothing of the gateway. `MaxDeltas` bounds a gateway that
  feeds a stream drop by drop for ever: the code lets it (`reset()` on every
  event), so `EveryCallEnds` is about gateways that fall silent, fail or end.
- `ToolGate.Spec`: the engine's own steps: a look-up that resolved goes on, a
  decision that needs nobody is made, what is due is started and sent; a
  shell's and a connection's time limits fire; a child that was killed exits,
  and a pipe nobody holds closes. No server, judge, person or host need ever
  do anything.
- The other runs check safety and assume no fairness.

## 4. Where the code and its promises part

Listed in `PROJECT.json` under `findings`, each with the line and the words it
disagrees with. Each property below is violated by what the code does; the
configuration that shows it is kept here, to be run with one property at a
time (TLC stops at the first violation).

`Queue.cfg` (module `AppendQueue`) with `SPECIFICATION Spec`, `Blobs = {b1, b2}`,
`Sizes = {1, 4}`, `MaxPending = 9`, `MaxPendingBytes = 6`, `Flushers = {w1, w2}`,
`MaxFlushes = 1` and `MaxFailures = 0`

| Property | In short |
|---|---|
| `FlushWrites` | of two `flush()` calls woken by one drain the second returns before the first one's drain is done |
| `BlobFirst` | a line can be written before the blob it refers to |
| `CapHolds` | the byte cap is passed: one shed per push, of the file with most lines |

`AppendLimits.cfg` (module `MCAppendBatcher`) with `SPECIFICATION LooseSpec`, and for the
second `MaxEventBytes = 1`, `Sizes = {1, 2}` and `RecordSizes = {2}`

| Property | In short |
|---|---|
| `TooLargeNeverStops` | an oversized event in a consuming pair stops the writer |
| `RefusedIsDropped` | a session record that the store refused stays in the record this engine reads |

`TurnFindings.cfg` (module `MCTurnLoop`)

| Property | In short |
|---|---|
| `ResumedAsAsker` | a tool-use id used again ties a parked call to another turn |
| `ParkAnswerable` | a call that parks a second time cannot be answered |
| `NeverStuck` | a read-only batch that parks loses its other results |
| `RejectedLeavesNoTurn` | a rejected prompt leaves an entry a resume takes up |

`Inbox.cfg` (module `MCEventInbox`) with `Plans <- Findings`, `Mails = {}`, `MaxSeen = 6`,
`Waits = FALSE` and `RestoresTwice = TRUE`

| Property | In short |
|---|---|
| `EndsKept` | task names start at one again in a new process while their ids are remembered |
| `ProgressIsNews` | an adopted monitor's progress is taken for repeats |
| `LossReported` | work started after the last save is in no roster |
| `SavedAsTold` | drained events are saved as gone before their text is durable |
| `OutputReported` | a monitor's output is unlinked before the event that carries it is safe |
| `NoDoublePending` | a second restore queues the saved events twice |

`Gateway.cfg` with `SPECIFICATION Spec` (module `GatewayClient`)

| Property | In short |
|---|---|
| `AttemptsTrue` | after an idle timeout the attempt's signal stays fired: its retries are refused unsent and counted |
| `FallbackTrue` | a result of the requested model can say it is a fallback |
| `CancelIsCancel` | a cancelled call can end as a stream failure |

`Subagents.cfg` (module `MCSubagents`) with `Plans <- Findings`, for
`KillsAlike` as it stands; the last two as `PROPERTY`

| Property | In short |
|---|---|
| `EndsLand` | a rejected prompt throws away the events its run had received |
| `SteersHeard` | guidance is accepted after the child last looked for it |
| `KillsAlike` | a killed inline child's text is still its call's result, a background one's is not given |
| `NobodyLeft` | a stream left at its first entry leaves its subscription behind |
| `AtTheHead` | the bus and a run that opens read one head and both append to it |
| `ToldAtBoundary` | without an inbox, ended children are reported only where the run would finish |

`SessionFindings.cfg` (module `MCSession`)

| Property | In short |
|---|---|
| `SessionLoads` | after a crash inside a line, the next append goes on in that line and the next load fails on it |
| `OneChain` | a head read from the file after its awaits is cached over a newer one |
| `LastPatchedIsNewest` | patches are stamped when the record was read, so the last to be asked for may not be the newest |
| `MigrationServes` | of two processes that migrate, the second one's rename fails and so does its request |
| `ListingHasOwnWrites` | a listing under way caches what a patch meanwhile replaced |
| `LetterOnce`, `LetterInReach` | a post that opened the mailbox before a drain's rename writes into a file that is then removed; a process that dies after the rename leaves a claim nobody reads |
| `ReloadKeepsAll`, `LiveIsReloaded` | a boundary hides entries its summary does not have, or a reload differs from what the run held |
| `Alternates` | two user messages in a row are sent |
| `OnceATurn` | a resumed turn makes its one-shot self-check again |
| `CutsWhenItCan` | the kept part is measured with the count of the whole last request, so a cut that would fit is not taken |
| `CompactedIsPaired` | a compaction by hand in an open turn parts a use of a tool from its result |
| `ResumedIsPaired` | a turn that a run was begun over resumes with a use unanswered |
| `LedgerReads`, `LedgersAgree` | half a line makes a whole ledger read as empty; a crash between the two ledgers leaves touches that the next turns take for theirs |
| `IdsStable` | a number told and not yet saved is given to another task after a crash |
| `BoundKept` | a call that comes between a release and its waiter makes one agent too many |
| `RerunReplays` | call numbers follow the order of returns, so a rerun of a pipeline does not meet what was recorded |
| `OneServer` | a language server whose start failed is forgotten and left running |
| `FreshBatch` | diagnostics owed for the text before are answered as the new text's |

`Bash.cfg` (module `MCBashGate`) with `Lines <- KeptLines` and `Configs <- KeptConfigs`

| Property | In short |
|---|---|
| `ReconReads` | an allow rule lets a writing command run in recon mode |
| `AppliesWereReviewed` | a directory or variable set for one part of a line is taken to hold for the rest, so a dry run is recorded under another than it ran in |

`Gate.cfg` (module `MCToolGate`); the last three as `PROPERTY`

| Property | In short |
|---|---|
| `RanAsDecided` | a hook may rewrite an approved call, but for the command the park showed |
| `DecidedToolRan` | a tool is looked up again to run it, and may be another by then |
| `EffectOnce` | an MCP call whose answer is lost is sent again, also when it writes |
| `ClientsKept` | a connection that succeeds late takes the place of a newer one |
| `BadBodyIsNoOp` | a hook's answer that is no JSON is taken for context |
| `InterruptStops` | a local shell starts after the interrupt |
| `AdoptedIsTold` | an adopted command whose grandchild holds its pipes is never reported |
| `WaitersGoOn` | reconnecting replaces the promise a call waits for |

`ProfileFindings.cfg` (module `MCHopLoader`)

| Property | In short |
|---|---|
| `LockedForAll` | a child's module adds to the locked prompt or tools of its parent |
| `LockedEvalsStay` | locked eval suites may be replaced: the check leaves them out |
| `UntouchedExtends` | a HOP that locks `memory` cannot be extended at all: its defaults count as the child's own |

## 5. What is proved

TLAPS checks these for every value of the constants.

- `AppendBatcherProofs!TypeCorrect`: `Spec => [](TypeOK /\ Shape)`.
  `Shape` says that the queue and the batch in flight are, in push order,
  the events whose promise is pending; `TypeOK` alone would not carry over a
  settle.
- `AppendBatcherProofs!StoredOnce` and `!AckIsDurable`: no event is stored twice,
  and an acknowledged seq is where the event is. The argument: an append's
  body is decided once (`BodyShape`, `OneBody`: all copies of a request on the
  network or in the store's records agree), the log is the concatenation of
  the recorded appends (`LogIsAppends`), and an answer on its way tells where
  its append was put (`AnswerIsTrue`). These and the next
  assume `StoreAssumption` and `BatcherAssumption`.
- `AppendBatcherProofs!TakeOversKeepLog` and `!ItemsAndViews`: `Spec => []LogSound`
  and `Spec => []OpenedAndShown`, for any number of incarnations, events, items,
  retries and limits. Neither is inductive. What they need: an engine's
  promises settle from the front, a batch at a time (`SettledInOrder`), so a body
  is sent only when each event before it was acknowledged or refused (`Told`);
  what the store refused once it always refuses, since an event keeps its size
  and an item never becomes pending again (`AnswerStands`); the queue's entries
  for an item are the batch that its first event opens (`QueuedByItem`), so
  the opening events travel together and alone; an item is consumed by one
  append (`TakenOnce`); what was folded into the record opens
  no item's turn and is never withdrawn (`FoldedPlain`); and an engine that lost its lease never gets it back, so
  its events are one stretch of the log (`AtEnd`).
- `AppendBatcherProofs!BatcherImplements`: `Spec => ImplementsDurableLog`, the
  refinement. A promise is seen as pending, resolved, refused or failed
  (`FateSeen`), the store's log as who pushed which event (`LogSeen`). `Adopt` is
  the abstract `Take`; `Write` and `Consume` are `Push`; the delivery of a request
  that the store takes is `Commit`; an acknowledgement read is `Resolve`, a refusal
  read `Refuse`; what stops the writer is `Fail`; a lapse or a close is `Yield`. Every
  other step (timers, retries, delays, replays, releases of the drain loop)
  stutters. The hard one is `Commit`: a delayed request may be taken long after
  it was sent, and the abstract log takes only events that are pending, at the
  end and in order, which is what `Told`, `StoredOnce` and the lease check give.
- `CallerProofs!HeldStaysLive`: `Spec => []HeldIsLive`, assuming
  `MarginCovers`, which says that the hand-over of a grant and the lateness of a
  timer fit in the margin, whatever the skew (`MaxSkew`). The invariant relates
  deadline to expiry (`Covered`) and every good answer to the renew it is of
  (`AnswerKept`).
- `CallerProofs!EndedHoldingLapses` and `!DeadlineOnlyForward`: `EndedLapses`
  and the action property `DeadlineNeverBack`, without an assumption about the
  margin. `AgeInv` bounds ages: a renew is under way no longer than a call may
  take (`Numbered`), expiry and deadline are within a ttl of now, and a renew whose
  answer would still move the deadline was sent no earlier than a ttl before it
  (`WithinTtl`); a store whose clock is not behind promises at least a ttl
  (`FullTtl`); no request of an ended holding is newer than its end (`NoneAfterEnd`).
- `TurnLoopProofs!RunsAtMostOnce` and `!RecordTellsTruth`: `Spec => []AtMostOnce`
  and `Spec => []RecordIsTrue`, for any messages, hosts, hooks and providers and any
  number of crashes, ids used again and turns run over dead ones included. An
  engine that begins a message is the only one to have seen it; one that goes on
  with a turn asks the `tool_started` markers, and finds no result of a call it
  is about to settle because the turn that it reads back has every result that
  follows its last message. Turns are read back by a recursive function over
  the log; what the proof needs of it is shown on a least counterexample
  (`LeastNat`, from the well-foundedness of the numbers), which is how an
  induction is done with provers that take no operator parameters.
- `CallerProofs!TypeCorrect`, `!ShownOnce`, `!SwitchesAnnounced`,
  `!RequestsAreBounded`: for every ladder and all budgets. `Content` says where
  an attempt may have content, `Heard` that whoever may speak was announced,
  and `Spent` bounds the requests by the budgets spent: an attempt is at most
  `MaxRetries + 2` requests and each new one spends a budget or a rung.
- `SubagentsProofs!SubagentsTypeCorrect` and `!ChildHasOneFate`: for any number
  of children and any plans. `OneFate` is not inductive: `Fate` adds where a
  record, its runner and what was said of it may stand together (a running or
  unreported child was told of by nobody, an inline one has no mail and is not told of
  while its runner is live, its answer is its record's word unless it was killed, one with
  mail was not told of), `InLine` that the bus is at work only on an event in its line, and `Ended` that an end on the stream is of a runner
  that is over, whose record nothing changes any more.
- `SubagentsProofs!OutOnceAndInTurn`: `Spec => []OnceInOrder`, likewise for any
  children, plans and runs. The invariant `OInv` speaks of all events, those not
  yet raised too: each has at most one place, and none before it is raised
  (`Kept`); an event is raised once since who has no session has raised nothing
  and who is not through has not raised its end (`Fresh`, `RaisedOnce`). A
  dropped queue is excused because all in it was raised to the run that was
  rejected (`OfTheRun`, `Stages`). For the order, what each queue has is in it
  and the queues are in order among each other (`InTurn`): shown, in hand,
  queued, and the bus's line before the run's queue, which is why handing that
  queue back behind the line keeps the order. It rests on lemmas about how often an
  event is in an appended, shortened or joined sequence (`CountAppend`,
  `CountTail`, `CountConcat`). TLC checked `OInv` on the run's instance first.
- `ToolGateProofs!GivenUpStaysGone`, `!RunsWhatWasShown` and
  `!EveryCommandAccounted`: `Spec => []GaveUpIsGone`, `[]RanAsShown` and
  `[]CommandAccounted`, for any set of worlds (calls, hooks, policies, servers) and
  with nothing assumed of what hooks answer. `Offered`: what a registry offers is
  of an attempt that is over, so no time limit can still make it late, though
  attempts overlap, registries are copied and look-ups come late. `HeldRight`: an
  answer that a call still holds is about what it shows now, and a call between
  its decision and its start was let through (`LetThrough`). `Sound` and
  `OfItsCall`: a process that is alive and has given its result is a task's, one that
  has not is of the call that runs or of one interrupted; a call never has both a
  process and a request, and those of the calls ahead are untouched (`Fresh`).
- `HopLoaderProofs!LocksAreKept`, `!ChildrenOnlyTighten` and `!ReadsStayInside`:
  `Spec => []LocksHold`, `[]NeverLooser` and `[]ReadsConfined`, for any files, links,
  references, settings and any depth of the chain. One step composes one child,
  while what a profile locked must hold at every later one; so the invariant
  (`IInv`) is about the chain. Each profile is `Whole` (what is concatenated is
  there, the memory block is taken whole or has something of its own) and
  `Sealed` (its safety block is locked), and `Keeps` and `Tighter` relate any two.
  The hard lemma is `ChildKeeps`: that a child's leaf under a lock is its parent's
  although composition has several ways to fill a leaf (taken over, joined,
  concatenated, merged by name, the memory block kept or dropped as one).
  Assumed: `UnsetAssumption` and `WordsAssumption` (no value is the mark for "not
  set"; the words the builtins use are words) and `WorldsAssumption`, which is what
  the parsed schema gives: lists of rules are lists, required names have levels,
  a safety block is one, and a text in a file of its own is a prompt's.
- `SessionProofs!WaitersAreServed`: `SessionSpec => []WaitersServed`, the workflow's and
  the language servers' part of the session, for any flows, askers, edits, deaths and
  closes. A step of the session is a step of one side or leaves its variables
  (`FlowStep`, `ServerStep`), so each side has an invariant of its own. `FlowInv`: the
  queue of continuations and that of the semaphore list the calls that are there,
  each once (`Lists`), the count of active agents is those that hold a slot, and while
  one waits the slots are held or on their way to one that was woken (`QueuesAgree`);
  in a flow of one stage the calls are numbered by their items, because those not yet
  made stand in the queue in order (`CallsInOrder`), which is why a rerun replays.
  `ServerInv`: a server's debts are in the order of the texts it was sent (`InOrder`), a
  question is at a client whose exit was not seen (`AskersServed`), and such a client is
  the manager's where no start fails (`OneRuns`). `BenchesAssumption` (finitely many
  askers) and `FlowsAssumption` (bounds are numbers, at least one slot and stage) are
  assumed; the runner takes the larger of its concurrency and one
  (`workflow/runner.ts:124`).
- `SessionProofs!BesideIsKept`: `SessionSpec => []KeptBeside`, the checkpoints' and the
  plan's part, for any files, editors, turns and writes and any number of failed
  restores and crashes, torn lines and rewinds cut short included. The invariant is
  `DeskInv`. What a turn found at a path is in the first line of the two, and a path that
  it did not touch has no line, where no crash spoiled it (`LedgerFinds`, `TornSpoils`). Two
  editors of one file may both have read that it is new, and the later may take an
  image of what the earlier wrote; but then the turn has found something, and a
  pre-image in hand is what is on disk as long as it has not (`EditsOfThisTurn`), so the first
  line is the first touch's. A rewind works on ledgers nobody appends to, and
  what it has put back is what the turns found (`RewindReadAll`). `PreImageIs` is that the
  earliest line is what the first touch found, `FindsBefore` that the shortened ledger tells
  the same of the turns that remain. The filter is a recursive function, and what it keeps is
  shown on a least counterexample (`KeptExists`, `BeforeKeeps`). `DesksAssumption`: the
  bounds are numbers and half a line is no line.
- `SessionProofs!PlanKept`: `SessionSpec => []Tasks!PlanSurvives`, for any bounds and with
  nothing assumed. `PlanIsKept` adds that numbers are given in order in memory and in
  the file alike, and that what was ever saved is in both.
- `SharedProofs!SharedIsKept`: `SessionSpec => []SharedKept`, the registry's and the
  mailbox's part, for any processes, records, patches and letters and any number of
  crashes, with two processes that patch, split and drain at will. `RegistryInv`: a patch
  that has read its record is the first of its line, and knows each patch written
  there but those that came in since or were themselves overwritten (`InLine`), so its write
  leaves out only what another process wrote behind its back; a split that found no file knows the same
  (`SplitMisses`), and each session that has no file (`SplitKnows`). `MailboxInv`: a claimed
  file is of one drain and is not the mailbox (`ClaimsApart`), and what a drain read is all the
  file has but for what was written to it late; a letter that was posted in time and not
  handed out is in the file it was posted to, and one in a file is neither in another
  nor handed out (`LettersInPlace`). `LocalAssumption` (finitely many
  patches, plans of the declared sets) and `NullAssumption` (null is no record, no set of
  them and no list of letters) are assumed.

Only model-checked: liveness (fairness is out of the prover's reach), everything of
`AppendQueue`, `RunRounds`, `BashGate`, `EventInbox` and `StoreReader`, `TurnsReadBack` of
`TurnLoop`, and of `LocalStore` the chain and the tail (`ChainKept`, `TailExact`). Those of `RunRounds` and
`BashGate` are mostly about what recursive operators return, which is an induction over
data, and `LinesAccounted` of `AppendQueue` about folds over its batches; the others
are not proved.

## 6. The plan

Modelled: the append path with its refinement, the store's reads, the lease,
the local writer and the local files, the turn loop, its rounds and
compaction, one tool call with hooks, decision, shells and MCP, shell lines and
plan gate, profiles, the inbox, the gateway client, sub-agents with the event
bus, checkpoints, tasks, workflows and language servers.

What is left that a model could still say something of: the loop that listens
for hand-offs (its patch of the session's status against other patches), the
registry's overlapping loads, several MCP servers on one deadline.

Theorems still worth proving, the most useful first: `LinesAccounted` of the
queue; `QueueIsTrue` of the inbox; `ChainKept` of the local store.

## 7. Not modelled

I/O and strings: the characters of a shell line (its words and constructs are
modelled), sandbox command lines and proxies, the language servers' framing,
text clean-up, telemetry and logging (nothing reads it back to decide), the
memory and graph services' request shaping. External SDKs (MCP's protocol,
Node's streams) appear only as the outcomes their callers handle. Time appears
in `LeaseKeeper`, and as a call's budget in `StoreReader`: all other timers
fire at any moment after they are set. What a tool does besides running once,
failing or being cut short is not modelled; nor are plugins, skills and
commands, which are files found at start.
