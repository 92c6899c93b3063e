--------------------------- MODULE LanguageServer ---------------------------
(***************************************************************************)
(* Questions to a language server (src/packages/harness/src/lsp): the      *)
(* manager keeps a client for a server and project, the client a process,  *)
(* what the server was told of a file, and what it published of it.  The   *)
(* Lsp tool opens the file anew for each question.                         *)
(*                                                                         *)
(* One server and one file, whose text is a number that each edit raises.  *)
(* Clients are numbered by when they were made: [boot, proc, exited,       *)
(* closing, sent, owed, batch], being how its start went, its process,     *)
(* whether its exit was seen, the text last sent, the texts whose          *)
(* diagnostics the server has to publish, and those it published last (0:  *)
(* none).                                                                  *)
(***************************************************************************)
EXTENDS Naturals, Sequences, SequencesExt

CONSTANT Benches \* [askers, asks, edits, deaths, fails, closes]: bounds; may a start fail and leave its process?

VARIABLES
  bench,
  disk,    \* the text in the file
  clients,
  live,    \* the manager's client, or 0
  asker,   \* per asker: [at, client, of], of being the text it asked about
  answers, \* the diagnostics that were answered, in order: [client, of, batch, how]
  asks, deaths, closes

vars == <<bench, disk, clients, live, asker, answers, asks, deaths, closes>>

Resting == [at |-> "rests", client |-> 0, of |-> 0]

Init ==
  /\ bench \in Benches
  /\ disk = 1 /\ clients = <<>> /\ live = 0
  /\ asker = [a \in bench.askers |-> Resting]
  /\ answers = <<>> /\ asks = 0 /\ deaths = 0 /\ closes = 0

At(place, c) == {a \in bench.askers : asker[a].at = place /\ asker[a].client = c}

-----------------------------------------------------------------------------
(* clientFor(), and open().                                                *)

Spawned ==
  [boot |-> "boots", proc |-> "lives", exited |-> FALSE, closing |-> FALSE, sent |-> 0, owed |-> <<>>, batch |-> 0]

Alive(c) == c # 0 /\ ~clients[c].exited

\* The file is read again: what changed is sent, and the server has diagnostics to publish.
Opened(client) ==
  IF client.sent = disk THEN client ELSE [client EXCEPT !.sent = disk, !.owed = Append(@, disk)]

Begun(a, kind) == [at |-> kind, client |-> asker[a].client, of |-> disk]

\* A question waits for the start of its client, one that lives or a new one.
Ask(a) ==
  /\ closes = 0 /\ asker[a].at = "rests"
  /\ asks < bench.asks /\ asks' = asks + 1
  /\ LET c == IF Alive(live) THEN live ELSE Len(clients) + 1
     IN /\ live' = c
        /\ IF Alive(live) /\ clients[live].boot = "up"
           THEN /\ clients' = [clients EXCEPT ![c] = Opened(@)]
                /\ \E kind \in {"requests", "diagnoses"} : asker' = [asker EXCEPT ![a] = [at |-> kind, client |-> c, of |-> disk]]
           ELSE /\ clients' = IF Alive(live) THEN clients ELSE Append(clients, Spawned)
                /\ asker' = [asker EXCEPT ![a] = [at |-> "starts", client |-> c, of |-> 0]]
  /\ UNCHANGED <<bench, disk, answers, deaths, closes>>

\* initialize is answered: all who wait go on.
Boots(c) ==
  /\ clients[c].boot = "boots" /\ clients[c].proc = "lives"
  /\ clients' = [clients EXCEPT ![c] = [Opened(@) EXCEPT !.boot = "up"]]
  /\ \E kinds \in [At("starts", c) -> {"requests", "diagnoses"}] :
       asker' = [a \in bench.askers |-> IF a \in At("starts", c) THEN Begun(a, kinds[a]) ELSE asker[a]]
  /\ UNCHANGED <<bench, disk, live, answers, asks, deaths, closes>>

Rest(askers) == asker' = [a \in bench.askers |-> IF a \in askers THEN Resting ELSE asker[a]]

\* initialize is refused, or its time is over: the manager forgets the client.
BootFails(c) ==
  /\ bench.fails /\ clients[c].boot = "boots" /\ ~clients[c].exited
  /\ clients' = [clients EXCEPT ![c].boot = "failed"]
  /\ live' = 0
  /\ Rest(At("starts", c))
  /\ UNCHANGED <<bench, disk, answers, asks, deaths, closes>>

-----------------------------------------------------------------------------
(* The answers.                                                            *)

Answer(a) ==
  /\ asker[a].at = "requests" /\ clients[asker[a].client].proc = "lives"
  /\ Rest({a})
  /\ UNCHANGED <<bench, disk, clients, live, answers, asks, deaths, closes>>

RequestTimesOut(a) ==
  /\ asker[a].at = "requests"
  /\ Rest({a})
  /\ UNCHANGED <<bench, disk, clients, live, answers, asks, deaths, closes>>

\* What diagnosticsFor returns to each of the askers, and to the tool.
Diagnosed(askers, batch, how) ==
  /\ Rest(askers)
  /\ \E order \in SetToSeqs(askers) :
       answers' = answers \o
         [i \in DOMAIN order |-> [client |-> asker[order[i]].client, of |-> asker[order[i]].of, batch |-> batch, how |-> how]]

\* A server publishes for a text it was sent, perhaps leaving out earlier ones: all who wait have it.
Publish(c) ==
  /\ clients[c].proc = "lives"
  /\ \E i \in DOMAIN clients[c].owed :
       /\ clients' = [clients EXCEPT ![c].batch = clients[c].owed[i], ![c].owed = SubSeq(@, i + 1, Len(@))]
       /\ Diagnosed(At("diagnoses", c), clients[c].owed[i], "published")
  /\ UNCHANGED <<bench, disk, live, asks, deaths, closes>>

\* Nothing came in time: what was published last.
WaitEnds(a) ==
  /\ asker[a].at = "diagnoses"
  /\ Diagnosed({a}, clients[asker[a].client].batch, "waited")
  /\ UNCHANGED <<bench, disk, clients, live, asks, deaths, closes>>

-----------------------------------------------------------------------------
(* The process, the host, and the author of the file.                      *)

Dies(c) ==
  /\ clients[c].proc = "lives"
  /\ IF clients[c].closing THEN UNCHANGED deaths ELSE deaths < bench.deaths /\ deaths' = deaths + 1
  /\ clients' = [clients EXCEPT ![c].proc = "gone"]
  /\ UNCHANGED <<bench, disk, live, asker, answers, asks, closes>>

\* Its exit: every request that waits for it is refused, and a start with them.
ExitSeen(c) ==
  /\ clients[c].proc = "gone" /\ ~clients[c].exited
  /\ clients' = [clients EXCEPT ![c].exited = TRUE, ![c].boot = IF @ = "boots" THEN "failed" ELSE @]
  /\ live' = IF At("starts", c) # {} THEN 0 ELSE live
  /\ Rest(At("starts", c) \cup At("requests", c))
  /\ UNCHANGED <<bench, disk, answers, asks, deaths, closes>>

\* closeAll(), when the session is over.
CloseAll ==
  /\ closes < bench.closes /\ closes' = closes + 1
  /\ clients' = IF Alive(live) THEN [clients EXCEPT ![live].closing = TRUE] ELSE clients
  /\ live' = 0
  /\ UNCHANGED <<bench, disk, asker, answers, asks, deaths>>

EditFile ==
  /\ disk <= bench.edits /\ disk' = disk + 1
  /\ UNCHANGED <<bench, clients, live, asker, answers, asks, deaths, closes>>

Next ==
  \/ CloseAll \/ EditFile
  \/ \E a \in bench.askers : Ask(a) \/ Answer(a) \/ RequestTimesOut(a) \/ WaitEnds(a)
  \/ \E c \in DOMAIN clients : Boots(c) \/ BootFails(c) \/ Publish(c) \/ Dies(c) \/ ExitSeen(c)

Spec == Init /\ [][Next]_vars

-----------------------------------------------------------------------------
(* Properties.                                                             *)

\* "the one live client per server and project root": a server that runs is the manager's, or was asked to end.
OneServer == \A c \in DOMAIN clients : clients[c].proc = "lives" /\ ~clients[c].closing => live = c

\* No question waits for a server whose exit was seen; the server it waits for was sent the text it is about,
\* though servers die and are replaced; and no later diagnostics of one server are older than earlier ones.
QuestionsServed ==
  /\ \A a \in bench.askers : asker[a].at \in {"starts", "requests"} => ~clients[asker[a].client].exited
  /\ \A a \in bench.askers : asker[a].at \in {"requests", "diagnoses"} => clients[asker[a].client].sent >= asker[a].of
  /\ \A i, j \in DOMAIN answers :
       i < j /\ answers[i].client = answers[j].client => answers[i].batch <= answers[j].batch
  /\ bench.fails \/ OneServer

\* "waits up to waitMs for a fresh batch after an open or change": what is published while an asker waits, and
\* returned to it, is of the text it asked about, or a later one.
FreshBatch == \A i \in DOMAIN answers : answers[i].how = "published" => answers[i].batch >= answers[i].of
=============================================================================
