----------------------------- MODULE MCTurnLoop -----------------------------
EXTENDS TurnLoop

Call(id, ro) == [id |-> id, ro |-> ro]

\* No call; one; two with effects; a read-only pair; a read-only one beside another;
\* two of one id.
AllMessages ==
  {<<>>, <<Call("a", FALSE)>>, <<Call("a", FALSE), Call("b", FALSE)>>,
   <<Call("a", TRUE), Call("b", TRUE)>>, <<Call("a", TRUE), Call("b", FALSE)>>,
   <<Call("a", FALSE), Call("a", FALSE)>>}

\* The host resumes first, and nothing around the loop surprises it.
CarefulWorld ==
  [resumesFirst |-> TRUE, idsRepeat |-> FALSE, rewrites |-> FALSE, batchParks |-> FALSE,
   authors |-> {"human", "peer"}, crashes |-> 1, entries |-> 8]

\* New turns over dead ones, ids used again, hooks that change calls, parking batches.
CarelessWorld ==
  [resumesFirst |-> FALSE, idsRepeat |-> TRUE, rewrites |-> TRUE, batchParks |-> TRUE,
   authors |-> {"human"}, crashes |-> 2, entries |-> 7]

\* The host resumes first, and ids repeat, hooks change held calls and batches park.
SurprisedWorld ==
  [resumesFirst |-> TRUE, idsRepeat |-> TRUE, rewrites |-> TRUE, batchParks |-> TRUE,
   authors |-> {"human"}, crashes |-> 1, entries |-> 8]

AllWorlds == {CarefulWorld, CarelessWorld, SurprisedWorld}
FindingWorlds ==
  {[CarefulWorld EXCEPT !.idsRepeat = TRUE], [CarefulWorld EXCEPT !.rewrites = TRUE],
   [CarefulWorld EXCEPT !.batchParks = TRUE, !.entries = 8]}
=============================================================================
