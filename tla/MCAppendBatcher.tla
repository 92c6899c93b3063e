-------------------------- MODULE MCAppendBatcher --------------------------
EXTENDS AppendBatcher, TLC

CONSTANTS e1, e2, rq

VARIABLE strict \* is the store's limit of one event below that of a batch?

\* Small, over the batch size, over the store's per-event limit.
MCSizes == {1, 3, 4}

Symmetry == Permutations(Engines)

\* The same engines under a store that refuses an event which goes in a batch, and was
\* thus shown at once.
Strict == INSTANCE AppendBatcher WITH MaxEventBytes <- 1, Sizes <- {1, 2}, RecordSizes <- {2},
                                         MaxPushed <- 2

\* Spec and LiveSpec under either store; the limit is in no guard that Fairness is about.
MCNext == IF strict THEN Strict!Next ELSE Next
LooseInit  == strict = FALSE /\ Init
LimitsInit == strict \in BOOLEAN /\ Init
LooseSpec  == LooseInit /\ [][MCNext /\ UNCHANGED strict]_<<vars, strict>>
LimitsSpec == LimitsInit /\ [][MCNext /\ UNCHANGED strict]_<<vars, strict>> /\ Fairness
=============================================================================
