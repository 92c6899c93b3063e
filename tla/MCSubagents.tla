---------------------------- MODULE MCSubagents -----------------------------
EXTENDS Subagents

CONSTANTS c1, c2

P(may, speaks, hears, dies, r, h, f) ==
  [calls |-> may, speak |-> speaks, steer |-> hears, kill |-> dies, runs |-> r, hosts |-> h, fails |-> f]

\* One child of either kind, with everything that can go wrong; two children and
\* two runs; two children and a run, with a kill and events of their own.
One == P({c1}, {c1}, {c1}, {c1}, 2, 1, TRUE)
Pair == P({c1, c2}, {}, {}, {}, 2, 0, FALSE)
PairOnce == P({c1, c2}, {c1}, {}, {c1}, 1, 0, FALSE)
All == {One, Pair, PairOnce}

Quiet == Pair
Guided == P({c1}, {}, {c1}, {}, 1, 0, FALSE)
Failing == P({c1}, {}, {}, {}, 2, 0, TRUE)
Findings == {Quiet, Guided, Failing}
=============================================================================
