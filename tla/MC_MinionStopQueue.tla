------------------------- MODULE MC_MinionStopQueue -------------------------
EXTENDS MinionStopQueue
CONSTANTS m1, m2, m3, r1, r2, r3
MCMinions == {m1, m2, m3}
MCRequesters == {r1, r2, r3}
\* A pool of two minions, for a requester queue of capacity 2.
MCTwoMinions == {m1, m2}
=============================================================================
