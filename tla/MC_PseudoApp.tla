------------------------------ MODULE MC_PseudoApp ------------------------------
(* Two reactor threads, two minions, a bucket of depth 2 (burst 1), one   *)
(* re-announcement of the destination node, and four stamped messages.    *)
EXTENDS PseudoApp

CONSTANTS t1, t2, n1, n2

MCThreads == {t1, t2}
MCMinions == {n1, n2}
=============================================================================
