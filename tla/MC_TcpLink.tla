------------------------------ MODULE MC_TcpLink ------------------------------
(* Three sending minions carry three routed messages (a minion that     *)
(* came back may be routed again); the receiving pool has three minions *)
(* (one per frame) or one (the pool runs dry while a frame is read).     *)
EXTENDS TcpLink

CONSTANTS m1, m2, m3, r1, r2, r3

MCMinions == {m1, m2, m3}
MCRMinionsFull == {r1, r2, r3}
MCRMinionsDry == {r1}
=============================================================================
