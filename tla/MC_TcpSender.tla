----------------------------- MODULE MC_TcpSender -----------------------------
(* An accepted link with five minions and five routings: two routings   *)
(* already meet the two parked requests of the socket wrapper.          *)
EXTENDS TcpSender

CONSTANTS m1, m2, m3, m4, m5

MCMinions == {m1, m2, m3, m4, m5}
=============================================================================
