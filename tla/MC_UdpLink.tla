------------------------------- MODULE MC_UdpLink -------------------------------
(* Model values for UdpLink: two sessions and two sending minions on A. *)
EXTENDS UdpLink

CONSTANTS s1, s2, a1, a2

MCSessions == {s1, s2}
MCSessions1 == {s1}
MCAMinions == {a1, a2}
=============================================================================
