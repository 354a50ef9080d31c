----------------------- MODULE MC_ControllerConnection -----------------------
EXTENDS ControllerConnection
CONSTANTS q1, q2, q3, c1, c2, NUL
MCUpMsgs == {q1, q2, q3}
MCDownMsgs == {c1, c2}
=============================================================================
