CONSTANTS
    q1 = q1
    q2 = q2
    q3 = q3
    c1 = c1
    c2 = c2
    NUL = NUL
    UpMsgs <- MCUpMsgs
    DownMsgs <- MCDownMsgs
    Nul <- NUL
SPECIFICATION Spec
INVARIANT OnlyOneWrite
PROPERTY UpIsFifo
PROPERTY DownIsFifo
PROPERTY ConnectionFailureIsFatal
