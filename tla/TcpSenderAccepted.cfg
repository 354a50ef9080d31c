CONSTANTS
    m1 = m1
    m2 = m2
    m3 = m3
    m4 = m4
    m5 = m5
    Minions <- MCMinions
    NoMinion = NoMinion
    Accepted = TRUE
    MaxRoutes = 5

SPECIFICATION Spec
INVARIANT ReturnAfterSend
