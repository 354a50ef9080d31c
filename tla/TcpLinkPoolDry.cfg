CONSTANTS
    m1 = m1
    m2 = m2
    m3 = m3
    r1 = r1
    r2 = r2
    r3 = r3
    Minions <- MCMinions
    RMinions <- MCRMinionsDry
    NoMinion = NoMinion
    RBuf0 = RBuf0
    Accepted = FALSE
    MaxRoutes = 3

SPECIFICATION LinkSpec
INVARIANT ReceiverIntact
