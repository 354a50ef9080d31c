CONSTANTS
    w1 = w1
    w2 = w2
    m1 = m1
    m2 = m2
    m3 = m3
    m4 = m4
    s1 = s1
    s2 = s2
    Workers <- MCWorkers1
    Minions <- MCMinions4
    Sessions <- MCSessions
    SessionOf <- MCSessionOf4
    Parent <- MCFlatParent
    Payloadless = {}
    MaxInstalls = 3
    Serial = TRUE
SPECIFICATION Spec
INVARIANT NoMinionLost
