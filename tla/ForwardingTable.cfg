CONSTANTS
    s1 = s1
    w1 = w1
    w2 = w2
    h1 = h1
    h2 = h2
    Garbage = Garbage
    Sessions <- MCSessions
    Workers <- MCWorkers1
    Hops <- MCHops
    SplitIn <- MCSplitIn
    GenericIn <- MCGenericIn
    Kinds <- MCKindsPass
    Ttls = {0, 1}
    RandMax = 3
    MaxInstalls = 3
    MaxHits = 3

SPECIFICATION Spec
INVARIANT HitMatchesReference
PROPERTY EventuallyExpires
