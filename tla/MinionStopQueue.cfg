CONSTANTS
    m1 = m1
    m2 = m2
    m3 = m3
    r1 = r1
    r2 = r2
    r3 = r3
    Minions <- MCMinions
    Requesters <- MCRequesters
    Capacity = 3
SPECIFICATION Spec
INVARIANT TypeOK
INVARIANT CounterLedger
PROPERTY ImplementsRendezvous
PROPERTY SpinPopTerminates
PROPERTY RequestServed
