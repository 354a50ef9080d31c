\* requester_q_ of capacity 2 with three stops requesting: a push fails.
CONSTANTS
    m1 = m1
    m2 = m2
    m3 = m3
    r1 = r1
    r2 = r2
    r3 = r3
    Minions <- MCTwoMinions
    Requesters <- MCRequesters
    Capacity = 2
SPECIFICATION Spec
PROPERTY RequestServed
