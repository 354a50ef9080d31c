CONSTANTS
    s1 = s1
    s2 = s2
    a1 = a1
    a2 = a2
    NoMinion = NoMinion
    Sessions <- MCSessions1
    AMinions <- MCAMinions
    BPool = 1
    Lossy = TRUE
    Churn = TRUE
    MaxSends = 3
    MaxChurn = 2

SPECIFICATION Spec
INVARIANT ReceiverIntact
PROPERTY EveryMinionReturns ReceiverResumes
