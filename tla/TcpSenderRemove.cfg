\* NodeOffline for the peer while minions sit in the outbox.
CONSTANTS
    m1 = m1
    m2 = m2
    m3 = m3
    m4 = m4
    m5 = m5
    Minions <- MCMinions
    NoMinion = NoMinion
    Accepted = FALSE
    MaxRoutes = 3

SPECIFICATION RemovalSpec
PROPERTY EveryRoutedSent
