--------------------------- MODULE MC_NotificationBus ---------------------------
EXTENDS NotificationBus, TLC

CONSTANTS t1, t2, k1, ctl, oth

MCThreads == {t1, t2}
MCKeys == {k1}
MCTypes == {ctl, oth}
MCSerialized == {ctl}
====
