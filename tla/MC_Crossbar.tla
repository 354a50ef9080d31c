----------------------------- MODULE MC_Crossbar -----------------------------
EXTENDS Crossbar
CONSTANTS w1, w2, m1, m2, m3, m4, s1, s2
MCWorkers1 == {w1}
MCWorkers2 == {w1, w2}
MCMinions3 == {m1, m2, m3}
MCMinions4 == {m1, m2, m3, m4}
\* Two unrelated sessions.
MCSessions == {s1, s2}
MCFlatParent == [s \in MCSessions |-> s]
\* s2 is a sub-session of s1 ("s1@...").
MCChildParent == [s \in MCSessions |-> s1]
MCSessionOf3 == (m1 :> s1) @@ (m2 :> s1) @@ (m3 :> s2)
MCSessionOf4 == (m1 :> s1) @@ (m2 :> s1) @@ (m3 :> s2) @@ (m4 :> s1)
MCSessionOfSplit == (m1 :> s1) @@ (m2 :> s2) @@ (m3 :> s2) @@ (m4 :> s1)
\* Four packets of one session.
MCSessionOfSame == [m \in MCMinions4 |-> s1]
MCPayloadless == {m4}
=============================================================================
