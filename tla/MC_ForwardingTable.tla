--------------------------- MODULE MC_ForwardingTable ---------------------------
(* One session, two lookup threads, three RoutingInfo messages and three *)
(* lookups.  The Splitter weights 1 and 2 (total 3) with RAND_MAX = 3 put *)
(* rd = 2 exactly on the boundary of the heavier hop.                      *)
EXTENDS ForwardingTable

CONSTANTS s1, w1, w2, h1, h2

MCSessions == {s1}
MCWorkers1 == {w1}
MCWorkers == {w1, w2}
MCHops == {h1, h2}
MCSplitIn == <<[w |-> 1, hop |-> h1], [w |-> 2, hop |-> h2]>>
MCGenericIn == <<MCSplitIn>>
MCKindsPass == {"Simple", "Splitter"}
MCKindsAll == {"Simple", "Splitter", "Generic"}
=============================================================================
