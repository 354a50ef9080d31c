------------------------------- MODULE Rendezvous -------------------------------
(***************************************************************************)
(* What a requestable minion stop (IRequestableMinionStop, base/minion.hpp) *)
(* promises its callers, without the counter and the two lock-free queues   *)
(* that implement it.  A minion that comes back to the stop (process) is   *)
(* present there until it leaves with a requester; a stop that asks for a  *)
(* minion (request) is asking until it is served.  A match takes one      *)
(* present minion and one asking requester, both at once.  The stop never *)
(* keeps a minion while a request waits: whenever both are there, a match *)
(* follows.                                                                *)
(***************************************************************************)
EXTENDS FiniteSets

CONSTANTS Minions, Requesters

VARIABLES
    present,  \* minions at the stop, not yet handed to a requester
    asking    \* requesters whose request() has not yet been served

vars == <<present, asking>>

\* MinionPool::create: every minion starts at the stop; no one asks.
Init ==
    /\ present = Minions
    /\ asking = {}

\* IMinionStop::process: a minion that was elsewhere arrives at the stop.
Arrive(m) ==
    /\ m \notin present
    /\ present' = present \cup {m}
    /\ UNCHANGED asking

\* IRequestableMinionStop::request: a stop with no request outstanding asks.
Ask(r) ==
    /\ r \notin asking
    /\ asking' = asking \cup {r}
    /\ UNCHANGED present

\* The minion m leaves the stop to run on through requester r.
Match(m, r) ==
    /\ m \in present /\ r \in asking
    /\ present' = present \ {m}
    /\ asking' = asking \ {r}

Next ==
    \/ \E m \in Minions : Arrive(m)
    \/ \E r \in Requesters : Ask(r)
    \/ \E m \in Minions, r \in Requesters : Match(m, r)

\* A minion and a request that are both at the stop meet.
RendezvousSpec ==
    Init /\ [][Next]_vars /\ WF_vars(\E m \in Minions, r \in Requesters : Match(m, r))
=============================================================================
