--------------------------- MODULE MinionStopQueue ---------------------------
(***************************************************************************)
(* MinionStopQueueType (base/minion_pool.{hpp,cpp}): the rendezvous between *)
(* minions coming back to a stop and stops requesting a minion.  A signed   *)
(* atomic counter waiting_minions_ is updated first (fetch_add/fetch_sub)   *)
(* and the element is pushed to, or spin-popped from, one of two bounded    *)
(* lock-free queues in a separate step.  Both MinionPool (which recycles    *)
(* the minion first) and every per-peer sender outbox are this class.       *)
(*                                                                          *)
(* Each minion and each requester is driven by whatever reactor thread is  *)
(* running it, so every step below may interleave with any other.          *)
(***************************************************************************)
EXTENDS Integers, Sequences, FiniteSets, SequencesExt, Functions

CONSTANTS
    Minions,     \* the minions of the pool (MinionPool::create)
    Requesters,  \* the stops that call request(): receivers, app sources, socket wrappers
    Capacity     \* capacity<SIPHON_MINION_POOL_SIZE> of each lock-free queue

\* MinionPool::create asserts size <= SIPHON_MINION_POOL_SIZE, so minion_q
\* never fills.  Nothing bounds the stops that request a minion (every
\* connection adds a receiver and a socket wrapper), so requester_q can.
ASSUME Cardinality(Minions) <= Capacity

VARIABLES
    waiting_minions,  \* std::atomic<long> waiting_minions_
    minion_q,         \* ConcurrentQueue<Minion> minion_q_
    requester_q,      \* ConcurrentQueue<IMinionStop> requester_q_
    mpc,              \* where each minion is in its call of process()
    rpc               \* where each requester is in its call of request()

vars == <<waiting_minions, minion_q, requester_q, mpc, rpc>>

\* "Away": carried through other stops.  "Pushing": counter added, push
\* pending.  "Queued": in minion_q.  "SpinRequester": counter added while
\* negative, spinning on requester_q.
MinionStates == {"Away", "Pushing", "Queued", "SpinRequester"}
\* "Idle": no request outstanding.  "PushSelf": counter subtracted, push
\* pending.  "Parked": in requester_q.  "SpinMinion": spinning on minion_q.
RequesterStates == {"Idle", "PushSelf", "Parked", "SpinMinion"}

\* State after MinionPool::create: every minion woken once into the pool,
\* sequentially, before the reactor threads start.
Init ==
    /\ waiting_minions = Cardinality(Minions)
    /\ minion_q = SetToSeq(Minions)
    /\ requester_q = <<>>
    /\ mpc = [m \in Minions |-> "Queued"]
    /\ rpc = [r \in Requesters |-> "Idle"]

\* Fault variant of Process: the branch tests <= 0 instead of < 0.
ProcessNonPositive(m) ==
    /\ mpc[m] = "Away"
    /\ waiting_minions' = waiting_minions + 1
    /\ mpc' = [mpc EXCEPT ![m] = IF waiting_minions <= 0 THEN "SpinRequester"
                                                          ELSE "Pushing"]
    /\ UNCHANGED <<minion_q, requester_q, rpc>>

\* MinionPool::process: recycle(), then the fetch_add of
\* MinionStopQueueType::process, whose old value picks the branch.
Process(m) ==
    /\ mpc[m] = "Away"
    /\ waiting_minions' = waiting_minions + 1
    /\ mpc' = [mpc EXCEPT ![m] = IF waiting_minions < 0 THEN "SpinRequester"
                                                         ELSE "Pushing"]
    /\ UNCHANGED <<minion_q, requester_q, rpc>>

\* ConcurrentQueue::push: boost::lockfree::queue<T*, capacity<N>>::push
\* returns false and leaves a full queue as it is; push ignores the result.
BoundedPush(q, x) == IF Len(q) < Capacity THEN Append(q, x) ELSE q

\* minion_q_.push(minion); return nullptr.
PushMinion(m) ==
    /\ mpc[m] = "Pushing"
    /\ minion_q' = BoundedPush(minion_q, m)
    /\ mpc' = [mpc EXCEPT ![m] = "Queued"]
    /\ UNCHANGED <<waiting_minions, requester_q, rpc>>

\* Fault variant of PopRequester: the requester queue is a LIFO stack.
PopRequesterLifo(m) ==
    /\ mpc[m] = "SpinRequester"
    /\ requester_q # <<>>
    /\ LET r == Last(requester_q) IN
         /\ requester_q' = Front(requester_q)
         /\ rpc' = [rpc EXCEPT ![r] = "Idle"]
    /\ mpc' = [mpc EXCEPT ![m] = "Away"]
    /\ UNCHANGED <<waiting_minions, minion_q>>

\* return requester_q_.spinPop(): the loop only leaves once a requester
\* is popped; the minion then proceeds to that requester.
PopRequester(m) ==
    /\ mpc[m] = "SpinRequester"
    /\ requester_q # <<>>
    /\ LET r == Head(requester_q) IN
         /\ requester_q' = Tail(requester_q)
         /\ rpc' = [rpc EXCEPT ![r] = "Idle"]
    /\ mpc' = [mpc EXCEPT ![m] = "Away"]
    /\ UNCHANGED <<waiting_minions, minion_q>>

\* Fault variant of Request: a stop requests again while its previous
\* request is still outstanding.
RequestUnguarded(r) ==
    /\ rpc[r] # "SpinMinion"
    /\ waiting_minions' = waiting_minions - 1
    /\ rpc' = [rpc EXCEPT ![r] = IF waiting_minions > 0 THEN "SpinMinion"
                                                         ELSE "PushSelf"]
    /\ UNCHANGED <<minion_q, requester_q, mpc>>

\* The fetch_sub of MinionStopQueueType::request.
Request(r) ==
    /\ rpc[r] = "Idle"
    /\ waiting_minions' = waiting_minions - 1
    /\ rpc' = [rpc EXCEPT ![r] = IF waiting_minions > 0 THEN "SpinMinion"
                                                         ELSE "PushSelf"]
    /\ UNCHANGED <<minion_q, requester_q, mpc>>

\* requester_q_.push(requester): on a full queue the requester is dropped
\* and the stop goes on as if it were parked.
PushRequester(r) ==
    /\ rpc[r] = "PushSelf"
    /\ requester_q' = BoundedPush(requester_q, r)
    /\ rpc' = [rpc EXCEPT ![r] = "Parked"]
    /\ UNCHANGED <<waiting_minions, minion_q, mpc>>

\* Fault variants of PopMinion: the head is read but left in the queue;
\* the counter is decremented a second time after the pop.
PopMinionPeek(r) ==
    /\ rpc[r] = "SpinMinion"
    /\ minion_q # <<>>
    /\ mpc' = [mpc EXCEPT ![Head(minion_q)] = "Away"]
    /\ rpc' = [rpc EXCEPT ![r] = "Idle"]
    /\ UNCHANGED <<waiting_minions, minion_q, requester_q>>

PopMinionDecrement(r) ==
    /\ rpc[r] = "SpinMinion"
    /\ minion_q # <<>>
    /\ minion_q' = Tail(minion_q)
    /\ mpc' = [mpc EXCEPT ![Head(minion_q)] = "Away"]
    /\ rpc' = [rpc EXCEPT ![r] = "Idle"]
    /\ waiting_minions' = waiting_minions - 1
    /\ UNCHANGED requester_q

\* minion_q_.spinPop(), then minion->wakeup(requester): the popped minion
\* runs on through the requester.
PopMinion(r) ==
    /\ rpc[r] = "SpinMinion"
    /\ minion_q # <<>>
    /\ LET m == Head(minion_q) IN
         /\ minion_q' = Tail(minion_q)
         /\ mpc' = [mpc EXCEPT ![m] = "Away"]
    /\ rpc' = [rpc EXCEPT ![r] = "Idle"]
    /\ UNCHANGED <<waiting_minions, requester_q>>

\* A failed iteration of a spinPop loop: the queue is still empty because
\* the thread that moved the counter has not pushed yet.  The thread keeps
\* spinning (a step that changes nothing, rather than a blocked thread).
SpinEmpty ==
    \/ \E m \in Minions : mpc[m] = "SpinRequester" /\ requester_q = <<>>
    \/ \E r \in Requesters : rpc[r] = "SpinMinion" /\ minion_q = <<>>

Next ==
    \/ \E m \in Minions : Process(m) \/ PushMinion(m) \/ PopRequester(m)
    \/ \E r \in Requesters : Request(r) \/ PushRequester(r) \/ PopMinion(r)
    \/ SpinEmpty /\ UNCHANGED vars

\* A thread inside process() or request() keeps running until it returns;
\* a minion that is away comes back to the stop (downstream stops return it),
\* but nothing obliges a requester to ask for a minion.  A spinning pop is
\* strongly fair: a thread that finds the queue non-empty again and again
\* eventually wins its pop.  The boost queue is lock-free, not wait-free, so
\* this is the one assumption the code does not itself guarantee; with weak
\* fairness alone two spinners on one queue can starve one of them.
Fairness ==
    /\ \A m \in Minions : WF_vars(Process(m)) /\ WF_vars(PushMinion(m))
                          /\ SF_vars(PopRequester(m))
    /\ \A r \in Requesters : WF_vars(PushRequester(r)) /\ SF_vars(PopMinion(r))

Spec == Init /\ [][Next]_vars /\ Fairness

-----------------------------------------------------------------------------
CountM(S) == Quantify(Minions, LAMBDA m : mpc[m] \in S)
CountR(S) == Quantify(Requesters, LAMBDA r : rpc[r] \in S)

TypeOK ==
    /\ waiting_minions \in -Cardinality(Requesters)..Cardinality(Minions)
    /\ minion_q \in Seq(Minions) /\ requester_q \in Seq(Requesters)
    /\ mpc \in [Minions -> MinionStates] /\ rpc \in [Requesters -> RequesterStates]

\* The counter ledger of request()/process(): waiting_minions_ equals the
\* minions committed to the stop (queued or about to be pushed) minus the
\* requests committed (parked or about to be pushed), corrected by the
\* threads that already claimed an element by the counter and are spinning
\* for it.  This is what makes every spinPop find an element.
CounterLedger ==
    waiting_minions =
        (Len(minion_q) + CountM({"Pushing"})) - (Len(requester_q) + CountR({"PushSelf"}))
        + CountM({"SpinRequester"}) - CountR({"SpinMinion"})

\* spinPop never spins forever: a thread that claimed an element by the
\* counter eventually pops one, given only that the other threads finish
\* their pushes.
SpinPopTerminates ==
    /\ \A m \in Minions : mpc[m] = "SpinRequester" ~> mpc[m] = "Away"
    /\ \A r \in Requesters : rpc[r] = "SpinMinion" ~> rpc[r] = "Idle"

\* Every request() is eventually served by a minion, as long as minions
\* come back to the stop.
RequestServed == \A r \in Requesters : rpc[r] # "Idle" ~> rpc[r] = "Idle"
\* The abstract stop: a minion is present from its fetch_add until it is
\* popped, a request is asking from its fetch_sub until it is served.
Abstract == INSTANCE Rendezvous WITH
    present <- {m \in Minions : mpc[m] \in {"Pushing", "Queued", "SpinRequester"}},
    asking <- {r \in Requesters : rpc[r] \in {"PushSelf", "Parked", "SpinMinion"}}

\* The counter and the two lock-free queues implement the atomic
\* rendezvous of Rendezvous.tla: every pop hands over a minion that was at
\* the stop to a request that was waiting, each exactly once, and a minion
\* never sits in the stop while a request waits for good.
ImplementsRendezvous == Abstract!RendezvousSpec
=============================================================================
