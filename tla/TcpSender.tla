------------------------------- MODULE TcpSender -------------------------------
(***************************************************************************)
(* The send half of one TCP peer link (networking/tcp_connection.cpp,     *)
(* networking/connection_interfaces.hpp).                                 *)
(*                                                                         *)
(* Minions come from the crossbar to TCPSender::process, which stamps the *)
(* header and returns the outbox q_, a MinionStopQueueType.  The socket    *)
(* wrapper is the outbox's only requester: when it is woken with a minion *)
(* it records it in current_minion_ and issues async_send.  The            *)
(* completion handler onDataSent posts current_minion_ back to the pool   *)
(* and requests the next minion from the outbox.                           *)
(*                                                                         *)
(* The outbox is taken here as its atomic rendezvous: a minion that       *)
(* arrives while a request is parked wakes that request, otherwise it is  *)
(* queued; a request that finds a queued minion takes the oldest,         *)
(* otherwise it is parked.  MinionStopQueue.tla checks that the counter   *)
(* and the two lock-free queues give exactly this (ImplementsRendezvous, *)
(* RequestServed).  The extra-data list of a minion is filled only by     *)
(* UDP encoders; on a TCP link it is always empty, so the branch of        *)
(* onDataSent that sends extra messages is not reachable here.            *)
(***************************************************************************)
EXTENDS Naturals, Sequences, SequencesExt

CONSTANTS
    Minions,       \* minions of the pool, each carrying one message when routed
    NoMinion,      \* current_minion_ before the first wake-up
    Accepted,      \* TRUE: the link was accepted (onNewIncomingConnection)
    MaxRoutes      \* bound on the messages routed to this peer

ASSUME NoMinion \notin Minions

VARIABLES
    mloc,       \* mloc[m]: "pool" (or elsewhere upstream), "outbox", "wrapper", "lost" (freed by remove)
    routed,     \* minions in the order they entered TCPSender::process
    outq,       \* the outbox's queued minions, oldest first
    asks,       \* requests of the socket wrapper parked in the outbox
    current,    \* TCPSenderSocketWrapper::current_minion_
    sends,      \* buffers of the async_send operations in flight
    wire,       \* frames the socket has sent, as the minions that carried them
    returns,    \* returns[m]: how often m was posted back to MinionPool::process
    removed     \* TCPConnectionManager::remove has erased this sender

vars == <<mloc, routed, outq, asks, current, sends, wire, returns, removed>>

\* Fault variant of Init: the connecting constructor's startSending()
\* followed by a second one, as on the accepting side.
InitDoubleStart ==
    /\ mloc = [m \in Minions |-> "pool"]
    /\ routed = <<>> /\ outq = <<>> /\ asks = 2
    /\ current = NoMinion /\ sends = <<>> /\ wire = <<>>
    /\ returns = [m \in Minions |-> 0]
    /\ removed = FALSE

\* A new TCPSender: its constructor calls socket_wrapper_.startSending(),
\* which parks a request in the empty outbox.  onNewIncomingConnection
\* calls startSending() once more on the sender it has just built.
Init ==
    /\ mloc = [m \in Minions |-> "pool"]
    /\ routed = <<>> /\ outq = <<>>
    /\ asks = IF Accepted THEN 2 ELSE 1
    /\ current = NoMinion /\ sends = <<>> /\ wire = <<>>
    /\ returns = [m \in Minions |-> 0]
    /\ removed = FALSE

\* Fault variant of WrapperProcess: the minion is returned to the pool as
\* soon as its send is issued, not in the completion handler.
WrapperProcessReturnsEarly(m) ==
    /\ current' = m
    /\ sends' = Append(sends, m)
    /\ returns' = [returns EXCEPT ![m] = @ + 1]

\* TCPSenderSocketWrapper::process: current_minion_ = minion, stamp the
\* timestamp, issue async_send of the whole message; return nullptr.
WrapperProcess(m) ==
    /\ current' = m
    /\ sends' = Append(sends, m)
    /\ UNCHANGED returns

\* A minion taken from the pool (by an app or a receiver) is routed by the
\* crossbar to this peer.  TCPSender::process sets the header fields and
\* returns &q_; the minion then enters MinionStopQueueType::process of the
\* outbox.  A parked request is woken and the wrapper runs on this thread;
\* otherwise the minion is queued.
Route(m) ==
    /\ mloc[m] = "pool"
    /\ ~removed
    /\ Len(routed) < MaxRoutes
    /\ routed' = Append(routed, m)
    /\ IF asks > 0
       THEN /\ asks' = asks - 1
            /\ mloc' = [mloc EXCEPT ![m] = "wrapper"]
            /\ WrapperProcess(m)
            /\ UNCHANGED outq
       ELSE /\ outq' = Append(outq, m)
            /\ mloc' = [mloc EXCEPT ![m] = "outbox"]
            /\ UNCHANGED <<asks, current, sends, returns>>
    /\ UNCHANGED <<wire, removed>>

\* The bytes of send i have all reached the wire.  async_send is a
\* write_some and may stop short; that case is not modelled (see README).
SendCompletes(i) == wire' = Append(wire, sends[i])

\* Fault variant of OnDataSent: the next minion is not requested.
OnDataSentNoRequest(i) ==
    /\ i \in 1..Len(sends)
    /\ SendCompletes(i)
    /\ returns' = [returns EXCEPT ![current] = @ + 1]
    /\ mloc' = [mloc EXCEPT ![current] = "pool"]
    /\ sends' = RemoveAt(sends, i)
    /\ UNCHANGED <<routed, outq, asks, current, removed>>

\* Fault variant of OnDataSent: the request takes the newest queued minion.
OnDataSentLifo(i) ==
    /\ i \in 1..Len(sends)
    /\ SendCompletes(i)
    /\ returns' = [returns EXCEPT ![current] = @ + 1]
    /\ LET rest == RemoveAt(sends, i)
           back == [mloc EXCEPT ![current] = "pool"]
       IN IF outq # <<>>
          THEN LET n == Last(outq) IN
                 /\ outq' = Front(outq)
                 /\ current' = n
                 /\ sends' = Append(rest, n)
                 /\ mloc' = [back EXCEPT ![n] = "wrapper"]
                 /\ UNCHANGED asks
          ELSE /\ asks' = asks + 1
               /\ sends' = rest /\ mloc' = back
               /\ UNCHANGED <<outq, current>>
    /\ UNCHANGED <<routed, removed>>

\* TCPSenderSocketWrapper::onDataSent for the completion of send i.  The
\* error code and bytes_transferred are ignored.  The extra-data list is
\* empty, so current_minion_ -- whatever it is now -- is posted to the
\* pool, and startSending() requests from the outbox: the oldest queued
\* minion wakes the wrapper on this thread (process: a new async_send),
\* or the request is parked.
OnDataSent(i) ==
    /\ i \in 1..Len(sends)
    /\ SendCompletes(i)
    /\ returns' = [returns EXCEPT ![current] = @ + 1]
    /\ LET rest == RemoveAt(sends, i)
           back == [mloc EXCEPT ![current] = "pool"]
       IN IF outq # <<>>
          THEN LET n == Head(outq) IN
                 /\ outq' = Tail(outq)
                 /\ current' = n
                 /\ sends' = Append(rest, n)
                 /\ mloc' = [back EXCEPT ![n] = "wrapper"]
                 /\ UNCHANGED asks
          ELSE /\ asks' = asks + 1
               /\ sends' = rest /\ mloc' = back
               /\ UNCHANGED <<outq, current>>
    /\ UNCHANGED <<routed, removed>>

\* NodeOffline for the peer: TCPConnectionManager::remove erases the
\* sender and the receiver under the unique lock.  The TCPSender goes with
\* its outbox q_ and its socket wrapper: the queued minions and the one in
\* flight are freed with them and never posted back to the pool.  The
\* socket closes, and the aborted async_send would complete into the freed
\* wrapper; the model ends the send there.  The crossbar finds no sender
\* for the peer afterwards, so nothing more is routed here.
RemovePeer ==
    /\ ~removed
    /\ removed' = TRUE
    /\ mloc' = [m \in Minions |-> IF mloc[m] \in {"outbox", "wrapper"}
                                  THEN "lost" ELSE mloc[m]]
    /\ outq' = <<>> /\ asks' = 0 /\ sends' = <<>>
    /\ UNCHANGED <<routed, current, wire, returns>>

\* The crossbar has routed its MaxRoutes messages, or the sender is gone;
\* from here on the link only finishes what it holds (EveryRoutedSent
\* says that it does).
RoutesDone ==
    /\ Len(routed) = MaxRoutes \/ removed
    /\ UNCHANGED vars

Next ==
    \/ \E m \in Minions : Route(m)
    \/ \E i \in 1..Len(sends) : OnDataSent(i)
    \/ RoutesDone

\* The crossbar routes when it likes; the reactor runs every completion
\* handler once the peer has taken the bytes.
Spec == Init /\ [][Next]_vars /\ WF_vars(\E i \in 1..Len(sends) : OnDataSent(i))

\* The link with a NodeOffline for the peer at any point.
RemovalSpec ==
    Init /\ [][Next \/ RemovePeer]_vars /\ WF_vars(\E i \in 1..Len(sends) : OnDataSent(i))

-----------------------------------------------------------------------------
(* Properties *)

\* spec.md 4.5: the socket wrapper is the single consumer of the outbox and
\* has at most one async write outstanding.
OneSendInFlight == Len(sends) <= 1

\* A minion goes back to the pool once per frame it carried, and only
\* after that frame has been sent: otherwise the pool hands out a minion
\* whose buffer async_send is still reading, or holds one minion twice.
ReturnAfterSend ==
    \A m \in Minions : returns[m] <= Len(SelectSeq(wire, LAMBDA f : f = m))

\* The peer receives one frame per routed minion, in the order the minions
\* entered TCPSender::process.
WireInRouteOrder == IsPrefix(wire, routed)

\* Every minion routed to this peer is eventually sent and back in the pool.
EveryRoutedSent ==
    \A m \in Minions : mloc[m] # "pool" ~> mloc[m] = "pool"
=============================================================================
