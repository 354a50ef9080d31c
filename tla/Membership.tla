------------------------------ MODULE Membership ------------------------------
(***************************************************************************)
(* Node membership and TCP link set-up across a cluster of Siphon nodes    *)
(* (aggregator.cpp, controller/controller_proxy.cpp, node_manager.cpp,     *)
(* networking/tcp_connection_manager.cpp, tcp_connection.cpp).            *)
(*                                                                         *)
(* A node registers with the Controller in ControllerProxy's constructor   *)
(* (the handshake), then builds its components, starts listening           *)
(* (TCPConnectionManager::init) and finally runs its reactor threads.      *)
(* The Controller announces nodes with NodeOnline messages; each node      *)
(* handles them in order on its proxy strand (ControllerConnection is      *)
(* checked to be a FIFO channel).  For each announced peer the tie-break   *)
(* shouldInitiateConnectionTo decides whether this node connects; the      *)
(* connect, the report of the local id and the creation of sender and      *)
(* receiver happen synchronously in the handler.  The peer accepts in      *)
(* onNewIncomingConnection, reads the id and creates its own pair.         *)
(*                                                                         *)
(* The Controller is not part of this repository: it is the environment,  *)
(* announcing each registered node at most once to each registered node.   *)
(***************************************************************************)
EXTENDS Integers, Sequences, FiniteSets

CONSTANTS
    Nodes,           \* node ids (nodeID_t), positive
    AssertsEnabled   \* TRUE: built without NDEBUG, so assert(...) evaluates its argument

ASSUME Nodes \subseteq Nat \ {0}

VARIABLES
    phase,      \* "down", "registered" (handshake done), "running", "crashed"
    announced,  \* announced[a]: nodes the Controller has announced to a
    inbox,      \* inbox[a]: NodeOnline lists not yet handled by a, in order
    online,     \* online[a]: NodeManager::online_node_set_
    senders,    \* senders[a]: peers with an entry in senders_ (and receivers_)
    conn,       \* TCP connections established, as <<initiator, acceptor>>
    backlog,    \* backlog[b]: initiators whose connection b has not yet accepted
    offlined,   \* offlined[a]: crashed nodes the Controller has reported to a
    gone        \* gone[a]: nodes a has handled a NodeOffline for (history)

vars == <<phase, announced, inbox, online, senders, conn, backlog, offlined, gone>>
reports == <<offlined, gone>>

\* Fault variant of ShouldInitiate: the rule of
\* UDPConnectionManager::shouldInitiateConnectionTo, always TRUE.
ShouldInitiateAlways(L, P) == TRUE

\* TCPConnectionManager::shouldInitiateConnectionTo(P) at node L.  The sum
\* is taken in uint32_t; reduction mod 2^32 keeps its parity.
ShouldInitiate(L, P) ==
    IF (L + P) % 2 = 0 THEN P > L ELSE P < L

Init ==
    /\ phase = [n \in Nodes |-> "down"]
    /\ announced = [n \in Nodes |-> {}]
    /\ inbox = [n \in Nodes |-> <<>>]
    /\ online = [n \in Nodes |-> {}]
    /\ senders = [n \in Nodes |-> {}]
    /\ conn = {}
    /\ backlog = [n \in Nodes |-> <<>>]
    /\ offlined = [n \in Nodes |-> {}]
    /\ gone = [n \in Nodes |-> {}]

\* Aggregator::start line 26: ControllerProxy's constructor completes the
\* handshake; from now on the Controller knows the node.
Register(n) ==
    /\ phase[n] = "down"
    /\ phase' = [phase EXCEPT ![n] = "registered"]
    /\ UNCHANGED <<announced, inbox, online, senders, conn, backlog, reports>>

\* Aggregator::start lines 30-61: components are built, the acceptor
\* listens (connection_manager_->init), the proxy is set up and the reactor
\* threads start; handlers can run from now on.
Start(n) ==
    /\ phase[n] = "registered"
    /\ phase' = [phase EXCEPT ![n] = "running"]
    /\ UNCHANGED <<announced, inbox, online, senders, conn, backlog, reports>>

\* The Controller sends node a a NodeOnline message listing every
\* registered node it has not yet announced to a (a itself included the
\* first time).
Announce(a) ==
    LET S == {b \in Nodes : phase[b] # "down" /\ b \notin announced[a]}
    IN /\ phase[a] \in {"registered", "running"}
       /\ S # {}
       /\ announced' = [announced EXCEPT ![a] = @ \cup S]
       /\ inbox' = [inbox EXCEPT ![a] = Append(@, [kind |-> "online", nodes |-> S])]
       /\ UNCHANGED <<phase, online, senders, conn, backlog, reports>>

\* The Controller sees the control connection of a crashed node n close
\* and sends NodeOffline(n) to each node it had announced n to.
ReportOffline(a, n) ==
    /\ phase[n] = "crashed" /\ phase[a] \in {"registered", "running"}
    /\ n \in announced[a] /\ n # a /\ n \notin offlined[a]
    /\ offlined' = [offlined EXCEPT ![a] = @ \cup {n}]
    /\ inbox' = [inbox EXCEPT ![a] = Append(@, [kind |-> "offline", node |-> n])]
    /\ UNCHANGED <<phase, announced, online, senders, conn, backlog, gone>>

\* TCPSender's constructor: assert(resolveAndConnect(url)).  The connect
\* succeeds only if the peer's acceptor is listening; otherwise connect()
\* throws boost::system::system_error, which the catch of error_code& does
\* not match, and the exception ends the node.  Without asserts the whole
\* call, connect included, is compiled out.
ConnectOutcome(a, b) ==
    IF ~AssertsEnabled THEN "skipped"
    ELSE IF phase[b] = "running" THEN "connected" ELSE "refused"

\* Connections from a to the nodes in D are established and wait to be
\* accepted.
Connected(a, D) ==
    /\ conn' = conn \cup {<<a, b>> : b \in D}
    /\ backlog' = [n \in Nodes |-> IF n \in D THEN Append(backlog[n], a)
                                             ELSE backlog[n]]

\* Fault variant of NewOnlineNodes: only the nodes this one initiates to
\* are added to the online set.
NewOnlineNodesInitiatedOnly(a, list) == {b \in list \ {a} : ShouldInitiate(a, b)}

\* NodeManager::newOnlineNodes with newOnlineNode and addNodeInfo: every
\* listed node except the local one is recorded and comes online.
NewOnlineNodes(a, list) == list \ {a}

\* ControllerProxy::dispatchControlMsgToComponent for kControlMsgNodeOnline:
\* NodeManager::newOnlineNodes adds every non-local node to the online set,
\* then, in the unordered_map's order, a sender and receiver are created for
\* every node this one should initiate to.  A refused connect ends the node
\* after the connects that came before it in that order.
HandleNodeOnline(a) ==
    /\ phase[a] = "running"
    /\ inbox[a] # <<>> /\ Head(inbox[a]).kind = "online"
    /\ LET S == NewOnlineNodes(a, Head(inbox[a]).nodes)
           I == {b \in S : ShouldInitiate(a, b)}
           refused == {b \in I : ConnectOutcome(a, b) = "refused"}
           made == {b \in I : ConnectOutcome(a, b) = "connected"}
       IN /\ inbox' = [inbox EXCEPT ![a] = Tail(@)]
          /\ online' = [online EXCEPT ![a] = @ \cup S]
          /\ IF refused # {}
             THEN /\ phase' = [phase EXCEPT ![a] = "crashed"]
                  /\ \E before \in SUBSET made :
                        /\ senders' = [senders EXCEPT ![a] = @ \cup before]
                        /\ Connected(a, before)
             ELSE /\ senders' = [senders EXCEPT ![a] = @ \cup I]
                  /\ Connected(a, made)
                  /\ UNCHANGED phase
    /\ UNCHANGED <<announced, reports>>

\* NodeManager::nodeOffline: assert that the node is online, then erase
\* it from the online set.  A failed assert aborts the process.
NodeOffline(a, n) ==
    IF n \in online[a]
      THEN /\ online' = [online EXCEPT ![a] = @ \ {n}]
           /\ UNCHANGED phase
      ELSE /\ phase' = [phase EXCEPT ![a] = "crashed"]
           /\ UNCHANGED online

\* NodeManager::getNodeStatus(n) at node a: the local node is online at
\* "localhost"; an unknown node throws (n \notin Known(a)); otherwise the
\* pair of (online_i == end()) and the node's URL, here the node itself.
Known(a) == online[a] \cup gone[a]
GetNodeStatus(a, n) ==
    IF n = a THEN [online |-> TRUE, url |-> "localhost"]
    ELSE [online |-> n \notin online[a], url |-> n]

\* TCPConnectionManager::remove: erase the peer's sender and receiver.
Remove(a, n) == senders' = [senders EXCEPT ![a] = @ \ {n}]

\* ControllerProxy::dispatchControlMsgToComponent for kControlMsgNodeOffline.
HandleNodeOffline(a) ==
    /\ phase[a] = "running"
    /\ inbox[a] # <<>> /\ Head(inbox[a]).kind = "offline"
    /\ LET n == Head(inbox[a]).node
       IN /\ NodeOffline(a, n)
          /\ Remove(a, n)
          /\ gone' = [gone EXCEPT ![a] = @ \cup {n}]
    /\ inbox' = [inbox EXCEPT ![a] = Tail(@)]
    /\ UNCHANGED <<announced, conn, backlog, offlined>>

\* Fault variant of Accept: the new sender is keyed by the local id
\* instead of the id read from the socket.
AcceptWrongKey(b) ==
    /\ phase[b] = "running"
    /\ backlog[b] # <<>>
    /\ senders' = [senders EXCEPT ![b] = @ \cup {b}]
    /\ backlog' = [backlog EXCEPT ![b] = Tail(@)]
    /\ UNCHANGED <<phase, announced, inbox, online, conn, reports>>

\* TCPConnectionManager::onNewIncomingConnection: read the peer's id from
\* the accepted socket, create and start a sender and a receiver for it,
\* and accept again.
Accept(b) ==
    /\ phase[b] = "running"
    /\ backlog[b] # <<>>
    /\ senders' = [senders EXCEPT ![b] = @ \cup {Head(backlog[b])}]
    /\ backlog' = [backlog EXCEPT ![b] = Tail(@)]
    /\ UNCHANGED <<phase, announced, inbox, online, conn, reports>>

\* Every node is up and every message handled: the cluster idles.
Settled ==
    /\ \A n \in Nodes : phase[n] \in {"running", "crashed"}
    /\ \A n \in Nodes : phase[n] = "running" => inbox[n] = <<>> /\ backlog[n] = <<>>
    /\ UNCHANGED vars

Next ==
    \/ \E n \in Nodes : Register(n) \/ Start(n) \/ HandleNodeOnline(n) \/ Accept(n)
                       \/ HandleNodeOffline(n)
    \/ \E a \in Nodes : Announce(a) \/ \E n \in Nodes : ReportOffline(a, n)
    \/ Settled

\* A started node finishes its start-up, and its reactor threads run the
\* handlers of queued control messages and accepted connections.
Spec ==
    /\ Init /\ [][Next]_vars
    /\ \A n \in Nodes : WF_vars(Start(n)) /\ WF_vars(HandleNodeOnline(n))
                        /\ WF_vars(Accept(n)) /\ WF_vars(HandleNodeOffline(n))

-----------------------------------------------------------------------------
(* Properties *)

Linked(a, b) ==
    /\ b \in senders[a] /\ a \in senders[b]
    /\ (<<a, b>> \in conn \/ <<b, a>> \in conn)

\* The tie-break of shouldInitiateConnectionTo, applied independently by
\* the two nodes, never opens two TCP connections between one pair.
OneConnectionPerPair ==
    \A a, b \in Nodes : ~(<<a, b>> \in conn /\ <<b, a>> \in conn)

\* Once two running nodes have been announced to each other, they end up
\* with a sender to each other over one connection, unless one crashed.
EventuallyLinked ==
    \A a, b \in Nodes :
        (a # b /\ b \in announced[a] /\ a \in announced[b])
            ~> (Linked(a, b) \/ phase[a] = "crashed" \/ phase[b] = "crashed")

\* NodeManager::nodeOffline asserts that a NodeOffline names an online
\* node: the Controller's reports, handled in order after the NodeOnline
\* that announced the node, never make the assert at line 116 fail.
OfflineNodeWasOnline ==
    [][\A a \in Nodes :
         HandleNodeOffline(a) => Head(inbox[a]).node \in online[a]]_vars

\* spec.md section 4.8: NodeOffline drops the node's sender and receiver.
\* Once a node has handled NodeOffline(n), it has no sender for n.
NoSenderAfterOffline ==
    \A a, n \in Nodes : n \in gone[a] => n \notin senders[a]

\* node_manager.hpp: getNodeStatus returns a pair whose first element is
\* the node's online status.  For every node a node has heard of, it is
\* TRUE exactly when the node is in the online set.
NodeStatusIsOnline ==
    \A a \in Nodes : \A n \in Known(a) \ {a} : GetNodeStatus(a, n).online = (n \in online[a])

\* spec.md section 7: a peer I/O failure is isolated to that peer; no
\* node process ends because a peer cannot be reached.
NoNodeCrash ==
    \A n \in Nodes : phase[n] # "crashed"
=============================================================================
