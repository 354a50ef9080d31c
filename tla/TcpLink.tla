-------------------------------- MODULE TcpLink --------------------------------
(***************************************************************************)
(* One direction of a TCP peer link: the sending node's TCPSender and     *)
(* socket wrapper (TcpSender) and the receiving node's TCPReceiver with   *)
(* its pool (TcpReceiver), joined by the TCP stream: the frames the       *)
(* sender puts on the wire are the frames the receiver reads.  Each step  *)
(* is a step of one of the two nodes.                                     *)
(***************************************************************************)
EXTENDS TcpSender

CONSTANTS RMinions, RBuf0

VARIABLES rnext, pending, holds, content, rd, rpc, rloc, waiters, delivered, crashed

R == INSTANCE TcpReceiver

recvVars == <<rnext, pending, holds, content, rd, rpc, rloc, waiters, delivered, crashed>>

linkVars == <<vars, recvVars>>

LinkInit == Init /\ R!Init

SenderStep == Next /\ UNCHANGED recvVars

ReceiverStep == R!Next /\ UNCHANGED vars

LinkNext == SenderStep \/ ReceiverStep

\* The sender's completions are weakly fair, as in TcpSender; so are the
\* receiver's read handlers and startReceiving (the reactor runs every
\* completed handler), and the return of each minion (the crossbar and
\* sink of the receiving node hand every minion back to the pool).
LinkSpec ==
    /\ LinkInit /\ [][LinkNext]_linkVars
    /\ WF_linkVars(\E i \in 1..Len(sends) : OnDataSent(i) /\ UNCHANGED recvVars)
    /\ WF_linkVars(R!SizeRead /\ UNCHANGED vars)
    /\ WF_linkVars(R!DataRead /\ UNCHANGED vars)
    /\ WF_linkVars(R!StartReceiving /\ UNCHANGED vars)
    /\ \A m \in RMinions : WF_linkVars(R!Return(m) /\ UNCHANGED vars)

-----------------------------------------------------------------------------
(* Properties *)

\* spec.md 4.6: the receiver hands the crossbar each frame it reads, whole,
\* once and in stream order, and no assert of its read handlers fails.
ReceiverIntact ==
    /\ ~crashed
    /\ \A k \in 1..Len(delivered) : delivered[k] = [f |-> k, full |-> TRUE]

\* What the receiving crossbar got, as the minions of the sending node
\* that carried those frames; anything but a whole frame maps to NoMinion.
LinkDelivered ==
    [k \in 1..Len(delivered) |->
        IF delivered[k].full /\ delivered[k].f \in 1..Len(wire)
        THEN wire[delivered[k].f] ELSE NoMinion]

Link == INSTANCE FifoChannel WITH Msgs <- Minions, sent <- routed,
                                  delivered <- LinkDelivered

\* The link from the sending crossbar to the receiving crossbar is a
\* reliable FIFO channel: every message routed to the peer arrives there
\* once, in routing order, and eventually.
LinkIsFifo == Link!ChanSpec
=============================================================================
