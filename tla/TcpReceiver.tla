------------------------------ MODULE TcpReceiver ------------------------------
(***************************************************************************)
(* The receive half of one TCP peer link (TCPReceiver in                  *)
(* networking/tcp_connection.cpp) with the node's MinionPool.             *)
(*                                                                         *)
(* The receiver owns one Message object, pending_msg_.  It reads the size *)
(* prefix of the next frame into it, then the rest of the frame; the      *)
(* completion handler onDataReceived parses it, requests a minion from    *)
(* the pool and restarts with startReceiving, which recycles pending_msg_ *)
(* and reads the next size.  A minion handed to the receiver (at once, or *)
(* later by MinionPool::process when the request was parked) swaps its    *)
(* own, recycled Message object with pending_msg_ and carries the frame   *)
(* to the crossbar.                                                        *)
(*                                                                         *)
(* Message objects are named: Buffers holds one per minion and the        *)
(* receiver's own.  An outstanding read keeps writing into the object it  *)
(* was issued on, whoever holds that object by the time the bytes come.   *)
(* Frames are named by their position on the wire.  The pool is its       *)
(* atomic rendezvous (checked against the lock-free code in               *)
(* MinionStopQueue.tla).  The socket is taken as healthy: the error       *)
(* branches of the two read handlers are not modelled (see README).      *)
(* TcpLink.tla composes this module with TcpSender and states its        *)
(* fairness.                                                              *)
(***************************************************************************)
EXTENDS Naturals, Sequences

CONSTANTS
    RMinions,   \* the minions of the receiving node's pool
    RBuf0       \* the Message object the receiver is constructed with

Buffers == RMinions \cup {RBuf0}

\* What a Message object holds: frame f's size prefix only (full = FALSE),
\* the whole of frame f, or nothing (f = 0) after recycle().
Empty == [f |-> 0, full |-> FALSE]

NoRead == [op |-> "none", buf |-> RBuf0]

VARIABLES
    wire,       \* frames the peer has sent (read only here)
    rnext,      \* position on the wire of the next frame to read
    pending,    \* the Message object pending_msg_ points to
    holds,      \* holds[m]: the Message object minion m carries (data_)
    content,    \* content[b]: what Message object b holds
    rd,         \* the outstanding async_read: its kind and target object
    rpc,        \* "idle", or "restart" between request and startReceiving
    rloc,       \* rloc[m]: "pool" or "away" (crossbar, sink, back)
    waiters,    \* requests of the receiver parked in the pool
    delivered,  \* contents handed to the crossbar, in order
    crashed     \* an assert of the read handlers failed

\* TCPReceiver's constructor and the startReceiving() of create() or
\* onNewIncomingConnection: pending_msg_ recycled, the size read issued.
\* MinionPool::create has woken every minion into the pool.
Init ==
    /\ rnext = 1
    /\ pending = RBuf0
    /\ holds = [m \in RMinions |-> m]
    /\ content = [b \in Buffers |-> Empty]
    /\ rd = [op |-> "size", buf |-> RBuf0]
    /\ rpc = "idle"
    /\ rloc = [m \in RMinions |-> "pool"]
    /\ waiters = 0
    /\ delivered = <<>>
    /\ crashed = FALSE

\* Fault variant of Process: the minion forwards its own Message object
\* instead of swapping it with pending_msg_.
ProcessNoSwap(m, holds0, pending0, content0) ==
    /\ delivered' = Append(delivered, content0[holds0[m]])
    /\ UNCHANGED <<holds, pending>>

\* TCPReceiver::process: minion->swapData(pending_msg_) and on to the
\* crossbar, which receives what the swapped-in object holds now.
Process(m, holds0, pending0, content0) ==
    /\ holds' = [holds0 EXCEPT ![m] = pending0]
    /\ pending' = holds0[m]
    /\ delivered' = Append(delivered, content0[pending0])

\* The size read completes: the frame's size prefix is in the object the
\* read was issued on.  onMessageSizeReceived then asserts
\* pending_msg_->message_size() > 0 -- on the object pending_msg_ points
\* to now -- and reads the rest of the frame into it.
SizeRead ==
    /\ ~crashed /\ rd.op = "size"
    /\ rnext <= Len(wire)
    /\ LET c == [content EXCEPT ![rd.buf] = [f |-> rnext, full |-> FALSE]]
       IN /\ content' = c
          /\ IF c[pending].f = 0
             THEN crashed' = TRUE /\ rd' = NoRead
             ELSE rd' = [op |-> "data", buf |-> pending] /\ UNCHANGED crashed
    /\ UNCHANGED <<rnext, pending, holds, rpc, rloc, waiters, delivered>>

\* The data read completes into its object, and onDataReceived runs:
\* fromBuffer parses pending_msg_, then pool_->request(this).  A minion in
\* the pool is woken on this thread and runs Process; otherwise the
\* request is parked.  startReceiving() follows as a separate step.
DataRead ==
    /\ ~crashed /\ rd.op = "data"
    /\ LET c == [content EXCEPT ![rd.buf] = [f |-> rnext, full |-> TRUE]]
       IN IF \E m \in RMinions : rloc[m] = "pool"
          THEN \E m \in {x \in RMinions : rloc[x] = "pool"} :
                 /\ Process(m, holds, pending, c)
                 /\ rloc' = [rloc EXCEPT ![m] = "away"]
                 /\ content' = c
                 /\ UNCHANGED waiters
          ELSE /\ waiters' = waiters + 1
                 /\ content' = c
                 /\ UNCHANGED <<holds, pending, delivered, rloc>>
    /\ rnext' = rnext + 1
    /\ rd' = NoRead
    /\ rpc' = "restart"
    /\ UNCHANGED crashed

\* Fault variant of StartReceiving: the buffer is recycled but no read
\* is issued.
StartReceivingNoRead ==
    /\ ~crashed /\ rpc = "restart"
    /\ content' = [content EXCEPT ![pending] = Empty]
    /\ rpc' = "idle"
    /\ UNCHANGED <<rnext, pending, holds, rloc, waiters, delivered, crashed, rd>>

\* startReceiving(): pending_msg_->recycle() and the next size read.
StartReceiving ==
    /\ ~crashed /\ rpc = "restart"
    /\ content' = [content EXCEPT ![pending] = Empty]
    /\ rd' = [op |-> "size", buf |-> pending]
    /\ rpc' = "idle"
    /\ UNCHANGED <<rnext, pending, holds, rloc, waiters, delivered, crashed>>

\* The minion comes back from the crossbar and the sink to
\* MinionPool::process: recycle() empties its Message object; a parked
\* request of the receiver is served on this thread (Process), otherwise
\* the minion is queued in the pool.
Return(m) ==
    /\ ~crashed /\ rloc[m] = "away"
    /\ LET c == [content EXCEPT ![holds[m]] = Empty]
       IN /\ content' = c
          /\ IF waiters > 0
             THEN /\ waiters' = waiters - 1
                  /\ Process(m, holds, pending, c)
                  /\ UNCHANGED rloc
             ELSE /\ rloc' = [rloc EXCEPT ![m] = "pool"]
                  /\ UNCHANGED <<waiters, holds, pending, delivered>>
    /\ UNCHANGED <<rnext, rd, rpc, crashed>>

Next == SizeRead \/ DataRead \/ StartReceiving \/ \E m \in RMinions : Return(m)
=============================================================================
