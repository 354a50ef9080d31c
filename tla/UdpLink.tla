-------------------------------- MODULE UdpLink --------------------------------
(***************************************************************************)
(* One UDP peer link (networking/udp_connection.cpp,                      *)
(* networking/udp_connection_manager.cpp) with the test coder pair         *)
(* (coder/fake_udp_coder.hpp, coder/coding_parameters.hpp) and the coder  *)
(* interface (datapath/coder/udp_coder_interfaces.cpp).                   *)
(*                                                                         *)
(* Node A sends to node B.  On A, a minion routed to the peer runs        *)
(* UDPSender::process: the session's encoder (created on first use)       *)
(* stamps its 32-bit coding-parameters word in the header and counts the  *)
(* packet, and the minion enters the outbox q_.  The socket wrapper takes *)
(* one minion at a time from the outbox and sends its datagram; its       *)
(* completion handler posts the minion back to the pool and requests the  *)
(* next.  On B, the receiver reads one datagram at a time into            *)
(* pending_msg_; a data datagram requests a minion from B's pool, and     *)
(* UDPReceiver::process swaps the message into it, decodes it, and sends  *)
(* an ack carrying the decoder's word; the ack's completion restarts the  *)
(* receive.  On A, the receiver routes the ack by its dst field to the     *)
(* sender for B, whose onAck resets the session's encoder to the word.    *)
(*                                                                         *)
(* The network may lose datagrams and deliver them in any order.  With    *)
(* Churn, A's connection manager may remove the sender for B (NodeOffline) *)
(* and create it again (NodeOnline).  The coding-parameters word is kept  *)
(* as its four bytes <<T, B, N, counter>> with byte-wise carries, which   *)
(* is uint32_t arithmetic modulo 2^32.                                     *)
(***************************************************************************)
EXTENDS Naturals, Sequences, SequencesExt

CONSTANTS
    Sessions,    \* session IDs of the messages A routes to B
    AMinions,    \* A's minions that carry messages to B
    BPool,       \* the number of minions in B's receiving pool
    NoMinion,    \* current_minion_ before the first wake-up
    Lossy,       \* the network may drop datagrams
    Churn,       \* A's controller proxy may remove and re-create the sender
    MaxSends,    \* bound on the messages A routes
    MaxChurn     \* bound on remove/create calls

ASSUME NoMinion \notin AMinions

(* ---- The coding-parameters word ---- *)

Byte == 0..255

\* CodingParameters::encode(T, B, N, counter): T | B<<8 | N<<16 | counter<<24.
WordOf(T, B, N, c) == <<T, B, N, c>>

\* uint32_t addition: byte-wise with carry, the carry out of the top byte
\* dropped.
RECURSIVE AddFrom(_, _, _, _)
AddFrom(a, b, i, carry) ==
    IF i > 4 THEN <<>>
    ELSE LET s == a[i] + b[i] + carry
         IN <<s % 256>> \o AddFrom(a, b, i + 1, s \div 256)

AddWord(a, b) == AddFrom(a, b, 1, 0)

\* params_.fetch_add(1 << 24).
IncrementCounter(w) == AddWord(w, WordOf(0, 0, 0, 1))

\* CodingParameters::set(params, true): params & 0xFFFFFF.
ResetCounter(w) == [w EXCEPT ![4] = 0]

\* FakeEncoder(): params_.set(1, 1, 1, 0).
FakeEncoderInit == WordOf(1, 1, 1, 0)

\* FakeDecoder::decode: params_.set(coding_parameters + 0x1010101).
FakeDecode(w) == AddWord(w, WordOf(1, 1, 1, 1))

NoCoder == <<>>       \* encoders_/decoders_ hold no entry for the session
DecoderInit == WordOf(0, 0, 0, 0)   \* FakeDecoder() = default: params_(0)

VARIABLES
    aloc,      \* aloc[m]: "pool", "enc" (encoded, entering q_), "outbox",
               \* "wrapper", or "lost" (in a sender that was destroyed)
    msess,     \* msess[m]: the session of the message minion m carries
    mword,     \* mword[m]: the coding_parameters in its header
    mid,       \* mid[m]: the id of its datagram
    outq,      \* the outbox's queued minions, oldest first
    asks,      \* requests of the socket wrapper parked in the outbox
    current,   \* UDPSenderSocketWrapper::current_minion_
    sending,   \* an async_send of current_minion_ is in flight
    enc,       \* UDPSender::encoders_: enc[s] the encoder's word, or NoCoder
    senderUp,  \* UDPConnectionManager::senders_ holds the sender for B
    peerSet,   \* A's UDPReceiver::senders_ holds B
    net,       \* datagrams in flight
    sent,      \* datagrams A has sent so far
    rst,       \* B's receiver: "recv", "wait" (minion requested), "ack"
    parked,    \* the receiver's request is parked in B's pool
    pending,   \* the datagram in B's pending_msg_
    binuse,    \* B's minions taken from its pool and not yet back
    dec,       \* UDPReceiver::decoders_ on B
    accepted,  \* the data datagram ids B read, in order
    delivered, \* the ids B's process handed to the crossbar, in order
    crashed,   \* A died: a failed assert or a null dereference on its ack path
    churns     \* remove/create calls so far

vars == <<aloc, msess, mword, mid, outq, asks, current, sending, enc,
          senderUp, peerSet, net, sent, rst, parked, pending, binuse, dec,
          accepted, delivered, crashed, churns>>

\* A datagram on the wire: data (id, session, word) or an ack.
Data(i, s, w) == [ack |-> FALSE, id |-> i, sess |-> s, word |-> w]
Ack(i, s, w) == [ack |-> TRUE, id |-> i, sess |-> s, word |-> w]

\* UDPConnectionManager::init and create(url, B): the receiver on A, the
\* sender with its empty encoder map, whose constructor connects and
\* calls startSending() (one request parked in the empty outbox), and
\* setupPeer(B, sender).  B's receiver has started receiving.
Init ==
    /\ aloc = [m \in AMinions |-> "pool"]
    /\ msess = [m \in AMinions |-> CHOOSE s \in Sessions : TRUE]
    /\ mword = [m \in AMinions |-> DecoderInit]
    /\ mid = [m \in AMinions |-> 0]
    /\ outq = <<>> /\ asks = 1 /\ current = NoMinion /\ sending = FALSE
    /\ enc = [s \in Sessions |-> NoCoder]
    /\ senderUp = TRUE /\ peerSet = TRUE
    /\ net = {} /\ sent = 0
    /\ rst = "recv" /\ parked = FALSE /\ pending = Data(0, CHOOSE s \in Sessions : TRUE, DecoderInit)
    /\ binuse = 0
    /\ dec = [s \in Sessions |-> NoCoder]
    /\ accepted = <<>> /\ delivered = <<>>
    /\ crashed = FALSE /\ churns = 0

\* Minions in the sender's pipeline when the sender is destroyed: the
\* outbox and the wrapper go with it, and a thread between encode and the
\* push into q_ pushes into a freed queue.  None of them comes back.
LoseSenderMinions ==
    [m \in AMinions |-> IF aloc[m] \in {"enc", "outbox", "wrapper"}
                        THEN "lost" ELSE aloc[m]]

\* The socket wrapper, woken with minion m: current_minion_ = m, the
\* timestamp is stamped and async_send issues the datagram.
WrapperProcess(m) ==
    /\ current' = m
    /\ sending' = TRUE
    /\ net' = net \cup {Data(mid[m], msess[m], mword[m])}

\* The crossbar routes minion m, carrying a new message of session s, to
\* the sender for B.  UDPSender::process, under mtx_: the encoder of s is
\* created if missing, and FakeEncoder::encode stamps
\* readEncodedAndIncrement() in the header (encode returns true).  The
\* header fields are set after the lock; the minion then enters q_
\* (Enqueue).
Route(m, s) ==
    /\ ~crashed /\ senderUp
    /\ aloc[m] = "pool" /\ sent < MaxSends
    /\ LET e == IF enc[s] = NoCoder THEN FakeEncoderInit ELSE enc[s]
       IN /\ mword' = [mword EXCEPT ![m] = e]
          /\ enc' = [enc EXCEPT ![s] = IncrementCounter(e)]
    /\ msess' = [msess EXCEPT ![m] = s]
    /\ mid' = [mid EXCEPT ![m] = sent + 1]
    /\ sent' = sent + 1
    /\ aloc' = [aloc EXCEPT ![m] = "enc"]
    /\ UNCHANGED <<parked, outq, asks, current, sending, senderUp, peerSet, net, rst,
                   pending, binuse, dec, accepted, delivered, crashed, churns>>

\* MinionStopQueueType::process of the outbox: a parked request of the
\* wrapper is woken and the wrapper runs on this thread, or m is queued.
Enqueue(m) ==
    /\ ~crashed /\ aloc[m] = "enc"
    /\ IF asks > 0
       THEN /\ asks' = asks - 1
            /\ aloc' = [aloc EXCEPT ![m] = "wrapper"]
            /\ WrapperProcess(m)
            /\ UNCHANGED outq
       ELSE /\ outq' = Append(outq, m)
            /\ aloc' = [aloc EXCEPT ![m] = "outbox"]
            /\ UNCHANGED <<asks, current, sending, net>>
    /\ UNCHANGED <<parked, msess, mword, mid, enc, senderUp, peerSet, sent, rst,
                   pending, binuse, dec, accepted, delivered, crashed, churns>>

\* Fault variant of DataSent: the next minion is not requested.
DataSentNoRequest ==
    /\ ~crashed /\ sending
    /\ aloc' = [aloc EXCEPT ![current] = "pool"]
    /\ sending' = FALSE
    /\ UNCHANGED <<parked, msess, mword, mid, outq, asks, current, enc, senderUp,
                   peerSet, net, sent, rst, pending, binuse, dec, accepted,
                   delivered, crashed, churns>>

\* UDPSenderSocketWrapper::onDataSent (the error is ignored): the extra
\* data list is empty, so current_minion_ is posted back to the pool, and
\* startSending() requests the next minion from the outbox: the oldest
\* queued one wakes the wrapper on this thread, or the request is parked.
DataSent ==
    /\ ~crashed /\ sending
    /\ LET back == [aloc EXCEPT ![current] = "pool"]
       IN IF outq # <<>>
          THEN LET n == Head(outq) IN
                 /\ outq' = Tail(outq)
                 /\ aloc' = [back EXCEPT ![n] = "wrapper"]
                 /\ WrapperProcess(n)
                 /\ UNCHANGED asks
          ELSE /\ asks' = asks + 1
               /\ aloc' = back
               /\ sending' = FALSE
               /\ UNCHANGED <<outq, current, net>>
    /\ UNCHANGED <<parked, msess, mword, mid, enc, senderUp, peerSet, sent, rst,
                   pending, binuse, dec, accepted, delivered, crashed, churns>>

\* The network drops datagram d.
Lose(d) ==
    /\ Lossy /\ d \in net
    /\ net' = net \ {d}
    /\ UNCHANGED <<parked, aloc, msess, mword, mid, outq, asks, current, sending, enc,
                   senderUp, peerSet, sent, rst, pending, binuse, dec,
                   accepted, delivered, crashed, churns>>

\* UDPReceiver::process on B for datagram d, with a minion of B's pool:
\* swapData(pending_msg_), the session's decoder is created if missing
\* and decodes (FakeDecoder: the header's word plus 0x1010101; decode
\* returns true), the ack header is the message's header with ack set and
\* the decoder's word, and async_send_to sends it (A is not the loopback
\* address); the minion goes to the crossbar.  rest is the network
\* without the datagram just read.
Process(d, rest) ==
    LET w == FakeDecode(d.word)
    IN /\ dec' = [dec EXCEPT ![d.sess] = w]
       /\ delivered' = Append(delivered, d.id)
       /\ net' = rest \cup {Ack(d.id, d.sess, w)}
       /\ rst' = "ack"

\* Fault variant of ReadData: startReceiving() follows the pool request
\* at once, as on the TCP receiver, even when the request is parked.
ReadDataRestartEarly(d) ==
    /\ rst = "recv" /\ d \in net /\ ~d.ack
    /\ pending' = d
    /\ accepted' = Append(accepted, d.id)
    /\ IF binuse < BPool
       THEN binuse' = binuse + 1 /\ Process(d, net \ {d}) /\ UNCHANGED parked
       ELSE /\ net' = net \ {d} /\ parked' = TRUE
            /\ UNCHANGED <<binuse, dec, delivered, rst>>
    /\ UNCHANGED <<aloc, msess, mword, mid, outq, asks, current, sending, enc,
                   senderUp, peerSet, sent, crashed, churns>>

\* B's receiver reads data datagram d into pending_msg_: onDataReceived
\* parses it (not an ack) and calls pool_->request(this).  A free minion
\* runs process at once on this thread; otherwise the request is parked
\* and no receive is outstanding until a minion takes it.
ReadData(d) ==
    /\ rst = "recv" /\ d \in net /\ ~d.ack
    /\ pending' = d
    /\ accepted' = Append(accepted, d.id)
    /\ IF binuse < BPool
       THEN binuse' = binuse + 1 /\ Process(d, net \ {d}) /\ UNCHANGED parked
       ELSE /\ net' = net \ {d} /\ parked' = TRUE /\ rst' = "wait"
            /\ UNCHANGED <<binuse, dec, delivered>>
    /\ UNCHANGED <<aloc, msess, mword, mid, outq, asks, current, sending, enc,
                   senderUp, peerSet, sent, crashed, churns>>

\* Fault variant of AckSent: the completion handler does not restart the
\* receive.
AckSentNoRestart ==
    /\ rst = "ack"
    /\ UNCHANGED vars

\* The completion of async_send_to (an error is only logged):
\* startReceiving() recycles pending_msg_ and reads the next datagram.
AckSent ==
    /\ rst = "ack"
    /\ rst' = "recv"
    /\ UNCHANGED <<parked, aloc, msess, mword, mid, outq, asks, current, sending, enc,
                   senderUp, peerSet, net, sent, pending, binuse, dec,
                   accepted, delivered, crashed, churns>>

\* A minion of B, sent on by the crossbar, comes back to MinionPool::process
\* on B: it serves the receiver's parked request (process runs on this
\* thread) or is queued.
BReturn ==
    /\ binuse > 0
    /\ IF parked
       THEN Process(pending, net) /\ parked' = FALSE /\ UNCHANGED binuse
       ELSE binuse' = binuse - 1 /\ UNCHANGED <<dec, delivered, net, rst, parked>>
    /\ UNCHANGED <<aloc, msess, mword, mid, outq, asks, current, sending, enc,
                   senderUp, peerSet, sent, pending, accepted, crashed, churns>>

\* A's receiver reads ack datagram a.  onDataReceived looks up the sender
\* for the ack's dst (B) in senders_ and asserts it is there (without
\* NDEBUG the process aborts; with it, end() is dereferenced).
\* UDPSender::onAck then calls encoders_[session]->setParameters(word):
\* operator[] inserts a null encoder when the session has none, and the
\* call dereferences it.  setParameters keeps T, B, N and resets the
\* counter.  The receive is restarted.
ReadAck(a) ==
    /\ ~crashed /\ a \in net /\ a.ack
    /\ net' = net \ {a}
    /\ IF peerSet /\ enc[a.sess] # NoCoder
       THEN /\ enc' = [enc EXCEPT ![a.sess] = ResetCounter(a.word)]
            /\ UNCHANGED crashed
       ELSE /\ crashed' = TRUE
            /\ UNCHANGED enc
    /\ UNCHANGED <<parked, aloc, msess, mword, mid, outq, asks, current, sending,
                   senderUp, peerSet, sent, rst, pending, binuse, dec,
                   accepted, delivered, churns>>

\* NodeOffline for B on A: ControllerProxy calls connections_->remove(B):
\* receiver_->removePeer(B), then senders_.erase(B) destroys the sender,
\* its encoders, its outbox and its socket wrapper.
RemoveSender ==
    /\ Churn /\ ~crashed /\ senderUp /\ churns < MaxChurn
    /\ churns' = churns + 1
    /\ peerSet' = FALSE /\ senderUp' = FALSE
    /\ enc' = [s \in Sessions |-> NoCoder]
    /\ aloc' = LoseSenderMinions
    /\ outq' = <<>> /\ asks' = 0 /\ sending' = FALSE
    /\ UNCHANGED <<parked, msess, mword, mid, current, net, sent, rst, pending,
                   binuse, dec, accepted, delivered, crashed>>

\* NodeOnline naming B on A: UDP always initiates, so
\* connections_->create(url, B) builds a new sender (destroying one that
\* is already there), whose constructor parks one request in its empty
\* outbox, and setupPeer(B, sender).
CreateSender ==
    /\ Churn /\ ~crashed /\ churns < MaxChurn
    /\ churns' = churns + 1
    /\ peerSet' = TRUE /\ senderUp' = TRUE
    /\ enc' = [s \in Sessions |-> NoCoder]
    /\ aloc' = LoseSenderMinions
    /\ outq' = <<>> /\ asks' = 1 /\ sending' = FALSE
    /\ UNCHANGED <<parked, msess, mword, mid, current, net, sent, rst, pending,
                   binuse, dec, accepted, delivered, crashed>>

\* A routes no more: it has routed its MaxSends messages, has died, has
\* no sender for B, or has lost every minion.
Done ==
    /\ \/ sent = MaxSends \/ crashed \/ ~senderUp
       \/ \A m \in AMinions : aloc[m] = "lost"
    /\ UNCHANGED vars

Next ==
    \/ \E m \in AMinions : \/ \E s \in Sessions : Route(m, s)
                           \/ Enqueue(m)
    \/ DataSent
    \/ \E d \in net : Lose(d) \/ ReadData(d) \/ ReadAck(d)
    \/ AckSent \/ BReturn
    \/ RemoveSender \/ CreateSender
    \/ Done

\* The reactors run every posted handler and completion, threads that
\* hold an encoded minion go on to push it, B's crossbar returns its
\* minions, and a datagram that is not lost is eventually read.
Spec ==
    /\ Init /\ [][Next]_vars
    /\ \A m \in AMinions : WF_vars(Enqueue(m))
    /\ WF_vars(DataSent) /\ WF_vars(AckSent) /\ WF_vars(BReturn)
    /\ WF_vars(\E d \in net : ReadData(d) \/ ReadAck(d))

-----------------------------------------------------------------------------
(* Properties *)

\* spec.md 4.6: B's receiver hands the crossbar each data datagram it
\* read, once and in the order read; the one it is waiting on a minion
\* for stays in pending_msg_ until a minion takes it.
ReceiverIntact ==
    /\ IsPrefix(delivered, accepted)
    /\ Len(accepted) - Len(delivered) <= 1

\* Every minion A routes to B is eventually sent and back in A's pool,
\* unless the sender holding it is destroyed or A dies first.
EveryMinionReturns ==
    \A m \in AMinions :
        aloc[m] \in {"enc", "outbox", "wrapper"}
            ~> (aloc[m] \in {"pool", "lost"} \/ crashed)

\* B's receiver always resumes receiving after a datagram.
ReceiverResumes == rst # "recv" ~> rst = "recv"

\* A's process survives every ack that reaches it.
NoAckCrash == ~crashed
====
