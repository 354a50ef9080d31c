------------------------- MODULE ControllerConnection -------------------------
(***************************************************************************)
(* ControllerConnection and ControllerProxy (controller/): the node's one  *)
(* TCP connection to the Controller, carrying NUL-terminated JSON both     *)
(* ways.                                                                   *)
(*                                                                         *)
(* Up: Crossbar::queryForwardingTableEntry emits a notification from any   *)
(* worker thread; the observer (ISerializedObserver::wrappedHandler) posts *)
(* handleNotification to the proxy's strand, which is also the connection's*)
(* output_strand_.  sendControlMsg appends to output_queue_ and, if no     *)
(* write is in flight (should_call_send_), startSend splices the queue     *)
(* into output_buffer_ and issues one async_write whose completion, onSent,*)
(* is wrapped back into the strand.                                        *)
(*                                                                         *)
(* Down: async_read_until(input_buf_, '\0') completes once the buffer holds *)
(* a NUL; onRecv extracts every complete message, puts the unterminated    *)
(* tail back and starts the next read; each message is checked and         *)
(* dispatched by ControllerProxy::onControlMsgReceived.                    *)
(*                                                                         *)
(* A JSON message is abstracted to one symbol; its bytes on the wire are   *)
(* that symbol followed by the NUL terminator.                            *)
(***************************************************************************)
EXTENDS Integers, Sequences, SequencesExt

CONSTANTS
    UpMsgs,    \* notifications the node sends (e.g. routing queries)
    DownMsgs,  \* control messages the Controller sends
    Nul        \* the '\0' delimiter

Malformed == "malformed"   \* what a byte run that is no single message parses to

VARIABLES
    notified,          \* messages whose notification has been emitted
    strand,            \* handlers posted to the strand, in post order
    output_queue,      \* output_queue_ (with output_queue_chunks_)
    output_buffer,     \* output_buffer_ (with output_buffer_chunks_)
    should_call_send,  \* should_call_send_
    writes,            \* async_writes in flight: the bytes each has left to write
    upwire,            \* bytes that reached the Controller
    down_sent,         \* messages the Controller has written
    downwire,          \* bytes on their way to the node
    input_buf,         \* input_buf_
    recv,              \* "reading": async_read_until pending; "handler": onRecv due
    dispatched,        \* messages passed to dispatchControlMsgToComponent
    broken,            \* the TCP connection was reset: socket_ operations now fail
    alive,             \* FALSE once the process has aborted (assert or throw ec)
    asserts_on,        \* the build: TRUE without NDEBUG, so assert() evaluates
    failed_bytes       \* auxiliary: the bytes of writes that failed, for UpSent

upVars == <<notified, strand, output_queue, output_buffer, should_call_send,
            writes, upwire>>
downVars == <<down_sent, downwire, input_buf, recv, dispatched>>
connVars == <<broken, alive, asserts_on, failed_bytes>>
vars == <<upVars, downVars, connVars>>

Bytes == UpMsgs \cup DownMsgs \cup {Nul}
StartSendH == [h |-> "startSend"]
\* onSent posted with ec clear and bytes_transferred the whole buffer, or
\* with ec set and fewer bytes.
OnSentH == [h |-> "onSent", ok |-> TRUE]
OnSentErrH == [h |-> "onSent", ok |-> FALSE]
HandleH(m) == [h |-> "handle", m |-> m]

\* sendControlMsg, lines 204-213: the serialized message and its NUL.
Encode(m) == <<m, Nul>>
EncodeAll(ms) == FlattenSeq([i \in DOMAIN ms |-> Encode(ms[i])])

\* rapidjson's Parse followed by the shape check of onControlMsgReceived.
Decode(body) == IF Len(body) = 1 THEN body[1] ELSE Malformed
DecodeAll(bodies) == [i \in DOMAIN bodies |-> Decode(bodies[i])]

\* The getline loop of onRecv: every NUL-terminated run becomes one message
\* and what follows the last NUL is written back to the buffer (ostr << msg).
NulPositions(buf) == SetToSortSeq({i \in DOMAIN buf : buf[i] = Nul}, <)
SplitFrames(buf) ==
    LET p == NulPositions(buf)
        from(j) == IF j = 1 THEN 1 ELSE p[j - 1] + 1
    IN [frames |-> [j \in DOMAIN p |-> SubSeq(buf, from(j), p[j] - 1)],
        rest   |-> SubSeq(buf, IF p = <<>> THEN 1 ELSE Last(p) + 1, Len(buf))]

\* Fault variant of StartSend: should_call_send_ is not cleared (line 161
\* missing) when a write is issued.
StartSendNoClaim(flag, oq, ob) ==
    IF ~flag
    THEN [flag |-> flag, oq |-> oq, ob |-> ob, issue |-> <<>>]
    ELSE LET nb == oq \o ob
         IN [flag |-> TRUE, oq |-> <<>>, ob |-> nb,
             issue |-> IF nb = <<>> THEN <<>> ELSE EncodeAll(nb)]

\* startSend as a function of the state it reads: the new flag, queue and
\* buffer, and the bytes of the async_write it issues (<<>> for none).
StartSend(flag, oq, ob) ==
    IF ~flag
    THEN [flag |-> flag, oq |-> oq, ob |-> ob, issue |-> <<>>]
    ELSE LET nb == oq \o ob
         IN IF nb = <<>>
            THEN [flag |-> TRUE, oq |-> <<>>, ob |-> <<>>, issue |-> <<>>]
            ELSE [flag |-> FALSE, oq |-> <<>>, ob |-> nb, issue |-> EncodeAll(nb)]

\* Apply the result of startSend to the up-direction state.
AfterStartSend(s) ==
    /\ should_call_send' = s.flag
    /\ output_queue' = s.oq
    /\ output_buffer' = s.ob
    /\ writes' = IF s.issue = <<>> THEN writes ELSE Append(writes, s.issue)

Init ==
    /\ notified = {}
    /\ strand = <<StartSendH>>   \* posted at the end of connectAndStartAtNodeID
    /\ output_queue = <<>>
    /\ output_buffer = <<>>
    /\ should_call_send = TRUE
    /\ writes = <<>>
    /\ upwire = <<>>
    /\ down_sent = {}
    /\ downwire = <<>>
    /\ input_buf = <<>>
    /\ recv = "reading"
    /\ dispatched = <<>>
    /\ broken = FALSE
    /\ alive = TRUE
    /\ asserts_on \in BOOLEAN
    /\ failed_bytes = <<>>

-----------------------------------------------------------------------------
(* Up direction *)

\* Crossbar::queryForwardingTableEntry -> INotification::notify ->
\* ISerializedObserver::wrappedHandler: post handleNotification to the strand.
Notify(m) ==
    /\ m \notin notified
    /\ notified' = notified \cup {m}
    /\ strand' = Append(strand, HandleH(m))
    /\ UNCHANGED <<output_queue, output_buffer, should_call_send, writes,
                   upwire, downVars, connVars>>

\* The strand runs the startSend posted by connectAndStartAtNodeID.
RunStartSend ==
    /\ strand # <<>> /\ Head(strand) = StartSendH
    /\ strand' = Tail(strand)
    /\ AfterStartSend(StartSend(should_call_send, output_queue, output_buffer))
    /\ UNCHANGED <<notified, upwire, downVars, connVars>>

\* handleNotification -> sendControlMsg: enqueue, then startSend if allowed.
HandleNotification ==
    /\ strand # <<>> /\ Head(strand).h = "handle"
    /\ strand' = Tail(strand)
    /\ LET oq == Append(output_queue, Head(strand).m)
       IN IF should_call_send
          THEN AfterStartSend(StartSend(TRUE, oq, output_buffer))
          ELSE /\ output_queue' = oq
               /\ UNCHANGED <<output_buffer, should_call_send, writes>>
    /\ UNCHANGED <<notified, upwire, downVars, connVars>>

\* async_write makes progress: some leading bytes of write i reach the
\* Controller.  When the write is complete its wrapped onSent is posted.
WriteSome(i, k) ==
    /\ ~broken
    /\ i \in DOMAIN writes
    /\ k \in 1..Len(writes[i])
    /\ upwire' = upwire \o SubSeq(writes[i], 1, k)
    /\ IF k = Len(writes[i])
       THEN /\ writes' = RemoveAt(writes, i)
            /\ strand' = Append(strand, OnSentH)
       ELSE /\ writes' = [writes EXCEPT ![i] = SubSeq(@, k + 1, Len(@))]
            /\ UNCHANGED strand
    /\ UNCHANGED <<notified, output_queue, output_buffer, should_call_send,
                   downVars, connVars>>

\* The connection is reset (the Controller or the network goes away).
ConnectionLost ==
    /\ ~broken
    /\ broken' = TRUE
    /\ UNCHANGED <<upVars, downVars, alive, asserts_on, failed_bytes>>

\* async_write i on a reset socket completes with an error; the bytes it
\* wrote before the reset are already in upwire.  onSent is posted.
WriteFails(i) ==
    /\ broken
    /\ i \in DOMAIN writes
    /\ failed_bytes' = failed_bytes \o writes[i]
    /\ writes' = RemoveAt(writes, i)
    /\ strand' = Append(strand, OnSentErrH)
    /\ UNCHANGED <<notified, output_queue, output_buffer, should_call_send,
                   upwire, downVars, broken, alive, asserts_on>>

\* Fault variant of OnSent: output_buffer_ is not cleared (lines 185-186
\* missing), so the next startSend splices new messages before the old.
OnSentNoClear ==
    /\ strand # <<>> /\ Head(strand).h = "onSent"
    /\ strand' = Tail(strand)
    /\ AfterStartSend(StartSend(TRUE, output_queue, output_buffer))
    /\ UNCHANGED <<notified, upwire, downVars, connVars>>

\* onSent: set the flag, then assert that the whole buffer was written,
\* which aborts after a failed write unless NDEBUG compiled it out; ec is
\* never looked at.  Then clear the written buffer and startSend again.
OnSent ==
    /\ strand # <<>> /\ Head(strand).h = "onSent"
    /\ strand' = Tail(strand)
    /\ IF ~Head(strand).ok /\ asserts_on
       THEN /\ should_call_send' = TRUE
            /\ alive' = FALSE
            /\ UNCHANGED <<output_queue, output_buffer, writes>>
       ELSE /\ AfterStartSend(StartSend(TRUE, output_queue, <<>>))
            /\ UNCHANGED alive
    /\ UNCHANGED <<notified, upwire, downVars, broken, asserts_on, failed_bytes>>

-----------------------------------------------------------------------------
(* Down direction *)

\* The Controller writes one message to the socket.
ControllerSend(m) ==
    /\ ~broken
    /\ m \notin down_sent
    /\ down_sent' = down_sent \cup {m}
    /\ downwire' = downwire \o Encode(m)
    /\ UNCHANGED <<input_buf, recv, dispatched, upVars, connVars>>

\* async_read_until reads k more bytes and completes once input_buf_ holds
\* a NUL.
ReadSome(k) ==
    /\ ~broken
    /\ recv = "reading"
    /\ k \in 1..Len(downwire)
    /\ input_buf' = input_buf \o SubSeq(downwire, 1, k)
    /\ downwire' = SubSeq(downwire, k + 1, Len(downwire))
    /\ recv' = IF Nul \in ToSet(input_buf') THEN "handler" ELSE "reading"
    /\ UNCHANGED <<down_sent, dispatched, upVars, connVars>>

\* Fault variant of OnRecv: the unterminated tail is not written back
\* (ostr << msg at line 141 missing).
OnRecvDropsTail ==
    /\ recv = "handler"
    /\ LET ms == DecodeAll(SplitFrames(input_buf).frames)
       IN dispatched' = dispatched \o SelectSeq(ms, LAMBDA x : x # Malformed)
    /\ input_buf' = <<>>
    /\ recv' = "reading"
    /\ UNCHANGED <<down_sent, downwire, upVars, connVars>>

\* onRecv: dispatch every complete message in order, dropping the ones
\* onControlMsgReceived rejects; keep the tail; startRecv.
OnRecv ==
    /\ recv = "handler"
    /\ LET s == SplitFrames(input_buf)
           ms == DecodeAll(s.frames)
       IN /\ dispatched' = dispatched \o SelectSeq(ms, LAMBDA x : x # Malformed)
          /\ input_buf' = s.rest
    /\ recv' = "reading"
    /\ UNCHANGED <<down_sent, downwire, upVars, connVars>>

\* Fault variant of ReadFails: onError logs but does not throw, so onRecv
\* returns with no read pending and the process lives on.
ReadFailsNoThrow ==
    /\ broken
    /\ recv = "reading"
    /\ recv' = "stopped"
    /\ UNCHANGED <<down_sent, downwire, input_buf, dispatched, upVars, connVars>>

\* The pending async_read_until completes with an error on the reset
\* socket: onRecv calls onError, which throws ec out of the io_context
\* thread and the process ends.
ReadFails ==
    /\ broken
    /\ recv = "reading"
    /\ alive' = FALSE
    /\ UNCHANGED <<upVars, downVars, broken, asserts_on, failed_bytes>>

-----------------------------------------------------------------------------

\* Every message has been sent, delivered and handled: the node idles.
Quiescent ==
    /\ alive
    /\ notified = UpMsgs /\ strand = <<>> /\ writes = <<>>
    /\ down_sent = DownMsgs /\ downwire = <<>> /\ recv = "reading"
    /\ UNCHANGED vars

\* The process has aborted: nothing happens any more.
Halted == ~alive /\ UNCHANGED vars

StrandStep == alive /\ (RunStartSend \/ HandleNotification \/ OnSent)
WriteProgress ==
    alive /\ \E i \in DOMAIN writes : \/ \E k \in 1..Len(writes[i]) : WriteSome(i, k)
                                    \/ WriteFails(i)
ReadProgress == alive /\ \E k \in 1..Len(downwire) : ReadSome(k)
ReadHandler == alive /\ (OnRecv \/ ReadFails)

Next ==
    \/ alive /\ \E m \in UpMsgs : Notify(m)
    \/ StrandStep
    \/ WriteProgress
    \/ \E m \in DownMsgs : ControllerSend(m)
    \/ ReadProgress
    \/ ReadHandler
    \/ ConnectionLost
    \/ Quiescent
    \/ Halted

\* The io_context threads run every handler posted to the strand, the
\* kernel drains an async_write while the Controller reads (or fails it
\* once the connection is reset), and reads and their completion handlers
\* run while data is available or the socket has failed.  Nothing forces
\* the connection to break.
Fairness ==
    /\ WF_vars(StrandStep)
    /\ WF_vars(WriteProgress)
    /\ WF_vars(ReadProgress)
    /\ WF_vars(ReadHandler)

Spec == Init /\ [][Next]_vars /\ Fairness

-----------------------------------------------------------------------------
(* Properties *)

ConnTypeOK ==
    /\ notified \subseteq UpMsgs
    /\ output_queue \in Seq(UpMsgs) /\ output_buffer \in Seq(UpMsgs)
    /\ should_call_send \in BOOLEAN
    /\ writes \in Seq(Seq(Bytes)) /\ upwire \in Seq(Bytes)
    /\ downwire \in Seq(Bytes) /\ input_buf \in Seq(Bytes)
    /\ recv \in {"reading", "handler"}
    /\ dispatched \in Seq(DownMsgs)
    /\ broken \in BOOLEAN /\ alive \in BOOLEAN /\ asserts_on \in BOOLEAN
    /\ failed_bytes \in Seq(Bytes)

\* should_call_send_ is the only thing that keeps two async_writes off the
\* socket at once: it is false exactly while one write, or its onSent, is
\* outstanding, and there is never more than one of them.
OnlyOneWrite ==
    LET outstanding == Len(writes) + Len(SelectSeq(strand, LAMBDA x : x.h = "onSent"))
    IN /\ outstanding <= 1
       /\ should_call_send = (outstanding = 0)

\* Refinement mapping, up: the Controller has the complete frames that
\* reached it; what was handed in is those, then what is still on the
\* write in flight, then output_queue_, then the notifications still
\* waiting on the strand.
UpDelivered == DecodeAll(SplitFrames(upwire).frames)
UpSent ==
    DecodeAll(SplitFrames(upwire \o failed_bytes \o FlattenSeq(writes)).frames)
    \o output_queue
    \o [i \in DOMAIN SelectSeq(strand, LAMBDA x : x.h = "handle") |->
            SelectSeq(strand, LAMBDA x : x.h = "handle")[i].m]

\* Refinement mapping, down: what onRecv dispatched, then whatever the
\* buffered and unread bytes parse to.
DownSent == dispatched \o DecodeAll(SplitFrames(input_buf \o downwire).frames)

Up == INSTANCE FifoChannel WITH Msgs <- UpMsgs, sent <- UpSent, delivered <- UpDelivered
Down == INSTANCE FifoChannel WITH Msgs <- DownMsgs, sent <- DownSent, delivered <- dispatched

\* Node -> Controller is a FIFO channel: every notification reaches the
\* Controller once, in the order the strand ran handleNotification, and
\* eventually (should_call_send_ is never left false with data queued),
\* unless the process aborts on a failed connection, which spec.md §7
\* makes fatal.  A write that fails delivers nothing after its prefix.
UpIsFifo == Up!ChanSafety /\ (Up!ChanFairness \/ <>~alive)

\* Controller -> node is a FIFO channel: whatever way TCP splits the byte
\* stream, onRecv dispatches each message once, in order, and eventually,
\* unless the process aborts.
DownIsFifo == Down!ChanSafety /\ (Down!ChanFairness \/ <>~alive)

\* A reset control connection always ends the process (spec.md §7: any
\* failure on the controller connection is fatal), in either build.
\* onSent ignores ec, and its assert, which would abort after a short
\* write, is compiled out under NDEBUG; what ends the process then is the
\* read that fails and onError's throw.  The node never goes on sending
\* into a dead connection and dropping notifications for good.
ConnectionFailureIsFatal == broken ~> ~alive

=============================================================================
