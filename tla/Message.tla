-------------------------------- MODULE Message --------------------------------
(***************************************************************************)
(* The Message object (base/message.cpp, base/owned_memory_chunk.hpp) on  *)
(* its way over two hops: a source node A, a relay B and a sink C.        *)
(*                                                                         *)
(* A Message owns two chunks of kMaxMessageSize bytes, buffer_ ("buf")    *)
(* and allocated_buffer_ ("alloc"), and a 4-slice read_buffer_ whose last *)
(* two slices are the header view hreg and the payload view preg, each a *)
(* region <<chunk, offset, length>>.  Memory is a function from cell to   *)
(* byte; a serialised header is written as the header record in each of   *)
(* its cells, so a reader recovers it only if no cell was overwritten.    *)
(* A read or write outside a chunk is undefined behaviour: a write there  *)
(* is lost to the model, and a read returns any byte.                      *)
(*                                                                         *)
(* A fills its message in the app (allocateBuffer, resetPayload) and      *)
(* sends it; B receives it into its pending Message (recycle,             *)
(* getReceivingBuffer, fromBuffer) and forwards it either as it is        *)
(* (TCPSender::process rewrites the header, toBuffer) or through the      *)
(* DirectPass encoder, which copies it into the encoder's Message E; C    *)
(* receives it.  Each hop goes over TCP or over UDP.                      *)
(***************************************************************************)
EXTENDS Integers, Sequences

CONSTANTS
    KMax,      \* Config::kMaxMessageSize, the length of each chunk
    Fields,    \* header field values a node may set (src, dst, ack, ...)
    HSize,     \* HSize[f]: MessageHeader::ByteSize() with fields f
    AppSizes,  \* lengths the app passes to resetPayload (session message_size)
    Bytes,     \* payload byte values
    Stale      \* the content of a cell no message has written yet

ASSUME KMax \in Nat \ {0} /\ HSize \in [Fields -> 1..KMax] /\ AppSizes \subseteq 1..KMax

Objs == {"A", "B", "E", "C"}
Chunks == {"buf", "alloc"}
Cells == 0..KMax - 1
Header == [f : Fields, psize : 0..2 * KMax]
Region == [chunk : Chunks, off : 0..KMax, len : 0..2 * KMax]
Reg(c, o, l) == [chunk |-> c, off |-> o, len |-> l]

VARIABLES
    st,     \* read_buffer_state_
    hd,     \* header_
    hsz,    \* header_size_
    msz,    \* message_size_
    hreg,   \* read_buffer_[2]
    preg,   \* read_buffer_[3]
    mem,    \* mem[o][c][i]: byte i of chunk c of Message o
    stage,  \* where the message is: "fill", "sendA", "recvB", "fwdB", "recvC", "done"
    frame,  \* the bytes on the wire: <<message_size, header_size, body>>
    meant,  \* the header and payload the sender serialised (history)
    got     \* the header and payload each receiver's view holds (history)

vars == <<st, hd, hsz, msz, hreg, preg, mem, stage, frame, meant, got>>

\* The bytes a read of region r of Message o can return: cells outside the
\* chunk are any byte.
Reads(o, r) ==
    {[i \in 1..r.len |-> IF r.off + i - 1 < KMax THEN mem[o][r.chunk][r.off + i - 1]
                                                ELSE v[i]]
        : v \in [1..r.len -> Bytes \cup {Stale}]}

\* Chunk c with s written from offset off; cells past the chunk are lost.
WriteAt(o, c, off, s) ==
    [i \in Cells |-> IF off <= i /\ i < off + Len(s) THEN s[i - off + 1]
                                                    ELSE mem[o][c][i]]

HeaderCells(h) == [i \in 1..HSize[h.f] |-> h]

\* Message::Message: both chunks fresh, state kState01 with full views.
Init ==
    /\ st = [o \in Objs |-> "S01"]
    /\ hd = [o \in Objs |-> [f |-> CHOOSE f \in Fields : TRUE, psize |-> 0]]
    /\ hsz = [o \in Objs |-> 0]
    /\ msz = [o \in Objs |-> 0]
    /\ hreg = [o \in Objs |-> Reg("buf", 0, KMax)]
    /\ preg = [o \in Objs |-> Reg("alloc", 0, KMax)]
    /\ mem = [o \in Objs |-> [c \in Chunks |-> [i \in Cells |-> Stale]]]
    /\ stage = "fill"
    /\ frame = <<0, 0, <<>>>>
    /\ meant = <<>>
    /\ got = <<>>

\* PseudoApp::process: allocateBuffer, then resetPayload(buf, message_size_)
\* on a recycled Message; the app sets the header fields.  The bytes of the
\* allocated buffer are whatever it holds.
Fill ==
    /\ stage = "fill"
    /\ \E n \in AppSizes, f \in Fields, p \in [1..KMax -> Bytes] :
        /\ mem' = [mem EXCEPT !["A"]["alloc"] = WriteAt("A", "alloc", 0, p)]
        /\ st' = [st EXCEPT !["A"] = "S01"]
        /\ preg' = [preg EXCEPT !["A"] = Reg("alloc", 0, n)]
        /\ hd' = [hd EXCEPT !["A"] = [f |-> f, psize |-> 0]]
    /\ stage' = "sendA"
    /\ UNCHANGED <<hsz, msz, hreg, frame, meant, got>>

\* Message::toBuffer on Message o, after its sender set the header fields
\* to f, followed by the scatter send of the four slices.  The header goes
\* to buffer_ if it fits where the old header was or the state is kState01;
\* otherwise it moves to allocated_buffer_ (kState10).
ToBufferAndSend(o, f, next) ==
    LET p == preg[o].len
        h == [f |-> f, psize |-> p]
        n == HSize[f]
        inBuf == n <= hreg[o].len \/ st[o] = "S01"
        c == IF inBuf THEN "buf" ELSE "alloc"
        m1 == [mem[o] EXCEPT ![c] = WriteAt(o, c, 0, HeaderCells(h))]
        At(r, i, outside) ==
            IF r.off + i - 1 < KMax THEN m1[r.chunk][r.off + i - 1] ELSE outside[i]
    IN \E before \in Reads(o, preg[o]) :
        /\ hd' = [hd EXCEPT ![o] = h]
        /\ hsz' = [hsz EXCEPT ![o] = n]
        /\ msz' = [msz EXCEPT ![o] = n + p + 2]
        /\ mem' = [mem EXCEPT ![o] = m1]
        /\ st' = [st EXCEPT ![o] = IF inBuf THEN st[o] ELSE "S10"]
        /\ hreg' = [hreg EXCEPT ![o] = Reg(c, 0, n)]
        /\ frame' = <<n + p + 2, n, [i \in 1..n |-> m1[c][i - 1]]
                                     \o [i \in 1..p |-> At(preg[o], i, before)]>>
        /\ meant' = Append(meant, [hd |-> h, pay |-> before])
        /\ stage' = next
        /\ UNCHANGED <<preg, got>>

\* PseudoApp's minion leaves A through the sender (TCPSender::process or
\* UDPSender::process keep the fields the app set here; the socket
\* wrapper's process calls toBuffer).
SendA == stage = "sendA" /\ ToBufferAndSend("A", hd["A"].f, "recvB")

\* A receiver's startReceiving recycles its pending Message o, reads the
\* frame and calls fromBuffer.  Over TCP, getReceivingBuffer(false) asks for
\* message_size_ - 2 bytes at buffer_.data, whatever the chunk's length:
\* bytes past the chunk are written past it.  Over UDP, the datagram is
\* read into the 4+2+kMax slices and bytes past them are cut off.  Either
\* way the chunk holds the first kMax bytes of the body.  fromBuffer parses
\* header_size_ bytes as the header and points the payload view at the
\* payload_size bytes after it (kState00).
Receive(o, next) ==
    LET n == frame[2]
        buf == WriteAt(o, "buf", 0, frame[3])
        h == buf[0]
        view == Reg("buf", n, h.psize)
    IN /\ \A i \in 0..n - 1 : buf[i] = h              \* assert(ParseFromCodedStream)
       /\ frame[1] = n + h.psize + 2                   \* assert(message_size_ == ...)
       /\ mem' = [mem EXCEPT ![o]["buf"] = buf]
       /\ msz' = [msz EXCEPT ![o] = frame[1]]
       /\ hsz' = [hsz EXCEPT ![o] = n]
       /\ hd' = [hd EXCEPT ![o] = h]
       /\ st' = [st EXCEPT ![o] = "S00"]
       /\ hreg' = [hreg EXCEPT ![o] = Reg("buf", 0, n)]
       /\ preg' = [preg EXCEPT ![o] = view]
       /\ \E pay \in {[i \in 1..view.len |->
                          IF view.off + i - 1 < KMax THEN buf[view.off + i - 1] ELSE v[i]]
                      : v \in [1..view.len -> Bytes \cup {Stale}]} :
             got' = Append(got, [hd |-> h, pay |-> pay])
       /\ stage' = next
       /\ UNCHANGED <<frame, meant>>

RecvB == stage = "recvB" /\ Receive("B", "fwdB")

\* The relay's crossbar hands the minion to a TCPSender, whose process()
\* sets payload_size, ack, src and dst (the header may change size), and
\* the socket wrapper sends it.
ForwardB == stage = "fwdB" /\ \E f \in Fields : ToBufferAndSend("B", f, "recvC")

\* DirectPassEncoder::encode: copy the header into the encoder's Message E,
\* buffer_copy the payload into E's allocated_buffer_ (at most its kMax
\* bytes), resetPayload to the payload's length, set coding_parameters,
\* swap E into the minion and recycle the Message swapped out.
EncodeB ==
    /\ stage = "fwdB"
    /\ \E pay \in Reads("B", preg["B"]), f \in Fields :
        LET k == IF Len(pay) < KMax THEN Len(pay) ELSE KMax
        IN /\ mem' = [mem EXCEPT !["E"]["alloc"] = WriteAt("E", "alloc", 0, SubSeq(pay, 1, k))]
           /\ hd' = [hd EXCEPT !["E"] = [f |-> f, psize |-> hd["B"].psize]]
           /\ st' = [st EXCEPT !["E"] = "S01", !["B"] = "S01"]
           /\ preg' = [preg EXCEPT !["E"] = Reg("alloc", 0, Len(pay)),
                                   !["B"] = Reg("alloc", 0, KMax)]
           /\ hreg' = [hreg EXCEPT !["B"] = Reg("buf", 0, KMax)]
    /\ stage' = "sendE"
    /\ UNCHANGED <<hsz, msz, frame, meant, got>>

\* The UDP sender's process sets the fields and the wrapper sends E.
SendE == stage = "sendE" /\ \E f \in Fields : ToBufferAndSend("E", f, "recvC")

RecvC == stage = "recvC" /\ Receive("C", "done")

\* The sink has the message; nothing further happens to these objects.
Done == stage = "done" /\ UNCHANGED vars

Next == Fill \/ SendA \/ RecvB \/ ForwardB \/ EncodeB \/ SendE \/ RecvC \/ Done

Spec == Init /\ [][Next]_vars

TypeOK ==
    /\ st \in [Objs -> {"S00", "S01", "S10"}]
    /\ hd \in [Objs -> Header]
    /\ hreg \in [Objs -> Region] /\ preg \in [Objs -> Region]
    /\ mem \in [Objs -> [Chunks -> [Cells -> Bytes \cup Header \cup {Stale}]]]

\* spec.md section 8: serialising a Message to its 4-slice, copying it
\* through a receiving buffer and deserialising it (Message::toBuffer,
\* getReceivingBuffer, fromBuffer) yields the same header fields and the
\* same payload bytes, on every hop, for every payload_size up to
\* MaxMessageSize.
RoundTrip == \A i \in 1..Len(got) : got[i] = meant[i]
====
