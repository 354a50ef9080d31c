----------------------------- MODULE DemoPipeline -----------------------------
(***************************************************************************)
(* The standalone C demo of unit-testing/: main.c sends the data of a file *)
(* through a FIFO buffer (src/FIFOqueue/FIFO.c) and decodes what it takes  *)
(* out, with the parity codec of demos/example-codeRS.c linked in as       *)
(* messageArrived and decode.                                              *)
(*                                                                         *)
(* One thread runs number_of_messages iterations.  An iteration reads      *)
(* message_size bytes from the file and passes them to messageArrived only *)
(* when the FIFO is empty; it then takes one message out (fifoGet) and    *)
(* decodes it.  The encoder upper-cases each message, sends it and keeps  *)
(* its parity bit; after block_size messages it also sends the parity set *)
(* as a message of its own.  The decoder counts messages: the first       *)
(* block_size of a block are data, whose parity it records; the next one  *)
(* is taken to be the parity set and compared with the recorded bits.     *)
(*                                                                         *)
(* The sendMessage calls that messageArrived makes are steps of their own *)
(* (outbox holds the messages it has still to send); everything else an  *)
(* iteration does is one step per branch of main's loop body.             *)
(***************************************************************************)
EXTENDS Integers, Sequences, SequencesExt, Bitwise

CONSTANTS
    Capacity,     \* length_of_FIFO_buffer (main_Macro.h)
    BlockSize,    \* block_size, the K of example-codeRS.c
    NumMessages,  \* number_of_messages, the iterations of main's loop
    MessageSize,  \* message_size, the bytes read from the file per message
    Chars         \* the byte values the data file may hold

ASSUME /\ Capacity \in 1..65535 /\ BlockSize \in Nat \ {0}
       /\ NumMessages \in Nat /\ MessageSize \in Nat \ {0}
       /\ Chars \subseteq 0..255

Null == <<>>         \* a freed or never allocated parity set (no bytes)
NoItem == [seq |-> 0, size |-> 0, pay |-> <<>>]  \* a slot nothing was written to
Undef == -1          \* a byte of a parity set not written since its malloc

Slots == 0..Capacity - 1
ParityIdx == 0..BlockSize - 1

VARIABLES
    fifo,     \* *fifo_queue_pointer: [pool, rd, wr, stored]
    seq,      \* block_message->seq_id, the sender's message
    outbox,   \* messages messageArrived has still to pass to sendMessage
    recv,     \* *received_block_message: [seq, size, pay]
    encLeft,  \* encoder_unsolved_messages_counter
    encPar,   \* encoder_parity_set_ptr: Null or [ParityIdx -> byte]
    decCount, \* messages_counter_for_decoding
    decPar,   \* decoder_parity_set_ptr: Null or [ParityIdx -> byte]
    verdict,  \* the message numbers the last parity check printed as erroneous
    iter,     \* message_count of main's loop
    pc        \* "top" of the loop body, "send" in messageArrived, "recv"

vars == <<fifo, seq, outbox, recv, encLeft, encPar, decCount, decPar, verdict, iter, pc>>

-----------------------------------------------------------------------------
(* The codec's byte operations *)

\* Fault variant of GetParity: the lowest bit taken for the parity.
GetParityLowBit(ch) == ch % 2

\* getParity: clear the lowest set bit until none is left, flipping the
\* result each time.
RECURSIVE GetParity(_)
GetParity(ch) == IF ch = 0 THEN 0 ELSE 1 - GetParity(ch & (ch - 1))

\* getStringParity over the first `length` bytes (all of s).
GetStringParity(s) == (FoldLeft(LAMBDA acc, c : acc + GetParity(c), 0, s) + 1) % 2

\* toupper and tolower of <ctype.h> in the "C" locale.
ToUpper(c) == IF c \in 97..122 THEN c - 32 ELSE c
ToLower(c) == IF c \in 65..90 THEN c + 32 ELSE c
UpperCased(s) == [i \in DOMAIN s |-> ToUpper(s[i])]
LowerCased(s) == [i \in DOMAIN s |-> ToLower(s[i])]

\* malloc(block_size) when the pointer is NULL.
Allocated(p) == IF p = Null THEN [i \in ParityIdx |-> Undef] ELSE p

-----------------------------------------------------------------------------
(* FIFO.c *)

\* fifoCreate(length_of_FIFO_buffer).
FifoInit == [pool |-> [i \in Slots |-> NoItem], rd |-> 0, wr |-> 0, stored |-> 0]

IsFIFOFull(f) == f.stored >= Capacity
IsFIFOEmpty(f) == f.stored = 0

\* Fault variant of FifoCopyTo: the write offset wraps only past Capacity.
FifoCopyToWrapLate(f, m) ==
    [f EXCEPT !.pool[f.wr % Capacity] = m,
              !.wr = IF f.wr + 1 > Capacity THEN 0 ELSE f.wr + 1]

\* fifoCopyTo: copy the message into a fresh block at the write offset,
\* then advance the offset and wrap it at the capacity.
FifoCopyTo(f, m) ==
    [f EXCEPT !.pool[f.wr] = m,
              !.wr = IF f.wr + 1 >= Capacity THEN 0 ELSE f.wr + 1]

\* fifoCopyFrom: the item at the read offset is copied out (the caller reads
\* it) and its block freed; the offset advances and wraps.
FifoCopyFrom(f) == [f EXCEPT !.rd = IF f.rd + 1 >= Capacity THEN 0 ELSE f.rd + 1]

\* fifoAdd: copy in and count the item; a full buffer is left as it is.
FifoAdd(f, m) ==
    IF IsFIFOFull(f) THEN f
    ELSE [FifoCopyTo(f, m) EXCEPT !.stored = @ + 1]

\* fifoGet: copy out and uncount the item; an empty buffer is left alone.
FifoGet(f) ==
    IF IsFIFOEmpty(f) THEN f
    ELSE [FifoCopyFrom(f) EXCEPT !.stored = @ - 1]

\* The items the buffer holds, front first.
Contents(f) == [i \in 1..f.stored |-> f.pool[(f.rd + i - 1) % Capacity]]

-----------------------------------------------------------------------------
(* main.c with example-codeRS.c *)

Init ==
    /\ fifo = FifoInit
    /\ seq = 0
    /\ outbox = <<>>
    /\ recv = [seq |-> 0, size |-> 0, pay |-> <<>>]
    /\ encLeft = BlockSize
    /\ encPar = Null
    /\ decCount = 0
    /\ decPar = Null
    /\ verdict = {}
    /\ iter = 0
    /\ pc = "top"

\* messageArrived with the upper-cased payload up: send it and record its
\* parity at block_size - counter; on the last message of a block also
\* send the parity set (payload_size = block_size), free it and restart.
MessageArrived(up) ==
    LET set == [Allocated(encPar) EXCEPT ![BlockSize - encLeft] = GetStringParity(up)]
        data == [size |-> MessageSize, pay |-> up]
    IN \/ /\ encLeft > 1
          /\ outbox' = <<data>>
          /\ encPar' = set
          /\ encLeft' = encLeft - 1
       \/ /\ encLeft <= 1
          /\ encLeft - 1 = 0       \* assert(encoder_unsolved_messages_counter == 0)
          /\ outbox' = <<data, [size |-> BlockSize,
                                pay |-> [i \in 1..BlockSize |-> set[i - 1]]]>>
          /\ encPar' = Null
          /\ encLeft' = BlockSize

\* The loop body finds the FIFO empty: fread message_size bytes, set
\* payload_size and call messageArrived.
ReadAndEncode ==
    /\ pc = "top" /\ iter < NumMessages
    /\ IsFIFOEmpty(fifo)
    /\ \E data \in [1..MessageSize -> Chars] : MessageArrived(UpperCased(data))
    /\ pc' = "send"
    /\ UNCHANGED <<fifo, seq, recv, decCount, decPar, verdict, iter>>

\* The loop body finds messages still queued and reads nothing.
KeepQueued ==
    /\ pc = "top" /\ iter < NumMessages
    /\ ~IsFIFOEmpty(fifo)
    /\ pc' = "recv"
    /\ UNCHANGED <<fifo, seq, outbox, recv, encLeft, encPar, decCount, decPar, verdict, iter>>

\* sendMessage: increment seq_id and fifoAdd, ignoring its result.
SendMessage ==
    /\ pc = "send" /\ outbox # <<>>
    /\ seq' = seq + 1
    /\ fifo' = FifoAdd(fifo, [seq |-> seq + 1, size |-> Head(outbox).size,
                                  pay |-> Head(outbox).pay])
    /\ outbox' = Tail(outbox)
    /\ pc' = IF Len(outbox) = 1 THEN "recv" ELSE "send"
    /\ UNCHANGED <<recv, encLeft, encPar, decCount, decPar, verdict, iter>>

\* Fault variant of DecodeData: the payload lower-cased before its parity
\* is taken.
DecodeDataLowerFirst(got) ==
    /\ decCount < BlockSize
    /\ decPar' = [Allocated(decPar) EXCEPT ![decCount] = GetStringParity(LowerCased(got.pay))]
    /\ recv' = [got EXCEPT !.pay = LowerCased(got.pay)]
    /\ decCount' = decCount + 1
    /\ UNCHANGED verdict

\* decode, counter below block_size: record the parity of the received
\* payload at position counter, lower-case the payload in place, count it.
DecodeData(got) ==
    /\ decCount < BlockSize
    /\ decPar' = [Allocated(decPar) EXCEPT ![decCount] = GetStringParity(got.pay)]
    /\ recv' = [got EXCEPT !.pay = LowerCased(got.pay)]
    /\ decCount' = decCount + 1
    /\ UNCHANGED verdict

\* decode, counter at block_size: compare byte i of the message with bit i
\* of the recorded set for i < payload_size, print the mismatches, reset
\* the counter and free the set.  A byte past the block_size bytes of the
\* set is read from the heap beyond it: any value.
DecodeParity(got) ==
    LET set == Allocated(decPar)
        wrong == {i \in 0..got.size - 1 : i < BlockSize /\ got.pay[i + 1] # set[i]}
    IN /\ decCount >= BlockSize
       /\ \E past \in SUBSET {i \in 0..got.size - 1 : i >= BlockSize} :
            verdict' = {i + 1 : i \in wrong \cup past}
       /\ decCount' = 0
       /\ decPar' = Null
       /\ recv' = got

\* receivedByDestination (fifoGet into received_block_message; an empty
\* FIFO leaves it as it was), then decode; the loop counter advances.
ReceiveAndDecode ==
    /\ pc = "recv"
    /\ LET got == IF IsFIFOEmpty(fifo) THEN recv ELSE fifo.pool[fifo.rd]
       IN DecodeData(got) \/ DecodeParity(got)
    /\ fifo' = FifoGet(fifo)
    /\ iter' = iter + 1
    /\ pc' = "top"
    /\ UNCHANGED <<seq, outbox, encLeft, encPar>>

\* The loop has run number_of_messages times; main frees and returns.
Finished == pc = "top" /\ iter = NumMessages /\ UNCHANGED vars

Next == ReadAndEncode \/ KeepQueued \/ SendMessage \/ ReceiveAndDecode \/ Finished

Spec == Init /\ [][Next]_vars

-----------------------------------------------------------------------------
(* Properties *)

\* The sequence numbers a message can carry: one per sendMessage.
MaxSeq == 2 * NumMessages

Messages ==
    [seq : 1..MaxSeq, size : {MessageSize}, pay : [1..MessageSize -> Chars \cup {ToUpper(c) : c \in Chars}]]
    \cup [seq : 1..MaxSeq, size : {BlockSize}, pay : [1..BlockSize -> {0, 1}]]

\* The ring of buffer_pool, read_offset, write_offset and stored_items_number
\* behaves as the queue the FIFO API describes: fifoAdd appends while there
\* is room, fifoGet takes the front, through every wrap of the offsets.
BQ == INSTANCE BoundedQueue WITH Cap <- Capacity, Items <- Messages, q <- Contents(fifo)
ImplementsBoundedQueue == BQ!QueueSpec

\* example-codeRS.c's header: the decoder compares the received parity set
\* with the one it computed and prints "No error" when nothing was changed
\* in transit.  The FIFO changes nothing, so every parity check of decode
\* finds no message in error.
NoFalseError == verdict = {}

\* getParity, a loop clearing the lowest set bit, returns the parity of the
\* number of set bits (its comment), on every byte a queued message carries.
RECURSIVE SetBits(_)
SetBits(n) == IF n = 0 THEN 0 ELSE (n % 2) + SetBits(n \div 2)
ParityMatchesReference ==
    \A i \in DOMAIN Contents(fifo) :
        \A c \in {Contents(fifo)[i].pay[j] : j \in 1..Contents(fifo)[i].size} :
            GetParity(c) = SetBits(c) % 2
=============================================================================
