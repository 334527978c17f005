---------------------------- MODULE FrameReceiver ----------------------------
(***************************************************************************)
(* The receive half of the AsyncSslTransport event loop (the inner         *)
(* `while (true)` around SSL_read_ex): a two-phase reassembly of           *)
(* MsgHeader {id, len} followed by len payload bytes, fed by the records   *)
(* the peer's TLS layer produced.  SSL_read_ex returns bytes of at most    *)
(* one record, so the record layout decides how reads are cut.             *)
(*                                                                         *)
(* Bytes are positions in the peer's stream; the peer wrote NumFrames      *)
(* frames back to back, frame i carrying id i.  Lengths are scaled down:   *)
(* HeaderLen stands for sizeof(MsgHeader) = 16 and MaxRecord for the TLS   *)
(* record payload limit (16384, never below 512 with max_fragment_length), *)
(* keeping MaxRecord >= HeaderLen as in the real sizes.                    *)
(***************************************************************************)
EXTENDS Naturals, Sequences, FiniteSets

CONSTANTS
    NumFrames,    \* frames the peer writes
    PayloadLens,  \* possible payload lengths (a serialized AnyMsgT is never empty)
    HeaderLen,    \* sizeof(MsgHeader), scaled
    MaxRecord,    \* bytes per TLS record, scaled
    Layouts       \* record layouts the peer may produce (see RecordEnd)

ASSUME /\ NumFrames \in Nat \ {0}
       /\ PayloadLens \subseteq Nat \ {0}
       /\ HeaderLen \in Nat \ {0}
       /\ MaxRecord >= HeaderLen
       /\ Layouts \subseteq {"per_frame", "stream", "byte"}

VARIABLES
    layout,      \* the peer's record layout
    lens,        \* payload length of each frame the peer wrote
    rcvd,        \* stream bytes whose records have fully arrived
    pos,         \* stream bytes consumed by SSL_read_ex
    readingMsg,  \* reading_msg: FALSE while reading a header
    curRead,     \* cur_read
    msgLen,      \* msg_len: size of read_buf for the current phase
    msgId,       \* msg_id from the last header
    bufStart,    \* stream position of read_buf[0] (which bytes read_buf holds)
    delivered,   \* messages passed to handle_message: [id, start, len]
    fault        \* "none", "overrun" (write past read_buf) or "garbage" header

vars == <<layout, lens, rcvd, pos, readingMsg, curRead, msgLen, msgId, bufStart, delivered, fault>>

FrameLen(i) == HeaderLen + lens[i]

RECURSIVE StartOf(_, _)
\* Stream position of the first byte of frame i.
StartOf(ls, i) == IF i = 1 THEN 0 ELSE StartOf(ls, i - 1) + HeaderLen + ls[i - 1]

Total == StartOf(lens, NumFrames) + FrameLen(NumFrames)

\* The frame holding stream position p.
FrameAt(p) == CHOOSE i \in 1..NumFrames : StartOf(lens, i) <= p /\ p < StartOf(lens, i) + FrameLen(i)

\* End of the record of length MaxRecord (or shorter, at e) that a write
\* starting at s cuts around position p.
CutEnd(s, e, p) ==
    LET k == (p - s) \div MaxRecord + 1
    IN IF s + k * MaxRecord < e THEN s + k * MaxRecord ELSE e

\* End of the record holding position p.
\*  "per_frame": the peer writes each frame with one SSL_write_ex
\*     (AsyncSslTransport's sender), which OpenSSL cuts into full records
\*     and a shorter last one: no record holds bytes of two frames.
\*  "stream": the peer writes several frames with one SSL_write_ex, which
\*     the wire format allows: records are cut across frame boundaries.
\*  "byte": every record is one byte.
RecordEnd(p) ==
    CASE layout = "byte"      -> p + 1
      [] layout = "stream"    -> CutEnd(0, Total, p)
      [] layout = "per_frame" -> CutEnd(StartOf(lens, FrameAt(p)),
                                        StartOf(lens, FrameAt(p)) + FrameLen(FrameAt(p)), p)

MaxOfLens == CHOOSE m \in PayloadLens : \A l \in PayloadLens : l <= m

MinOf(a, b) == IF a < b THEN a ELSE b

\* Type invariant; pos never passes the bytes that have arrived.
TypeOK ==
    /\ layout \in Layouts
    /\ lens \in [1..NumFrames -> PayloadLens]
    /\ rcvd \in 0..Total /\ pos \in 0..rcvd
    /\ readingMsg \in BOOLEAN
    /\ curRead \in Nat /\ msgLen \in Nat /\ msgId \in 0..NumFrames
    /\ bufStart \in 0..Total
    /\ delivered \in Seq([id : 1..NumFrames, start : 0..Total, len : Nat])
    /\ fault \in {"none", "overrun", "garbage"}

Init ==
    /\ layout \in Layouts
    /\ lens \in [1..NumFrames -> PayloadLens]
    /\ rcvd = 0 /\ pos = 0
    /\ readingMsg = FALSE
    /\ curRead = 0
    /\ msgLen = HeaderLen
    /\ msgId = 0
    /\ bufStart = 0
    /\ delivered = <<>>
    /\ fault = "none"

\* The next record of the stream arrives and is decrypted.
Arrive ==
    /\ rcvd < Total
    /\ rcvd' = RecordEnd(rcvd)
    /\ UNCHANGED <<layout, lens, pos, readingMsg, curRead, msgLen, msgId, bufStart, delivered, fault>>

\* The bytes SSL_read_ex is asked for: the code passes msg_len, the full
\* buffer size, whatever cur_read already holds.
ReadRequest == msgLen

HeaderDoneSwapped ==
    LET f == FrameAt(bufStart) IN
    IF bufStart = StartOf(lens, f)
    THEN /\ readingMsg' = TRUE
         /\ msgLen' = f
         /\ msgId' = lens[f]
         /\ UNCHANGED <<delivered, fault>>
    ELSE /\ fault' = "garbage"
         /\ UNCHANGED <<readingMsg, msgLen, msgId, delivered>>

\* A header completed in read_buf: decoded into (id, len) when read_buf
\* holds exactly the header bytes of one frame, garbage otherwise.
HeaderDone ==
    LET f == FrameAt(bufStart) IN
    IF bufStart = StartOf(lens, f)
    THEN /\ readingMsg' = TRUE
         /\ msgLen' = lens[f]
         /\ msgId' = f
         /\ UNCHANGED <<delivered, fault>>
    ELSE /\ fault' = "garbage"
         /\ UNCHANGED <<readingMsg, msgLen, msgId, delivered>>

PayloadDoneKeepLen ==
    /\ delivered' = Append(delivered, [id |-> msgId, start |-> bufStart, len |-> msgLen])
    /\ readingMsg' = FALSE
    /\ UNCHANGED <<msgLen, msgId, fault>>

\* A payload completed: handle_message(MsgWrapper{msg_id, read_buf}), then
\* back to reading a header.
PayloadDone ==
    /\ delivered' = Append(delivered, [id |-> msgId, start |-> bufStart, len |-> msgLen])
    /\ readingMsg' = FALSE
    /\ msgLen' = HeaderLen
    /\ UNCHANGED <<msgId, fault>>

\* The bytes one SSL_read_ex call stores in read_buf + cur_read (read_now):
\* at most the request and at most the rest of the current record.
ReadCountWhole == ReadRequest
ReadCount == MinOf(ReadRequest, RecordEnd(pos) - pos)

\* One iteration of the read loop: SSL_read_ex into read_buf + cur_read.
\* Bytes written past read_buf's msg_len bytes are a heap overflow, after
\* which the model stops.
Read ==
    /\ fault = "none"
    /\ pos < rcvd
    /\ LET n == ReadCount IN
       IF curRead + n > msgLen
       THEN /\ fault' = "overrun"
            /\ UNCHANGED <<pos, readingMsg, curRead, msgLen, msgId, bufStart, delivered>>
       ELSE /\ pos' = pos + n
            /\ IF curRead + n = msgLen
               THEN /\ IF readingMsg THEN PayloadDone ELSE HeaderDone
                    /\ curRead' = 0
                    /\ bufStart' = pos + n
               ELSE /\ curRead' = curRead + n
                    /\ UNCHANGED <<readingMsg, msgLen, msgId, bufStart, delivered, fault>>
    /\ UNCHANGED <<layout, lens, rcvd>>

\* The peer's frames have all been consumed, or the loop faulted.
Done ==
    /\ pos = Total \/ fault # "none"
    /\ UNCHANGED vars

Next == Arrive \/ Read \/ Done

Spec == Init /\ [][Next]_vars /\ WF_vars(Arrive) /\ WF_vars(Read)

-----------------------------------------------------------------------------

\* Frame boundaries (spec section 8): reassembly never writes past read_buf,
\* never decodes a header from misaligned bytes, and the messages passed to
\* handle_message are exactly the peer's frames, in order, each with its id
\* and its own payload bytes.
FramesIntact ==
    /\ fault = "none"
    /\ \A k \in DOMAIN delivered :
          delivered[k] = [id |-> k, start |-> StartOf(lens, k) + HeaderLen, len |-> lens[k]]

\* Every frame the peer writes is eventually handed to handle_message.
AllFramesDelivered ==
    <>(Len(delivered) = NumFrames)

-----------------------------------------------------------------------------
(* The receive direction as a FrameChannel: a frame is enqueued when its   *)
(* last record has arrived, and written out when handle_message gets it.   *)

\* The message handle_message must get for the peer's i-th frame.
FrameMsg(i) == [id |-> i, start |-> StartOf(lens, i) + HeaderLen, len |-> lens[i]]

\* Frames whose every byte has arrived.
Arrived == {i \in 1..NumFrames : StartOf(lens, i) + FrameLen(i) <= rcvd}

FrameMsgs == [id : 1..NumFrames, start : 0..NumFrames * (HeaderLen + MaxOfLens), len : PayloadLens]

Inbound == INSTANCE FrameChannel WITH
    Msgs  <- FrameMsgs,
    queue <- [j \in 1..(Cardinality(Arrived) - Len(delivered)) |-> FrameMsg(Len(delivered) + j)],
    wire  <- delivered,
    open  <- TRUE

\* Spec section 4.1 for the receiving reactor: handle_message gets the
\* peer's frames whole, in the order they were written, each once.
InboundSafe == Inbound!Spec

\* ... and every frame that has fully arrived is handed on without the
\* peer having to send anything more.
InboundLive == Inbound!LiveSpec

=============================================================================
