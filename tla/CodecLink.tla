------------------------------ MODULE CodecLink ------------------------------
(***************************************************************************)
(* One direction of a connection.  The sender holds one message object:   *)
(* it creates it (New), sets its packet ID, adds SUBACK return codes, and  *)
(* puts it on the byte stream with Send (through the reusable ExternalBuf) *)
(* or with Encode into a buffer of its own.  The receiver repeatedly       *)
(* decodes the packet at the front of the stream, into a new message, or,  *)
(* when ReuseSubAck holds, SUBACKs into one SubAckMessage kept across      *)
(* packets.  The stream may start with bytes a peer wrote (InitialWires).  *)
(* The receiver stops at its first decode error or panic: whether an error *)
(* is fatal belongs to the dispatcher, so after one the stream is no      *)
(* longer read.                                                           *)
(***************************************************************************)
EXTENDS Codec, SequencesExt

CONSTANTS
    Templates,     \* messages as the New* constructors return them
    Ids,           \* packet IDs passed to SetPacketID
    RetLists,      \* []QosType slices passed to AddReturnCodes
    InitialWires,  \* byte strings a peer may have written first
    DstLens,       \* lengths of the buffers handed to Encode
    MaxCalls,      \* bound on the sender's calls
    ReuseSubAck    \* the receiver decodes every SUBACK into one message

VARIABLES
    obj,      \* the sender's message object
    wire,     \* bytes written and not yet decoded
    sent,     \* messages the sender's calls put on the stream, in order
    recv,     \* messages the receiver decoded, in order
    rcvCodes, \* returnCodes of the receiver's reused SubAckMessage
    ext,      \* to.ExternalBuf, the bytes it holds
    calls,    \* sender calls made so far
    rx,       \* receiver status: "ok", an error name, or "panic"
    frame,    \* the last successful decode: bytes consumed and bytes declared
    result    \* error of the sender's last call

vars == <<obj, wire, sent, recv, rcvCodes, ext, calls, rx, frame, result>>

NoObj == Msg(0, 0, <<>>, FALSE, 0)

\* Bytes a packet at the front of src declares: header plus remaining length.
Declared(src) == LET h == HeaderDecode(src) IN h.n + h.remLen

Init ==
    /\ obj = NoObj
    /\ wire \in InitialWires
    /\ sent = <<>>
    /\ recv = <<>>
    /\ rcvCodes = <<>>
    /\ ext = <<>>
    /\ calls = 0
    /\ rx = "ok"
    /\ frame = [n |-> 0, declared |-> 0]
    /\ result = "nil"

\* A sender call: counted, and it leaves the receiver alone.
Call == /\ calls < MaxCalls
        /\ calls' = calls + 1
        /\ UNCHANGED <<recv, rcvCodes, rx, frame>>

\* NewPubRelMessage / NewPingReqMessage / NewSubAckMessage / NewConnAck...
New(t) ==
    /\ Call
    /\ obj' = t
    /\ result' = "nil"
    /\ UNCHANGED <<wire, sent, ext>>

SetId(v) ==
    /\ Call
    /\ obj.type \in {PUBREL, SUBACK}
    /\ obj' = SetPacketID(obj, v)
    /\ result' = "nil"
    /\ UNCHANGED <<wire, sent, ext>>

AddCodes(ret) ==
    LET r == AddReturnCodes(obj, ret) IN
    /\ Call
    /\ obj.type = SUBACK
    /\ obj' = r.msg
    /\ result' = r.err
    /\ UNCHANGED <<wire, sent, ext>>

\* Put the encoded message on the stream.
Emit(e) ==
    IF e.err = "nil"
      THEN /\ wire' = wire \o e.bytes
           /\ sent' = Append(sent, obj)
      ELSE UNCHANGED <<wire, sent>>

\* to.ExternalBuf after Send's length check: a new zeroed slice of the
\* expected size when the old one is too short, else the old one.
Grown(n) == IF Len(ext) < n THEN [i \in 1..n |-> 0] ELSE ext

\* preEncode(buf): the encoding over the first bytes of buf, the rest of
\* buf left as it was.
Written(buf, bytes) == bytes \o SubSeq(buf, Len(bytes) + 1, Len(buf))

\* Mutant of Handed: the whole ExternalBuf handed to the transport.
HandedWhole(buf, bytes) == buf

\* to.ExternalBuf[:total], the slice handed to the transport.
Handed(buf, bytes) == SubSeq(buf, 1, Len(bytes))

\* msg.Send(to) of PUBREL, SUBACK (and CONNACK): Size, grow ExternalBuf if
\* too short, preEncode into it, hand ExternalBuf[:total] to the transport.
\* A longer ExternalBuf left by an earlier Send keeps that message's bytes
\* past total.
Send ==
    LET s   == Size(obj)
        e   == preEncode(obj)
        buf == Grown(s.n)
    IN
    /\ Call
    /\ obj.type \in {PUBREL, SUBACK, CONNACK}
    /\ IF s.err # "nil"
         THEN /\ result' = s.err
              /\ UNCHANGED <<wire, sent, ext>>
         ELSE /\ ext' = IF e.err = "nil" THEN Written(buf, e.bytes) ELSE buf
              /\ result' = e.err
              /\ Emit([e EXCEPT !.bytes = Handed(ext', e.bytes)])
    /\ UNCHANGED obj

\* PingReqMessage.Send: as Send, but its preEncode cannot fail.
PingReqSend ==
    LET s     == Size(obj)
        bytes == PingReqPreEncode(obj).bytes
    IN
    /\ Call
    /\ obj.type = PINGREQ
    /\ IF s.err # "nil"
         THEN /\ result' = s.err
              /\ UNCHANGED <<wire, sent, ext>>
         ELSE /\ ext' = Written(Grown(s.n), bytes)
              /\ result' = "nil"
              /\ Emit([err |-> "nil", bytes |-> Handed(ext', bytes)])
    /\ UNCHANGED obj

\* msg.Encode(dst) into a buffer of length d, whose written prefix the
\* caller then writes to the connection.
EncodeAndWrite(d) ==
    LET e == Encode(obj, d) IN
    /\ Call
    /\ obj # NoObj
    /\ result' = e.err
    /\ Emit(e)
    /\ UNCHANGED <<obj, ext>>

\* The message the receiver decodes the front of the stream into.
DecodeFront ==
    IF ReuseSubAck /\ wire[1] \div 16 = SUBACK
      THEN SubAckDecode(rcvCodes, wire)
      ELSE Decode(wire)

\* Decoding the packet at the front of the stream and taking it off.
DecodeStep ==
    LET r == DecodeFront IN
    /\ rcvCodes' = IF ReuseSubAck /\ r.msg.type = SUBACK /\ r.err # "panic"
                     THEN r.msg.codes ELSE rcvCodes
    /\ IF r.err = "nil"
         THEN /\ recv' = Append(recv, r.msg)
              /\ wire' = SubSeq(wire, r.n + 1, Len(wire))
              /\ frame' = [n |-> r.n, declared |-> Declared(wire)]
              /\ UNCHANGED rx
         ELSE /\ rx' = r.err
              /\ UNCHANGED <<recv, wire, frame>>
    /\ UNCHANGED <<obj, sent, ext, calls, result>>

\* The receiver's read loop: it decodes while bytes are buffered.
Receive == rx = "ok" /\ wire # <<>> /\ DecodeStep

\* The sender has made all its calls; the connection idles.
Quiescent ==
    /\ calls = MaxCalls
    /\ UNCHANGED vars

Next ==
    \/ \E t \in Templates : New(t)
    \/ \E v \in Ids : SetId(v)
    \/ \E ret \in RetLists : AddCodes(ret)
    \/ Send
    \/ PingReqSend
    \/ \E d \in DstLens : EncodeAndWrite(d)
    \/ Receive
    \/ Quiescent

Spec == Init /\ [][Next]_vars /\ WF_vars(Receive)

(***************************************************************************)
(* Properties                                                              *)
(***************************************************************************)

\* What the receiver decoded is, in order, what the sender's successful
\* Send/Encode calls wrote, whatever New/SetPacketID/AddReturnCodes calls
\* built them: decode inverts preEncode across all four packet layouts and
\* both one- and two-byte remaining lengths, and each decode consumes
\* exactly its packet, so packets never merge or split.  With ReuseSubAck,
\* SUBACKs are decoded into one SubAckMessage (SubAckMessage.decode keeps
\* a long enough returnCodes slice).
RoundTrip == rx = "ok" /\ IsPrefix(recv, sent)

\* The connection implements a reliable FIFO channel: the messages Send and
\* Encode put on the stream and not yet decoded are the channel's queue,
\* and the receiver's decoded messages what it was handed.  Each decode
\* step hands over exactly the oldest message written, whatever
\* New/SetPacketID/AddReturnCodes calls built it, and the read loop keeps
\* decoding while bytes are buffered, so every written message is
\* eventually delivered; a decode error would leave the queue stuck.
C == INSTANCE Channel WITH
        queue     <- SubSeq(sent, Len(recv) + 1, Len(sent)),
        delivered <- recv

ChannelRefinement == C!Spec

\* A decode never panics on whatever bytes the peer sent (spec 1: malformed
\* or truncated input is handled without panics).  PubRelMessage.decode and
\* SubAckMessage.decode read the packet ID and slice the return codes
\* without checking the remaining length.
DecodeNeverPanics == rx # "panic"

\* A SUBACK return code is 0, 1, 2 or 0x80, the failure code (spec 3, 8:
\* "return code" validity, distinct from QoS "full" validity), so no list
\* of such codes is refused, neither by the sender's AddReturnCodes nor by
\* the receiver's SubAckMessage.decode.  Both test each code with
\* QosType.IsValidFull.
ReturnCodesAccepted == result # "ErrInvalidReturnCode" /\ rx # "ErrInvalidReturnCode"

\* A successful decode consumes exactly the bytes its header declares, so
\* the next decode starts at the next packet.
FramingKept == frame.n = frame.declared
=============================================================================
