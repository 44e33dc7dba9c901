-------------------------------- MODULE Codec --------------------------------
(***************************************************************************)
(* Encode and decode of the packet types whose code the repository holds:  *)
(* PUBREL (pubrel.go), PINGREQ (pingreq.go), SUBACK (part_002), and the    *)
(* CONNACK return codes (part_000) with CONNACK's layout from the spec and *)
(* connack_test.go.  A packet is a record; fields a type lacks keep their  *)
(* zero value.  A decode either returns (err, n, msg) or panics (err =     *)
(* "panic") where the Go code indexes or slices past the buffer.           *)
(***************************************************************************)
EXTENDS FixedHeader

Msg(t, id, codes, sp, rc) == [type |-> t, id |-> id, codes |-> codes, sp |-> sp, rc |-> rc]
PubRelMsg(id)         == Msg(PUBREL, id, <<>>, FALSE, 0)
PingReqMsg            == Msg(PINGREQ, 0, <<>>, FALSE, 0)
SubAckMsg(id, codes)  == Msg(SUBACK, id, codes, FALSE, 0)
ConnAckMsg(sp, rc)    == Msg(CONNACK, 0, <<>>, sp, rc)

\* SetPacketID(v) of PUBREL and SUBACK.
SetPacketID(m, v) == [m EXCEPT !.id = v]

Result(e, n, m) == [err |-> e, n |-> n, msg |-> m]
Panic == Result("panic", 0, PingReqMsg)

\* binary.BigEndian.PutUint16 / Uint16
PutUint16(v) == <<v \div 256, v % 256>>
Uint16(src, i) == src[i] * 256 + src[i + 1]

\* QosType.IsValidFull: QoS 0, 1 or 2.
IsValidFull(q) == q \in 0..2

\* SubAckMessage.AddReturnCodes: the codes before the first invalid one are
\* appended, then the call fails; returns (err, message after the call).
AddReturnCodes(m, ret) ==
    LET bad  == {i \in 1..Len(ret) : ~IsValidFull(ret[i])}
        stop == IF bad = {} THEN Len(ret) + 1 ELSE CHOOSE i \in bad : \A j \in bad : i <= j
    IN [err |-> IF bad = {} THEN "nil" ELSE "ErrInvalidReturnCode",
        msg |-> [m EXCEPT !.codes = @ \o SubSeq(ret, 1, stop - 1)]]

\* ConnAckCode.Valid: codes up to ErrNotAuthorized (5).
ConnAckValid(rc) == rc <= 5

(***************************************************************************)
(* decode                                                                  *)
(***************************************************************************)

\* PubRelMessage.decode: the packet ID is read without a length check.
PubRelDecode(src) ==
    LET h == HeaderDecode(src) IN
    CASE h.err # "nil"        -> Result(h.err, h.n, PubRelMsg(0))
      [] Len(src) < h.n + 2   -> Panic
      [] OTHER                -> Result("nil", h.n + 2, PubRelMsg(Uint16(src, h.n + 1)))

\* PingReqMessage.decode: the header only.
PingReqDecode(src) ==
    LET h == HeaderDecode(src) IN Result(h.err, h.n, PingReqMsg)

\* SubAckMessage.decode into a message whose returnCodes slice is old: the
\* slice is reallocated only when shorter than remLen - 2, the first l
\* entries are overwritten, and every entry of the slice is counted in
\* total and checked with IsValidFull.
SubAckDecode(old, src) ==
    LET h     == HeaderDecode(src)
        l     == h.remLen - 2
        base  == IF Len(old) < l THEN [i \in 1..l |-> 0] ELSE old
        codes == [i \in 1..Len(base) |-> IF i <= l THEN src[h.n + 2 + i] ELSE base[i]]
        total == h.n + 2 + Len(codes)
    IN
    CASE h.err # "nil"                   -> Result(h.err, h.n, SubAckMsg(0, old))
      [] Len(src) < h.n + 2 \/ l < 0     -> Panic
      [] \E i \in 1..Len(codes) : ~IsValidFull(codes[i]) ->
            Result("ErrInvalidReturnCode", total, SubAckMsg(Uint16(src, h.n + 1), codes))
      [] OTHER -> Result("nil", total, SubAckMsg(Uint16(src, h.n + 1), codes))

\* ConnAckMessage.decode (spec 3, connack_test.go): byte 1 holds only the
\* session-present bit, byte 2 a valid return code.
ConnAckDecode(src) ==
    LET h == HeaderDecode(src) IN
    CASE h.err # "nil"            -> Result(h.err, h.n, ConnAckMsg(FALSE, 0))
      [] h.remLen < 2             -> Result("ErrInvalidLength", h.n, ConnAckMsg(FALSE, 0))
      [] src[h.n + 1] > 1         -> Result("ErrInvalidMessageTypeFlags", h.n, ConnAckMsg(FALSE, 0))
      [] ~ConnAckValid(src[h.n + 2]) -> Result("ErrInvalidReturnCode", h.n, ConnAckMsg(FALSE, 0))
      [] OTHER -> Result("nil", h.n + 2, ConnAckMsg(src[h.n + 1] = 1, src[h.n + 2]))

\* message.Decode: the type nibble picks a new message to decode into.
Decode(src) ==
    IF Len(src) = 0 THEN Result("ErrInvalidLength", 0, PingReqMsg)
    ELSE CASE src[1] \div 16 = PUBREL  -> PubRelDecode(src)
           [] src[1] \div 16 = PINGREQ -> PingReqDecode(src)
           [] src[1] \div 16 = SUBACK  -> SubAckDecode(<<>>, src)
           [] src[1] \div 16 = CONNACK -> ConnAckDecode(src)
           [] OTHER -> Result("ErrInvalidMessageType", 0, PingReqMsg)

(***************************************************************************)
(* encode                                                                  *)
(***************************************************************************)

\* size() of each message: the remaining length it declares.
PubRelSize(m) == 2
PingReqSize(m) == 0

SubAckSize(m) == 2 + Len(m.codes)

size(m) ==
    CASE m.type = PUBREL  -> PubRelSize(m)
      [] m.type = PINGREQ -> PingReqSize(m)
      [] m.type = SUBACK  -> SubAckSize(m)
      [] m.type = CONNACK -> 2

\* header.Size: the header's bytes plus size().
Size(m) == HeaderSize(size(m))

Header(m) == HeaderEncode(m.type, DefaultFlags(m.type), size(m))

\* preEncode: the packet ID is checked first ([MQTT-2.3.1]); each returns
\* (err, bytes written).
PubRelPreEncode(m) ==
    IF m.id = 0 THEN [err |-> "ErrPackedIDZero", bytes |-> <<>>]
    ELSE [err |-> "nil", bytes |-> Header(m) \o PutUint16(m.id)]

PingReqPreEncode(m) == [err |-> "nil", bytes |-> Header(m)]

SubAckPreEncode(m) ==
    IF m.id = 0 THEN [err |-> "ErrPackedIDZero", bytes |-> <<>>]
    ELSE [err |-> "nil", bytes |-> Header(m) \o PutUint16(m.id) \o m.codes]

ConnAckPreEncode(m) == [err |-> "nil", bytes |-> Header(m) \o <<IF m.sp THEN 1 ELSE 0, m.rc>>]

preEncode(m) ==
    CASE m.type = PUBREL  -> PubRelPreEncode(m)
      [] m.type = PINGREQ -> PingReqPreEncode(m)
      [] m.type = SUBACK  -> SubAckPreEncode(m)
      [] m.type = CONNACK -> ConnAckPreEncode(m)

\* PingReqMessage.Encode(dst): Size, the capacity check, then a preEncode
\* that cannot fail.
PingReqEncode(m, dstLen) ==
    LET s == Size(m) IN
    CASE s.err # "nil"  -> [err |-> s.err, bytes |-> <<>>]
      [] dstLen < s.n   -> [err |-> "ErrInsufficientBufferSize", bytes |-> <<>>]
      [] OTHER          -> [err |-> "nil", bytes |-> PingReqPreEncode(m).bytes]

\* Encode(dst) of the other messages: Size, the capacity check, preEncode.
Encode(m, dstLen) ==
    LET s == Size(m) IN
    CASE m.type = PINGREQ -> PingReqEncode(m, dstLen)
      [] s.err # "nil"    -> [err |-> s.err, bytes |-> <<>>]
      [] dstLen < s.n     -> [err |-> "ErrInsufficientBufferSize", bytes |-> <<>>]
      [] OTHER            -> preEncode(m)
=============================================================================
