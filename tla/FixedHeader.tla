----------------------------- MODULE FixedHeader -----------------------------
(***************************************************************************)
(* The fixed header every packet starts with (spec 4.1): byte 0 is        *)
(* type << 4 | flags, then the remaining length as a 1..4 byte varint,     *)
(* 7 bits per byte, low group first, top bit = continuation.               *)
(* header.go is not part of the repository: this module follows the spec  *)
(* and the flag table of TestFixedHeaderFlags (message_test.go).           *)
(* Bytes are naturals 0..255, buffers sequences of bytes.                  *)
(***************************************************************************)
EXTENDS Naturals, Sequences

\* Packet types (TestMessageTypes).
CONNECT == 1
CONNACK == 2
PUBLISH == 3
PUBACK == 4
PUBREC == 5
PUBREL == 6
PUBCOMP == 7
SUBSCRIBE == 8
SUBACK == 9
UNSUBSCRIBE == 10
UNSUBACK == 11
PINGREQ == 12
PINGRESP == 13
DISCONNECT == 14

Bytes == 0..255

\* Type.DefaultFlags: 2 for PUBREL, SUBSCRIBE and UNSUBSCRIBE, else 0.
DefaultFlags(t) == IF t \in {PUBREL, SUBSCRIBE, UNSUBSCRIBE} THEN 2 ELSE 0

MaxRemLen == 268435455

\* Minimal varint encoding of a remaining length.
RECURSIVE EncodeRemLen(_)
EncodeRemLen(n) ==
    IF n < 128 THEN <<n>> ELSE <<(n % 128) + 128>> \o EncodeRemLen(n \div 128)

\* Reads the varint at src[i..]: k bytes read so far, mul the weight of
\* the next 7-bit group, acc the value so far.  Fails on a 5th byte or on
\* the end of the buffer.
RECURSIVE RemLenFrom(_, _, _, _, _)
RemLenFrom(src, i, k, mul, acc) ==
    IF k = 4 \/ i > Len(src)
      THEN [err |-> "ErrInvalidLength", val |-> acc, len |-> k]
      ELSE IF src[i] < 128
             THEN [err |-> "nil", val |-> acc + src[i] * mul, len |-> k + 1]
             ELSE RemLenFrom(src, i + 1, k + 1, mul * 128, acc + (src[i] - 128) * mul)

HeaderResult(e, n, t, f, rl) == [err |-> e, n |-> n, type |-> t, flags |-> f, remLen |-> rl]

\* header.decode: type, flags, remaining length; the declared remaining
\* length must fit in the buffer.
HeaderDecode(src) ==
    IF Len(src) = 0 THEN HeaderResult("ErrInvalidLength", 0, 0, 0, 0)
    ELSE
    LET t  == src[1] \div 16
        f  == src[1] % 16
        rl == RemLenFrom(src, 2, 0, 1, 0)
    IN
    CASE t \notin CONNECT..DISCONNECT ->
            HeaderResult("ErrInvalidMessageType", 0, t, f, 0)
      [] t # PUBLISH /\ f # DefaultFlags(t) ->
            HeaderResult("ErrInvalidMessageTypeFlags", 1, t, f, 0)
      [] t = PUBLISH /\ (f \div 2) % 4 = 3 ->
            HeaderResult("ErrInvalidQoS", 1, t, f, 0)
      [] rl.err # "nil" \/ rl.val > Len(src) - 1 - rl.len ->
            HeaderResult("ErrInvalidLength", 1 + rl.len, t, f, rl.val)
      [] OTHER ->
            HeaderResult("nil", 1 + rl.len, t, f, rl.val)

\* header.encode
HeaderEncode(t, f, rl) == <<t * 16 + f>> \o EncodeRemLen(rl)

\* header.Size: the header's length plus the remaining length sizeCb gives;
\* a remaining length above the maximum is ErrInvalidLength.
HeaderSize(rl) ==
    IF rl > MaxRemLen THEN [err |-> "ErrInvalidLength", n |-> 0]
    ELSE [err |-> "nil", n |-> 1 + Len(EncodeRemLen(rl)) + rl]
=============================================================================
