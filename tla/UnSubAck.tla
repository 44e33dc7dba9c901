------------------------------- MODULE UnSubAck -------------------------------
(***************************************************************************)
(* UnSubAckMessage (part_003), written against the older header API that  *)
(* caches the encoded form: a message is "dirty" until decoded, and a     *)
(* clean message re-sends its cached bytes dBuf instead of re-encoding.   *)
(* The packet ID is a byte slice: Decode keeps a 2-byte view of its       *)
(* source, and a message whose ID was never set holds an empty one.       *)
(* That header's code is not in the repository: New and SetPacketID       *)
(* marking the message dirty follows its use here, and whether            *)
(* header.decode records its source in dBuf is left open.                 *)
(***************************************************************************)
EXTENDS FixedHeader

CONSTANTS
    Ids,       \* packet IDs passed to SetPacketID
    Inputs,    \* byte strings handed to Decode
    DstLens,   \* lengths of the buffers handed to Encode
    MaxCalls   \* bound on the calls on the message

VARIABLES
    dirty,   \* header.dirty
    dBuf,    \* header.dBuf, the cached encoding
    pid,     \* msg.packetID, a byte slice
    ext,     \* len(to.ExternalBuf)
    out,     \* bytes the last Encode or Send wrote
    calls

vars == <<dirty, dBuf, pid, ext, out, calls>>

\* msgLen: the packet ID.
msgLen == 2

\* Len: the cached length of a clean message, else header plus msgLen.
UnSubAckLen == IF ~dirty THEN Len(dBuf) ELSE 1 + Len(EncodeRemLen(msgLen)) + msgLen

\* The packet ID copied into dst: zeros when the slice is not 2 bytes long.
IdBytes == IF Len(pid) = 2 THEN pid ELSE <<0, 0>>

\* What Encode writes into a buffer of length d: (err, bytes).
EncodeOut(d) ==
    CASE d < UnSubAckLen  -> [err |-> "ErrInsufficientBufferSize", bytes |-> <<>>]
      [] ~dirty    -> [err |-> "nil", bytes |-> dBuf]
      [] OTHER     -> [err |-> "nil", bytes |-> HeaderEncode(UNSUBACK, 0, msgLen) \o IdBytes]

\* What Send hands to the transport.
SendOut ==
    IF ~dirty THEN dBuf ELSE HeaderEncode(UNSUBACK, 0, msgLen) \o IdBytes

\* Mutant: the packet ID read one byte into the packet.
UnSubAckDecodeOffset(src) ==
    LET h == HeaderDecode(src) IN
    CASE h.err # "nil"      -> [err |-> h.err, n |-> h.n, pid |-> <<>>]
      [] Len(src) < h.n + 3 -> [err |-> "panic", n |-> 0, pid |-> <<>>]
      [] OTHER              -> [err |-> "nil", n |-> h.n + 2, pid |-> SubSeq(src, h.n + 2, h.n + 3)]

\* Decode: header, then a 2-byte view of src as the packet ID.  Slicing
\* past the end of src panics.
UnSubAckDecode(src) ==
    LET h == HeaderDecode(src) IN
    CASE h.err # "nil"      -> [err |-> h.err, n |-> h.n, pid |-> <<>>]
      [] Len(src) < h.n + 2 -> [err |-> "panic", n |-> 0, pid |-> <<>>]
      [] OTHER              -> [err |-> "nil", n |-> h.n + 2, pid |-> SubSeq(src, h.n + 1, h.n + 2)]

\* NewUnSubAckMessage: SetType marks the message dirty.
Init ==
    /\ dirty = TRUE
    /\ dBuf = <<>>
    /\ pid = <<>>
    /\ ext = 0
    /\ out = <<>>
    /\ calls = 0

Call == calls < MaxCalls /\ calls' = calls + 1

\* header.SetPacketID: the ID as 2 big-endian bytes; the message is dirty.
SetPacketID(v) ==
    /\ Call
    /\ pid' = <<v \div 256, v % 256>>
    /\ dirty' = TRUE
    /\ UNCHANGED <<dBuf, ext, out>>

\* Decode; inputs that would panic are not handed to it.
Decode(src) ==
    LET r == UnSubAckDecode(src) IN
    /\ Call
    /\ r.err # "panic"
    /\ IF r.err = "nil"
         THEN /\ pid' = r.pid
              /\ dirty' = FALSE
              /\ dBuf' \in {dBuf, src}
         ELSE UNCHANGED <<pid, dirty, dBuf>>
    /\ UNCHANGED <<ext, out>>

Encode(d) ==
    LET e == EncodeOut(d) IN
    /\ Call
    /\ out' = e.bytes
    /\ UNCHANGED <<dirty, dBuf, pid, ext>>

\* Send: a clean message hands dBuf to the transport; a dirty one is
\* encoded into ExternalBuf, grown to Len() if shorter.
Send ==
    /\ Call
    /\ ext' = IF dirty /\ ext < UnSubAckLen THEN UnSubAckLen ELSE ext
    /\ out' = SendOut
    /\ UNCHANGED <<dirty, dBuf, pid>>

Done == calls = MaxCalls /\ UNCHANGED vars

Next ==
    \/ \E v \in Ids : SetPacketID(v)
    \/ \E src \in Inputs : Decode(src)
    \/ \E d \in DstLens : Encode(d)
    \/ Send
    \/ Done

Spec == Init /\ [][Next]_vars

(***************************************************************************)
(* Properties                                                              *)
(***************************************************************************)

\* Encode and Send agree on the bytes of the message in every state it can
\* reach, Encode writes exactly Len() bytes when its size check passes, and
\* the bytes of a dirty message decode back to the packet ID it holds.
EncodingsAgree ==
    /\ \A d \in DstLens :
          EncodeOut(d).err = "nil" => EncodeOut(d).bytes = SendOut /\ Len(SendOut) = UnSubAckLen
    /\ dirty /\ Len(pid) = 2 =>
          UnSubAckDecode(SendOut) = [err |-> "nil", n |-> Len(SendOut), pid |-> pid]
=============================================================================
