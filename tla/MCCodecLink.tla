----------------------------- MODULE MCCodecLink -----------------------------
(***************************************************************************)
(* Instances of CodecLink for TLC.  Two AddReturnCodes calls can build a  *)
(* SUBACK of 126 codes, whose remaining length (128) needs a two-byte     *)
(* varint, or of 124/125 codes (126/127, one byte); <<1, 128>> makes a    *)
(* call fail halfway.  Packet ID 0 is the unset ID.                       *)
(***************************************************************************)
EXTENDS CodecLink

Codes(k) == [i \in 1..k |-> (i - 1) % 3]

MCTemplates ==
    { PubRelMsg(0), PingReqMsg, SubAckMsg(0, <<>>),
      ConnAckMsg(TRUE, 0), ConnAckMsg(FALSE, 5) }

MCIds == {0, 258}

MCRetLists == {<<0, 1, 2>>, Codes(123), <<1, 128>>}

\* Buffers too short for a PUBREL, exactly a PUBREL, and large enough for all.
MCDstLens == {3, 4, 200}

\* Only SUBACKs, for the reused-receiver run.
SubAckTemplates == {SubAckMsg(0, <<>>)}
ShortRetLists == {<<0, 1, 2>>, <<1>>}

\* Bytes a peer may send first.
NoPeerBytes    == {<<>>}
\* PUBREL, remaining length 0: the packet ID is read past the end.
TruncatedPubRel == {<<98, 0>>}
\* PUBREL declaring 4 bytes after the header, 2 of them extra.
LongPubRel     == {<<98, 4, 0, 1, 0, 0>>}
\* A SUBACK with codes 1 and 0x80 (failure), from the peer and to be built
\* by the sender.
FailureRetLists == {<<1, 128>>}
FailureSubAck   == {<<144, 4, 0, 7, 1, 128>>}

=============================================================================
