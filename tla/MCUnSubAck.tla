----------------------------- MODULE MCUnSubAck -----------------------------
EXTENDS UnSubAck

\* A well-formed UNSUBACK with ID 9, one with ID 258, and a bad header.
MCInputs == {<<176, 2, 0, 9>>, <<176, 2, 1, 2>>, <<177, 2, 0, 9>>}
MCIds == {9, 65535}
\* Too short, exactly the packet, larger.
MCDstLens == {3, 4, 8}
=============================================================================
