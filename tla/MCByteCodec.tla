---------------------------- MODULE MCByteCodec ----------------------------
(* ByteCodec with the bounds of MCWireCodec: max_length 48, payloads under *)
(* it (36 bytes), within 8 bytes of it (48) and over it (52), and the     *)
(* rogue prefixes 3 and 20.                                                *)
EXTENDS ByteCodec

MCMaxLength     == 48
MCWrites ==
    {[kind |-> "Call", len |-> 4], [kind |-> "Call", len |-> 16],
     [kind |-> "Call", len |-> 20], [kind |-> "Send", len |-> 4],
     [kind |-> "ConnErr", len |-> 4]}
MCRoguePrefixes == {3, 20}
MCMaxFrames     == 3
MCSidSeed       == 4660
=============================================================================
