---------------------------- MODULE MCWireCodec ----------------------------
(***************************************************************************)
(* Model-checking instance of WireCodec.  The test suite frames its        *)
(* connections with max_length 1024 and small messages; here the limit is  *)
(* scaled down to sit among the frame sizes, so that each case of the two  *)
(* size checks happens: frames well under the limit (payloads 0 and 8,     *)
(* total 32 and 40), a frame within 8 bytes under it (payload 16, total    *)
(* 48) and a frame over it (payload 20, total 52).                         *)
(***************************************************************************)
EXTENDS WireCodec

MCMaxLength   == 48
MCPayloadLens == {0, 8, 16, 20}
MCMaxFrames   == 3

\* A foreign writer's prefix: 20 is under the header size (try_from refuses
\* the 12 bytes), 3 is under the prefix's own size (len - 8 underflows).
MCRoguePrefixes      == {3, 20}
MCRoguePrefixesShort == {3}
=============================================================================
