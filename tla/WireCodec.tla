------------------------------ MODULE WireCodec ------------------------------
(***************************************************************************)
(* The length-prefixed framing codec of src/src/multi_service/tokio_codec.rs *)
(* (MulServTokioCodec) together with the frame constructor of               *)
(* src/src/bytes_format.rs (BytesFormat::try_from).                         *)
(*                                                                         *)
(* A writer encodes frames into one byte stream; the bytes reach the       *)
(* reader's receive buffer in chunks of any size (TCP gives no message     *)
(* boundaries); the reader calls decode whenever bytes arrived.  A frame   *)
(* is abstracted to its identity and its length in bytes (header plus      *)
(* payload); the byte stream to the sequence of encoded units, each one    *)
(* the u64 length prefix the encoder wrote followed by the frame.  Byte    *)
(* counts are kept exactly, since the size checks are what is modelled.    *)
(***************************************************************************)
EXTENDS Integers, Sequences, SequencesExt

CONSTANTS
    MaxLength,      \* max_length given to MulServTokioCodec::new
    PayloadLens,    \* payload sizes the writer may try to send
    RoguePrefixes,  \* length prefixes a non-conforming remote may write
    MaxFrames       \* bound on the number of units written

HEADER_LEN == 32    \* bytes_format.rs: 16 bytes sid + 16 bytes conn id
PREFIX_LEN == 8     \* the u64 length field written by the encoder

ASSUME MaxLength \in Nat /\ PayloadLens \subseteq Nat /\ RoguePrefixes \subseteq Nat
       /\ MaxFrames \in Nat

VARIABLES
    stream,     \* units written so far: [frame, decl, size]
    rejected,   \* frames the encoder refused (MessageSizeExceeded)
    arrived,    \* bytes of the stream that reached the receive buffer
    consumed,   \* bytes the decoder removed from the buffer
    decoded,    \* frames produced by the decoder, in order
    decodeErr,  \* errors the decoder has returned
    panicked    \* the decoder panicked (the reading task is gone)

vars == <<stream, rejected, arrived, consumed, decoded, decodeErr, panicked>>

Frame == [id : 1..MaxFrames, len : {HEADER_LEN + p : p \in PayloadLens}]
Unit  == [frame : Frame, decl : Nat, size : Nat]
DecodeErrors == {"MessageSizeExceeded", "Deserialize"}

\* Total bytes the encoder put on the stream.
RECURSIVE StreamBytes(_)
StreamBytes(s) == IF s = <<>> THEN 0 ELSE Head(s).size + StreamBytes(Tail(s))

\* Offsets in the byte stream at which an encoded unit starts.
UnitStarts == {StreamBytes(SubSeq(stream, 1, i)) : i \in 0..Len(stream)-1}

\* The unit whose length prefix starts at byte offset off.
UnitAt(off) == CHOOSE i \in 1..Len(stream) : StreamBytes(SubSeq(stream, 1, i-1)) = off

Frames(s) == [i \in 1..Len(s) |-> s[i].frame]

TypeOK ==
    /\ stream \in Seq(Unit)
    /\ rejected \in Seq(Frame)
    /\ arrived \in Nat /\ consumed \in Nat /\ consumed <= arrived
    /\ decoded \in Seq(Frame)
    /\ decodeErr \subseteq DecodeErrors
    /\ panicked \in BOOLEAN

Init ==
    /\ stream = <<>>
    /\ rejected = <<>>
    /\ arrived = 0
    /\ consumed = 0
    /\ decoded = <<>>
    /\ decodeErr = {}
    /\ panicked = FALSE

(***************************************************************************)
(* Encoder::encode: refuse an item longer than max_length, otherwise write *)
(* the u64 prefix item.len() + 8 and the item.                             *)
(***************************************************************************)
EncodeUnit(f) == [frame |-> f, decl |-> f.len + PREFIX_LEN, size |-> f.len + PREFIX_LEN]

Encode(p) ==
    LET f == [id |-> Len(stream) + Len(rejected) + 1, len |-> HEADER_LEN + p]
    IN /\ Len(stream) + Len(rejected) < MaxFrames
       /\ IF f.len > MaxLength
            THEN /\ rejected' = Append(rejected, f)
                 /\ UNCHANGED stream
            ELSE /\ stream' = Append(stream, EncodeUnit(f))
                 /\ UNCHANGED rejected
       /\ UNCHANGED <<arrived, consumed, decoded, decodeErr, panicked>>

\* A remote that does not use this encoder writes the prefix d followed by
\* a 32-byte header: the reader cannot tell the unit from an encoded one.
WriteRogue(d) ==
    LET f == [id |-> Len(stream) + Len(rejected) + 1, len |-> HEADER_LEN]
    IN /\ Len(stream) + Len(rejected) < MaxFrames
       /\ stream' = Append(stream, [frame |-> f, decl |-> d, size |-> PREFIX_LEN + HEADER_LEN])
       /\ UNCHANGED <<rejected, arrived, consumed, decoded, decodeErr, panicked>>

\* The transport hands the next k bytes of the stream to the reader.
Deliver(k) ==
    /\ arrived + k <= StreamBytes(stream)
    /\ arrived' = arrived + k
    /\ UNCHANGED <<stream, rejected, consumed, decoded, decodeErr, panicked>>

(***************************************************************************)
(* Decoder::decode on the receive buffer (the bytes arrived and not yet    *)
(* consumed).  Returns Ok(None) (no step) until 8 + HEADER_LEN bytes are   *)
(* there; reads the u64 prefix len; refuses len > max_length without       *)
(* consuming; waits until len bytes are buffered; then drops the prefix    *)
(* and computes len - 8, which underflows for a prefix under 8 (a panic    *)
(* in debug builds, a split_to out of bounds in release builds: the        *)
(* reading task dies either way); otherwise splits off len - 8 bytes and   *)
(* converts them with BytesFormat::try_from, which refuses fewer than      *)
(* HEADER_LEN bytes.  The first Err ends the reading: the peer handles it  *)
(* by closing the connection (Handler<Incoming>, Err branch).              *)
(***************************************************************************)
Decode ==
    LET buf == arrived - consumed
        u   == stream[UnitAt(consumed)]
        len == u.decl
    IN /\ consumed \in UnitStarts /\ decodeErr = {} /\ ~panicked
       /\ buf >= PREFIX_LEN + HEADER_LEN
       /\ \/ /\ len > MaxLength
             /\ decodeErr' = decodeErr \cup {"MessageSizeExceeded"}
             /\ UNCHANGED <<consumed, decoded, panicked>>
          \/ /\ len <= MaxLength /\ buf >= len /\ len < PREFIX_LEN
             /\ panicked' = TRUE
             /\ UNCHANGED <<consumed, decoded, decodeErr>>
          \/ /\ len <= MaxLength /\ buf >= len /\ len >= PREFIX_LEN
             /\ consumed' = consumed + PREFIX_LEN + (len - PREFIX_LEN)
             /\ IF len - PREFIX_LEN < HEADER_LEN
                  THEN /\ decodeErr' = decodeErr \cup {"Deserialize"}
                       /\ UNCHANGED decoded
                  ELSE /\ decoded' = Append(decoded, u.frame)
                       /\ UNCHANGED decodeErr
             /\ UNCHANGED panicked
       /\ UNCHANGED <<stream, rejected, arrived>>

Next ==
    \/ \E p \in PayloadLens : Encode(p)
    \/ \E d \in RoguePrefixes : WriteRogue(d)
    \/ \E k \in 1..(StreamBytes(stream) - arrived) : Deliver(k)
    \/ Decode

Spec == Init /\ [][Next]_vars

-----------------------------------------------------------------------------
(***************************************************************************)
(* Framing is never lost: however the bytes are chunked, the decoder only  *)
(* ever stops at the start of an encoded unit, and what it has decoded is  *)
(* exactly the encoded frames, in order (the `partials` test of            *)
(* tokio_codec.rs, for every chunking).  This is about the arithmetic of   *)
(* Decoder::decode: the prefix counts itself, the frame is len - 8 bytes.  *)
(***************************************************************************)
FramingPreserved ==
    /\ decodeErr = {} => consumed \in UnitStarts \cup {StreamBytes(stream)}
    /\ IsPrefix(decoded, Frames(stream))

(***************************************************************************)
(* The size limit is symmetric: a frame the encoder accepted is never      *)
(* refused by the decoder with the same max_length (spec section 8,        *)
(* "Max-size enforcement", and the round-trip property).                   *)
(***************************************************************************)
EncodedFramesDecode == "MessageSizeExceeded" \notin decodeErr

(***************************************************************************)
(* Whatever bytes the remote sends, the decoder returns an error and does  *)
(* not crash the reading task (spec section 4.1: a declared length the     *)
(* codec cannot accept is rejected, fatal for this connection only).       *)
(***************************************************************************)
NoDecoderPanic == ~panicked
=============================================================================
