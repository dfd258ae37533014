------------------------------ MODULE ByteCodec ------------------------------
(***************************************************************************)
(* The codec of WireCodec at the level of bytes: frames are built by       *)
(* BytesFormat::from out of a ServiceID, a ConnID (src/src/wire_format/    *)
(* unique_id.rs) and a payload, the encoder writes the u64 little-endian   *)
(* length prefix and the frame, and the decoder reads the prefix out of    *)
(* its receive buffer (a BytesMut), advances past it and splits the frame  *)
(* off.  The bytes are kept exactly; WireCodec is the abstraction in which *)
(* a unit is only a frame identity and three numbers, and this module is   *)
(* shown to implement it.                                                  *)
(***************************************************************************)
EXTENDS Integers, Sequences, SequencesExt

CONSTANTS
    MaxLength,      \* max_length given to MulServTokioCodec::new
    Writes,         \* what the writer may try to send: [kind, len] with
                    \* kind "Call", "Send" or "ConnErr", len the payload size
    RoguePrefixes,  \* length prefixes a non-conforming remote may write
    MaxFrames,      \* bound on the number of units written
    SidSeed         \* the xxhash of the service name the writer calls

ID_LEN     == 16    \* unique_id.rs: 128-bit ids, two u64
HEADER_LEN == 32    \* bytes_format.rs: 16 bytes sid + 16 bytes conn id
PREFIX_LEN == 8     \* the u64 length field written by the encoder

\* Values read from a prefix stay below 2^31 (TLC's integers).
ASSUME \A d \in RoguePrefixes \cup {MaxLength + PREFIX_LEN} : d \in 0..(2^30)

Byte == 0..255

\* write_u64::<LittleEndian>(v) for n = 8: least significant byte first.
RECURSIVE LEBytes(_, _)
LEBytes(v, n) == IF n = 0 THEN <<>> ELSE <<v % 256>> \o LEBytes(v \div 256, n - 1)

\* read_u64::<LittleEndian>() on 8 bytes.
RECURSIVE ReadLE(_)
ReadLE(bs) == IF bs = <<>> THEN 0 ELSE Head(bs) + 256 * ReadLE(Tail(bs))

(***************************************************************************)
(* unique_id.rs.                                                           *)
(***************************************************************************)
\* UniqueID::random: two u64 draws of the rng, written little endian.
Random(a, b) == LEBytes(a, 8) \o LEBytes(b, 8)

\* UniqueID::from_seed: the 64-bit hash of the seed, then a zero u64.
FromSeed(h) == LEBytes(h, 8) \o LEBytes(0, 8)

\* UniqueID::null: sixteen zero bytes.
Null == LEBytes(0, ID_LEN)

\* Mutant: only the second u64 of the id is tested.
IsNullHighHalf(id) == \A i \in (PREFIX_LEN + 1)..ID_LEN : id[i] = 0

\* UniqueID::is_null: all bytes are 0.
IsNull(id) == \A i \in 1..Len(id) : id[i] = 0

(***************************************************************************)
(* bytes_format.rs.                                                        *)
(***************************************************************************)
\* From<(ServiceID, ConnID, Bytes)>: sid, conn id and payload, in order.
MakeFrame(sid, cid, mesg) == sid \o cid \o mesg

\* WireFormat::service, conn_id and mesg: slices 0..16, 16..32 and 32.. .
Service(f) == SubSeq(f, 1, ID_LEN)
ConnId(f)  == SubSeq(f, ID_LEN + 1, HEADER_LEN)
Mesg(f)    == SubSeq(f, HEADER_LEN + 1, Len(f))

\* Mutant: only an empty buffer is refused.
TryFromNonEmpty(bs) == Len(bs) > 0

\* TryFrom<Bytes>: refuse fewer bytes than the header.
TryFrom(bs) == Len(bs) >= HEADER_LEN

\* Spec 3: a frame is at least the 32-byte header.
Frame == {f \in Seq(Byte) : Len(f) >= HEADER_LEN}

VARIABLES
    wire,       \* bytes the writer put on the stream
    sent,       \* per unit written: [kind, sid, cid, mesg, size] (history)
    rejected,   \* frames the encoder refused
    arrived,    \* how many bytes of wire reached the reader
    buf,        \* the reader's receive buffer
    decoded,    \* frames produced by the decoder, in order
    decodeErr,  \* errors the decoder has returned
    panicked    \* the decoder panicked

vars == <<wire, sent, rejected, arrived, buf, decoded, decodeErr, panicked>>

TypeOK ==
    /\ wire \in Seq(Byte) /\ buf \in Seq(Byte)
    /\ arrived \in 0..Len(wire)
    /\ rejected \in Seq(Frame)
    /\ decoded \in Seq(Frame)
    /\ decodeErr \subseteq {"MessageSizeExceeded", "Deserialize"}
    /\ panicked \in BOOLEAN

Init ==
    /\ wire = <<>> /\ sent = <<>> /\ rejected = <<>>
    /\ arrived = 0 /\ buf = <<>> /\ decoded = <<>>
    /\ decodeErr = {} /\ panicked = FALSE

\* The k-th message: its first byte is k (its content only tells frames
\* apart).
Message(k, w) == [i \in 1..w.len |-> IF i = 1 THEN k ELSE 0]

\* Peer::prep_error(cid_null, err): the null ServiceID marks an error; the
\* message is the serialized ConnectionError.
ErrorFrame(k, w) == MakeFrame(Null, Null, Message(k, w))

\* The k-th frame a peer writes: a call of the service under a fresh ConnID
\* whose first rng draw was k, a send under the null ConnID, or an error.
WriterFrame(k, w) ==
    CASE w.kind = "Call" -> MakeFrame(FromSeed(SidSeed), Random(k, 0), Message(k, w))
      [] w.kind = "Send" -> MakeFrame(FromSeed(SidSeed), Null, Message(k, w))
      [] OTHER           -> ErrorFrame(k, w)

\* Mutant: the prefix is the item length, not counting itself.
EncodePrefixItemLen(item) == LEBytes(Len(item), 8)

\* The u64 item.len() + 8, little endian.
EncodePrefix(item) == LEBytes(Len(item) + PREFIX_LEN, 8)

\* Encoder::encode: refuse item.len() > max_length; otherwise write the u64
\* item.len() + 8 and the item.
Encode(w) ==
    LET k    == Len(sent) + Len(rejected) + 1
        item == WriterFrame(k, w)
    IN /\ Len(sent) + Len(rejected) < MaxFrames
       /\ IF Len(item) > MaxLength
            THEN /\ rejected' = Append(rejected, item)
                 /\ UNCHANGED <<wire, sent>>
            ELSE /\ wire' = wire \o EncodePrefix(item) \o item
                 /\ sent' = Append(sent, [kind |-> w.kind, sid |-> Service(item), cid |-> ConnId(item),
                                          mesg |-> Mesg(item), size |-> PREFIX_LEN + Len(item)])
                 /\ UNCHANGED rejected
       /\ UNCHANGED <<arrived, buf, decoded, decodeErr, panicked>>

\* A remote that does not use this encoder: the prefix d, then a header
\* with a null service id.
WriteRogue(d) ==
    LET k    == Len(sent) + Len(rejected) + 1
        item == MakeFrame(Null, Random(k, 0), <<>>)
    IN /\ Len(sent) + Len(rejected) < MaxFrames
       /\ wire' = wire \o LEBytes(d, 8) \o item
       /\ sent' = Append(sent, [kind |-> "ConnErr", sid |-> Null, cid |-> Random(k, 0), mesg |-> <<>>,
                                size |-> PREFIX_LEN + HEADER_LEN])
       /\ UNCHANGED <<rejected, arrived, buf, decoded, decodeErr, panicked>>

\* The transport appends the next k bytes of the stream to the buffer.
Deliver(k) ==
    /\ arrived + k <= Len(wire)
    /\ arrived' = arrived + k
    /\ buf' = buf \o SubSeq(wire, arrived + 1, arrived + k)
    /\ UNCHANGED <<wire, sent, rejected, decoded, decodeErr, panicked>>

(***************************************************************************)
(* Decoder::decode on the receive buffer: nothing until 8 + HEADER_LEN     *)
(* bytes are there; the u64 prefix len read little endian (as usize, the   *)
(* identity on 64-bit targets); refuse len > max_length; wait for len      *)
(* bytes; buf.advance(8) and len -= 8 (underflow below 8: the reading task *)
(* panics); split_to(len); try_from.                                       *)
(***************************************************************************)
\* Mutant: advance(7), so the frame keeps the last byte of the prefix.
SplitFrameAdvanceSeven(b, len) == SubSeq(b, PREFIX_LEN, len - 1)

\* buf.advance(8) then buf.split_to(len - 8): the frame.
SplitFrame(b, len) == SubSeq(b, PREFIX_LEN + 1, len)

Decode ==
    LET len   == ReadLE(SubSeq(buf, 1, PREFIX_LEN))
        frame == SplitFrame(buf, len)
    IN /\ decodeErr = {} /\ ~panicked
       /\ Len(buf) >= PREFIX_LEN + HEADER_LEN
       /\ \/ /\ len > MaxLength
             /\ decodeErr' = decodeErr \cup {"MessageSizeExceeded"}
             /\ UNCHANGED <<buf, decoded, panicked>>
          \/ /\ len <= MaxLength /\ Len(buf) >= len /\ len < PREFIX_LEN
             /\ panicked' = TRUE
             /\ UNCHANGED <<buf, decoded, decodeErr>>
          \/ /\ len <= MaxLength /\ Len(buf) >= len /\ len >= PREFIX_LEN
             /\ buf' = SubSeq(buf, len + 1, Len(buf))
             /\ IF TryFrom(frame)
                  THEN decoded' = Append(decoded, frame) /\ UNCHANGED decodeErr
                  ELSE decodeErr' = decodeErr \cup {"Deserialize"} /\ UNCHANGED decoded
             /\ UNCHANGED panicked
       /\ UNCHANGED <<wire, sent, rejected, arrived>>

\* One byte, or all that is in flight.  Single bytes already reach every
\* split of the stream the transport can produce, so larger chunks would
\* only add transitions between the same states.
Chunks == {1, Len(wire) - arrived} \ {0}

Next ==
    \/ \E w \in Writes : Encode(w)
    \/ \E d \in RoguePrefixes : WriteRogue(d)
    \/ \E k \in Chunks : Deliver(k)
    \/ Decode

Spec == Init /\ [][Next]_vars

-----------------------------------------------------------------------------
(***************************************************************************)
(* Refinement mapping to WireCodec.  The units are cut out of the bytes    *)
(* with the sizes the writer recorded; a unit's declared length is read    *)
(* from its prefix, a frame's identity from the first rng draw of its      *)
(* conn id (of a send: its message), its length is its byte count.  consumed is what arrived and is *)
(* no longer in the buffer.                                                *)
(***************************************************************************)
RECURSIVE UnitOffset(_)
UnitOffset(i) == IF i = 1 THEN 0 ELSE UnitOffset(i - 1) + sent[i - 1].size
UnitBytes(i)  == SubSeq(wire, UnitOffset(i) + 1, UnitOffset(i) + sent[i].size)
AbsFrame(f)   == [id  |-> IF IsNull(ConnId(f)) THEN Mesg(f)[1]
                          ELSE ReadLE(SubSeq(f, ID_LEN + 1, ID_LEN + 8)),
                  len |-> Len(f)]
AbsUnit(i)    == [frame |-> AbsFrame(SubSeq(UnitBytes(i), PREFIX_LEN + 1, sent[i].size)),
                  decl  |-> ReadLE(SubSeq(UnitBytes(i), 1, PREFIX_LEN)),
                  size  |-> sent[i].size]

WC == INSTANCE WireCodec WITH
        PayloadLens <- {w.len : w \in Writes},
        stream   <- [i \in 1..Len(sent) |-> AbsUnit(i)],
        rejected <- [i \in 1..Len(rejected) |-> AbsFrame(rejected[i])],
        consumed <- arrived - Len(buf),
        decoded  <- [i \in 1..Len(decoded) |-> AbsFrame(decoded[i])]

(* The byte-level codec implements WireCodec: every step of encoder,       *)
(* transport and decoder is a step of the abstract codec under the        *)
(* mapping (the prefix is read back as the number the encoder wrote, the   *)
(* decoder advances by exactly the prefix and splits exactly the frame).   *)
WireCodecRefined == WC!Spec

(* What the reader hands to the peer is what the writer built: the i-th    *)
(* decoded frame has the service id, conn id and payload of the i-th unit  *)
(* written (spec 8, decode(encode(frame)) == frame; BytesFormat::from      *)
(* against the service, conn_id and mesg slices after the decoder's split).*)
FramesIntact ==
    \A i \in 1..Len(decoded) :
        /\ Service(decoded[i]) = sent[i].sid
        /\ ConnId(decoded[i]) = sent[i].cid
        /\ Mesg(decoded[i]) = sent[i].mesg

(***************************************************************************)
(* The reading peer's Handler<Incoming> on a decoded frame: a null sid is  *)
(* a ConnectionError of the remote, else a null cid is a send, else (the   *)
(* reader has no call outstanding) a call.  The sid and cid conversions    *)
(* (UniqueID::try_from) cannot fail, so the Deserialize branches for them  *)
(* are never taken.                                                        *)
(***************************************************************************)
Kind(f) ==
    CASE IsNull(Service(f))                        -> "ConnErr"
      [] ~IsNull(Service(f)) /\ IsNull(ConnId(f))  -> "Send"
      [] ~IsNull(Service(f)) /\ ~IsNull(ConnId(f)) -> "Call"

(* What the writer meant is what the reader's peer does: after framing,    *)
(* byte transport, decoding and the sid/cid slices, is_null tells the      *)
(* i-th frame's kind apart as it was written (a call's fresh ConnID and   *)
(* the hashed ServiceID are never mistaken for the null id, a send's null *)
(* ConnID is found again).                                                 *)
ClassifiedAsWritten ==
    \A i \in 1..Len(decoded) : Kind(decoded[i]) = sent[i].kind
=============================================================================
