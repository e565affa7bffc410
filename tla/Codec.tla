------------------------------- MODULE Codec --------------------------------
(***************************************************************************)
(* What a datagram looks like: the cleartext header (header.rs), the kinds *)
(* (frame/tag.rs) and the bodies (codec.rs), as sequences of bytes.  A     *)
(* byte is a digit of base Base and the field widths are scaled down; the  *)
(* layouts, the length checks and their order are the code's.              *)
(***************************************************************************)
EXTENDS Integers, Sequences, SequencesExt

CONSTANTS
    Base,             \* a byte is 0 .. Base - 1 (256 in the code)
    U16Len, U32Len, U64Len,
                      \* bytes of an integer (2, 4 and 8 in the code)
    IdLen,            \* RequestId::LEN
    Version,          \* VERSION
    MaxPayload,       \* MAX_PAYLOAD
    MaxNackEntries    \* MAX_NACK_ENTRIES

Byte    == 0 .. (Base - 1)
UInt(w) == LET pow[i \in 0 .. w] == IF i = 0 THEN 1 ELSE Base * pow[i - 1]
           IN  0 .. (pow[w] - 1)

ASSUME CodecAssumption ==
    /\ Base \in Nat /\ Base > 6 /\ Version \in 0 .. (Base - 1)
    /\ U16Len \in Nat \ {0} /\ U32Len \in Nat \ {0} /\ U64Len \in Nat \ {0}
    /\ IdLen \in Nat /\ MaxPayload \in Nat
    /\ MaxNackEntries \in UInt(U16Len)

\* to_be_bytes and from_be_bytes for an integer of w bytes, the first byte first.
ToBytes(n, w) ==
    LET rest[i \in 0 .. w] == IF i = 0 THEN n ELSE rest[i - 1] \div Base
    IN  [i \in 1 .. w |-> rest[w - i] % Base]
FromBytes(bs) ==
    LET val[i \in 0 .. Len(bs)] == IF i = 0 THEN 0 ELSE val[i - 1] * Base + bs[i]
    IN  val[Len(bs)]

-----------------------------------------------------------------------------
Kinds == {"Data", "End", "EndAck", "Ack", "Nack", "Keepalive"}

\* PacketKind as u8, and from_u8 as its inverse.
KindByte == [Data |-> 0, End |-> 1, EndAck |-> 2, Ack |-> 3, Nack |-> 4, Keepalive |-> 5]
KindOf(b) == CHOOSE k \in Kinds : KindByte[k] = b

\* A slip: payload one way, control the other.
DirectionOfByClass(kind) == IF kind = "Data" THEN "Send" ELSE "Recv"

\* PacketKind::direction and PacketKind::seq_class
DirectionOf(kind) == IF kind \in {"Data", "End", "Keepalive"} THEN "Send" ELSE "Recv"
SeqClassOf(kind)  == IF kind = "Data" THEN "Data" ELSE "Control"

-----------------------------------------------------------------------------
HeaderLen == 2 + IdLen + U32Len

\* Header::to_bytes
HeaderBytes(h) == <<Version, KindByte[h.kind]>> \o h.request_id \o ToBytes(h.seq, U32Len)

\* The checks of peek_request_id; parse also knows the kind.
Peekable(buf)  == Len(buf) >= HeaderLen /\ buf[1] = Version
Parseable(buf) == Peekable(buf) /\ \E k \in Kinds : KindByte[k] = buf[2]

PeekRequestId(buf) == SubSeq(buf, 3, 2 + IdLen)

\* Header::parse: the header, and the bytes after it.
ParsedHeader(buf) == [kind       |-> KindOf(buf[2]),
                      request_id |-> SubSeq(buf, 3, 2 + IdLen),
                      seq        |-> FromBytes(SubSeq(buf, 3 + IdLen, HeaderLen))]
AfterHeader(buf)  == SubSeq(buf, HeaderLen + 1, Len(buf))

-----------------------------------------------------------------------------
\* The bodies of each kind.
Bodies(kind) ==
    CASE kind = "Data"      -> [ts : UInt(U64Len), payload : BoundedSeq(Byte, MaxPayload)]
      [] kind = "End"       -> [final_seq : UInt(U32Len)]
      [] kind = "EndAck"    -> {<<>>}
      [] kind = "Ack"       -> [contiguous : UInt(U32Len), highest : UInt(U32Len),
                                buffered_ms : UInt(U16Len)]
      [] kind = "Nack"      -> [missing : BoundedSeq(UInt(U32Len), MaxNackEntries)]
      [] kind = "Keepalive" -> [lost_below : UInt(U32Len)]

\* encode_body refuses a payload or a list that is too long ...
Encodable(kind, body) == /\ kind = "Data" => Len(body.payload) <= MaxPayload
                         /\ kind = "Nack" => Len(body.missing) <= MaxNackEntries

\* ... and writes the rest in a fixed order.
EncodeBody(kind, body) ==
    CASE kind = "Data"      -> ToBytes(body.ts, U64Len) \o body.payload
      [] kind = "End"       -> ToBytes(body.final_seq, U32Len)
      [] kind = "EndAck"    -> <<>>
      [] kind = "Ack"       -> ToBytes(body.contiguous, U32Len)
                                \o ToBytes(body.highest, U32Len)
                                \o ToBytes(body.buffered_ms, U16Len)
      [] kind = "Nack"      -> ToBytes(Len(body.missing), U16Len)
                                \o FlattenSeq([i \in DOMAIN body.missing |->
                                                  ToBytes(body.missing[i], U32Len)])
      [] kind = "Keepalive" -> ToBytes(body.lost_below, U32Len)

\* take_u16, take_u32 and take_u64 at an offset.
Take(buf, at, w) == FromBytes(SubSeq(buf, at + 1, at + w))

\* A slip: bytes after the fixed layout are ignored.
ExpectLenAtLeast(buf, want) == Len(buf) >= want

\* expect_len
ExpectLen(buf, want) == Len(buf) = want

\* decode_body succeeds: lengths first, and a Nack's count before its entries.
Decodable(kind, buf) ==
    CASE kind = "Data"   -> Len(buf) >= U64Len /\ Len(buf) - U64Len <= MaxPayload
      [] kind \in {"End", "Keepalive"} -> ExpectLen(buf, U32Len)
      [] kind = "EndAck" -> ExpectLen(buf, 0)
      [] kind = "Ack"    -> ExpectLen(buf, 2 * U32Len + U16Len)
      [] kind = "Nack"   -> IF Len(buf) < U16Len THEN FALSE
                            ELSE LET count == Take(buf, 0, U16Len)
                                 IN  /\ count <= MaxNackEntries
                                     /\ ExpectLen(buf, U16Len + count * U32Len)

DecodeBody(kind, buf) ==
    CASE kind = "Data"      -> [ts      |-> Take(buf, 0, U64Len),
                                payload |-> SubSeq(buf, U64Len + 1, Len(buf))]
      [] kind = "End"       -> [final_seq |-> Take(buf, 0, U32Len)]
      [] kind = "EndAck"    -> <<>>
      [] kind = "Ack"       -> [contiguous  |-> Take(buf, 0, U32Len),
                                highest     |-> Take(buf, U32Len, U32Len),
                                buffered_ms |-> Take(buf, 2 * U32Len, U16Len)]
      [] kind = "Nack"      -> [missing |-> [i \in 1 .. Take(buf, 0, U16Len) |->
                                    Take(buf, U16Len + (i - 1) * U32Len, U32Len)]]
      [] kind = "Keepalive" -> [lost_below |-> Take(buf, 0, U32Len)]
=============================================================================
