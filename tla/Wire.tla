-------------------------------- MODULE Wire --------------------------------
(***************************************************************************)
(* Sealing (crypto.rs) as the two ends of one request use it: they share   *)
(* one key and never send the nonce, so each end's counters are all that   *)
(* keeps nonces apart.  The tap numbers its frames (XferSeq, saturating)   *)
(* and its control packets (control_counter, wrapping, incremented before  *)
(* use); the sink numbers its control packets (ControlSeq, wrapping,       *)
(* incremented after use).  A number is consumed whether or not the packet *)
(* is then encoded and sent.                                               *)
(***************************************************************************)
EXTENDS Codec

CONSTANTS
    U32Max,      \* u32::MAX, scaled down
    MaxPackets   \* bound: packets of one class one end seals

ASSUME WireAssumption ==
    /\ U32Max \in UInt(U32Len) \ {0}
    /\ MaxPackets \in Nat

VARIABLES
    tap,    \* XferSender's next_seq and control_counter
    sink,   \* Entry's control_seq
    used    \* every nonce used, with the packet that used it; not in the code

wireVars == <<tap, sink, used>>

\* XferSender::new and arm
Init == /\ tap  = [next_seq |-> 1, control_counter |-> 0]
        /\ sink = [control_seq |-> 0]
        /\ used = {}

SaturatingNext(n) == IF n < U32Max THEN n + 1 ELSE U32Max
WrappingNext(n)   == (n + 1) % (U32Max + 1)

-----------------------------------------------------------------------------
\* A slip: one counter space for both classes.
NonceForNoClass(dir, class, counter) == <<dir, "Control", 0, counter>>

\* nonce_for: direction, class, epoch, counter.
NonceFor(dir, class, counter) == <<dir, class, 0, counter>>

\* The cipher is external: a tag verifies for the nonce, the header and the text
\* it was made for.  The text stands for its ciphertext.
Tag(h, dir, text) ==
    [nonce |-> NonceFor(dir, SeqClassOf(h.kind), h.seq), aad |-> HeaderBytes(h), text |-> text]

\* seal: the header in the clear, the sealed text after it.
Seal(h, dir, text) == [bytes |-> HeaderBytes(h) \o text, tag |-> Tag(h, dir, text)]

\* open succeeds for an end that expects packets of direction dir.
Opens(d, dir) ==
    /\ Parseable(d.bytes)
    /\ LET h == ParsedHeader(d.bytes)
       IN  DirectionOf(h.kind) = dir /\ d.tag = Tag(h, dir, AfterHeader(d.bytes))

\* The n-th packet of a class from one end has used a nonce.
Count(dir, class) ==
    LET mine == {u \in used : u.dir = dir /\ u.class = class}
    IN  IF mine = {} THEN 0 ELSE Max({u.n : u \in mine})

Use(dir, class, counter) ==
    /\ Count(dir, class) < MaxPackets
    /\ used' = used \cup {[dir |-> dir, class |-> class, n |-> Count(dir, class) + 1,
                           nonce |-> NonceFor(dir, class, counter)]}

-----------------------------------------------------------------------------
\* push_frame and dispatch
TapSealsData ==
    /\ Use("Send", "Data", tap.next_seq)
    /\ tap' = [tap EXCEPT !.next_seq = SaturatingNext(@)]
    /\ UNCHANGED sink

\* control_seq and dispatch, for End and Keepalive
TapSealsControl ==
    /\ tap' = [tap EXCEPT !.control_counter = WrappingNext(@)]
    /\ Use("Send", "Control", tap'.control_counter)
    /\ UNCHANGED sink

\* Entry::seal, for Ack, Nack and EndAck
SinkSeals ==
    /\ Use("Recv", "Control", sink.control_seq)
    /\ sink' = [sink EXCEPT !.control_seq = WrappingNext(@)]
    /\ UNCHANGED tap

Next == TapSealsData \/ TapSealsControl \/ SinkSeals

Spec == Init /\ [][Next]_wireVars

-----------------------------------------------------------------------------
\* How many packets of a class have a counter of their own: XferSeq starts at
\* one and sticks at the top, the control counters go round.
Lifetime(class) == IF class = "Data" THEN U32Max ELSE U32Max + 1

\* No nonce is used for two packets, whichever end and whichever class they are
\* of, before the counter of that class is used up (nonce_for: "Three things
\* keep it unique for a given key").
NonceUnique ==
    \A p, q \in used :
        p.nonce = q.nonce /\ p # q =>
            /\ p.dir = q.dir /\ p.class = q.class
            /\ p.n > Lifetime(p.class) \/ q.n > Lifetime(p.class)

\* What one end seals next, of any kind it sends and whatever the text, opens at
\* the other end with the header and the text it was sealed with, and nowhere
\* else; a relay reads the same request id off it (seal, open, parse, direction).
OnlyThePeerOpens ==
    \A kind \in Kinds, id \in {ToBytes(n, IdLen) : n \in UInt(IdLen)},
       text \in BoundedSeq({0, Version}, 1) :
        LET dir == IF kind \in {"Data", "End", "Keepalive"} THEN "Send" ELSE "Recv"
            seq == CASE kind = "Data" -> tap.next_seq
                     [] kind \in {"End", "Keepalive"} -> WrappingNext(tap.control_counter)
                     [] OTHER -> sink.control_seq
            h   == [kind |-> kind, request_id |-> id, seq |-> seq]
            d   == Seal(h, dir, text)
        IN  /\ Opens(d, dir)
            /\ ParsedHeader(d.bytes) = h /\ AfterHeader(d.bytes) = text
            /\ Peekable(d.bytes) /\ PeekRequestId(d.bytes) = id
            /\ \A other \in {"Send", "Recv"} \ {dir} : ~Opens(d, other)

\* The codec is one to one: every body that can be encoded is decoded to itself,
\* and every byte string that decodes is the encoding of what it decodes to, so
\* nothing truncated, padded or over a limit passes (encode_body, decode_body).
\* The codec keeps no state, so this is looked at once, before the first packet.
CodecIsOneToOne ==
    Init => \A kind \in Kinds :
        /\ \A body \in Bodies(kind) :
              Encodable(kind, body) =>
                  LET buf == EncodeBody(kind, body)
                  IN  Decodable(kind, buf) /\ DecodeBody(kind, buf) = body
        /\ \A buf \in BoundedSeq(Byte, 2 * U32Len + U16Len) :
              Decodable(kind, buf) =>
                  LET body == DecodeBody(kind, buf)
                  IN  Encodable(kind, body) /\ EncodeBody(kind, body) = buf
=============================================================================
