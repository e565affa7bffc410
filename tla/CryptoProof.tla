----------------------------- MODULE CryptoProof ----------------------------
(***************************************************************************)
(* What keeps one key safe to use for two ends: no nonce is used for two   *)
(* packets, what one end seals opens at the other and nowhere else, and no *)
(* counter the replay window knows is accepted twice.                      *)
(***************************************************************************)
EXTENDS Wire, ReplayWindow, CodecProof

-----------------------------------------------------------------------------
(***************************************************************************)
(* Nonces.  The counter a packet is sealed with is a function of how many  *)
(* its end has sealed of its class, for as long as the counter lasts.      *)
(***************************************************************************)

\* Who seals what: the three counters of the code.
Streams == {<<"Send", "Data">>, <<"Send", "Control">>, <<"Recv", "Control">>}

Mine(dir, class)    == {u \in used : u.dir = dir /\ u.class = class}
Numbers(dir, class) == {u.n : u \in Mine(dir, class)}

\* The counter of the n-th packet: XferSeq starts at one, control_counter is
\* incremented before use and comes round to zero last, ControlSeq after it.
NthCounter(dir, class, n) ==
    CASE class = "Data"                       -> n
      [] class = "Control" /\ dir = "Send"    -> IF n = U32Max + 1 THEN 0 ELSE n
      [] class = "Control" /\ dir = "Recv"    -> n - 1

\* Packets are numbered without gaps, and each has the counter of its number
\* while the counter of its class lasts.
UsedTrue ==
    /\ \A u \in used : /\ <<u.dir, u.class>> \in Streams
                       /\ u = [dir |-> u.dir, class |-> u.class, n |-> u.n, nonce |-> u.nonce]
                       /\ \E c : /\ u.nonce = NonceFor(u.dir, u.class, c)
                                 /\ u.n <= Lifetime(u.class) =>
                                       c = NthCounter(u.dir, u.class, u.n)
    /\ \A s \in Streams : /\ Count(s[1], s[2]) \in Nat
                          /\ Numbers(s[1], s[2]) = 1 .. Count(s[1], s[2])

\* A number stands for one packet.
NumberedOnce == \A p, q \in used : p.dir = q.dir /\ p.class = q.class /\ p.n = q.n => p = q

\* Where the counters of the two ends stand.
CountersTrue ==
    /\ tap \in [next_seq : 0 .. U32Max, control_counter : 0 .. U32Max]
    /\ sink \in [control_seq : 0 .. U32Max]
    /\ Count("Send", "Data") < U32Max => tap.next_seq = Count("Send", "Data") + 1
    /\ Count("Send", "Control") <= U32Max => tap.control_counter = Count("Send", "Control")
    /\ Count("Recv", "Control") <= U32Max => sink.control_seq = Count("Recv", "Control")

SealInv == UsedTrue /\ NumberedOnce /\ CountersTrue

\* u32::MAX is a positive number.
LEMMA U32MaxIsNat == U32Max \in Nat \ {0}
BY WireAssumption, WrittenThenRead, Widths

\* Packets numbered without gaps: the last number is how many there are.
LEMMA LastNumber ==
    ASSUME NEW mine, NEW k \in Nat, {u.n : u \in mine} = 1 .. k
    PROVE  (IF mine = {} THEN 0 ELSE Max({u.n : u \in mine})) = k
<1>1. CASE k = 0
  <2>1. 1 .. k = {}
    BY <1>1
  <2>2. mine = {}
    BY <2>1, Zenon
  <2> QED BY <1>1, <2>2
<1>2. CASE k > 0
  <2>1. 1 \in {u.n : u \in mine}
    BY <1>2
  <2>2. mine # {}
    BY <2>1, Zenon
  <2>3. Max(1 .. k) = k
    BY <1>2 DEF Max
  <2> QED BY <2>2, <2>3
<1> QED BY <1>1, <1>2

\* Using a nonce numbers one more packet of one stream and none of another.
LEMMA UseKeeps ==
    ASSUME UsedTrue, NumberedOnce,
           NEW dir, NEW class, <<dir, class>> \in Streams, NEW c, Use(dir, class, c),
           Count(dir, class) + 1 <= Lifetime(class) =>
               c = NthCounter(dir, class, Count(dir, class) + 1)
    PROVE  /\ UsedTrue' /\ NumberedOnce'
           /\ Count(dir, class)' = Count(dir, class) + 1
           /\ \A s \in Streams : s # <<dir, class>> => Count(s[1], s[2])' = Count(s[1], s[2])
<1> DEFINE k   == Count(dir, class)
           new == [dir |-> dir, class |-> class, n |-> k + 1,
                   nonce |-> NonceFor(dir, class, c)]
<1>1. used' = used \cup {new}
  BY DEF Use
<1>2. k \in Nat /\ Numbers(dir, class) = 1 .. k
  BY Zenon DEF UsedTrue
<1>3. /\ new.dir = dir /\ new.class = class /\ new.n = k + 1
      /\ new.nonce = NonceFor(dir, class, c)
      /\ new = [dir |-> new.dir, class |-> new.class, n |-> new.n, nonce |-> new.nonce]
  OBVIOUS
<1> HIDE DEF new, k
<1>4. Mine(dir, class)' = Mine(dir, class) \cup {new}
  BY <1>1, <1>3 DEF Mine
<1>5. Numbers(dir, class)' = 1 .. (k + 1)
  <2>1. Numbers(dir, class)' = Numbers(dir, class) \cup {k + 1}
    BY <1>3, <1>4, Zenon DEF Numbers
  <2> QED BY <1>2, <2>1
<1>6. Count(dir, class)' = k + 1
  <2> DEFINE mine == Mine(dir, class)'
  <2>1. {u.n : u \in mine} = 1 .. (k + 1)
    BY <1>5 DEF Numbers
  <2>2. Count(dir, class)' = IF mine = {} THEN 0 ELSE Max({u.n : u \in mine})
    BY DEF Count, Mine
  <2> HIDE DEF mine
  <2>3. k + 1 \in Nat
    BY <1>2
  <2> QED BY <2>1, <2>2, <2>3, LastNumber
<1>7. ASSUME NEW s \in Streams, s # <<dir, class>>
      PROVE  /\ Count(s[1], s[2])' = Count(s[1], s[2])
             /\ Numbers(s[1], s[2])' = Numbers(s[1], s[2])
  <2>1. ~(s[1] = dir /\ s[2] = class)
    BY <1>7 DEF Streams
  <2>2. Mine(s[1], s[2])' = Mine(s[1], s[2])
    BY <1>1, <1>3, <2>1 DEF Mine
  <2> QED BY <2>2 DEF Count, Mine, Numbers
<1>8. UsedTrue'
  <2>1. ASSUME NEW u \in used'
        PROVE  /\ <<u.dir, u.class>> \in Streams
               /\ u = [dir |-> u.dir, class |-> u.class, n |-> u.n, nonce |-> u.nonce]
               /\ \E d : /\ u.nonce = NonceFor(u.dir, u.class, d)
                         /\ u.n <= Lifetime(u.class) => d = NthCounter(u.dir, u.class, u.n)
    <3>1. CASE u \in used
      BY <3>1, Zenon DEF UsedTrue
    <3>2. CASE u = new
      <4>1. u.n <= Lifetime(u.class) => c = NthCounter(u.dir, u.class, u.n)
        BY <1>3, <3>2 DEF k
      <4>2. u.nonce = NonceFor(u.dir, u.class, c)
        BY <1>3, <3>2
      <4> QED BY <1>3, <3>2, <4>1, <4>2, Zenon
    <3> QED BY <1>1, <3>1, <3>2
  <2>2. ASSUME NEW s \in Streams
        PROVE  /\ Count(s[1], s[2])' \in Nat
               /\ Numbers(s[1], s[2])' = 1 .. Count(s[1], s[2])'
    <3>1. CASE s = <<dir, class>>
      <4>1. s[1] = dir /\ s[2] = class
        BY <3>1
      <4>2. k + 1 \in Nat
        BY <1>2
      <4> QED BY <1>5, <1>6, <4>1, <4>2
    <3>2. CASE s # <<dir, class>>
      BY <1>7, <3>2, Zenon DEF UsedTrue
    <3> QED BY <3>1, <3>2
  <2> QED BY <2>1, <2>2, Zenon DEF UsedTrue
<1>9. NumberedOnce'
  <2>1. ASSUME NEW u \in used, u.dir = dir, u.class = class PROVE u.n # k + 1
    <3>1. u.n \in Numbers(dir, class)
      BY <2>1 DEF Numbers, Mine
    <3> QED BY <1>2, <3>1
  <2>2. ASSUME NEW p \in used', NEW q \in used', p.dir = q.dir, p.class = q.class, p.n = q.n
        PROVE  p = q
    <3>1. CASE p \in used /\ q \in used
      BY <2>2, <3>1 DEF NumberedOnce
    <3>2. CASE p = new /\ q \in used
      BY <1>3, <2>1, <2>2, <3>2
    <3>3. CASE p \in used /\ q = new
      BY <1>3, <2>1, <2>2, <3>3
    <3> QED BY <1>1, <3>1, <3>2, <3>3
  <2> QED BY <2>2 DEF NumberedOnce
<1> QED BY <1>6, <1>7, <1>8, <1>9 DEF k

\* One way round the counter and no further.
LEMMA WrappingNextIs ==
    ASSUME NEW n \in Nat
    PROVE  /\ WrappingNext(n) \in 0 .. U32Max
           /\ n < U32Max => WrappingNext(n) = n + 1
           /\ n = U32Max => WrappingNext(n) = 0
<1>1. U32Max \in Nat \ {0}
  BY U32MaxIsNat
<1>2. ASSUME NEW m \in Nat \ {0}
      PROVE  /\ (n + 1) % m \in 0 .. (m - 1)
             /\ n + 1 < m => (n + 1) % m = n + 1
             /\ n + 1 = m => (n + 1) % m = 0
  OBVIOUS
<1> DEFINE m == U32Max + 1
<1>3. m \in Nat \ {0} /\ 0 .. (m - 1) = 0 .. U32Max
  BY <1>1
<1>4. WrappingNext(n) = (n + 1) % m
  BY DEF WrappingNext
<1>5. WrappingNext(n) \in 0 .. U32Max
  <2> HIDE DEF m
  <2> QED BY <1>2, <1>3, <1>4
<1>6. /\ n < U32Max => WrappingNext(n) = n + 1
      /\ n = U32Max => WrappingNext(n) = 0
  <2>1. (n < U32Max => n + 1 < m) /\ (n = U32Max => n + 1 = m)
    BY <1>1
  <2> HIDE DEF m
  <2> QED BY <1>2, <1>3, <1>4, <2>1
<1> QED BY <1>5, <1>6

\* Every packet sealed keeps the counters in step with the packets.
LEMMA SealKeeps ==
    ASSUME SealInv, Next
    PROVE  SealInv'
<1> USE DEF SealInv
<1>0. /\ U32Max \in Nat \ {0}
      /\ Count("Send", "Data") \in Nat /\ Count("Send", "Control") \in Nat
      /\ Count("Recv", "Control") \in Nat
  <2>1. \A s \in Streams : Count(s[1], s[2]) \in Nat
    BY Zenon DEF UsedTrue
  <2> QED BY <2>1, U32MaxIsNat DEF Streams
<1>1. CASE TapSealsData
  <2> DEFINE k == Count("Send", "Data")
             c == tap.next_seq
  <2>1. k + 1 <= Lifetime("Data") => c = NthCounter("Send", "Data", k + 1)
    BY <1>0 DEF CountersTrue, Lifetime, NthCounter
  <2>2. <<"Send", "Data">> \in Streams /\ Use("Send", "Data", c)
    BY <1>1 DEF TapSealsData, Streams
  <2>3. /\ UsedTrue' /\ NumberedOnce' /\ k' = k + 1
        /\ \A s \in Streams : s # <<"Send", "Data">> => Count(s[1], s[2])' = Count(s[1], s[2])
    <3> HIDE DEF c
    <3> QED BY <2>1, <2>2, UseKeeps
  <2>4. /\ Count("Send", "Control")' = Count("Send", "Control")
        /\ Count("Recv", "Control")' = Count("Recv", "Control")
    BY <2>3 DEF Streams
  <2> DEFINE next == SaturatingNext(tap.next_seq)
  <2>5. next \in 0 .. U32Max /\ (k + 1 < U32Max => next = k + 2)
    BY <1>0 DEF CountersTrue, SaturatingNext
  <2>6. tap' = [tap EXCEPT !.next_seq = next] /\ sink' = sink
    BY <1>1 DEF TapSealsData
  <2> HIDE DEF next
  <2>7. /\ tap' \in [next_seq : 0 .. U32Max, control_counter : 0 .. U32Max]
        /\ tap'.next_seq = next /\ tap'.control_counter = tap.control_counter
    BY <2>5, <2>6 DEF CountersTrue
  <2> HIDE DEF k
  <2>8. k \in Nat /\ Count("Send", "Data")' = k + 1
    BY <1>0, <2>3 DEF k
  <2>9. CountersTrue'
    BY <1>0, <2>4, <2>5, <2>6, <2>7, <2>8 DEF CountersTrue
  <2> QED BY <2>3, <2>9
<1>2. CASE TapSealsControl
  <2> DEFINE k == Count("Send", "Control")
             c == WrappingNext(tap.control_counter)
  <2>0. /\ c \in 0 .. U32Max
        /\ tap.control_counter < U32Max => c = tap.control_counter + 1
        /\ tap.control_counter = U32Max => c = 0
        /\ k <= U32Max => tap.control_counter = k
    BY WrappingNextIs DEF CountersTrue
  <2>1. tap' = [tap EXCEPT !.control_counter = c] /\ sink' = sink
    BY <1>2 DEF TapSealsControl
  <2>2. <<"Send", "Control">> \in Streams /\ Use("Send", "Control", c)
    BY <1>2 DEF TapSealsControl, Streams, CountersTrue
  <2> HIDE DEF c
  <2>3. k + 1 <= Lifetime("Control") => c = NthCounter("Send", "Control", k + 1)
    BY <1>0, <2>0 DEF Lifetime, NthCounter
  <2>4. /\ UsedTrue' /\ NumberedOnce' /\ k' = k + 1
        /\ \A s \in Streams : s # <<"Send", "Control">> => Count(s[1], s[2])' = Count(s[1], s[2])
    BY <2>2, <2>3, UseKeeps
  <2>5. /\ Count("Send", "Data")' = Count("Send", "Data")
        /\ Count("Recv", "Control")' = Count("Recv", "Control")
    BY <2>4 DEF Streams
  <2>6. /\ tap' \in [next_seq : 0 .. U32Max, control_counter : 0 .. U32Max]
        /\ tap'.next_seq = tap.next_seq /\ tap'.control_counter = c
    BY <2>0, <2>1 DEF CountersTrue
  <2> HIDE DEF k
  <2>7. k \in Nat /\ Count("Send", "Control")' = k + 1
    BY <1>0, <2>4 DEF k
  <2>8. CountersTrue'
    BY <1>0, <2>0, <2>1, <2>5, <2>6, <2>7 DEF CountersTrue
  <2> QED BY <2>4, <2>8
<1>3. CASE SinkSeals
  <2> DEFINE k == Count("Recv", "Control")
             c == sink.control_seq
             next == WrappingNext(sink.control_seq)
  <2>0. /\ next \in 0 .. U32Max
        /\ c < U32Max => next = c + 1
        /\ k <= U32Max => c = k
    BY WrappingNextIs DEF CountersTrue
  <2>1. sink' = [sink EXCEPT !.control_seq = next] /\ tap' = tap
    BY <1>3 DEF SinkSeals
  <2>2. <<"Recv", "Control">> \in Streams /\ Use("Recv", "Control", c)
    BY <1>3 DEF SinkSeals, Streams
  <2> HIDE DEF c, next
  <2>3. k + 1 <= Lifetime("Control") => c = NthCounter("Recv", "Control", k + 1)
    BY <1>0, <2>0 DEF Lifetime, NthCounter
  <2>4. /\ UsedTrue' /\ NumberedOnce' /\ k' = k + 1
        /\ \A s \in Streams : s # <<"Recv", "Control">> => Count(s[1], s[2])' = Count(s[1], s[2])
    BY <2>2, <2>3, UseKeeps
  <2>5. /\ Count("Send", "Data")' = Count("Send", "Data")
        /\ Count("Send", "Control")' = Count("Send", "Control")
    BY <2>4 DEF Streams
  <2>6. sink' \in [control_seq : 0 .. U32Max] /\ sink'.control_seq = next
    BY <2>0, <2>1 DEF CountersTrue
  <2> HIDE DEF k
  <2>7. k \in Nat /\ Count("Recv", "Control")' = k + 1
    BY <1>0, <2>4 DEF k
  <2>8. CountersTrue'
    BY <1>0, <2>0, <2>1, <2>5, <2>6, <2>7 DEF CountersTrue
  <2> QED BY <2>4, <2>8
<1> QED BY <1>1, <1>2, <1>3 DEF Next

\* Before the first packet.
LEMMA SealStarts ==
    ASSUME Init
    PROVE  SealInv
<1>1. used = {} /\ tap = [next_seq |-> 1, control_counter |-> 0] /\ sink = [control_seq |-> 0]
  BY DEF Init
<1>2. \A dir, class : Mine(dir, class) = {} /\ Numbers(dir, class) = {}
  BY <1>1 DEF Mine, Numbers
<1>3. \A dir, class : Count(dir, class) = 0
  BY <1>2 DEF Count, Mine
<1>4. 1 .. 0 = {}
  OBVIOUS
<1>5. UsedTrue
  <2>1. ASSUME NEW s \in Streams
        PROVE  /\ Count(s[1], s[2]) \in Nat
               /\ Numbers(s[1], s[2]) = 1 .. Count(s[1], s[2])
    <3>1. Count(s[1], s[2]) = 0 /\ Numbers(s[1], s[2]) = {}
      BY <1>2, <1>3
    <3> QED BY <1>4, <3>1
  <2> QED BY <1>1, <2>1, Zenon DEF UsedTrue
<1>6. CountersTrue
  BY <1>1, <1>3, U32MaxIsNat DEF CountersTrue
<1> QED BY <1>1, <1>5, <1>6 DEF SealInv, NumberedOnce

\* Each packet has the counter of its number, and its number to itself, for any
\* width of the counters (next_seq, control_seq, ControlSeq::next).
THEOREM SealingCorrect == Spec => []SealInv
<1>1. SealInv /\ [Next]_wireVars => SealInv'
  <2>1. CASE UNCHANGED wireVars
    BY <2>1 DEF wireVars, SealInv, UsedTrue, NumberedOnce, CountersTrue, Numbers, Mine, Count
  <2> QED BY <2>1, SealKeeps
<1> QED BY <1>1, SealStarts, PTL DEF Spec

\* The counters of one stream are apart while they last.
LEMMA CountersApart ==
    ASSUME NEW dir, NEW class, <<dir, class>> \in Streams,
           NEW m \in Nat \ {0}, NEW n \in Nat \ {0}, m # n,
           m <= Lifetime(class), n <= Lifetime(class)
    PROVE  NthCounter(dir, class, m) # NthCounter(dir, class, n)
BY U32MaxIsNat DEF Streams, Lifetime, NthCounter

\* nonce_for loses nothing of what it is made from.
LEMMA NonceSays ==
    ASSUME NEW a, NEW b, NEW c, NEW d, NEW e, NEW f, NonceFor(a, b, c) = NonceFor(d, e, f)
    PROVE  a = d /\ b = e /\ c = f
<1>1. \A x, y, z : /\ NonceFor(x, y, z)[1] = x /\ NonceFor(x, y, z)[2] = y
                  /\ NonceFor(x, y, z)[4] = z
  BY DEF NonceFor
<1> QED BY <1>1

\* No nonce is used for two packets before the counter of their class is used
\* up, whatever the two ends seal and in whichever order (nonce_for).
THEOREM NoncesAreUnique == Spec => []NonceUnique
<1>1. ASSUME SealInv PROVE NonceUnique
  <2> SUFFICES ASSUME NEW p \in used, NEW q \in used, p.nonce = q.nonce, p # q
               PROVE  /\ p.dir = q.dir /\ p.class = q.class
                      /\ p.n > Lifetime(p.class) \/ q.n > Lifetime(p.class)
    BY DEF NonceUnique
  <2>1. PICK c : /\ p.nonce = NonceFor(p.dir, p.class, c)
                 /\ p.n <= Lifetime(p.class) => c = NthCounter(p.dir, p.class, p.n)
    BY <1>1, Zenon DEF SealInv, UsedTrue
  <2>2. PICK d : /\ q.nonce = NonceFor(q.dir, q.class, d)
                 /\ q.n <= Lifetime(q.class) => d = NthCounter(q.dir, q.class, q.n)
    BY <1>1, Zenon DEF SealInv, UsedTrue
  <2>3. p.dir = q.dir /\ p.class = q.class /\ c = d
    <3>1. NonceFor(p.dir, p.class, c) = NonceFor(q.dir, q.class, d)
      BY <2>1, <2>2
    <3> QED BY <3>1, NonceSays
  <2>4. p.n # q.n
    BY <1>1, <2>3 DEF SealInv, NumberedOnce
  <2>5. <<p.dir, p.class>> \in Streams
    BY <1>1, Zenon DEF SealInv, UsedTrue
  <2>6. ASSUME NEW s \in Streams, NEW u \in used, u.dir = s[1], u.class = s[2]
        PROVE  u.n \in Nat \ {0}
    <3>1. u.n \in Numbers(s[1], s[2])
      BY <2>6 DEF Numbers, Mine
    <3>2. /\ Numbers(s[1], s[2]) = 1 .. Count(s[1], s[2]) /\ Count(s[1], s[2]) \in Nat
      BY <1>1, Zenon DEF SealInv, UsedTrue
    <3> QED BY <3>1, <3>2
  <2>7. p.n \in Nat \ {0} /\ q.n \in Nat \ {0}
    <3> DEFINE s == <<p.dir, p.class>>
    <3>1. s \in Streams /\ p.dir = s[1] /\ p.class = s[2] /\ q.dir = s[1] /\ q.class = s[2]
      BY <2>3, <2>5
    <3> HIDE DEF s
    <3> QED BY <2>6, <3>1
  <2>8. Lifetime(p.class) \in Nat
    BY U32MaxIsNat DEF Lifetime
  <2>9. CASE p.n <= Lifetime(p.class) /\ q.n <= Lifetime(p.class)
    BY <2>1, <2>2, <2>3, <2>4, <2>5, <2>7, <2>9, CountersApart
  <2> QED BY <2>3, <2>7, <2>8, <2>9
<1> QED BY <1>1, SealingCorrect, PTL

\* A counter fits the header's sequence number.
LEMMA CounterFits ==
    ASSUME NEW n \in 0 .. U32Max
    PROVE  n \in UInt(U32Len)
<1>1. U32Len \in Nat /\ U32Len \in 0 .. U32Len
  BY Widths
<1>2. UInt(U32Len) = 0 .. (Pow(U32Len)[U32Len] - 1) /\ Pow(U32Len)[U32Len] \in Nat
  BY <1>1, UIntIs, PowIs
<1>3. U32Max \in UInt(U32Len)
  BY WireAssumption
<1> QED BY <1>2, <1>3

\* A packet of any kind, for any request and of any text, sealed with a counter
\* that fits, opens where its direction is expected, with the header and the text
\* it was sealed with, and nowhere else (seal, open).
THEOREM SealedOpens ==
    ASSUME NEW kind \in Kinds, NEW id \in Str(IdLen, Byte), NEW seq \in 0 .. U32Max,
           NEW m \in Nat, NEW text \in Str(m, Byte), NEW dir, dir = DirectionOf(kind)
    PROVE  LET h == [kind |-> kind, request_id |-> id, seq |-> seq]
               d == Seal(h, dir, text)
           IN  /\ Opens(d, dir)
               /\ ParsedHeader(d.bytes) = h /\ AfterHeader(d.bytes) = text
               /\ Peekable(d.bytes) /\ PeekRequestId(d.bytes) = id
               /\ \A other \in {"Send", "Recv"} \ {dir} : ~Opens(d, other)
<1> DEFINE h   == [kind |-> kind, request_id |-> id, seq |-> seq]
           d   == Seal(h, dir, text)
           buf == HeaderBytes(h) \o text
<1>1. seq \in UInt(U32Len)
  BY CounterFits
<1>2. /\ Peekable(buf) /\ Parseable(buf) /\ PeekRequestId(buf) = id
      /\ ParsedHeader(buf) = h /\ AfterHeader(buf) = text
  BY <1>1, HeaderReturns
<1>3. h.kind = kind
  OBVIOUS
<1> HIDE DEF h
<1>4. d.bytes = buf /\ d.tag = Tag(h, dir, text)
  BY DEF Seal
<1> HIDE DEF d, buf
<1>5. Opens(d, dir)
  BY <1>2, <1>3, <1>4 DEF Opens
<1>6. ASSUME NEW other, other # dir PROVE ~Opens(d, other)
  BY <1>2, <1>3, <1>4, <1>6 DEF Opens
<1> QED BY <1>2, <1>4, <1>5, <1>6 DEF h, d

\* What one end seals opens at the other end, as it was sealed, and nowhere else,
\* however many packets came before, for any width of the fields (seal, open,
\* Header::parse, PacketKind::direction).
THEOREM ThePeerOpensIt == Spec => []OnlyThePeerOpens
<1>1. ASSUME SealInv PROVE OnlyThePeerOpens
  <2>1. /\ tap.next_seq \in 0 .. U32Max /\ sink.control_seq \in 0 .. U32Max
        /\ WrappingNext(tap.control_counter) \in 0 .. U32Max
    <3>1. /\ tap.next_seq \in 0 .. U32Max /\ sink.control_seq \in 0 .. U32Max
          /\ tap.control_counter \in Nat
      BY <1>1, U32MaxIsNat DEF SealInv, CountersTrue
    <3> QED BY <3>1, WrappingNextIs
  <2> SUFFICES
        ASSUME NEW kind \in Kinds, NEW id \in {ToBytes(n, IdLen) : n \in UInt(IdLen)},
               NEW text \in BoundedSeq({0, Version}, 1)
        PROVE  LET dir == IF kind \in {"Data", "End", "Keepalive"} THEN "Send" ELSE "Recv"
                   seq == CASE kind = "Data" -> tap.next_seq
                            [] kind \in {"End", "Keepalive"} -> WrappingNext(tap.control_counter)
                            [] OTHER -> sink.control_seq
                   h   == [kind |-> kind, request_id |-> id, seq |-> seq]
                   d   == Seal(h, dir, text)
               IN  /\ Opens(d, dir)
                   /\ ParsedHeader(d.bytes) = h /\ AfterHeader(d.bytes) = text
                   /\ Peekable(d.bytes) /\ PeekRequestId(d.bytes) = id
                   /\ \A other \in {"Send", "Recv"} \ {dir} : ~Opens(d, other)
    BY DEF OnlyThePeerOpens
  <2> DEFINE dir == IF kind \in {"Data", "End", "Keepalive"} THEN "Send" ELSE "Recv"
             seq == CASE kind = "Data" -> tap.next_seq
                      [] kind \in {"End", "Keepalive"} -> WrappingNext(tap.control_counter)
                      [] OTHER -> sink.control_seq
  <2>2. seq \in 0 .. U32Max
    BY <2>1
  <2>3. dir = DirectionOf(kind)
    BY DEF DirectionOf
  <2>4. id \in Str(IdLen, Byte)
    BY Written, Widths
  <2>5. PICK m \in 0 .. 1 : text \in Str(m, Byte)
    <3>1. PICK m \in 0 .. 1 : text \in Str(m, {0, Version})
      BY BoundedIs
    <3>2. {0, Version} \subseteq Byte
      BY CodecAssumption DEF Byte
    <3> QED BY <3>1, <3>2 DEF Str
  <2>6. m \in Nat
    OBVIOUS
  <2> HIDE DEF dir, seq
  <2>7. LET h == [kind |-> kind, request_id |-> id, seq |-> seq]
            d == Seal(h, dir, text)
        IN  /\ Opens(d, dir)
            /\ ParsedHeader(d.bytes) = h /\ AfterHeader(d.bytes) = text
            /\ Peekable(d.bytes) /\ PeekRequestId(d.bytes) = id
            /\ \A other \in {"Send", "Recv"} \ {dir} : ~Opens(d, other)
    BY <2>2, <2>3, <2>4, <2>5, <2>6, SealedOpens
  <2> QED BY <2>7 DEF dir, seq
<1> QED BY <1>1, SealingCorrect, PTL

\* Every body that can be encoded decodes to itself and every byte string that
\* decodes is the encoding of what it decodes to, for any base, any widths of the
\* fields and any limits (encode_body, decode_body).
THEOREM TheCodecIsOneToOne == Spec => []CodecIsOneToOne
<1>1. CodecIsOneToOne
  <2>1. 2 * U32Len + U16Len \in Nat
    BY Widths
  <2> DEFINE m == 2 * U32Len + U16Len
  <2> HIDE DEF m
  <2>2. m \in Nat
    BY <2>1 DEF m
  <2>3. \A kind \in Kinds :
          /\ \A body \in Bodies(kind) :
                LET buf == EncodeBody(kind, body)
                IN  Decodable(kind, buf) /\ DecodeBody(kind, buf) = body
          /\ \A buf \in BoundedSeq(Byte, m) :
                Decodable(kind, buf) =>
                    LET body == DecodeBody(kind, buf)
                    IN  Encodable(kind, body) /\ EncodeBody(kind, body) = buf
    BY <2>2, OneToOneForAnyLength, Zenon
  <2> QED BY <2>3, Zenon DEF CodecIsOneToOne, m
<1> QED BY <1>1, PTL

-----------------------------------------------------------------------------
(***************************************************************************)
(* The replay window.  Bit i of the bitmap stands for highest - 1 - i.     *)
(***************************************************************************)

\* A place in the bitmap is its word and its bit, and is no other place.
LEMMA PlaceOf ==
    ASSUME NEW x \in Nat, x < Width
    PROVE  /\ x \div WordBits \in WordIdx /\ x % WordBits \in Bit
           /\ x = WordBits * (x \div WordBits) + (x % WordBits)
<1>1. Words \in Nat \ {0} /\ WordBits \in Nat \ {0}
  BY WindowAssumption
<1>2. /\ x % WordBits \in 0 .. (WordBits - 1) /\ x \div WordBits \in Nat
      /\ x = WordBits * (x \div WordBits) + (x % WordBits)
  BY <1>1
<1>3. x \div WordBits < Words
  <2> DEFINE q == x \div WordBits
  <2> SUFFICES ASSUME q >= Words PROVE FALSE
    BY <1>1, <1>2
  <2>1. WordBits * q >= WordBits * Words
    <3> HIDE DEF q
    <3>1. q - Words \in Nat /\ q = Words + (q - Words)
      BY <1>1, <1>2 DEF q
    <3>2. WordBits * (q - Words) \in Nat
      BY <1>1, <3>1
    <3>3. WordBits * q = WordBits * Words + WordBits * (q - Words)
      BY <1>1, <3>1
    <3>4. WordBits * Words \in Nat
      BY <1>1
    <3> QED BY <3>2, <3>3, <3>4
  <2> HIDE DEF q
  <2>2. WordBits * q \in Nat /\ WordBits * Words = Width /\ Width \in Nat
    BY <1>1, <1>2 DEF q, Width
  <2> QED BY <1>2, <2>1, <2>2 DEF q
<1> QED BY <1>1, <1>2, <1>3 DEF WordIdx, Bit

\* And the other way: the place a word and a bit make.
LEMMA PlaceIs ==
    ASSUME NEW i \in WordIdx, NEW b \in Bit
    PROVE  LET x == WordBits * i + b
           IN  x \in Nat /\ x < Width /\ x \div WordBits = i /\ x % WordBits = b
<1>1. Words \in Nat \ {0} /\ WordBits \in Nat \ {0}
  BY WindowAssumption
<1>2. i \in Nat /\ i < Words /\ b \in 0 .. (WordBits - 1)
  BY <1>1 DEF WordIdx, Bit
<1>3. (WordBits * i + b) \div WordBits = i /\ (WordBits * i + b) % WordBits = b
  BY <1>1, <1>2
<1>4. WordBits * i + WordBits <= WordBits * Words /\ WordBits * i \in Nat
  <2>1. Words - 1 - i \in Nat /\ Words = i + 1 + (Words - 1 - i)
    BY <1>1, <1>2
  <2>2. WordBits * (Words - 1 - i) \in Nat
    BY <1>1, <2>1
  <2>3. WordBits * Words = WordBits * i + WordBits + WordBits * (Words - 1 - i)
    BY <1>1, <1>2, <2>1
  <2>4. WordBits * i \in Nat
    BY <1>1, <1>2
  <2> QED BY <1>1, <2>2, <2>3, <2>4
<1>5. WordBits * Words = Width /\ Width \in Nat
  BY <1>1 DEF Width
<1> QED BY <1>1, <1>2, <1>3, <1>4, <1>5

Bitmap == [WordIdx -> SUBSET Bit]

\* `set` sets one bit, and no bit that is not there.
LEMMA SetSets ==
    ASSUME NEW seen \in Bitmap, NEW b \in Nat
    PROVE  /\ Set(seen, b) \in Bitmap
           /\ \A x \in Nat : x < Width =>
                 (Get(Set(seen, b), x) <=> Get(seen, x) \/ x = b)
<1>0. Width \in Nat
  BY WindowAssumption DEF Width
<1>1. CASE b >= Width
  BY <1>0, <1>1 DEF Set
<1>2. CASE b < Width
  <2> DEFINE w == b \div WordBits
             r == b % WordBits
  <2>1. w \in WordIdx /\ r \in Bit /\ b = WordBits * w + r
    BY <1>2, PlaceOf
  <2>2. Set(seen, b) = [seen EXCEPT ![w] = @ \cup {r}]
    BY <1>0, <1>2 DEF Set
  <2> HIDE DEF w, r
  <2>3. Set(seen, b) \in Bitmap
    BY <2>1, <2>2 DEF Bitmap
  <2>4. ASSUME NEW x \in Nat, x < Width
        PROVE  Get(Set(seen, b), x) <=> Get(seen, x) \/ x = b
    <3> DEFINE i == x \div WordBits
               c == x % WordBits
    <3>1. i \in WordIdx /\ c \in Bit /\ x = WordBits * i + c
      BY <2>4, PlaceOf
    <3>2. i = w /\ c = r <=> x = b
      BY <2>1, <3>1 DEF w, r
    <3>3. Get(Set(seen, b), x) <=> c \in Set(seen, b)[i]
      BY <2>4 DEF Get
    <3>4. Get(seen, x) <=> c \in seen[i]
      BY <2>4 DEF Get
    <3> HIDE DEF i, c
    <3>5. c \in Set(seen, b)[i] <=> c \in seen[i] \/ (i = w /\ c = r)
      BY <2>1, <2>2, <3>1 DEF Bitmap
    <3> QED BY <3>2, <3>3, <3>4, <3>5
  <2> QED BY <2>3, <2>4
<1> QED BY <1>0, <1>1, <1>2

\* Words are WordBits apart: an earlier word ends before a later one begins.
LEMMA WordsApart ==
    ASSUME NEW i \in Nat, NEW j \in Nat
    PROVE  /\ WordBits * i \in Nat /\ WordBits * j \in Nat
           /\ i < j => WordBits * i + WordBits <= WordBits * j
           /\ i >= j => WordBits * (i - j) = WordBits * i - WordBits * j
<1>1. WordBits \in Nat \ {0}
  BY WindowAssumption
<1>2. ASSUME i < j PROVE WordBits * i + WordBits <= WordBits * j
  <2>1. j - i - 1 \in Nat /\ j = i + 1 + (j - i - 1)
    BY <1>2
  <2>2. WordBits * (j - i - 1) \in Nat
    BY <1>1, <2>1
  <2>3. WordBits * j = WordBits * i + WordBits + WordBits * (j - i - 1)
    BY <1>1, <2>1
  <2>4. WordBits * i \in Nat
    BY <1>1
  <2> QED BY <1>1, <2>2, <2>3, <2>4
<1>3. WordBits * i \in Nat /\ WordBits * j \in Nat
  BY <1>1
<1>4. WordBits * (i - j) = WordBits * i - WordBits * j
  BY <1>1
<1> QED BY <1>2, <1>3, <1>4

\* The two halves of shift_by, whole words and then bits with their carries, are
\* one shift of the whole bitmap: every bit moves up by `shift`, zeros follow.
LEMMA ShiftMoves ==
    ASSUME NEW seen \in Bitmap, NEW shift \in Nat, shift < Width,
           NEW moved,
           moved = ByBits(ByWords(seen, shift \div WordBits), shift % WordBits)
    PROVE  /\ moved \in Bitmap
           /\ \A x \in Nat : x < Width =>
                 (Get(moved, x) <=> x >= shift /\ Get(seen, x - shift))
<1> DEFINE w == shift \div WordBits
           r == shift % WordBits
           mid == ByWords(seen, w)
<1>0. WordBits \in Nat \ {0} /\ Words \in Nat \ {0} /\ Width \in Nat
  BY WindowAssumption DEF Width
<1>1. w \in WordIdx /\ r \in Bit /\ shift = WordBits * w + r
  BY PlaceOf
<1>2. moved = ByBits(mid, r)
  OBVIOUS
<1> HIDE DEF w, r
<1>3. mid \in Bitmap /\ \A i \in WordIdx : mid[i] = IF i >= w THEN seen[i - w] ELSE {}
  BY <1>0, <1>1 DEF ByWords, Bitmap, WordIdx
<1> HIDE DEF mid
<1>4. moved \in Bitmap
  BY <1>2 DEF ByBits, Bitmap
<1>5. ASSUME NEW x \in Nat, x < Width
      PROVE  Get(moved, x) <=> x >= shift /\ Get(seen, x - shift)
  <2> DEFINE i == x \div WordBits
             b == x % WordBits
  <2>1. i \in WordIdx /\ b \in Bit /\ x = WordBits * i + b
    BY <1>5, PlaceOf
  <2>2. Get(moved, x) <=> b \in moved[i]
    BY <1>5 DEF Get
  <2> HIDE DEF i, b
  <2>3. b \in moved[i] <=> \/ (b - r) \in mid[i]
                           \/ i > 0 /\ b < r /\ (b - r + WordBits) \in mid[i - 1]
    BY <1>2, <2>1 DEF ByBits
  <2>4. /\ i \in Nat /\ w \in Nat /\ i < Words /\ w < Words
        /\ b \in Nat /\ r \in Nat /\ b < WordBits /\ r < WordBits
    BY <1>0, <1>1, <2>1 DEF WordIdx, Bit
  <2>5. /\ WordBits * i \in Nat /\ WordBits * w \in Nat
        /\ i < w => WordBits * i + WordBits <= WordBits * w
        /\ i >= w => WordBits * (i - w) = WordBits * i - WordBits * w
    BY <2>4, WordsApart
  \* The bit at word j, place c of the old bitmap.
  <2>6. ASSUME NEW j \in WordIdx, NEW c \in Bit, x - shift = WordBits * j + c
        PROVE  x >= shift /\ (Get(seen, x - shift) <=> c \in seen[j])
    BY <1>0, <2>6, PlaceIs DEF Get
  <2>7. CASE b >= r
    <3>1. b \in moved[i] <=> (b - r) \in mid[i]
      BY <2>3, <2>4, <2>7
    <3>2. CASE i >= w
      <4>1. i - w \in WordIdx /\ b - r \in Bit
        BY <1>0, <2>4, <2>7, <3>2 DEF WordIdx, Bit
      <4>2. x - shift = WordBits * (i - w) + (b - r)
        BY <1>0, <1>1, <2>1, <2>4, <2>5, <3>2
      <4>3. mid[i] = seen[i - w]
        BY <1>3, <2>1, <3>2
      <4> QED BY <2>2, <2>6, <3>1, <4>1, <4>2, <4>3
    <3>3. CASE i < w
      <4>1. x < shift
        BY <1>0, <1>1, <2>1, <2>4, <2>5, <3>3
      <4>2. mid[i] = {}
        BY <1>3, <2>1, <2>4, <3>3
      <4> QED BY <2>2, <3>1, <4>1, <4>2
    <3> QED BY <2>4, <3>2, <3>3
  <2>8. CASE b < r
    <3>1. (b - r) \notin mid[i]
      BY <1>3, <2>1, <2>4, <2>8 DEF Bitmap, Bit
    <3>2. CASE i > w
      <4>1. i - 1 - w \in WordIdx /\ b - r + WordBits \in Bit /\ i - 1 \in WordIdx
        BY <1>0, <2>4, <2>8, <3>2 DEF WordIdx, Bit
      <4>2. WordBits * (i - 1 - w) = WordBits * i - WordBits * w - WordBits
        <5>1. i - 1 \in Nat /\ i - 1 >= w
          BY <2>4, <3>2
        <5>2. WordBits * (i - 1 - w) = WordBits * (i - 1) - WordBits * w
          BY <2>4, <5>1, WordsApart
        <5>3. WordBits * (i - 1) = WordBits * i - WordBits
          BY <1>0, <2>4
        <5> QED BY <1>0, <2>5, <5>2, <5>3
      <4>3. x - shift = WordBits * (i - 1 - w) + (b - r + WordBits)
        BY <1>0, <1>1, <2>1, <2>4, <2>5, <4>2
      <4>4. mid[i - 1] = seen[i - 1 - w] /\ i > 0
        BY <1>3, <2>4, <3>2, <4>1
      <4>5. b \in moved[i] <=> (b - r + WordBits) \in seen[i - 1 - w]
        BY <2>3, <2>8, <3>1, <4>4
      <4> QED BY <2>2, <2>6, <4>1, <4>3, <4>5
    <3>3. CASE i <= w
      <4>1. x < shift
        BY <1>0, <1>1, <2>1, <2>4, <2>5, <2>8, <3>3
      <4>2. i > 0 => mid[i - 1] = {}
        <5>1. i > 0 => i - 1 \in WordIdx /\ ~(i - 1 >= w)
          BY <1>0, <2>4, <3>3 DEF WordIdx
        <5> QED BY <1>3, <5>1
      <4> QED BY <2>2, <2>3, <3>1, <4>1, <4>2
    <3> QED BY <2>4, <3>2, <3>3
  <2> QED BY <2>4, <2>7, <2>8
<1> QED BY <1>4, <1>5

\* The bitmap is the history below the highest, short of the edge: a jump by
\* exactly the width forgets the old highest (shift_by's early return), so the
\* last bit is not to be relied on.
Remembers(w, a) ==
    /\ w.highest \in a /\ \A c \in a : c \in Nat /\ c <= w.highest
    /\ \A back \in 1 .. (Width - 1) : Get(w.seen, back - 1) <=> (w.highest - back) \in a

WindowInv ==
    /\ window \in [highest : Nat, seen : Bitmap, started : BOOLEAN]
    /\ ~window.started => accepted = {} /\ window.seen = Blank
    /\ window.started => Remembers(window, accepted)

\* An empty bitmap has no bit.
LEMMA BlankIsBlank == Blank \in Bitmap /\ \A x \in Nat : ~Get(Blank, x)
<1>1. Blank \in Bitmap
  BY DEF Blank, Bitmap
<1>2. ASSUME NEW x \in Nat, Get(Blank, x) PROVE FALSE
  <2>1. x < Width
    BY <1>2 DEF Get
  <2>2. x \div WordBits \in WordIdx
    BY <2>1, PlaceOf
  <2> DEFINE i == x \div WordBits
             b == x % WordBits
  <2>3. b \in Blank[i] /\ i \in WordIdx
    BY <1>2, <2>2 DEF Get
  <2> HIDE DEF i, b
  <2> QED BY <2>3 DEF Blank
<1> QED BY <1>1, <1>2

\* What accept makes of the window for a counter above the highest.
Shifted(w, c) == [w EXCEPT !.seen = ShiftBy(w.seen, c - w.highest), !.highest = c]

\* A counter above the highest: shift_by keeps the history.
LEMMA ShiftRemembers ==
    ASSUME NEW w \in [highest : Nat, seen : Bitmap, started : BOOLEAN], NEW a,
           Remembers(w, a), NEW c \in Nat, c > w.highest,
           NEW q, q = Shifted(w, c)
    PROVE  /\ q \in [highest : Nat, seen : Bitmap, started : BOOLEAN]
           /\ q.started = w.started /\ Remembers(q, a \cup {c})
<1> DEFINE shift == c - w.highest
           new   == ShiftBy(w.seen, shift)
<1>0. Width \in Nat \ {0} /\ shift \in Nat \ {0} /\ w.highest \in Nat /\ w.seen \in Bitmap
  <2>1. Words \in Nat \ {0} /\ WordBits \in Nat \ {0}
    BY WindowAssumption
  <2>2. Words * WordBits \in Nat \ {0}
    BY <2>1
  <2> QED BY <2>2 DEF Width
<1>1. /\ new \in Bitmap
      /\ \A back \in 1 .. (Width - 1) :
            Get(new, back - 1) <=> \/ back = shift
                                   \/ back > shift /\ Get(w.seen, back - shift - 1)
  <2>1. CASE shift >= Width
    <3>1. new = Blank
      BY <2>1 DEF ShiftBy
    <3> HIDE DEF new, shift
    <3> QED BY <1>0, <2>1, <3>1, BlankIsBlank
  <2>2. CASE shift < Width
    <3> DEFINE moved == ByBits(ByWords(w.seen, shift \div WordBits), shift % WordBits)
    <3>1. new = Set(moved, shift - 1)
      BY <1>0, <2>2 DEF ShiftBy
    <3> HIDE DEF new, shift
    <3>2. /\ moved \in Bitmap
          /\ \A x \in Nat : x < Width =>
                (Get(moved, x) <=> x >= shift /\ Get(w.seen, x - shift))
      <4>1. shift \in Nat /\ w.seen \in Bitmap
        BY <1>0
      <4> QED BY <2>2, <4>1, ShiftMoves
    <3> HIDE DEF moved
    <3>3. /\ Set(moved, shift - 1) \in Bitmap
          /\ \A x \in Nat : x < Width =>
                (Get(Set(moved, shift - 1), x) <=> Get(moved, x) \/ x = shift - 1)
      <4>1. shift - 1 \in Nat
        BY <1>0
      <4> QED BY <3>2, <4>1, SetSets
    <3>4. ASSUME NEW back \in 1 .. (Width - 1)
          PROVE  Get(new, back - 1) <=> \/ back = shift
                                        \/ back > shift /\ Get(w.seen, back - shift - 1)
      <4>1. back - 1 \in Nat /\ back - 1 < Width /\ (back - 1) - shift = back - shift - 1
        BY <1>0
      <4>2. Get(new, back - 1) <=> Get(moved, back - 1) \/ back - 1 = shift - 1
        BY <3>1, <3>3, <4>1
      <4>3. Get(moved, back - 1) <=> back - 1 >= shift /\ Get(w.seen, back - shift - 1)
        BY <3>2, <4>1
      <4> QED BY <1>0, <4>2, <4>3
    <3> QED BY <3>1, <3>3, <3>4
  <2> QED BY <1>0, <2>1, <2>2
<1>2. q = [w EXCEPT !.seen = new, !.highest = c]
  BY DEF Shifted
<1> HIDE DEF new
<1>3. /\ q \in [highest : Nat, seen : Bitmap, started : BOOLEAN]
      /\ q.highest = c /\ q.seen = new /\ q.started = w.started
  BY <1>1, <1>2
<1>4. ASSUME NEW back \in 1 .. (Width - 1)
      PROVE  Get(new, back - 1) <=> (c - back) \in a \cup {c}
  <2>1. (c - back) \in a \cup {c} <=> (c - back) \in a
    BY <1>0
  <2>2. CASE back < shift
    <3>1. (c - back) \notin a
      BY <1>0, <2>2 DEF Remembers
    <3> QED BY <1>0, <1>1, <2>1, <2>2, <3>1
  <2>3. CASE back = shift
    <3>1. c - back = w.highest
      BY <1>0, <2>3
    <3> QED BY <1>1, <2>1, <2>3, <3>1 DEF Remembers
  <2>4. CASE back > shift
    <3>1. back - shift \in 1 .. (Width - 1) /\ w.highest - (back - shift) = c - back
      BY <1>0, <2>4
    <3>2. Get(w.seen, back - shift - 1) <=> (c - back) \in a
      BY <3>1 DEF Remembers
    <3> QED BY <1>0, <1>1, <2>1, <2>4, <3>2
  <2> QED BY <1>0, <2>2, <2>3, <2>4
<1>5. \A x \in a \cup {c} : x \in Nat /\ x <= c
  BY <1>0 DEF Remembers
<1> QED BY <1>3, <1>4, <1>5 DEF Remembers

\* A counter below it that is not refused is written down.
LEMMA SetRemembers ==
    ASSUME NEW w \in [highest : Nat, seen : Bitmap, started : BOOLEAN], NEW a,
           Remembers(w, a), NEW c \in Nat, c < w.highest,
           NEW q, q = [w EXCEPT !.seen = Set(w.seen, w.highest - c - 1)]
    PROVE  /\ q \in [highest : Nat, seen : Bitmap, started : BOOLEAN]
           /\ q.started = w.started /\ Remembers(q, a \cup {c})
<1> DEFINE b   == w.highest - c - 1
           new == Set(w.seen, b)
<1>0. b \in Nat /\ w.highest \in Nat /\ w.seen \in Bitmap /\ Width \in Nat
  BY WindowAssumption DEF Width
<1>1. /\ new \in Bitmap
      /\ \A x \in Nat : x < Width => (Get(new, x) <=> Get(w.seen, x) \/ x = b)
  <2> HIDE DEF b
  <2> QED BY <1>0, SetSets
<1>2. q = [w EXCEPT !.seen = new]
  OBVIOUS
<1> HIDE DEF new
<1>3. /\ q \in [highest : Nat, seen : Bitmap, started : BOOLEAN]
      /\ q.highest = w.highest /\ q.seen = new /\ q.started = w.started
  BY <1>1, <1>2
<1>4. ASSUME NEW back \in 1 .. (Width - 1)
      PROVE  Get(new, back - 1) <=> (w.highest - back) \in a \cup {c}
  <2>1. back - 1 \in Nat /\ back - 1 < Width
    BY <1>0
  <2>2. back - 1 = b <=> w.highest - back = c
    BY <1>0
  <2>3. Get(w.seen, back - 1) <=> (w.highest - back) \in a
    BY DEF Remembers
  <2> QED BY <1>1, <2>1, <2>2, <2>3
<1>5. \A x \in a \cup {c} : x \in Nat /\ x <= w.highest
  BY <1>0 DEF Remembers
<1> QED BY <1>3, <1>4, <1>5 DEF Remembers

\* What accept records, whichever way the counter lies, is the longer history.
LEMMA AcceptKeeps ==
    ASSUME WindowInv, NEW c \in Nat, Accept(c)
    PROVE  WindowInv'
<1> DEFINE q == Recorded(window, c)
<1>1. /\ window' = q /\ accepted' = accepted \cup {c} /\ ~Refuses(window, c)
      /\ window \in [highest : Nat, seen : Bitmap, started : BOOLEAN]
  BY DEF Accept, WindowInv
<1>2. /\ q \in [highest : Nat, seen : Bitmap, started : BOOLEAN]
      /\ q.started /\ Remembers(q, accepted \cup {c})
  <2>1. CASE ~window.started
    <3>1. q = [window EXCEPT !.started = TRUE, !.highest = c]
      BY <2>1 DEF Recorded
    <3> HIDE DEF q
    <3>2. /\ q \in [highest : Nat, seen : Bitmap, started : BOOLEAN]
          /\ q.started /\ q.highest = c /\ q.seen = Blank
      BY <1>1, <2>1, <3>1 DEF WindowInv
    <3>3. accepted \cup {c} = {c}
      BY <2>1 DEF WindowInv
    <3>4. ASSUME NEW back \in 1 .. (Width - 1)
          PROVE  ~Get(q.seen, back - 1) /\ (c - back) \notin {c}
      <4>1. Width \in Nat
        BY WindowAssumption DEF Width
      <4>2. back - 1 \in Nat /\ c - back # c
        BY <4>1
      <4> QED BY <3>2, <4>2, BlankIsBlank
    <3> QED BY <3>2, <3>3, <3>4 DEF Remembers
  <2>2. CASE window.started /\ c > window.highest
    <3>1. q = Shifted(window, c)
      BY <2>2 DEF Recorded, Shifted
    <3> HIDE DEF q
    <3>2. /\ q \in [highest : Nat, seen : Bitmap, started : BOOLEAN]
          /\ q.started = window.started /\ Remembers(q, accepted \cup {c})
      <4>1. Remembers(window, accepted) /\ c > window.highest
        BY <2>2 DEF WindowInv
      <4> QED BY <1>1, <3>1, <4>1, ShiftRemembers
    <3> QED BY <2>2, <3>2
  <2>3. CASE window.started /\ ~(c > window.highest)
    <3>1. q = [window EXCEPT !.seen = Set(window.seen, window.highest - c - 1)]
      BY <2>3 DEF Recorded
    <3> HIDE DEF q
    <3>2. c < window.highest
      BY <1>1, <2>3 DEF Refuses
    <3>3. /\ q \in [highest : Nat, seen : Bitmap, started : BOOLEAN]
          /\ q.started = window.started /\ Remembers(q, accepted \cup {c})
      <4>1. Remembers(window, accepted)
        BY <2>3 DEF WindowInv
      <4> QED BY <1>1, <3>1, <3>2, <4>1, SetRemembers
    <3> QED BY <2>3, <3>3
  <2> QED BY <2>1, <2>2, <2>3
<1> HIDE DEF q
<1> QED BY <1>1, <1>2 DEF WindowInv

\* For any number and width of words and any sequence of counters, the bitmap is
\* the history of what was accepted (ReplayWindow).
THEOREM WindowCorrect == WindowSpec => []WindowInv
<1>1. WindowInit => WindowInv
  BY BlankIsBlank DEF WindowInit, WindowInv, WindowNew
<1>2. WindowInv /\ [WindowNext]_windowVars => WindowInv'
  <2> SUFFICES ASSUME WindowInv, [WindowNext]_windowVars PROVE WindowInv'
    OBVIOUS
  <2>1. CASE UNCHANGED windowVars
    BY <2>1 DEF windowVars, WindowInv
  <2>2. CASE WindowNext
    <3>1. PICK c \in 0 .. MaxCounter : Accept(c) \/ Refuse(c)
      BY <2>2 DEF WindowNext
    <3>2. c \in Nat
      BY WindowAssumption
    <3> QED BY <2>1, <3>1, <3>2, AcceptKeeps DEF Refuse
  <2> QED BY <2>1, <2>2
<1> QED BY <1>1, <1>2, PTL DEF WindowSpec

\* Short of the edge of the window, a counter is refused if and only if it was
\* accepted before or has fallen out of the window (accept).
THEOREM TheVerdictIsHistory == WindowSpec => []VerdictIsHistory
<1>1. ASSUME WindowInv PROVE VerdictIsHistory
  <2> SUFFICES ASSUME window.started, NEW c \in 0 .. MaxCounter, c # Edge
               PROVE  Refuses(window, c) <=> c \in accepted \/ c < Edge
    BY DEF VerdictIsHistory
  <2>1. /\ c \in Nat /\ window.highest \in Nat /\ Width \in Nat
        /\ Edge = window.highest - Width /\ Remembers(window, accepted)
    BY <1>1, WindowAssumption DEF WindowInv, Width, Edge
  <2>2. CASE c > window.highest
    BY <2>1, <2>2 DEF Refuses, Remembers
  <2>3. CASE c = window.highest
    BY <2>1, <2>3 DEF Refuses, Remembers
  <2>4. CASE c < window.highest /\ c > Edge
    <3> DEFINE back == window.highest - c
    <3>1. back \in 1 .. (Width - 1) /\ window.highest - back = c
      BY <2>1, <2>4
    <3>2. Get(window.seen, back - 1) <=> c \in accepted
      BY <2>1, <3>1 DEF Remembers
    <3>3. Refuses(window, c) <=> Get(window.seen, back - 1)
      BY <2>1, <2>4, <3>1 DEF Refuses, TooOld
    <3> QED BY <2>1, <2>4, <3>2, <3>3
  <2>5. CASE c < Edge
    BY <2>1, <2>5 DEF Refuses, TooOld
  <2> QED BY <2>1, <2>2, <2>3, <2>4, <2>5
<1> QED BY <1>1, WindowCorrect, PTL
=============================================================================
