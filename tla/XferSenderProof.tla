--------------------------- MODULE XferSenderProof --------------------------
(***************************************************************************)
(* The sender is correct for every number and size of frames, every ring   *)
(* budget, window, water mark and timeout.                                 *)
(***************************************************************************)
EXTENDS XferSender, TLAPS, FiniteSetTheorems, WellFoundedInduction

-----------------------------------------------------------------------------
(***************************************************************************)
(* The ring.                                                               *)
(***************************************************************************)
\* An empty ring holds no bytes.
LEMMA NoBytes == RingBytesOf({}) = 0
<1> DEFINE pick(s) == CHOOSE x \in s : TRUE
           body(f) == [s \in SUBSET {} |->
                         IF s = {} THEN 0
                         ELSE SealedLen[pick(s)] + f[s \ {pick(s)}]]
           sum     == CHOOSE f : f = body(f)
<1>1. RingBytesOf({}) = sum[{}]
  BY DEF RingBytesOf, MapThenSumSet, MapThenFoldSet
<1>2. \E f : f = body(f)
  <2> DEFINE zero == [s \in SUBSET {} |-> 0]
  <2>1. zero = body(zero)
    OBVIOUS
  <2> QED BY <2>1
<1>3. sum = body(sum)
  <2> HIDE DEF body
  <2> QED BY <1>2
<1>4. sum[{}] = 0
  <2> HIDE DEF sum
  <2> QED BY <1>3
<1> QED BY <1>1, <1>4

\* So it is within any budget: `new` raises both to at least one.
LEMMA EmptyFits == WithinBudget({})
<1>1. AtLeastOne(RingFrames) >= 0 /\ AtLeastOne(RingBytes) >= 0
  BY SenderAssumption DEF AtLeastOne
<1> QED BY <1>1, NoBytes, FS_EmptySet DEF WithinBudget

(***************************************************************************)
(* The loop of `push` stops, at the latest when the ring is empty, and     *)
(* leaves the ring within both budgets.                                    *)
(***************************************************************************)
LEMMA RingPushEvicts ==
    ASSUME NEW E, NEW lb \in Nat, NEW s \in Nat, lb <= s,
           \A x \in E : x \in Nat /\ x <= s,
           NEW ring, ring = [entries |-> E, lost_below |-> lb]
    PROVE  /\ \E cut \in lb .. s :
                 RingPush(ring, s) = EvictThrough([ring EXCEPT !.entries = E \cup {s}], cut)
           /\ WithinBudget(RingPush(ring, s).entries)
<1> DEFINE Fits(k) == WithinBudget({x \in E \cup {s} : x > k})
           T       == {k \in lb .. s : Fits(k)}
           Cut(k)  == Fits(k) /\ \A j \in lb .. (k - 1) : ~Fits(j)
           cut     == CHOOSE k \in lb .. s : Cut(k)
<1>1. s \in T
  <2>1. {x \in E \cup {s} : x > s} = {}
    OBVIOUS
  <2> QED BY <2>1, EmptyFits
<1>2. T \subseteq Nat
  OBVIOUS
<1>3. PICK k \in T : \A j \in T : ~(<<j, k>> \in OpToRel(<, Nat))
  <2> HIDE DEF T
  <2> QED BY <1>1, <1>2, WFMin, NatLessThanWellFounded, Zenon
<1>4. \A j \in T : ~(j < k)
  BY <1>2, <1>3 DEF OpToRel
<1>5. k \in lb .. s /\ Cut(k)
  <2> HIDE DEF Fits
  <2> QED BY <1>4
<1>6. cut \in lb .. s /\ Cut(cut)
  <2> HIDE DEF Cut
  <2> QED BY <1>5
<1>7. RingPush(ring, s) = EvictThrough([ring EXCEPT !.entries = E \cup {s}], cut)
  BY DEF RingPush
<1> HIDE DEF cut
<1>8. WithinBudget(EvictThrough([ring EXCEPT !.entries = E \cup {s}], cut).entries)
  <2>1. EvictThrough([ring EXCEPT !.entries = E \cup {s}], cut).entries
           = {x \in E \cup {s} : x > cut}
    BY DEF EvictThrough
  <2> QED BY <1>6, <2>1
<1> QED BY <1>6, <1>7, <1>8

-----------------------------------------------------------------------------
(***************************************************************************)
(* The inductive invariant.  NoSilentLoss needs to know that what was      *)
(* evicted or acknowledged had been numbered; DoneIsFinal needs the        *)
(* verdict to be what makes the state Done.                                *)
(***************************************************************************)
RingTrue(t) ==
    /\ t.ring.lost_below < t.next_seq
    /\ t.acked_highest < t.next_seq
    /\ t.skipped \subseteq 1 .. (t.next_seq - 1)
    /\ t.overflowed \subseteq 1 .. t.ring.lost_below
    /\ t.ring.entries = ((t.ring.lost_below + 1) .. (t.next_seq - 1)) \ t.skipped

StateTrue(t) ==
    /\ (t.verdicts = {}) <=> (t.state # "Done")
    /\ t.state = "Finalizing" => t.ended
    /\ t.ended => t.state # "Streaming"

TxInv(t) == RingTrue(t) /\ StateTrue(t)

\* What any step may do: nothing is unsent or taken back, and a sender that is
\* done stays done and only retransmits.
Onward(t, q) ==
    /\ t.next_seq <= q.next_seq
    /\ t.ring.lost_below <= q.ring.lost_below
    /\ t.ended => q.ended
    /\ t.verdicts \subseteq q.verdicts
    /\ t.state = "Done" => /\ q.state = "Done"
                           /\ q.next_seq = t.next_seq
                           /\ \A pkt \in q.out : pkt.type = "Data"

Keeps(t, q) == q \in TxType /\ TxInv(q) /\ Onward(t, q)

\* The counters of a sender are numbers.
LEMMA CountsAreNat ==
    ASSUME NEW t \in TxType
    PROVE  /\ t.next_seq \in 1 .. (MaxFrames + 1) /\ t.next_seq \in Nat
           /\ t.ring.lost_below \in Nat /\ t.acked_highest \in Nat
<1>1. /\ t.next_seq \in 1 .. (MaxFrames + 1) /\ t.acked_highest \in 0 .. MaxFrames
      /\ t.ring \in [entries : SUBSET (1 .. MaxFrames), lost_below : 0 .. MaxFrames]
  BY DEF TxType
<1>2. t.ring.lost_below \in 0 .. MaxFrames
  BY <1>1
<1> QED BY <1>1, <1>2, SenderAssumption

\* XferSender::new
LEMMA NewIsGood == XferSenderNew \in TxType /\ TxInv(XferSenderNew)
<1> DEFINE ring == RingNew
           zero == 0
           one  == 1
           due  == TailKeepaliveInterval
<1>1. /\ ring \in [entries : SUBSET (1 .. MaxFrames), lost_below : 0 .. MaxFrames]
      /\ ring.entries = {} /\ ring.lost_below = 0
      /\ one \in 1 .. (MaxFrames + 1) /\ one = 1
      /\ zero \in Nat /\ zero = 0
      /\ due \in 0 .. TailKeepaliveInterval
  BY SenderAssumption DEF RingNew
<1>2. XferSenderNew =
        [ring |-> ring, state |-> "Streaming", next_seq |-> one, acked_highest |-> zero,
         buffered_ms |-> 0, paused |-> FALSE, got_ack |-> FALSE, since_first |-> zero,
         since_final |-> zero, since_keepalive |-> due, out |-> {}, ended |-> FALSE,
         verdicts |-> {}, overflowed |-> {}, skipped |-> {}]
  BY DEF XferSenderNew
<1> HIDE DEF ring, zero, one, due
<1>3. XferSenderNew \in TxType
  BY <1>1, <1>2, SenderAssumption DEF TxType
<1>4. RingTrue(XferSenderNew)
  BY <1>1, <1>2 DEF RingTrue
<1>5. StateTrue(XferSenderNew)
  BY <1>2 DEF StateTrue
<1> QED BY <1>3, <1>4, <1>5 DEF TxInv

\* push_frame, dispatch and record_sealed.
LEMMA PushedKeeps ==
    ASSUME NEW t \in TxType, TxInv(t), CanSend(t), t.next_seq <= MaxFrames
    PROVE  Keeps(t, Pushed(t))
<1> DEFINE s    == t.next_seq
           next == s + 1
           ring == RingPush(t.ring, s)
           pkts == {Data(s)}
           over == t.overflowed \cup ((t.ring.entries \cup {s}) \ ring.entries)
           q    == Pushed(t)
<1>1. /\ s \in 1 .. MaxFrames /\ s = t.next_seq
      /\ next \in 1 .. (MaxFrames + 1) /\ next = s + 1
      /\ MaxFrames \in Nat
  BY SenderAssumption DEF TxType
<1>2. /\ t.ring = [entries |-> t.ring.entries, lost_below |-> t.ring.lost_below]
      /\ t.ring.lost_below \in Nat /\ t.ring.lost_below < s
      /\ t.ring.entries \subseteq 1 .. MaxFrames
      /\ t.ring.entries = ((t.ring.lost_below + 1) .. (s - 1)) \ t.skipped
      /\ t.skipped \subseteq 1 .. (s - 1)
      /\ t.overflowed \subseteq 1 .. t.ring.lost_below
      /\ t.acked_highest \in Nat /\ t.acked_highest < s
  <2>1. t.ring \in [entries : SUBSET (1 .. MaxFrames), lost_below : 0 .. MaxFrames]
    BY DEF TxType
  <2> QED BY <2>1, CountsAreNat DEF TxInv, RingTrue
<1>3. \A x \in t.ring.entries : x \in Nat /\ x <= s
  BY <1>1, <1>2
<1> HIDE DEF s, next
<1>4. PICK cut \in t.ring.lost_below .. s :
         ring = [entries    |-> {x \in t.ring.entries \cup {s} : x > cut},
                 lost_below |-> cut]
  <2>1. s \in Nat /\ t.ring.lost_below <= s
    BY <1>1, <1>2
  <2>2. PICK cut \in t.ring.lost_below .. s :
           ring = EvictThrough([t.ring EXCEPT !.entries = t.ring.entries \cup {s}], cut)
    BY <1>2, <1>3, <2>1, RingPushEvicts
  <2>3. [t.ring EXCEPT !.entries = t.ring.entries \cup {s}]
          = [entries |-> t.ring.entries \cup {s}, lost_below |-> t.ring.lost_below]
    BY DEF TxType
  <2>4. (IF t.ring.lost_below < cut THEN cut ELSE t.ring.lost_below) = cut
    BY <1>2, <2>1
  <2> QED BY <2>2, <2>3, <2>4 DEF EvictThrough
<1>5. q = [t EXCEPT !.next_seq = next, !.ring = ring, !.out = pkts, !.overflowed = over]
  BY DEF Pushed, s, next
<1>6. pkts \in SUBSET [type : {"Data", "End", "Keepalive"}, seq : 0 .. MaxFrames]
  BY <1>1 DEF Data
<1>7. /\ ring.lost_below = cut
      /\ ring.lost_below \in 0 .. MaxFrames
      /\ ring \in [entries : SUBSET (1 .. MaxFrames), lost_below : 0 .. MaxFrames]
  BY <1>1, <1>2, <1>4
<1>8. ring.entries = ((ring.lost_below + 1) .. (next - 1)) \ t.skipped
  BY <1>1, <1>2, <1>4
<1>9. over \in SUBSET (1 .. MaxFrames) /\ over \subseteq 1 .. ring.lost_below
  BY <1>1, <1>2, <1>4
<1> HIDE DEF ring, pkts, over, q
<1>10. q \in TxType
  BY <1>1, <1>5, <1>6, <1>7, <1>9 DEF TxType
<1>11. RingTrue(q)
  <2>1. /\ q.ring = ring /\ q.next_seq = next /\ q.skipped = t.skipped
        /\ q.overflowed = over /\ q.acked_highest = t.acked_highest
    BY <1>5 DEF TxType
  <2> QED BY <1>1, <1>2, <1>4, <1>7, <1>8, <1>9, <2>1 DEF RingTrue
<1>12. StateTrue(q)
  BY <1>5 DEF TxType, TxInv, StateTrue
<1>13. Onward(t, q)
  BY <1>1, <1>2, <1>4, <1>5, <1>7 DEF TxType, Onward, CanSend
<1> QED BY <1>10, <1>11, <1>12, <1>13 DEF Keeps, TxInv, q

\* push_frame whose datagram never goes out.
LEMMA PushFailedKeeps ==
    ASSUME NEW t \in TxType, TxInv(t), CanSend(t), t.next_seq <= MaxFrames
    PROVE  Keeps(t, PushFailed(t))
<1> DEFINE s    == t.next_seq
           next == s + 1
           skip == t.skipped \cup {s}
           q    == PushFailed(t)
<1>1. /\ s \in 1 .. MaxFrames /\ s = t.next_seq
      /\ next \in 1 .. (MaxFrames + 1) /\ next = s + 1
      /\ skip \in SUBSET (1 .. MaxFrames)
  <2>1. t.skipped \in SUBSET (1 .. MaxFrames)
    BY DEF TxType
  <2> QED BY <2>1, CountsAreNat, SenderAssumption
<1>2. q = [t EXCEPT !.next_seq = next, !.out = {}, !.skipped = skip]
  BY DEF PushFailed
<1>3. RingTrue(q)
  <2>1. /\ q.ring = t.ring /\ q.next_seq = s + 1 /\ q.skipped = t.skipped \cup {s}
        /\ q.overflowed = t.overflowed /\ q.acked_highest = t.acked_highest
    BY <1>2 DEF TxType
  <2>2. t.ring.lost_below \in Nat /\ t.acked_highest \in Nat
    BY SenderAssumption DEF TxType
  <2> QED BY <1>1, <2>1, <2>2 DEF RingTrue, TxInv
<1> HIDE DEF s, next, skip, q
<1>4. q \in TxType
  BY <1>1, <1>2 DEF TxType
<1>5. StateTrue(q)
  BY <1>2 DEF TxType, TxInv, StateTrue
<1>6. Onward(t, q)
  <2>1. /\ q.ring = t.ring /\ q.next_seq = s + 1 /\ q.ended = t.ended
        /\ q.verdicts = t.verdicts /\ t.state # "Done"
    BY <1>1, <1>2 DEF TxType, CanSend
  <2>2. t.ring.lost_below \in Nat
    BY SenderAssumption DEF TxType
  <2> QED BY <1>1, <2>1, <2>2 DEF Onward
<1> QED BY <1>3, <1>4, <1>5, <1>6 DEF Keeps, TxInv, q

\* finish
LEMMA FinishedKeeps ==
    ASSUME NEW t \in TxType, TxInv(t), t.state = "Streaming"
    PROVE  Keeps(t, Finished(t))
<1> DEFINE zero == 0
           pkts == {End(t.next_seq - 1)}
           q    == Finished(t)
<1>1. zero \in 0 .. (FinalizeTimeout + 1) /\ zero \in 0 .. TailKeepaliveInterval
  BY SenderAssumption
<1>2. pkts \in SUBSET [type : {"Data", "End", "Keepalive"}, seq : 0 .. MaxFrames]
  BY SenderAssumption DEF TxType, End
<1>3. q = [t EXCEPT !.state = "Finalizing", !.since_final = zero, !.since_keepalive = zero,
                    !.out = pkts, !.ended = TRUE]
  BY DEF Finished
<1> HIDE DEF zero, pkts, q
<1>4. q \in TxType
  BY <1>1, <1>2, <1>3 DEF TxType
<1>5. /\ q.ring = t.ring /\ q.next_seq = t.next_seq /\ q.acked_highest = t.acked_highest
      /\ q.skipped = t.skipped /\ q.overflowed = t.overflowed
      /\ q.verdicts = t.verdicts /\ q.state = "Finalizing" /\ q.ended
  BY <1>3 DEF TxType
<1>6. TxInv(q)
  BY <1>5 DEF TxInv, RingTrue, StateTrue
<1>7. Onward(t, q)
  BY <1>5, SenderAssumption DEF Onward, TxType
<1> QED BY <1>4, <1>6, <1>7 DEF Keeps, q

\* ack_through, of numbers the tap has used.
LEMMA AckThroughKeeps ==
    ASSUME NEW t \in TxType, RingTrue(t), NEW c \in 0 .. (t.next_seq - 1)
    PROVE  LET ring == AckThrough(t.ring, c)
           IN  /\ ring \in [entries : SUBSET (1 .. MaxFrames), lost_below : 0 .. MaxFrames]
               /\ ring.lost_below < t.next_seq
               /\ t.ring.lost_below <= ring.lost_below
               /\ ring.entries = ((ring.lost_below + 1) .. (t.next_seq - 1)) \ t.skipped
<1> DEFINE E  == t.ring.entries
           lb == t.ring.lost_below
           n  == t.next_seq
           k  == IF lb < c THEN c ELSE lb
<1>1. /\ n \in 1 .. (MaxFrames + 1) /\ lb \in 0 .. MaxFrames /\ lb < n
      /\ E = ((lb + 1) .. (n - 1)) \ t.skipped
      /\ MaxFrames \in Nat /\ c \in 0 .. (n - 1)
  BY SenderAssumption DEF TxType, RingTrue
<1>2. AckThrough(t.ring, c) = [entries |-> {x \in E : x > c}, lost_below |-> k]
  BY DEF AckThrough, EvictThrough
<1> HIDE DEF E, lb, n
<1>3. k \in 0 .. MaxFrames /\ k < n /\ lb <= k
  BY <1>1
<1>4. {x \in E : x > c} = ((k + 1) .. (n - 1)) \ t.skipped
  BY <1>1
<1>5. {x \in E : x > c} \in SUBSET (1 .. MaxFrames)
  BY <1>1
<1> HIDE DEF k
<1> QED BY <1>2, <1>3, <1>4, <1>5 DEF n, lb

\* The Ack arm of handle.
LEMMA OnAckKeeps ==
    ASSUME NEW t \in TxType, TxInv(t), NEW pkt,
           pkt.contiguous \in 0 .. (t.next_seq - 1),
           pkt.highest \in 0 .. (t.next_seq - 1),
           pkt.buffered_ms \in AckReports
    PROVE  Keeps(t, OnAck(t, pkt))
<1> DEFINE ring == AckThrough(t.ring, pkt.contiguous)
           high == IF pkt.highest > t.acked_highest THEN pkt.highest ELSE t.acked_highest
           ms   == pkt.buffered_ms
           stop == ms >= HighWater \/ (t.paused /\ ms > LowWater)
           q    == OnAck(t, pkt)
<1>1. /\ ring \in [entries : SUBSET (1 .. MaxFrames), lost_below : 0 .. MaxFrames]
      /\ ring.lost_below < t.next_seq
      /\ t.ring.lost_below <= ring.lost_below
      /\ ring.entries = ((ring.lost_below + 1) .. (t.next_seq - 1)) \ t.skipped
  BY AckThroughKeeps DEF TxInv
<1>2. /\ t.next_seq \in 1 .. (MaxFrames + 1) /\ t.acked_highest \in 0 .. MaxFrames
      /\ t.acked_highest < t.next_seq /\ MaxFrames \in Nat
      /\ t.overflowed \subseteq 1 .. t.ring.lost_below
      /\ t.skipped \subseteq 1 .. (t.next_seq - 1)
      /\ t.ring.lost_below \in Nat
  BY SenderAssumption DEF TxType, TxInv, RingTrue
<1>3. high \in 0 .. MaxFrames /\ high < t.next_seq
  BY <1>2
<1>4. stop \in BOOLEAN /\ ms \in AckReports
  OBVIOUS
<1>5. q = [t EXCEPT !.got_ack = TRUE, !.ring = ring, !.acked_highest = high,
                    !.buffered_ms = ms, !.paused = stop, !.out = {}]
  BY DEF OnAck
<1> HIDE DEF ring, high, ms, stop, q
<1>6. q \in TxType
  BY <1>1, <1>3, <1>4, <1>5 DEF TxType
<1>7. /\ q.ring = ring /\ q.next_seq = t.next_seq /\ q.acked_highest = high
      /\ q.skipped = t.skipped /\ q.overflowed = t.overflowed
      /\ q.verdicts = t.verdicts /\ q.state = t.state /\ q.ended = t.ended /\ q.out = {}
  BY <1>5 DEF TxType
<1>8. RingTrue(q)
  <2>1. t.overflowed \subseteq 1 .. ring.lost_below
    BY <1>1, <1>2
  <2> QED BY <1>1, <1>2, <1>3, <1>7, <2>1 DEF RingTrue
<1>9. StateTrue(q)
  BY <1>7 DEF TxInv, StateTrue
<1>10. Onward(t, q)
  BY <1>1, <1>2, <1>7 DEF Onward
<1> QED BY <1>6, <1>8, <1>9, <1>10 DEF Keeps, TxInv, q

\* The Nack arm, whatever is asked for.
LEMMA OnNackKeeps ==
    ASSUME NEW t \in TxType, TxInv(t), NEW pkt
    PROVE  Keeps(t, OnNack(t, pkt))
<1> DEFINE pkts == {Data(s) : s \in pkt.missing \cap t.ring.entries}
           q    == OnNack(t, pkt)
<1>1. /\ pkts \in SUBSET [type : {"Data", "End", "Keepalive"}, seq : 0 .. MaxFrames]
      /\ \A p \in pkts : p.type = "Data"
  BY SenderAssumption DEF TxType, Data
<1>2. q = [t EXCEPT !.got_ack = TRUE, !.out = pkts]
  BY DEF OnNack
<1> HIDE DEF pkts, q
<1>3. q \in TxType
  BY <1>1, <1>2 DEF TxType
<1>4. /\ q.ring = t.ring /\ q.next_seq = t.next_seq /\ q.acked_highest = t.acked_highest
      /\ q.skipped = t.skipped /\ q.overflowed = t.overflowed
      /\ q.verdicts = t.verdicts /\ q.state = t.state /\ q.ended = t.ended /\ q.out = pkts
  BY <1>2 DEF TxType
<1>5. TxInv(q)
  BY <1>4 DEF TxInv, RingTrue, StateTrue
<1>6. Onward(t, q)
  BY <1>1, <1>4, CountsAreNat DEF Onward
<1> QED BY <1>3, <1>5, <1>6 DEF Keeps, q

\* The state becomes Done with a verdict, whatever it was.
LEMMA VerdictKeeps ==
    ASSUME NEW t \in TxType, RingTrue(t), NEW v \in Failures \cup {"Completed"},
           NEW q, q = [t EXCEPT !.state = "Done", !.verdicts = @ \cup {v}, !.out = {}]
    PROVE  Keeps(t, q)
<1> DEFINE all == t.verdicts \cup {v}
<1>1. all \in SUBSET (Failures \cup {"Completed"}) /\ all # {} /\ t.verdicts \subseteq all
  BY DEF TxType
<1>2. q = [t EXCEPT !.state = "Done", !.verdicts = all, !.out = {}]
  OBVIOUS
<1> HIDE DEF all
<1>3. q \in TxType
  BY <1>1, <1>2, ZenonT(40) DEF TxType
<1>4. /\ q.ring = t.ring /\ q.next_seq = t.next_seq /\ q.acked_highest = t.acked_highest
      /\ q.skipped = t.skipped /\ q.overflowed = t.overflowed
      /\ q.verdicts = all /\ q.state = "Done" /\ q.ended = t.ended /\ q.out = {}
  BY <1>2 DEF TxType
<1>5. TxInv(q)
  BY <1>1, <1>4 DEF TxInv, RingTrue, StateTrue
<1>6. Onward(t, q)
  BY <1>1, <1>4, CountsAreNat DEF Onward
<1> QED BY <1>3, <1>5, <1>6 DEF Keeps

\* A change that only the timers and the packets of the last call see.
LEMMA QuietKeeps ==
    ASSUME NEW t \in TxType, TxInv(t),
           NEW o \in SUBSET [type : {"Data", "End", "Keepalive"}, seq : 0 .. MaxFrames],
           \A pkt \in o : t.state = "Done" => pkt.type = "Data",
           NEW first \in 0 .. (FirstAckTimeout + 1),
           NEW final \in 0 .. (FinalizeTimeout + 1),
           NEW keep \in 0 .. TailKeepaliveInterval,
           NEW q, q = [t EXCEPT !.out = o, !.since_first = first,
                                !.since_final = final, !.since_keepalive = keep]
    PROVE  Keeps(t, q)
<1>1. q \in TxType
  BY DEF TxType
<1>2. /\ q.ring = t.ring /\ q.next_seq = t.next_seq /\ q.acked_highest = t.acked_highest
      /\ q.skipped = t.skipped /\ q.overflowed = t.overflowed
      /\ q.verdicts = t.verdicts /\ q.state = t.state /\ q.ended = t.ended /\ q.out = o
  BY DEF TxType
<1>3. TxInv(q)
  BY <1>2 DEF TxInv, RingTrue, StateTrue
<1>4. t.next_seq \in Int /\ t.ring.lost_below \in Int
  BY SenderAssumption DEF TxType
<1>5. Onward(t, q)
  BY <1>2, <1>4 DEF Onward
<1> QED BY <1>1, <1>3, <1>5 DEF Keeps

\* tick
LEMMA SenderTickKeeps ==
    ASSUME NEW t \in TxType, TxInv(t)
    PROVE  Keeps(t, SenderTick(t))
<1> DEFINE quiet == [t EXCEPT !.out = {}]
<1>1. /\ t.since_first \in 0 .. (FirstAckTimeout + 1)
      /\ t.since_final \in 0 .. (FinalizeTimeout + 1)
      /\ t.since_keepalive \in 0 .. TailKeepaliveInterval
  BY DEF TxType
<1>2. Keeps(t, quiet)
  <2>1. quiet = [t EXCEPT !.out = {}, !.since_first = t.since_first,
                          !.since_final = t.since_final,
                          !.since_keepalive = t.since_keepalive]
    BY DEF TxType
  <2> HIDE DEF quiet
  <2> QED BY <1>1, <2>1, QuietKeeps
<1>3. \A why \in Failures : Keeps(t, Fail(quiet, why))
  <2> TAKE why \in Failures
  <2>1. Fail(quiet, why) = [t EXCEPT !.state = "Done", !.verdicts = @ \cup {why}, !.out = {}]
    BY DEF Fail, TxType
  <2> QED BY <2>1, VerdictKeeps DEF TxInv
<1>4. CASE t.state # "Done"
  <2> DEFINE zero == 0
             pkts == {Keepalive(t.ring.lost_below)}
             due  == [quiet EXCEPT !.since_keepalive = zero, !.out = pkts]
  <2>1. Keeps(t, KeptAlive(quiet))
    <3>1. KeptAlive(quiet) = IF t.since_keepalive < TailKeepaliveInterval THEN quiet ELSE due
      BY DEF KeptAlive, TxType
    <3>2. /\ zero \in 0 .. TailKeepaliveInterval
          /\ pkts \in SUBSET [type : {"Data", "End", "Keepalive"}, seq : 0 .. MaxFrames]
      BY SenderAssumption DEF TxType, Keepalive
    <3>3. due = [t EXCEPT !.out = pkts, !.since_first = t.since_first,
                          !.since_final = t.since_final, !.since_keepalive = zero]
      BY DEF TxType
    <3> HIDE DEF quiet, zero, pkts, due
    <3>4. Keeps(t, due)
      BY <1>1, <1>4, <3>2, <3>3, QuietKeeps
    <3> QED BY <1>2, <3>1, <3>4
  <2>2. SenderTick(t) \in {quiet, Fail(quiet, "NoAck"), Fail(quiet, "FinalizeTimeout"),
                           KeptAlive(quiet)}
    <3> HIDE DEF quiet, pkts
    <3> QED BY DEF SenderTick, quiet
  <2>3. "NoAck" \in Failures /\ "FinalizeTimeout" \in Failures
    BY DEF Failures
  <2> HIDE DEF quiet
  <2> QED BY <1>2, <1>3, <2>1, <2>2, <2>3
<1>5. CASE t.state = "Done"
  <2>1. SenderTick(t) = quiet
    BY <1>5 DEF SenderTick
  <2> QED BY <1>2, <2>1
<1> QED BY <1>4, <1>5

\* An age stays within its cap.
LEMMA OlderToInRange ==
    ASSUME NEW cap \in Nat, NEW age \in 0 .. cap
    PROVE  OlderTo(age, cap) \in 0 .. cap
BY DEF OlderTo

\* Time passes.
LEMMA SenderAgedKeeps ==
    ASSUME NEW t \in TxType, TxInv(t)
    PROVE  Keeps(t, SenderAged(t))
<1> DEFINE first == IF t.next_seq > 1 THEN OlderTo(t.since_first, FirstAckTimeout + 1)
                    ELSE t.since_first
           final == IF t.state = "Finalizing" THEN OlderTo(t.since_final, FinalizeTimeout + 1)
                    ELSE t.since_final
           keep  == OlderTo(t.since_keepalive, TailKeepaliveInterval)
<1>1. /\ FirstAckTimeout + 1 \in Nat /\ FinalizeTimeout + 1 \in Nat
      /\ TailKeepaliveInterval \in Nat
      /\ t.since_first \in 0 .. (FirstAckTimeout + 1)
      /\ t.since_final \in 0 .. (FinalizeTimeout + 1)
      /\ t.since_keepalive \in 0 .. TailKeepaliveInterval
  BY SenderAssumption DEF TxType
<1>2. /\ first \in 0 .. (FirstAckTimeout + 1)
      /\ final \in 0 .. (FinalizeTimeout + 1)
      /\ keep \in 0 .. TailKeepaliveInterval
  BY <1>1, OlderToInRange
<1>3. SenderAged(t) = [t EXCEPT !.out = {}, !.since_first = first, !.since_final = final,
                                !.since_keepalive = keep]
  BY DEF SenderAged
<1> HIDE DEF first, final, keep
<1> QED BY <1>2, <1>3, QuietKeeps

-----------------------------------------------------------------------------
(***************************************************************************)
(* A sender and what of it has landed, for the composition with a sink: A  *)
(* is the set of frames that have arrived there.                           *)
(***************************************************************************)
Used(t) == 1 .. (t.next_seq - 1)

\* What a packet of the tap says of the tap, however late it is read.
Truthful(t, pkt) ==
    /\ pkt.type = "Data" => pkt.seq \in Used(t) \ t.skipped
    /\ pkt.type = "End" => t.ended /\ pkt.seq = t.next_seq - 1
    /\ pkt.type = "Keepalive" => pkt.seq <= t.ring.lost_below

\* What is no longer retransmittable landed, overflowed or never went out.
Covered(t, A) ==
    \A s \in Used(t) : s \in t.ring.entries \cup t.overflowed \cup t.skipped \cup A

Paced(t, A) ==
    \A s \in Used(t) : s > MaxOutstanding => \E a \in A : a >= s - MaxOutstanding

Rely(t, A) ==
    /\ A \subseteq Used(t) \ t.skipped
    /\ t.acked_highest \in A \cup {0}
    /\ Covered(t, A)
    /\ Paced(t, A)

\* What may have become of t: packets that were true of it are true of q.
Later(t, q) ==
    /\ t.next_seq <= q.next_seq
    /\ t.ring.lost_below <= q.ring.lost_below
    /\ q.skipped \cap Used(t) = t.skipped
    /\ t.ended => q.ended /\ q.next_seq = t.next_seq

Moves(t, q, A) ==
    /\ q \in TxType /\ TxInv(q)
    /\ Rely(q, A)
    /\ Later(t, q)
    /\ \A pkt \in q.out : Truthful(q, pkt)

\* A true packet stays true.
LEMMA TruthfulStays ==
    ASSUME NEW t \in TxType, NEW q \in TxType, Later(t, q), NEW pkt,
           pkt.type = "Keepalive" => pkt.seq \in Nat, Truthful(t, pkt)
    PROVE  Truthful(q, pkt)
<1>1. /\ t.next_seq \in Nat /\ q.next_seq \in Nat
      /\ t.ring.lost_below \in Nat /\ q.ring.lost_below \in Nat
  BY CountsAreNat
<1>2. ASSUME pkt.type = "Data" PROVE pkt.seq \in Used(q) \ q.skipped
  BY <1>1, <1>2 DEF Truthful, Later, Used
<1>3. ASSUME pkt.type = "End" PROVE q.ended /\ pkt.seq = q.next_seq - 1
  BY <1>3 DEF Truthful, Later
<1>4. ASSUME pkt.type = "Keepalive" PROVE pkt.seq <= q.ring.lost_below
  BY <1>1, <1>4 DEF Truthful, Later
<1> QED BY <1>2, <1>3, <1>4 DEF Truthful

\* Later is transitive.
LEMMA LaterOn ==
    ASSUME NEW t \in TxType, NEW q \in TxType, NEW z \in TxType, Later(t, q), Later(q, z)
    PROVE  Later(t, z)
<1>1. /\ t.next_seq \in Nat /\ q.next_seq \in Nat /\ z.next_seq \in Nat
      /\ t.ring.lost_below \in Nat /\ q.ring.lost_below \in Nat /\ z.ring.lost_below \in Nat
  BY CountsAreNat
<1>2. t.next_seq <= q.next_seq /\ q.next_seq <= z.next_seq
  BY DEF Later
<1>3. Used(t) \subseteq Used(q)
  BY <1>1, <1>2 DEF Used
<1>4. z.skipped \cap Used(t) = t.skipped
  BY <1>3 DEF Later
<1>5. t.ended => z.ended /\ z.next_seq = t.next_seq
  BY DEF Later
<1> QED BY <1>1, <1>4, <1>5 DEF Later

\* A step that touches neither the ring nor the sequence numbers.
SameRing(t, q) ==
    /\ q.ring = t.ring /\ q.next_seq = t.next_seq /\ q.acked_highest = t.acked_highest
    /\ q.skipped = t.skipped /\ q.overflowed = t.overflowed

\* Such a step keeps what the tap believes of the landed frames.
LEMMA SameRingMoves ==
    ASSUME NEW t \in TxType, TxInv(t), NEW A, Rely(t, A), NEW q, Keeps(t, q),
           SameRing(t, q), \A pkt \in q.out : Truthful(q, pkt)
    PROVE  Moves(t, q, A)
<1>1. Rely(q, A)
  BY DEF Rely, Covered, Paced, Used, SameRing
<1>2. Later(t, q)
  <2>1. t.skipped \cap Used(t) = t.skipped
    BY DEF TxInv, RingTrue, Used
  <2> QED BY <2>1 DEF SameRing, Later, Keeps, Onward
<1> QED BY <1>1, <1>2 DEF Moves, Keeps

\* push_frame and record_sealed: what the ring evicts is counted as overflowed,
\* and can_send kept the frame within reach of an acknowledged one.
LEMMA PushedMoves ==
    ASSUME NEW t \in TxType, TxInv(t), CanSend(t), t.next_seq <= MaxFrames,
           NEW A, Rely(t, A)
    PROVE  /\ Moves(t, Pushed(t), A)
           /\ Pushed(t).ended = t.ended /\ Pushed(t).verdicts = t.verdicts
<1> DEFINE s == t.next_seq
           q == Pushed(t)
<1>1. Keeps(t, q)
  BY PushedKeeps
<1>2. /\ q.next_seq = s + 1 /\ q.out = {Data(s)} /\ q.skipped = t.skipped
      /\ q.acked_highest = t.acked_highest
      /\ q.overflowed = t.overflowed \cup ((t.ring.entries \cup {s}) \ q.ring.entries)
      /\ q.ended = t.ended /\ q.verdicts = t.verdicts
  BY DEF Pushed, TxType
<1>3. /\ s \in Nat /\ s >= 1 /\ t.acked_highest \in Nat /\ MaxOutstanding \in Nat
      /\ t.skipped \subseteq Used(t)
      /\ ~t.ended /\ s - 1 - t.acked_highest < MaxOutstanding
  BY CountsAreNat, SenderAssumption DEF CanSend, TxInv, RingTrue, StateTrue, Used
<1> HIDE DEF s, q
<1>4. Used(q) = Used(t) \cup {s} /\ s \notin Used(t) /\ Used(t) = 1 .. (s - 1)
  BY <1>2, <1>3 DEF Used, s
<1>5. A \subseteq Used(q) \ q.skipped /\ q.acked_highest \in A \cup {0}
  BY <1>2, <1>4 DEF Rely
<1>6. Covered(q, A)
  BY <1>2, <1>4 DEF Rely, Covered
<1>7. Paced(q, A)
  <2>1. ASSUME s > MaxOutstanding PROVE \E a \in A : a >= s - MaxOutstanding
    <3>1. t.acked_highest >= s - MaxOutstanding /\ t.acked_highest # 0
      BY <1>3, <2>1
    <3>2. t.acked_highest \in A
      BY <3>1 DEF Rely
    <3> QED BY <3>1, <3>2
  <2> QED BY <1>4, <2>1 DEF Rely, Paced
<1>8. Later(t, q)
  <2>1. t.skipped \cap Used(t) = t.skipped
    BY <1>3
  <2> QED BY <1>1, <1>2, <1>3, <2>1 DEF Later, Keeps, Onward
<1>9. \A pkt \in q.out : Truthful(q, pkt)
  <2>1. s \in Used(q) \ q.skipped
    BY <1>2, <1>3, <1>4
  <2> QED BY <1>2, <2>1 DEF Truthful, Data
<1> QED BY <1>1, <1>2, <1>5, <1>6, <1>7, <1>8, <1>9 DEF Moves, Rely, Keeps, q

\* push_frame whose datagram never goes out.
LEMMA PushFailedMoves ==
    ASSUME NEW t \in TxType, TxInv(t), CanSend(t), t.next_seq <= MaxFrames,
           NEW A, Rely(t, A)
    PROVE  /\ Moves(t, PushFailed(t), A)
           /\ PushFailed(t).ended = t.ended /\ PushFailed(t).verdicts = t.verdicts
<1> DEFINE s == t.next_seq
           q == PushFailed(t)
<1>1. Keeps(t, q)
  BY PushFailedKeeps
<1>2. /\ q.next_seq = s + 1 /\ q.out = {} /\ q.skipped = t.skipped \cup {s}
      /\ q.acked_highest = t.acked_highest /\ q.ring = t.ring
      /\ q.overflowed = t.overflowed
      /\ q.ended = t.ended /\ q.verdicts = t.verdicts
  BY DEF PushFailed, TxType
<1>3. /\ s \in Nat /\ s >= 1 /\ t.acked_highest \in Nat /\ MaxOutstanding \in Nat
      /\ t.skipped \subseteq Used(t)
      /\ ~t.ended /\ s - 1 - t.acked_highest < MaxOutstanding
  BY CountsAreNat, SenderAssumption DEF CanSend, TxInv, RingTrue, StateTrue, Used
<1> HIDE DEF s, q
<1>4. Used(q) = Used(t) \cup {s} /\ s \notin Used(t) /\ Used(t) = 1 .. (s - 1)
  BY <1>2, <1>3 DEF Used, s
<1>5. A \subseteq Used(q) \ q.skipped /\ q.acked_highest \in A \cup {0}
  BY <1>2, <1>4 DEF Rely
<1>6. Covered(q, A)
  BY <1>2, <1>4 DEF Rely, Covered
<1>7. Paced(q, A)
  <2>1. ASSUME s > MaxOutstanding PROVE \E a \in A : a >= s - MaxOutstanding
    <3>1. t.acked_highest >= s - MaxOutstanding /\ t.acked_highest # 0
      BY <1>3, <2>1
    <3>2. t.acked_highest \in A
      BY <3>1 DEF Rely
    <3> QED BY <3>1, <3>2
  <2> QED BY <1>4, <2>1 DEF Rely, Paced
<1>8. Later(t, q)
  <2>1. q.skipped \cap Used(t) = t.skipped
    BY <1>2, <1>3, <1>4
  <2> QED BY <1>1, <1>2, <1>3, <2>1 DEF Later, Keeps, Onward
<1> QED BY <1>1, <1>2, <1>5, <1>6, <1>7, <1>8 DEF Moves, Rely, Keeps, q

\* finish announces the last number that was used.
LEMMA FinishedMoves ==
    ASSUME NEW t \in TxType, TxInv(t), t.state = "Streaming", NEW A, Rely(t, A)
    PROVE  Moves(t, Finished(t), A) /\ Finished(t).verdicts = t.verdicts
<1> DEFINE q == Finished(t)
<1>1. Keeps(t, q)
  BY FinishedKeeps
<1>2. /\ SameRing(t, q) /\ q.out = {End(t.next_seq - 1)} /\ q.ended
      /\ q.verdicts = t.verdicts
  BY DEF Finished, TxType, SameRing
<1> HIDE DEF q
<1>3. \A pkt \in q.out : Truthful(q, pkt)
  BY <1>2 DEF Truthful, End, SameRing
<1> QED BY <1>1, <1>2, <1>3, SameRingMoves DEF q

\* The Ack arm: what is dropped from the ring has landed.
LEMMA OnAckMoves ==
    ASSUME NEW t \in TxType, TxInv(t), NEW A, Rely(t, A), NEW pkt,
           pkt.contiguous \in Nat, 1 .. pkt.contiguous \subseteq A, pkt.highest \in A,
           pkt.buffered_ms \in AckReports
    PROVE  /\ Moves(t, OnAck(t, pkt), A)
           /\ OnAck(t, pkt).ended = t.ended /\ OnAck(t, pkt).verdicts = t.verdicts
<1> DEFINE q == OnAck(t, pkt)
           c == pkt.contiguous
           h == pkt.highest
<1>1. /\ A \subseteq Used(t) \ t.skipped /\ t.next_seq \in Nat /\ t.next_seq >= 1
      /\ t.acked_highest \in A \cup {0} /\ t.acked_highest \in Nat
  BY SenderAssumption DEF Rely, TxType
<1>2. c \in 0 .. (t.next_seq - 1) /\ h \in 0 .. (t.next_seq - 1)
  <2>1. c = 0 \/ c \in 1 .. c
    OBVIOUS
  <2>2. c = 0 \/ c \in Used(t)
    BY <1>1, <2>1
  <2>3. h \in Used(t)
    BY <1>1
  <2> QED BY <1>1, <2>2, <2>3 DEF Used
<1>3. Keeps(t, q)
  BY <1>2, OnAckKeeps
<1>4. /\ q.ring = AckThrough(t.ring, c) /\ q.next_seq = t.next_seq
      /\ q.acked_highest = (IF h > t.acked_highest THEN h ELSE t.acked_highest)
      /\ q.skipped = t.skipped /\ q.overflowed = t.overflowed /\ q.out = {}
      /\ q.ended = t.ended /\ q.verdicts = t.verdicts
  BY DEF OnAck, TxType
<1>5. q.ring.entries = {x \in t.ring.entries : x > c}
  BY <1>4 DEF AckThrough, EvictThrough
<1> HIDE DEF q
<1>6. Used(q) = Used(t)
  BY <1>4 DEF Used
<1>7. Covered(q, A)
  <2> SUFFICES ASSUME NEW s \in Used(t), s \in t.ring.entries, ~(s > c)
               PROVE  s \in A
    BY <1>4, <1>5, <1>6 DEF Rely, Covered
  <2> QED BY <1>1 DEF Used
<1>8. Rely(q, A)
  <2>1. q.acked_highest \in A \cup {0}
    BY <1>1, <1>4
  <2> QED BY <1>4, <1>6, <1>7, <2>1 DEF Rely, Paced
<1>9. Later(t, q)
  <2>1. t.skipped \cap Used(t) = t.skipped
    BY DEF TxInv, RingTrue, Used
  <2> QED BY <1>3, <1>4, <2>1 DEF Later, Keeps, Onward
<1> QED BY <1>3, <1>4, <1>8, <1>9 DEF Moves, Keeps, q

\* The Nack arm: what is resent was sent.
LEMMA OnNackMoves ==
    ASSUME NEW t \in TxType, TxInv(t), NEW A, Rely(t, A), NEW pkt
    PROVE  /\ Moves(t, OnNack(t, pkt), A)
           /\ OnNack(t, pkt).ended = t.ended /\ OnNack(t, pkt).verdicts = t.verdicts
<1> DEFINE q == OnNack(t, pkt)
<1>1. Keeps(t, q)
  BY OnNackKeeps
<1>2. /\ SameRing(t, q) /\ q.ended = t.ended /\ q.verdicts = t.verdicts
      /\ q.out = {Data(s) : s \in pkt.missing \cap t.ring.entries}
  BY DEF OnNack, TxType, SameRing
<1>3. t.ring.entries \subseteq Used(t) \ t.skipped
  <2>1. t.ring.lost_below \in Nat /\ t.next_seq \in Nat
    BY SenderAssumption DEF TxType
  <2>2. t.ring.entries = ((t.ring.lost_below + 1) .. (t.next_seq - 1)) \ t.skipped
    BY DEF TxInv, RingTrue
  <2> QED BY <2>1, <2>2 DEF Used
<1> HIDE DEF q
<1>4. Used(q) = Used(t) /\ q.skipped = t.skipped
  BY <1>2 DEF Used, SameRing
<1>5. ASSUME NEW p \in q.out PROVE Truthful(q, p)
  <2>1. PICK s \in t.ring.entries : p = Data(s)
    BY <1>2
  <2> QED BY <1>3, <1>4, <2>1 DEF Truthful, Data
<1> QED BY <1>1, <1>2, <1>5, SameRingMoves DEF q

\* The EndAck arm.
LEMMA OnEndAckMoves ==
    ASSUME NEW t \in TxType, TxInv(t), NEW A, Rely(t, A)
    PROVE  Moves(t, OnEndAck(t), A) /\ OnEndAck(t).ended = t.ended
<1> DEFINE q == OnEndAck(t)
<1>1. Keeps(t, q)
  BY VerdictKeeps DEF OnEndAck, TxInv
<1>2. SameRing(t, q) /\ q.out = {} /\ q.ended = t.ended
  BY DEF OnEndAck, TxType, SameRing
<1> HIDE DEF q
<1> QED BY <1>1, <1>2, SameRingMoves DEF q

\* tick: a keepalive reports lost_below as it is.
LEMMA SenderTickMoves ==
    ASSUME NEW t \in TxType, TxInv(t), NEW A, Rely(t, A)
    PROVE  /\ Moves(t, SenderTick(t), A)
           /\ SenderTick(t).ended = t.ended
           /\ SenderTick(t).verdicts \subseteq t.verdicts \cup Failures
<1> DEFINE q == SenderTick(t)
<1>1. Keeps(t, q)
  BY SenderTickKeeps
<1>2. /\ SameRing(t, q) /\ q.ended = t.ended
      /\ q.verdicts \subseteq t.verdicts \cup Failures
      /\ q.out = {} \/ q.out = {Keepalive(t.ring.lost_below)}
  BY DEF SenderTick, Fail, KeptAlive, Failures, TxType, SameRing
<1> HIDE DEF q
<1>3. t.ring.lost_below \in Nat
  BY SenderAssumption DEF TxType
<1>4. \A pkt \in q.out : Truthful(q, pkt)
  BY <1>2, <1>3 DEF Truthful, Keepalive, SameRing
<1> QED BY <1>1, <1>2, <1>4, SameRingMoves DEF q

\* Time passes.
LEMMA SenderAgedMoves ==
    ASSUME NEW t \in TxType, TxInv(t), NEW A, Rely(t, A)
    PROVE  /\ Moves(t, SenderAged(t), A)
           /\ SenderAged(t).ended = t.ended /\ SenderAged(t).verdicts = t.verdicts
           /\ SenderAged(t).out = {}
<1> DEFINE q == SenderAged(t)
<1>1. Keeps(t, q)
  BY SenderAgedKeeps
<1>2. /\ SameRing(t, q) /\ q.ended = t.ended /\ q.verdicts = t.verdicts /\ q.out = {}
  BY DEF SenderAged, TxType, SameRing
<1> HIDE DEF q
<1> QED BY <1>1, <1>2, SameRingMoves DEF q

\* What is on the wire may be forgotten, or kept with what comes next.
LEMMA OutMoves ==
    ASSUME NEW t \in TxType, NEW q, NEW A, Moves(t, q, A),
           NEW o \in SUBSET [type : {"Data", "End", "Keepalive"}, seq : 0 .. MaxFrames],
           \A pkt \in o : Truthful(q, pkt)
    PROVE  LET z == [q EXCEPT !.out = o]
           IN  /\ Moves(t, z, A) /\ z.out = o
               /\ z.ended = q.ended /\ z.verdicts = q.verdicts
<1> DEFINE z == [q EXCEPT !.out = o]
<1>1. q \in TxType /\ TxInv(q)
  BY DEF Moves
<1>2. z \in TxType
  BY <1>1 DEF TxType
<1>3. /\ SameRing(q, z) /\ z.out = o /\ z.ended = q.ended /\ z.verdicts = q.verdicts
      /\ z.state = q.state
  BY <1>1 DEF TxType, SameRing
<1> HIDE DEF z
<1>4. TxInv(z)
  BY <1>1, <1>3 DEF TxInv, RingTrue, StateTrue, SameRing
<1>5. Rely(z, A) /\ Later(t, z)
  BY <1>3 DEF Moves, Rely, Covered, Paced, Used, Later, SameRing
<1>6. \A pkt \in z.out : Truthful(z, pkt)
  BY <1>3 DEF Truthful, Used, SameRing
<1> QED BY <1>2, <1>3, <1>4, <1>5, <1>6 DEF Moves, z

\* Handing the packets to the socket is no move.
LEMMA SpentMoves ==
    ASSUME NEW t \in TxType, NEW q, NEW A, Moves(t, q, A),
           NEW z, z = [q EXCEPT !.out = {}]
    PROVE  Moves(t, z, A) /\ z.ended = q.ended /\ z.verdicts = q.verdicts
<1> DEFINE none == {}
<1>1. none \in SUBSET [type : {"Data", "End", "Keepalive"}, seq : 0 .. MaxFrames]
  OBVIOUS
<1>2. \A pkt \in none : Truthful(q, pkt)
  OBVIOUS
<1>3. z = [q EXCEPT !.out = none]
  OBVIOUS
<1> HIDE DEF none
<1> QED BY <1>1, <1>2, <1>3, OutMoves

\* A tap that does nothing but empty its hands moves nothing.
LEMMA IdleMoves ==
    ASSUME NEW t \in TxType, TxInv(t), NEW A, Rely(t, A),
           NEW z, z = [t EXCEPT !.out = {}]
    PROVE  Moves(t, z, A) /\ z.ended = t.ended /\ z.verdicts = t.verdicts
<1>1. z \in TxType
  BY DEF TxType
<1>2. /\ SameRing(t, z) /\ z.out = {} /\ z.ended = t.ended /\ z.verdicts = t.verdicts
      /\ z.state = t.state
  BY DEF TxType, SameRing
<1>3. TxInv(z)
  BY <1>2 DEF TxInv, RingTrue, StateTrue, SameRing
<1>4. Onward(t, z)
  BY <1>2, CountsAreNat DEF Onward, SameRing
<1> QED BY <1>1, <1>2, <1>3, <1>4, SameRingMoves DEF Keeps

\* A turn of pump_once: the answer to a datagram, then the tick.
TickAfter(m) == [SenderTick(m) EXCEPT !.out = @ \cup m.out]

\* A turn of pump_once is one move, and its tick adds no more than a failure.
LEMMA TickAfterMoves ==
    ASSUME NEW t \in TxType, TxInv(t), NEW A, NEW m, Moves(t, m, A)
    PROVE  /\ Moves(t, TickAfter(m), A) /\ TickAfter(m).ended = m.ended
           /\ TickAfter(m).verdicts \subseteq m.verdicts \cup Failures
<1> DEFINE k == SenderTick(m)
           o == k.out \cup m.out
<1>0. TickAfter(m) = [k EXCEPT !.out = o]
  BY DEF TickAfter
<1>1. m \in TxType /\ TxInv(m) /\ Rely(m, A)
  BY DEF Moves
<1>2. /\ Moves(m, k, A) /\ k.ended = m.ended
      /\ k.verdicts \subseteq m.verdicts \cup Failures
  BY <1>1, SenderTickMoves
<1> HIDE DEF k
<1>3. k \in TxType
  BY <1>2 DEF Moves
<1>4. Moves(t, k, A)
  BY <1>1, <1>2, <1>3, LaterOn DEF Moves
<1>5. o \in SUBSET [type : {"Data", "End", "Keepalive"}, seq : 0 .. MaxFrames]
  BY <1>1, <1>3 DEF TxType
<1>6. ASSUME NEW pkt \in m.out PROVE Truthful(k, pkt)
  <2>1. pkt.seq \in Nat
    BY <1>1, SenderAssumption DEF TxType
  <2> QED BY <1>1, <1>2, <1>3, <2>1, TruthfulStays DEF Moves
<1>7. \A pkt \in o : Truthful(k, pkt)
  BY <1>2, <1>6 DEF Moves
<1> HIDE DEF o
<1>8. /\ Moves(t, [k EXCEPT !.out = o], A)
      /\ [k EXCEPT !.out = o].ended = k.ended /\ [k EXCEPT !.out = o].verdicts = k.verdicts
  BY <1>4, <1>5, <1>7, OutMoves
<1> QED BY <1>0, <1>2, <1>8

\* Nothing sent, nothing landed.
LEMMA NewRelies == Rely(XferSenderNew, {})
<1>1. /\ XferSenderNew.next_seq = 1 /\ XferSenderNew.acked_highest = 0
  BY DEF XferSenderNew
<1>2. Used(XferSenderNew) = {}
  BY <1>1 DEF Used
<1> QED BY <1>1, <1>2 DEF Rely, Covered, Paced

\* More of it lands: what was sent and is not there yet.
LEMMA LandingRelies ==
    ASSUME NEW t \in TxType, NEW A, Rely(t, A), NEW s \in Used(t) \ t.skipped,
           NEW B, B = A \cup {s}
    PROVE  Rely(t, B)
BY DEF Rely, Covered, Paced

-----------------------------------------------------------------------------
(***************************************************************************)
(* The specification.                                                      *)
(***************************************************************************)
IndInv == tx \in TxType /\ TxInv(tx)

\* One step per action.
LEMMA StepKeeps ==
    ASSUME IndInv, Next
    PROVE  Keeps(tx, tx')
<1>0. tx \in TxType /\ TxInv(tx)
  BY DEF IndInv
<1>1. CASE PushFrame
  BY <1>0, <1>1, PushedKeeps DEF PushFrame
<1>2. CASE PushFrameFails
  BY <1>0, <1>2, PushFailedKeeps DEF PushFrameFails
<1>3. CASE Finish
  BY <1>0, <1>3, FinishedKeeps DEF Finish
<1>4. CASE HandleAck
  <2>1. PICK h \in Sent \ tx.skipped, ms \in AckReports : \E c \in 0 .. h :
           tx' = SenderHandle(tx, [type |-> "Ack", contiguous |-> c,
                                   highest |-> h, buffered_ms |-> ms])
    BY <1>4 DEF HandleAck
  <2>2. PICK c \in 0 .. h : tx' = SenderHandle(tx, [type |-> "Ack", contiguous |-> c,
                                                    highest |-> h, buffered_ms |-> ms])
    BY <2>1
  <2> DEFINE pkt == [type |-> "Ack", contiguous |-> c, highest |-> h, buffered_ms |-> ms]
  <2>3. tx' = OnAck(tx, pkt)
    BY <2>2 DEF SenderHandle
  <2>4. tx.next_seq \in Nat /\ h \in 1 .. (tx.next_seq - 1)
    BY <1>0, <2>1, SenderAssumption DEF TxType, Sent
  <2>5. /\ pkt.contiguous \in 0 .. (tx.next_seq - 1)
        /\ pkt.highest \in 0 .. (tx.next_seq - 1)
        /\ pkt.buffered_ms \in AckReports
    BY <2>1, <2>2, <2>4
  <2> HIDE DEF pkt
  <2> QED BY <1>0, <2>3, <2>5, OnAckKeeps
<1>5. CASE HandleNack
  <2>1. PICK missing : tx' = SenderHandle(tx, [type |-> "Nack", missing |-> missing])
    BY <1>5 DEF HandleNack
  <2>2. tx' = OnNack(tx, [type |-> "Nack", missing |-> missing])
    BY <2>1 DEF SenderHandle
  <2> QED BY <1>0, <2>2, OnNackKeeps
<1>6. CASE HandleEndAck
  <2>1. tx' = OnEndAck(tx)
    BY <1>6 DEF HandleEndAck, SenderHandle
  <2>2. OnEndAck(tx) = [tx EXCEPT !.state = "Done", !.verdicts = @ \cup {"Completed"}, !.out = {}]
    BY DEF OnEndAck
  <2> QED BY <1>0, <2>1, <2>2, VerdictKeeps DEF TxInv
<1>7. CASE Tick
  BY <1>0, <1>7, SenderTickKeeps DEF Tick
<1>8. CASE Elapse
  BY <1>0, <1>8, SenderAgedKeeps DEF Elapse
<1> QED BY <1>1, <1>2, <1>3, <1>4, <1>5, <1>6, <1>7, <1>8 DEF Next

\* The inductive invariant holds: whatever is pushed, acknowledged, asked for,
\* refused by the socket or timed out, in any order.
THEOREM SenderCorrect == Spec => []IndInv
<1>1. Init => IndInv
  BY NewIsGood DEF Init, IndInv
<1>2. IndInv /\ [Next]_tx => IndInv'
  <2> SUFFICES ASSUME IndInv, [Next]_tx PROVE IndInv'
    OBVIOUS
  <2>1. CASE Next
    BY <2>1, StepKeeps DEF Keeps, IndInv
  <2>2. CASE UNCHANGED tx
    BY <2>2 DEF IndInv
  <2> QED BY <2>1, <2>2
<1> QED BY <1>1, <1>2, PTL DEF Spec

\* Every field of the sender keeps its type: no sequence number outruns the
\* frames offered, and lost_below never outruns them either.
THEOREM SenderTypes == Spec => []TypeOK
<1>1. IndInv => TypeOK
  BY DEF IndInv, TypeOK
<1> QED BY <1>1, SenderCorrect, PTL

\* No frame is lost silently, for any ring budget and any frame sizes: what was
\* put on the wire is retransmittable or covered by lost_below.
THEOREM NothingLostSilently == Spec => []NoSilentLoss
<1>1. IndInv => NoSilentLoss
  BY DEF IndInv, TxInv, RingTrue, NoSilentLoss
<1> QED BY <1>1, SenderCorrect, PTL

\* A sender that has given its verdict stays done: whatever still arrives, it
\* offers no frame, starts no keepalive and reports no failure (tick's early
\* return).
THEOREM VerdictIsFinal == Spec => DoneIsFinal
<1> DEFINE A == /\ (tx.verdicts = {}) = (tx.state # "Done")
                /\ tx.state = "Done" => /\ tx'.state = "Done"
                                        /\ tx'.next_seq = tx.next_seq
                                        /\ tx'.verdicts \subseteq tx.verdicts \cup {"Completed"}
                                        /\ \A pkt \in tx'.out : pkt.type = "Data"
<1>1. IndInv /\ [Next]_tx => [A]_tx
  <2> SUFFICES ASSUME IndInv, Next PROVE A
    BY DEF A
  <2>1. (tx.verdicts = {}) = (tx.state # "Done")
    BY DEF IndInv, TxInv, StateTrue
  <2>2. Onward(tx, tx')
    BY StepKeeps DEF Keeps
  <2>3. tx.state = "Done" => tx'.verdicts \subseteq tx.verdicts \cup {"Completed"}
    <3> SUFFICES ASSUME tx.state = "Done"
                 PROVE  tx'.verdicts \subseteq tx.verdicts \cup {"Completed"}
      OBVIOUS
    <3>0. tx \in TxType
      BY DEF IndInv
    <3>1. CASE PushFrame \/ PushFrameFails \/ Finish
      BY <3>1 DEF PushFrame, PushFrameFails, Finish, CanSend
    <3>2. CASE HandleAck
      <4>1. PICK c, h, ms : tx' = SenderHandle(tx, [type |-> "Ack", contiguous |-> c,
                                                    highest |-> h, buffered_ms |-> ms])
        BY <3>2 DEF HandleAck
      <4> DEFINE pkt == [type |-> "Ack", contiguous |-> c, highest |-> h, buffered_ms |-> ms]
                 ring == AckThrough(tx.ring, pkt.contiguous)
                 top  == IF pkt.highest > tx.acked_highest THEN pkt.highest
                         ELSE tx.acked_highest
                 held == \/ pkt.buffered_ms >= HighWater
                         \/ tx.paused /\ pkt.buffered_ms > LowWater
                 none == {}
      <4>2. tx' = OnAck(tx, pkt)
        BY <4>1 DEF SenderHandle
      <4>3. tx' = [tx EXCEPT !.got_ack = TRUE, !.ring = ring, !.acked_highest = top,
                             !.buffered_ms = pkt.buffered_ms, !.paused = held, !.out = none]
        BY <4>2 DEF OnAck
      <4> HIDE DEF pkt, ring, top, held, none
      <4> QED BY <3>0, <4>3 DEF TxType
    <3>3. CASE HandleNack
      BY <3>0, <3>3 DEF HandleNack, SenderHandle, OnNack, TxType
    <3>4. CASE HandleEndAck
      BY <3>0, <3>4 DEF HandleEndAck, SenderHandle, OnEndAck, TxType
    <3>5. CASE Tick
      BY <3>0, <3>5 DEF Tick, SenderTick, TxType
    <3>6. CASE Elapse
      BY <3>0, <3>6 DEF Elapse, SenderAged, TxType
    <3> QED BY <3>1, <3>2, <3>3, <3>4, <3>5, <3>6 DEF Next
  <2> QED BY <2>1, <2>2, <2>3 DEF Onward
<1> QED BY <1>1, SenderCorrect, PTL DEF Spec, DoneIsFinal
=============================================================================
