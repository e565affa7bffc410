---------------------------- MODULE TransferProof ----------------------------
(***************************************************************************)
(* Proofs about Transfer: for any number of frames, any configuration of   *)
(* both ends and any loss, repetition, delay and reordering, what the tap  *)
(* and the sink believe of each other is true.                             *)
(*                                                                         *)
(* The invariant joins the ones of the two components with what ties them: *)
(* a packet, once on the wire, stays true of the end that sent it.  The    *)
(* components' lemmas are used through the instances TapProof and          *)
(* SinkProof; the first section shows that those speak about the same      *)
(* operators as the instances S and R of Transfer.                         *)
(***************************************************************************)
EXTENDS Transfer, TLAPS

TapProof  == INSTANCE XferSenderProof WITH MaxFrames <- NumFrames, AckReports <- 0 .. U16Max
SinkProof == INSTANCE XferReceiverCallsProof

-----------------------------------------------------------------------------
(***************************************************************************)
(* The operators of the sink.                                              *)
(***************************************************************************)
\* The arrival of a frame, as Transfer's and the proof's instance have it.
LEMMA SameArrive ==
    ASSUME NEW r, NEW s PROVE R!Arrive(r, s) = SinkProof!Arrive(r, s)
BY DEF R!Arrive, SinkProof!Arrive, R!Fresh, SinkProof!Fresh, R!WantsUnrel, SinkProof!WantsUnrel,
       R!Record, SinkProof!Record, R!PrefixEnd, SinkProof!PrefixEnd

\* release_contiguous is one operator in both instances.
LEMMA SameRelease ==
    ASSUME NEW r PROVE R!ReleaseContiguous(r) = SinkProof!ReleaseContiguous(r)
BY DEF R!ReleaseContiguous, SinkProof!ReleaseContiguous, R!PrefixEnd, SinkProof!PrefixEnd,
       R!Frames, SinkProof!Frames, R!NotAsked, SinkProof!NotAsked

\* So is finish_rel.
LEMMA SameFinishRel ==
    ASSUME NEW r, NEW o PROVE R!FinishRel(r, o) = SinkProof!FinishRel(r, o)
BY DEF R!FinishRel, SinkProof!FinishRel, R!Frames, SinkProof!Frames,
       R!NotAsked, SinkProof!NotAsked, R!Abandon, SinkProof!Abandon

\* So is check_finish.
LEMMA SameCheckFinish ==
    ASSUME NEW r PROVE R!CheckFinish(r) = SinkProof!CheckFinish(r)
BY SameRelease, SameFinishRel
   DEF R!CheckFinish, SinkProof!CheckFinish, R!EndAckPkt, SinkProof!EndAckPkt,
       R!NoEnd, SinkProof!NoEnd, R!IsComplete, SinkProof!IsComplete

\* So is handle_data.
LEMMA SameOnData ==
    ASSUME NEW r, NEW s PROVE R!OnData(r, s) = SinkProof!OnData(r, s)
BY SameArrive, SameRelease, SameFinishRel, SameCheckFinish
   DEF R!OnData, SinkProof!OnData, R!Hold, SinkProof!Hold, R!Fresh, SinkProof!Fresh,
       R!WindowSpan, SinkProof!WindowSpan, R!PayloadLen, SinkProof!PayloadLen

\* So is handle_keepalive.
LEMMA SameOnKeepalive ==
    ASSUME NEW r, NEW l PROVE R!OnKeepalive(r, l) = SinkProof!OnKeepalive(r, l)
BY SameFinishRel, SameCheckFinish DEF R!OnKeepalive, SinkProof!OnKeepalive

\* So is maybe_ack.
LEMMA SameMaybeAck ==
    ASSUME NEW r PROVE R!MaybeAck(r) = SinkProof!MaybeAck(r)
BY DEF R!MaybeAck, SinkProof!MaybeAck, R!AckPkt, SinkProof!AckPkt

\* So is handle, whatever the packet.
LEMMA SameHandle ==
    ASSUME NEW r, NEW pkt PROVE R!Handle(r, pkt) = SinkProof!Handle(r, pkt)
BY SameCheckFinish, SameOnData, SameOnKeepalive, SameMaybeAck DEF R!Handle, SinkProof!Handle

\* So is emit_nacks, with what it reads off the tracker.
LEMMA SameEmitNacks ==
    ASSUME NEW r PROVE R!EmitNacks(r) = SinkProof!EmitNacks(r)
<1>1. R!Gaps(r.gaps) = SinkProof!Gaps(r.gaps)
  BY DEF R!Gaps, SinkProof!Gaps
<1>2. \A x : R!Cardinality(x) = SinkProof!Cardinality(x)
  BY DEF R!Cardinality, SinkProof!Cardinality, R!IsFiniteSet, SinkProof!IsFiniteSet
<1>3. R!Missing(r.gaps, MaxNackEntries) = SinkProof!Missing(r.gaps, MaxNackEntries)
  BY <1>1, <1>2 DEF R!Missing, SinkProof!Missing
<1>4. \A n : R!NackDelay(n) = SinkProof!NackDelay(n)
  BY DEF R!NackDelay, SinkProof!NackDelay
<1> QED BY <1>3, <1>4, SameFinishRel
        DEF R!EmitNacks, SinkProof!EmitNacks, R!NackPkt, SinkProof!NackPkt,
            R!Frames, SinkProof!Frames

\* So is the sink's tick.
LEMMA SameOnTick ==
    ASSUME NEW r PROVE R!OnTick(r) = SinkProof!OnTick(r)
BY SameFinishRel, SameMaybeAck, SameEmitNacks DEF R!OnTick, SinkProof!OnTick

\* And what changes no protocol state: a buffer report, time, and new.
LEMMA SameQuiet ==
    ASSUME NEW r, NEW ms
    PROVE  /\ R!WithBuffered(r, ms) = SinkProof!WithBuffered(r, ms)
           /\ R!Aged(r) = SinkProof!Aged(r)
           /\ R!XferReceiverNew = SinkProof!XferReceiverNew
BY DEF R!WithBuffered, SinkProof!WithBuffered, R!Aged, SinkProof!Aged, R!Older, SinkProof!Older,
       R!Frames, SinkProof!Frames, R!XferReceiverNew, SinkProof!XferReceiverNew,
       R!GapTrackerNew, SinkProof!GapTrackerNew, R!NoEnd, SinkProof!NoEnd,
       R!NoOutcome, SinkProof!NoOutcome, R!NotAsked, SinkProof!NotAsked

-----------------------------------------------------------------------------
(***************************************************************************)
(* The operators of the tap.                                               *)
(***************************************************************************)
\* The ring's budget, a sum and a cardinality, is one predicate in both instances.
LEMMA SameBudget ==
    ASSUME NEW e PROVE S!WithinBudget(e) = TapProof!WithinBudget(e)
BY DEF S!WithinBudget, TapProof!WithinBudget, S!AtLeastOne, TapProof!AtLeastOne,
       S!RingBytesOf, TapProof!RingBytesOf, S!MapThenSumSet, TapProof!MapThenSumSet,
       S!MapThenFoldSet, TapProof!MapThenFoldSet, S!Cardinality, TapProof!Cardinality,
       S!IsFiniteSet, TapProof!IsFiniteSet

\* So the ring evicts the same frames on a push.
LEMMA SameRingPush ==
    ASSUME NEW r, NEW s PROVE S!RingPush(r, s) = TapProof!RingPush(r, s)
<1> DEFINE full == [r EXCEPT !.entries = @ \cup {s}]
           F(k) == S!WithinBudget({t \in full.entries : t > k})
           G(k) == TapProof!WithinBudget({t \in full.entries : t > k})
           I    == r.lost_below .. s
           c    == CHOOSE k \in I : F(k) /\ \A j \in r.lost_below .. (k - 1) : ~F(j)
           d    == CHOOSE k \in I : G(k) /\ \A j \in r.lost_below .. (k - 1) : ~G(j)
<1>1. ASSUME NEW k PROVE F(k) = G(k)
  BY SameBudget
<1>2. S!RingPush(r, s) = S!EvictThrough(full, c)
  BY DEF S!RingPush
<1>3. TapProof!RingPush(r, s) = TapProof!EvictThrough(full, d)
  BY DEF TapProof!RingPush
<1>4. c = d
  <2> HIDE DEF F, G, full
  <2> QED BY <1>1
<1> HIDE DEF c, d, full
<1> QED BY <1>2, <1>3, <1>4 DEF S!EvictThrough, TapProof!EvictThrough

\* And the tap's calls are one: push_frame, finish, can_send and new.
LEMMA SamePush ==
    ASSUME NEW t
    PROVE  /\ S!Pushed(t) = TapProof!Pushed(t)
           /\ S!PushFailed(t) = TapProof!PushFailed(t)
           /\ S!Finished(t) = TapProof!Finished(t)
           /\ S!CanSend(t) <=> TapProof!CanSend(t)
           /\ S!XferSenderNew = TapProof!XferSenderNew
BY SameRingPush
   DEF S!Pushed, TapProof!Pushed, S!Data, TapProof!Data, S!PushFailed, TapProof!PushFailed,
       S!Finished, TapProof!Finished, S!End, TapProof!End, S!CanSend, TapProof!CanSend,
       S!XferSenderNew, TapProof!XferSenderNew, S!RingNew, TapProof!RingNew

\* So is the tap's tick.
LEMMA SameSenderTick ==
    ASSUME NEW t PROVE S!SenderTick(t) = TapProof!SenderTick(t)
BY DEF S!SenderTick, TapProof!SenderTick, S!Fail, TapProof!Fail,
       S!KeptAlive, TapProof!KeptAlive, S!Keepalive, TapProof!Keepalive

\* So is the tap's handle, whatever the packet.
LEMMA SameSenderHandle ==
    ASSUME NEW t, NEW p PROVE S!SenderHandle(t, p) = TapProof!SenderHandle(t, p)
BY DEF S!SenderHandle, TapProof!SenderHandle, S!OnAck, TapProof!OnAck, S!OnNack, TapProof!OnNack,
       S!OnEndAck, TapProof!OnEndAck, S!Data, TapProof!Data, S!AckThrough, TapProof!AckThrough,
       S!EvictThrough, TapProof!EvictThrough

\* And so is the passing of time at the tap.
LEMMA SameSenderAged ==
    ASSUME NEW t PROVE S!SenderAged(t) = TapProof!SenderAged(t)
BY DEF S!SenderAged, TapProof!SenderAged, S!OlderTo, TapProof!OlderTo

-----------------------------------------------------------------------------
(***************************************************************************)
(* The invariant, of a sink r, a tap t and the datagrams in flight.        *)
(***************************************************************************)
TapPackets == [type : {"Data", "End", "Keepalive"}, seq : 0 .. NumFrames]

\* A packet in flight is true of the end that sent it, and stays true.
PacketTrue(r, t, pkt) ==
    \/ /\ pkt \in TapPackets
       /\ TapProof!Truthful(t, pkt)
    \/ /\ pkt \in SinkProof!AckPackets
       /\ 1 .. pkt.contiguous \subseteq r.arrived /\ pkt.highest \in r.arrived
    \/ /\ pkt \in SinkProof!NackPackets
       /\ pkt.missing \subseteq TapProof!Used(t)
    \/ pkt = SinkProof!EndAckPkt /\ r.end_acked

SinkGood(r) == r \in SinkProof!RxType /\ SinkProof!RxInv(r) /\ SinkProof!CountTrue(r)

TapGood(t, A) == t \in TapProof!TxType /\ TapProof!TxInv(t) /\ TapProof!Rely(t, A)

\* What the two ends believe of each other.
Agree(r, t) ==
    /\ t.ended => t.next_seq = NumFrames + 1
    /\ r.final_seq # SinkProof!NoEnd => t.ended
    /\ r.end_acked => r.final_seq # SinkProof!NoEnd
    /\ r.sender_lost_below <= t.ring.lost_below
    /\ "Completed" \in t.verdicts => r.end_acked

Joint(r, t, wire) ==
    /\ SinkGood(r)
    /\ TapGood(t, r.arrived)
    /\ Agree(r, t)
    /\ \A pkt \in wire : PacketTrue(r, t, pkt)

\* The same of the state.
IndInv == Joint(rx, tx, net)

\* What an Ack can carry is a natural number.
LEMMA ReportsAreNat == 0 .. U16Max \subseteq Nat
BY SinkAssumption

-----------------------------------------------------------------------------
(***************************************************************************)
(* Packets stay true.                                                      *)
(***************************************************************************)
\* What is in flight stays true when the tap moves on.
LEMMA TapMovesOn ==
    ASSUME NEW r, NEW t \in TapProof!TxType, NEW q \in TapProof!TxType,
           TapProof!Later(t, q), NEW pkt, PacketTrue(r, t, pkt)
    PROVE  PacketTrue(r, q, pkt)
<1>1. CASE pkt \in TapPackets /\ TapProof!Truthful(t, pkt)
  <2>1. pkt.seq \in Nat
    BY <1>1, SinkAssumption DEF TapPackets
  <2>2. TapProof!Truthful(q, pkt)
    BY <1>1, <2>1, TapProof!TruthfulStays, SinkAssumption, TapAssumption, ReportsAreNat
  <2> QED BY <1>1, <2>2 DEF PacketTrue
<1>2. TapProof!Used(t) \subseteq TapProof!Used(q)
  <2>1. t.next_seq \in Nat /\ q.next_seq \in Nat
    BY TapProof!CountsAreNat, SinkAssumption, TapAssumption, ReportsAreNat
  <2>2. t.next_seq <= q.next_seq
    BY DEF TapProof!Later
  <2> QED BY <2>1, <2>2 DEF TapProof!Used
<1> QED BY <1>1, <1>2 DEF PacketTrue

\* And when the sink does.
LEMMA SinkMovesOn ==
    ASSUME NEW r, NEW q, NEW t, r.arrived \subseteq q.arrived, r.end_acked => q.end_acked,
           NEW pkt, PacketTrue(r, t, pkt)
    PROVE  PacketTrue(q, t, pkt)
BY DEF PacketTrue

\* What a call of the sink puts on the wire.
LEMMA SinkSpeaksTrue ==
    ASSUME NEW q \in SinkProof!RxType, SinkProof!RxInv(q), SinkProof!Told(q),
           NEW t, q.arrived \subseteq TapProof!Used(t), t.next_seq \in Nat,
           NEW pkt \in q.out
    PROVE  PacketTrue(q, t, pkt)
<1>1. pkt \in SinkProof!SinkPackets
  BY DEF SinkProof!RxType
<1>2. CASE pkt \in SinkProof!AckPackets
  <2>1. pkt.type = "Ack"
    BY <1>2 DEF SinkProof!AckPackets
  <2> QED BY <1>2, <2>1 DEF SinkProof!Told, SinkProof!AckTrue, PacketTrue
<1>3. CASE pkt \in SinkProof!NackPackets
  <2>1. pkt.type = "Nack"
    BY <1>3 DEF SinkProof!NackPackets
  <2>2. pkt.missing # {} /\ pkt.missing \subseteq 1 .. q.gaps.highest
    BY <2>1 DEF SinkProof!Told, SinkProof!NackTrue
  <2>3. q.gaps.highest \in 0 .. NumFrames
    BY DEF SinkProof!RxType, SinkProof!GapType
  <2>4. q.gaps.highest \in Nat /\ q.gaps.highest > 0
    BY <2>2, <2>3, SinkAssumption
  <2>5. q.gaps.highest \in TapProof!Used(t)
    BY <2>4 DEF SinkProof!RxInv, SinkProof!AlwaysTrue, SinkProof!TrackerTrue
  <2>6. pkt.missing \subseteq TapProof!Used(t)
    BY <2>2, <2>4, <2>5 DEF TapProof!Used
  <2> QED BY <1>3, <2>6 DEF PacketTrue
<1>4. CASE pkt = SinkProof!EndAckPkt
  <2>1. pkt.type = "EndAck"
    BY <1>4 DEF SinkProof!EndAckPkt
  <2> QED BY <1>4, <2>1 DEF SinkProof!Told, PacketTrue
<1> QED BY <1>1, <1>2, <1>3, <1>4 DEF SinkProof!SinkPackets

-----------------------------------------------------------------------------
(***************************************************************************)
(* One step of one end.                                                    *)
(***************************************************************************)
LEMMA TapStep ==
    ASSUME IndInv, NEW q, TapProof!Moves(tx, q, rx.arrived),
           q.ended => q.next_seq = NumFrames + 1,
           "Completed" \in q.verdicts => rx.end_acked,
           NEW left \in SUBSET net, TapDoes(q, left)
    PROVE  IndInv'
<1> DEFINE z == [q EXCEPT !.out = {}]
<1>1. SinkGood(rx) /\ tx \in TapProof!TxType /\ Agree(rx, tx)
  BY DEF IndInv, Joint, TapGood
<1>2. tx' = z /\ rx' = rx /\ net' \subseteq left \cup q.out
  BY DEF TapDoes, Transmit
<1>3. /\ TapProof!Moves(tx, z, rx.arrived) /\ z.ended = q.ended /\ z.verdicts = q.verdicts
  <2>1. z = [q EXCEPT !.out = {}]
    OBVIOUS
  <2> HIDE DEF z
  <2> QED BY <1>1, <2>1, TapProof!SpentMoves, SinkAssumption, TapAssumption, ReportsAreNat,
             SMTT(30)
<1>4. /\ q \in TapProof!TxType /\ TapProof!Later(tx, q)
      /\ \A pkt \in q.out : TapProof!Truthful(q, pkt)
  BY DEF TapProof!Moves
<1>5. z.ring = q.ring /\ z.next_seq = q.next_seq /\ z.skipped = q.skipped
  BY <1>4 DEF TapProof!TxType
<1> HIDE DEF z
<1>6. /\ z \in TapProof!TxType /\ TapProof!TxInv(z) /\ TapProof!Rely(z, rx.arrived)
      /\ TapProof!Later(tx, z)
  BY <1>3 DEF TapProof!Moves
<1>7. Agree(rx, z)
  <2>1. /\ tx.ring.lost_below \in Nat /\ z.ring.lost_below \in Nat
    BY <1>1, <1>6, TapProof!CountsAreNat, SinkAssumption, TapAssumption, ReportsAreNat
  <2>2. rx.sender_lost_below \in 0 .. NumFrames
    BY <1>1 DEF SinkGood, SinkProof!RxType
  <2>3. rx.sender_lost_below \in Nat
    BY <2>2, SinkAssumption
  <2>4. tx.ring.lost_below <= z.ring.lost_below /\ (tx.ended => z.ended)
    BY <1>6 DEF TapProof!Later
  <2> QED BY <1>1, <1>3, <1>5, <2>1, <2>3, <2>4 DEF Agree
<1>8. ASSUME NEW pkt \in left \cup q.out PROVE PacketTrue(rx, z, pkt)
  <2>1. CASE pkt \in left
    <3>1. PacketTrue(rx, tx, pkt)
      BY <2>1 DEF IndInv, Joint
    <3> QED BY <1>1, <1>6, <3>1, TapMovesOn
  <2>2. CASE pkt \in q.out
    <3>1. pkt \in TapPackets
      BY <1>4, <2>2 DEF TapProof!TxType, TapPackets
    <3>2. TapProof!Truthful(q, pkt)
      BY <1>4, <2>2
    <3>3. TapProof!Truthful(z, pkt)
      BY <1>3, <1>5, <3>2 DEF TapProof!Truthful, TapProof!Used
    <3> QED BY <3>1, <3>3 DEF PacketTrue
  <2> QED BY <1>8, <2>1, <2>2
<1>9. Joint(rx, z, net')
  BY <1>1, <1>2, <1>6, <1>7, <1>8 DEF Joint, TapGood
<1> QED BY <1>2, <1>9 DEF IndInv

\* What a call of the sink may do to what the ends believe of each other.
SinkCall(r, t, q) ==
    /\ SinkGood(q) /\ SinkProof!Told(q)
    /\ SinkProof!Call(r, q)
    /\ r.arrived \subseteq q.arrived
    /\ TapProof!Rely(t, q.arrived)
    /\ Agree(r, t) => Agree(q, t)
    /\ r.end_acked => q.end_acked

\* Such a call, its packets put on the way, keeps the joint invariant.
LEMMA SinkStep ==
    ASSUME IndInv, NEW q, SinkCall(rx, tx, q), NEW left \in SUBSET net, SinkDoes(q, left)
    PROVE  IndInv'
<1> DEFINE z == [q EXCEPT !.out = {}]
<1>1. TapGood(tx, rx.arrived) /\ Agree(rx, tx)
  BY DEF IndInv, Joint
<1>2. rx' = z /\ tx' = tx /\ net' \subseteq left \cup q.out
  BY DEF SinkDoes, Transmit
<1>3. q \in SinkProof!RxType /\ SinkProof!RxInv(q) /\ SinkProof!CountTrue(q)
  BY DEF SinkCall, SinkGood
<1>4. z \in SinkProof!RxType /\ SinkProof!RxInv(z)
  <2>1. q.since_packet \in 0 .. (IdleTimeout + 1)
    BY <1>3 DEF SinkProof!RxType
  <2> QED BY <1>3, <2>1, SinkProof!QuietKeeps, SinkAssumption
          DEF SinkProof!Frames, SinkProof!KeepsFaith
<1>5. /\ z.arrived = q.arrived /\ z.final_seq = q.final_seq /\ z.end_acked = q.end_acked
      /\ z.sender_lost_below = q.sender_lost_below
      /\ z.reorder = q.reorder /\ z.reorder_bytes = q.reorder_bytes
  BY <1>3 DEF SinkProof!RxType
<1> HIDE DEF z
<1>6. SinkGood(z)
  BY <1>3, <1>4, <1>5 DEF SinkGood, SinkProof!CountTrue
<1>7. TapGood(tx, z.arrived)
  BY <1>1, <1>5 DEF SinkCall, TapGood
<1>8. Agree(z, tx)
  BY <1>1, <1>5 DEF SinkCall, Agree
<1>9. ASSUME NEW pkt \in left \cup q.out PROVE PacketTrue(z, tx, pkt)
  <2>1. CASE pkt \in left
    <3>1. PacketTrue(rx, tx, pkt)
      BY <2>1 DEF IndInv, Joint
    <3> QED BY <1>5, <3>1, SinkMovesOn DEF SinkCall
  <2>2. CASE pkt \in q.out
    <3>1. q.arrived \subseteq TapProof!Used(tx)
      BY DEF SinkCall, TapProof!Rely
    <3>2. tx.next_seq \in Nat
      BY <1>1, TapProof!CountsAreNat, SinkAssumption, TapAssumption, ReportsAreNat DEF TapGood
    <3>3. PacketTrue(q, tx, pkt)
      BY <1>3, <2>2, <3>1, <3>2, SinkSpeaksTrue DEF SinkCall
    <3> QED BY <1>5, <3>3 DEF PacketTrue
  <2> QED BY <1>9, <2>1, <2>2
<1>10. Joint(z, tx, net')
  BY <1>2, <1>6, <1>7, <1>8, <1>9 DEF Joint
<1> QED BY <1>2, <1>10 DEF IndInv

-----------------------------------------------------------------------------
(***************************************************************************)
(* The calls of the sink.                                                  *)
(***************************************************************************)
\* A call that no frame is part of and that learns nothing from the tap.
LEMMA QuietSinkCall ==
    ASSUME NEW r, SinkGood(r), NEW t, TapProof!Rely(t, r.arrived), NEW q,
           SinkProof!KeepsFaith(r, q), SinkProof!Call(r, q),
           SinkProof!SameWord(r, q), SinkProof!Heard(r, q)
    PROVE  SinkCall(r, t, q)
<1>1. q \in SinkProof!RxType /\ SinkProof!RxInv(q) /\ q.arrived = r.arrived
  BY DEF SinkProof!KeepsFaith, SinkProof!SameFrames
<1>2. SinkProof!CountTrue(q) /\ SinkProof!Told(q)
  BY DEF SinkProof!Call
<1>3. Agree(r, t) => Agree(q, t)
  BY DEF Agree, SinkProof!SameWord, SinkProof!Heard
<1> QED BY <1>1, <1>2, <1>3 DEF SinkCall, SinkGood, SinkProof!Heard

\* tick, set_buffered_ms and the clock.
LEMMA TimersAreCalls ==
    ASSUME IndInv
    PROVE  /\ SinkCall(rx, tx, R!OnTick(rx))
           /\ \A ms \in BufferReports : SinkCall(rx, tx, R!WithBuffered(rx, ms))
           /\ SinkCall(rx, tx, R!Aged(rx))
<1>1. SinkGood(rx) /\ TapProof!Rely(tx, rx.arrived)
  BY DEF IndInv, Joint, TapGood
<1>2. rx \in SinkProof!RxType /\ SinkProof!RxInv(rx) /\ SinkProof!CountTrue(rx)
  BY <1>1 DEF SinkGood
<1>3. SinkCall(rx, tx, SinkProof!OnTick(rx))
  <2>1. SinkProof!KeepsFaith(rx, SinkProof!OnTick(rx))
    BY <1>2, SinkProof!OnTickKeeps, SinkAssumption DEF SinkProof!Frames
  <2>2. SinkProof!Call(rx, SinkProof!OnTick(rx))
    BY <1>2, SinkProof!OnTickSays, SinkAssumption DEF SinkProof!Frames
  <2>3. /\ SinkProof!SameWord(rx, SinkProof!OnTick(rx))
        /\ SinkProof!Heard(rx, SinkProof!OnTick(rx))
    BY <1>2, SinkProof!TimersHearNothing, SinkAssumption DEF SinkProof!Frames
  <2> QED BY <1>1, <2>1, <2>2, <2>3, QuietSinkCall
<1>4. ASSUME NEW ms \in BufferReports
      PROVE  SinkCall(rx, tx, SinkProof!WithBuffered(rx, ms))
  <2>1. SinkProof!KeepsFaith(rx, SinkProof!WithBuffered(rx, ms))
    BY <1>2, SinkProof!WithBufferedKeeps, SinkAssumption DEF SinkProof!Frames
  <2>2. SinkProof!Call(rx, SinkProof!WithBuffered(rx, ms))
    BY <1>2, SinkProof!QuietCalls, SinkAssumption DEF SinkProof!Frames
  <2>3. /\ SinkProof!SameWord(rx, SinkProof!WithBuffered(rx, ms))
        /\ SinkProof!Heard(rx, SinkProof!WithBuffered(rx, ms))
    BY <1>2, SinkProof!TimersHearNothing, SinkAssumption DEF SinkProof!Frames
  <2> QED BY <1>1, <2>1, <2>2, <2>3, QuietSinkCall
<1>5. SinkCall(rx, tx, SinkProof!Aged(rx))
  <2>1. SinkProof!KeepsFaith(rx, SinkProof!Aged(rx))
    BY <1>2, SinkProof!AgedKeeps, SinkAssumption DEF SinkProof!Frames
  <2>2. SinkProof!Call(rx, SinkProof!Aged(rx))
    BY <1>2, SinkProof!AgedSays, SinkAssumption DEF SinkProof!Frames
  <2>3. /\ SinkProof!SameWord(rx, SinkProof!Aged(rx))
        /\ SinkProof!Heard(rx, SinkProof!Aged(rx))
    BY <1>2, SinkProof!TimersHearNothing, SinkAssumption DEF SinkProof!Frames
  <2> QED BY <1>1, <2>1, <2>2, <2>3, QuietSinkCall
<1> QED BY <1>3, <1>4, <1>5, SameOnTick, SameQuiet

\* handle, of a packet that is true of the tap: one step per arm.
LEMMA HandleIsCall ==
    ASSUME IndInv, NEW pkt \in ToSink
    PROVE  SinkCall(rx, tx, R!Handle(rx, pkt))
<1> DEFINE q == SinkProof!Handle(rx, pkt)
           s == pkt.seq
<1>1. /\ rx \in SinkProof!RxType /\ SinkProof!RxInv(rx) /\ SinkProof!CountTrue(rx)
      /\ tx \in TapProof!TxType /\ TapProof!Rely(tx, rx.arrived)
      /\ SinkGood(rx)
  BY DEF IndInv, Joint, TapGood, SinkGood
<1>2. pkt \in TapPackets /\ TapProof!Truthful(tx, pkt)
  <2>1. PacketTrue(rx, tx, pkt) /\ pkt.type \in {"Data", "End", "Keepalive"}
    BY DEF IndInv, Joint, ToSink
  <2>2. /\ pkt \notin SinkProof!AckPackets /\ pkt \notin SinkProof!NackPackets
        /\ pkt # SinkProof!EndAckPkt
    BY <2>1 DEF SinkProof!AckPackets, SinkProof!NackPackets, SinkProof!EndAckPkt
  <2> QED BY <2>1, <2>2 DEF PacketTrue
<1>3. pkt = [type |-> pkt.type, seq |-> s] /\ s \in 0 .. NumFrames
  BY <1>2 DEF TapPackets
<1>4. tx.next_seq \in 1 .. (NumFrames + 1) /\ NumFrames \in Nat
  BY <1>1, SinkAssumption DEF TapProof!TxType
<1>5. CASE pkt.type = "Data"
  <2>1. s \in TapProof!Used(tx) \ tx.skipped
    BY <1>2, <1>5 DEF TapProof!Truthful
  <2>2. s \in SinkProof!Frames
    BY <1>4, <2>1 DEF TapProof!Used, SinkProof!Frames
  <2>3. q = SinkProof!Handle(rx, [type |-> "Data", seq |-> s])
    BY <1>3, <1>5
  <2> HIDE DEF q, s
  <2>4. SinkProof!Lands(rx, q, s)
    BY <1>1, <2>2, <2>3, SinkProof!HandleDataLands, SinkAssumption DEF SinkProof!Frames
  <2>5. SinkProof!Call(rx, q)
    BY <1>1, <2>2, <2>3, SinkProof!HandleCalls, SinkAssumption DEF SinkProof!Frames
  <2>6. SinkProof!SameWord(rx, q) /\ SinkProof!Heard(rx, q)
    BY <1>1, <2>2, <2>3, SinkProof!HandleHears, SinkAssumption DEF SinkProof!Frames
  <2>7. /\ q \in SinkProof!RxType /\ SinkProof!RxInv(q) /\ q.arrived = rx.arrived \cup {s}
    BY <2>4 DEF SinkProof!Lands
  <2>8. TapProof!Rely(tx, q.arrived)
    BY <1>1, <2>1, <2>7, TapProof!LandingRelies, SinkAssumption, TapAssumption, ReportsAreNat
  <2>9. Agree(rx, tx) => Agree(q, tx)
    BY <2>6 DEF Agree, SinkProof!SameWord, SinkProof!Heard
  <2>10. SinkProof!CountTrue(q) /\ SinkProof!Told(q)
    BY <2>5 DEF SinkProof!Call
  <2>11. SinkCall(rx, tx, q)
    BY <2>5, <2>6, <2>7, <2>8, <2>9, <2>10 DEF SinkCall, SinkGood, SinkProof!Heard
  <2> QED BY <2>11, SameHandle DEF q
<1>6. CASE pkt.type = "End"
  <2>1. tx.ended /\ s = NumFrames
    BY <1>2, <1>4, <1>6 DEF TapProof!Truthful, IndInv, Joint, Agree
  <2>2. q = SinkProof!Handle(rx, [type |-> "End", seq |-> NumFrames])
    BY <1>3, <1>6, <2>1
  <2>3. NumFrames \in 0 .. NumFrames
    BY <1>4
  <2> HIDE DEF q, s
  <2>4. SinkProof!KeepsFaith(rx, q)
    BY <1>1, <2>2, <2>3, SinkProof!HandleControlKeeps, SinkAssumption DEF SinkProof!Frames
  <2>5. SinkProof!Call(rx, q)
    BY <1>1, <2>2, SinkProof!HandleCalls, SinkAssumption DEF SinkProof!Frames
  <2>6. /\ q.final_seq = NumFrames /\ q.sender_lost_below = rx.sender_lost_below
        /\ SinkProof!Heard(rx, q)
    BY <1>1, <2>2, SinkProof!HandleHears, SinkAssumption DEF SinkProof!Frames
  <2>7. q \in SinkProof!RxType /\ SinkProof!RxInv(q) /\ q.arrived = rx.arrived
    BY <2>4 DEF SinkProof!KeepsFaith, SinkProof!SameFrames
  <2>8. Agree(rx, tx) => Agree(q, tx)
    <3>1. NumFrames # SinkProof!NoEnd
      BY <1>4 DEF SinkProof!NoEnd
    <3> QED BY <2>1, <2>6, <3>1 DEF Agree, SinkProof!Heard
  <2>9. SinkProof!CountTrue(q) /\ SinkProof!Told(q)
    BY <2>5 DEF SinkProof!Call
  <2>10. SinkCall(rx, tx, q)
    BY <1>1, <2>5, <2>6, <2>7, <2>8, <2>9 DEF SinkCall, SinkGood, SinkProof!Heard
  <2> QED BY <2>10, SameHandle DEF q
<1>7. CASE pkt.type = "Keepalive"
  <2>1. s <= tx.ring.lost_below
    BY <1>2, <1>7 DEF TapProof!Truthful
  <2>2. q = SinkProof!Handle(rx, [type |-> "Keepalive", seq |-> s])
    BY <1>3, <1>7
  <2> HIDE DEF q, s
  <2>4. SinkProof!KeepsFaith(rx, q)
    BY <1>1, <1>3, <2>2, SinkProof!HandleControlKeeps, SinkAssumption DEF SinkProof!Frames
  <2>5. SinkProof!Call(rx, q)
    BY <1>1, <1>3, <2>2, SinkProof!HandleCalls, SinkAssumption DEF SinkProof!Frames
  <2>6. /\ q.final_seq = rx.final_seq
        /\ q.sender_lost_below \in {rx.sender_lost_below, s}
        /\ SinkProof!Heard(rx, q)
    BY <1>1, <1>3, <2>2, SinkProof!HandleHears, SinkAssumption DEF SinkProof!Frames
  <2>7. q \in SinkProof!RxType /\ SinkProof!RxInv(q) /\ q.arrived = rx.arrived
    BY <2>4 DEF SinkProof!KeepsFaith, SinkProof!SameFrames
  <2>8. Agree(rx, tx) => Agree(q, tx)
    BY <2>1, <2>6 DEF Agree, SinkProof!Heard
  <2>9. SinkProof!CountTrue(q) /\ SinkProof!Told(q)
    BY <2>5 DEF SinkProof!Call
  <2>10. SinkCall(rx, tx, q)
    BY <1>1, <2>5, <2>6, <2>7, <2>8, <2>9 DEF SinkCall, SinkGood, SinkProof!Heard
  <2> QED BY <2>10, SameHandle DEF q
<1> QED BY <1>5, <1>6, <1>7 DEF ToSink

-----------------------------------------------------------------------------
(***************************************************************************)
(* The calls of the tap.                                                   *)
(***************************************************************************)
\* handle, of a packet that is true of the sink: one step per arm.
LEMMA HandleMoves ==
    ASSUME IndInv, NEW pkt \in ToTap
    PROVE  LET m == S!SenderHandle(tx, pkt)
           IN  /\ TapProof!Moves(tx, m, rx.arrived) /\ m.ended = tx.ended
               /\ "Completed" \in m.verdicts => rx.end_acked
<1> DEFINE m == TapProof!SenderHandle(tx, pkt)
           A == rx.arrived
<1>1. /\ tx \in TapProof!TxType /\ TapProof!TxInv(tx) /\ TapProof!Rely(tx, A)
      /\ Agree(rx, tx)
  BY DEF IndInv, Joint, TapGood
<1>2. PacketTrue(rx, tx, pkt) /\ pkt.type \in {"Ack", "Nack", "EndAck"}
  BY DEF IndInv, Joint, ToTap
<1>3. pkt \notin TapPackets
  BY <1>2 DEF TapPackets
<1>4. CASE pkt.type = "Ack"
  <2>1. pkt \notin SinkProof!NackPackets /\ pkt # SinkProof!EndAckPkt
    BY <1>4 DEF SinkProof!NackPackets, SinkProof!EndAckPkt
  <2>2. /\ pkt \in SinkProof!AckPackets /\ 1 .. pkt.contiguous \subseteq A
        /\ pkt.highest \in A
    BY <1>2, <1>3, <2>1 DEF PacketTrue
  <2>3. pkt.contiguous \in Nat /\ pkt.buffered_ms \in 0 .. U16Max
    BY <2>2, SinkAssumption DEF SinkProof!AckPackets
  <2>4. m = TapProof!OnAck(tx, pkt)
    BY <1>4 DEF TapProof!SenderHandle
  <2> HIDE DEF m, A
  <2>5. /\ TapProof!Moves(tx, m, A) /\ m.ended = tx.ended /\ m.verdicts = tx.verdicts
    <3>2. /\ TapProof!Moves(tx, TapProof!OnAck(tx, pkt), A)
          /\ TapProof!OnAck(tx, pkt).ended = tx.ended
          /\ TapProof!OnAck(tx, pkt).verdicts = tx.verdicts
      BY <1>1, <2>2, <2>3, TapProof!OnAckMoves, SinkAssumption, TapAssumption, ReportsAreNat
    <3> QED BY <2>4, <3>2
  <2> QED BY <1>1, <2>5, SameSenderHandle DEF Agree, m, A
<1>5. CASE pkt.type = "Nack"
  <2>1. m = TapProof!OnNack(tx, pkt)
    BY <1>5 DEF TapProof!SenderHandle
  <2> HIDE DEF m, A
  <2>2. /\ TapProof!Moves(tx, m, A) /\ m.ended = tx.ended /\ m.verdicts = tx.verdicts
    BY <1>1, <2>1, TapProof!OnNackMoves, SinkAssumption, TapAssumption, ReportsAreNat
  <2> QED BY <1>1, <2>2, SameSenderHandle DEF Agree, m, A
<1>6. CASE pkt.type = "EndAck"
  <2>1. pkt \notin SinkProof!AckPackets /\ pkt \notin SinkProof!NackPackets
    BY <1>6 DEF SinkProof!AckPackets, SinkProof!NackPackets
  <2>2. rx.end_acked
    BY <1>2, <1>3, <2>1 DEF PacketTrue
  <2>3. m = TapProof!OnEndAck(tx)
    BY <1>6 DEF TapProof!SenderHandle
  <2> HIDE DEF m, A
  <2>4. TapProof!Moves(tx, m, A) /\ m.ended = tx.ended
    BY <1>1, <2>3, TapProof!OnEndAckMoves, SinkAssumption, TapAssumption, ReportsAreNat
  <2> QED BY <2>2, <2>4, SameSenderHandle DEF m, A
<1> QED BY <1>2, <1>4, <1>5, <1>6

\* The tick that ends a turn of pump_once.
LEMMA TickedMoves ==
    ASSUME IndInv, NEW m, TapProof!Moves(tx, m, rx.arrived), m.ended = tx.ended,
           "Completed" \in m.verdicts => rx.end_acked
    PROVE  /\ TapProof!Moves(tx, Ticked(m), rx.arrived)
           /\ Ticked(m).ended = tx.ended
           /\ "Completed" \in Ticked(m).verdicts => rx.end_acked
<1>1. tx \in TapProof!TxType /\ TapProof!TxInv(tx)
  BY DEF IndInv, Joint, TapGood
<1>2. Ticked(m) = TapProof!TickAfter(m)
  BY SameSenderTick DEF Ticked, TapProof!TickAfter
<1>3. LET z == TapProof!TickAfter(m)
      IN  /\ TapProof!Moves(tx, z, rx.arrived) /\ z.ended = m.ended
          /\ z.verdicts \subseteq m.verdicts \cup TapProof!Failures
  BY <1>1, TapProof!TickAfterMoves, SinkAssumption, TapAssumption, ReportsAreNat
<1>4. "Completed" \notin TapProof!Failures
  BY DEF TapProof!Failures
<1> QED BY <1>2, <1>3, <1>4

\* The end is announced when every number has been used, and stays so.
LEMMA EndStays ==
    ASSUME IndInv, NEW q, TapProof!Moves(tx, q, rx.arrived), q.ended = tx.ended
    PROVE  q.ended => q.next_seq = NumFrames + 1
BY DEF IndInv, Joint, Agree, TapProof!Moves, TapProof!Later

\* Time passes for both.
LEMMA ElapseStep == ASSUME IndInv, Elapse PROVE IndInv'
<1> DEFINE q == R!Aged(rx)
           z == S!SenderAged(tx)
<1>1. rx' = q /\ tx' = z /\ net' = net
  BY DEF Elapse
<1>2. SinkCall(rx, tx, q)
  BY TimersAreCalls
<1>3. /\ tx \in TapProof!TxType /\ TapProof!TxInv(tx) /\ TapProof!Rely(tx, q.arrived)
      /\ Agree(q, tx) /\ SinkGood(q)
  BY <1>2 DEF IndInv, Joint, TapGood, SinkCall
<1> HIDE DEF q
<1>4. /\ TapProof!Moves(tx, z, q.arrived) /\ z.ended = tx.ended /\ z.verdicts = tx.verdicts
  BY <1>3, SameSenderAged, TapProof!SenderAgedMoves, SinkAssumption, TapAssumption, ReportsAreNat
<1> HIDE DEF z
<1>5. /\ z \in TapProof!TxType /\ TapProof!TxInv(z) /\ TapProof!Rely(z, q.arrived)
      /\ TapProof!Later(tx, z)
  BY <1>4 DEF TapProof!Moves
<1>6. Agree(q, z)
  <2>1. /\ tx.ring.lost_below \in Nat /\ z.ring.lost_below \in Nat
    BY <1>3, <1>5, TapProof!CountsAreNat, SinkAssumption, TapAssumption, ReportsAreNat
  <2>2. q.sender_lost_below \in 0 .. NumFrames
    BY <1>3 DEF SinkGood, SinkProof!RxType
  <2>3. q.sender_lost_below \in Nat
    BY <2>2, SinkAssumption
  <2>4. /\ tx.ring.lost_below <= z.ring.lost_below
        /\ tx.ended => z.next_seq = tx.next_seq
    BY <1>5 DEF TapProof!Later
  <2> QED BY <1>3, <1>4, <2>1, <2>3, <2>4 DEF Agree
<1>7. ASSUME NEW pkt \in net PROVE PacketTrue(q, z, pkt)
  <2>1. PacketTrue(rx, tx, pkt)
    BY <1>7 DEF IndInv, Joint
  <2>2. PacketTrue(q, tx, pkt)
    BY <1>2, <2>1, SinkMovesOn DEF SinkCall
  <2> QED BY <1>3, <1>5, <2>2, TapMovesOn
<1>8. Joint(q, z, net)
  BY <1>3, <1>5, <1>6, <1>7 DEF Joint, TapGood
<1> QED BY <1>1, <1>8 DEF IndInv

-----------------------------------------------------------------------------
(***************************************************************************)
(* The specification: one step per action.                                 *)
(***************************************************************************)
LEMMA StepIsTrue == ASSUME IndInv, Next PROVE IndInv'
<1>1. /\ tx \in TapProof!TxType /\ TapProof!TxInv(tx)
      /\ TapProof!Rely(tx, rx.arrived)
      /\ Agree(rx, tx)
  BY DEF IndInv, Joint, TapGood
<1>2. tx.next_seq \in 1 .. (NumFrames + 1) /\ NumFrames \in Nat
  BY <1>1, SinkAssumption DEF TapProof!TxType
<1>3. net \in SUBSET net /\ \A pkt : AfterDelivery(pkt) \subseteq SUBSET net
  BY DEF AfterDelivery
<1>4. CASE TapPushFrame
  <2> DEFINE q == S!Pushed(tx)
  <2>1. TapProof!CanSend(tx) /\ tx.next_seq <= NumFrames /\ TapDoes(q, net)
    BY <1>4, SamePush DEF TapPushFrame, MoreFrames
  <2>2. /\ TapProof!Moves(tx, q, rx.arrived) /\ q.ended = tx.ended
        /\ q.verdicts = tx.verdicts
    BY <1>1, <2>1, SamePush, TapProof!PushedMoves, SinkAssumption, TapAssumption, ReportsAreNat
  <2> HIDE DEF q
  <2>3. q.ended => q.next_seq = NumFrames + 1
    BY <2>2, EndStays
  <2>4. "Completed" \in q.verdicts => rx.end_acked
    BY <1>1, <2>2 DEF Agree
  <2> QED BY <1>3, <2>1, <2>2, <2>3, <2>4, TapStep
<1>5. CASE TapPushFails
  <2> DEFINE q == S!PushFailed(tx)
  <2>1. TapProof!CanSend(tx) /\ tx.next_seq <= NumFrames /\ TapDoes(q, net)
    BY <1>5, SamePush DEF TapPushFails, MoreFrames
  <2>2. /\ TapProof!Moves(tx, q, rx.arrived) /\ q.ended = tx.ended
        /\ q.verdicts = tx.verdicts
    BY <1>1, <2>1, SamePush, TapProof!PushFailedMoves, SinkAssumption, TapAssumption, ReportsAreNat
  <2> HIDE DEF q
  <2>3. q.ended => q.next_seq = NumFrames + 1
    BY <2>2, EndStays
  <2>4. "Completed" \in q.verdicts => rx.end_acked
    BY <1>1, <2>2 DEF Agree
  <2> QED BY <1>3, <2>1, <2>2, <2>3, <2>4, TapStep
<1>6. CASE TapFinish
  <2> DEFINE q == S!Finished(tx)
  <2>1. ~(tx.next_seq <= NumFrames) /\ tx.state = "Streaming" /\ TapDoes(q, net)
    BY <1>6 DEF TapFinish, MoreFrames
  <2>2. TapProof!Moves(tx, q, rx.arrived) /\ q.verdicts = tx.verdicts
    BY <1>1, <2>1, SamePush, TapProof!FinishedMoves, SinkAssumption, TapAssumption, ReportsAreNat
  <2>3. q.next_seq = tx.next_seq
    BY <1>1 DEF S!Finished, TapProof!TxType
  <2> HIDE DEF q
  <2>4. q.next_seq = NumFrames + 1
    BY <1>2, <2>1, <2>3
  <2>5. "Completed" \in q.verdicts => rx.end_acked
    BY <1>1, <2>2 DEF Agree
  <2> QED BY <1>3, <2>1, <2>2, <2>4, <2>5, TapStep
<1>7. CASE PumpIdle
  <2> DEFINE m == [tx EXCEPT !.out = {}]
             q == Ticked(m)
  <2>1. TapDoes(q, net)
    BY <1>7 DEF PumpIdle
  <2>2. m = [tx EXCEPT !.out = {}]
    OBVIOUS
  <2> HIDE DEF m
  <2>3. /\ TapProof!Moves(tx, m, rx.arrived) /\ m.ended = tx.ended
        /\ m.verdicts = tx.verdicts
    BY <1>1, <2>2, TapProof!IdleMoves, SinkAssumption, TapAssumption, ReportsAreNat
  <2>4. "Completed" \in m.verdicts => rx.end_acked
    BY <1>1, <2>3 DEF Agree
  <2>5. /\ TapProof!Moves(tx, q, rx.arrived) /\ q.ended = tx.ended
        /\ "Completed" \in q.verdicts => rx.end_acked
    BY <2>3, <2>4, TickedMoves
  <2> HIDE DEF q
  <2>6. q.ended => q.next_seq = NumFrames + 1
    BY <2>5, EndStays
  <2> QED BY <1>3, <2>1, <2>5, <2>6, TapStep
<1>8. CASE PumpReceive
  <2>1. PICK pkt \in ToTap : \E left \in AfterDelivery(pkt) :
           TapDoes(Ticked(S!SenderHandle(tx, pkt)), left)
    BY <1>8 DEF PumpReceive
  <2>2. PICK left \in AfterDelivery(pkt) : TapDoes(Ticked(S!SenderHandle(tx, pkt)), left)
    BY <2>1
  <2> DEFINE m == S!SenderHandle(tx, pkt)
             q == Ticked(m)
  <2>3. /\ TapProof!Moves(tx, m, rx.arrived) /\ m.ended = tx.ended
        /\ "Completed" \in m.verdicts => rx.end_acked
    BY HandleMoves
  <2> HIDE DEF m
  <2>4. /\ TapProof!Moves(tx, q, rx.arrived) /\ q.ended = tx.ended
        /\ "Completed" \in q.verdicts => rx.end_acked
    BY <2>3, TickedMoves
  <2>5. TapDoes(q, left)
    BY <2>2 DEF m
  <2> HIDE DEF q
  <2>6. q.ended => q.next_seq = NumFrames + 1
    BY <2>4, EndStays
  <2>7. left \in SUBSET net
    BY <1>3
  <2> QED BY <2>4, <2>5, <2>6, <2>7, TapStep
<1>9. CASE PumpFails
  <2>1. PICK pkt \in ToTap : \E left \in AfterDelivery(pkt) :
           TapDoes(S!SenderHandle(tx, pkt), left)
    BY <1>9 DEF PumpFails
  <2>2. PICK left \in AfterDelivery(pkt) : TapDoes(S!SenderHandle(tx, pkt), left)
    BY <2>1
  <2> DEFINE m == S!SenderHandle(tx, pkt)
  <2>3. /\ TapProof!Moves(tx, m, rx.arrived) /\ m.ended = tx.ended
        /\ "Completed" \in m.verdicts => rx.end_acked
    BY HandleMoves
  <2>4. TapDoes(m, left)
    BY <2>2
  <2> HIDE DEF m
  <2>5. m.ended => m.next_seq = NumFrames + 1
    BY <2>3, EndStays
  <2>6. left \in SUBSET net
    BY <1>3
  <2> QED BY <2>3, <2>4, <2>5, <2>6, TapStep
<1>10. CASE SinkReceive
  <2>1. PICK pkt \in ToSink : \E left \in AfterDelivery(pkt) :
           SinkDoes(R!Handle(rx, pkt), left)
    BY <1>10 DEF SinkReceive
  <2>2. PICK left \in AfterDelivery(pkt) : SinkDoes(R!Handle(rx, pkt), left)
    BY <2>1
  <2>3. SinkCall(rx, tx, R!Handle(rx, pkt))
    BY HandleIsCall
  <2>4. left \in SUBSET net
    BY <1>3
  <2> QED BY <2>2, <2>3, <2>4, SinkStep
<1>11. CASE SinkTick
  BY <1>3, <1>11, TimersAreCalls, SinkStep DEF SinkTick
<1>12. CASE SinkSetBuffered
  BY <1>3, <1>12, TimersAreCalls, SinkStep DEF SinkSetBuffered
<1>13. CASE Elapse
  BY <1>13, ElapseStep
<1> QED BY <1>4, <1>5, <1>6, <1>7, <1>8, <1>9, <1>10, <1>11, <1>12, <1>13 DEF Next, TapPump

\* A transfer that has not begun.
LEMMA StartIsTrue == Init => IndInv
<1> SUFFICES ASSUME Init PROVE IndInv
  OBVIOUS
<1>1. rx = SinkProof!XferReceiverNew /\ tx = TapProof!XferSenderNew /\ net = {}
  BY SameQuiet, SamePush DEF Init, R!Init, S!Init
<1>2. SinkGood(rx)
  <2>1. SinkProof!Init
    BY <1>1 DEF SinkProof!Init
  <2>2. SinkProof!TypeOK /\ SinkProof!IndInv
    BY <2>1, SinkProof!NewIsGood, SinkAssumption DEF SinkProof!Frames
  <2>3. SinkProof!CallInv
    BY <2>1, SinkProof!NewIsQuiet, SinkAssumption DEF SinkProof!Frames
  <2> QED BY <2>2, <2>3 DEF SinkProof!TypeOK, SinkProof!IndInv, SinkProof!CallInv, SinkGood
<1>3. /\ rx.arrived = {} /\ rx.final_seq = SinkProof!NoEnd /\ ~rx.end_acked
      /\ rx.sender_lost_below = 0
  BY <1>1 DEF SinkProof!XferReceiverNew
<1>4. ~tx.ended /\ tx.verdicts = {} /\ tx.ring.lost_below = 0
  BY <1>1 DEF TapProof!XferSenderNew, TapProof!RingNew
<1>5. TapGood(tx, rx.arrived)
  <2>1. tx \in TapProof!TxType /\ TapProof!TxInv(tx)
    BY <1>1, TapProof!NewIsGood, SinkAssumption, TapAssumption, ReportsAreNat
  <2>2. TapProof!Rely(tx, {})
    BY <1>1, TapProof!NewRelies, SinkAssumption, TapAssumption, ReportsAreNat
  <2> QED BY <1>3, <2>1, <2>2 DEF TapGood
<1>6. Agree(rx, tx)
  BY <1>3, <1>4 DEF Agree
<1> QED BY <1>1, <1>2, <1>5, <1>6 DEF IndInv, Joint

\* Whatever the network does, both ends keep their own invariant, believe only
\* what is true of each other, and every datagram in flight, however old, is
\* still true of the end that sent it.
THEOREM TransferCorrect == Spec => []IndInv
<1>1. Init => IndInv
  BY StartIsTrue
<1>2. IndInv /\ [Next]_vars => IndInv'
  <2> SUFFICES ASSUME IndInv, [Next]_vars PROVE IndInv'
    OBVIOUS
  <2>1. CASE Next
    BY <2>1, StepIsTrue
  <2>2. CASE UNCHANGED vars
    BY <2>2 DEF vars, IndInv
  <2> QED BY <2>1, <2>2
<1> QED BY <1>1, <1>2, PTL DEF Spec

\* What is in flight towards the tap is true: an acknowledgement, however late,
\* claims nothing that has not landed (maybe_ack), a NACK asks only for numbers
\* the tap has used (emit_nacks), and EndAck answers an End (check_finish).
THEOREM TheSinkIsHonest == Spec => []SinkIsHonest
<1>1. IndInv => SinkIsHonest
  <2> SUFFICES ASSUME IndInv, NEW pkt \in ToTap
               PROVE  CASE pkt.type = "Ack"    -> /\ 1 .. pkt.contiguous \subseteq rx.arrived
                                                  /\ pkt.highest \in rx.arrived
                        [] pkt.type = "Nack"   -> pkt.missing \subseteq 1 .. (tx.next_seq - 1)
                        [] pkt.type = "EndAck" -> tx.ended /\ rx.arrived = 1 .. NumFrames
    BY DEF SinkIsHonest
  <2>1. PacketTrue(rx, tx, pkt) /\ pkt.type \in {"Ack", "Nack", "EndAck"}
    BY DEF IndInv, Joint, ToTap
  <2>2. pkt \notin TapPackets
    BY <2>1 DEF TapPackets
  <2>3. /\ pkt \in SinkProof!AckPackets => pkt.type = "Ack"
        /\ pkt \in SinkProof!NackPackets => pkt.type = "Nack"
        /\ pkt = SinkProof!EndAckPkt => pkt.type = "EndAck"
    BY DEF SinkProof!AckPackets, SinkProof!NackPackets, SinkProof!EndAckPkt
  <2>4. CASE pkt.type = "Ack"
    BY <2>1, <2>2, <2>3, <2>4 DEF PacketTrue
  <2>5. CASE pkt.type = "Nack"
    BY <2>1, <2>2, <2>3, <2>5 DEF PacketTrue, TapProof!Used
  <2>6. CASE pkt.type = "EndAck"
    <3>1. rx.end_acked
      BY <2>1, <2>2, <2>3, <2>6 DEF PacketTrue
    <3>2. tx.ended /\ rx.arrived = SinkProof!Frames
      BY <3>1 DEF IndInv, Joint, Agree, SinkGood, SinkProof!RxInv, SinkProof!AlwaysTrue
    <3> QED BY <2>6, <3>2 DEF SinkProof!Frames
  <2> QED BY <2>1, <2>4, <2>5, <2>6
<1> QED BY <1>1, TransferCorrect, PTL

\* `Completed` is the truth: every frame landed, none was skipped, and the sink
\* has closed with an outcome (the EndAck arm of handle).
THEOREM CompletedIsDelivered == Spec => []CompletedMeansDelivered
<1>1. IndInv => CompletedMeansDelivered
  <2> SUFFICES ASSUME IndInv, "Completed" \in tx.verdicts
               PROVE  /\ rx.arrived = 1 .. NumFrames /\ tx.skipped = {}
                      /\ rx.closed /\ rx.outcome # "none"
    BY DEF CompletedMeansDelivered
  <2>1. rx.end_acked /\ rx \in SinkProof!RxType /\ SinkProof!AlwaysTrue(rx)
    BY DEF IndInv, Joint, Agree, SinkGood, SinkProof!RxInv
  <2>2. rx.arrived = 1 .. NumFrames /\ rx.closed
    BY <2>1 DEF SinkProof!AlwaysTrue, SinkProof!Frames
  <2>3. rx.outcome # "none"
    BY <2>1, <2>2 DEF SinkProof!AlwaysTrue, SinkProof!RxType, SinkProof!NoOutcome
  <2>4. tx.skipped \subseteq 1 .. NumFrames /\ tx.skipped \cap rx.arrived = {}
    BY DEF IndInv, Joint, TapGood, TapProof!TxType, TapProof!Rely
  <2> QED BY <2>2, <2>3, <2>4
<1> QED BY <1>1, TransferCorrect, PTL

\* No frame is given up by agreement before it landed (ack_through against
\* maybe_ack), for any ring budget.
THEOREM DroppedHasLanded == Spec => []DroppedOnlyOnceLanded
<1>1. IndInv => DroppedOnlyOnceLanded
  BY DEF IndInv, Joint, TapGood, TapProof!Rely, TapProof!Covered, TapProof!Used,
         DroppedOnlyOnceLanded
<1> QED BY <1>1, TransferCorrect, PTL

\* The tap is never further ahead of what has landed than max_outstanding
\* (can_send against maybe_ack), whatever happens to the acknowledgements.
THEOREM TheTapIsPaced == Spec => []PacedByArrivals
<1>1. IndInv => PacedByArrivals
  BY DEF IndInv, Joint, TapGood, TapProof!Rely, TapProof!Paced, TapProof!Used,
         PacedByArrivals
<1> QED BY <1>1, TransferCorrect, PTL

\* A call of the sink blames the tap only for a frame that is really gone.
LEMMA BlameIsTrue ==
    ASSUME IndInv, NEW q, SinkCall(rx, tx, q), rx.outcome = "none",
           q.outcome = "SenderDiscarded"
    PROVE  (tx.overflowed \cup tx.skipped) \ rx.arrived # {}
<1>1. rx.rel_state = "Streaming"
  BY DEF IndInv, Joint, SinkGood, SinkProof!RxInv, SinkProof!AlwaysTrue, SinkProof!RxType,
         SinkProof!NoOutcome
<1>2. PICK s \in SinkProof!Frames \ rx.arrived : s <= q.sender_lost_below
  BY <1>1 DEF SinkCall, SinkProof!Call, SinkProof!Justified
<1>3. q.sender_lost_below <= tx.ring.lost_below
  BY DEF SinkCall, IndInv, Joint, Agree
<1>4. /\ tx \in TapProof!TxType /\ TapProof!TxInv(tx) /\ TapProof!Covered(tx, rx.arrived)
  BY DEF IndInv, Joint, TapGood, TapProof!Rely
<1>5. /\ q.sender_lost_below \in 0 .. NumFrames /\ s \in 1 .. NumFrames /\ NumFrames \in Nat
  BY SinkAssumption DEF SinkCall, SinkGood, SinkProof!RxType, SinkProof!Frames
<1>6. tx.ring.lost_below \in Nat /\ tx.next_seq \in Nat
  BY <1>4, TapProof!CountsAreNat, SinkAssumption, TapAssumption, ReportsAreNat
<1>7. /\ tx.ring.lost_below < tx.next_seq
      /\ tx.ring.entries = ((tx.ring.lost_below + 1) .. (tx.next_seq - 1)) \ tx.skipped
  BY <1>4 DEF TapProof!TxInv, TapProof!RingTrue
<1>8. s <= tx.ring.lost_below
  BY <1>2, <1>3, <1>5, <1>6
<1>9. s \in TapProof!Used(tx) /\ s \notin tx.ring.entries
  BY <1>5, <1>6, <1>7, <1>8 DEF TapProof!Used
<1> QED BY <1>2, <1>4, <1>9 DEF TapProof!Covered

\* The sink blames the sender only when it is to blame (the Keepalive arm):
\* although lost_below also covers acknowledged frames, `SenderDiscarded` means
\* that a frame the sink still lacks overflowed or never went out.
THEOREM TheBlameIsTrue == Spec => DiscardedIsTrue
<1>1. ASSUME IndInv, [Next]_vars, rx.outcome = "none", rx'.outcome = "SenderDiscarded"
      PROVE  (tx.overflowed \cup tx.skipped) \ rx.arrived # {}
  <2>1. ASSUME NEW q, SinkCall(rx, tx, q), rx' = [q EXCEPT !.out = {}]
        PROVE  (tx.overflowed \cup tx.skipped) \ rx.arrived # {}
    <3>1. rx'.outcome = q.outcome
      BY <2>1 DEF SinkCall, SinkGood, SinkProof!RxType
    <3> QED BY <1>1, <2>1, <3>1, BlameIsTrue
  <2>2. CASE SinkReceive
    BY <1>1, <2>1, <2>2, HandleIsCall DEF SinkReceive, SinkDoes
  <2>3. CASE SinkTick
    BY <1>1, <2>1, <2>3, TimersAreCalls DEF SinkTick, SinkDoes
  <2>4. CASE SinkSetBuffered
    BY <1>1, <2>1, <2>4, TimersAreCalls DEF SinkSetBuffered, SinkDoes
  <2>5. CASE Elapse
    BY <1>1, <2>5, TimersAreCalls, BlameIsTrue DEF Elapse
  <2>6. CASE rx' = rx
    BY <1>1, <2>6
  <2>7. CASE TapPushFrame \/ TapPushFails \/ TapFinish \/ TapPump \/ PumpFails
    BY <2>6, <2>7 DEF TapPushFrame, TapPushFails, TapFinish, TapPump, PumpIdle,
                      PumpReceive, PumpFails, TapDoes
  <2> QED BY <1>1, <2>2, <2>3, <2>4, <2>5, <2>6, <2>7 DEF Next, vars
<1>2. IndInv /\ [Next]_vars =>
        [rx.outcome = "none" /\ rx'.outcome = "SenderDiscarded" =>
           (tx.overflowed \cup tx.skipped) \ rx.arrived # {}]_vars
  BY <1>1
<1> QED BY <1>2, TransferCorrect, PTL DEF Spec, DiscardedIsTrue
==============================================================================
