----------------------------- MODULE PacingProof ----------------------------
(***************************************************************************)
(* The occupancy an Ack carries is right within one report of the player,  *)
(* for every track, every brake and every length of the field.             *)
(***************************************************************************)
EXTENDS Pacing, SequenceTheorems, TLAPS

\* What an Ack on the way looks like.
AckType == [type : {"Ack"}, contiguous : {0}, highest : Nat, buffered_ms : 0 .. U16Max]

\* The tap numbers its frames from one, and Acks on the way are well formed.
NumbersTrue ==
    /\ "next_seq" \in DOMAIN tx /\ tx.next_seq \in Nat \ {0}
    /\ acks \in Seq(AckType)

\* newest_data_ms keeps up with the highest arrival, although late arrivals come
\* after newer ones (apply).
SinkTrue ==
    /\ sink \in [highest : Nat, newest : Nat]
    /\ sink.newest = sink.highest

\* The four places the play head is known at are in order: the last report all of
\* which was seen, what the endpoint sees, the report under way, and where the
\* player is.  This is what either order of the two stores keeps.
ReportsInOrder ==
    /\ feedback \in [playhead : Nat, age : Nat]
    /\ player \in [position : Nat, ms : Nat, todo : SUBSET {"playhead", "date"},
                   began : Nat, reported : Nat]
    /\ player.reported <= feedback.playhead
    /\ feedback.playhead <= player.ms
    /\ player.ms <= player.position

IndInv == NumbersTrue /\ SinkTrue /\ ReportsInOrder

-----------------------------------------------------------------------------
\* push_frame takes the next number, whatever the ring does.
LEMMA PushedNumbers ==
    ASSUME NEW t, "next_seq" \in DOMAIN t, t.next_seq \in Nat \ {0},
           NEW q, q = [S!Pushed(t) EXCEPT !.out = {}]
    PROVE  "next_seq" \in DOMAIN q /\ q.next_seq \in Nat \ {0}
<1> DEFINE ring == S!RingPush(t.ring, t.next_seq)
           over == t.overflowed \cup ((t.ring.entries \cup {t.next_seq}) \ ring.entries)
           pkts == {S!Data(t.next_seq)}
<1>1. S!Pushed(t) = [t EXCEPT !.next_seq = t.next_seq + 1, !.ring = ring, !.out = pkts,
                              !.overflowed = over]
  BY DEF S!Pushed
<1> HIDE DEF ring, over, pkts
<1> QED BY <1>1

\* An Ack changes no number.
LEMMA AckNumbers ==
    ASSUME NEW t, "next_seq" \in DOMAIN t, t.next_seq \in Nat \ {0},
           NEW a \in AckType, NEW q, q = S!SenderHandle(t, a)
    PROVE  "next_seq" \in DOMAIN q /\ q.next_seq \in Nat \ {0}
<1>1. q = S!OnAck(t, a)
  BY DEF S!SenderHandle, AckType
<1> DEFINE ring == S!AckThrough(t.ring, a.contiguous)
           top  == IF a.highest > t.acked_highest THEN a.highest ELSE t.acked_highest
           held == \/ a.buffered_ms >= HighWater
                   \/ t.paused /\ a.buffered_ms > LowWater
           none == {}
<1>2. q = [t EXCEPT !.got_ack = TRUE, !.ring = ring, !.acked_highest = top,
                    !.buffered_ms = a.buffered_ms, !.paused = held, !.out = none]
  BY <1>1 DEF S!OnAck
<1> HIDE DEF ring, top, held, none
<1> QED BY <1>2

\* An occupancy fits its field.
LEMMA OccupancyFits ==
    ASSUME SinkTrue, ReportsInOrder
    PROVE  AckBufferedMs \in 0 .. U16Max
BY PacingAssumption DEF SinkTrue, ReportsInOrder, AckBufferedMs, Clamped, AtMost, AtLeast

\* What is left of the Acks on the way when one is taken or lost.
LEMMA WithoutAck ==
    ASSUME acks \in Seq(AckType), NEW i \in DOMAIN acks
    PROVE  Without(i) \in Seq(AckType)
<1>1. i \in 1 .. Len(acks) /\ Len(acks) \in Nat
  BY LenProperties
<1>2. SubSeq(acks, 1, i - 1) \in Seq(AckType)
  BY <1>1, SubSeqProperties
<1>3. SubSeq(acks, i + 1, Len(acks)) \in Seq(AckType)
  BY <1>1, SubSeqProperties
<1> QED BY <1>2, <1>3, ConcatProperties DEF Without

-----------------------------------------------------------------------------
\* A step that leaves the sink and the reports alone.
LEMMA NumbersStep ==
    ASSUME IndInv, NumbersTrue', UNCHANGED <<sink, feedback, player>>
    PROVE  IndInv'
BY DEF IndInv, SinkTrue, ReportsInOrder

\* A step that leaves the tap and what is on the way alone.
LEMMA ReportsStep ==
    ASSUME IndInv, SinkTrue', ReportsInOrder', UNCHANGED <<tx, acks>>
    PROVE  IndInv'
BY DEF IndInv, NumbersTrue

\* The invariant holds of what is on both sides of every step.
LEMMA StepKeeps ==
    ASSUME IndInv, Next
    PROVE  IndInv'
<1> USE DEF IndInv
<1>1. ASSUME SendFrame PROVE IndInv'
  <2>1. "next_seq" \in DOMAIN tx' /\ tx'.next_seq \in Nat \ {0}
    <3> DEFINE q == [S!Pushed(tx) EXCEPT !.out = {}]
    <3>1. tx' = q
      BY <1>1 DEF SendFrame
    <3> HIDE DEF q
    <3>2. "next_seq" \in DOMAIN q /\ q.next_seq \in Nat \ {0}
      BY PushedNumbers DEF NumbersTrue, q
    <3> QED BY <3>1, <3>2
  <2>2. acks' \in Seq(AckType) /\ UNCHANGED <<sink, feedback, player>>
    BY <1>1 DEF SendFrame, NumbersTrue
  <2> QED BY <2>1, <2>2, NumbersStep DEF NumbersTrue
<1>2. ASSUME FrameLands PROVE IndInv'
  <2>1. PICK s \in 1 .. (tx.next_seq - 1) :
            sink' = [highest |-> AtLeast(sink.highest, s),
                     newest  |-> Newest(sink.newest, s)]
    BY <1>2 DEF FrameLands
  <2>2. s \in Nat
    BY <2>1 DEF NumbersTrue
  <2>3. UNCHANGED <<tx, acks, feedback, player>>
    BY <1>2 DEF FrameLands
  <2>4. SinkTrue'
    BY <2>1, <2>2 DEF SinkTrue, AtLeast, Newest
  <2>5. ReportsInOrder'
    BY <2>3 DEF ReportsInOrder
  <2> QED BY <2>3, <2>4, <2>5, ReportsStep
<1>3. ASSUME Play PROVE IndInv'
  <2>1. PICK p \in (player.position + 1) .. (sink.highest + PlayAhead) :
            player' = [player EXCEPT !.position = p]
    BY <1>3 DEF Play
  <2>2. p \in Nat /\ player.position <= p
    BY <2>1, PacingAssumption DEF ReportsInOrder, SinkTrue
  <2>3. UNCHANGED <<tx, sink, acks, feedback>>
    BY <1>3 DEF Play
  <2>4. ReportsInOrder'
    BY <2>1, <2>2, <2>3 DEF ReportsInOrder
  <2> QED BY <2>3, <2>4, ReportsStep DEF SinkTrue
<1>4. ASSUME SetPlayhead PROVE IndInv'
  <2> DEFINE all == {"playhead", "date"}
             z   == 0
             q   == [player EXCEPT !.ms = player.position, !.todo = all, !.began = z]
  <2>0. all \in SUBSET {"playhead", "date"} /\ z \in Nat /\ player' = q
    BY <1>4 DEF SetPlayhead
  <2> HIDE DEF all, z
  <2>1. /\ q \in [position : Nat, ms : Nat, todo : SUBSET {"playhead", "date"},
                 began : Nat, reported : Nat]
        /\ q.position = player.position /\ q.ms = player.position
        /\ q.reported = player.reported
    BY <2>0 DEF ReportsInOrder
  <2> HIDE DEF q
  <2>2. feedback' = feedback
    BY <1>4 DEF SetPlayhead
  <2>3. ReportsInOrder'
    BY <2>0, <2>1, <2>2 DEF ReportsInOrder
  <2> QED BY <1>4, <2>3, ReportsStep DEF SetPlayhead, SinkTrue
<1>5. ASSUME StoreVisible PROVE IndInv'
  <2>1. PICK store \in player.todo :
          /\ IF store = "playhead"
             THEN feedback' = [feedback EXCEPT !.playhead = player.ms]
             ELSE \E age \in 0 .. player.began : feedback' = [feedback EXCEPT !.age = age]
          /\ player' = [player EXCEPT
                           !.todo     = @ \ {store},
                           !.reported = IF player.todo = {store} THEN feedback'.playhead ELSE @]
    BY <1>5 DEF StoreVisible
  <2>2. /\ feedback' \in [playhead : Nat, age : Nat]
        /\ feedback.playhead <= feedback'.playhead
        /\ feedback'.playhead <= player.ms
    <3>1. CASE store = "playhead"
      BY <2>1, <3>1 DEF ReportsInOrder
    <3>2. CASE store # "playhead"
      BY <2>1, <3>2 DEF ReportsInOrder
    <3> QED BY <3>1, <3>2
  <2> DEFINE rep == IF player.todo = {store} THEN feedback'.playhead ELSE player.reported
             left == player.todo \ {store}
  <2>3. rep \in Nat /\ rep <= feedback'.playhead
    BY <2>2 DEF ReportsInOrder
  <2>4. left \in SUBSET {"playhead", "date"}
    BY DEF ReportsInOrder
  <2>5. player' = [player EXCEPT !.todo = left, !.reported = rep]
    BY <2>1
  <2> HIDE DEF rep, left
  <2>6. UNCHANGED <<tx, sink, acks>>
    BY <1>5 DEF StoreVisible
  <2>7. ReportsInOrder'
    BY <2>2, <2>3, <2>4, <2>5, <2>6 DEF ReportsInOrder
  <2> QED BY <2>6, <2>7, ReportsStep DEF SinkTrue
<1>6. ASSUME SendAck PROVE IndInv'
  <2>1. Ack \in AckType
    BY OccupancyFits DEF Ack, AckType, SinkTrue
  <2>2. Append(acks, Ack) \in Seq(AckType)
    BY <2>1, AppendProperties DEF NumbersTrue
  <2>3. Len(acks) >= AcksInFlight => Append(Tail(acks), Ack) \in Seq(AckType)
    <3> SUFFICES ASSUME Len(acks) >= AcksInFlight
                 PROVE  Append(Tail(acks), Ack) \in Seq(AckType)
      OBVIOUS
    <3>1. acks # <<>>
      BY PacingAssumption, EmptySeq DEF NumbersTrue
    <3>2. Tail(acks) \in Seq(AckType)
      BY <3>1, HeadTailProperties DEF NumbersTrue
    <3> QED BY <2>1, <3>2, AppendProperties
  <2>4. Len(acks) \in Nat
    BY LenProperties DEF NumbersTrue
  <2>5. acks' \in Seq(AckType)
    BY <1>6, <2>2, <2>3, <2>4, PacingAssumption DEF SendAck
  <2> QED BY <1>6, <2>5, NumbersStep DEF SendAck, NumbersTrue
<1>7. ASSUME AckLost PROVE IndInv'
  BY <1>7, WithoutAck, NumbersStep DEF AckLost, NumbersTrue
<1>8. ASSUME NEW i \in DOMAIN acks, TakeAck(i) PROVE IndInv'
  <2>1. acks[i] \in AckType
    BY ElementOfSeq, LenProperties DEF NumbersTrue
  <2>2. "next_seq" \in DOMAIN tx' /\ tx'.next_seq \in Nat \ {0}
    BY <1>8, <2>1, AckNumbers DEF TakeAck, NumbersTrue
  <2>3. acks' \in Seq(AckType)
    BY <1>8, WithoutAck DEF TakeAck, NumbersTrue
  <2>4. UNCHANGED <<sink, feedback, player>>
    BY <1>8 DEF TakeAck
  <2> QED BY <2>2, <2>3, <2>4, NumbersStep DEF NumbersTrue
<1>9. ASSUME Elapse PROVE IndInv'
  <2> DEFINE old == AtMost(feedback.age + 1, ReportTtl + 1)
             due == IF player.todo = {} THEN 0 ELSE AtMost(player.began + 1, ReportTtl + 1)
  <2>1. old \in Nat /\ due \in Nat
    BY PacingAssumption DEF ReportsInOrder, AtMost
  <2>2. feedback' = [feedback EXCEPT !.age = old] /\ player' = [player EXCEPT !.began = due]
    BY <1>9 DEF Elapse
  <2> HIDE DEF old, due
  <2>3. UNCHANGED <<tx, sink, acks>>
    BY <1>9 DEF Elapse
  <2>4. ReportsInOrder'
    BY <2>1, <2>2, <2>3 DEF ReportsInOrder
  <2> QED BY <2>3, <2>4, ReportsStep DEF SinkTrue
<1> QED BY <1>1, <1>2, <1>3, <1>4, <1>5, <1>6, <1>7, <1>8, <1>9 DEF Next

\* Whatever order the stores, the arrivals and the Acks come in, the four play
\* heads stay in order and every Ack on the way fits its field (BufferFeedback,
\* apply).
THEOREM PacingCorrect == Spec => []IndInv
<1>1. Init => IndInv
  <2> SUFFICES ASSUME Init PROVE IndInv
    OBVIOUS
  <2>1. "next_seq" \in DOMAIN tx /\ tx.next_seq \in Nat \ {0}
    BY DEF Init, S!Init, S!XferSenderNew
  <2>2. acks \in Seq(AckType)
    BY DEF Init
  <2>3. SinkTrue /\ ReportsInOrder
    BY DEF Init, SinkTrue, ReportsInOrder
  <2> QED BY <2>1, <2>2, <2>3 DEF IndInv, NumbersTrue
<1>2. IndInv /\ [Next]_vars => IndInv'
  <2>1. CASE UNCHANGED vars
    BY <2>1 DEF vars, IndInv, NumbersTrue, SinkTrue, ReportsInOrder
  <2> QED BY <2>1, StepKeeps
<1> QED BY <1>1, <1>2, PTL DEF Spec

\* While a report counts, the occupancy an Ack would carry is neither below what
\* is really unplayed nor above what was unplayed at the last finished report
\* (set_playhead_ms, ack_buffered_ms).
THEOREM OccupancyIsRight == Spec => []OccupancyWithinOneReport
<1>1. IndInv => OccupancyWithinOneReport
  BY PacingAssumption
     DEF IndInv, SinkTrue, ReportsInOrder, OccupancyWithinOneReport, AckBufferedMs,
         Clamped, AtMost, AtLeast
<1> QED BY <1>1, PacingCorrect, PTL
=============================================================================
