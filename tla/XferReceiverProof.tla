-------------------------- MODULE XferReceiverProof -------------------------
(***************************************************************************)
(* The receiver is correct for every track length, payload sizes, mode,    *)
(* window, ceiling, budget and timeout.  A call is a composition of the    *)
(* operators of XferReceiver; each lemma follows one of them from a value  *)
(* for which the invariant holds to the next, and says what the two        *)
(* outputs may have done meanwhile.                                        *)
(***************************************************************************)
EXTENDS XferReceiver, TLAPS, WellFoundedInduction, FiniteSetTheorems

-----------------------------------------------------------------------------
\* The gap tracker's operators, for every tracker value.

\* A set of natural numbers has a least element: what induction over the
\* naturals is for in this development.
LEMMA LeastNatural ==
    ASSUME NEW T \in SUBSET Nat, T # {}
    PROVE  \E k \in T : \A j \in T : k <= j
<1>1. PICK k \in T : \A j \in T : ~(<<j, k>> \in OpToRel(<, Nat))
  BY WFMin, NatLessThanWellFounded, Zenon
<1>2. \A j \in T : ~(j < k)
  BY <1>1 DEF OpToRel
<1> QED BY <1>2

(***************************************************************************)
(* The loop of `record` stops: there is a place where a prefix ends.  It   *)
(* is the least p that is hi or whose successor is missing, which exists   *)
(* because < is well founded on the naturals.                              *)
(***************************************************************************)
LEMMA PrefixEndExists ==
    ASSUME NEW c \in Nat, NEW hi \in Nat, c <= hi, NEW S
    PROVE  \E p \in c .. hi : /\ (c + 1) .. p \subseteq S
                              /\ p = hi \/ (p + 1) \notin S
<1> DEFINE T == {p \in c .. hi : p = hi \/ (p + 1) \notin S}
<1>1. T \subseteq Nat /\ T # {}
  <2>1. hi \in T
    OBVIOUS
  <2>2. T \subseteq Nat
    OBVIOUS
  <2> QED BY <2>1, <2>2
<1>2. PICK p \in T : \A q \in T : p <= q
  <2> HIDE DEF T
  <2> QED BY <1>1, LeastNatural
<1>3. \A q \in T : ~(q < p)
  BY <1>1, <1>2
<1>4. (c + 1) .. p \subseteq S
  <2> SUFFICES ASSUME NEW x \in (c + 1) .. p, x \notin S PROVE FALSE
    OBVIOUS
  <2>1. x - 1 \in T
    BY <1>1
  <2> QED BY <2>1, <1>3
<1> QED BY <1>4

\* What PrefixEnd returns, for any set it is asked about.
LEMMA PrefixEndIs ==
    ASSUME NEW c \in Nat, NEW hi \in Nat, c <= hi, NEW S
    PROVE  /\ PrefixEnd(c, hi, S) \in c .. hi
           /\ (c + 1) .. PrefixEnd(c, hi, S) \subseteq S
           /\ PrefixEnd(c, hi, S) = hi \/ (PrefixEnd(c, hi, S) + 1) \notin S
BY PrefixEndExists DEF PrefixEnd

\* A prefix that S covers up to hi ends at hi.
LEMMA PrefixEndFull ==
    ASSUME NEW c \in Nat, NEW hi \in Nat, c <= hi, NEW S,
           (c + 1) .. hi \subseteq S
    PROVE  PrefixEnd(c, hi, S) = hi
<1> DEFINE p == PrefixEnd(c, hi, S)
<1>1. p \in c .. hi /\ (p = hi \/ (p + 1) \notin S)
  BY PrefixEndIs
<1>2. p # hi => (p + 1) \in S
  BY <1>1
<1> QED BY <1>1, <1>2

(***************************************************************************)
(* `record` of a fresh arrival: the prefix advances through arrivals only  *)
(* and stops below the next gap, the set above it keeps the rest, and      *)
(* together they are what they were and the arrival.                       *)
(***************************************************************************)
LEMMA RecordFresh ==
    ASSUME NEW c \in Nat, NEW hi \in Nat, NEW A, NEW s \in Nat,
           c <= hi, A \subseteq (c + 2) .. hi, s > c, s \notin A,
           NEW g, g = [contiguous |-> c, ahead |-> A, highest |-> hi]
    PROVE  LET q   == Record(g, s)
               top == IF s > hi THEN s ELSE hi
           IN  /\ q = [contiguous |-> q.contiguous, ahead |-> q.ahead, highest |-> top]
               /\ q.contiguous \in c .. top
               /\ (c + 1) .. q.contiguous \subseteq A \cup {s}
               /\ q.ahead = (A \cup {s}) \ (1 .. q.contiguous)
               /\ q.ahead \subseteq (q.contiguous + 2) .. top
<1> DEFINE top == IF s > hi THEN s ELSE hi
           p   == PrefixEnd(c, top, A \cup {s})
<1>1. top \in Nat /\ c <= top /\ s <= top /\ hi <= top
  OBVIOUS
<1>2. /\ p \in c .. top
      /\ (c + 1) .. p \subseteq A \cup {s}
      /\ p = top \/ (p + 1) \notin A \cup {s}
  BY <1>1, PrefixEndIs
<1>3. Record(g, s) = [contiguous |-> p, ahead |-> (A \cup {s}) \ (1 .. p), highest |-> top]
  BY DEF Record, Fresh
<1> HIDE DEF p, top
<1>4. (A \cup {s}) \ (1 .. p) \subseteq (p + 2) .. top
  <2> SUFFICES ASSUME NEW x \in A \cup {s}, x \notin 1 .. p
               PROVE  x \in (p + 2) .. top
    OBVIOUS
  <2>1. x \in Nat /\ x <= top /\ x > c
    BY <1>1
  <2>2. x > p /\ x # p + 1
    BY <1>1, <1>2, <2>1
  <2> QED BY <1>1, <1>2, <2>1, <2>2
<1> QED BY <1>2, <1>3, <1>4 DEF top

-----------------------------------------------------------------------------
(***************************************************************************)
(* What `missing` returns are gaps, and no more of them than asked for:    *)
(* up to the greatest gap returned there are at most `limit` gaps.         *)
(***************************************************************************)
LEMMA MissingFits ==
    ASSUME NEW g, g.contiguous \in Nat, g.highest \in Nat, NEW limit \in Nat
    PROVE  Cardinality(Missing(g, limit)) <= limit
<1> DEFINE G == Gaps(g)
           M == Missing(g, limit)
           T == {k \in Nat : \A x \in M : x <= k}
<1>1. \A x \in G : x \in Nat /\ x >= 1 /\ x <= g.highest
  BY DEF Gaps
<1>2. M \subseteq G /\ \A x \in M : Cardinality({t \in G : t <= x}) <= limit
  BY DEF Missing
<1> HIDE DEF G, M
<1>3. CASE M = {}
  BY <1>3, FS_EmptySet DEF M
<1>4. CASE M # {}
  <2>1. T \in SUBSET Nat /\ g.highest \in T
    BY <1>1, <1>2
  <2>2. PICK k \in T : \A j \in T : k <= j
    <3> HIDE DEF T
    <3> QED BY <2>1, LeastNatural
  <2>3. k \in M
    <3> SUFFICES ASSUME k \notin M PROVE FALSE
      OBVIOUS
    <3>1. k \in Nat /\ \A x \in M : x <= k
      BY <2>1, <2>2
    <3>2. \A x \in M : x <= k - 1
      BY <1>1, <1>2, <3>1
    <3>3. k - 1 \in T
      BY <1>1, <1>2, <1>4, <3>1, <3>2
    <3> HIDE DEF T
    <3> QED BY <2>2, <3>1, <3>3
  <2> DEFINE L == {t \in G : t <= k}
  <2>4. M \in SUBSET L
    BY <1>2, <2>2
  <2>5. IsFiniteSet(L) /\ Cardinality(L) <= limit
    <3>1. L \in SUBSET Nat /\ \A x \in L : x <= k
      BY <1>1
    <3>2. Cardinality(L) <= limit
      BY <1>2, <2>3
    <3> HIDE DEF L
    <3> QED BY <2>1, <3>1, <3>2, FS_BoundedSetOfNaturals
  <2> HIDE DEF L
  <2>6. IsFiniteSet(M) /\ Cardinality(M) <= Cardinality(L)
    BY <2>4, <2>5, FS_Subset
  <2>7. Cardinality(M) \in Nat /\ Cardinality(L) \in Nat
    BY <2>5, <2>6, FS_CardinalityType
  <2> QED BY <2>5, <2>6, <2>7 DEF M
<1> QED BY <1>3, <1>4

-----------------------------------------------------------------------------

\* What any step may do to the outputs: the cache's prefix grows until the
\* outcome and not after it, and a closed transfer stays closed.
Follows(r, q) ==
    /\ r.rel_released <= q.rel_released
    /\ r.rel_state = "Finished" => /\ q.rel_state = "Finished"
                                   /\ q.rel_released = r.rel_released
                                   /\ q.outcome = r.outcome
    /\ r.closed => q.closed

SameFrames(r, q) == q.arrived = r.arrived /\ q.played = r.played

\* A step that no frame is part of keeps the invariant and obeys Follows.
KeepsFaith(r, q) == q \in RxType /\ RxInv(q) /\ Follows(r, q) /\ SameFrames(r, q)

-----------------------------------------------------------------------------
(***************************************************************************)
(* Field types.                                                            *)
(***************************************************************************)
\* No entry is a legal entry.
LEMMA NoNacksTyped == [s \in Frames |-> NotAsked] \in NackType
BY ConfigAssumption DEF NotAsked, NackType

\* abandon drops the set above the prefix and keeps the rest of the index.
LEMMA AbandonTyped ==
    ASSUME NEW g \in GapType
    PROVE  /\ Abandon(g) \in GapType
           /\ Abandon(g).contiguous = g.contiguous
           /\ Abandon(g).highest = g.highest
           /\ Abandon(g).ahead = {}
BY DEF GapType, Abandon

-----------------------------------------------------------------------------
\* finish_rel with an abort, from anywhere inside a call.
LEMMA FinishRelAborts ==
    ASSUME NEW r \in RxType, AlwaysTrue(r), r.rel_state = "Streaming",
           NEW o \in Aborts
    PROVE  KeepsFaith(r, FinishRel(r, o))
<1> DEFINE q    == FinishRel(r, o)
           zero == 0
           free == [s \in Frames |-> NotAsked]
           left == Abandon(r.gaps)
<1>1. q = [r EXCEPT !.rel_state     = "Finished",
                    !.reorder       = {},
                    !.reorder_bytes = zero,
                    !.nacks         = free,
                    !.gaps          = left,
                    !.outcome       = o]
  BY DEF FinishRel
<1>2. /\ zero \in Int /\ zero = 0
      /\ free \in NackType
      /\ r.gaps \in GapType
  BY NoNacksTyped DEF RxType
<1>3. /\ left \in GapType
      /\ left.contiguous = r.gaps.contiguous
      /\ left.highest = r.gaps.highest
      /\ left.ahead = {}
  BY <1>2, AbandonTyped
<1>4. o \in Outcomes /\ o # NoOutcome /\ o # "Complete"
  BY DEF Aborts, Outcomes, NoOutcome
<1> HIDE DEF q, zero, free, left
<1>5. q \in RxType
  BY <1>1, <1>2, <1>3, <1>4 DEF RxType
<1>6. RxInv(q)
  BY <1>1, <1>2, <1>3, <1>4, SizeAssumption
     DEF RxType, GapType, RxInv, AlwaysTrue, TrackerTrue, Settled, Concluded
<1>7. Follows(r, q) /\ SameFrames(r, q)
  BY <1>1, SizeAssumption DEF RxType, Follows, SameFrames
<1> QED BY <1>5, <1>6, <1>7 DEF KeepsFaith, q

\* Nothing to release: release_contiguous leaves the receiver alone.
LEMMA ReleaseNothing ==
    ASSUME NEW r \in RxType, r.rel_released = r.gaps.contiguous
    PROVE  ReleaseContiguous(r) = r
<1>1. r.gaps.contiguous \in Nat
  BY SizeAssumption DEF RxType, GapType
<1>2. PrefixEnd(r.rel_released, r.gaps.contiguous, r.reorder) = r.rel_released
  BY <1>1, PrefixEndIs
<1> QED BY <1>2 DEF ReleaseContiguous

\* finish_rel with Complete, when everything has been released.
LEMMA FinishRelCompletes ==
    ASSUME NEW r \in RxType, AlwaysTrue(r), r.rel_state = "Streaming",
           r.rel_released = NumFrames
    PROVE  LET q == FinishRel(r, "Complete")
           IN  /\ q \in RxType /\ AlwaysTrue(q) /\ Settled(q)
               /\ Follows(r, q) /\ SameFrames(r, q)
               /\ q.rel_state = "Finished" /\ q.outcome = "Complete"
               /\ q.rel_released = NumFrames
               /\ q.final_seq = r.final_seq /\ q.end_acked = r.end_acked
               /\ q.out = r.out
<1> DEFINE q    == FinishRel(r, "Complete")
           zero == 0
           free == [s \in Frames |-> NotAsked]
           left == Abandon(r.gaps)
<1>1. q = [r EXCEPT !.rel_state     = "Finished",
                    !.reorder       = {},
                    !.reorder_bytes = zero,
                    !.nacks         = free,
                    !.gaps          = left,
                    !.outcome       = "Complete"]
  BY DEF FinishRel
<1>2. /\ zero \in Int /\ zero = 0
      /\ free \in NackType
      /\ r.gaps \in GapType
      /\ "Complete" \in Outcomes /\ "Complete" # NoOutcome
  BY NoNacksTyped DEF RxType, Outcomes, NoOutcome
<1>3. /\ left \in GapType
      /\ left.contiguous = r.gaps.contiguous
      /\ left.highest = r.gaps.highest
      /\ left.ahead = {}
  BY <1>2, AbandonTyped
<1> HIDE DEF q, zero, free, left
<1>4. q \in RxType
  BY <1>1, <1>2, <1>3 DEF RxType
<1>5. AlwaysTrue(q) /\ Settled(q)
  BY <1>1, <1>2, <1>3, SizeAssumption
     DEF RxType, GapType, AlwaysTrue, TrackerTrue, Settled
<1>6. Follows(r, q) /\ SameFrames(r, q)
  BY <1>1, SizeAssumption DEF RxType, Follows, SameFrames
<1>7. /\ q.rel_state = "Finished" /\ q.outcome = "Complete"
      /\ q.rel_released = NumFrames
      /\ q.final_seq = r.final_seq /\ q.end_acked = r.end_acked /\ q.out = r.out
  BY <1>1 DEF RxType
<1> QED BY <1>4, <1>5, <1>6, <1>7 DEF q

\* Acknowledging the tail and closing, once the reliable stream is finished and
\* every frame has arrived.
LEMMA Closing ==
    ASSUME NEW r \in RxType, AlwaysTrue(r), Settled(r), r.rel_state = "Finished",
           r.arrived = Frames,
           r.outcome = "Complete" => r.rel_released = NumFrames,
           NEW o \in SUBSET SinkPackets
    PROVE  KeepsFaith(r, [r EXCEPT !.end_acked = TRUE, !.closed = TRUE, !.out = o])
<1> DEFINE q == [r EXCEPT !.end_acked = TRUE, !.closed = TRUE, !.out = o]
<1>1. q \in RxType
  BY ZenonT(40) DEF RxType
<1>2. RxInv(q)
  BY SizeAssumption, SMTT(30)
  DEF RxType, GapType, RxInv, AlwaysTrue, TrackerTrue, Settled, Concluded
<1>3. Follows(r, q) /\ SameFrames(r, q)
  BY SizeAssumption DEF RxType, Follows, SameFrames
<1> QED BY <1>1, <1>2, <1>3 DEF KeepsFaith

\* Follows is transitive.
LEMMA FollowsOn ==
    ASSUME NEW r \in RxType, NEW q \in RxType, NEW z \in RxType,
           Follows(r, q), Follows(q, z)
    PROVE  Follows(r, z)
<1>1. r.rel_released \in Int /\ q.rel_released \in Int /\ z.rel_released \in Int
  BY SizeAssumption DEF RxType
<1>2. r.rel_released <= z.rel_released
  BY <1>1 DEF Follows
<1> QED BY <1>2 DEF Follows

\* check_finish, from any settled value: it concludes what can be concluded.
LEMMA CheckFinishConcludes ==
    ASSUME NEW r \in RxType, AlwaysTrue(r), Settled(r),
           r.outcome = "Complete" => r.rel_released = NumFrames /\ r.end_acked
    PROVE  KeepsFaith(r, CheckFinish(r))
<1> DEFINE q == CheckFinish(r)
<1>0. /\ r.final_seq \in {NoEnd, NumFrames} /\ NoEnd # NumFrames
      /\ r.gaps.contiguous \in Nat /\ r.gaps.contiguous <= NumFrames
      /\ Follows(r, r) /\ SameFrames(r, r)
  BY SizeAssumption, SMTT(30) DEF RxType, GapType, NoEnd, Follows, SameFrames
<1>1. CASE r.final_seq = NoEnd
  <2>1. q = r
    BY <1>1 DEF CheckFinish
  <2>2. RxInv(r)
    BY <1>1 DEF RxInv, Concluded
  <2> HIDE DEF q
  <2> QED BY <1>0, <2>1, <2>2 DEF KeepsFaith, q
<1>2. CASE r.final_seq = NumFrames /\ r.gaps.contiguous < NumFrames
  <2>1. ~IsComplete(r.gaps, r.final_seq)
    BY <1>0, <1>2, SizeAssumption DEF IsComplete
  <2>2. q = IF r.end_acked THEN [r EXCEPT !.closed = TRUE] ELSE r
    BY <1>0, <1>2, <2>1 DEF CheckFinish
  <2>3. RxInv(r)
    BY <1>2 DEF RxInv, Concluded
  <2>4. CASE r.end_acked
    <3>1. r.closed
      BY <2>4 DEF AlwaysTrue
    <3>2. q = r
      BY <2>2, <2>4, <3>1 DEF RxType
    <3> QED BY <1>0, <2>3, <3>2 DEF KeepsFaith
  <2>5. CASE ~r.end_acked
    BY <1>0, <2>2, <2>3, <2>5 DEF KeepsFaith
  <2> QED BY <2>4, <2>5
<1>3. CASE r.final_seq = NumFrames /\ r.gaps.contiguous = NumFrames
  <2> DEFINE fin == IF r.rel_state = "Streaming" THEN FinishRel(r, "Complete") ELSE r
             o   == IF fin.end_acked THEN fin.out ELSE fin.out \cup {EndAckPkt}
  <2>1. IsComplete(r.gaps, r.final_seq)
    BY <1>0, <1>3, SizeAssumption DEF IsComplete
  <2>2. r.rel_state = "Streaming" => ReleaseContiguous(r) = r /\ r.rel_released = NumFrames
    BY <1>3, ReleaseNothing DEF Settled
  <2>3. r.arrived = Frames
    BY <1>3 DEF AlwaysTrue, TrackerTrue, RxType, Frames
  <2>4. /\ fin \in RxType /\ AlwaysTrue(fin) /\ Settled(fin)
        /\ fin.rel_state = "Finished"
        /\ fin.outcome = "Complete" => fin.rel_released = NumFrames
        /\ Follows(r, fin) /\ SameFrames(r, fin)
        /\ fin.final_seq = NumFrames
    <3>1. CASE r.rel_state = "Streaming"
      BY <1>3, <2>2, <3>1, FinishRelCompletes
    <3>2. CASE r.rel_state = "Finished"
      BY <1>0, <1>3, <3>2
    <3> QED BY <3>1, <3>2 DEF RxType
  <2>5. fin.arrived = Frames
    BY <2>3, <2>4 DEF SameFrames
  <2>6. o \in SUBSET SinkPackets
    BY <2>4 DEF RxType, SinkPackets
  <2>7. q = [fin EXCEPT !.end_acked = TRUE, !.closed = TRUE, !.out = o]
    <3> HIDE DEF fin, o
    <3>1. q = LET acked == IF ~fin.end_acked
                           THEN [fin EXCEPT !.end_acked = TRUE, !.out = @ \cup {EndAckPkt}]
                           ELSE fin
              IN  IF acked.end_acked THEN [acked EXCEPT !.closed = TRUE] ELSE acked
      BY <1>0, <1>3, <2>1, <2>2 DEF CheckFinish, fin
    <3>2. CASE fin.end_acked
      BY <2>4, <3>1, <3>2, ZenonT(40) DEF RxType, o
    <3>3. CASE ~fin.end_acked
      BY <2>4, <3>1, <3>3, ZenonT(40) DEF RxType, o
    <3> QED BY <3>2, <3>3
  <2> HIDE DEF fin, o, q
  <2>8. KeepsFaith(fin, q)
    BY <2>4, <2>5, <2>6, <2>7, Closing
  <2>9. Follows(r, q) /\ SameFrames(r, q)
    BY <2>4, <2>8, FollowsOn DEF KeepsFaith, SameFrames
  <2> QED BY <2>8, <2>9 DEF KeepsFaith, q
<1> QED BY <1>0, <1>1, <1>2, <1>3, SizeAssumption

-----------------------------------------------------------------------------
(***************************************************************************)
(* Bookkeeping: the timers, the NACK table, buffered_ms and the packets to *)
(* send.  A step that touches nothing else keeps the invariant.            *)
(***************************************************************************)
SameCore(r, q) ==
    /\ q.gaps = r.gaps /\ q.reorder = r.reorder /\ q.reorder_bytes = r.reorder_bytes
    /\ q.rel_state = r.rel_state /\ q.rel_released = r.rel_released
    /\ q.final_seq = r.final_seq /\ q.end_acked = r.end_acked /\ q.closed = r.closed
    /\ q.sender_lost_below = r.sender_lost_below /\ q.outcome = r.outcome
    /\ q.arrived = r.arrived /\ q.played = r.played

\* A step that leaves the core alone keeps the invariant.
LEMMA Bookkeeping ==
    ASSUME NEW r \in RxType, RxInv(r), NEW q \in RxType, SameCore(r, q)
    PROVE  KeepsFaith(r, q)
<1>1. RxInv(q)
  BY DEF SameCore, RxInv, AlwaysTrue, TrackerTrue, Settled, Concluded
<1>2. r.rel_released \in Int
  BY SizeAssumption DEF RxType
<1>3. Follows(r, q) /\ SameFrames(r, q)
  BY <1>2 DEF SameCore, Follows, SameFrames
<1> QED BY <1>1, <1>3 DEF KeepsFaith

\* KeepsFaith is transitive.
LEMMA FaithOn ==
    ASSUME NEW r \in RxType, NEW q \in RxType, NEW z,
           KeepsFaith(r, q), KeepsFaith(q, z)
    PROVE  KeepsFaith(r, z)
<1>1. Follows(r, z)
  BY FollowsOn DEF KeepsFaith
<1> QED BY <1>1 DEF KeepsFaith, SameFrames

-----------------------------------------------------------------------------
(***************************************************************************)
(* A frame arrives.                                                        *)
(***************************************************************************)
\* A step that frame s is part of: it keeps the invariant, obeys Follows, and
\* playback gets the frame.
Lands(r, q, s) ==
    /\ q \in RxType /\ RxInv(q) /\ Follows(r, q)
    /\ q.arrived = r.arrived \cup {s}
    /\ q.played = IF WantsUnrel THEN r.played \cup {s} ELSE r.played

\* The index after an arrival.
LEMMA RecordTracks ==
    ASSUME NEW r \in RxType, TrackerTrue(r), NEW s \in Frames, Fresh(r.gaps, s)
    PROVE  LET g == r.gaps
               q == Record(g, s)
           IN  /\ q \in GapType
               /\ g.contiguous <= q.contiguous /\ q.contiguous <= q.highest
               /\ g.highest <= q.highest /\ s <= q.highest
               /\ q.highest \in {s, g.highest}
               /\ (g.contiguous + 1) .. q.contiguous \subseteq g.ahead \cup {s}
               /\ q.ahead = (g.ahead \cup {s}) \ (1 .. q.contiguous)
               /\ q.ahead \subseteq (q.contiguous + 2) .. q.highest
<1> DEFINE c == r.gaps.contiguous
           A == r.gaps.ahead
           h == r.gaps.highest
           g == [contiguous |-> c, ahead |-> A, highest |-> h]
           q == Record(g, s)
           top == IF s > h THEN s ELSE h
<1>1. /\ c \in Nat /\ h \in Nat /\ c <= NumFrames /\ h <= NumFrames
      /\ A \subseteq Frames /\ r.gaps = g
      /\ s \in Nat /\ s <= NumFrames /\ NumFrames \in Nat
  <2>1. r.gaps \in GapType
    BY DEF RxType
  <2>2. r.gaps = g
    BY <2>1 DEF GapType
  <2> QED BY <2>1, <2>2, SizeAssumption DEF GapType, Frames
<1>2. c <= h /\ A \subseteq (c + 2) .. h /\ s > c /\ s \notin A
  BY DEF TrackerTrue, Fresh
<1> HIDE DEF c, A, h
<1>3. /\ q = [contiguous |-> q.contiguous, ahead |-> q.ahead, highest |-> top]
      /\ q.contiguous \in c .. top
      /\ (c + 1) .. q.contiguous \subseteq A \cup {s}
      /\ q.ahead = (A \cup {s}) \ (1 .. q.contiguous)
      /\ q.ahead \subseteq (q.contiguous + 2) .. top
  <2> HIDE DEF g
  <2> QED BY <1>1, <1>2, RecordFresh DEF g
<1> HIDE DEF q
<1>4. /\ q.highest = top /\ top \in Nat /\ top <= NumFrames
      /\ h <= top /\ s <= top /\ top \in {s, h}
      /\ q.contiguous \in 0 .. NumFrames
      /\ q.ahead \subseteq Frames
  BY <1>1, <1>3
<1>5. q \in GapType
  <2> HIDE DEF top
  <2>1. top \in 0 .. NumFrames
    BY <1>1, <1>4
  <2> QED BY <1>3, <1>4, <2>1 DEF GapType
<1>6. r.gaps = g /\ q = Record(r.gaps, s)
  BY <1>1 DEF q
<1>7. c <= q.contiguous /\ q.contiguous <= q.highest
  BY <1>1, <1>3, <1>4
<1> HIDE DEF g, top
<1> QED BY <1>3, <1>4, <1>5, <1>6, <1>7 DEF c, A, h

\* The first half of on_data, from anywhere: the index, playback and the record
\* of arrivals move on, nothing else does.
LEMMA ArriveTracks ==
    ASSUME NEW r \in RxType, AlwaysTrue(r), NEW s \in Frames
    PROVE  LET q == Arrive(r, s)
           IN  /\ q \in RxType /\ AlwaysTrue(q) /\ Follows(r, q)
               /\ q.arrived = r.arrived \cup {s}
               /\ q.played = IF WantsUnrel THEN r.played \cup {s} ELSE r.played
               /\ q.gaps = Record(r.gaps, s)
               /\ q.reorder = r.reorder /\ q.reorder_bytes = r.reorder_bytes
               /\ q.rel_state = r.rel_state /\ q.rel_released = r.rel_released
               /\ q.final_seq = r.final_seq /\ q.end_acked = r.end_acked
               /\ q.sender_lost_below = r.sender_lost_below
               /\ q.outcome = r.outcome /\ q.closed = r.closed
<1> DEFINE q     == Arrive(r, s)
           shown == IF Fresh(r.gaps, s) /\ WantsUnrel THEN {s} ELSE {}
           g     == Record(r.gaps, s)
           a     == r.arrived \cup {s}
           pl    == r.played \cup shown
           re    == r.replayed \cup (shown \cap r.played)
<1>1. q = [r EXCEPT !.gaps = g, !.arrived = a, !.played = pl, !.replayed = re]
  BY DEF Arrive
<1>2. /\ r.gaps \in GapType /\ r.arrived \subseteq Frames
      /\ r.played \subseteq Frames /\ r.replayed \subseteq Frames
  BY DEF RxType
<1>3. TrackerTrue(r) /\ r.played = IF WantsUnrel THEN r.arrived ELSE {}
  BY DEF AlwaysTrue
<1>4. /\ r.gaps.contiguous \in Nat /\ r.gaps.highest \in Nat /\ s \in Nat
      /\ s > 0 /\ r.rel_released \in Nat
  BY <1>2, SizeAssumption DEF GapType, RxType, Frames
<1>5. ~Fresh(r.gaps, s) => g = r.gaps /\ s \in r.arrived
  BY <1>2, <1>3, <1>4 DEF Record, Fresh, TrackerTrue
<1>6. /\ a \in SUBSET Frames /\ pl \in SUBSET Frames /\ re \in SUBSET Frames
      /\ a = r.arrived \cup {s}
      /\ pl = IF WantsUnrel THEN a ELSE {}
  BY <1>2, <1>3, <1>5
<1>7. /\ g \in GapType
      /\ g.contiguous \in Nat /\ g.highest \in Nat
      /\ r.gaps.contiguous <= g.contiguous /\ g.contiguous <= g.highest
      /\ g.ahead \subseteq (g.contiguous + 2) .. g.highest
      /\ 1 .. g.contiguous \subseteq a
      /\ g.ahead \subseteq a
      /\ a \subseteq 1 .. g.highest
      /\ g.highest \in a \/ g.highest = 0
  <2>1. CASE ~Fresh(r.gaps, s)
    BY <1>2, <1>3, <1>4, <1>5, <2>1 DEF TrackerTrue
  <2>2. CASE Fresh(r.gaps, s)
    <3> HIDE DEF g
    <3>1. /\ g \in GapType
          /\ r.gaps.contiguous <= g.contiguous /\ g.contiguous <= g.highest
          /\ r.gaps.highest <= g.highest /\ s <= g.highest
          /\ g.highest \in {s, r.gaps.highest}
          /\ (r.gaps.contiguous + 1) .. g.contiguous \subseteq r.gaps.ahead \cup {s}
          /\ g.ahead = (r.gaps.ahead \cup {s}) \ (1 .. g.contiguous)
          /\ g.ahead \subseteq (g.contiguous + 2) .. g.highest
      BY <1>3, <2>2, RecordTracks DEF g
    <3>2. g.contiguous \in Nat /\ g.highest \in Nat
      BY <3>1, SizeAssumption DEF GapType
    <3>3. 1 .. g.contiguous \subseteq a
      BY <1>3, <1>4, <3>1, <3>2 DEF TrackerTrue
    <3>4. a \subseteq 1 .. g.highest
      BY <1>3, <1>4, <3>1, <3>2 DEF TrackerTrue
    <3>5. g.ahead \subseteq a
      BY <1>3, <3>1 DEF TrackerTrue
    <3>6. g.highest \in a \/ g.highest = 0
      BY <1>3, <1>4, <3>1 DEF TrackerTrue
    <3> QED BY <3>1, <3>2, <3>3, <3>4, <3>5, <3>6
  <2> QED BY <2>1, <2>2
<1>8. r.end_acked => a = Frames
  BY <1>2, <1>6 DEF AlwaysTrue
<1> HIDE DEF q, shown, g, a, pl, re
<1>9. q \in RxType
  BY <1>1, <1>6, <1>7 DEF RxType
<1>10. /\ q.arrived = a /\ q.played = pl /\ q.gaps = g
       /\ q.reorder = r.reorder /\ q.reorder_bytes = r.reorder_bytes
       /\ q.rel_state = r.rel_state /\ q.rel_released = r.rel_released
       /\ q.final_seq = r.final_seq /\ q.end_acked = r.end_acked
       /\ q.sender_lost_below = r.sender_lost_below
       /\ q.outcome = r.outcome /\ q.closed = r.closed
  BY <1>1 DEF RxType
<1>11. TrackerTrue(q)
  BY <1>7, <1>10 DEF TrackerTrue
<1>12. AlwaysTrue(q)
  BY <1>4, <1>6, <1>7, <1>8, <1>10, <1>11 DEF AlwaysTrue
<1>13. Follows(r, q)
  BY <1>4, <1>10 DEF Follows
<1>14. q.played = IF WantsUnrel THEN r.played \cup {s} ELSE r.played
  BY <1>3, <1>6, <1>10
<1> QED BY <1>6, <1>9, <1>10, <1>12, <1>13, <1>14 DEF q, g, a

\* Into the reorder buffer: only the buffer changes.
LEMMA HoldKeeps ==
    ASSUME NEW r \in RxType, AlwaysTrue(r), NEW s \in Frames
    PROVE  LET q == Hold(r, s)
           IN  /\ q \in RxType /\ AlwaysTrue(q)
               /\ Follows(r, q) /\ SameFrames(r, q)
               /\ q.reorder = r.reorder \cup {s}
               /\ q.gaps = r.gaps /\ q.rel_state = r.rel_state
               /\ q.rel_released = r.rel_released /\ q.outcome = r.outcome
               /\ q.sender_lost_below = r.sender_lost_below
<1> DEFINE q == Hold(r, s)
           b == r.reorder \cup {s}
           n == r.reorder_bytes + PayloadLen(s)
<1>1. b \in SUBSET Frames
  BY DEF RxType
<1>2. n \in Int
  <2>1. Offset[s] \in Int /\ Offset[s - 1] \in Int
    BY SizeAssumption DEF Frames
  <2>2. r.reorder_bytes \in Int
    BY DEF RxType
  <2> QED BY <2>1, <2>2 DEF PayloadLen
<1>3. q = [r EXCEPT !.reorder = b, !.reorder_bytes = n]
  BY DEF Hold
<1> HIDE DEF q, b, n
<1>4. q \in RxType
  BY <1>1, <1>2, <1>3 DEF RxType
<1>5. /\ q.reorder = b
      /\ q.gaps = r.gaps /\ q.rel_state = r.rel_state
      /\ q.rel_released = r.rel_released /\ q.outcome = r.outcome
      /\ q.sender_lost_below = r.sender_lost_below
      /\ q.arrived = r.arrived /\ q.played = r.played
      /\ q.end_acked = r.end_acked /\ q.closed = r.closed
  BY <1>3 DEF RxType
<1>6. AlwaysTrue(q)
  BY <1>5 DEF AlwaysTrue, TrackerTrue
<1>7. r.rel_released \in Int
  BY SizeAssumption DEF RxType
<1>8. Follows(r, q) /\ SameFrames(r, q)
  BY <1>5, <1>7 DEF Follows, SameFrames
<1> QED BY <1>4, <1>5, <1>6, <1>8 DEF q, b

\* release_contiguous moves the buffered part of the prefix to the cache.
LEMMA ReleaseMoves ==
    ASSUME NEW r \in RxType, AlwaysTrue(r), r.rel_state = "Streaming",
           (r.rel_released + 1) .. r.gaps.contiguous \subseteq r.reorder
    PROVE  LET q == ReleaseContiguous(r)
           IN  /\ q \in RxType /\ AlwaysTrue(q)
               /\ Follows(r, q) /\ SameFrames(r, q)
               /\ q.rel_released = r.gaps.contiguous
               /\ q.reorder = r.reorder \ ((r.rel_released + 1) .. r.gaps.contiguous)
               /\ q.gaps = r.gaps /\ q.rel_state = "Streaming"
               /\ q.outcome = r.outcome
               /\ q.sender_lost_below = r.sender_lost_below
<1> DEFINE q == ReleaseContiguous(r)
           k == r.rel_released
           c == r.gaps.contiguous
           emitted == (k + 1) .. c
           b == r.reorder \ emitted
           n == r.reorder_bytes - (Offset[c] - Offset[k])
           t == [x \in Frames |-> IF x \in emitted THEN NotAsked ELSE r.nacks[x]]
           zero == 0
<1>1. /\ k \in Nat /\ c \in Nat /\ k <= c /\ c \in 0 .. NumFrames /\ k \in 0 .. NumFrames
      /\ r.reorder \in SUBSET Frames /\ r.reorder_bytes \in Int /\ r.nacks \in NackType
  <2>1. r.gaps \in GapType
    BY DEF RxType
  <2>2. c \in 0 .. NumFrames
    BY <2>1 DEF GapType
  <2>3. k <= c
    BY DEF AlwaysTrue
  <2> QED BY <2>2, <2>3, SizeAssumption DEF RxType
<1>2. PrefixEnd(k, c, r.reorder) = c
  BY <1>1, PrefixEndFull
<1>3. q = IF c = k THEN r
          ELSE [r EXCEPT !.reorder = b, !.reorder_bytes = n, !.rel_released = c,
                         !.nacks = t, !.since_rel = zero]
  BY <1>2 DEF ReleaseContiguous
<1>4. /\ b \in SUBSET Frames /\ b = r.reorder \ emitted
      /\ c = k => b = r.reorder
  BY <1>1
<1>5. n \in Int
  BY <1>1, SizeAssumption
<1>6. t \in NackType
  <2>1. NotAsked \in [n : 0 .. MaxNackAttempts, since : 0 .. NackAgeCap]
    BY ConfigAssumption DEF NotAsked
  <2> HIDE DEF emitted
  <2> QED BY <1>1, <2>1 DEF NackType
<1>7. zero \in 0 .. (RelStallTimeout + 1)
  BY ConfigAssumption
<1> HIDE DEF q, k, c, emitted, b, n, t, zero
<1>8. q \in RxType
  BY <1>1, <1>3, <1>4, <1>5, <1>6, <1>7 DEF RxType
<1>9. /\ q.rel_released = c /\ q.reorder = b
      /\ q.gaps = r.gaps /\ q.rel_state = r.rel_state /\ q.outcome = r.outcome
      /\ q.sender_lost_below = r.sender_lost_below
      /\ q.arrived = r.arrived /\ q.played = r.played
      /\ q.end_acked = r.end_acked /\ q.closed = r.closed
  <2>1. CASE c = k
    BY <1>3, <1>4, <2>1 DEF k
  <2>2. CASE c # k
    BY <1>3, <2>2 DEF RxType
  <2> QED BY <2>1, <2>2
<1>10. AlwaysTrue(q)
  BY <1>1, <1>9 DEF AlwaysTrue, TrackerTrue, c
<1>11. Follows(r, q) /\ SameFrames(r, q)
  BY <1>1, <1>9 DEF Follows, SameFrames, k
<1> QED BY <1>8, <1>9, <1>10, <1>11 DEF q, k, c, emitted, b

\* A fresh frame that fits the window is indexed, held and, with everything it
\* makes contiguous, released.
LEMMA ReleaseSettles ==
    ASSUME NEW r \in RxType, RxInv(r), r.rel_state = "Streaming",
           NEW s \in Frames, Fresh(r.gaps, s),
           WindowSpan(Record(r.gaps, s)) <= ReorderWindow
    PROVE  LET q == ReleaseContiguous(Hold(Arrive(r, s), s))
           IN  /\ q \in RxType /\ AlwaysTrue(q) /\ Settled(q) /\ Follows(r, q)
               /\ q.arrived = r.arrived \cup {s}
               /\ q.played = IF WantsUnrel THEN r.played \cup {s} ELSE r.played
               /\ q.outcome = NoOutcome
<1> DEFINE a == Arrive(r, s)
           h == Hold(a, s)
           q == ReleaseContiguous(h)
           c == r.gaps.contiguous
           g == Record(r.gaps, s)
<1>1. /\ AlwaysTrue(r) /\ TrackerTrue(r) /\ r.outcome = NoOutcome
      /\ r.reorder = r.gaps.ahead /\ r.rel_released = c
      /\ r.arrived = 1 .. c \cup r.gaps.ahead
      /\ r.sender_lost_below <= c
  BY DEF RxInv, Settled, AlwaysTrue
<1>2. /\ a \in RxType /\ AlwaysTrue(a) /\ Follows(r, a)
      /\ a.arrived = r.arrived \cup {s}
      /\ a.played = IF WantsUnrel THEN r.played \cup {s} ELSE r.played
      /\ a.gaps = g /\ a.reorder = r.reorder
      /\ a.rel_state = "Streaming" /\ a.rel_released = r.rel_released
      /\ a.sender_lost_below = r.sender_lost_below /\ a.outcome = r.outcome
  BY <1>1, ArriveTracks
<1> HIDE DEF a
<1>3. /\ h \in RxType /\ AlwaysTrue(h) /\ Follows(a, h) /\ SameFrames(a, h)
      /\ h.reorder = a.reorder \cup {s}
      /\ h.gaps = a.gaps /\ h.rel_state = a.rel_state
      /\ h.rel_released = a.rel_released /\ h.outcome = a.outcome
      /\ h.sender_lost_below = a.sender_lost_below
  BY <1>2, HoldKeeps
<1>4. /\ g \in GapType /\ c <= g.contiguous
      /\ (c + 1) .. g.contiguous \subseteq r.gaps.ahead \cup {s}
      /\ g.ahead = (r.gaps.ahead \cup {s}) \ (1 .. g.contiguous)
  BY <1>1, RecordTracks
<1>5. /\ c \in Nat /\ g.contiguous \in Nat
      /\ r.gaps.ahead \cup {s} \subseteq (c + 1) .. NumFrames
      /\ r.sender_lost_below \in Int
  <2>1. r.gaps \in GapType
    BY DEF RxType
  <2>2. /\ c \in Nat /\ g.contiguous \in Nat /\ r.gaps.highest \in Nat
        /\ r.gaps.highest <= NumFrames /\ NumFrames \in Nat
    BY <1>4, <2>1, SizeAssumption DEF GapType
  <2>3. r.gaps.ahead \subseteq (c + 2) .. r.gaps.highest /\ s > c
    BY <1>1 DEF TrackerTrue, Fresh
  <2>4. r.sender_lost_below \in Int
    BY SizeAssumption DEF RxType
  <2> QED BY <2>2, <2>3, <2>4 DEF Frames
<1> HIDE DEF g, h, c
<1>6. (h.rel_released + 1) .. h.gaps.contiguous \subseteq h.reorder
  BY <1>1, <1>2, <1>3, <1>4
<1>7. /\ q \in RxType /\ AlwaysTrue(q) /\ Follows(h, q) /\ SameFrames(h, q)
      /\ q.rel_released = g.contiguous
      /\ q.reorder = (r.gaps.ahead \cup {s}) \ ((c + 1) .. g.contiguous)
      /\ q.gaps = g /\ q.rel_state = "Streaming" /\ q.outcome = NoOutcome
      /\ q.sender_lost_below = r.sender_lost_below
  BY <1>1, <1>2, <1>3, <1>6, ReleaseMoves
<1> HIDE DEF q
<1>8. q.reorder = g.ahead
  BY <1>4, <1>5, <1>7
<1>9. q.arrived = 1 .. g.contiguous \cup g.ahead
  BY <1>1, <1>2, <1>3, <1>4, <1>5, <1>7 DEF SameFrames
<1>10. Settled(q)
  BY <1>1, <1>4, <1>5, <1>7, <1>8, <1>9 DEF Settled, g
<1>11. Follows(r, q)
  BY <1>2, <1>3, <1>7, FollowsOn
<1>12. /\ q.arrived = r.arrived \cup {s}
       /\ q.played = IF WantsUnrel THEN r.played \cup {s} ELSE r.played
  BY <1>2, <1>3, <1>7 DEF SameFrames
<1> QED BY <1>7, <1>10, <1>11, <1>12 DEF q, h, a

\* A landing followed by a step without a frame.
LEMMA LandsOn ==
    ASSUME NEW r \in RxType, NEW q \in RxType, NEW z, NEW s \in Frames,
           q.arrived = r.arrived \cup {s},
           q.played = IF WantsUnrel THEN r.played \cup {s} ELSE r.played,
           Follows(r, q), KeepsFaith(q, z)
    PROVE  Lands(r, z, s)
<1>1. Follows(r, z)
  BY FollowsOn DEF KeepsFaith
<1> QED BY <1>1 DEF KeepsFaith, SameFrames, Lands

\* on_data: one step per early return.
LEMMA OnDataLands ==
    ASSUME NEW r \in RxType, RxInv(r), NEW s \in Frames
    PROVE  Lands(r, OnData(r, s), s)
<1> DEFINE a == Arrive(r, s)
           h == Hold(a, s)
           q == ReleaseContiguous(h)
<1>0. AlwaysTrue(r) /\ Settled(r) /\ Concluded(r)
  BY DEF RxInv
<1>1. /\ a \in RxType /\ AlwaysTrue(a) /\ Follows(r, a)
      /\ a.arrived = r.arrived \cup {s}
      /\ a.played = IF WantsUnrel THEN r.played \cup {s} ELSE r.played
      /\ a.gaps = Record(r.gaps, s)
      /\ a.reorder = r.reorder /\ a.reorder_bytes = r.reorder_bytes
      /\ a.rel_state = r.rel_state /\ a.rel_released = r.rel_released
      /\ a.final_seq = r.final_seq /\ a.end_acked = r.end_acked
      /\ a.sender_lost_below = r.sender_lost_below
      /\ a.outcome = r.outcome /\ a.closed = r.closed
  BY <1>0, ArriveTracks
<1>2. OnData(r, s) =
        IF r.rel_state # "Streaming" \/ ~Fresh(r.gaps, s) THEN a
        ELSE IF WindowSpan(a.gaps) > ReorderWindow THEN FinishRel(a, "BufferExhausted")
        ELSE IF h.reorder_bytes > MaxReorderBytes THEN FinishRel(h, "BufferExhausted")
        ELSE CheckFinish(q)
  BY DEF OnData
<1>3. /\ h \in RxType /\ AlwaysTrue(h) /\ Follows(a, h) /\ SameFrames(a, h)
      /\ h.rel_state = a.rel_state
  <2> HIDE DEF a
  <2> QED BY <1>1, HoldKeeps
<1>4. "BufferExhausted" \in Aborts
  BY DEF Aborts
<1>5. CASE r.rel_state # "Streaming"
  <2> HIDE DEF a
  <2>1. Settled(a) /\ Concluded(a)
    BY <1>0, <1>1, <1>5 DEF Settled, Concluded
  <2> QED BY <1>1, <1>2, <1>5, <2>1 DEF RxInv, Lands
<1>6. CASE r.rel_state = "Streaming" /\ ~Fresh(r.gaps, s)
  <2>1. a.gaps = r.gaps
    BY <1>1, <1>6 DEF Record
  <2>2. s \in r.arrived
    <3>1. r.gaps.contiguous \in Nat /\ s \in Nat /\ s > 0
      BY SizeAssumption DEF RxType, GapType, Frames
    <3> QED BY <1>0, <1>6, <3>1 DEF AlwaysTrue, TrackerTrue, Fresh
  <2> HIDE DEF a
  <2>3. a.arrived = r.arrived
    BY <1>1, <2>2
  <2>4. Settled(a) /\ Concluded(a)
    BY <1>0, <1>1, <1>6, <2>1, <2>3 DEF Settled, Concluded
  <2> QED BY <1>1, <1>2, <1>6, <2>4 DEF RxInv, Lands
<1>7. CASE r.rel_state = "Streaming" /\ Fresh(r.gaps, s) /\ WindowSpan(a.gaps) > ReorderWindow
  <2> HIDE DEF a, h
  <2>1. KeepsFaith(a, FinishRel(a, "BufferExhausted"))
    BY <1>1, <1>4, <1>7, FinishRelAborts
  <2> QED BY <1>1, <1>2, <1>7, <2>1, LandsOn
<1>8. CASE /\ r.rel_state = "Streaming" /\ Fresh(r.gaps, s)
           /\ ~(WindowSpan(a.gaps) > ReorderWindow)
           /\ h.reorder_bytes > MaxReorderBytes
  <2> HIDE DEF a, h
  <2>1. KeepsFaith(h, FinishRel(h, "BufferExhausted"))
    BY <1>1, <1>3, <1>4, <1>8, FinishRelAborts
  <2>2. Follows(r, h)
    BY <1>1, <1>3, FollowsOn
  <2>3. Lands(r, FinishRel(h, "BufferExhausted"), s)
    BY <1>1, <1>3, <2>1, <2>2, LandsOn DEF SameFrames
  <2> QED BY <1>2, <1>8, <2>3
<1>9. CASE /\ r.rel_state = "Streaming" /\ Fresh(r.gaps, s)
           /\ ~(WindowSpan(a.gaps) > ReorderWindow)
           /\ ~(h.reorder_bytes > MaxReorderBytes)
  <2>1. WindowSpan(Record(r.gaps, s)) <= ReorderWindow
    <3>1. a.gaps.contiguous \in Int /\ a.gaps.highest \in Int
      BY <1>1 DEF RxType, GapType
    <3>2. WindowSpan(a.gaps) \in Int
      BY <3>1 DEF WindowSpan
    <3> QED BY <1>1, <1>9, <3>2, ConfigAssumption
  <2>2. /\ q \in RxType /\ AlwaysTrue(q) /\ Settled(q) /\ Follows(r, q)
        /\ q.arrived = r.arrived \cup {s}
        /\ q.played = IF WantsUnrel THEN r.played \cup {s} ELSE r.played
        /\ q.outcome = NoOutcome
    BY <1>9, <2>1, ReleaseSettles
  <2> HIDE DEF a, h, q
  <2>3. KeepsFaith(q, CheckFinish(q))
    BY <2>2, CheckFinishConcludes DEF NoOutcome
  <2>4. Lands(r, CheckFinish(q), s)
    BY <2>2, <2>3, LandsOn
  <2> QED BY <1>2, <1>9, <2>4
<1> QED BY <1>5, <1>6, <1>7, <1>8, <1>9

-----------------------------------------------------------------------------
(***************************************************************************)
(* The other packets.                                                      *)
(***************************************************************************)
\* End: the final sequence number is noted, then check_finish.
LEMMA OnEndKeeps ==
    ASSUME NEW r \in RxType, RxInv(r)
    PROVE  KeepsFaith(r, CheckFinish([r EXCEPT !.final_seq = NumFrames]))
<1> DEFINE q == [r EXCEPT !.final_seq = NumFrames]
<1>1. q \in RxType
  BY DEF RxType
<1>2. /\ q.gaps = r.gaps /\ q.reorder = r.reorder /\ q.reorder_bytes = r.reorder_bytes
      /\ q.rel_state = r.rel_state /\ q.rel_released = r.rel_released
      /\ q.end_acked = r.end_acked /\ q.closed = r.closed
      /\ q.sender_lost_below = r.sender_lost_below /\ q.outcome = r.outcome
      /\ q.arrived = r.arrived /\ q.played = r.played
  BY DEF RxType
<1>3. r.rel_released \in Int
  BY SizeAssumption DEF RxType
<1> HIDE DEF q
<1>4. AlwaysTrue(q) /\ Settled(q)
  BY <1>2 DEF RxInv, AlwaysTrue, TrackerTrue, Settled
<1>5. q.outcome = "Complete" => q.rel_released = NumFrames /\ q.end_acked
  BY <1>2 DEF RxInv, Concluded
<1>6. KeepsFaith(q, CheckFinish(q))
  BY <1>1, <1>4, <1>5, CheckFinishConcludes
<1>7. Follows(r, q) /\ SameFrames(r, q)
  BY <1>2, <1>3 DEF Follows, SameFrames
<1>8. Follows(r, CheckFinish(q)) /\ SameFrames(r, CheckFinish(q))
  BY <1>1, <1>6, <1>7, FollowsOn DEF KeepsFaith, SameFrames
<1>9. KeepsFaith(r, CheckFinish(q))
  BY <1>6, <1>8 DEF KeepsFaith
<1> QED BY <1>9 DEF q

\* Keepalive: a prefix below lost_below is given up on.
LEMMA OnKeepaliveKeeps ==
    ASSUME NEW r \in RxType, RxInv(r), NEW l \in 0 .. NumFrames
    PROVE  KeepsFaith(r, OnKeepalive(r, l))
<1> DEFINE t == [r EXCEPT !.sender_lost_below = l]
           q == IF l <= r.sender_lost_below THEN r
                ELSE IF r.gaps.contiguous < l THEN FinishRel(t, "SenderDiscarded")
                ELSE t
<1>1. t \in RxType
  BY DEF RxType
<1>2. /\ t.gaps = r.gaps /\ t.reorder = r.reorder /\ t.reorder_bytes = r.reorder_bytes
      /\ t.rel_state = r.rel_state /\ t.rel_released = r.rel_released
      /\ t.end_acked = r.end_acked /\ t.closed = r.closed /\ t.final_seq = r.final_seq
      /\ t.sender_lost_below = l /\ t.outcome = r.outcome
      /\ t.arrived = r.arrived /\ t.played = r.played
  BY DEF RxType
<1>3. r.rel_released \in Int /\ r.gaps.contiguous \in Int
  BY SizeAssumption DEF RxType, GapType
<1>4. OnKeepalive(r, l) = CheckFinish(q)
  BY DEF OnKeepalive
<1> HIDE DEF t
<1>5. AlwaysTrue(t)
  BY <1>2 DEF RxInv, AlwaysTrue, TrackerTrue
<1>6. Concluded(t)
  BY <1>2 DEF RxInv, Concluded
<1>7. Follows(r, t) /\ SameFrames(r, t)
  BY <1>2, <1>3 DEF Follows, SameFrames
<1>8. KeepsFaith(r, q)
  <2>1. CASE l <= r.sender_lost_below
    BY <1>3, <2>1 DEF KeepsFaith, Follows, SameFrames
  <2>2. CASE ~(l <= r.sender_lost_below) /\ r.gaps.contiguous < l
    <3>1. q = FinishRel(t, "SenderDiscarded")
      BY <2>2
    <3>2. CASE r.rel_state = "Streaming"
      <4>1. "SenderDiscarded" \in Aborts
        BY DEF Aborts
      <4>2. KeepsFaith(t, q)
        BY <1>1, <1>2, <1>5, <3>1, <3>2, <4>1, FinishRelAborts
      <4>3. Follows(r, q) /\ SameFrames(r, q)
        BY <1>1, <1>7, <4>2, FollowsOn DEF KeepsFaith, SameFrames
      <4> QED BY <4>2, <4>3 DEF KeepsFaith
    <3>3. CASE r.rel_state = "Finished"
      <4>1. q = t
        BY <1>2, <3>1, <3>3 DEF FinishRel
      <4>2. Settled(t)
        BY <1>2, <3>3 DEF RxInv, Settled
      <4> QED BY <1>1, <1>5, <1>6, <1>7, <4>1, <4>2 DEF KeepsFaith, RxInv
    <3> QED BY <3>2, <3>3 DEF RxType
  <2>3. CASE ~(l <= r.sender_lost_below) /\ ~(r.gaps.contiguous < l)
    <3>1. q = t
      BY <2>3
    <3>2. Settled(t)
      BY <1>2, <1>3, <2>3 DEF RxInv, Settled
    <3> QED BY <1>1, <1>5, <1>6, <1>7, <3>1, <3>2 DEF KeepsFaith, RxInv
  <2> QED BY <2>1, <2>2, <2>3
<1> HIDE DEF q
<1>9. q \in RxType /\ AlwaysTrue(q) /\ Settled(q)
      /\ (q.outcome = "Complete" => q.rel_released = NumFrames /\ q.end_acked)
  BY <1>8 DEF KeepsFaith, RxInv, Concluded
<1>10. KeepsFaith(q, CheckFinish(q))
  BY <1>9, CheckFinishConcludes
<1> QED BY <1>4, <1>8, <1>9, <1>10, FaithOn

-----------------------------------------------------------------------------
(***************************************************************************)
(* The packets to the sender and the timers.                               *)
(***************************************************************************)
\* A gap is a frame of the track.
LEMMA GapsAreFrames ==
    ASSUME NEW g \in GapType PROVE Gaps(g) \subseteq Frames
<1> SUFFICES ASSUME NEW s \in Gaps(g) PROVE s \in Frames
  OBVIOUS
<1>1. s \in (g.contiguous + 1) .. g.highest
  BY DEF Gaps
<1>2. g.contiguous \in 0 .. NumFrames /\ g.highest \in 0 .. NumFrames
  BY DEF GapType
<1> QED BY <1>1, <1>2, SizeAssumption DEF Frames

\* What set_buffered_ms is given, and its default, is a natural number.
LEMMA BufferedIsNat ==
    ASSUME NEW b \in BufferReports \cup {0} PROVE b \in Nat
<1>1. CASE b \in BufferReports
  BY <1>1, ConfigAssumption
<1>2. CASE b = 0
  BY <1>2
<1> QED BY <1>1, <1>2

\* emit_nacks: the table stays within the budget, or the stream is given up.
LEMMA EmitNacksKeeps ==
    ASSUME NEW r \in RxType, RxInv(r), r.rel_state = "Streaming"
    PROVE  KeepsFaith(r, EmitNacks(r))
<1> DEFINE missing   == Missing(r.gaps, MaxNackEntries)
           exhausted == \E s \in missing : \/ s <= r.sender_lost_below
                                           \/ r.nacks[s].n >= MaxNackAttempts
           ask       == {s \in missing : r.nacks[s].since >= NackDelay(r.nacks[s].n)}
           t         == [s \in Frames |-> IF s \in ask
                                          THEN [n |-> r.nacks[s].n + 1, since |-> 0]
                                          ELSE r.nacks[s]]
           o         == r.out \cup {NackPkt(ask)}
           q         == [r EXCEPT !.nacks = t, !.out = o]
<1>1. EmitNacks(r) = IF exhausted THEN FinishRel(r, "UnrecoverableGap")
                     ELSE IF ask = {} THEN r ELSE q
  BY DEF EmitNacks
<1>2. CASE exhausted
  <2>1. "UnrecoverableGap" \in Aborts /\ AlwaysTrue(r)
    BY DEF Aborts, RxInv
  <2>2. EmitNacks(r) = FinishRel(r, "UnrecoverableGap")
    BY <1>1, <1>2
  <2> QED BY <2>1, <2>2, FinishRelAborts
<1>3. CASE ~exhausted /\ ask = {}
  <2>1. EmitNacks(r) = r
    BY <1>1, <1>3
  <2>2. SameCore(r, r)
    BY DEF SameCore
  <2> QED BY <2>1, <2>2, Bookkeeping
<1>4. CASE ~exhausted /\ ask # {}
  <2>1. missing \subseteq Frames
    <3>1. r.gaps \in GapType
      BY DEF RxType
    <3>2. Gaps(r.gaps) \subseteq Frames
      BY <3>1, GapsAreFrames
    <3> QED BY <3>2 DEF Missing
  <2>2. r.nacks \in NackType /\ r.out \in SUBSET SinkPackets
    BY DEF RxType
  <2>3. t \in NackType
    <3> SUFFICES ASSUME NEW s \in Frames
                 PROVE  t[s] \in [n : 0 .. MaxNackAttempts, since : 0 .. NackAgeCap]
      BY DEF NackType
    <3>1. r.nacks[s] \in [n : 0 .. MaxNackAttempts, since : 0 .. NackAgeCap]
      BY <2>2 DEF NackType
    <3>2. CASE s \in ask
      <4>1. ~(r.nacks[s].n >= MaxNackAttempts)
        BY <1>4, <3>2
      <4>2. t[s] = [n |-> r.nacks[s].n + 1, since |-> 0]
        BY <3>2
      <4> QED BY <3>1, <4>1, <4>2, ConfigAssumption
    <3>3. CASE s \notin ask
      <4>1. t[s] = r.nacks[s]
        BY <3>3
      <4> QED BY <3>1, <4>1
    <3> QED BY <3>2, <3>3
  <2>4. o \in SUBSET SinkPackets
    <3>1. ask \in SUBSET Frames
      BY <2>1
    <3> HIDE DEF ask
    <3>2. NackPkt(ask) \in NackPackets
      BY <3>1 DEF NackPkt, NackPackets
    <3> QED BY <2>2, <3>2 DEF SinkPackets
  <2> HIDE DEF t, o
  <2>5. q \in RxType
    BY <2>3, <2>4 DEF RxType
  <2>6. SameCore(r, q)
    BY DEF RxType, SameCore
  <2>7. EmitNacks(r) = q
    BY <1>1, <1>4
  <2> HIDE DEF q
  <2> QED BY <2>5, <2>6, <2>7, Bookkeeping
<1> QED BY <1>2, <1>3, <1>4

\* maybe_ack: one packet more, whose buffered_ms fits.
LEMMA MaybeAckKeeps ==
    ASSUME NEW r \in RxType, RxInv(r)
    PROVE  KeepsFaith(r, MaybeAck(r))
<1> DEFINE zero == 0
           o    == r.out \cup {AckPkt(r)}
           q    == [r EXCEPT !.since_ack = zero, !.out = o]
<1>1. MaybeAck(r) = r \/ MaybeAck(r) = q
  BY DEF MaybeAck
<1>2. SameCore(r, r)
  BY DEF SameCore
<1>3. zero \in 0 .. AckInterval
  BY ConfigAssumption
<1>4. o \in SUBSET SinkPackets
  <2>1. /\ r.gaps.contiguous \in 0 .. NumFrames /\ r.gaps.highest \in 0 .. NumFrames
        /\ r.out \in SUBSET SinkPackets /\ r.buffered_ms \in BufferReports \cup {0}
    BY DEF RxType, GapType
  <2>2. r.buffered_ms \in Nat
    BY <2>1, BufferedIsNat
  <2>3. (IF r.buffered_ms < U16Max THEN r.buffered_ms ELSE U16Max) \in 0 .. U16Max
    BY <2>2, ConfigAssumption
  <2>4. AckPkt(r) \in AckPackets
    BY <2>1, <2>3 DEF AckPkt, AckPackets
  <2> QED BY <2>1, <2>4 DEF SinkPackets
<1> HIDE DEF zero, o
<1>5. q \in RxType
  BY <1>3, <1>4 DEF RxType
<1>6. SameCore(r, q)
  BY DEF RxType, SameCore
<1> HIDE DEF q
<1> QED BY <1>1, <1>2, <1>5, <1>6, Bookkeeping

\* The start of every call: out is emptied and, for a packet, the idle timer reset.
LEMMA QuietKeeps ==
    ASSUME NEW r \in RxType, RxInv(r), NEW a \in 0 .. (IdleTimeout + 1)
    PROVE  /\ KeepsFaith(r, [r EXCEPT !.since_packet = a, !.out = {}])
           /\ KeepsFaith(r, [r EXCEPT !.out = {}])
<1> DEFINE q == [r EXCEPT !.since_packet = a, !.out = {}]
           z == [r EXCEPT !.out = {}]
<1>1. q \in RxType /\ z \in RxType
  BY DEF RxType
<1>2. SameCore(r, q) /\ SameCore(r, z)
  BY DEF RxType, SameCore
<1> HIDE DEF q, z
<1>3. KeepsFaith(r, q) /\ KeepsFaith(r, z)
  BY <1>1, <1>2, Bookkeeping
<1> QED BY <1>3 DEF q, z

\* handle of a data packet.
LEMMA HandleDataLands ==
    ASSUME NEW r \in RxType, RxInv(r), NEW s \in Frames
    PROVE  Lands(r, Handle(r, [type |-> "Data", seq |-> s]), s)
<1> DEFINE zero == 0
           fed  == [r EXCEPT !.since_packet = zero, !.out = {}]
           q    == OnData(fed, s)
<1>1. zero \in 0 .. (IdleTimeout + 1)
  BY ConfigAssumption
<1>2. Handle(r, [type |-> "Data", seq |-> s]) = MaybeAck(q)
  BY DEF Handle
<1> HIDE DEF zero
<1>3. KeepsFaith(r, fed)
  BY <1>1, QuietKeeps
<1> HIDE DEF fed
<1>4. Lands(fed, q, s)
  BY <1>3, OnDataLands DEF KeepsFaith
<1> HIDE DEF q
<1>5. KeepsFaith(q, MaybeAck(q))
  BY <1>4, MaybeAckKeeps DEF Lands
<1>6. Follows(r, q)
  BY <1>3, <1>4, FollowsOn DEF KeepsFaith, Lands
<1> QED BY <1>2, <1>3, <1>4, <1>5, <1>6, LandsOn DEF KeepsFaith, SameFrames, Lands

\* handle of End and of a keepalive.
LEMMA HandleControlKeeps ==
    ASSUME NEW r \in RxType, RxInv(r), NEW l \in 0 .. NumFrames
    PROVE  /\ KeepsFaith(r, Handle(r, [type |-> "End", seq |-> NumFrames]))
           /\ KeepsFaith(r, Handle(r, [type |-> "Keepalive", seq |-> l]))
<1> DEFINE zero == 0
           fed  == [r EXCEPT !.since_packet = zero, !.out = {}]
           e    == CheckFinish([fed EXCEPT !.final_seq = NumFrames])
           k    == OnKeepalive(fed, l)
<1>1. zero \in 0 .. (IdleTimeout + 1)
  BY ConfigAssumption
<1>2. /\ Handle(r, [type |-> "End", seq |-> NumFrames]) = MaybeAck(e)
      /\ Handle(r, [type |-> "Keepalive", seq |-> l]) = MaybeAck(k)
  BY DEF Handle
<1> HIDE DEF zero
<1>3. KeepsFaith(r, fed)
  BY <1>1, QuietKeeps
<1> HIDE DEF fed
<1>4. KeepsFaith(fed, e) /\ KeepsFaith(fed, k)
  BY <1>3, OnEndKeeps, OnKeepaliveKeeps DEF KeepsFaith
<1> HIDE DEF e, k
<1>5. KeepsFaith(e, MaybeAck(e)) /\ KeepsFaith(k, MaybeAck(k))
  BY <1>4, MaybeAckKeeps DEF KeepsFaith
<1>6. fed \in RxType /\ e \in RxType /\ k \in RxType
  BY <1>3, <1>4 DEF KeepsFaith
<1>7. KeepsFaith(r, e) /\ KeepsFaith(r, k)
  BY <1>3, <1>4, <1>6, FaithOn
<1> QED BY <1>2, <1>5, <1>6, <1>7, FaithOn

\* A finished reliable stream may be closed at any time.
LEMMA ClosingKeeps ==
    ASSUME NEW r \in RxType, RxInv(r), r.rel_state = "Finished"
    PROVE  KeepsFaith(r, [r EXCEPT !.closed = TRUE])
<1> DEFINE q == [r EXCEPT !.closed = TRUE]
<1>1. q \in RxType
  BY DEF RxType
<1>2. /\ q.gaps = r.gaps /\ q.reorder = r.reorder /\ q.reorder_bytes = r.reorder_bytes
      /\ q.rel_state = r.rel_state /\ q.rel_released = r.rel_released
      /\ q.final_seq = r.final_seq /\ q.end_acked = r.end_acked /\ q.closed = TRUE
      /\ q.sender_lost_below = r.sender_lost_below /\ q.outcome = r.outcome
      /\ q.arrived = r.arrived /\ q.played = r.played
  BY DEF RxType
<1> HIDE DEF q
<1>3. RxInv(q)
  BY <1>2 DEF RxInv, AlwaysTrue, TrackerTrue, Settled, Concluded
<1>4. r.rel_released \in Int
  BY SizeAssumption DEF RxType
<1>5. Follows(r, q) /\ SameFrames(r, q)
  BY <1>2, <1>4 DEF Follows, SameFrames
<1> QED BY <1>1, <1>3, <1>5 DEF KeepsFaith, q

\* finish_rel whatever the state of the stream.
LEMMA FinishRelKeeps ==
    ASSUME NEW r \in RxType, RxInv(r), NEW o \in Aborts
    PROVE  /\ KeepsFaith(r, FinishRel(r, o))
           /\ FinishRel(r, o).rel_state = "Finished"
<1>1. CASE r.rel_state = "Streaming"
  <2>1. KeepsFaith(r, FinishRel(r, o))
    BY <1>1, FinishRelAborts DEF RxInv
  <2>2. FinishRel(r, o).rel_state = "Finished"
    BY <1>1 DEF FinishRel, RxType
  <2> QED BY <2>1, <2>2
<1>2. CASE r.rel_state = "Finished"
  <2>1. FinishRel(r, o) = r
    BY <1>2 DEF FinishRel
  <2>2. SameCore(r, r)
    BY DEF SameCore
  <2> QED BY <1>2, <2>1, <2>2, Bookkeeping
<1> QED BY <1>1, <1>2 DEF RxType

\* tick.
LEMMA OnTickKeeps ==
    ASSUME NEW r \in RxType, RxInv(r)
    PROVE  KeepsFaith(r, OnTick(r))
<1> DEFINE quiet == [r EXCEPT !.out = {}]
           gone  == FinishRel(quiet, "PeerGone")
           q     == IF r.rel_state # "Streaming" THEN quiet
                    ELSE IF r.since_rel > RelStallTimeout THEN FinishRel(quiet, "Stalled")
                    ELSE EmitNacks(quiet)
<1>1. OnTick(r) = IF r.closed THEN quiet
                  ELSE IF r.since_packet > IdleTimeout
                  THEN [gone EXCEPT !.closed = TRUE]
                  ELSE MaybeAck(q)
  BY DEF OnTick
<1>2. KeepsFaith(r, quiet) /\ quiet.rel_state = r.rel_state
  <2>1. r.since_packet \in 0 .. (IdleTimeout + 1)
    BY DEF RxType
  <2> QED BY <2>1, QuietKeeps DEF RxType
<1> HIDE DEF quiet
<1>3. quiet \in RxType /\ RxInv(quiet)
  BY <1>2 DEF KeepsFaith
<1>4. "PeerGone" \in Aborts /\ "Stalled" \in Aborts
  BY DEF Aborts
<1>5. KeepsFaith(r, [gone EXCEPT !.closed = TRUE])
  <2>1. KeepsFaith(quiet, gone) /\ gone.rel_state = "Finished"
    BY <1>3, <1>4, FinishRelKeeps
  <2> HIDE DEF gone
  <2>2. gone \in RxType /\ RxInv(gone)
    BY <2>1 DEF KeepsFaith
  <2>3. KeepsFaith(gone, [gone EXCEPT !.closed = TRUE])
    BY <2>1, <2>2, ClosingKeeps
  <2>4. KeepsFaith(r, gone)
    BY <1>2, <1>3, <2>1, FaithOn
  <2> QED BY <2>2, <2>3, <2>4, FaithOn
<1>6. KeepsFaith(r, MaybeAck(q))
  <2>1. KeepsFaith(r, q)
    <3>1. CASE r.rel_state # "Streaming"
      BY <1>2, <3>1
    <3>2. CASE r.rel_state = "Streaming" /\ r.since_rel > RelStallTimeout
      <4>1. KeepsFaith(quiet, FinishRel(quiet, "Stalled"))
        BY <1>3, <1>4, FinishRelKeeps
      <4>2. q = FinishRel(quiet, "Stalled")
        BY <3>2
      <4> QED BY <1>2, <1>3, <4>1, <4>2, FaithOn
    <3>3. CASE r.rel_state = "Streaming" /\ ~(r.since_rel > RelStallTimeout)
      <4>1. KeepsFaith(quiet, EmitNacks(quiet))
        BY <1>2, <1>3, <3>3, EmitNacksKeeps
      <4>2. q = EmitNacks(quiet)
        BY <3>3
      <4> QED BY <1>2, <1>3, <4>1, <4>2, FaithOn
    <3> QED BY <3>1, <3>2, <3>3
  <2> HIDE DEF q
  <2>2. q \in RxType /\ RxInv(q)
    BY <2>1 DEF KeepsFaith
  <2>3. KeepsFaith(q, MaybeAck(q))
    BY <2>2, MaybeAckKeeps
  <2> QED BY <2>1, <2>2, <2>3, FaithOn
<1> HIDE DEF gone, q
<1> QED BY <1>1, <1>2, <1>5, <1>6

\* set_buffered_ms.
LEMMA WithBufferedKeeps ==
    ASSUME NEW r \in RxType, RxInv(r), NEW ms \in BufferReports
    PROVE  KeepsFaith(r, WithBuffered(r, ms))
<1> DEFINE q == WithBuffered(r, ms)
<1>1. q = [r EXCEPT !.buffered_ms = ms, !.out = {}]
  BY DEF WithBuffered
<1> HIDE DEF q
<1>2. q \in RxType
  BY <1>1 DEF RxType
<1>3. SameCore(r, q)
  BY <1>1 DEF RxType, SameCore
<1> QED BY <1>2, <1>3, Bookkeeping DEF q

\* The clock.
LEMMA OlderInRange ==
    ASSUME NEW cap \in Nat, NEW age \in 0 .. cap
    PROVE  Older(age, cap) \in 0 .. cap
BY DEF Older

\* A unit of time passes: only ages change.
LEMMA AgedKeeps ==
    ASSUME NEW r \in RxType, RxInv(r)
    PROVE  KeepsFaith(r, Aged(r))
<1> DEFINE a == Older(r.since_packet, IdleTimeout + 1)
           b == Older(r.since_ack, AckInterval)
           c == Older(r.since_rel, RelStallTimeout + 1)
           t == [s \in Frames |-> [n     |-> r.nacks[s].n,
                                   since |-> Older(r.nacks[s].since, NackAgeCap)]]
           q == Aged(r)
<1>1. q = [r EXCEPT !.out = {}, !.since_packet = a, !.since_ack = b,
                    !.since_rel = c, !.nacks = t]
  BY DEF Aged
<1>2. /\ a \in 0 .. (IdleTimeout + 1) /\ b \in 0 .. AckInterval
      /\ c \in 0 .. (RelStallTimeout + 1)
  <2>1. /\ r.since_packet \in 0 .. (IdleTimeout + 1) /\ r.since_ack \in 0 .. AckInterval
        /\ r.since_rel \in 0 .. (RelStallTimeout + 1)
    BY DEF RxType
  <2>2. IdleTimeout + 1 \in Nat /\ AckInterval \in Nat /\ RelStallTimeout + 1 \in Nat
    BY ConfigAssumption
  <2> QED BY <2>1, <2>2, OlderInRange
<1>3. t \in NackType
  <2> SUFFICES ASSUME NEW s \in Frames
               PROVE  t[s] \in [n : 0 .. MaxNackAttempts, since : 0 .. NackAgeCap]
    BY DEF NackType
  <2>1. r.nacks[s] \in [n : 0 .. MaxNackAttempts, since : 0 .. NackAgeCap]
    BY DEF RxType, NackType
  <2>2. Older(r.nacks[s].since, NackAgeCap) \in 0 .. NackAgeCap
    BY <2>1, ConfigAssumption, OlderInRange
  <2> QED BY <2>1, <2>2
<1> HIDE DEF a, b, c, t, q
<1>4. q \in RxType
  BY <1>1, <1>2, <1>3 DEF RxType
<1>5. SameCore(r, q)
  BY <1>1 DEF RxType, SameCore
<1> QED BY <1>4, <1>5, Bookkeeping DEF q

-----------------------------------------------------------------------------
(***************************************************************************)
(* The specification.                                                      *)
(***************************************************************************)
\* A new receiver.
LEMMA NewIsGood == Init => TypeOK /\ IndInv
<1> SUFFICES ASSUME Init PROVE TypeOK /\ IndInv
  OBVIOUS
<1> DEFINE free == [s \in Frames |-> NotAsked]
           zero == 0
           new  == [gaps |-> GapTrackerNew, reorder |-> {}, reorder_bytes |-> zero,
                    rel_state |-> "Streaming", rel_released |-> zero,
                    final_seq |-> NoEnd, end_acked |-> FALSE, closed |-> FALSE,
                    nacks |-> free, sender_lost_below |-> zero,
                    since_packet |-> zero, since_ack |-> zero, since_rel |-> zero,
                    buffered_ms |-> zero, out |-> {}, outcome |-> NoOutcome,
                    arrived |-> {}, played |-> {}, replayed |-> {}]
<1>1. rx = new
  BY DEF Init, XferReceiverNew
<1>2. free \in NackType
  BY NoNacksTyped
<1>3. /\ GapTrackerNew \in GapType /\ GapTrackerNew.contiguous = 0
      /\ GapTrackerNew.ahead = {} /\ GapTrackerNew.highest = 0
  BY SizeAssumption DEF GapTrackerNew, GapType
<1>4. NoOutcome \in Outcomes /\ NoOutcome # "Complete"
  BY DEF Outcomes, NoOutcome
<1>5. /\ zero \in 0 .. (IdleTimeout + 1) /\ zero \in 0 .. AckInterval
      /\ zero \in 0 .. (RelStallTimeout + 1) /\ zero \in 0 .. NumFrames
      /\ zero \in Int /\ zero \in BufferReports \cup {0} /\ zero = 0
  BY SizeAssumption, ConfigAssumption
<1> HIDE DEF free, zero
<1>6. TypeOK
  BY <1>1, <1>2, <1>3, <1>4, <1>5 DEF TypeOK, RxType
<1>7. IndInv
  BY <1>1, <1>3, <1>4, <1>5, SizeAssumption, ConfigAssumption
     DEF IndInv, RxInv, AlwaysTrue, TrackerTrue, Settled, Concluded, WindowSpan
<1> QED BY <1>6, <1>7

\* Every call either takes a frame in or is without one; both keep the invariant.
LEMMA StepIsGood ==
    ASSUME TypeOK, IndInv, Next
    PROVE  (\E s \in Frames : Lands(rx, rx', s)) \/ KeepsFaith(rx, rx')
<1>0. rx \in RxType /\ RxInv(rx)
  BY DEF TypeOK, IndInv
<1>1. CASE HandleData
  BY <1>0, <1>1, HandleDataLands DEF HandleData
<1>2. CASE HandleEnd
  <2>1. 0 \in 0 .. NumFrames
    BY SizeAssumption
  <2> QED BY <1>0, <1>2, <2>1, HandleControlKeeps DEF HandleEnd
<1>3. CASE HandleKeepalive
  BY <1>0, <1>3, HandleControlKeeps DEF HandleKeepalive
<1>4. CASE Tick
  BY <1>0, <1>4, OnTickKeeps DEF Tick
<1>5. CASE SetBufferedMs
  BY <1>0, <1>5, WithBufferedKeeps DEF SetBufferedMs
<1>6. CASE Elapse
  BY <1>0, <1>6, AgedKeeps DEF Elapse
<1> QED BY <1>1, <1>2, <1>3, <1>4, <1>5, <1>6 DEF Next

\* The receiver's fields keep their types and the invariant holds between any
\* two calls, whatever the network repeats, loses and reorders (receiver.rs as
\* a whole).
THEOREM ReceiverCorrect == Spec => [](TypeOK /\ IndInv)
<1>1. Init => TypeOK /\ IndInv
  BY NewIsGood
<1>2. TypeOK /\ IndInv /\ [Next]_rx => (TypeOK /\ IndInv)'
  <2> SUFFICES ASSUME TypeOK, IndInv, [Next]_rx PROVE (TypeOK /\ IndInv)'
    OBVIOUS
  <2>1. CASE Next
    BY <2>1, StepIsGood DEF Lands, KeepsFaith, TypeOK, IndInv
  <2>2. CASE UNCHANGED rx
    BY <2>2 DEF TypeOK, IndInv
  <2> QED BY <2>1, <2>2
<1> QED BY <1>1, <1>2, PTL DEF Spec

\* Type correctness alone: in particular every Ack's buffered_ms fits a u16
\* (maybe_ack) and no gap is asked for more often than the budget (emit_nacks).
THEOREM ReceiverTypes == Spec => []TypeOK
BY ReceiverCorrect, PTL

\* `Complete` means a whole, released, acknowledged and closed copy
\* (check_finish).
THEOREM CompleteIsWhole == Spec => []CompleteMeansEverything
<1>1. TypeOK /\ IndInv => CompleteMeansEverything
  BY SizeAssumption DEF TypeOK, IndInv, RxInv, AlwaysTrue, Concluded, CompleteMeansEverything
<1> QED BY <1>1, ReceiverCorrect, PTL

\* EndAck is sent only for a transfer that has landed whole (check_finish).
THEOREM EndAckIsTrue == Spec => []EndAckMeansEverything
<1>1. IndInv => EndAckMeansEverything
  BY DEF IndInv, RxInv, AlwaysTrue, EndAckMeansEverything
<1> QED BY <1>1, ReceiverCorrect, PTL

\* Playback is given exactly the frames that arrive (on_data).
THEOREM PlaybackIsComplete == Spec => []PlaybackSeesEveryArrival
<1>1. IndInv => PlaybackSeesEveryArrival
  BY DEF IndInv, RxInv, AlwaysTrue, PlaybackSeesEveryArrival
<1> QED BY <1>1, ReceiverCorrect, PTL

\* A reliable stream that is alive needs nothing the sender has dropped (handle).
THEOREM NothingNeededIsGone == Spec => []NothingNeededIsLost
<1>1. IndInv => NothingNeededIsLost
  BY DEF IndInv, RxInv, Settled, NothingNeededIsLost, Streaming
<1> QED BY <1>1, ReceiverCorrect, PTL

\* The finish is never missed, whatever the order of the last frame and End
\* (check_finish and its callers).
THEOREM FinishIsNeverMissed == Spec => []NoMissedFinish
<1>1. TypeOK /\ IndInv => NoMissedFinish
  <2> SUFFICES ASSUME TypeOK, IndInv PROVE NoMissedFinish
    OBVIOUS
  <2>1. /\ rx.rel_state \in {"Streaming", "Finished"}
        /\ rx.gaps.contiguous \in Nat /\ NumFrames \in Nat
        /\ rx.gaps \in GapType
    BY SizeAssumption DEF TypeOK, RxType, GapType
  <2>2. Streaming <=> rx.outcome = NoOutcome
    BY <2>1 DEF IndInv, RxInv, AlwaysTrue, Streaming
  <2>3. rx.closed => ~Streaming
    BY DEF IndInv, RxInv, AlwaysTrue, Streaming
  <2>4. ASSUME rx.final_seq # NoEnd, rx.arrived = Frames, Streaming PROVE FALSE
    <3>1. rx.gaps.contiguous < NumFrames
      BY <2>4 DEF IndInv, RxInv, Concluded, Streaming
    <3>2. rx.gaps.contiguous + 1 \in rx.arrived
      BY <2>1, <2>4, <3>1 DEF Frames
    <3>3. rx.arrived = 1 .. rx.gaps.contiguous \cup rx.gaps.ahead
      BY <2>4 DEF IndInv, RxInv, Settled, Streaming
    <3>4. rx.gaps.ahead \subseteq (rx.gaps.contiguous + 2) .. rx.gaps.highest
      BY DEF IndInv, RxInv, AlwaysTrue, TrackerTrue
    <3> QED BY <2>1, <3>2, <3>3, <3>4
  <2> QED BY <2>2, <2>3, <2>4 DEF NoMissedFinish
<1> QED BY <1>1, ReceiverCorrect, PTL

-----------------------------------------------------------------------------
(***************************************************************************)
(* The receiver implements DualStream: a call that takes a frame in is a   *)
(* Land of that frame, every other call is a Conclude or changes nothing   *)
(* DualStream can see.                                                     *)
(***************************************************************************)
\* What the cache side of a good step looks like from outside.
LEMMA OutputsMove ==
    ASSUME NEW r \in RxType, RxInv(r), NEW q \in RxType, RxInv(q), Follows(r, q)
    PROVE  /\ IF r.outcome # NoOutcome
              THEN q.rel_released = r.rel_released /\ q.outcome = r.outcome
              ELSE /\ q.rel_released \in r.rel_released .. NumFrames
                   /\ 1 .. q.rel_released \subseteq q.arrived
                   /\ \/ q.outcome \in {NoOutcome} \cup Aborts
                      \/ q.outcome = "Complete" /\ q.rel_released = NumFrames
           /\ q.closed \in BOOLEAN
           /\ r.closed => q.closed
           /\ q.closed => q.outcome # NoOutcome
<1>1. /\ r.rel_state \in {"Streaming", "Finished"}
      /\ q.rel_state \in {"Streaming", "Finished"}
      /\ q.closed \in BOOLEAN /\ q.outcome \in Outcomes
  BY DEF RxType
<1>2. /\ r.rel_released \in Nat /\ q.rel_released \in Nat /\ q.rel_released <= NumFrames
      /\ NumFrames \in Nat
  BY SizeAssumption DEF RxType
<1>3. q.gaps.contiguous \in Nat
  BY SizeAssumption DEF RxType, GapType
<1>4. r.outcome # NoOutcome => r.rel_state = "Finished"
  BY <1>1 DEF RxInv, AlwaysTrue
<1>5. r.rel_released <= q.rel_released /\ (r.closed => q.closed)
  BY DEF Follows
<1>6. 1 .. q.rel_released \subseteq q.arrived
  <2>1. q.rel_released <= q.gaps.contiguous /\ 1 .. q.gaps.contiguous \subseteq q.arrived
    BY DEF RxInv, AlwaysTrue, TrackerTrue
  <2> QED BY <1>2, <1>3, <2>1
<1>7. q.outcome = "Complete" => q.rel_released = NumFrames
  BY DEF RxInv, Concluded
<1>8. q.closed => q.outcome # NoOutcome
  BY <1>1 DEF RxInv, AlwaysTrue
<1>9. r.outcome # NoOutcome => q.rel_released = r.rel_released /\ q.outcome = r.outcome
  BY <1>4 DEF Follows
<1>10. q.rel_released \in r.rel_released .. NumFrames
  BY <1>2, <1>5
<1>11. \/ q.outcome \in {NoOutcome} \cup Aborts
       \/ q.outcome = "Complete" /\ q.rel_released = NumFrames
  BY <1>1, <1>7 DEF Outcomes
<1> QED BY <1>1, <1>5, <1>6, <1>8, <1>9, <1>10, <1>11

\* The receiver, with all its windows, retries and timers, is an implementation
\* of two independent outputs of one stream of frames (receiver.rs as a whole).
THEOREM ReceiverImplementsDualStream == Spec => ImplementsDualStream
<1>1. Init => Tee!Init
  BY DEF Init, XferReceiverNew, Tee!Init
<1>2. TypeOK /\ IndInv /\ (TypeOK /\ IndInv)' /\ [Next]_rx => [Tee!Next]_(Tee!dsVars)
  <2> SUFFICES ASSUME TypeOK, IndInv, [Next]_rx, (TypeOK /\ IndInv)'
               PROVE  Tee!Next \/ UNCHANGED Tee!dsVars
    OBVIOUS
  <2>1. CASE UNCHANGED rx
    BY <2>1 DEF Tee!dsVars
  <2>2. CASE Next
    <3>0. rx \in RxType /\ RxInv(rx) /\ rx' \in RxType /\ RxInv(rx')
      BY DEF TypeOK, IndInv
    <3>1. ASSUME Follows(rx, rx') PROVE Tee!CacheMoves /\ Tee!MayClose
      <4>1. Tee!CacheMoves
        BY <3>0, <3>1, OutputsMove DEF Tee!CacheMoves
      <4>2. Tee!MayClose
        BY <3>0, <3>1, OutputsMove DEF Tee!MayClose
      <4> QED BY <4>1, <4>2
    <3>2. CASE KeepsFaith(rx, rx')
      BY <3>1, <3>2 DEF KeepsFaith, SameFrames, Tee!Next, Tee!Conclude
    <3>3. ASSUME NEW s \in Frames, Lands(rx, rx', s) PROVE Tee!Next
      <4>1. Tee!Land(s)
        BY <3>1, <3>3 DEF Lands, Tee!Land
      <4> QED BY <4>1 DEF Tee!Next, Frames
    <3> QED BY <2>2, <3>2, <3>3, StepIsGood
  <2> QED BY <2>1, <2>2
<1> QED BY <1>1, <1>2, ReceiverCorrect, PTL DEF Spec, ImplementsDualStream, Tee!Spec
=============================================================================
