----------------------- MODULE XferReceiverCallsProof -----------------------
(***************************************************************************)
(* What one call of the receiver says and why: the packets it puts out are *)
(* true, an abort it decides on is justified, and its buffer stays within  *)
(* both ceilings.  XferReceiverProof carries the state from call to call;  *)
(* this module follows the packets, the abort reason and the byte count    *)
(* through the operators a call is made of.                                *)
(***************************************************************************)
EXTENDS XferReceiverProof

-----------------------------------------------------------------------------
(***************************************************************************)
(* The byte count.  The model adds payload lengths up with a fold that     *)
(* takes the frames of a set in some order.  Sum says what the fold        *)
(* computes: Sum(F) is a table, over all sets of frames, of what it        *)
(* returns.                                                                *)
(***************************************************************************)
Pick(x) == CHOOSE e \in x : TRUE

\* One turn of the fold.
Turn(F, x) == IF x = {} THEN 0 ELSE PayloadLen(Pick(x)) + F[x \ {Pick(x)}]

Sum(F) == F \in [SUBSET Frames -> Int] /\ \A x \in SUBSET Frames : F[x] = Turn(F, x)

\* A payload length is a natural number.
LEMMA PayloadNat == \A s \in Frames : PayloadLen(s) \in Nat
<1> SUFFICES ASSUME NEW s \in Frames PROVE PayloadLen(s) \in Nat
  OBVIOUS
<1>1. s \in 0 .. NumFrames /\ s - 1 \in 0 .. NumFrames
  BY SizeAssumption DEF Frames
<1>2. Offset[s] \in Nat /\ Offset[s - 1] \in Nat /\ Offset[s - 1] <= Offset[s]
  BY <1>1, SizeAssumption
<1> QED BY <1>2 DEF PayloadLen

\* Taking the picked frame out leaves a smaller set of frames.
LEMMA Smaller ==
    ASSUME NEW x \in SUBSET Frames
    PROVE  /\ IsFiniteSet(x) /\ Cardinality(x) \in Nat
           /\ Cardinality(x) = 0 <=> x = {}
           /\ x # {} => Pick(x) \in x
           /\ \A e \in x : Cardinality(x \ {e}) = Cardinality(x) - 1
<1>1. IsFiniteSet(x)
  <2>1. IsFiniteSet(Frames)
    BY SizeAssumption, FS_Interval DEF Frames
  <2> QED BY <2>1, FS_Subset
<1>2. x # {} => Pick(x) \in x
  BY DEF Pick
<1> QED BY <1>1, <1>2, FS_CardinalityType, FS_EmptySet, FS_RemoveElement

\* The fold ends: there is such a table.  Suppose there is none that is right
\* for all sets of up to n frames, with n as small as possible, and extend the
\* one for n - 1.
LEMMA SumExists == \E F : Sum(F)
<1> DEFINE Upto(n) == \E F \in [SUBSET Frames -> Int] :
                         \A x \in SUBSET Frames : Cardinality(x) <= n => F[x] = Turn(F, x)
           T == {n \in Nat : ~Upto(n)}
<1>1. Upto(0)
  <2> DEFINE F == [x \in SUBSET Frames |-> 0]
  <2>1. F \in [SUBSET Frames -> Int]
    OBVIOUS
  <2>2. ASSUME NEW x \in SUBSET Frames, Cardinality(x) <= 0 PROVE F[x] = Turn(F, x)
    <3>1. x = {}
      BY <2>2, Smaller
    <3> QED BY <3>1 DEF Turn
  <2> QED BY <2>1, <2>2
<1>2. ASSUME NEW n \in Nat, Upto(n) PROVE Upto(n + 1)
  <2>1. PICK F \in [SUBSET Frames -> Int] :
           \A x \in SUBSET Frames : Cardinality(x) <= n => F[x] = Turn(F, x)
    BY <1>2
  <2> DEFINE G == [x \in SUBSET Frames |-> IF Cardinality(x) <= n THEN F[x] ELSE Turn(F, x)]
  <2>2. ASSUME NEW x \in SUBSET Frames PROVE Turn(F, x) \in Int
    <3>1. CASE x = {}
      BY <3>1 DEF Turn
    <3>2. CASE x # {}
      <4>1. Pick(x) \in Frames /\ x \ {Pick(x)} \in SUBSET Frames
        BY <3>2, Smaller
      <4>2. PayloadLen(Pick(x)) \in Int /\ F[x \ {Pick(x)}] \in Int
        BY <4>1, PayloadNat
      <4> QED BY <3>2, <4>2 DEF Turn
    <3> QED BY <3>1, <3>2
  <2>3. G \in [SUBSET Frames -> Int]
    BY <2>2
  <2>4. ASSUME NEW x \in SUBSET Frames, Cardinality(x) <= n + 1 PROVE G[x] = Turn(G, x)
    <3>1. G[x] = Turn(F, x)
      BY <2>1
    <3>2. CASE x = {}
      BY <3>1, <3>2 DEF Turn
    <3>3. CASE x # {}
      <4> DEFINE y == x \ {Pick(x)}
      <4>1. y \in SUBSET Frames /\ Cardinality(y) <= n
        BY <2>4, <3>3, Smaller
      <4>2. G[y] = F[y]
        BY <4>1
      <4> QED BY <3>1, <3>3, <4>2 DEF Turn
    <3> QED BY <3>2, <3>3
  <2> HIDE DEF G
  <2> QED BY <2>3, <2>4
<1> HIDE DEF Upto
<1>3. \A n \in Nat : Upto(n)
  <2> SUFFICES ASSUME T # {} PROVE FALSE
    OBVIOUS
  <2>1. PICK k \in T : \A j \in T : k <= j
    <3>1. T \in SUBSET Nat
      OBVIOUS
    <3> HIDE DEF T
    <3> QED BY <3>1, LeastNatural
  <2>2. k # 0 /\ k \in Nat
    BY <1>1
  <2>3. k - 1 \in Nat /\ k - 1 \notin T
    BY <2>1, <2>2
  <2>4. Upto((k - 1) + 1)
    BY <1>2, <2>3
  <2> QED BY <2>1, <2>2, <2>4
<1>4. PICK F \in [SUBSET Frames -> Int] :
         \A x \in SUBSET Frames : Cardinality(x) <= NumFrames => F[x] = Turn(F, x)
  BY <1>3, SizeAssumption DEF Upto
<1>5. \A x \in SUBSET Frames : Cardinality(x) <= NumFrames
  <2> TAKE x \in SUBSET Frames
  <2>1. IsFiniteSet(Frames) /\ Cardinality(Frames) = NumFrames
    BY SizeAssumption, FS_Interval DEF Frames
  <2> QED BY <2>1, FS_Subset
<1> QED BY <1>4, <1>5 DEF Sum

\* The fold over a set returns what any such table says.
LEMMA SumIsFold ==
    ASSUME NEW F, Sum(F), NEW S \in SUBSET Frames
    PROVE  MapThenSumSet(PayloadLen, S) = F[S]
<1> DEFINE body(f) == [x \in SUBSET S |->
                         IF x = {} THEN 0 ELSE PayloadLen(Pick(x)) + f[x \ {Pick(x)}]]
           sum     == CHOOSE f : f = body(f)
           bad     == {x \in SUBSET S : sum[x] # F[x]}
           T       == {Cardinality(x) : x \in bad}
<1>1. MapThenSumSet(PayloadLen, S) = sum[S]
  BY DEF MapThenSumSet, MapThenFoldSet, Pick
<1>2. sum = body(sum)
  <2> DEFINE G == [x \in SUBSET S |-> F[x]]
  <2>1. ASSUME NEW x \in SUBSET S PROVE G[x] = body(G)[x]
    <3>1. F[x] = Turn(F, x)
      BY DEF Sum
    <3>2. x \ {Pick(x)} \in SUBSET S
      OBVIOUS
    <3> QED BY <3>1, <3>2 DEF Turn
  <2>2. G = body(G)
    BY <2>1
  <2> HIDE DEF body, G
  <2> QED BY <2>2
<1> HIDE DEF sum
<1>3. \A x \in SUBSET S : sum[x] = Turn(sum, x)
  <2> TAKE x \in SUBSET S
  <2>1. sum[x] = body(sum)[x]
    BY <1>2, Zenon
  <2> QED BY <2>1 DEF Turn
<1>4. bad = {}
  <2> SUFFICES ASSUME bad # {} PROVE FALSE
    OBVIOUS
  <2>1. T \in SUBSET Nat /\ T # {}
    BY Smaller
  <2>2. PICK k \in T : \A j \in T : k <= j
    <3> HIDE DEF T
    <3> QED BY <2>1, LeastNatural
  <2>3. PICK x \in bad : k = Cardinality(x)
    BY <2>2
  <2>4. x \in SUBSET S /\ x \in SUBSET Frames /\ sum[x] # F[x]
    BY <2>3
  <2>5. sum[x] = Turn(sum, x) /\ F[x] = Turn(F, x)
    BY <1>3, <2>4 DEF Sum
  <2>6. x # {}
    BY <2>4, <2>5 DEF Turn
  <2> DEFINE y == x \ {Pick(x)}
  <2>7. y \in SUBSET S /\ Cardinality(y) < Cardinality(x) /\ Cardinality(y) \in Nat
    BY <2>4, <2>6, Smaller
  <2>8. y \notin bad
    BY <2>1, <2>2, <2>3, <2>7
  <2> QED BY <2>4, <2>5, <2>6, <2>7, <2>8 DEF Turn
<1> QED BY <1>1, <1>4

\* The order does not matter: a frame more adds its length.  Take the smallest
\* set for which it would not.
LEMMA SumAdds ==
    ASSUME NEW F, Sum(F)
    PROVE  \A x \in SUBSET Frames : \A s \in Frames \ x :
              F[x \cup {s}] = F[x] + PayloadLen(s)
<1> DEFINE Adds(x) == \A s \in Frames \ x : F[x \cup {s}] = F[x] + PayloadLen(s)
           bad == {x \in SUBSET Frames : ~Adds(x)}
           T   == {Cardinality(x) : x \in bad}
<1> SUFFICES ASSUME bad # {} PROVE FALSE
  OBVIOUS
<1>1. T \in SUBSET Nat /\ T # {}
  BY Smaller
<1>2. PICK k \in T : \A j \in T : k <= j
  <2> HIDE DEF T
  <2> QED BY <1>1, LeastNatural
<1>3. PICK x \in bad : k = Cardinality(x)
  BY <1>2
<1>4. x \in SUBSET Frames
  BY <1>3
<1>5. PICK s \in Frames \ x : F[x \cup {s}] # F[x] + PayloadLen(s)
  BY <1>3
<1> DEFINE y == x \cup {s}
           p == Pick(y)
           z == x \ {p}
<1>6. y \in SUBSET Frames /\ p \in y /\ F[y] = PayloadLen(p) + F[y \ {p}]
  <2>1. y \in SUBSET Frames /\ y # {}
    BY <1>4, <1>5
  <2>2. F[y] = Turn(F, y)
    BY <2>1 DEF Sum
  <2> QED BY <2>1, <2>2, Smaller DEF Turn
<1>7. /\ PayloadLen(p) \in Int /\ PayloadLen(s) \in Int /\ F[x] \in Int
      /\ z \in SUBSET Frames /\ F[z] \in Int
  BY <1>4, <1>5, <1>6, PayloadNat DEF Sum
<1>8. F[y] # F[x] + PayloadLen(s)
  BY <1>5
<1>9. /\ p = s => y \ {p} = x
      /\ p # s => /\ p \in x /\ x = z \cup {p} /\ y \ {p} = z \cup {s}
                  /\ s \in Frames \ z /\ p \in Frames \ z
  BY <1>4, <1>5, <1>6
<1>10. p # s => Cardinality(z) < Cardinality(x) /\ Cardinality(z) \in Nat /\ Cardinality(x) \in Nat
  <2>1. p # s => Cardinality(z) = Cardinality(x) - 1
    BY <1>4, <1>9, Smaller
  <2>2. Cardinality(z) \in Nat /\ Cardinality(x) \in Nat
    BY <1>4, <1>7, Smaller
  <2> QED BY <2>1, <2>2
<1> HIDE DEF y, p, z
<1>11. CASE p = s
  <2>1. F[y \ {p}] = F[x] /\ PayloadLen(p) = PayloadLen(s)
    BY <1>9, <1>11, Zenon
  <2>2. F[y] = PayloadLen(s) + F[x]
    BY <1>6, <2>1, Zenon
  <2> QED BY <1>7, <1>8, <2>2
<1>12. CASE p # s
  <2>1. z \notin bad
    <3> SUFFICES ASSUME z \in bad PROVE FALSE
      OBVIOUS
    <3>1. Cardinality(z) \in T
      OBVIOUS
    <3> QED BY <1>2, <1>3, <1>10, <1>12, <3>1
  <2>2. Adds(z)
    BY <1>7, <2>1
  <2>3. F[z \cup {s}] = F[z] + PayloadLen(s) /\ F[z \cup {p}] = F[z] + PayloadLen(p)
    BY <1>9, <1>12, <2>2
  <2>4. F[y \ {p}] = F[z \cup {s}] /\ F[x] = F[z \cup {p}]
    BY <1>9, <1>12, Zenon
  <2> QED BY <1>6, <1>7, <1>8, <2>3, <2>4
<1> QED BY <1>11, <1>12

\* Taking out a run of frames takes out the distance between its two offsets.
LEMMA SumRun ==
    ASSUME NEW F, Sum(F), NEW S \in SUBSET Frames,
           NEW k \in 0 .. NumFrames, NEW c \in k .. NumFrames, (k + 1) .. c \subseteq S
    PROVE  F[S] = F[S \ ((k + 1) .. c)] + (Offset[c] - Offset[k])
<1> DEFINE Out(e) == F[S] = F[S \ ((k + 1) .. e)] + (Offset[e] - Offset[k])
           T      == {e \in k .. c : ~Out(e)}
<1>0. k \in Nat /\ c \in Nat /\ NumFrames \in Nat /\ k <= c /\ c <= NumFrames
  BY SizeAssumption
<1> SUFFICES ASSUME ~Out(c) PROVE FALSE
  OBVIOUS
<1>1. T \in SUBSET Nat /\ c \in T
  <2> HIDE DEF Out
  <2> QED BY <1>0
<1>2. PICK e \in T : \A j \in T : e <= j
  <2> HIDE DEF T
  <2> QED BY <1>1, LeastNatural
<1>3. e \in k .. c /\ ~Out(e) /\ e \in Nat
  <2> HIDE DEF Out
  <2> QED BY <1>1, <1>2
<1>4. e # k
  <2> SUFFICES ASSUME e = k PROVE FALSE
    OBVIOUS
  <2>1. S \ ((k + 1) .. k) = S /\ Offset[k] \in Int /\ F[S] \in Int
    BY <1>0, SizeAssumption DEF Sum
  <2>2. F[S \ ((k + 1) .. k)] = F[S]
    BY <2>1, Zenon
  <2>3. Out(k)
    BY <2>1, <2>2
  <2> HIDE DEF Out
  <2> QED BY <1>3, <2>3
<1>5. e - 1 \in k .. c /\ Out(e - 1)
  <2> HIDE DEF Out
  <2>1. e - 1 \in k .. c /\ e - 1 \notin T
    BY <1>0, <1>1, <1>2, <1>3, <1>4
  <2> QED BY <2>1
<1> DEFINE x == S \ ((k + 1) .. e)
           y == S \ ((k + 1) .. (e - 1))
<1>6. e \in Frames \ x /\ y = x \cup {e} /\ x \in SUBSET Frames /\ y \in SUBSET Frames
  BY <1>0, <1>3, <1>4 DEF Frames
<1>7. Offset[e] \in Int /\ Offset[e - 1] \in Int /\ Offset[k] \in Int
  BY <1>0, <1>3, <1>5, SizeAssumption
<1>8. F[S] = F[y] + (Offset[e - 1] - Offset[k])
  BY <1>5
<1>9. F[S] # F[x] + (Offset[e] - Offset[k])
  BY <1>3
<1> HIDE DEF x, y
<1>10. F[y] = F[x] + PayloadLen(e) /\ F[x] \in Int /\ F[y] \in Int /\ F[S] \in Int
  <2>1. F[x \cup {e}] = F[x] + PayloadLen(e)
    BY <1>6, SumAdds
  <2>2. F[x] \in Int /\ F[y] \in Int /\ F[S] \in Int
    BY <1>6 DEF Sum
  <2> QED BY <1>6, <2>1, <2>2
<1> QED BY <1>7, <1>8, <1>9, <1>10 DEF PayloadLen

\* Offsets grow along the track.
LEMMA OffsetsGrow ==
    ASSUME NEW k \in 0 .. NumFrames, NEW c \in k .. NumFrames
    PROVE  Offset[k] \in Nat /\ Offset[c] \in Nat /\ Offset[k] <= Offset[c]
<1> DEFINE T == {e \in k .. c : Offset[e] < Offset[k]}
<1>0. /\ k \in Nat /\ c \in Nat /\ NumFrames \in Nat /\ k <= c /\ c <= NumFrames
      /\ \A e \in 0 .. NumFrames : Offset[e] \in Nat
      /\ \A e \in 1 .. NumFrames : Offset[e - 1] <= Offset[e]
  BY SizeAssumption DEF Frames
<1>1. T = {}
  <2> SUFFICES ASSUME T # {} PROVE FALSE
    OBVIOUS
  <2>1. T \in SUBSET Nat
    BY <1>0
  <2>2. PICK e \in T : \A j \in T : e <= j
    <3> HIDE DEF T
    <3> QED BY <2>1, LeastNatural
  <2>3. e \in k .. c /\ Offset[e] < Offset[k] /\ e # k
    BY <1>0, <2>1, <2>2
  <2>4. e - 1 \in k .. c /\ e \in 1 .. NumFrames /\ e \in 0 .. NumFrames /\ e - 1 \in 0 .. NumFrames
    BY <1>0, <2>3
  <2>5. e - 1 \notin T
    BY <2>2, <2>3
  <2> QED BY <1>0, <2>3, <2>4, <2>5
<1> QED BY <1>0, <1>1

-----------------------------------------------------------------------------
(***************************************************************************)
(* What a call may say and decide.                                         *)
(***************************************************************************)
\* reorder_bytes is the sum of what is held, and within its ceiling.
CountTrue(r) ==
    /\ r.reorder_bytes = MapThenSumSet(PayloadLen, r.reorder)
    /\ r.reorder_bytes <= MaxReorderBytes

\* The frame for which a stream that was alive in r is given up in q.
Justified(r, q) ==
    r.rel_state = "Streaming" =>
        /\ q.outcome = "UnrecoverableGap" =>
              \E s \in Frames \ r.arrived : /\ r.nacks[s].n = MaxNackAttempts
                                            /\ \E t \in r.arrived : s < t
        /\ q.outcome = "SenderDiscarded" =>
              \E s \in Frames \ r.arrived : s <= q.sender_lost_below
        /\ q.outcome = "BufferExhausted" =>
              \E s \in q.arrived \ r.arrived :
                 \/ s > r.gaps.contiguous + 1 /\ s > r.gaps.contiguous + ReorderWindow
                 \/ r.reorder_bytes + PayloadLen(s) > MaxReorderBytes

\* Between the start of a call and maybe_ack nothing but EndAck is put out, and
\* only by a receiver that has then acknowledged the tail.
OnlyEndAck(r, q) == q.out = r.out \/ (q.out = r.out \cup {EndAckPkt} /\ q.end_acked)

-----------------------------------------------------------------------------
(***************************************************************************)
(* Operator by operator.                                                   *)
(***************************************************************************)
\* finish_rel puts nothing out, and the first outcome stays.
LEMMA FinishRelSays ==
    ASSUME NEW r \in RxType, NEW o
    PROVE  LET q == FinishRel(r, o)
           IN  /\ q.out = r.out /\ q.arrived = r.arrived
               /\ q.sender_lost_below = r.sender_lost_below
               /\ q.outcome = IF r.rel_state = "Finished" THEN r.outcome ELSE o
               /\ q.end_acked = r.end_acked
               /\ q.rel_state = "Finished"
BY DEF FinishRel, RxType

\* finish_rel keeps the types, whatever the outcome.
LEMMA FinishRelTyped ==
    ASSUME NEW r \in RxType, NEW o \in Outcomes
    PROVE  FinishRel(r, o) \in RxType
<1> DEFINE zero == 0
           free == [s \in Frames |-> NotAsked]
           left == Abandon(r.gaps)
           q    == [r EXCEPT !.rel_state = "Finished", !.reorder = {},
                             !.reorder_bytes = zero, !.nacks = free,
                             !.gaps = left, !.outcome = o]
<1>1. FinishRel(r, o) = r \/ FinishRel(r, o) = q
  BY DEF FinishRel
<1>2. zero \in Int /\ free \in NackType /\ left \in GapType
  BY NoNacksTyped, AbandonTyped DEF RxType
<1> HIDE DEF zero, free, left
<1>3. q \in RxType
  BY <1>2 DEF RxType
<1> HIDE DEF q
<1> QED BY <1>1, <1>3

\* check_finish, where nothing is left to release.
LEMMA CheckFinishSays ==
    ASSUME NEW r \in RxType, Settled(r)
    PROVE  LET q == CheckFinish(r)
           IN  /\ OnlyEndAck(r, q)
               /\ q.sender_lost_below = r.sender_lost_below
               /\ q.outcome \in {r.outcome, "Complete"}
               /\ q.rel_state = "Streaming" => /\ q.reorder = r.reorder
                                               /\ q.reorder_bytes = r.reorder_bytes
<1> DEFINE ended  == r.final_seq # NoEnd
           landed == ended /\ IsComplete(r.gaps, r.final_seq)
           fin    == IF landed /\ r.rel_state = "Streaming"
                     THEN FinishRel(r, "Complete") ELSE r
           acked  == IF landed /\ ~fin.end_acked
                     THEN [fin EXCEPT !.end_acked = TRUE, !.out = @ \cup {EndAckPkt}]
                     ELSE fin
           q      == IF ended /\ acked.end_acked
                     THEN [acked EXCEPT !.closed = TRUE] ELSE acked
<1>1. r.rel_state = "Streaming" => ReleaseContiguous(r) = r
  BY ReleaseNothing DEF Settled
<1>2. CheckFinish(r) = q
  BY <1>1 DEF CheckFinish
<1>3. /\ fin.out = r.out /\ fin.sender_lost_below = r.sender_lost_below
      /\ fin.outcome \in {r.outcome, "Complete"}
      /\ fin.rel_state = "Streaming" => fin = r
  BY FinishRelSays
<1>4. fin \in RxType
  BY FinishRelTyped DEF Outcomes
<1> HIDE DEF landed, fin
<1>5. /\ acked.out = fin.out \/ (acked.out = fin.out \cup {EndAckPkt} /\ acked.end_acked)
      /\ acked.sender_lost_below = fin.sender_lost_below
      /\ acked.outcome = fin.outcome /\ acked.reorder_bytes = fin.reorder_bytes
      /\ acked.reorder = fin.reorder /\ acked.rel_state = fin.rel_state
  BY <1>4 DEF RxType
<1>6. acked \in RxType
  <2> DEFINE o == fin.out \cup {EndAckPkt}
  <2>1. o \in SUBSET SinkPackets
    BY <1>4 DEF RxType, SinkPackets
  <2>2. acked = IF landed /\ ~fin.end_acked THEN [fin EXCEPT !.end_acked = TRUE, !.out = o]
                ELSE fin
    OBVIOUS
  <2> HIDE DEF o, acked
  <2> QED BY <1>4, <2>1, <2>2 DEF RxType
<1> HIDE DEF acked, ended
<1>7. /\ q.out = acked.out /\ q.end_acked = acked.end_acked
      /\ q.sender_lost_below = acked.sender_lost_below
      /\ q.outcome = acked.outcome /\ q.reorder_bytes = acked.reorder_bytes
      /\ q.reorder = acked.reorder /\ q.rel_state = acked.rel_state
  BY <1>6 DEF RxType
<1> HIDE DEF q
<1> QED BY <1>2, <1>3, <1>5, <1>7 DEF OnlyEndAck

\* No frames, no bytes.
LEMMA NothingWeighs == MapThenSumSet(PayloadLen, {}) = 0
<1>1. PICK F : Sum(F)
  BY SumExists
<1>2. {} \in SUBSET Frames
  OBVIOUS
<1>3. MapThenSumSet(PayloadLen, {}) = F[{}] /\ F[{}] = Turn(F, {})
  BY <1>1, <1>2, SumIsFold DEF Sum
<1> QED BY <1>3 DEF Turn

\* A finished stream holds nothing, so its count is true.
LEMMA NothingHeld ==
    ASSUME NEW r \in RxType, Settled(r), r.rel_state = "Finished"
    PROVE  CountTrue(r)
<1>1. r.reorder = {} /\ r.reorder_bytes = 0
  BY DEF Settled
<1> QED BY <1>1, NothingWeighs, ConfigAssumption DEF CountTrue

\* An arrival, and the buffer it goes into.
LEMMA ArriveSays ==
    ASSUME NEW r \in RxType, AlwaysTrue(r), NEW s \in Frames
    PROVE  LET a == Arrive(r, s)
               h == Hold(a, s)
           IN  /\ a.out = r.out /\ h.out = r.out /\ h.end_acked = r.end_acked
               /\ h.arrived = r.arrived \cup {s}
               /\ h.reorder_bytes = r.reorder_bytes + PayloadLen(s)
<1> DEFINE a == Arrive(r, s)
<1>1. a \in RxType /\ a.arrived = r.arrived \cup {s}
      /\ a.reorder_bytes = r.reorder_bytes /\ a.end_acked = r.end_acked
  BY ArriveTracks
<1>2. a.out = r.out
  BY DEF Arrive, RxType
<1> HIDE DEF a
<1> QED BY <1>1, <1>2 DEF Hold, RxType, a

\* release_contiguous gives back the bytes of the run it emits.
LEMMA ReleaseSays ==
    ASSUME NEW r \in RxType, AlwaysTrue(r),
           (r.rel_released + 1) .. r.gaps.contiguous \subseteq r.reorder
    PROVE  LET q == ReleaseContiguous(r)
           IN  /\ q.out = r.out /\ q.end_acked = r.end_acked
               /\ q.reorder_bytes = r.reorder_bytes
                                    - (Offset[r.gaps.contiguous] - Offset[r.rel_released])
<1> DEFINE k == r.rel_released
           c == r.gaps.contiguous
<1>1. /\ k \in Nat /\ c \in Nat /\ k <= c /\ k \in 0 .. NumFrames /\ c \in k .. NumFrames
      /\ r.reorder_bytes \in Int
  BY SizeAssumption DEF RxType, GapType, AlwaysTrue
<1>2. PrefixEnd(k, c, r.reorder) = c
  BY <1>1, PrefixEndFull
<1>3. Offset[k] \in Nat /\ Offset[c] \in Nat
  BY <1>1, OffsetsGrow
<1>4. CASE c = k
  <2>1. ReleaseContiguous(r) = r
    BY <1>2, <1>4 DEF ReleaseContiguous
  <2> QED BY <1>1, <1>3, <1>4, <2>1
<1>5. CASE c # k
  BY <1>2, <1>5 DEF ReleaseContiguous, RxType
<1> QED BY <1>4, <1>5

\* A fresh frame that takes the window past its width is beyond it: the window
\* was within it before, so the frame is a new highest and no part of the prefix.
LEMMA WindowPassed ==
    ASSUME NEW r \in RxType, RxInv(r), r.rel_state = "Streaming",
           NEW s \in Frames, Fresh(r.gaps, s),
           WindowSpan(Record(r.gaps, s)) > ReorderWindow
    PROVE  s > r.gaps.contiguous + 1 /\ s > r.gaps.contiguous + ReorderWindow
<1> DEFINE c == r.gaps.contiguous
           h == r.gaps.highest
           g == Record(r.gaps, s)
<1>1. TrackerTrue(r) /\ WindowSpan(r.gaps) <= ReorderWindow
  BY DEF RxInv, AlwaysTrue, Settled
<1>2. /\ g \in GapType
      /\ c <= g.contiguous /\ g.contiguous <= g.highest
      /\ h <= g.highest /\ s <= g.highest /\ g.highest \in {s, h}
      /\ g.ahead = (r.gaps.ahead \cup {s}) \ (1 .. g.contiguous)
      /\ g.ahead \subseteq (g.contiguous + 2) .. g.highest
  BY <1>1, RecordTracks
<1>3. c \in Nat /\ h \in Nat /\ g.contiguous \in Nat /\ g.highest \in Nat /\ s \in Nat
  BY <1>2, SizeAssumption DEF RxType, GapType, Frames
<1>4. s > c /\ c <= h
  BY <1>1 DEF Fresh, TrackerTrue
<1> HIDE DEF g
<1>5. g.highest - g.contiguous > ReorderWindow
  BY <1>2, <1>3, ConfigAssumption DEF WindowSpan, g
<1>6. h - c <= ReorderWindow
  BY <1>1, <1>3, <1>4, ConfigAssumption DEF WindowSpan
<1>7. g.highest = s
  BY <1>2, <1>3, <1>5, <1>6, ConfigAssumption
<1>8. s > c + ReorderWindow
  BY <1>2, <1>3, <1>5, <1>7, ConfigAssumption
<1>9. s # c + 1
  <2> SUFFICES ASSUME s = c + 1 PROVE FALSE
    OBVIOUS
  <2>1. g.contiguous = c
    BY <1>2, <1>3, <1>5, <1>7, ConfigAssumption
  <2>2. s \in g.ahead
    BY <1>2, <1>3, <2>1
  <2> QED BY <1>2, <1>3, <2>1, <2>2
<1> QED BY <1>3, <1>4, <1>8, <1>9

\* A frame that is held and released with what it completes: the count follows.
LEMMA HeldCount ==
    ASSUME NEW r \in RxType, RxInv(r), CountTrue(r), r.rel_state = "Streaming",
           NEW s \in Frames, Fresh(r.gaps, s),
           Hold(Arrive(r, s), s).reorder_bytes <= MaxReorderBytes
    PROVE  LET q == ReleaseContiguous(Hold(Arrive(r, s), s))
           IN  CountTrue(q) /\ q.out = r.out
<1> DEFINE a == Arrive(r, s)
           h == Hold(a, s)
           q == ReleaseContiguous(h)
           k == r.gaps.contiguous
           c == Record(r.gaps, s).contiguous
<1>0. /\ AlwaysTrue(r) /\ TrackerTrue(r)
      /\ r.reorder = r.gaps.ahead /\ r.rel_released = k
  BY DEF RxInv, AlwaysTrue, Settled
<1>1. /\ a \in RxType /\ AlwaysTrue(a) /\ a.gaps = Record(r.gaps, s)
      /\ a.reorder = r.reorder /\ a.rel_released = k /\ a.rel_state = "Streaming"
  BY <1>0, ArriveTracks
<1>2. /\ h \in RxType /\ AlwaysTrue(h) /\ h.gaps = a.gaps
      /\ h.reorder = r.reorder \cup {s} /\ h.rel_released = k /\ h.rel_state = "Streaming"
  <2> HIDE DEF a
  <2> QED BY <1>1, HoldKeeps
<1>3. h.out = r.out /\ h.reorder_bytes = r.reorder_bytes + PayloadLen(s)
  BY <1>0, ArriveSays
<1>4. /\ k \in 0 .. NumFrames /\ c \in k .. NumFrames
      /\ (k + 1) .. c \subseteq r.reorder \cup {s}
      /\ s \notin r.reorder /\ r.reorder \in SUBSET Frames
  <2>1. /\ Record(r.gaps, s) \in GapType /\ k <= c
        /\ (k + 1) .. c \subseteq r.gaps.ahead \cup {s}
    BY <1>0, RecordTracks
  <2> QED BY <1>0, <2>1, SizeAssumption, SMTT(30) DEF RxType, GapType, Fresh
<1> HIDE DEF c, h, a
<1>5. h.gaps.contiguous = c
  BY <1>1, <1>2 DEF c
<1>6. /\ q.out = h.out
      /\ q.reorder_bytes = h.reorder_bytes - (Offset[c] - Offset[k])
      /\ q.reorder = h.reorder \ ((k + 1) .. c)
  BY <1>2, <1>4, <1>5, ReleaseSays, ReleaseMoves
<1>7. PICK F : Sum(F)
  BY SumExists
<1> DEFINE S == r.reorder \cup {s}
           U == S \ ((k + 1) .. c)
<1>8. S \in SUBSET Frames /\ U \in SUBSET Frames
  BY <1>4
<1>9. /\ F[S] = F[r.reorder] + PayloadLen(s)
      /\ F[S] = F[U] + (Offset[c] - Offset[k])
  <2>1. F[S] = F[r.reorder] + PayloadLen(s)
    <3>1. s \in Frames \ r.reorder
      BY <1>4
    <3>2. \A x \in SUBSET Frames : \A e \in Frames \ x : F[x \cup {e}] = F[x] + PayloadLen(e)
      BY <1>7, SumAdds
    <3>3. r.reorder \in SUBSET Frames
      BY <1>4
    <3>4. F[r.reorder \cup {s}] = F[r.reorder] + PayloadLen(s)
      BY <3>1, <3>2, <3>3
    <3> QED BY <3>4
  <2>2. (k + 1) .. c \subseteq S
    BY <1>4
  <2> HIDE DEF S, k
  <2>3. F[S] = F[S \ ((k + 1) .. c)] + (Offset[c] - Offset[k])
    <3>1. S \in SUBSET Frames
      BY <1>8
    <3>2. k \in 0 .. NumFrames
      BY <1>4
    <3>3. c \in k .. NumFrames
      BY <1>4
    <3>4. Sum(F)
      BY <1>7
    <3> QED BY <2>2, <3>1, <3>2, <3>3, <3>4, SumRun, SMTT(40)
  <2> QED BY <2>1, <2>3, Zenon DEF S, k, U
<1>10. /\ F[S] \in Int /\ F[U] \in Int /\ F[r.reorder] \in Int
       /\ MapThenSumSet(PayloadLen, r.reorder) = F[r.reorder]
       /\ MapThenSumSet(PayloadLen, U) = F[U]
  BY <1>4, <1>7, <1>8, SumIsFold DEF Sum
<1>11. /\ Offset[k] \in Nat /\ Offset[c] \in Nat /\ Offset[k] <= Offset[c]
       /\ PayloadLen(s) \in Nat
  BY <1>4, OffsetsGrow, PayloadNat
<1>12. q.reorder = U
  BY <1>2, <1>6
<1> HIDE DEF q, S, U
<1>13. q.reorder_bytes = F[U] /\ q.reorder_bytes <= MaxReorderBytes
  <2>1. r.reorder_bytes = F[r.reorder]
    BY <1>10 DEF CountTrue
  <2>2. h.reorder_bytes <= MaxReorderBytes
    BY DEF h, a
  <2> QED BY <1>3, <1>6, <1>9, <1>10, <1>11, <2>1, <2>2, ConfigAssumption, SMTT(30)
<1> QED BY <1>3, <1>6, <1>10, <1>12, <1>13 DEF CountTrue, q, h, a

\* A call up to maybe_ack.
Body(r, q) == OnlyEndAck(r, q) /\ CountTrue(q) /\ Justified(r, q)

\* An outcome that is no abort needs no justification.
LEMMA NoAbort ==
    ASSUME NEW r, NEW q, q.outcome \in {NoOutcome, "Complete"}
    PROVE  Justified(r, q)
BY DEF Justified, NoOutcome

\* on_data: one step per early return.
LEMMA OnDataSays ==
    ASSUME NEW r \in RxType, RxInv(r), CountTrue(r), NEW s \in Frames
    PROVE  Body(r, OnData(r, s))
<1> DEFINE a == Arrive(r, s)
           h == Hold(a, s)
           p == ReleaseContiguous(h)
           q == OnData(r, s)
<1>0. AlwaysTrue(r) /\ Settled(r) /\ TrackerTrue(r)
  BY DEF RxInv, AlwaysTrue
<1>1. /\ a \in RxType /\ AlwaysTrue(a) /\ a.arrived = r.arrived \cup {s}
      /\ a.gaps = Record(r.gaps, s)
      /\ a.reorder = r.reorder /\ a.reorder_bytes = r.reorder_bytes
      /\ a.rel_state = r.rel_state /\ a.outcome = r.outcome /\ a.end_acked = r.end_acked
  BY <1>0, ArriveTracks
<1>2. /\ a.out = r.out /\ h.out = r.out /\ h.end_acked = r.end_acked
      /\ h.arrived = r.arrived \cup {s}
      /\ h.reorder_bytes = r.reorder_bytes + PayloadLen(s)
  BY <1>0, ArriveSays
<1>3. q = IF r.rel_state # "Streaming" \/ ~Fresh(r.gaps, s) THEN a
          ELSE IF WindowSpan(a.gaps) > ReorderWindow THEN FinishRel(a, "BufferExhausted")
          ELSE IF h.reorder_bytes > MaxReorderBytes THEN FinishRel(h, "BufferExhausted")
          ELSE CheckFinish(p)
  BY DEF OnData
<1>4. h \in RxType /\ h.rel_state = a.rel_state
  <2> HIDE DEF a
  <2> QED BY <1>1, HoldKeeps
<1>5. q \in RxType /\ RxInv(q)
  BY OnDataLands DEF Lands
<1>6. Settled(q)
  BY <1>5 DEF RxInv
<1>7. r.rel_state = "Streaming" => r.outcome = NoOutcome
  BY <1>0 DEF AlwaysTrue
<1>8. r.rel_state = "Streaming" /\ Fresh(r.gaps, s) => s \notin r.arrived
  <2>1. r.gaps.contiguous \in Nat /\ s \in Nat
    BY SizeAssumption DEF RxType, GapType, Frames
  <2> QED BY <1>0, <2>1 DEF Settled, Fresh
<1> HIDE DEF a, h, p, q
<1>9. CASE r.rel_state # "Streaming" \/ ~Fresh(r.gaps, s)
  <2>1. q = a
    BY <1>3, <1>9
  <2>2. CountTrue(q)
    BY <1>1, <2>1 DEF CountTrue
  <2>3. Justified(r, q)
    <3>1. r.rel_state = "Streaming" => Justified(r, q)
      BY <1>1, <1>7, <2>1, NoAbort
    <3> QED BY <3>1 DEF Justified
  <2> QED BY <1>2, <2>1, <2>2, <2>3 DEF Body, OnlyEndAck, q
<1>10. CASE /\ r.rel_state = "Streaming" /\ Fresh(r.gaps, s)
            /\ WindowSpan(a.gaps) > ReorderWindow
  <2>1. q = FinishRel(a, "BufferExhausted")
    BY <1>3, <1>10
  <2>2. /\ q.out = a.out /\ q.arrived = a.arrived /\ q.rel_state = "Finished"
        /\ q.outcome = "BufferExhausted"
    BY <1>1, <1>10, <2>1, FinishRelSays
  <2>3. s > r.gaps.contiguous + 1 /\ s > r.gaps.contiguous + ReorderWindow
    BY <1>1, <1>10, WindowPassed
  <2>4. Justified(r, q)
    BY <1>1, <1>8, <1>10, <2>2, <2>3 DEF Justified
  <2>5. CountTrue(q)
    BY <1>5, <1>6, <2>2, NothingHeld
  <2> QED BY <1>2, <2>2, <2>4, <2>5 DEF Body, OnlyEndAck, q
<1>11. CASE /\ r.rel_state = "Streaming" /\ Fresh(r.gaps, s)
            /\ ~(WindowSpan(a.gaps) > ReorderWindow)
            /\ h.reorder_bytes > MaxReorderBytes
  <2>1. q = FinishRel(h, "BufferExhausted")
    BY <1>3, <1>11
  <2>2. /\ q.out = h.out /\ q.arrived = h.arrived /\ q.rel_state = "Finished"
        /\ q.outcome = "BufferExhausted"
    BY <1>1, <1>4, <1>11, <2>1, FinishRelSays
  <2>3. Justified(r, q)
    BY <1>2, <1>8, <1>11, <2>2 DEF Justified
  <2>4. CountTrue(q)
    BY <1>5, <1>6, <2>2, NothingHeld
  <2> QED BY <1>2, <2>2, <2>3, <2>4 DEF Body, OnlyEndAck, q
<1>12. CASE /\ r.rel_state = "Streaming" /\ Fresh(r.gaps, s)
            /\ ~(WindowSpan(a.gaps) > ReorderWindow)
            /\ ~(h.reorder_bytes > MaxReorderBytes)
  <2>1. q = CheckFinish(p)
    BY <1>3, <1>12
  <2>2. WindowSpan(Record(r.gaps, s)) <= ReorderWindow
    <3>1. a.gaps.contiguous \in Int /\ a.gaps.highest \in Int
      BY <1>1 DEF RxType, GapType
    <3>2. WindowSpan(a.gaps) \in Int
      BY <3>1 DEF WindowSpan
    <3> QED BY <1>1, <1>12, <3>2, ConfigAssumption
  <2>3. p \in RxType /\ Settled(p) /\ p.outcome = NoOutcome
    BY <1>12, <2>2, ReleaseSettles DEF p, h, a
  <2>4. h.reorder_bytes <= MaxReorderBytes
    <3>1. h.reorder_bytes \in Int
      BY <1>4 DEF RxType
    <3> QED BY <1>12, <3>1, ConfigAssumption
  <2>5. CountTrue(p) /\ p.out = r.out
    BY <1>12, <2>4, HeldCount DEF p, h, a
  <2>6. /\ OnlyEndAck(p, q) /\ q.outcome \in {NoOutcome, "Complete"}
        /\ q.rel_state = "Streaming" => /\ q.reorder = p.reorder
                                        /\ q.reorder_bytes = p.reorder_bytes
    BY <2>1, <2>3, CheckFinishSays
  <2>7. CountTrue(q)
    <3>1. CASE q.rel_state = "Streaming"
      BY <2>5, <2>6, <3>1 DEF CountTrue
    <3>2. CASE q.rel_state = "Finished"
      BY <1>5, <1>6, <3>2, NothingHeld
    <3> QED BY <1>5, <3>1, <3>2 DEF RxType
  <2>8. Justified(r, q)
    BY <2>6, NoAbort
  <2> QED BY <2>5, <2>6, <2>7, <2>8 DEF Body, OnlyEndAck, q
<1> QED BY <1>9, <1>10, <1>11, <1>12 DEF q

\* End and then check_finish.
LEMMA OnEndSays ==
    ASSUME NEW r \in RxType, RxInv(r), CountTrue(r)
    PROVE  Body(r, CheckFinish([r EXCEPT !.final_seq = NumFrames]))
<1> DEFINE e == [r EXCEPT !.final_seq = NumFrames]
           q == CheckFinish(e)
<1>1. /\ e \in RxType /\ e.out = r.out /\ e.outcome = r.outcome
      /\ e.reorder = r.reorder /\ e.reorder_bytes = r.reorder_bytes
  BY DEF RxType
<1>2. Settled(e)
  BY DEF RxInv, Settled, RxType
<1>3. q \in RxType /\ Settled(q)
  BY OnEndKeeps DEF KeepsFaith, RxInv
<1> HIDE DEF e
<1>4. /\ OnlyEndAck(e, q) /\ q.outcome \in {r.outcome, "Complete"}
      /\ q.rel_state = "Streaming" => /\ q.reorder = e.reorder
                                      /\ q.reorder_bytes = e.reorder_bytes
  BY <1>1, <1>2, CheckFinishSays
<1> HIDE DEF q
<1>5. CountTrue(q)
  <2>1. CASE q.rel_state = "Streaming"
    BY <1>1, <1>4, <2>1 DEF CountTrue
  <2>2. CASE q.rel_state = "Finished"
    BY <1>3, <2>2, NothingHeld
  <2> QED BY <1>3, <2>1, <2>2 DEF RxType
<1>6. Justified(r, q)
  <2>1. CASE r.rel_state = "Streaming"
    BY <1>4, <2>1, NoAbort DEF RxInv, AlwaysTrue
  <2>2. CASE r.rel_state # "Streaming"
    BY <2>2 DEF Justified
  <2> QED BY <2>1, <2>2
<1> QED BY <1>1, <1>4, <1>5, <1>6 DEF Body, OnlyEndAck, q, e

\* Keepalive: a prefix below lost_below lacks the frame above it.
LEMMA OnKeepaliveSays ==
    ASSUME NEW r \in RxType, RxInv(r), CountTrue(r), NEW l \in 0 .. NumFrames
    PROVE  Body(r, OnKeepalive(r, l))
<1> DEFINE t == [r EXCEPT !.sender_lost_below = l]
           d == IF l <= r.sender_lost_below THEN r
                ELSE IF r.gaps.contiguous < l THEN FinishRel(t, "SenderDiscarded")
                ELSE t
           q == OnKeepalive(r, l)
<1>0. /\ AlwaysTrue(r) /\ TrackerTrue(r) /\ Settled(r)
      /\ r.gaps.contiguous \in Nat /\ l \in Nat /\ l <= NumFrames
      /\ r.sender_lost_below \in Nat
  BY SizeAssumption DEF RxInv, AlwaysTrue, RxType, GapType
<1>1. /\ t \in RxType /\ t.out = r.out /\ t.outcome = r.outcome
      /\ t.rel_state = r.rel_state /\ t.reorder = r.reorder
      /\ t.reorder_bytes = r.reorder_bytes /\ t.gaps = r.gaps /\ t.arrived = r.arrived
      /\ t.rel_released = r.rel_released /\ t.sender_lost_below = l
  BY DEF RxType
<1>2. q = CheckFinish(d)
  BY DEF OnKeepalive
<1> HIDE DEF t
<1>3. /\ d \in RxType /\ d.out = r.out
      /\ d.outcome = IF r.rel_state = "Streaming" /\ r.gaps.contiguous < l
                        /\ ~(l <= r.sender_lost_below)
                     THEN "SenderDiscarded" ELSE r.outcome
      /\ d.outcome # r.outcome => d.sender_lost_below = l
      /\ d.rel_state = "Streaming" =>
            d.reorder = r.reorder /\ d.reorder_bytes = r.reorder_bytes
  <2>1. "SenderDiscarded" \in Outcomes
    BY DEF Outcomes, Aborts
  <2>2. /\ FinishRel(t, "SenderDiscarded") \in RxType
        /\ FinishRel(t, "SenderDiscarded").out = t.out
        /\ FinishRel(t, "SenderDiscarded").sender_lost_below = t.sender_lost_below
        /\ FinishRel(t, "SenderDiscarded").rel_state = "Finished"
        /\ FinishRel(t, "SenderDiscarded").outcome
              = IF t.rel_state = "Finished" THEN t.outcome ELSE "SenderDiscarded"
    BY <1>1, <2>1, FinishRelTyped, FinishRelSays
  <2>3. r.rel_state \in {"Streaming", "Finished"}
    BY DEF RxType
  <2> QED BY <1>1, <2>2, <2>3
<1>4. Settled(d)
  <2>1. CASE l <= r.sender_lost_below
    BY <1>0, <2>1
  <2>2. CASE ~(l <= r.sender_lost_below) /\ r.gaps.contiguous < l
    <3>1. d = FinishRel(t, "SenderDiscarded")
      BY <2>2
    <3>2. CASE r.rel_state = "Streaming"
      <4>1. d.rel_state = "Finished" /\ d.reorder = {} /\ d.reorder_bytes = 0
        BY <1>1, <3>1, <3>2 DEF FinishRel, RxType
      <4> QED BY <4>1 DEF Settled
    <3>3. CASE r.rel_state = "Finished"
      <4>1. d = t
        BY <1>1, <3>1, <3>3 DEF FinishRel
      <4> QED BY <1>0, <1>1, <3>3, <4>1 DEF Settled
    <3> QED BY <3>2, <3>3 DEF RxType
  <2>3. CASE ~(l <= r.sender_lost_below) /\ ~(r.gaps.contiguous < l)
    <3>1. d = t /\ l <= r.gaps.contiguous
      BY <1>0, <2>3
    <3> HIDE DEF d
    <3> QED BY <1>0, <1>1, <3>1 DEF Settled
  <2> QED BY <2>1, <2>2, <2>3
<1>5. q \in RxType /\ Settled(q)
  BY OnKeepaliveKeeps DEF KeepsFaith, RxInv
<1> HIDE DEF d
<1>6. /\ OnlyEndAck(d, q) /\ q.outcome \in {d.outcome, "Complete"}
      /\ q.sender_lost_below = d.sender_lost_below
      /\ q.rel_state = "Streaming" => /\ q.reorder = d.reorder
                                      /\ q.reorder_bytes = d.reorder_bytes
  BY <1>2, <1>3, <1>4, CheckFinishSays
<1> HIDE DEF q
<1>7. CountTrue(q)
  <2>1. CASE q.rel_state = "Streaming"
    <3>1. d.rel_state = "Streaming"
      BY <1>2, <1>3, <2>1 DEF CheckFinish, FinishRel, RxType
    <3> QED BY <1>3, <1>6, <2>1, <3>1 DEF CountTrue
  <2>2. CASE q.rel_state = "Finished"
    BY <1>5, <2>2, NothingHeld
  <2> QED BY <1>5, <2>1, <2>2 DEF RxType
<1>8. Justified(r, q)
  <2>1. CASE r.rel_state # "Streaming"
    BY <2>1 DEF Justified
  <2>2. CASE r.rel_state = "Streaming" /\ d.outcome = r.outcome
    BY <1>0, <1>6, <2>2, NoAbort DEF AlwaysTrue
  <2>3. CASE r.rel_state = "Streaming" /\ d.outcome # r.outcome
    <3>1. /\ d.outcome = "SenderDiscarded" /\ d.sender_lost_below = l
          /\ r.gaps.contiguous < l
      BY <1>3, <2>3
    <3> DEFINE s == r.gaps.contiguous + 1
    <3>2. s \in Frames /\ s <= l
      <4>1. /\ r.gaps.contiguous \in Nat /\ l \in Nat /\ NumFrames \in Nat
            /\ l <= NumFrames /\ r.gaps.contiguous < l
        BY <1>0, <3>1, SizeAssumption
      <4> QED BY <4>1 DEF Frames
    <3>3. s \notin r.arrived
      BY <1>0, <2>3 DEF Settled, TrackerTrue
    <3> HIDE DEF s
    <3> QED BY <1>6, <3>1, <3>2, <3>3 DEF Justified
  <2> QED BY <2>1, <2>2, <2>3
<1> QED BY <1>3, <1>6, <1>7, <1>8 DEF Body, OnlyEndAck, q

-----------------------------------------------------------------------------
(***************************************************************************)
(* The packets.                                                            *)
(***************************************************************************)
\* A Nack asks for what is really missing and can still be had.
NackTrue(r, pkt) ==
    /\ pkt.missing # {}
    /\ pkt.missing \cap r.arrived = {}
    /\ pkt.missing \subseteq 1 .. r.gaps.highest
    /\ \A s \in pkt.missing : s > r.sender_lost_below
    /\ Cardinality(pkt.missing) <= MaxNackEntries

\* An Ack claims what has really arrived, and no emptier buffer.
AckTrue(r, pkt) ==
    /\ 1 .. pkt.contiguous \subseteq r.arrived
    /\ pkt.highest \in r.arrived
    /\ r.arrived \subseteq 1 .. pkt.highest
    /\ pkt.buffered_ms >= r.buffered_ms \/ pkt.buffered_ms = U16Max

Told(r) == \A pkt \in r.out : /\ pkt.type = "Nack" => NackTrue(r, pkt)
                              /\ pkt.type = "Ack" => AckTrue(r, pkt)
                              /\ pkt.type = "EndAck" => r.end_acked

\* The three packets differ in their type.
LEMMA PacketTypes ==
    ASSUME NEW r, NEW ask
    PROVE  AckPkt(r).type = "Ack" /\ NackPkt(ask).type = "Nack" /\ EndAckPkt.type = "EndAck"
BY DEF AckPkt, NackPkt, EndAckPkt

\* What a whole call makes of the receiver.
Call(r, q) ==
    /\ CountTrue(q) /\ Told(q) /\ Justified(r, q)
    /\ r.rel_state = "Finished" => \A pkt \in q.out : pkt.type # "Nack"
    /\ r.closed => q.out \subseteq {EndAckPkt}

\* maybe_ack adds one true Ack, and nothing once the transfer is closed.
LEMMA MaybeAckSays ==
    ASSUME NEW r \in RxType, RxInv(r), CountTrue(r), Told(r)
    PROVE  LET q == MaybeAck(r)
           IN  /\ CountTrue(q) /\ Told(q) /\ SameCore(r, q)
               /\ q.out \in {r.out, r.out \cup {AckPkt(r)}}
               /\ r.closed => q = r
<1> DEFINE zero == 0
           o    == r.out \cup {AckPkt(r)}
           a    == [r EXCEPT !.since_ack = zero, !.out = o]
           q    == MaybeAck(r)
<1>1. q = IF r.closed \/ r.since_ack < AckInterval \/ r.gaps.highest = 0 THEN r ELSE a
  BY DEF MaybeAck
<1>2. CASE r.closed \/ r.since_ack < AckInterval \/ r.gaps.highest = 0
  <2>1. q = r
    BY <1>1, <1>2
  <2> HIDE DEF q
  <2> QED BY <2>1 DEF SameCore, q
<1>3. CASE ~(r.closed \/ r.since_ack < AckInterval \/ r.gaps.highest = 0)
  <2>1. q = a
    BY <1>1, <1>3
  <2>2. SameCore(r, a) /\ a.out = o /\ a.buffered_ms = r.buffered_ms
    BY DEF SameCore, RxType
  <2>3. CountTrue(a)
    BY <2>2 DEF SameCore, CountTrue
  <2>4. AckTrue(a, AckPkt(r))
    <3>1. TrackerTrue(r)
      BY DEF RxInv, AlwaysTrue
    <3>2. AckPkt(r).contiguous = r.gaps.contiguous /\ AckPkt(r).highest = r.gaps.highest
      BY DEF AckPkt
    <3>3. a.arrived = r.arrived
      BY <2>2 DEF SameCore
    <3>4. r.gaps.highest > 0
      BY <1>3, SizeAssumption DEF RxType, GapType
    <3>5. AckPkt(r).buffered_ms >= r.buffered_ms \/ AckPkt(r).buffered_ms = U16Max
      <4>1. r.buffered_ms \in Nat
        <5>1. r.buffered_ms \in BufferReports \cup {0}
          BY DEF RxType
        <5>2. BufferReports \subseteq Nat
          BY ConfigAssumption
        <5>3. r.buffered_ms \in BufferReports => r.buffered_ms \in Nat
          BY <5>2, Zenon
        <5> QED BY <5>1, <5>3
      <4>2. AckPkt(r).buffered_ms = IF r.buffered_ms < U16Max THEN r.buffered_ms ELSE U16Max
        BY DEF AckPkt
      <4> QED BY <4>1, <4>2
    <3> HIDE DEF a
    <3> QED BY <2>2, <3>1, <3>2, <3>3, <3>4, <3>5 DEF AckTrue, TrackerTrue
  <2>5. Told(a)
    <3> SUFFICES ASSUME NEW pkt \in a.out
                 PROVE  /\ pkt.type = "Nack" => NackTrue(a, pkt)
                        /\ pkt.type = "Ack" => AckTrue(a, pkt)
                        /\ pkt.type = "EndAck" => a.end_acked
      BY DEF Told
    <3>1. CASE pkt \in r.out
      <4> HIDE DEF a
      <4> QED BY <2>2, <3>1 DEF Told, SameCore, NackTrue, AckTrue
    <3>2. CASE pkt = AckPkt(r)
      BY <2>4, <3>2, PacketTypes
    <3> QED BY <2>2, <3>1, <3>2
  <2> HIDE DEF a, q
  <2> QED BY <1>3, <2>1, <2>2, <2>3, <2>5 DEF q
<1> QED BY <1>2, <1>3

\* A justification still holds after maybe_ack.
LEMMA StillJustified ==
    ASSUME NEW r, NEW q, NEW z, Justified(r, q), SameCore(q, z)
    PROVE  Justified(r, z)
BY DEF Justified, SameCore

\* emit_nacks: what is asked for is missing, not declared gone and fits; a gap
\* given up on was asked for to the end of the budget, because the sender has
\* declared nothing gone that a live stream still needs.
LEMMA EmitNacksSays ==
    ASSUME NEW r \in RxType, RxInv(r), CountTrue(r), r.rel_state = "Streaming", r.out = {}
    PROVE  LET q == EmitNacks(r)
           IN  /\ CountTrue(q) /\ Told(q) /\ Justified(r, q)
<1> DEFINE missing   == Missing(r.gaps, MaxNackEntries)
           exhausted == \E s \in missing : \/ s <= r.sender_lost_below
                                           \/ r.nacks[s].n >= MaxNackAttempts
           ask       == {s \in missing : r.nacks[s].since >= NackDelay(r.nacks[s].n)}
           t         == [s \in Frames |-> IF s \in ask
                                          THEN [n |-> r.nacks[s].n + 1, since |-> 0]
                                          ELSE r.nacks[s]]
           o         == r.out \cup {NackPkt(ask)}
           z         == [r EXCEPT !.nacks = t, !.out = o]
           q         == EmitNacks(r)
<1>1. q = IF exhausted THEN FinishRel(r, "UnrecoverableGap")
          ELSE IF ask = {} THEN r ELSE z
  BY DEF EmitNacks
<1>2. \A s \in missing : s \in Frames /\ s \notin r.arrived /\ s > r.sender_lost_below
  <2> SUFFICES ASSUME NEW s \in missing
               PROVE  s \in Frames /\ s \notin r.arrived /\ s > r.sender_lost_below
    OBVIOUS
  <2>1. s \in Gaps(r.gaps)
    BY DEF Missing
  <2>2. s \in (r.gaps.contiguous + 1) .. r.gaps.highest /\ s \notin r.gaps.ahead
    BY <2>1 DEF Gaps
  <2>3. s \in Frames
    BY <2>1, GapsAreFrames DEF RxType
  <2>4. /\ r.gaps.contiguous \in Nat /\ r.sender_lost_below \in Nat /\ s \in Nat
    BY <2>3, SizeAssumption DEF RxType, GapType, Frames
  <2>5. /\ r.arrived = 1 .. r.gaps.contiguous \cup r.gaps.ahead
        /\ r.sender_lost_below <= r.gaps.contiguous
    BY DEF RxInv, Settled
  <2> QED BY <2>2, <2>3, <2>4, <2>5
<1>2a. missing \subseteq 1 .. r.gaps.highest
  <2>1. r.gaps.contiguous \in Nat /\ r.gaps.highest \in Nat
    BY SizeAssumption, SMTT(30) DEF RxType, GapType
  <2> QED BY <2>1 DEF Missing, Gaps
<1>3. Cardinality(missing) <= MaxNackEntries
  <2>1. r.gaps.contiguous \in Nat /\ r.gaps.highest \in Nat
    BY SizeAssumption, SMTT(30) DEF RxType, GapType
  <2> QED BY <2>1, MissingFits, ConfigAssumption
<1>4. r.outcome = NoOutcome
  BY DEF RxInv, AlwaysTrue
<1> HIDE DEF missing
<1>5. CASE exhausted
  <2>1. q = FinishRel(r, "UnrecoverableGap")
    BY <1>1, <1>5
  <2>2. q \in RxType /\ Settled(q)
    <3>1. "UnrecoverableGap" \in Aborts /\ AlwaysTrue(r)
      BY DEF Aborts, RxInv
    <3> QED BY <2>1, <3>1, FinishRelAborts DEF KeepsFaith, RxInv
  <2>3. q.rel_state = "Finished" /\ q.out = {} /\ q.outcome = "UnrecoverableGap"
    BY <2>1, FinishRelSays
  <2>4. CountTrue(q)
    BY <2>2, <2>3, NothingHeld
  <2>5. PICK s \in missing : s <= r.sender_lost_below \/ r.nacks[s].n >= MaxNackAttempts
    BY <1>5
  <2>6. s \in Frames \ r.arrived /\ s > r.sender_lost_below
    BY <1>2
  <2>7. r.nacks[s].n = MaxNackAttempts
    <3>1. r.nacks \in NackType /\ r.sender_lost_below \in 0 .. NumFrames
      BY DEF RxType
    <3>2. r.nacks[s] \in [n : 0 .. MaxNackAttempts, since : 0 .. NackAgeCap]
      BY <2>6, <3>1 DEF NackType
    <3>3. r.sender_lost_below \in Nat /\ s \in Nat
      BY <2>6, <3>1, SizeAssumption DEF Frames
    <3> QED BY <2>5, <2>6, <3>2, <3>3, ConfigAssumption
  <2>8. r.gaps.highest \in r.arrived /\ s < r.gaps.highest
    <3>1. s \in Nat /\ s <= r.gaps.highest /\ r.gaps.highest \in Nat /\ s > 0
      BY <1>2a, <2>6, SizeAssumption, SMTT(30) DEF RxType, GapType, Frames
    <3>2. r.gaps.highest \in r.arrived
      BY <3>1 DEF RxInv, AlwaysTrue, TrackerTrue
    <3> QED BY <2>6, <3>1, <3>2
  <2>9. Justified(r, q)
    BY <2>3, <2>6, <2>7, <2>8 DEF Justified
  <2> QED BY <2>3, <2>4, <2>9 DEF Told
<1>6. CASE ~exhausted /\ ask = {}
  <2>1. q = r
    BY <1>1, <1>6
  <2>2. Told(q) /\ Justified(r, q)
    BY <1>4, <2>1, NoAbort DEF Told
  <2> QED BY <2>1, <2>2
<1>7. CASE ~exhausted /\ ask # {}
  <2>1. q = z
    BY <1>1, <1>7
  <2>2. SameCore(r, z) /\ z.out = o
    BY DEF SameCore, RxType
  <2>3. NackTrue(z, NackPkt(ask))
    <3>1. ask \in SUBSET missing
      OBVIOUS
    <3>2. missing \in SUBSET Frames
      BY <1>2
    <3>3. Cardinality(ask) <= MaxNackEntries
      <4> HIDE DEF ask
      <4>1. IsFiniteSet(missing) /\ Cardinality(missing) \in Nat
        BY <3>2, Smaller
      <4>2. Cardinality(ask) <= Cardinality(missing) /\ Cardinality(ask) \in Nat
        BY <3>1, <4>1, FS_Subset, FS_CardinalityType
      <4> QED BY <1>3, <4>1, <4>2, ConfigAssumption
    <3>4. NackPkt(ask).missing = ask
      BY DEF NackPkt
    <3>5. /\ z.arrived = r.arrived /\ z.sender_lost_below = r.sender_lost_below
          /\ z.gaps = r.gaps
      BY <2>2 DEF SameCore
    <3> HIDE DEF z, ask
    <3> QED BY <1>2, <1>2a, <1>7, <3>1, <3>3, <3>4, <3>5 DEF NackTrue
  <2>4. Told(z)
    <3>1. \A pkt \in z.out : pkt = NackPkt(ask)
      BY <2>2
    <3> HIDE DEF z, ask
    <3> QED BY <2>3, <3>1, PacketTypes DEF Told
  <2>5. CountTrue(z) /\ z.outcome = NoOutcome
    <3> HIDE DEF z
    <3> QED BY <1>4, <2>2 DEF SameCore, CountTrue
  <2> HIDE DEF z, q
  <2> QED BY <2>1, <2>4, <2>5, NoAbort DEF q
<1> QED BY <1>5, <1>6, <1>7

-----------------------------------------------------------------------------
(***************************************************************************)
(* Whole calls.                                                            *)
(***************************************************************************)
\* handle: the packet is taken in, then maybe_ack.
LEMMA HandleSays ==
    ASSUME NEW r \in RxType, RxInv(r), CountTrue(r),
           NEW q \in RxType, RxInv(q), Follows(r, q),
           Body([r EXCEPT !.since_packet = 0, !.out = {}], q)
    PROVE  Call(r, MaybeAck(q))
<1> DEFINE fed == [r EXCEPT !.since_packet = 0, !.out = {}]
           z   == MaybeAck(q)
<1>1. /\ fed.out = {}
      /\ fed.rel_state = r.rel_state /\ fed.arrived = r.arrived /\ fed.nacks = r.nacks
      /\ fed.gaps = r.gaps /\ fed.reorder_bytes = r.reorder_bytes
  BY DEF RxType
<1>2. /\ q.out \subseteq {EndAckPkt} /\ CountTrue(q) /\ Justified(fed, q)
      /\ q.out # {} => q.end_acked
  BY <1>1 DEF Body, OnlyEndAck
<1> HIDE DEF fed
<1>3. Justified(r, q)
  BY <1>1, <1>2 DEF Justified
<1>4. Told(q)
  BY <1>2, PacketTypes DEF Told
<1>5. /\ CountTrue(z) /\ Told(z) /\ SameCore(q, z)
      /\ z.out \in {q.out, q.out \cup {AckPkt(q)}}
      /\ q.closed => z = q
  BY <1>2, <1>4, MaybeAckSays
<1> HIDE DEF z
<1>6. Justified(r, z)
  BY <1>3, <1>5, StillJustified
<1>7. \A pkt \in z.out : pkt.type # "Nack"
  BY <1>2, <1>5, PacketTypes
<1>8. r.closed => z.out \subseteq {EndAckPkt}
  BY <1>2, <1>5 DEF Follows
<1> QED BY <1>5, <1>6, <1>7, <1>8 DEF Call, z

\* The value handle works on: the same receiver, its idle timer reset.
LEMMA FedIsGood ==
    ASSUME NEW r \in RxType, RxInv(r), CountTrue(r)
    PROVE  LET fed == [r EXCEPT !.since_packet = 0, !.out = {}]
           IN  KeepsFaith(r, fed) /\ CountTrue(fed)
<1> DEFINE zero == 0
           fed  == [r EXCEPT !.since_packet = zero, !.out = {}]
<1>1. zero \in 0 .. (IdleTimeout + 1)
  BY ConfigAssumption
<1>2. fed.reorder = r.reorder /\ fed.reorder_bytes = r.reorder_bytes
  BY DEF RxType
<1> HIDE DEF zero
<1>3. KeepsFaith(r, fed)
  BY <1>1, QuietKeeps
<1> HIDE DEF fed
<1>4. CountTrue(fed)
  BY <1>2 DEF CountTrue
<1> QED BY <1>3, <1>4 DEF fed, zero

\* handle of each packet.
LEMMA HandleCalls ==
    ASSUME NEW r \in RxType, RxInv(r), CountTrue(r)
    PROVE  /\ \A s \in Frames : Call(r, Handle(r, [type |-> "Data", seq |-> s]))
           /\ Call(r, Handle(r, [type |-> "End", seq |-> NumFrames]))
           /\ \A l \in 0 .. NumFrames : Call(r, Handle(r, [type |-> "Keepalive", seq |-> l]))
<1>0. SUFFICES ASSUME NEW s, NEW l
               PROVE  /\ s \in Frames => Call(r, Handle(r, [type |-> "Data", seq |-> s]))
                      /\ Call(r, Handle(r, [type |-> "End", seq |-> NumFrames]))
                      /\ l \in 0 .. NumFrames =>
                            Call(r, Handle(r, [type |-> "Keepalive", seq |-> l]))
  OBVIOUS
<1> DEFINE fed == [r EXCEPT !.since_packet = 0, !.out = {}]
           d   == OnData(fed, s)
           e   == CheckFinish([fed EXCEPT !.final_seq = NumFrames])
           k   == OnKeepalive(fed, l)
<1>1. /\ Handle(r, [type |-> "Data", seq |-> s]) = MaybeAck(d)
      /\ Handle(r, [type |-> "End", seq |-> NumFrames]) = MaybeAck(e)
      /\ Handle(r, [type |-> "Keepalive", seq |-> l]) = MaybeAck(k)
  BY DEF Handle
<1>2. KeepsFaith(r, fed) /\ CountTrue(fed)
  BY FedIsGood
<1>3. ASSUME NEW q \in RxType, RxInv(q), Follows(r, q), Body(fed, q)
      PROVE  Call(r, MaybeAck(q))
  BY <1>3, HandleSays
<1> HIDE DEF fed
<1>4. fed \in RxType /\ RxInv(fed) /\ Follows(r, fed)
  BY <1>2 DEF KeepsFaith
<1>5. s \in Frames => d \in RxType /\ RxInv(d) /\ Follows(fed, d) /\ Body(fed, d)
  BY <1>2, <1>4, OnDataLands, OnDataSays DEF Lands
<1>6. e \in RxType /\ RxInv(e) /\ Follows(fed, e) /\ Body(fed, e)
  BY <1>2, <1>4, OnEndKeeps, OnEndSays DEF KeepsFaith
<1>7. l \in 0 .. NumFrames => k \in RxType /\ RxInv(k) /\ Follows(fed, k) /\ Body(fed, k)
  BY <1>2, <1>4, OnKeepaliveKeeps, OnKeepaliveSays DEF KeepsFaith
<1> HIDE DEF d, e, k
<1>8. /\ s \in Frames => Follows(r, d)
      /\ Follows(r, e)
      /\ l \in 0 .. NumFrames => Follows(r, k)
  BY <1>4, <1>5, <1>6, <1>7, FollowsOn
<1> QED BY <1>1, <1>3, <1>5, <1>6, <1>7, <1>8

\* A call that puts nothing out and leaves the core alone.
LEMMA SilentCall ==
    ASSUME NEW r \in RxType, RxInv(r), CountTrue(r), NEW q, SameCore(r, q), q.out = {}
    PROVE  Call(r, q)
<1>1. CountTrue(q)
  BY DEF CountTrue, SameCore
<1>2. Justified(r, q)
  <2>1. CASE r.rel_state = "Streaming"
    <3>1. q.outcome = NoOutcome
      BY <2>1 DEF RxInv, AlwaysTrue, SameCore
    <3> QED BY <3>1, NoAbort
  <2>2. CASE r.rel_state # "Streaming"
    BY <2>2 DEF Justified
  <2> QED BY <2>1, <2>2
<1> QED BY <1>1, <1>2 DEF Call, Told

\* finish_rel on a timer: the only outcome it can give is the one it is told.
LEMMA TimedOut ==
    ASSUME NEW r \in RxType, RxInv(r), NEW o \in {"Stalled", "PeerGone"}
    PROVE  LET q == FinishRel([r EXCEPT !.out = {}], o)
           IN  /\ q \in RxType /\ RxInv(q) /\ Follows(r, q)
               /\ CountTrue(q) /\ q.out = {} /\ q.rel_state = "Finished"
               /\ Justified(r, q)
<1> DEFINE quiet == [r EXCEPT !.out = {}]
           q     == FinishRel(quiet, o)
<1>1. KeepsFaith(r, quiet)
  <2>1. r.since_packet \in 0 .. (IdleTimeout + 1)
    BY DEF RxType
  <2> QED BY <2>1, QuietKeeps
<1>2. quiet.rel_state = r.rel_state /\ quiet.out = {}
  BY DEF RxType
<1> HIDE DEF quiet
<1>3. quiet \in RxType /\ RxInv(quiet)
  BY <1>1 DEF KeepsFaith
<1>4. KeepsFaith(quiet, q) /\ q.rel_state = "Finished"
  <2>1. o \in Aborts
    BY DEF Aborts
  <2> QED BY <1>3, <2>1, FinishRelKeeps
<1>5. /\ q.out = {}
      /\ q.outcome = IF r.rel_state = "Finished" THEN quiet.outcome ELSE o
  BY <1>2, <1>3, FinishRelSays
<1> HIDE DEF q
<1>6. q \in RxType /\ RxInv(q) /\ Follows(r, q)
  BY <1>1, <1>3, <1>4, FollowsOn DEF KeepsFaith
<1>7. CountTrue(q)
  BY <1>4, <1>6, NothingHeld DEF RxInv
<1>8. Justified(r, q)
  BY <1>5 DEF Justified
<1> QED BY <1>4, <1>5, <1>6, <1>7, <1>8 DEF q, quiet

\* tick.
LEMMA OnTickSays ==
    ASSUME NEW r \in RxType, RxInv(r), CountTrue(r)
    PROVE  Call(r, OnTick(r))
<1> DEFINE quiet == [r EXCEPT !.out = {}]
           gone  == FinishRel(quiet, "PeerGone")
           q     == IF r.rel_state # "Streaming" THEN quiet
                    ELSE IF r.since_rel > RelStallTimeout THEN FinishRel(quiet, "Stalled")
                    ELSE EmitNacks(quiet)
<1>1. OnTick(r) = IF r.closed THEN quiet
                  ELSE IF r.since_packet > IdleTimeout
                  THEN [gone EXCEPT !.closed = TRUE]
                  ELSE MaybeAck(q)
  BY DEF OnTick
<1>2. SameCore(r, quiet) /\ quiet.out = {} /\ quiet.nacks = r.nacks
  BY DEF SameCore, RxType
<1>3. quiet \in RxType /\ RxInv(quiet)
  <2>1. r.since_packet \in 0 .. (IdleTimeout + 1)
    BY DEF RxType
  <2> QED BY <2>1, QuietKeeps DEF KeepsFaith
<1>4. CASE r.closed
  <2>1. OnTick(r) = quiet
    BY <1>1, <1>4
  <2> HIDE DEF quiet
  <2> QED BY <1>2, <2>1, SilentCall
<1>5. CASE ~r.closed /\ r.since_packet > IdleTimeout
  <2> DEFINE z == [gone EXCEPT !.closed = TRUE]
  <2>1. /\ gone \in RxType /\ CountTrue(gone) /\ gone.out = {} /\ Justified(r, gone)
    BY TimedOut
  <2> HIDE DEF gone
  <2>2. /\ z.out = {} /\ z.reorder = gone.reorder /\ z.reorder_bytes = gone.reorder_bytes
        /\ z.outcome = gone.outcome /\ z.arrived = gone.arrived
        /\ z.sender_lost_below = gone.sender_lost_below
    BY <2>1 DEF RxType
  <2>3. OnTick(r) = z
    BY <1>1, <1>5
  <2> HIDE DEF z
  <2>4. CountTrue(z)
    BY <2>1, <2>2 DEF CountTrue
  <2>5. Justified(r, z)
    BY <2>1, <2>2 DEF Justified
  <2> QED BY <2>2, <2>3, <2>4, <2>5 DEF Call, Told
<1>6. CASE ~r.closed /\ ~(r.since_packet > IdleTimeout)
  <2>1. OnTick(r) = MaybeAck(q)
    BY <1>1, <1>6
  <2>2. /\ q \in RxType /\ RxInv(q) /\ CountTrue(q) /\ Told(q) /\ Justified(r, q)
        /\ r.rel_state = "Finished" => q.out = {}
    <3>1. CASE r.rel_state # "Streaming"
      <4>1. q = quiet
        BY <3>1
      <4> HIDE DEF quiet, q
      <4>2. CountTrue(q) /\ Told(q)
        BY <1>2, <4>1 DEF CountTrue, SameCore, Told
      <4>3. Justified(r, q)
        BY <3>1 DEF Justified
      <4> QED BY <1>2, <1>3, <4>1, <4>2, <4>3
    <3>2. CASE r.rel_state = "Streaming" /\ r.since_rel > RelStallTimeout
      <4>1. q = FinishRel(quiet, "Stalled")
        BY <3>2
      <4>2. q \in RxType /\ RxInv(q) /\ CountTrue(q) /\ q.out = {} /\ Justified(r, q)
        BY <4>1, TimedOut
      <4> HIDE DEF q
      <4> QED BY <3>2, <4>2 DEF Told
    <3>3. CASE r.rel_state = "Streaming" /\ ~(r.since_rel > RelStallTimeout)
      <4>1. q = EmitNacks(quiet)
        BY <3>3
      <4> HIDE DEF quiet
      <4>2. quiet.rel_state = "Streaming" /\ CountTrue(quiet)
        BY <1>2, <3>3 DEF SameCore, CountTrue
      <4>3. /\ CountTrue(EmitNacks(quiet)) /\ Told(EmitNacks(quiet))
            /\ Justified(quiet, EmitNacks(quiet))
            /\ KeepsFaith(quiet, EmitNacks(quiet))
        BY <1>2, <1>3, <4>2, EmitNacksSays, EmitNacksKeeps
      <4> HIDE DEF q
      <4>4. Justified(r, q)
        BY <1>2, <4>1, <4>3 DEF Justified, SameCore
      <4> QED BY <3>3, <4>1, <4>3, <4>4 DEF KeepsFaith
    <3> QED BY <3>1, <3>2, <3>3
  <2> DEFINE z == MaybeAck(q)
  <2> HIDE DEF q
  <2>3. /\ CountTrue(z) /\ Told(z) /\ SameCore(q, z)
        /\ z.out \in {q.out, q.out \cup {AckPkt(q)}}
    BY <2>2, MaybeAckSays
  <2>4. Justified(r, z)
    BY <2>2, <2>3, StillJustified
  <2> HIDE DEF z
  <2>5. r.rel_state = "Finished" => \A pkt \in z.out : pkt.type # "Nack"
    BY <2>2, <2>3, PacketTypes
  <2>6. Call(r, z)
    BY <1>6, <2>3, <2>4, <2>5 DEF Call
  <2> QED BY <2>1, <2>6 DEF z
<1> QED BY <1>4, <1>5, <1>6

\* set_buffered_ms.
LEMMA QuietCalls ==
    ASSUME NEW r \in RxType, RxInv(r), CountTrue(r), NEW ms \in BufferReports
    PROVE  Call(r, WithBuffered(r, ms))
<1> DEFINE q == WithBuffered(r, ms)
<1>1. SameCore(r, q) /\ q.out = {}
  BY DEF WithBuffered, RxType, SameCore
<1> HIDE DEF q
<1> QED BY <1>1, SilentCall DEF q

\* A unit of time passes.
LEMMA AgedSays ==
    ASSUME NEW r \in RxType, RxInv(r), CountTrue(r)
    PROVE  Call(r, Aged(r))
<1> DEFINE q == Aged(r)
<1>1. SameCore(r, q) /\ q.out = {}
  BY DEF Aged, RxType, SameCore
<1> HIDE DEF q
<1> QED BY <1>1, SilentCall DEF q

-----------------------------------------------------------------------------
(***************************************************************************)
(* What a call makes of the tap's announcements: the final number and      *)
(* lost_below, and the acknowledgement of the tail that answers the first. *)
(***************************************************************************)
SameWord(r, q) ==
    /\ q.final_seq = r.final_seq
    /\ q.sender_lost_below = r.sender_lost_below

\* The tail is acknowledged once, and only when its end is known.
Heard(r, q) ==
    /\ r.end_acked => q.end_acked
    /\ q.end_acked => r.end_acked \/ q.final_seq # NoEnd

\* finish_rel touches none of it.
LEMMA FinishRelHeard ==
    ASSUME NEW r \in RxType, NEW o
    PROVE  LET q == FinishRel(r, o)
           IN  SameWord(r, q) /\ q.end_acked = r.end_acked
BY DEF FinishRel, RxType, SameWord

\* Nor does release_contiguous.
LEMMA ReleaseHeard ==
    ASSUME NEW r \in RxType
    PROVE  LET q == ReleaseContiguous(r)
           IN  SameWord(r, q) /\ q.end_acked = r.end_acked
BY DEF ReleaseContiguous, RxType, SameWord

\* check_finish acknowledges the tail only when its end is known.
LEMMA CheckFinishHeard ==
    ASSUME NEW r \in RxType, Settled(r)
    PROVE  SameWord(r, CheckFinish(r)) /\ Heard(r, CheckFinish(r))
<1> DEFINE ended  == r.final_seq # NoEnd
           landed == ended /\ IsComplete(r.gaps, r.final_seq)
           fin    == IF landed /\ r.rel_state = "Streaming"
                     THEN FinishRel(r, "Complete") ELSE r
           acked  == IF landed /\ ~fin.end_acked
                     THEN [fin EXCEPT !.end_acked = TRUE, !.out = @ \cup {EndAckPkt}]
                     ELSE fin
           q      == IF ended /\ acked.end_acked
                     THEN [acked EXCEPT !.closed = TRUE] ELSE acked
<1>1. r.rel_state = "Streaming" => ReleaseContiguous(r) = r
  BY ReleaseNothing DEF Settled
<1>2. CheckFinish(r) = q
  BY <1>1 DEF CheckFinish
<1>3. SameWord(r, fin) /\ fin.end_acked = r.end_acked
  BY FinishRelHeard DEF SameWord
<1>4. fin \in RxType
  BY FinishRelTyped DEF Outcomes
<1>5. landed => ended
  OBVIOUS
<1> HIDE DEF landed, fin, ended
<1>6. /\ q.final_seq = fin.final_seq /\ q.sender_lost_below = fin.sender_lost_below
      /\ q.end_acked = (landed \/ fin.end_acked)
  BY <1>4 DEF RxType
<1>7. r.end_acked \in BOOLEAN
  BY DEF RxType
<1> HIDE DEF q
<1> QED BY <1>2, <1>3, <1>5, <1>6, <1>7 DEF SameWord, Heard, ended

\* on_data: one step per early return.
LEMMA OnDataHeard ==
    ASSUME NEW r \in RxType, RxInv(r), NEW s \in Frames
    PROVE  SameWord(r, OnData(r, s)) /\ Heard(r, OnData(r, s))
<1> DEFINE a == Arrive(r, s)
           h == Hold(a, s)
           p == ReleaseContiguous(h)
           q == OnData(r, s)
<1>1. /\ a \in RxType /\ AlwaysTrue(a) /\ SameWord(r, a) /\ a.end_acked = r.end_acked
      /\ a.gaps = Record(r.gaps, s)
  BY ArriveTracks DEF RxInv, SameWord
<1>2. h \in RxType /\ SameWord(r, h) /\ h.end_acked = r.end_acked
  <2> HIDE DEF a
  <2>1. h \in RxType
    BY <1>1, HoldKeeps
  <2>2. SameWord(a, h) /\ h.end_acked = a.end_acked
    BY <1>1 DEF Hold, RxType, SameWord
  <2> QED BY <1>1, <2>1, <2>2 DEF SameWord
<1>3. q = IF r.rel_state # "Streaming" \/ ~Fresh(r.gaps, s) THEN a
          ELSE IF WindowSpan(a.gaps) > ReorderWindow THEN FinishRel(a, "BufferExhausted")
          ELSE IF h.reorder_bytes > MaxReorderBytes THEN FinishRel(h, "BufferExhausted")
          ELSE CheckFinish(p)
  BY DEF OnData
<1>4. CASE r.rel_state # "Streaming" \/ ~Fresh(r.gaps, s)
  <2>1. q = a
    BY <1>3, <1>4
  <2> HIDE DEF q, a
  <2> QED BY <1>1, <2>1 DEF Heard, q
<1>5. SameWord(r, FinishRel(a, "BufferExhausted")) /\ Heard(r, FinishRel(a, "BufferExhausted"))
  <2> HIDE DEF a
  <2> QED BY <1>1, FinishRelHeard DEF SameWord, Heard
<1>6. SameWord(r, FinishRel(h, "BufferExhausted")) /\ Heard(r, FinishRel(h, "BufferExhausted"))
  <2> HIDE DEF h
  <2> QED BY <1>2, FinishRelHeard DEF SameWord, Heard
<1>7. CASE /\ r.rel_state = "Streaming" /\ Fresh(r.gaps, s)
           /\ ~(WindowSpan(a.gaps) > ReorderWindow)
  <2>1. WindowSpan(Record(r.gaps, s)) <= ReorderWindow
    <3> HIDE DEF a
    <3>0. a.gaps \in GapType
      BY <1>1 DEF RxType
    <3>1. a.gaps.contiguous \in Nat /\ a.gaps.highest \in Nat
      BY <3>0, SizeAssumption DEF GapType
    <3>2. WindowSpan(a.gaps) \in Nat
      BY <3>1 DEF WindowSpan
    <3> QED BY <1>1, <1>7, <3>2, ConfigAssumption
  <2>2. p \in RxType /\ Settled(p)
    BY <1>7, <2>1, ReleaseSettles
  <2>3. SameWord(r, p) /\ p.end_acked = r.end_acked
    <3> HIDE DEF h
    <3> QED BY <1>2, ReleaseHeard DEF SameWord
  <2> HIDE DEF p
  <2>4. SameWord(p, CheckFinish(p)) /\ Heard(p, CheckFinish(p))
    BY <2>2, CheckFinishHeard
  <2>5. SameWord(r, CheckFinish(p)) /\ Heard(r, CheckFinish(p))
    BY <2>3, <2>4 DEF SameWord, Heard
  <2>6. q = FinishRel(h, "BufferExhausted") \/ q = CheckFinish(p)
    BY <1>3, <1>7
  <2> HIDE DEF q, h
  <2> QED BY <1>6, <2>5, <2>6 DEF q
<1>8. CASE WindowSpan(a.gaps) > ReorderWindow /\ ~(r.rel_state # "Streaming" \/ ~Fresh(r.gaps, s))
  <2>1. q = FinishRel(a, "BufferExhausted")
    BY <1>3, <1>8
  <2> HIDE DEF q, a
  <2> QED BY <1>5, <2>1 DEF q
<1> HIDE DEF a, q
<1> QED BY <1>4, <1>7, <1>8 DEF q

\* The End arm: the end becomes known.
LEMMA OnEndHeard ==
    ASSUME NEW r \in RxType, RxInv(r)
    PROVE  LET q == CheckFinish([r EXCEPT !.final_seq = NumFrames])
           IN  /\ q.final_seq = NumFrames
               /\ q.sender_lost_below = r.sender_lost_below
               /\ Heard(r, q)
<1> DEFINE e == [r EXCEPT !.final_seq = NumFrames]
<1>1. /\ e \in RxType /\ e.final_seq = NumFrames /\ e.end_acked = r.end_acked
      /\ e.sender_lost_below = r.sender_lost_below
  BY DEF RxType
<1>2. /\ e.rel_state = r.rel_state /\ e.reorder = r.reorder /\ e.gaps = r.gaps
      /\ e.reorder_bytes = r.reorder_bytes /\ e.arrived = r.arrived
      /\ e.rel_released = r.rel_released
  BY DEF RxType
<1> HIDE DEF e
<1>3. Settled(e)
  BY <1>1, <1>2 DEF RxInv, Settled
<1>4. SameWord(e, CheckFinish(e)) /\ Heard(e, CheckFinish(e))
  BY <1>1, <1>3, CheckFinishHeard
<1> QED BY <1>1, <1>4 DEF SameWord, Heard, e

\* The Keepalive arm: lost_below is what the tap last said, if that is more.
LEMMA OnKeepaliveHeard ==
    ASSUME NEW r \in RxType, RxInv(r), NEW l \in 0 .. NumFrames
    PROVE  LET q == OnKeepalive(r, l)
           IN  /\ q.final_seq = r.final_seq
               /\ q.sender_lost_below \in {r.sender_lost_below, l}
               /\ Heard(r, q)
<1> DEFINE t == [r EXCEPT !.sender_lost_below = l]
           d == IF l <= r.sender_lost_below THEN r
                ELSE IF r.gaps.contiguous < l THEN FinishRel(t, "SenderDiscarded")
                ELSE t
           q == OnKeepalive(r, l)
<1>1. q = CheckFinish(d)
  BY DEF OnKeepalive
<1>2. /\ t \in RxType /\ t.final_seq = r.final_seq /\ t.end_acked = r.end_acked
      /\ t.sender_lost_below = l
  BY DEF RxType
<1>3. /\ t.rel_state = r.rel_state /\ t.reorder = r.reorder /\ t.gaps = r.gaps
      /\ t.reorder_bytes = r.reorder_bytes /\ t.arrived = r.arrived
      /\ t.rel_released = r.rel_released
  BY DEF RxType
<1>4. r.gaps.contiguous \in Nat /\ l \in Nat
  BY SizeAssumption DEF RxType, GapType
<1> HIDE DEF t
<1>5. /\ d \in RxType /\ Settled(d)
      /\ d.final_seq = r.final_seq /\ d.end_acked = r.end_acked
      /\ d.sender_lost_below \in {r.sender_lost_below, l}
  <2>1. CASE l <= r.sender_lost_below
    BY <2>1 DEF RxInv
  <2>2. CASE ~(l <= r.sender_lost_below) /\ ~(r.gaps.contiguous < l)
    <3>1. d = t
      BY <2>2
    <3> HIDE DEF d
    <3>2. Settled(t)
      BY <1>2, <1>3, <1>4, <2>2 DEF RxInv, Settled
    <3> QED BY <1>2, <3>1, <3>2 DEF d
  <2>3. CASE ~(l <= r.sender_lost_below) /\ r.gaps.contiguous < l
    <3> DEFINE f == FinishRel(t, "SenderDiscarded")
    <3>1. d = f
      BY <2>3
    <3>2. f \in RxType
      BY <1>2, FinishRelTyped DEF Outcomes, Aborts
    <3>3. SameWord(t, f) /\ f.end_acked = t.end_acked
      BY <1>2, FinishRelHeard
    <3>4. f.rel_state = "Finished"
      BY <1>2, FinishRelSays
    <3>5. f.reorder = {} /\ f.reorder_bytes = 0
      <4>1. CASE t.rel_state = "Finished"
        <5>1. f = t
          BY <4>1 DEF FinishRel
        <5> HIDE DEF f
        <5> QED BY <1>3, <4>1, <5>1 DEF RxInv, Settled
      <4>2. CASE t.rel_state # "Finished"
        BY <1>2, <4>2 DEF FinishRel, RxType
      <4> QED BY <4>1, <4>2
    <3> HIDE DEF f
    <3>6. Settled(f)
      BY <3>4, <3>5 DEF Settled
    <3> HIDE DEF d
    <3> QED BY <1>2, <3>1, <3>2, <3>3, <3>6 DEF SameWord, d
  <2> QED BY <2>1, <2>2, <2>3
<1> HIDE DEF d, q
<1>6. SameWord(d, CheckFinish(d)) /\ Heard(d, CheckFinish(d))
  BY <1>5, CheckFinishHeard
<1> QED BY <1>1, <1>5, <1>6 DEF SameWord, Heard, q

\* handle of each packet.
LEMMA HandleHears ==
    ASSUME NEW r \in RxType, RxInv(r), CountTrue(r)
    PROVE  /\ \A s \in Frames :
                 LET q == Handle(r, [type |-> "Data", seq |-> s])
                 IN  SameWord(r, q) /\ Heard(r, q)
           /\ LET q == Handle(r, [type |-> "End", seq |-> NumFrames])
              IN  /\ q.final_seq = NumFrames /\ q.sender_lost_below = r.sender_lost_below
                  /\ Heard(r, q)
           /\ \A l \in 0 .. NumFrames :
                 LET q == Handle(r, [type |-> "Keepalive", seq |-> l])
                 IN  /\ q.final_seq = r.final_seq
                     /\ q.sender_lost_below \in {r.sender_lost_below, l}
                     /\ Heard(r, q)
<1> DEFINE fed  == [r EXCEPT !.since_packet = 0, !.out = {}]
           e    == CheckFinish([fed EXCEPT !.final_seq = NumFrames])
<1>1. fed \in RxType /\ RxInv(fed)
  BY FedIsGood DEF KeepsFaith
<1>2. SameWord(r, fed) /\ fed.end_acked = r.end_acked
  BY DEF SameWord, RxType
<1>3. /\ \A s : Handle(r, [type |-> "Data", seq |-> s]) = MaybeAck(OnData(fed, s))
      /\ Handle(r, [type |-> "End", seq |-> NumFrames]) = MaybeAck(e)
      /\ \A l : Handle(r, [type |-> "Keepalive", seq |-> l]) = MaybeAck(OnKeepalive(fed, l))
  BY DEF Handle
<1>4. ASSUME NEW q \in RxType
      PROVE  LET z == MaybeAck(q) IN SameWord(q, z) /\ z.end_acked = q.end_acked
  BY DEF MaybeAck, RxType, SameWord
<1> HIDE DEF fed
<1>5. ASSUME NEW s \in Frames
      PROVE  LET q == Handle(r, [type |-> "Data", seq |-> s])
             IN  SameWord(r, q) /\ Heard(r, q)
  <2> DEFINE d == OnData(fed, s)
  <2>1. d \in RxType
    BY <1>1, OnDataLands DEF Lands
  <2>2. SameWord(fed, d) /\ Heard(fed, d)
    BY <1>1, OnDataHeard
  <2> HIDE DEF d
  <2>3. SameWord(r, MaybeAck(d)) /\ Heard(r, MaybeAck(d))
    BY <1>2, <1>4, <2>1, <2>2 DEF SameWord, Heard
  <2> QED BY <1>3, <2>3 DEF d
<1>6. LET q == Handle(r, [type |-> "End", seq |-> NumFrames])
      IN  /\ q.final_seq = NumFrames /\ q.sender_lost_below = r.sender_lost_below
          /\ Heard(r, q)
  <2>1. e \in RxType
    BY <1>1, OnEndKeeps DEF KeepsFaith
  <2>2. /\ e.final_seq = NumFrames /\ e.sender_lost_below = fed.sender_lost_below
        /\ Heard(fed, e)
    BY <1>1, OnEndHeard
  <2> HIDE DEF e
  <2>3. LET z == MaybeAck(e)
        IN  /\ z.final_seq = NumFrames /\ z.sender_lost_below = r.sender_lost_below
            /\ Heard(r, z)
    BY <1>2, <1>4, <2>1, <2>2 DEF SameWord, Heard
  <2> QED BY <1>3, <2>3
<1>7. ASSUME NEW l \in 0 .. NumFrames
      PROVE  LET q == Handle(r, [type |-> "Keepalive", seq |-> l])
             IN  /\ q.final_seq = r.final_seq
                 /\ q.sender_lost_below \in {r.sender_lost_below, l}
                 /\ Heard(r, q)
  <2> DEFINE k == OnKeepalive(fed, l)
  <2>1. k \in RxType
    BY <1>1, OnKeepaliveKeeps DEF KeepsFaith
  <2>2. /\ k.final_seq = fed.final_seq
        /\ k.sender_lost_below \in {fed.sender_lost_below, l} /\ Heard(fed, k)
    BY <1>1, OnKeepaliveHeard
  <2> HIDE DEF k
  <2>3. LET z == MaybeAck(k)
        IN  /\ z.final_seq = r.final_seq
            /\ z.sender_lost_below \in {r.sender_lost_below, l}
            /\ Heard(r, z)
    BY <1>2, <1>4, <2>1, <2>2 DEF SameWord, Heard
  <2> QED BY <1>3, <2>3 DEF k
<1> QED BY <1>5, <1>6, <1>7

\* tick, set_buffered_ms and the clock learn nothing from the tap.
LEMMA TimersHearNothing ==
    ASSUME NEW r \in RxType, RxInv(r), NEW ms
    PROVE  /\ SameWord(r, OnTick(r)) /\ Heard(r, OnTick(r))
           /\ SameWord(r, WithBuffered(r, ms)) /\ Heard(r, WithBuffered(r, ms))
           /\ SameWord(r, Aged(r)) /\ Heard(r, Aged(r))
<1>1. SameWord(r, WithBuffered(r, ms)) /\ WithBuffered(r, ms).end_acked = r.end_acked
  BY DEF WithBuffered, RxType, SameWord
<1>2. SameWord(r, Aged(r)) /\ Aged(r).end_acked = r.end_acked
  BY DEF Aged, RxType, SameWord
<1> DEFINE quiet == [r EXCEPT !.out = {}]
<1>3. quiet \in RxType /\ RxInv(quiet) /\ SameWord(r, quiet) /\ quiet.end_acked = r.end_acked
  <2>1. r.since_packet \in 0 .. (IdleTimeout + 1)
    BY DEF RxType
  <2>2. SameWord(r, quiet) /\ quiet.end_acked = r.end_acked
    BY DEF RxType, SameWord
  <2> QED BY <2>1, <2>2, QuietKeeps DEF KeepsFaith
<1>4. ASSUME NEW q \in RxType, SameWord(r, q), q.end_acked = r.end_acked
      PROVE  LET z == MaybeAck(q) IN SameWord(r, z) /\ z.end_acked = r.end_acked
  BY <1>4 DEF MaybeAck, RxType, SameWord
<1>5. SameWord(r, OnTick(r)) /\ OnTick(r).end_acked = r.end_acked
  <2> DEFINE gone == FinishRel(quiet, "PeerGone")
             stop == FinishRel(quiet, "Stalled")
             asks == EmitNacks(quiet)
             z    == [gone EXCEPT !.closed = TRUE]
  <2>1. OnTick(r) \in {quiet, z, MaybeAck(quiet), MaybeAck(stop)}
           \/ (OnTick(r) = MaybeAck(asks) /\ r.rel_state = "Streaming")
    BY DEF OnTick
  <2>2. quiet.rel_state = r.rel_state
    BY DEF RxType
  <2> HIDE DEF quiet
  <2>3. gone \in RxType /\ stop \in RxType
    BY <1>3, FinishRelTyped DEF Outcomes, Aborts
  <2>4. /\ SameWord(quiet, gone) /\ gone.end_acked = quiet.end_acked
        /\ SameWord(quiet, stop) /\ stop.end_acked = quiet.end_acked
    BY <1>3, FinishRelHeard
  <2>5. r.rel_state = "Streaming" => asks \in RxType
    BY <1>3, <2>2, EmitNacksKeeps DEF KeepsFaith
  <2>6. SameWord(quiet, asks) /\ asks.end_acked = quiet.end_acked
    <3> DEFINE missing == Missing(quiet.gaps, MaxNackEntries)
               ask     == {s \in missing : quiet.nacks[s].since >= NackDelay(quiet.nacks[s].n)}
               t       == [s \in Frames |-> IF s \in ask
                                            THEN [n |-> quiet.nacks[s].n + 1, since |-> 0]
                                            ELSE quiet.nacks[s]]
               o       == quiet.out \cup {NackPkt(ask)}
    <3>1. asks \in {FinishRel(quiet, "UnrecoverableGap"), quiet,
                    [quiet EXCEPT !.nacks = t, !.out = o]}
      BY DEF EmitNacks
    <3> HIDE DEF t, o, asks
    <3>2. LET f == FinishRel(quiet, "UnrecoverableGap")
          IN  SameWord(quiet, f) /\ f.end_acked = quiet.end_acked
      BY <1>3, FinishRelHeard
    <3>3. LET f == [quiet EXCEPT !.nacks = t, !.out = o]
          IN  SameWord(quiet, f) /\ f.end_acked = quiet.end_acked
      BY <1>3 DEF RxType, SameWord
    <3> QED BY <3>1, <3>2, <3>3 DEF SameWord
  <2> HIDE DEF gone, stop, asks
  <2>7. SameWord(gone, z) /\ z.end_acked = gone.end_acked
    BY <2>3 DEF RxType, SameWord
  <2> HIDE DEF z
  <2>8. /\ SameWord(r, z) /\ z.end_acked = r.end_acked
        /\ SameWord(r, stop) /\ stop.end_acked = r.end_acked
        /\ SameWord(r, asks) /\ asks.end_acked = r.end_acked
    BY <1>3, <2>4, <2>6, <2>7 DEF SameWord
  <2> QED BY <1>3, <1>4, <2>1, <2>3, <2>5, <2>8
<1> QED BY <1>1, <1>2, <1>5 DEF Heard

-----------------------------------------------------------------------------
(***************************************************************************)
(* The specification.                                                      *)
(***************************************************************************)
CallInv == CountTrue(rx) /\ Told(rx)

\* Every step is a call.
LEMMA StepIsCall ==
    ASSUME TypeOK, IndInv, CallInv, Next
    PROVE  Call(rx, rx')
<1>0. rx \in RxType /\ RxInv(rx) /\ CountTrue(rx)
  BY DEF TypeOK, IndInv, CallInv
<1>1. CASE HandleData
  BY <1>0, <1>1, HandleCalls DEF HandleData
<1>2. CASE HandleEnd
  BY <1>0, <1>2, HandleCalls DEF HandleEnd
<1>3. CASE HandleKeepalive
  BY <1>0, <1>3, HandleCalls DEF HandleKeepalive
<1>4. CASE Tick
  BY <1>0, <1>4, OnTickSays DEF Tick
<1>5. CASE SetBufferedMs
  BY <1>0, <1>5, QuietCalls DEF SetBufferedMs
<1>6. CASE Elapse
  BY <1>0, <1>6, AgedSays DEF Elapse
<1> QED BY <1>1, <1>2, <1>3, <1>4, <1>5, <1>6 DEF Next

\* A new receiver holds nothing and has said nothing.
LEMMA NewIsQuiet == Init => CallInv
<1> SUFFICES ASSUME Init PROVE CallInv
  OBVIOUS
<1>1. rx.reorder = {} /\ rx.reorder_bytes = 0 /\ rx.out = {}
  BY DEF Init, XferReceiverNew
<1> QED BY <1>1, NothingWeighs, ConfigAssumption DEF CallInv, CountTrue, Told

\* Between any two calls the byte count is the sum of the frames held and every
\* packet the last call put out was true (receiver.rs as a whole).
THEOREM CallsAreTrue == Spec => [](TypeOK /\ IndInv /\ CallInv)
<1>1. Init => CallInv
  BY NewIsQuiet
<1>2. TypeOK /\ IndInv /\ CallInv /\ [Next]_rx => CallInv'
  <2> SUFFICES ASSUME TypeOK, IndInv, CallInv, [Next]_rx PROVE CallInv'
    OBVIOUS
  <2>1. CASE Next
    BY <2>1, StepIsCall DEF Call, CallInv
  <2>2. CASE UNCHANGED rx
    BY <2>2 DEF CallInv
  <2> QED BY <2>1, <2>2
<1> QED BY <1>1, <1>2, ReceiverCorrect, PTL DEF Spec

\* A NACK asks only for frames that can still be had, and fits one datagram
\* (emit_nacks).
THEOREM NacksAreSound == Spec => []NackSound
<1>1. CallInv => NackSound
  BY DEF CallInv, Told, NackTrue, NackSound
<1> QED BY <1>1, CallsAreTrue, PTL

\* No Ack claims a frame that did not arrive, also after an abort (maybe_ack).
THEOREM AcksAreSound == Spec => []AckSound
<1>1. CallInv => AckSound
  BY DEF CallInv, Told, AckTrue, AckSound
<1> QED BY <1>1, CallsAreTrue, PTL

\* The reorder buffer mirrors the index and its byte count is exact: the
\* subtraction of release_contiguous never wraps.
THEOREM ReorderIsExact == Spec => []ReorderMirrorsGaps
<1>1. TypeOK /\ IndInv /\ CallInv => ReorderMirrorsGaps
  BY DEF IndInv, RxInv, Settled, CallInv, CountTrue, ReorderMirrorsGaps, Streaming
<1> QED BY <1>1, CallsAreTrue, PTL

\* The reorder buffer respects its window and its byte ceiling (on_data), and a
\* finished reliable stream holds nothing (finish_rel).
THEOREM MemoryIsBounded == Spec => []MemoryBounded
<1>1. TypeOK /\ IndInv /\ CallInv => MemoryBounded
  <2> SUFFICES ASSUME TypeOK, IndInv, CallInv PROVE MemoryBounded
    OBVIOUS
  <2>1. /\ rx.rel_state \in {"Streaming", "Finished"}
        /\ rx.gaps.contiguous \in Nat /\ rx.gaps.highest \in Nat
    BY SizeAssumption, SMTT(30) DEF TypeOK, RxType, GapType
  <2>2. /\ Streaming => WindowSpan(rx.gaps) <= ReorderWindow
        /\ rx.reorder_bytes <= MaxReorderBytes
        /\ ~Streaming => rx.reorder = {} /\ rx.reorder_bytes = 0
    BY <2>1 DEF IndInv, RxInv, Settled, CallInv, CountTrue, Streaming
  <2>3. Cardinality(rx.reorder) <= ReorderWindow
    <3>1. CASE ~Streaming
      <4>1. Cardinality(rx.reorder) = 0
        BY <2>2, <3>1, FS_EmptySet, Zenon
      <4> QED BY <4>1, ConfigAssumption
    <3>2. CASE Streaming
      <4> DEFINE lo == rx.gaps.contiguous + 2
                 hi == rx.gaps.highest
      <4>1. rx.reorder \in SUBSET (lo .. hi)
        BY <3>2 DEF IndInv, RxInv, AlwaysTrue, TrackerTrue, Settled, Streaming
      <4>2. lo \in Int /\ hi \in Int
        BY <2>1
      <4>3. lo <= hi => hi - lo + 1 <= ReorderWindow
        BY <2>1, <2>2, <3>2, ConfigAssumption DEF WindowSpan
      <4> HIDE DEF lo, hi
      <4>4. /\ IsFiniteSet(lo .. hi)
            /\ Cardinality(lo .. hi) = IF lo > hi THEN 0 ELSE hi - lo + 1
        BY <4>2, FS_Interval
      <4>5. Cardinality(rx.reorder) <= Cardinality(lo .. hi) /\ IsFiniteSet(rx.reorder)
        BY <4>1, <4>4, FS_Subset
      <4>6. Cardinality(rx.reorder) \in Nat
        BY <4>5, FS_CardinalityType
      <4> QED BY <4>2, <4>3, <4>4, <4>5, <4>6, ConfigAssumption
    <3> QED BY <3>1, <3>2
  <2> QED BY <2>2, <2>3 DEF MemoryBounded
<1> QED BY <1>1, CallsAreTrue, PTL

\* One outcome, nothing released after it, and a closed receiver says nothing
\* but EndAck (finish_rel and the early returns of tick and maybe_ack).
THEOREM TheOutcomeIsFinal == Spec => OutcomeIsFinal
<1> DEFINE Final == /\ ~Streaming => /\ rx'.outcome = rx.outcome
                                     /\ rx'.rel_released = rx.rel_released
                                     /\ \A pkt \in rx'.out : pkt.type # "Nack"
                    /\ rx.closed => rx'.closed /\ rx'.out \subseteq {EndAckPkt}
<1>1. TypeOK /\ IndInv /\ CallInv /\ [Next]_rx => [Final]_rx
  <2> SUFFICES ASSUME TypeOK, IndInv, CallInv, Next PROVE Final
    OBVIOUS
  <2>1. Call(rx, rx') /\ Follows(rx, rx')
    BY StepIsCall, StepIsGood DEF Lands, KeepsFaith
  <2>2. ~Streaming => rx.rel_state = "Finished"
    BY DEF TypeOK, RxType, Streaming
  <2> QED BY <2>1, <2>2 DEF Call, Follows
<1> QED BY <1>1, CallsAreTrue, PTL DEF Spec, OutcomeIsFinal

\* A reason that names a frame names a true one (emit_nacks, on_data and the
\* Keepalive arm of handle).
THEOREM AbortsTellTheTruth == Spec => AbortsAreJustified
<1> DEFINE True ==
      Streaming =>
          /\ rx'.outcome = "UnrecoverableGap" =>
                \E s \in Frames \ rx.arrived :
                   /\ rx.nacks[s].n = MaxNackAttempts
                   /\ \E t \in rx.arrived : s < t
          /\ rx'.outcome = "SenderDiscarded" =>
                \E s \in Frames \ rx.arrived : s <= rx'.sender_lost_below
          /\ rx'.outcome = "BufferExhausted" =>
                \E s \in rx'.arrived \ rx.arrived :
                   \/ s > rx.gaps.contiguous + 1 /\ s > rx.gaps.contiguous + ReorderWindow
                   \/ rx.reorder_bytes + PayloadLen(s) > MaxReorderBytes
<1>1. TypeOK /\ IndInv /\ CallInv /\ [Next]_rx => [True]_rx
  <2> SUFFICES ASSUME TypeOK, IndInv, CallInv, Next PROVE True
    OBVIOUS
  <2>1. Justified(rx, rx')
    BY StepIsCall DEF Call
  <2> QED BY <2>1 DEF Justified, Streaming
<1> QED BY <1>1, CallsAreTrue, PTL DEF Spec, AbortsAreJustified

-----------------------------------------------------------------------------
(***************************************************************************)
(* How far the duplicates at playback go.  PlaybackNeverSeesADuplicate is  *)
(* violated; what holds is that a frame is shown twice only once the       *)
(* reliable stream has been given up, and never one that the cache got.    *)
(***************************************************************************)
ReplayTrue(r) ==
    r.replayed # {} => r.outcome \in Aborts /\ \A s \in r.replayed : s > r.rel_released

\* Nothing new is shown twice.
Unreplayed(r, q) == "replayed" \in DOMAIN q /\ q.replayed = r.replayed

\* Only on_data shows a frame to playback; the other methods leave that alone.
LEMMA NothingShown ==
    ASSUME NEW r, "replayed" \in DOMAIN r, NEW outcome
    PROVE  /\ Unreplayed(r, FinishRel(r, outcome)) /\ Unreplayed(r, ReleaseContiguous(r))
           /\ Unreplayed(r, EmitNacks(r)) /\ Unreplayed(r, MaybeAck(r))
<1>1. Unreplayed(r, FinishRel(r, outcome))
  BY DEF Unreplayed, FinishRel
<1>2. Unreplayed(r, ReleaseContiguous(r))
  BY DEF Unreplayed, ReleaseContiguous
<1>3. Unreplayed(r, FinishRel(r, "UnrecoverableGap"))
  BY DEF Unreplayed, FinishRel
<1>4. Unreplayed(r, EmitNacks(r))
  BY <1>3 DEF Unreplayed, EmitNacks
<1>5. Unreplayed(r, MaybeAck(r))
  BY DEF Unreplayed, MaybeAck
<1> QED BY <1>1, <1>2, <1>4, <1>5

\* Neither does check_finish.
LEMMA CheckFinishShowsNothing ==
    ASSUME NEW r, "replayed" \in DOMAIN r
    PROVE  Unreplayed(r, CheckFinish(r))
<1> DEFINE ended  == r.final_seq # NoEnd
           landed == ended /\ IsComplete(r.gaps, r.final_seq)
           out    == FinishRel(ReleaseContiguous(r), "Complete")
           fin    == IF landed /\ r.rel_state = "Streaming" THEN out ELSE r
           acked  == IF landed /\ ~fin.end_acked
                     THEN [fin EXCEPT !.end_acked = TRUE, !.out = @ \cup {EndAckPkt}]
                     ELSE fin
           q      == IF ended /\ acked.end_acked THEN [acked EXCEPT !.closed = TRUE] ELSE acked
<1>1. CheckFinish(r) = q
  BY Zenon DEF CheckFinish
<1>2. Unreplayed(r, out)
  BY NothingShown, Zenon DEF Unreplayed
<1> HIDE DEF ended, landed, out
<1>3. Unreplayed(r, fin)
  BY <1>2 DEF Unreplayed
<1> HIDE DEF fin
<1>4. Unreplayed(r, acked)
  BY <1>3 DEF Unreplayed
<1> HIDE DEF acked
<1>5. Unreplayed(r, q)
  BY <1>4 DEF Unreplayed
<1> QED BY <1>1, <1>5

\* Unreplayed is transitive.
LEMMA UnreplayedOn ==
    ASSUME NEW r, NEW q, NEW z, Unreplayed(r, q), Unreplayed(q, z)
    PROVE  Unreplayed(r, z)
BY DEF Unreplayed

\* on_data shows a frame twice only if it counts as fresh and was shown.
LEMMA OnDataShows ==
    ASSUME NEW r \in RxType, NEW s \in Frames
    PROVE  /\ "replayed" \in DOMAIN OnData(r, s)
           /\ OnData(r, s).replayed =
                r.replayed \cup (IF Fresh(r.gaps, s) /\ WantsUnrel THEN {s} \cap r.played ELSE {})
<1> DEFINE seen == Arrive(r, s)
           held == Hold(seen, s)
           more == IF Fresh(r.gaps, s) /\ WantsUnrel THEN {s} \cap r.played ELSE {}
<1>1. "replayed" \in DOMAIN seen /\ seen.replayed = r.replayed \cup more
  BY DEF Arrive, RxType
<1> HIDE DEF seen, more
<1>2. Unreplayed(seen, held)
  BY <1>1 DEF Hold, Unreplayed
<1> HIDE DEF held
<1>3. Unreplayed(seen, FinishRel(seen, "BufferExhausted"))
  BY <1>1, NothingShown
<1>4. Unreplayed(seen, FinishRel(held, "BufferExhausted"))
  BY <1>2, NothingShown, UnreplayedOn DEF Unreplayed
<1>5. Unreplayed(seen, CheckFinish(ReleaseContiguous(held)))
  <2> DEFINE z == ReleaseContiguous(held)
  <2>1. Unreplayed(held, z)
    BY <1>2, NothingShown DEF Unreplayed
  <2> HIDE DEF z
  <2>2. Unreplayed(z, CheckFinish(z))
    BY <2>1, CheckFinishShowsNothing DEF Unreplayed
  <2>3. Unreplayed(seen, CheckFinish(z))
    BY <1>2, <2>1, <2>2, UnreplayedOn
  <2> QED BY <2>3 DEF z
<1>6. OnData(r, s) \in {seen, FinishRel(seen, "BufferExhausted"),
                        FinishRel(held, "BufferExhausted"),
                        CheckFinish(ReleaseContiguous(held))}
  BY Zenon DEF OnData, seen, held
<1>7. Unreplayed(seen, seen)
  BY <1>1 DEF Unreplayed
<1>8. Unreplayed(seen, OnData(r, s))
  BY <1>3, <1>4, <1>5, <1>6, <1>7
<1> QED BY <1>1, <1>8 DEF Unreplayed, more

\* A data packet shows a frame twice only as on_data does.
LEMMA HandleDataShows ==
    ASSUME NEW r \in RxType, RxInv(r), NEW s \in Frames
    PROVE  Handle(r, [type |-> "Data", seq |-> s]).replayed =
             r.replayed \cup (IF Fresh(r.gaps, s) /\ WantsUnrel THEN {s} \cap r.played ELSE {})
<1> DEFINE zero == 0
           fed  == [r EXCEPT !.since_packet = zero, !.out = {}]
           q    == OnData(fed, s)
<1>1. zero \in 0 .. (IdleTimeout + 1)
  BY ConfigAssumption
<1>2. Handle(r, [type |-> "Data", seq |-> s]) = MaybeAck(q)
  BY DEF Handle
<1> HIDE DEF zero
<1>3. fed \in RxType
  BY <1>1, QuietKeeps DEF KeepsFaith
<1>4. fed.replayed = r.replayed /\ fed.gaps = r.gaps /\ fed.played = r.played
  BY DEF RxType
<1> HIDE DEF fed
<1>5. /\ "replayed" \in DOMAIN q
      /\ q.replayed = r.replayed
                      \cup (IF Fresh(r.gaps, s) /\ WantsUnrel THEN {s} \cap r.played ELSE {})
  BY <1>3, <1>4, OnDataShows
<1> HIDE DEF q
<1>6. MaybeAck(q).replayed = q.replayed
  BY <1>5, NothingShown DEF Unreplayed
<1> QED BY <1>2, <1>5, <1>6

\* End and keepalives show nothing.
LEMMA HandleControlShowsNothing ==
    ASSUME NEW r \in RxType, NEW l
    PROVE  /\ Handle(r, [type |-> "End", seq |-> l]).replayed = r.replayed
           /\ Handle(r, [type |-> "Keepalive", seq |-> l]).replayed = r.replayed
<1> DEFINE fed  == [r EXCEPT !.since_packet = 0, !.out = {}]
           e    == [fed EXCEPT !.final_seq = l]
           told == [fed EXCEPT !.sender_lost_below = l]
           gone == FinishRel(told, "SenderDiscarded")
           k    == IF l <= fed.sender_lost_below THEN fed
                   ELSE IF fed.gaps.contiguous < l THEN gone ELSE told
<1>1. /\ Handle(r, [type |-> "End", seq |-> l]) = MaybeAck(CheckFinish(e))
      /\ Handle(r, [type |-> "Keepalive", seq |-> l]) = MaybeAck(CheckFinish(k))
  BY DEF Handle, OnKeepalive
<1>2. Unreplayed(r, fed)
  BY DEF Unreplayed, RxType
<1> HIDE DEF fed
<1>3. Unreplayed(r, e) /\ Unreplayed(r, told)
  BY <1>2 DEF Unreplayed
<1> HIDE DEF e, told
<1>4. Unreplayed(r, gone)
  BY <1>3, NothingShown DEF Unreplayed
<1> HIDE DEF gone
<1>5. Unreplayed(r, k)
  BY <1>2, <1>3, <1>4
<1> HIDE DEF k
<1>6. ASSUME NEW x, Unreplayed(r, x) PROVE MaybeAck(CheckFinish(x)).replayed = r.replayed
  <2> DEFINE c == CheckFinish(x)
  <2>1. Unreplayed(x, c)
    BY <1>6, CheckFinishShowsNothing DEF Unreplayed
  <2> HIDE DEF c
  <2>2. Unreplayed(c, MaybeAck(c))
    BY <2>1, NothingShown DEF Unreplayed
  <2>3. MaybeAck(c).replayed = r.replayed
    BY <1>6, <2>1, <2>2 DEF Unreplayed
  <2> QED BY <2>3 DEF c
<1> QED BY <1>1, <1>3, <1>5, <1>6

\* Neither do the timers, nor the owner's reports.
LEMMA TimersShowNothing ==
    ASSUME NEW r \in RxType, NEW ms
    PROVE  /\ OnTick(r).replayed = r.replayed
           /\ WithBuffered(r, ms).replayed = r.replayed /\ Aged(r).replayed = r.replayed
<1> DEFINE quiet == [r EXCEPT !.out = {}]
           gone  == FinishRel(quiet, "PeerGone")
           shut  == [gone EXCEPT !.closed = TRUE]
           stall == FinishRel(quiet, "Stalled")
           asked == EmitNacks(quiet)
           inner == IF r.rel_state # "Streaming" THEN quiet
                    ELSE IF r.since_rel > RelStallTimeout THEN stall ELSE asked
<1>1. OnTick(r) = IF r.closed THEN quiet
                  ELSE IF r.since_packet > IdleTimeout THEN shut ELSE MaybeAck(inner)
  BY Zenon DEF OnTick
<1>2. Unreplayed(r, quiet)
  BY DEF Unreplayed, RxType
<1> HIDE DEF quiet
<1>3. Unreplayed(r, gone) /\ Unreplayed(r, stall) /\ Unreplayed(r, asked)
  BY <1>2, NothingShown DEF Unreplayed
<1> HIDE DEF gone, stall, asked
<1>4. Unreplayed(r, shut)
  BY <1>3 DEF Unreplayed
<1>5. Unreplayed(r, inner)
  BY <1>2, <1>3
<1> HIDE DEF shut, inner
<1>6. Unreplayed(r, MaybeAck(inner))
  BY <1>5, NothingShown DEF Unreplayed
<1>7. OnTick(r).replayed = r.replayed
  BY <1>1, <1>2, <1>4, <1>6 DEF Unreplayed
<1>8. WithBuffered(r, ms).replayed = r.replayed /\ Aged(r).replayed = r.replayed
  BY DEF WithBuffered, Aged, RxType
<1> QED BY <1>7, <1>8

\* A frame that counts as fresh although it was shown: the stream was given up,
\* and the cache never got the frame.
LEMMA FreshAgain ==
    ASSUME NEW r \in RxType, RxInv(r), NEW s \in Frames, Fresh(r.gaps, s), s \in r.played
    PROVE  r.outcome \in Aborts /\ s > r.rel_released
<1>1. r.played \subseteq r.arrived /\ s \in r.arrived
  BY DEF RxInv, AlwaysTrue
<1>2. /\ s \in Nat /\ s <= NumFrames /\ r.gaps.contiguous \in Nat /\ r.rel_released \in Nat
      /\ NumFrames \in Nat /\ s > r.gaps.contiguous /\ s \notin r.gaps.ahead
  BY SizeAssumption DEF RxType, GapType, Frames, Fresh
<1>3. r.rel_released <= r.gaps.contiguous
  BY DEF RxInv, AlwaysTrue
<1>4. r.rel_state # "Streaming"
  BY <1>1, <1>2 DEF RxInv, Settled
<1>5. r.outcome # "Complete"
  BY <1>2, <1>3 DEF RxInv, Concluded
<1>6. r.outcome # NoOutcome
  BY <1>4 DEF RxInv, AlwaysTrue, RxType
<1> QED BY <1>2, <1>3, <1>5, <1>6 DEF RxType, Outcomes

\* A frame is shown twice only after the reliable stream was given up, and only
\* a frame that the cache did not get (on_data, finish_rel, abandon).
THEOREM DuplicatesFollowAnAbort == Spec => []ReplayTrue(rx)
<1>1. Init => ReplayTrue(rx)
  BY DEF Init, XferReceiverNew, ReplayTrue
<1>2. TypeOK /\ IndInv /\ ReplayTrue(rx) /\ [Next]_rx => ReplayTrue(rx)'
  <2> SUFFICES ASSUME TypeOK, IndInv, ReplayTrue(rx), Next PROVE ReplayTrue(rx)'
    BY DEF ReplayTrue
  <2>1. rx \in RxType /\ RxInv(rx)
    BY DEF TypeOK, IndInv
  <2>2. Follows(rx, rx')
    BY StepIsGood DEF Lands, KeepsFaith
  <2>3. ASSUME NEW s \in rx'.replayed PROVE rx.outcome \in Aborts /\ s > rx.rel_released
    <3>1. CASE s \in rx.replayed
      BY <3>1 DEF ReplayTrue
    <3>2. CASE s \notin rx.replayed
      <4>1. CASE HandleData
        <5>1. PICK t \in Frames : rx' = Handle(rx, [type |-> "Data", seq |-> t])
          BY <4>1 DEF HandleData
        <5>2. rx'.replayed = rx.replayed
                \cup (IF Fresh(rx.gaps, t) /\ WantsUnrel THEN {t} \cap rx.played ELSE {})
          BY <2>1, <5>1, HandleDataShows
        <5>3. s = t /\ Fresh(rx.gaps, t) /\ t \in rx.played
          BY <2>3, <3>2, <5>2
        <5> QED BY <2>1, <5>3, FreshAgain
      <4>2. CASE HandleEnd
        BY <2>1, <2>3, <3>2, <4>2, HandleControlShowsNothing DEF HandleEnd
      <4>3. CASE HandleKeepalive
        BY <2>1, <2>3, <3>2, <4>3, HandleControlShowsNothing DEF HandleKeepalive
      <4>4. CASE Tick
        BY <2>1, <2>3, <3>2, <4>4, TimersShowNothing DEF Tick
      <4>5. CASE SetBufferedMs
        BY <2>1, <2>3, <3>2, <4>5, TimersShowNothing DEF SetBufferedMs
      <4>6. CASE Elapse
        BY <2>1, <2>3, <3>2, <4>6, TimersShowNothing DEF Elapse
      <4> QED BY <4>1, <4>2, <4>3, <4>4, <4>5, <4>6 DEF Next
    <3> QED BY <3>1, <3>2
  <2>4. rx.outcome \in Aborts => rx'.outcome = rx.outcome /\ rx'.rel_released = rx.rel_released
    <3>1. rx.outcome \in Aborts => rx.rel_state = "Finished"
      BY <2>1 DEF RxInv, AlwaysTrue, RxType, Aborts, NoOutcome
    <3> QED BY <2>2, <3>1 DEF Follows
  <2> QED BY <2>3, <2>4 DEF ReplayTrue
<1> QED BY <1>1, <1>2, ReceiverCorrect, PTL DEF Spec
=============================================================================
