---------------------------- MODULE RetransRing -----------------------------
(***************************************************************************)
(* The sealed datagrams a tap keeps for retransmission                     *)
(* (xfer/retrans.rs).  Sequence numbers enter in increasing order, so the  *)
(* queue is the set of those it holds, oldest first.  A datagram is its    *)
(* sequence number: the bytes are sealed once and never change.            *)
(***************************************************************************)
EXTENDS Integers, FiniteSetsExt

CONSTANTS RingFrames,  \* SenderConfig.retrans_ring_frames
          RingBytes,   \* SenderConfig.retrans_ring_bytes
          SealedLen    \* SealedLen[s] = length of the datagram sealed for s

RingNew == [entries |-> {}, lost_below |-> 0]

\* `new` raises a budget of 0 to 1.
AtLeastOne(n) == IF n < 1 THEN 1 ELSE n

\* The field `bytes`: what the datagrams held add up to.
RingBytesOf(entries) == MapThenSumSet(LAMBDA s : SealedLen[s], entries)

WithinBudget(entries) == /\ Cardinality(entries) <= AtLeastOne(RingFrames)
                         /\ RingBytesOf(entries) <= AtLeastOne(RingBytes)

\* `evict_oldest`, repeated until k is gone: lost_below remembers the last.
EvictThrough(ring, k) ==
    [entries    |-> {t \in ring.entries : t > k},
     lost_below |-> IF ring.lost_below < k THEN k ELSE ring.lost_below]

\* A slip: `if` for `while`, and the eviction goes unreported.
RingPushUnreported(ring, s) ==
    LET all == ring.entries \cup {s}
    IN  [ring EXCEPT !.entries = IF WithinBudget(all) THEN all
                                 ELSE all \ {Min(all)}]

(***************************************************************************)
(* `push`: append, then evict from the old end until both budgets hold.    *)
(* The loop evicts up to the least cut that leaves enough room; a datagram *)
(* larger than the whole ring evicts itself.                               *)
(***************************************************************************)
RingPush(ring, s) ==
    LET full    == [ring EXCEPT !.entries = @ \cup {s}]
        Fits(k) == WithinBudget({t \in full.entries : t > k})
        cut     == CHOOSE k \in ring.lost_below .. s :
                     Fits(k) /\ \A j \in ring.lost_below .. (k - 1) : ~Fits(j)
    IN  EvictThrough(full, cut)

\* `ack_through`: drop what is confirmed, and count it as gone.
AckThrough(ring, contiguous) == EvictThrough(ring, contiguous)
=============================================================================
