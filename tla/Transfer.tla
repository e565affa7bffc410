------------------------------ MODULE Transfer ------------------------------
(***************************************************************************)
(* One transfer end to end: a tap's XferSender and a sink's XferReceiver   *)
(* joined by UDP.  net is the set of datagrams in flight.  A datagram may  *)
(* be lost when it is sent; one in flight may be delivered at any time, in *)
(* any order, and again later.  That is all loss, reordering, delay and    *)
(* duplication can do to authenticated packets; at most NetCapacity        *)
(* different datagrams are in flight at once, the rest are lost.           *)
(***************************************************************************)
EXTENDS Integers, FiniteSets, Sequences

CONSTANTS
    NumFrames, Offset, Mode, ReorderWindow, MaxReorderBytes, MaxNackAttempts,
    NackBackoff, DefaultNackDelay, RelStallTimeout, IdleTimeout, AckInterval,
    NackAgeCap, MaxNackEntries, U16Max, BufferReports,
    RingFrames, RingBytes, SealedLen, MaxOutstanding, HighWater, LowWater,
    FirstAckTimeout, TailKeepaliveInterval, FinalizeTimeout,
    NetCapacity   \* bound: datagrams in flight at once

\* What XferReceiver and XferSender assume of them.
ASSUME SinkAssumption ==
    /\ NumFrames \in Nat
    /\ Offset \in [0 .. NumFrames -> Nat]
    /\ \A s \in 1 .. NumFrames : Offset[s - 1] <= Offset[s]
    /\ Mode \in {"Dual", "RelOnly"}
    /\ ReorderWindow \in Nat /\ MaxReorderBytes \in Nat
    /\ MaxNackAttempts \in Nat /\ NackBackoff \in Seq(Nat)
    /\ RelStallTimeout \in Nat /\ IdleTimeout \in Nat /\ AckInterval \in Nat
    /\ NackAgeCap \in Nat /\ DefaultNackDelay \in 0 .. NackAgeCap
    /\ \A i \in DOMAIN NackBackoff : NackBackoff[i] <= NackAgeCap
    /\ MaxNackEntries \in Nat /\ U16Max \in Nat /\ BufferReports \subseteq Nat

ASSUME TapAssumption ==
    /\ SealedLen \in [1 .. NumFrames -> Nat]
    /\ RingFrames \in Nat /\ RingBytes \in Nat /\ MaxOutstanding \in Nat
    /\ HighWater \in Nat /\ LowWater \in Nat /\ FirstAckTimeout \in Nat
    /\ TailKeepaliveInterval \in Nat /\ FinalizeTimeout \in Nat

VARIABLES rx, tx, net

vars == <<rx, tx, net>>

R == INSTANCE XferReceiver
S == INSTANCE XferSender WITH MaxFrames <- NumFrames, AckReports <- 0 .. U16Max

Init == R!Init /\ S!Init /\ net = {}

ToSink == {pkt \in net : pkt.type \in {"Data", "End", "Keepalive"}}
ToTap  == {pkt \in net : pkt.type \in {"Ack", "Nack", "EndAck"}}

\* Some of what a call emitted gets onto the wire; the call's events are spent.
Transmit(left, out) ==
    \E carried \in SUBSET out :
        /\ net' = left \cup carried
        /\ Cardinality(net') <= NetCapacity

TapDoes(t, left)  == /\ tx' = [t EXCEPT !.out = {}]
                     /\ Transmit(left, t.out)
                     /\ UNCHANGED rx
SinkDoes(r, left) == /\ rx' = [r EXCEPT !.out = {}]
                     /\ Transmit(left, r.out)
                     /\ UNCHANGED tx

\* A delivered datagram is gone from the wire, or a duplicate of it is not.
AfterDelivery(pkt) == {net, net \ {pkt}}

-----------------------------------------------------------------------------
(***************************************************************************)
(* The tap (protofish4/src/sender.rs).  Its caller offers NumFrames frames *)
(* with send_frame and then calls finish; an error is reported to the      *)
(* caller, who goes on.  The socket is read only inside pump_once, which   *)
(* runs while a frame waits for the window or the brake, and while the     *)
(* tail is being confirmed: a tap that may send never listens.             *)
(***************************************************************************)
MoreFrames == tx.next_seq <= NumFrames

TapPushFrame == MoreFrames /\ S!CanSend(tx) /\ TapDoes(S!Pushed(tx), net)
TapPushFails == MoreFrames /\ S!CanSend(tx) /\ TapDoes(S!PushFailed(tx), net)
TapFinish    == /\ ~MoreFrames /\ tx.state = "Streaming"
                /\ TapDoes(S!Finished(tx), net)

Pumping == \/ MoreFrames /\ ~S!CanSend(tx)
           \/ tx.state = "Finalizing"

\* A slip: the timers are looked at only when a datagram came.
TickedSkipped(t) == t

\* The tick that ends a turn of pump_once, after what the datagram put out.
Ticked(t) == LET ticked == S!SenderTick(t)
             IN  [ticked EXCEPT !.out = @ \cup t.out]

\* One turn of pump_once: 20 ms without a datagram ...
PumpIdle    == Pumping /\ TapDoes(Ticked([tx EXCEPT !.out = {}]), net)
\* ... or one datagram, whose answer goes out before the tick ...
PumpReceive == /\ Pumping
               /\ \E pkt \in ToTap : \E left \in AfterDelivery(pkt) :
                      TapDoes(Ticked(S!SenderHandle(tx, pkt)), left)
\* ... or not: an error from the socket ends the turn before the tick.
PumpFails   == /\ Pumping
               /\ \E pkt \in ToTap : \E left \in AfterDelivery(pkt) :
                      LET t == S!SenderHandle(tx, pkt)
                      IN  t.out # {} /\ TapDoes(t, left)

TapPump == PumpIdle \/ PumpReceive

\* The sink, whose endpoint forgets a transfer once it is closed.
SinkReceive     == /\ ~rx.closed
                   /\ \E pkt \in ToSink : \E left \in AfterDelivery(pkt) :
                          SinkDoes(R!Handle(rx, pkt), left)
SinkTick        == SinkDoes(R!OnTick(rx), net)
SinkSetBuffered == \E ms \in BufferReports : SinkDoes(R!WithBuffered(rx, ms), net)

\* Time passes for both.
Elapse == rx' = R!Aged(rx) /\ tx' = S!SenderAged(tx) /\ UNCHANGED net

Next == \/ TapPushFrame \/ TapPushFails \/ TapFinish \/ TapPump \/ PumpFails
        \/ SinkReceive \/ SinkTick \/ SinkSetBuffered
        \/ Elapse

Spec == Init /\ [][Next]_vars

(***************************************************************************)
(* The sink is ticked and the clock moves on; the tap's caller keeps       *)
(* offering frames, finishes, and awaits each call, so a blocked tap keeps *)
(* taking turns of pump_once.  Nothing is assumed of the network.          *)
(***************************************************************************)
FairSpec == /\ Spec
            /\ WF_vars(Elapse) /\ WF_vars(TapPump) /\ WF_vars(SinkTick)
            /\ WF_vars(TapPushFrame) /\ WF_vars(TapFinish)

-----------------------------------------------------------------------------
\* What is in flight towards the tap is what XferSender expects of a sink: an
\* acknowledgement, however late, is true of what has landed, a NACK asks only
\* for numbers the tap has used, and EndAck answers an End.
SinkIsHonest ==
    \A pkt \in ToTap :
        CASE pkt.type = "Ack"    -> /\ 1 .. pkt.contiguous \subseteq rx.arrived
                                    /\ pkt.highest \in rx.arrived
          [] pkt.type = "Nack"   -> pkt.missing \subseteq 1 .. (tx.next_seq - 1)
          [] pkt.type = "EndAck" -> tx.ended /\ rx.arrived = 1 .. NumFrames

\* A tap is told `Completed` only if every frame it was given arrived and was
\* acknowledged by a sink that has closed with an outcome (EndAck).
CompletedMeansDelivered ==
    "Completed" \in tx.verdicts =>
        /\ rx.arrived = 1 .. NumFrames
        /\ tx.skipped = {}
        /\ rx.closed /\ rx.outcome # "none"

\* No frame is given up by agreement before it landed: one that is no longer
\* retransmittable has arrived, or the ring had no room for it, or it never
\* went out (ack_through against maybe_ack).
DroppedOnlyOnceLanded ==
    \A s \in 1 .. (tx.next_seq - 1) :
        s \in tx.ring.entries \cup tx.overflowed \cup tx.skipped \cup rx.arrived

\* The sink blames the sender only when it is to blame: although lost_below
\* also covers acknowledged frames, `SenderDiscarded` means that a frame the
\* sink still lacks fell out of the ring or never went out.
DiscardedIsTrue ==
    [][rx.outcome = "none" /\ rx'.outcome = "SenderDiscarded" =>
         (tx.overflowed \cup tx.skipped) \ rx.arrived # {}]_vars

\* The tap is never further ahead of what has landed than max_outstanding, even
\* though acknowledgements arrive late, repeated and out of order.
PacedByArrivals ==
    \A s \in 1 .. (tx.next_seq - 1) :
        s > MaxOutstanding =>
            \E a \in rx.arrived : a >= s - MaxOutstanding

\* The transfer ends for the tap: it is told Completed or a failure.
TapAlwaysEnds == <>(tx.state = "Done")
=============================================================================
