----------------------------- MODULE XferSender -----------------------------
(***************************************************************************)
(* The sending half of one transfer (xfer/sender.rs), with the part of     *)
(* the tap's binding that stands between push_frame and record_sealed      *)
(* (protofish4/src/sender.rs, dispatch): a sequence number is consumed     *)
(* first, and the frame enters the ring only if encoding, sealing and      *)
(* sending it all succeed.                                                 *)
(*                                                                         *)
(* As in XferReceiver, instants are ages.  first_data_at is set with the   *)
(* first sequence number, so its age runs once next_seq > 1; finalize_at   *)
(* is set on entering Finalizing; last_keepalive_at = None counts as due.  *)
(***************************************************************************)
EXTENDS RetransRing

CONSTANTS
    MaxFrames,             \* bound: frames the tap's caller may offer
    MaxOutstanding,        \* SenderConfig.max_outstanding
    HighWater,             \* SenderConfig.buffer_high_water_ms
    LowWater,              \* SenderConfig.buffer_low_water_ms
    FirstAckTimeout,       \* SenderConfig.first_ack_timeout
    TailKeepaliveInterval, \* SenderConfig.tail_keepalive_interval
    FinalizeTimeout,       \* SenderConfig.finalize_timeout
    AckReports             \* buffered_ms values a sink may acknowledge with

ASSUME SenderAssumption ==
    /\ MaxFrames \in Nat
    /\ SealedLen \in [1 .. MaxFrames -> Nat]
    /\ RingFrames \in Nat /\ RingBytes \in Nat
    /\ MaxOutstanding \in Nat
    /\ HighWater \in Nat /\ LowWater \in Nat
    /\ FirstAckTimeout \in Nat
    /\ TailKeepaliveInterval \in Nat
    /\ FinalizeTimeout \in Nat
    /\ AckReports \subseteq Nat

VARIABLE tx

(***************************************************************************)
(* XferSender::new.  The last five fields are not state of the code: out   *)
(* holds the packets the last call put on the wire, ended whether one was  *)
(* ever an End, verdicts the Completed and Failed events so far,           *)
(* overflowed the frames the ring evicted for room, skipped the sequence   *)
(* numbers consumed by a frame that never entered the ring.                *)
(***************************************************************************)
XferSenderNew ==
    [ring            |-> RingNew,
     state           |-> "Streaming",
     next_seq        |-> 1,
     acked_highest   |-> 0,
     buffered_ms     |-> 0,
     paused          |-> FALSE,
     got_ack         |-> FALSE,
     since_first     |-> 0,
     since_final     |-> 0,
     since_keepalive |-> TailKeepaliveInterval,
     out             |-> {},
     ended           |-> FALSE,
     verdicts        |-> {},
     overflowed      |-> {},
     skipped         |-> {}]

Init == tx = XferSenderNew

Data(s)      == [type |-> "Data", seq |-> s]
End(f)       == [type |-> "End", seq |-> f]
Keepalive(l) == [type |-> "Keepalive", seq |-> l]

-----------------------------------------------------------------------------
\* A slip: one frame too many.
CanSendOneMore(t) ==
    /\ t.state = "Streaming"
    /\ ~t.paused
    /\ t.next_seq - 1 - t.acked_highest <= MaxOutstanding

\* can_send: neither brake is on.
CanSend(t) ==
    /\ t.state = "Streaming"
    /\ ~t.paused
    /\ t.next_seq - 1 - t.acked_highest < MaxOutstanding

\* push_frame, then dispatch puts the sealed datagram on the wire and
\* record_sealed keeps it.
Pushed(t) ==
    LET s    == t.next_seq
        ring == RingPush(t.ring, s)
    IN  [t EXCEPT !.next_seq   = s + 1,
                  !.ring       = ring,
                  !.out        = {Data(s)},
                  !.overflowed = @ \cup ((t.ring.entries \cup {s}) \ ring.entries)]

\* push_frame, but dispatch fails before record_sealed.
PushFailed(t) ==
    [t EXCEPT !.next_seq = @ + 1, !.out = {}, !.skipped = @ \cup {t.next_seq}]

\* A slip: the next number announced as the last.
FinishedOffByOne(t) ==
    [t EXCEPT !.state = "Finalizing", !.since_final = 0, !.since_keepalive = 0,
              !.out = {End(t.next_seq)}, !.ended = TRUE]

\* finish
Finished(t) ==
    [t EXCEPT !.state           = "Finalizing",
              !.since_final     = 0,
              !.since_keepalive = 0,
              !.out             = {End(t.next_seq - 1)},
              !.ended           = TRUE]

\* A slip: everything up to the highest arrival taken as confirmed.
OnAckThroughHighest(t, pkt) ==
    [t EXCEPT !.got_ack       = TRUE,
              !.ring          = AckThrough(@, pkt.highest),
              !.acked_highest = IF pkt.highest > @ THEN pkt.highest ELSE @,
              !.out           = {}]

\* The Ack arm of handle.
OnAck(t, pkt) ==
    [t EXCEPT !.got_ack       = TRUE,
              !.ring          = AckThrough(@, pkt.contiguous),
              !.acked_highest = IF pkt.highest > @ THEN pkt.highest ELSE @,
              !.buffered_ms   = pkt.buffered_ms,
              !.paused        = \/ pkt.buffered_ms >= HighWater
                                \/ @ /\ pkt.buffered_ms > LowWater,
              !.out           = {}]

\* The Nack arm: resend what the ring still has, byte for byte.
OnNack(t, pkt) ==
    [t EXCEPT !.got_ack = TRUE,
              !.out     = {Data(s) : s \in pkt.missing \cap t.ring.entries}]

\* The EndAck arm.
OnEndAck(t) ==
    [t EXCEPT !.state = "Done", !.verdicts = @ \cup {"Completed"}, !.out = {}]

\* handle: one authenticated packet from the sink.
SenderHandle(t, pkt) ==
    CASE pkt.type = "Ack"    -> OnAck(t, pkt)
      [] pkt.type = "Nack"   -> OnNack(t, pkt)
      [] pkt.type = "EndAck" -> OnEndAck(t)

Fail(t, why) == [t EXCEPT !.state = "Done", !.verdicts = @ \cup {why}]

\* A keepalive if one is due.
KeptAlive(t) ==
    IF t.since_keepalive < TailKeepaliveInterval THEN t
    ELSE [t EXCEPT !.since_keepalive = 0, !.out = {Keepalive(t.ring.lost_below)}]

\* Slips: each drops one of the cases of tick.
SenderTickDoneToo(t) ==
    LET quiet == [t EXCEPT !.out = {}]
    IN  IF ~t.got_ack /\ t.since_first > FirstAckTimeout
        THEN Fail(quiet, "NoAck")
        ELSE IF t.state = "Finalizing" /\ t.since_final > FinalizeTimeout
        THEN Fail(quiet, "FinalizeTimeout")
        ELSE IF t.state = "Finalizing" \/ (t.state = "Streaming" /\ t.paused)
        THEN KeptAlive(quiet)
        ELSE quiet
SenderTickNoFinalize(t) ==
    LET quiet == [t EXCEPT !.out = {}]
    IN  IF t.state # "Done" /\ ~t.got_ack /\ t.since_first > FirstAckTimeout
        THEN Fail(quiet, "NoAck")
        ELSE IF t.state = "Finalizing" THEN KeptAlive(quiet) ELSE quiet
SenderTickNoFirstAck(t) ==
    LET quiet == [t EXCEPT !.out = {}]
    IN  IF t.state = "Finalizing" /\ t.since_final > FinalizeTimeout
        THEN Fail(quiet, "FinalizeTimeout") ELSE quiet

\* tick
SenderTick(t) ==
    LET quiet == [t EXCEPT !.out = {}]
    IN  IF t.state = "Done" THEN quiet
        ELSE IF ~t.got_ack /\ t.since_first > FirstAckTimeout
        THEN Fail(quiet, "NoAck")
        ELSE IF t.state = "Finalizing" /\ t.since_final > FinalizeTimeout
        THEN Fail(quiet, "FinalizeTimeout")
        ELSE IF t.state = "Finalizing" \/ t.paused THEN KeptAlive(quiet)
        ELSE quiet

\* One unit of time, seen by every timer that has been started.
OlderTo(age, cap) == IF age < cap THEN age + 1 ELSE cap

SenderAged(t) ==
    [t EXCEPT !.out             = {},
              !.since_first     = IF t.next_seq > 1
                                  THEN OlderTo(@, FirstAckTimeout + 1) ELSE @,
              !.since_final     = IF t.state = "Finalizing"
                                  THEN OlderTo(@, FinalizeTimeout + 1) ELSE @,
              !.since_keepalive = OlderTo(@, TailKeepaliveInterval)]

-----------------------------------------------------------------------------
Sent == 1 .. (tx.next_seq - 1)

PushFrame      == CanSend(tx) /\ tx.next_seq <= MaxFrames /\ tx' = Pushed(tx)
PushFrameFails == CanSend(tx) /\ tx.next_seq <= MaxFrames /\ tx' = PushFailed(tx)
Finish         == tx.state = "Streaming" /\ tx' = Finished(tx)
Tick           == tx' = SenderTick(tx)
Elapse         == tx' = SenderAged(tx)

(***************************************************************************)
(* What a sink can say: acknowledge frames that were put on the wire, in   *)
(* any order (acknowledgements overtake each other), ask for them, and,    *)
(* once told the end, confirm it, perhaps late or twice.                   *)
(***************************************************************************)
HandleAck ==
    \E h \in Sent \ tx.skipped, ms \in AckReports :
        \E c \in 0 .. h :
            /\ 1 .. c \cap tx.skipped = {}
            /\ tx' = SenderHandle(tx, [type |-> "Ack", contiguous |-> c,
                                       highest |-> h, buffered_ms |-> ms])
HandleNack ==
    \E missing \in (SUBSET Sent) \ {{}} :
        tx' = SenderHandle(tx, [type |-> "Nack", missing |-> missing])
HandleEndAck ==
    /\ tx.ended
    /\ tx' = SenderHandle(tx, [type |-> "EndAck"])

Next == \/ PushFrame \/ PushFrameFails \/ Finish
        \/ HandleAck \/ HandleNack \/ HandleEndAck
        \/ Tick \/ Elapse

Spec == Init /\ [][Next]_tx

\* The binding's pump ticks on every turn, and the clock moves on.
FairSpec == Spec /\ WF_tx(Tick) /\ WF_tx(Elapse)

-----------------------------------------------------------------------------
Failures == {"NoAck", "FinalizeTimeout"}

TxType ==
    [ring            : [entries    : SUBSET (1 .. MaxFrames),
                        lost_below : 0 .. MaxFrames],
     state           : {"Streaming", "Finalizing", "Done"},
     next_seq        : 1 .. (MaxFrames + 1),
     acked_highest   : 0 .. MaxFrames,
     buffered_ms     : AckReports \cup {0},
     paused          : BOOLEAN,
     got_ack         : BOOLEAN,
     since_first     : 0 .. (FirstAckTimeout + 1),
     since_final     : 0 .. (FinalizeTimeout + 1),
     since_keepalive : 0 .. TailKeepaliveInterval,
     out             : SUBSET [type : {"Data", "End", "Keepalive"},
                               seq  : 0 .. MaxFrames],
     ended           : BOOLEAN,
     verdicts        : SUBSET (Failures \cup {"Completed"}),
     overflowed      : SUBSET (1 .. MaxFrames),
     skipped         : SUBSET (1 .. MaxFrames)]

\* Every field has its type.
TypeOK == tx \in TxType

\* No frame is lost silently: every sequence number put on the wire can still
\* be retransmitted or is covered by the lost_below a keepalive reports; the
\* only exceptions are numbers whose datagram never went out (retrans.rs).
NoSilentLoss ==
    tx.ring.entries = ((tx.ring.lost_below + 1) .. (tx.next_seq - 1)) \ tx.skipped

\* A sender is done exactly when it has given a verdict, and then stays done,
\* sends no new frame, End or keepalive, and no failure follows: not after a
\* success either, although EndAck does not set got_ack and first_ack_timeout
\* runs on.  A caller may hear two verdicts, because a late EndAck turns a
\* failure into a success; and a late NACK still gets frames resent.
DoneIsFinal ==
    [][ /\ (tx.verdicts = {}) = (tx.state # "Done")
        /\ tx.state = "Done" => /\ tx'.state = "Done"
                                /\ tx'.next_seq = tx.next_seq
                                /\ tx'.verdicts \subseteq tx.verdicts \cup {"Completed"}
                                /\ \A pkt \in tx'.out : pkt.type = "Data" ]_tx

\* A sender that has sent End reaches a verdict: EndAck or a timeout (tick).
FinalizingEnds == tx.state = "Finalizing" ~> tx.state = "Done"

\* A sender held back by the sink's buffer report keeps saying that it is
\* there: while the pause lasts, keepalives go out again and again, so that the
\* sink's idle timeout does not take it for dead (tick).
PausedStaysAudible ==
    <>[](tx.state = "Streaming" /\ tx.paused)
        => []<>(\E pkt \in tx.out : pkt.type = "Keepalive")
=============================================================================
