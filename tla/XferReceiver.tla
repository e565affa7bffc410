---------------------------- MODULE XferReceiver ----------------------------
(***************************************************************************)
(* The receiving half of one transfer (xfer/receiver.rs).  The Rust type   *)
(* is sans-IO: each call takes a packet body or a clock reading, changes   *)
(* the receiver and returns events.  Here the receiver is the record rx,   *)
(* each private method is an operator from a receiver value to the next    *)
(* one, and the public calls are the actions.                              *)
(*                                                                         *)
(* An Instant that is only ever compared with the clock is kept as its     *)
(* age, which Elapse advances and which stops growing one unit past the    *)
(* largest value any comparison tells apart.  A frame is its sequence      *)
(* number: its timestamp and payload are functions of it, and the payload  *)
(* length is the distance between two Offsets.                             *)
(***************************************************************************)
EXTENDS GapTracker, Sequences, FiniteSetsExt

CONSTANTS
    NumFrames,        \* frames the tap sends: sequence numbers 1 .. NumFrames
    Offset,           \* Offset[s] = payload bytes of frames 1 .. s together
    Mode,             \* RecvMode: "Dual" or "RelOnly"
    ReorderWindow,    \* ReceiverConfig.reorder_window
    MaxReorderBytes,  \* ReceiverConfig.max_reorder_bytes
    MaxNackAttempts,  \* ReceiverConfig.max_nack_attempts
    NackBackoff,      \* ReceiverConfig.nack_backoff, in clock units
    DefaultNackDelay, \* the delay nack_delay falls back to, 100 ms
    RelStallTimeout,  \* ReceiverConfig.rel_stall_timeout
    IdleTimeout,      \* ReceiverConfig.idle_timeout
    AckInterval,      \* ReceiverConfig.ack_interval
    NackAgeCap,       \* age given to a gap never asked about (an hour)
    MaxNackEntries,   \* codec::MAX_NACK_ENTRIES
    U16Max,           \* u16::MAX, the widest buffered_ms an Ack can carry
    BufferReports     \* occupancies the owner may report (u64 milliseconds)

Frames == 1 .. NumFrames

ASSUME SizeAssumption ==
    /\ NumFrames \in Nat
    /\ Offset \in [0 .. NumFrames -> Nat]
    /\ \A s \in Frames : Offset[s - 1] <= Offset[s]

ASSUME ConfigAssumption ==
    /\ Mode \in {"Dual", "RelOnly"}
    /\ ReorderWindow \in Nat
    /\ MaxReorderBytes \in Nat
    /\ MaxNackAttempts \in Nat
    /\ NackBackoff \in Seq(Nat)
    /\ RelStallTimeout \in Nat
    /\ IdleTimeout \in Nat
    /\ AckInterval \in Nat
    /\ NackAgeCap \in Nat
    /\ DefaultNackDelay \in 0 .. NackAgeCap
    /\ \A i \in DOMAIN NackBackoff : NackBackoff[i] <= NackAgeCap
    /\ MaxNackEntries \in Nat
    /\ U16Max \in Nat
    /\ BufferReports \subseteq Nat

VARIABLE rx

NoEnd     == -1
NoOutcome == "none"
Aborts    == {"BufferExhausted", "UnrecoverableGap", "SenderDiscarded",
              "Stalled", "PeerGone"}

\* RecvMode::wants_unrel
WantsUnrel == Mode = "Dual"

PayloadLen(s) == Offset[s] - Offset[s - 1]

(***************************************************************************)
(* Packets.  A tap's packet carries one number: the frame's sequence       *)
(* number, the final sequence number, or lost_below.                       *)
(***************************************************************************)
NackPkt(missing) == [type |-> "Nack", missing |-> missing]
EndAckPkt        == [type |-> "EndAck"]
\* A slip: `as u16` without the clamp.
AckPktWrapped(r) ==
    [type |-> "Ack", contiguous |-> r.gaps.contiguous,
     highest |-> r.gaps.highest, buffered_ms |-> r.buffered_ms % (U16Max + 1)]

AckPkt(r) ==
    [type        |-> "Ack",
     contiguous  |-> r.gaps.contiguous,
     highest     |-> r.gaps.highest,
     buffered_ms |-> IF r.buffered_ms < U16Max THEN r.buffered_ms ELSE U16Max]

(***************************************************************************)
(* NACK bookkeeping: how often a gap was asked for, and how long ago.  A   *)
(* gap with no entry is entered as asked 0 times, an hour ago.             *)
(***************************************************************************)
NotAsked == [n |-> 0, since |-> NackAgeCap]

\* ReceiverConfig::nack_delay
NackDelay(n) ==
    IF NackBackoff = << >> THEN DefaultNackDelay
    ELSE NackBackoff[IF n < Len(NackBackoff) THEN n + 1 ELSE Len(NackBackoff)]

(***************************************************************************)
(* XferReceiver::new.  The last five fields are not state of the code:     *)
(* out holds the control packets the last call emitted, outcome the        *)
(* RelFinished event, arrived every frame handed to `handle`, played the   *)
(* frames emitted as Unreliable and replayed those emitted so twice.  The  *)
(* frames emitted as Reliable are 1 .. rel_released, in order.             *)
(***************************************************************************)
XferReceiverNew ==
    [gaps              |-> GapTrackerNew,
     reorder           |-> {},
     reorder_bytes     |-> 0,
     rel_state         |-> "Streaming",
     rel_released      |-> 0,
     final_seq         |-> NoEnd,
     end_acked         |-> FALSE,
     closed            |-> FALSE,
     nacks             |-> [s \in Frames |-> NotAsked],
     sender_lost_below |-> 0,
     since_packet      |-> 0,
     since_ack         |-> 0,
     since_rel         |-> 0,
     buffered_ms       |-> 0,
     out               |-> {},
     outcome           |-> NoOutcome,
     arrived           |-> {},
     played            |-> {},
     replayed          |-> {}]

Init == rx = XferReceiverNew

-----------------------------------------------------------------------------
\* finish_rel: one outcome, and the reliable side's memory is let go.
FinishRel(r, outcome) ==
    IF r.rel_state = "Finished" THEN r
    ELSE [r EXCEPT !.rel_state     = "Finished",
                   !.reorder       = {},
                   !.reorder_bytes = 0,
                   !.nacks         = [s \in Frames |-> NotAsked],
                   !.gaps          = Abandon(@),
                   !.outcome       = outcome]

\* A slip: `if` for `while`.
ReleaseOne(r) ==
    LET next == r.rel_released + 1
    IN  IF next > r.gaps.contiguous \/ next \notin r.reorder THEN r
        ELSE [r EXCEPT !.reorder       = @ \ {next},
                       !.reorder_bytes = @ - PayloadLen(next),
                       !.rel_released  = next,
                       !.nacks[next]   = NotAsked,
                       !.since_rel     = 0]

\* release_contiguous: emit Reliable frames while the buffer has the next one.
ReleaseContiguous(r) ==
    LET p       == PrefixEnd(r.rel_released, r.gaps.contiguous, r.reorder)
        emitted == (r.rel_released + 1) .. p
    IN  IF p = r.rel_released THEN r
        ELSE [r EXCEPT !.reorder       = @ \ emitted,
                       !.reorder_bytes = @ - (Offset[p] - Offset[r.rel_released]),
                       !.rel_released  = p,
                       !.nacks         = [s \in Frames |->
                                            IF s \in emitted THEN NotAsked ELSE r.nacks[s]],
                       !.since_rel     = 0]

\* check_finish: complete, acknowledge the tail, close.
CheckFinish(r) ==
    LET ended  == r.final_seq # NoEnd
        landed == ended /\ IsComplete(r.gaps, r.final_seq)
        fin    == IF landed /\ r.rel_state = "Streaming"
                  THEN FinishRel(ReleaseContiguous(r), "Complete")
                  ELSE r
        acked  == IF landed /\ ~fin.end_acked
                  THEN [fin EXCEPT !.end_acked = TRUE, !.out = @ \cup {EndAckPkt}]
                  ELSE fin
    IN  IF ended /\ acked.end_acked THEN [acked EXCEPT !.closed = TRUE] ELSE acked

\* A slip: playback fed only while the reliable stream is alive.
ArriveWhileStreaming(r, s) ==
    LET shown == IF r.rel_state = "Streaming" /\ Fresh(r.gaps, s) /\ WantsUnrel
                 THEN {s} ELSE {}
    IN  [r EXCEPT !.gaps = Record(@, s), !.arrived = @ \cup {s},
                  !.played = @ \cup shown]

\* The first half of on_data: index the arrival, hand it to playback if fresh.
Arrive(r, s) ==
    LET shown == IF Fresh(r.gaps, s) /\ WantsUnrel THEN {s} ELSE {}
    IN  [r EXCEPT !.gaps     = Record(@, s),
                  !.arrived  = @ \cup {s},
                  !.played   = @ \cup shown,
                  !.replayed = @ \cup (shown \cap r.played)]

\* The second half, past the window check: into the reorder buffer.
Hold(r, s) == [r EXCEPT !.reorder       = @ \cup {s},
                        !.reorder_bytes = @ + PayloadLen(s)]

\* A slip: neither ceiling is looked at.
OnDataUnbounded(r, s) ==
    IF r.rel_state # "Streaming" \/ ~Fresh(r.gaps, s) THEN Arrive(r, s)
    ELSE CheckFinish(ReleaseContiguous(Hold(Arrive(r, s), s)))

\* A slip: only End checks for the finish.
OnDataUnchecked(r, s) ==
    LET seen == Arrive(r, s)
        held == Hold(seen, s)
    IN  IF r.rel_state # "Streaming" \/ ~Fresh(r.gaps, s) THEN seen
        ELSE IF \/ WindowSpan(seen.gaps) > ReorderWindow
                \/ held.reorder_bytes > MaxReorderBytes
        THEN FinishRel(seen, "BufferExhausted")
        ELSE ReleaseContiguous(held)

\* on_data
OnData(r, s) ==
    LET seen == Arrive(r, s)
        held == Hold(seen, s)
    IN  IF r.rel_state # "Streaming" \/ ~Fresh(r.gaps, s) THEN seen
        ELSE IF WindowSpan(seen.gaps) > ReorderWindow
        THEN FinishRel(seen, "BufferExhausted")
        ELSE IF held.reorder_bytes > MaxReorderBytes
        THEN FinishRel(held, "BufferExhausted")
        ELSE CheckFinish(ReleaseContiguous(held))

\* Slips: the frame just above the prefix, or the prefix itself, misjudged.
OnKeepaliveLax(r, lostBelow) ==
    LET told == [r EXCEPT !.sender_lost_below = lostBelow]
    IN  CheckFinish(IF lostBelow <= r.sender_lost_below THEN r
                    ELSE IF r.gaps.contiguous + 1 < lostBelow
                    THEN FinishRel(told, "SenderDiscarded")
                    ELSE told)
OnKeepaliveStrict(r, lostBelow) ==
    LET told == [r EXCEPT !.sender_lost_below = lostBelow]
    IN  CheckFinish(IF lostBelow <= r.sender_lost_below THEN r
                    ELSE IF r.gaps.contiguous <= lostBelow
                    THEN FinishRel(told, "SenderDiscarded")
                    ELSE told)

\* The Keepalive arm of handle.
OnKeepalive(r, lostBelow) ==
    LET told == [r EXCEPT !.sender_lost_below = lostBelow]
    IN  CheckFinish(IF lostBelow <= r.sender_lost_below THEN r
                    ELSE IF r.gaps.contiguous < lostBelow
                    THEN FinishRel(told, "SenderDiscarded")
                    ELSE told)

\* A slip: one attempt short of the budget.
EmitNacksImpatient(r) ==
    LET missing == Missing(r.gaps, MaxNackEntries)
        ask     == {s \in missing : r.nacks[s].since >= NackDelay(r.nacks[s].n)}
    IN  IF \E s \in missing : r.nacks[s].n + 1 >= MaxNackAttempts
        THEN FinishRel(r, "UnrecoverableGap")
        ELSE [r EXCEPT !.nacks = [s \in Frames |->
                                    IF s \in ask
                                    THEN [n |-> r.nacks[s].n + 1, since |-> 0]
                                    ELSE r.nacks[s]]]

\* A slip: `>` for `>=`, one attempt more than the budget.
EmitNacksOneMore(r) ==
    LET missing == Missing(r.gaps, MaxNackEntries)
        ask     == {s \in missing : r.nacks[s].since >= NackDelay(r.nacks[s].n)}
    IN  IF \E s \in missing : s <= r.sender_lost_below \/ r.nacks[s].n > MaxNackAttempts
        THEN FinishRel(r, "UnrecoverableGap")
        ELSE [r EXCEPT !.nacks = [s \in Frames |->
                                    IF s \in ask
                                    THEN [n |-> r.nacks[s].n + 1, since |-> 0]
                                    ELSE r.nacks[s]]]

\* emit_nacks: ask for the gaps that are due, or give up on one asked enough.
EmitNacks(r) ==
    LET missing   == Missing(r.gaps, MaxNackEntries)
        exhausted == \E s \in missing : \/ s <= r.sender_lost_below
                                        \/ r.nacks[s].n >= MaxNackAttempts
        ask       == {s \in missing : r.nacks[s].since >= NackDelay(r.nacks[s].n)}
    IN  IF exhausted THEN FinishRel(r, "UnrecoverableGap")
        ELSE IF ask = {} THEN r
        ELSE [r EXCEPT !.nacks = [s \in Frames |->
                                    IF s \in ask
                                    THEN [n |-> r.nacks[s].n + 1, since |-> 0]
                                    ELSE r.nacks[s]],
                       !.out   = @ \cup {NackPkt(ask)}]

\* A slip: the early return of a closed receiver dropped.
MaybeAckWhenClosed(r) ==
    IF r.since_ack < AckInterval \/ r.gaps.highest = 0 THEN r
    ELSE [r EXCEPT !.since_ack = 0, !.out = @ \cup {AckPkt(r)}]

\* maybe_ack
MaybeAck(r) ==
    IF r.closed \/ r.since_ack < AckInterval \/ r.gaps.highest = 0 THEN r
    ELSE [r EXCEPT !.since_ack = 0, !.out = @ \cup {AckPkt(r)}]

\* handle: one authenticated packet from the tap.
Handle(r, pkt) ==
    LET fed == [r EXCEPT !.since_packet = 0, !.out = {}]
    IN  MaybeAck(CASE pkt.type = "Data"      -> OnData(fed, pkt.seq)
                   [] pkt.type = "End"       -> CheckFinish([fed EXCEPT !.final_seq = pkt.seq])
                   [] pkt.type = "Keepalive" -> OnKeepalive(fed, pkt.seq))

\* Slips: no stall timeout; the idle timeout only while streaming.
OnTickWithoutStall(r) ==
    LET quiet == [r EXCEPT !.out = {}]
    IN  IF r.closed THEN quiet
        ELSE IF r.since_packet > IdleTimeout
        THEN [FinishRel(quiet, "PeerGone") EXCEPT !.closed = TRUE]
        ELSE MaybeAck(quiet)
OnTickIdleWhileStreaming(r) ==
    LET quiet == [r EXCEPT !.out = {}]
    IN  IF r.closed \/ r.rel_state # "Streaming" THEN quiet
        ELSE IF r.since_packet > IdleTimeout
        THEN [FinishRel(quiet, "PeerGone") EXCEPT !.closed = TRUE]
        ELSE IF r.since_rel > RelStallTimeout THEN FinishRel(quiet, "Stalled")
        ELSE EmitNacks(quiet)

\* tick: timers only.
OnTick(r) ==
    LET quiet == [r EXCEPT !.out = {}]
    IN  IF r.closed THEN quiet
        ELSE IF r.since_packet > IdleTimeout
        THEN [FinishRel(quiet, "PeerGone") EXCEPT !.closed = TRUE]
        ELSE MaybeAck(IF r.rel_state # "Streaming" THEN quiet
                      ELSE IF r.since_rel > RelStallTimeout
                      THEN FinishRel(quiet, "Stalled")
                      ELSE EmitNacks(quiet))

\* set_buffered_ms
WithBuffered(r, ms) == [r EXCEPT !.buffered_ms = ms, !.out = {}]

\* One unit of time, seen by every timer.
Older(age, cap) == IF age < cap THEN age + 1 ELSE cap

Aged(r) ==
    [r EXCEPT !.out          = {},
              !.since_packet = Older(@, IdleTimeout + 1),
              !.since_ack    = Older(@, AckInterval),
              !.since_rel    = Older(@, RelStallTimeout + 1),
              !.nacks        = [s \in Frames |->
                                  [n     |-> r.nacks[s].n,
                                   since |-> Older(r.nacks[s].since, NackAgeCap)]]]

-----------------------------------------------------------------------------
(***************************************************************************)
(* The calls.  The tap is honest (every packet is authenticated) but the   *)
(* network may lose, repeat, delay and reorder what it sends, so any frame *)
(* may arrive at any time, any number of times.                            *)
(***************************************************************************)
HandleData      == \E s \in Frames : rx' = Handle(rx, [type |-> "Data", seq |-> s])
HandleEnd       == rx' = Handle(rx, [type |-> "End", seq |-> NumFrames])
HandleKeepalive == \E l \in 0 .. NumFrames :
                      rx' = Handle(rx, [type |-> "Keepalive", seq |-> l])
Tick            == rx' = OnTick(rx)
SetBufferedMs   == \E ms \in BufferReports : rx' = WithBuffered(rx, ms)
Elapse          == rx' = Aged(rx)

Next == HandleData \/ HandleEnd \/ HandleKeepalive \/ Tick \/ SetBufferedMs \/ Elapse

Spec == Init /\ [][Next]_rx

\* The owner's interval calls tick, and the clock moves on.
FairSpec == Spec /\ WF_rx(Tick) /\ WF_rx(Elapse)

-----------------------------------------------------------------------------
Streaming == rx.rel_state = "Streaming"

AckPackets ==
    [type : {"Ack"}, contiguous : 0 .. NumFrames, highest : 0 .. NumFrames,
     buffered_ms : 0 .. U16Max]
NackPackets == [type : {"Nack"}, missing : SUBSET Frames]
SinkPackets == AckPackets \cup NackPackets \cup {EndAckPkt}

GapType  == [contiguous : 0 .. NumFrames, ahead : SUBSET Frames, highest : 0 .. NumFrames]
NackType == [Frames -> [n : 0 .. MaxNackAttempts, since : 0 .. NackAgeCap]]
Outcomes == Aborts \cup {NoOutcome, "Complete"}

RxType ==
    [gaps              : GapType,
     reorder           : SUBSET Frames,
     reorder_bytes     : Int,
     rel_state         : {"Streaming", "Finished"},
     rel_released      : 0 .. NumFrames,
     final_seq         : {NoEnd, NumFrames},
     end_acked         : BOOLEAN,
     closed            : BOOLEAN,
     nacks             : NackType,
     sender_lost_below : 0 .. NumFrames,
     since_packet      : 0 .. (IdleTimeout + 1),
     since_ack         : 0 .. AckInterval,
     since_rel         : 0 .. (RelStallTimeout + 1),
     buffered_ms       : BufferReports \cup {0},
     out               : SUBSET SinkPackets,
     outcome           : Outcomes,
     arrived           : SUBSET Frames,
     played            : SUBSET Frames,
     replayed          : SUBSET Frames]

\* Every field has its type; in particular no gap is ever asked for more often
\* than the budget allows (max_nack_attempts, checked in emit_nacks).
TypeOK == rx \in RxType

\* `Complete` is reported only for a copy without holes: every frame of the
\* track has been released to the cache, in order, and the tail acknowledged
\* and the transfer closed in the same call (check_finish).
CompleteMeansEverything ==
    rx.outcome = "Complete" =>
        /\ rx.rel_released = NumFrames
        /\ rx.arrived = Frames
        /\ rx.end_acked /\ rx.closed

\* Between calls the reorder buffer holds exactly the frames the gap tracker
\* has above its prefix, everything up to the prefix is released, and the byte
\* count is the sum of what is held (a usize that release_contiguous subtracts
\* from: one byte too few would panic or wrap).
ReorderMirrorsGaps ==
    /\ Streaming => /\ rx.reorder = rx.gaps.ahead
                    /\ rx.rel_released = rx.gaps.contiguous
    /\ rx.reorder_bytes = MapThenSumSet(PayloadLen, rx.reorder)

\* The reorder buffer never exceeds its window or its byte ceiling, and a
\* finished reliable stream holds no frame (finish_rel).
MemoryBounded ==
    /\ Streaming => WindowSpan(rx.gaps) <= ReorderWindow
    /\ Cardinality(rx.reorder) <= ReorderWindow
    /\ rx.reorder_bytes <= MaxReorderBytes
    /\ ~Streaming => rx.reorder = {} /\ rx.reorder_bytes = 0

\* Playback gets every frame that arrives, whatever has become of the reliable
\* stream, and a reliable-only sink plays nothing (on_data).
PlaybackSeesEveryArrival ==
    rx.played = IF WantsUnrel THEN rx.arrived ELSE {}

\* A NACK asks only for frames that have not arrived and that the sender has
\* not declared gone, and fits one datagram (emit_nacks).
NackSound ==
    \A pkt \in rx.out : pkt.type = "Nack" =>
        /\ pkt.missing # {}
        /\ pkt.missing \cap rx.arrived = {}
        /\ \A s \in pkt.missing : s > rx.sender_lost_below
        /\ Cardinality(pkt.missing) <= MaxNackEntries

\* An Ack, also one sent after the reliable stream was abandoned, claims no
\* frame that did not arrive: the sender throws away its only copy of
\* everything up to `contiguous` (maybe_ack).  Nor does it make the buffer
\* emptier than it is, except for what a u16 cannot say: a wrapped occupancy
\* would release the sender's brake when the buffer is fullest.
AckSound ==
    \A pkt \in rx.out : pkt.type = "Ack" =>
        /\ 1 .. pkt.contiguous \subseteq rx.arrived
        /\ pkt.highest \in rx.arrived
        /\ rx.arrived \subseteq 1 .. pkt.highest
        /\ pkt.buffered_ms >= rx.buffered_ms \/ pkt.buffered_ms = U16Max

\* EndAck lets the sender go, so it is sent only when every frame has arrived,
\* also when the reliable stream was aborted before (check_finish).
EndAckMeansEverything ==
    rx.end_acked => rx.arrived = Frames /\ rx.closed

\* Whatever the order of the last frame and End, and of repeats of both, a
\* transfer that has landed whole and was told its end is never left waiting
\* in Streaming, and a closed transfer has told its owner the outcome.
NoMissedFinish ==
    /\ rx.final_seq # NoEnd /\ rx.arrived = Frames => ~Streaming
    /\ rx.closed => rx.outcome # NoOutcome
    /\ Streaming <=> rx.outcome = NoOutcome

\* While the reliable stream is alive, nothing it still needs has been declared
\* gone by the sender (the Keepalive arm of handle).
NothingNeededIsLost ==
    Streaming => rx.sender_lost_below <= rx.gaps.contiguous

\* The first outcome is the only one; after it nothing is released to the cache
\* and a closed receiver stays closed and says nothing but, at most, EndAck
\* (finish_rel and the early returns of tick and maybe_ack).
OutcomeIsFinal ==
    [][ /\ ~Streaming => /\ rx'.outcome = rx.outcome
                         /\ rx'.rel_released = rx.rel_released
                         /\ \A pkt \in rx'.out : pkt.type # "Nack"
        /\ rx.closed => rx'.closed /\ rx'.out \subseteq {EndAckPkt} ]_rx

\* The abort reasons that name a frame name a true one (RelAbortReason): an
\* unrecoverable gap is a frame that has not arrived, lies below one that has,
\* and was asked for as often as the budget allows; a discarded one has not
\* arrived and was declared gone; an exhausted buffer has no room for the frame
\* that has just come.  The other two reasons are timers and say nothing of a
\* frame; for Stalled see below.
AbortsAreJustified ==
    [][ Streaming =>
          /\ rx'.outcome = "UnrecoverableGap" =>
                \E s \in Frames \ rx.arrived :
                   /\ rx.nacks[s].n = MaxNackAttempts
                   /\ \E t \in rx.arrived : s < t
          /\ rx'.outcome = "SenderDiscarded" =>
                \E s \in Frames \ rx.arrived : s <= rx'.sender_lost_below
          /\ rx'.outcome = "BufferExhausted" =>
                \E s \in rx'.arrived \ rx.arrived :
                   \/ s > rx.gaps.contiguous + 1 /\ s > rx.gaps.contiguous + ReorderWindow
                   \/ rx.reorder_bytes + PayloadLen(s) > MaxReorderBytes ]_rx

\* The reliable stream always reaches an outcome, however long the tap keeps
\* the transfer alive with keepalives or repeats (tick).
RelAlwaysFinishes == <>(rx.rel_state = "Finished")

\* A transfer whose tap falls silent for good is closed (tick).
SilentPeerIsClosed == <>[](rx.since_packet > 0) => <>(rx.closed)

(***************************************************************************)
(* The inductive invariant, as predicates of a receiver value so that they *)
(* can be followed through the operators a call is made of.                *)
(***************************************************************************)
\* What the tracker holds has arrived, and the prefix stops at a real gap.
TrackerTrue(r) ==
    /\ r.gaps.contiguous <= r.gaps.highest
    /\ r.gaps.ahead \subseteq (r.gaps.contiguous + 2) .. r.gaps.highest
    /\ 1 .. r.gaps.contiguous \subseteq r.arrived
    /\ r.gaps.ahead \subseteq r.arrived
    /\ r.arrived \subseteq 1 .. r.gaps.highest
    /\ r.gaps.highest > 0 => r.gaps.highest \in r.arrived

\* True at any point of a call, also halfway through one.
AlwaysTrue(r) ==
    /\ TrackerTrue(r)
    /\ r.rel_released <= r.gaps.contiguous
    /\ r.played = IF WantsUnrel THEN r.arrived ELSE {}
    /\ r.rel_state = "Streaming" => /\ r.outcome = NoOutcome
                                    /\ ~r.end_acked /\ ~r.closed
    /\ r.rel_state = "Finished" => r.outcome # NoOutcome
    /\ r.end_acked => r.arrived = Frames /\ r.closed

\* Nothing that can be released is held back.
Settled(r) ==
    /\ r.rel_state = "Streaming" => /\ r.reorder = r.gaps.ahead
                                    /\ r.rel_released = r.gaps.contiguous
                                    /\ r.arrived = 1 .. r.gaps.contiguous \cup r.gaps.ahead
                                    /\ WindowSpan(r.gaps) <= ReorderWindow
                                    /\ r.sender_lost_below <= r.gaps.contiguous
    /\ r.rel_state = "Finished" => r.reorder = {} /\ r.reorder_bytes = 0

\* A transfer known to be whole is finished, acknowledged and closed.
Concluded(r) ==
    /\ r.rel_state = "Streaming" /\ r.final_seq # NoEnd => r.gaps.contiguous < NumFrames
    /\ r.outcome = "Complete" => /\ r.rel_released = NumFrames
                                 /\ r.end_acked

\* Between calls all of it holds (receiver.rs as a whole): the invariant the
\* proofs carry from call to call.
RxInv(r) == AlwaysTrue(r) /\ Settled(r) /\ Concluded(r)

IndInv == RxInv(rx)

\* The receiver keeps the promise of DualStream: its windows, retries, buffers
\* and timers are an implementation of two outputs of one stream of frames
\* that do not depend on each other (receiver.rs as a whole).
Tee == INSTANCE DualStream WITH
           Plays    <- WantsUnrel,
           None     <- NoOutcome,
           Reasons  <- Aborts,
           landed   <- rx.arrived,
           played   <- rx.played,
           released <- rx.rel_released,
           outcome  <- rx.outcome,
           closed   <- rx.closed

ImplementsDualStream == Tee!Spec

-----------------------------------------------------------------------------
(***************************************************************************)
(* What comments and tests of the repository say of the receiver and its   *)
(* code does not do.                                                       *)
(***************************************************************************)
\* "playback must never see a duplicate" (tests/loopback.rs): a frame is
\* emitted as Unreliable at most once.
PlaybackNeverSeesADuplicate == rx.replayed = {}

\* "A prefix that will not advance while packets keep arriving is a gap that is
\* never going to fill" (tick): a stall is declared only over a gap.
StallMeansGap ==
    [][Streaming /\ rx'.outcome = "Stalled" => Gaps(rx.gaps) # {}]_rx
=============================================================================
