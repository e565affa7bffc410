------------------------------- MODULE Pacing -------------------------------
(***************************************************************************)
(* How playback slows the tap down.  The sink's player tells its play head *)
(* to the endpoint through BufferFeedback, two atomics without a lock; the *)
(* endpoint turns it into the occupancy of each Ack; the tap pauses above  *)
(* the high-water mark and resumes at the low one (XferSender's OnAck).    *)
(*                                                                         *)
(* Frame s is timestamped s, so time in the track is counted in frames.    *)
(* Acks overtake each other, repeat and get lost on the way; so do frames. *)
(***************************************************************************)
EXTENDS Integers, Sequences

CONSTANTS
    NumFrames,       \* bound: frames the tap has to send
    RingFrames, RingBytes, SealedLen, MaxOutstanding, HighWater, LowWater,
    FirstAckTimeout, TailKeepaliveInterval, FinalizeTimeout,
    ReportTtl,       \* BUFFER_REPORT_TTL
    U16Max,          \* the widest occupancy an Ack can carry
    PlayAhead,       \* bound: how far the play head may pass the newest frame
    AcksInFlight     \* bound: Acks on the way at once

ASSUME PacingAssumption ==
    /\ NumFrames \in Nat /\ ReportTtl \in Nat /\ U16Max \in Nat
    /\ PlayAhead \in Nat /\ AcksInFlight \in Nat \ {0}

VARIABLES
    tx,        \* the tap's XferSender
    sink,      \* the Entry: highest arrival and newest_data_ms
    acks,      \* Acks on the way to the tap, oldest first
    feedback,  \* BufferFeedback: playhead_ms and the age of written_at_ms
    player     \* the sink's player: its position; of its last report the play
               \* head, the stores that nobody has seen yet and how long ago it
               \* began; and the last report all of which was seen

vars == <<tx, sink, acks, feedback, player>>

S == INSTANCE XferSender WITH MaxFrames <- NumFrames, AckReports <- 0 .. U16Max

\* BufferFeedback::default counts as a report of 0 made at the start.
Init == /\ S!Init
        /\ sink     = [highest |-> 0, newest |-> 0]
        /\ acks     = <<>>
        /\ feedback = [playhead |-> 0, age |-> 0]
        /\ player   = [position |-> 0, ms |-> 0, todo |-> {}, began |-> 0, reported |-> 0]

AtMost(n, cap) == IF n <= cap THEN n ELSE cap
AtLeast(m, n)  == IF m >= n THEN m ELSE n

-----------------------------------------------------------------------------
\* The tap sends a frame.  Every frame it has sent may land at any time after
\* that, again and again, or never.
SendFrame ==
    /\ S!CanSend(tx) /\ tx.next_seq <= NumFrames
    /\ tx' = [S!Pushed(tx) EXCEPT !.out = {}]
    /\ UNCHANGED <<sink, acks, feedback, player>>

\* A slip: the latest arrival, not the newest.
NewestIsLatest(newest, s) == s

\* apply: newest_data_ms is a maximum, late arrivals do not take it back.
Newest(newest, s) == AtLeast(newest, s)

FrameLands ==
    /\ \E s \in 1 .. (tx.next_seq - 1) :
          sink' = [highest |-> AtLeast(sink.highest, s),
                   newest  |-> Newest(sink.newest, s)]
    /\ UNCHANGED <<tx, acks, feedback, player>>

-----------------------------------------------------------------------------
\* The player moves on, perhaps past the newest frame when it covers for one
\* that is missing.
Play ==
    /\ \E p \in (player.position + 1) .. (sink.highest + PlayAhead) :
          player' = [player EXCEPT !.position = p]
    /\ UNCHANGED <<tx, sink, acks, feedback>>

(***************************************************************************)
(* set_playhead_ms stores its argument and the date, both relaxed: another *)
(* task may see either first, and the player may have moved on by then.    *)
(* The date is taken while the call runs.                                  *)
(***************************************************************************)
SetPlayhead ==
    /\ player.todo = {}
    /\ player' = [player EXCEPT !.ms    = player.position,
                                !.todo  = {"playhead", "date"},
                                !.began = 0]
    /\ UNCHANGED <<tx, sink, acks, feedback>>

StoreVisible ==
    /\ \E store \in player.todo :
          /\ IF store = "playhead"
             THEN feedback' = [feedback EXCEPT !.playhead = player.ms]
             ELSE \E age \in 0 .. player.began : feedback' = [feedback EXCEPT !.age = age]
          /\ player' = [player EXCEPT
                           !.todo     = @ \ {store},
                           !.reported = IF player.todo = {store} THEN feedback'.playhead ELSE @]
    /\ UNCHANGED <<tx, sink, acks>>

-----------------------------------------------------------------------------
\* A slip: an old report counts for ever.
FreshAlways == TRUE

\* fresh_playhead_ms: the report is no older than the TTL.
Fresh == feedback.age <= ReportTtl

\* A slip: wrapping_sub.  A play head past the newest frame looks like an endless
\* backlog.
ClampedWrapping(ms) == IF ms < 0 THEN U16Max ELSE AtMost(ms, U16Max)

\* saturating_sub and min(u16::MAX)
Clamped(ms) == AtMost(AtLeast(ms, 0), U16Max)

\* ack_buffered_ms; the fallback is the state machine's value, which nothing in
\* the binding ever sets.
AckBufferedMs == IF Fresh THEN Clamped(sink.newest - feedback.playhead) ELSE 0

\* The SendAck arm of apply.
Ack == [type |-> "Ack", contiguous |-> 0, highest |-> sink.highest,
        buffered_ms |-> AckBufferedMs]

SendAck ==
    /\ sink.highest > 0
    /\ acks' = IF Len(acks) < AcksInFlight THEN Append(acks, Ack)
               ELSE Append(Tail(acks), Ack)
    /\ UNCHANGED <<tx, sink, feedback, player>>

Without(i) == SubSeq(acks, 1, i - 1) \o SubSeq(acks, i + 1, Len(acks))

\* handle, the Ack arm, for any Ack on the way, which may come again.
TakeAck(i) ==
    /\ tx' = S!SenderHandle(tx, acks[i])
    /\ acks' \in {acks, Without(i)}
    /\ UNCHANGED <<sink, feedback, player>>

AckLost ==
    /\ \E i \in DOMAIN acks : acks' = Without(i)
    /\ UNCHANGED <<tx, sink, feedback, player>>

Elapse ==
    /\ feedback' = [feedback EXCEPT !.age = AtMost(@ + 1, ReportTtl + 1)]
    /\ player' = [player EXCEPT !.began = IF player.todo = {} THEN 0
                                          ELSE AtMost(@ + 1, ReportTtl + 1)]
    /\ UNCHANGED <<tx, sink, acks>>

TakeNewestAck == acks # <<>> /\ TakeAck(Len(acks))

Next == \/ SendFrame \/ FrameLands
        \/ Play \/ SetPlayhead \/ StoreVisible
        \/ SendAck \/ AckLost \/ (\E i \in DOMAIN acks : TakeAck(i))
        \/ Elapse

Spec == Init /\ [][Next]_vars

(***************************************************************************)
(* Time passes, a report that was begun is finished, the sink goes on      *)
(* acknowledging, and the network, which may lose any Ack, lets the newest *)
(* one through again and again.  The player owes nothing.                  *)
(***************************************************************************)
FairSpec == /\ Spec
            /\ WF_vars(Elapse) /\ WF_vars(StoreVisible)
            /\ WF_vars(SendAck) /\ SF_vars(TakeNewestAck)

-----------------------------------------------------------------------------
\* While a report counts, the occupancy an Ack would carry lies between what is
\* really unplayed and what was unplayed at the last finished report, although
\* the two stores are seen in either order, arrivals are reordered and the play
\* head may have passed the newest frame; a backlog too long for the field is
\* clamped (ack_buffered_ms).
OccupancyWithinOneReport ==
    Fresh =>
        /\ AckBufferedMs >= AtMost(AtLeast(sink.highest - player.position, 0), U16Max)
        /\ AckBufferedMs <= AtLeast(sink.highest - player.reported, 0)

\* "Dating the report bounds any pause": if the sink stops reporting, or if it
\* keeps playing out what it has, the tap is not held back for ever, whatever
\* order the acknowledgements come in.
PauseAlwaysEnds ==
    (<>[](feedback.age > ReportTtl) \/ []<>(feedback.playhead >= sink.newest))
        => []<>(~tx.paused)
=============================================================================
