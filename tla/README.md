# Protofish 4 in TLA+

Protofish 4 moves one audio track from a *tap* to a *sink* over UDP and gives the
sink two views of it at once: an unreliable stream for playback and a reliable
stream for the cache. This directory models the protocol's state machines,
the bindings that drive them and the packet layer below, checks them with TLC on
small instances, and proves with TLAPS, for every value of the parameters, that
receiver, sender, the two joined by a network, endpoint, buffer feedback, codec,
sealing and replay window keep their safety properties.

Paths below are relative to the repository: `proto` is `protofish4-proto/src`,
`bind` is `protofish4/src`.

## 1. Inventory

| Component | State | Operations | Interacts with |
| --- | --- | --- | --- |
| Gap tracker, `proto/xfer/gap_tracker.rs` | `contiguous`, `ahead`, `highest` | `record`, `missing`, `is_complete`, `window_span`, `abandon` | owned by the receiver |
| Transfer receiver, `proto/xfer/receiver.rs` | tracker, reorder buffer, reliable state, `final_seq`, `end_acked`, `closed`, NACK table, `sender_lost_below`, four clocks | `handle`, `tick`, `set_buffered_ms`; privately `on_data`, `release_contiguous`, `emit_nacks`, `check_finish`, `finish_rel`, `maybe_ack` | returns events to the endpoint |
| Retransmission ring, `proto/xfer/retrans.rs` | queue of sealed datagrams, byte count, `lost_below` | `push`, `get`, `ack_through` | owned by the sender |
| Transfer sender, `proto/xfer/sender.rs` | ring, `state`, `next_seq`, `acked_highest`, `paused`, `got_ack`, three clocks, control counter | `push_frame`, `record_sealed`, `finish`, `handle`, `tick` | returns events to the tap binding |
| Tap binding, `bind/sender.rs` | socket, key, one sender | `send_frame`, `finish`, `pump_once`, `dispatch` | UDP; reads its socket only while a call is blocked |
| Sink endpoint, `bind/receiver.rs` | table of transfers under one async lock; per transfer a receiver, three channels, the peer's address | `arm`, `disarm`, `on_datagram`, `tick`, `apply` | UDP, the owner's consumers of the channels |
| Buffer feedback, `bind/receiver.rs` | play head and its date (two relaxed atomics) | `set_playhead_ms`, `fresh_playhead_ms`, `ack_buffered_ms` | written by the audio engine, read under the endpoint's lock |
| Replay window, `proto/crypto.rs` | highest counter, bitmap | `accept` | nobody calls it outside its tests |
| Sealing, `proto/crypto.rs`, `types.rs` | none | `seal`, `open`, nonce derivation | both bindings |
| Codec and header, `proto/codec.rs`, `header.rs`, `frame/` | none | encode, decode | both bindings |

What is hard here: packets are lost, repeated, delayed and reordered; the last
frame and `End` race; a NACK's answer races the next NACK and the budget;
`EndAck` races `finalize_timeout`; acknowledgements overtake each other and let
the sender drop its only copy; the reliable stream may be abandoned at any
moment while playback goes on; memory is bounded by two ceilings on each side;
each side waits for the other with only timeouts to end it; one lock serves every
transfer of an endpoint and is held across an await; requests are disarmed by id,
by tasks that run later; and the number that paces the tap is two unordered
stores.

What makes each part correct:

* tracker: the prefix covers arrivals only and stops at a real gap;
* receiver: playback gets every arrival; the cache gets a gap-free prefix and one
  outcome, `Complete` only for the whole track; buffers stay within their
  ceilings; `Ack`, `Nack` and `EndAck` never say anything false; an outcome is
  always reached;
* ring and sender: a frame can be retransmitted or is reported as gone; the
  budgets and the window hold; a verdict comes, and no failure follows it;
* both together: what is dropped by agreement has landed, success means delivery,
  blame is deserved, and neither side waits for ever;
* endpoint: outcomes follow their frames, late datagrams of another request neither
  move a transfer nor redirect its replies, a dropped handle frees its slot, every
  owner gets an answer, and no transfer can hold up another;
* feedback: the occupancy on the wire is true to within one report, and every
  pause ends;
* packets: one to one encoding, no nonce twice, only the peer opens, no counter
  accepted twice.

The hazards behind these properties are listed with their lines in
`PROJECT.json`.

## 2. Modules

| Module | Models | Shape |
| --- | --- | --- |
| `GapTracker` | `gap_tracker.rs` | one operator per method, on a tracker record |
| `XferReceiver` | `receiver.rs` with `ReceiverConfig` and `RecvMode` | variable `rx`, the receiver as a record; an operator per private method, an action per public call (`handle` once per packet kind) |
| `DualStream` | the promise of the receiver | abstract specification: what lands, what is played, what is released, one outcome |
| `RetransRing` | `retrans.rs` | one operator per method, on a ring record |
| `XferSender` | `sender.rs`, and the failure between `push_frame` and `record_sealed` in `bind/sender.rs` | variable `tx`; an action per public call |
| `Transfer` | a tap (`bind/sender.rs`) and a sink joined by UDP | instances of both, and `net`, the datagrams in flight; `send_frame`, `finish` and `pump_once` are the tap's steps |
| `Endpoint` | `bind/receiver.rs`: table, lock, reader, owners, channels | variables `entries`, `reader`, `xfer`; each transfer is an instance of `DualStream` |
| `Pacing` | `BufferFeedback`, `ack_buffered_ms`, and the sender's brake | player, endpoint and an instance of `XferSender`, joined by the acknowledgements in flight; any frame sent may land at any later time, again, or never |
| `Codec` | `codec.rs`, `header.rs`, `frame/` | operators on sequences of bytes |
| `Wire` | `seal`, `open`, `nonce_for` and the counters of both ends | extends `Codec`; variables `tap`, `sink`, `used` |
| `ReplayWindow` | `ReplayWindow` | variable `window`, words as sets of bits |
| `XferReceiverProof`, `XferReceiverCallsProof`, `XferSenderProof`, `TransferProof`, `EndpointProof`, `PacingProof`, `CodecProof`, `CryptoProof` | | lemmas and theorems (section 5) |
| `MCXferReceiver`, `MCXferSender`, `MCTransfer`, `MCEndpoint`, `MCPacing`, `MCWire` | | values for TLC: payload sizes, backoffs, the ids each call asks for |

`Transfer` composes `XferSender` and `XferReceiver`; `Pacing` composes
`XferSender` with the feedback path; `Endpoint` composes several `DualStream`s,
which stand for receivers because `XferReceiver` is proved to implement it.

### How state corresponds

*Frames.* A frame is its sequence number, 1 to `NumFrames`; timestamp and payload
are functions of it. The payload length of `s` is `Offset[s] - Offset[s-1]`, so
that the bytes of a run of frames is a difference and the byte counters can be
followed exactly.

*Calls.* The Rust types are sans-IO: a call changes the value and returns events.
An operator `Handle(r, pkt)` or `OnTick(r)` returns the next value. The event
vector becomes fields: `out` holds the control packets of the last call,
`outcome` the `RelFinished` event, `played` the frames emitted as `Unreliable`.
The frames emitted as `Reliable` are `1 .. rel_released` because they are emitted
with consecutive numbers. `arrived`, `replayed`, `overflowed`, `skipped`,
`ended` and `verdicts` are history: nothing in the model reads them except
properties (and the guards that say what a sink can answer).

*Loops.* "While the set holds the next number, advance" ends at `PrefixEnd`; the
eviction loop of `push` ends at the least cut that fits. Both are definitions by
what the loop reaches, so no recursion is needed; that the place exists is the
lemma `PrefixEndExists`.

*Time.* An `Instant` that is only compared with the clock is an age. `Elapse` adds
one to every age, up to one more than the largest value any comparison tells
apart, so that the state space is finite and no comparison is affected. A NACK
entry that does not exist is "asked 0 times, an hour ago", which is what
`or_insert` creates, and an hour is `NackAgeCap`.

*Order within a call.* The reliable side's early returns are kept:
`on_data` indexes and plays before it looks at the reliable state, checks the
window before buffering and the bytes after, and `check_finish` runs only where
the code calls it. One of the findings is about exactly these places.

*The network.* In `XferReceiver` any frame, `End` or keepalive may arrive at any
time and any number of times; in `XferSender` a sink acknowledges frames that
were put on the wire, in any order. `Transfer` removes both environments: `net`
is a set, a datagram may be lost when it is sent, delivered in any order, and
left in the set to be delivered again. `SinkIsHonest` checks that what
`XferSender` assumes of a sink is what `XferReceiver` sends.

*The tap binding.* The tap reads its socket only in `pump_once`, and calls that
only while `send_frame` is blocked or `finish` waits (`Pumping`). A turn is one
step: at most one datagram, its answer, then a tick. An error from the socket
while the answer goes out ends the turn before the tick (`PumpFails`); the caller
may go on after any error.

*The endpoint.* A critical section of the lock is one step, except that of the
reader, who awaits `rel_tx.send` inside it: from `Handle` to `ApplyDone` the lock
is his, and each frame he sends is a step of its own. `tick` releases no frame, so
it never waits there and is one step. `disarm` acts by request id on whatever
entry is there by then. A datagram is the key that sealed it and the address it
comes from, which are independent: late datagrams of another request of the same
id are tried and dropped (`Stray`) wherever they come from, and the address of
the first that opens becomes the peer and stays it (`Learned`), also when that
datagram is a repeat from elsewhere. Playback frames are offered with `try_send`,
which never waits; whether one is dropped there is left out.

*Feedback.* `set_playhead_ms(ms)` makes two relaxed stores that become visible in
either order, with the `ms` the call was made with, however far the player has gone
on; the player may be up to `PlayAhead` past the newest frame. The date is read
while the call runs, so it may be as old as the call. Frame `s` is timestamped `s`,
so milliseconds are frames.

*Bytes.* A byte is a digit of base `Base` and integers have `U16Len`, `U32Len` and
`U64Len` digits, written by dividing by the base and read by multiplying, as
recursive functions over the bytes. Layouts, limits and the order of the checks are
the code's. The cipher is ideal: a tag verifies for exactly the nonce, header and
text it was made for.

## 3. Runs

| Run | Checks | Result |
| --- | --- | --- |
| `receiver` | every safety property of the receiver, the inductive invariant, refinement of `DualStream`, and under `FairSpec` that an outcome is always reached and a silent tap always closed: 4 frames, window 3, byte ceiling 3, 2 NACK attempts | pass |
| `receiver_duplicate` | "playback must never see a duplicate" | violated |
| `receiver_stall` | a stall is declared only over a gap | violated |
| `sender` | the ring accounts for every frame, a verdict is the end, and liveness of tick, with failing sends | pass |
| `transfer_safety` | both ends over the network: acknowledgements are true however late, success means delivery, `SenderDiscarded` is deserved, pacing holds | pass |
| `transfer_live` | the tap is always told an end when the send window holds the whole track and no pause is asked for | pass |
| `transfer_wedge` | the same for a window smaller than the track | violated |
| `endpoint` | two requests, the second perhaps under the id of the first, two frames each, a cache channel of one, two addresses: ordering of outcomes, isolation, slots, and under `DrainedSpec` that every wait ends | pass |
| `endpoint_blocked` | the reader always comes back, with nothing assumed of the cache's consumers | violated |
| `pacing` | three frames, a brake at 2 and 0, two acknowledgements in flight, a play head that may run one past the newest frame: the occupancy is true to within one report, every pause ends | pass |
| `wire` | the codec over every body and every byte string up to the longest fixed layout; sealing past the end of every counter; the replay window over every sequence of counters | pass |
| `replay_edge` | no counter is accepted twice | violated |

### What the properties say

Receiver: `CompleteMeansEverything`, `EndAckMeansEverything`, `AckSound` and
`NackSound` are about what it tells others; `PlaybackSeesEveryArrival` and
`OutcomeIsFinal` about the two outputs; `ReorderMirrorsGaps` and `MemoryBounded`
about its memory; `NoMissedFinish` and `NothingNeededIsLost` about
finishing at the right moment; `AbortsAreJustified` about the three abort reasons
that name a frame (the other two are timers, and their comments promise more
than the code does, see section 4);
`RelAlwaysFinishes` and `SilentPeerIsClosed` about finishing at all.

Sender: `NoSilentLoss` is the exact statement
`entries = (lost_below + 1 .. next_seq - 1) \ skipped`; `DoneIsFinal`
says that a sender with a verdict stays done and that no failure follows it; an
`EndAck` that lost the race against a timeout still adds `Completed` after the
failure. `FinalizingEnds` and `PausedStaysAudible` are liveness. That an
unanswered tap gives up is part of `TapAlwaysEnds`.

Transfer: `DroppedOnlyOnceLanded` relates the ring to the sink across delayed and
reordered acknowledgements; `DiscardedIsTrue` shows that although `lost_below`
also covers acknowledged frames, the sink never gives up on account of one;
`PacedByArrivals` is the window seen from the sink.

Endpoint: `OutcomeAfterFrames` relates two channels written in one critical
section; `OnlyItsTapMovesIt` and `SlotLostOnlyToReuse` say what a request id
that is used twice can and cannot do: its late datagrams cannot move the newer
transfer or fix the address of its replies, it can lose the newer request its
slot (an older request's disarm removes by id), and nothing else can.
`DroppedIsFreed`, `EveryArmIsAnswered` and `NeverHeldUp` are the liveness of drop,
of the outcome channel and of the socket.

Pacing: `OccupancyWithinOneReport` bounds the error of reading two stores without a
lock, and with it a subtraction or a cast that wraps instead of saturating;
`PauseAlwaysEnds` is what the time-to-live of a report is for, against
acknowledgements that overtake each other.

Wire: `CodecIsOneToOne` in both directions, so nothing truncated or padded passes;
`NonceUnique` over both ends and both classes until a counter is used up;
`OnlyThePeerOpens` puts header, direction, class and nonce together;
`VerdictIsHistory` compares the bitmap's verdicts with the set of counters
accepted.

Each property of a passing run has a mutant: a slip of the kind a programmer
makes in that function (`if` for `while`, the highest arrival for the prefix, a
strict comparison, a dropped case of `tick`), written next to the operator it
replaces, under which TLC must report the property.

### Bounds, and why they are enough

* Four frames with a window of three let a gap be open below two buffered
  frames, be filled in the middle, release a run of several frames at once, pass
  the window (frame 4 first) and pass the byte ceiling without passing the window
  (frame 2 weighs two bytes). The sender's four datagrams weigh 1, 1, 2 and 4
  bytes against a ring of 2 datagrams and 3 bytes: one evicts for the frame
  budget, one evicts several, and the last is larger than the ring and evicts
  itself.
* Two NACK attempts and backoffs 1 and 2 give a first, a repeated and an exhausted
  request with different delays; `MaxNackEntries = 2` truncates the list.
* The stall and the idle timeout are equal in `receiver`: each runs from a
  different event, so either can expire first. The playback mode is checked
  there, the reliable-only mode in the `transfer` runs.
* `U16Max = 1` with a report of 2 makes the clamp of `buffered_ms` matter: wrapped,
  it would be 0.
* In `Transfer`, three frames, two datagrams in flight (`NetCapacity`), a window of
  two and timeouts of zero or one let an acknowledgement be overtaken, a NACK be
  answered after its frame arrived, and `EndAck` race the timeout. Timeouts this
  short make every timeout able to fire before any packet arrives: the real ones
  are longer, which removes interleavings and adds none.
* Two requests are enough for one to be blocked by, mistaken for, or disarmed in
  place of another; a channel of one frame is full after one, and two frames make a
  release that must wait in the middle. The first request's datagrams come from two
  addresses (`MayComeFrom`), the second's from one of them: a peer may be heard from
  elsewhere later, and the late datagrams of the first may come from elsewhere than
  the second's.
* In `pacing` the window lets two frames be under way, so arrivals are reordered
  around a report; a TTL of 0 lets a report expire at every tick of the clock, and
  two acknowledgements can overtake each other. `U16Max` clamps the largest backlog,
  and `PlayAhead = 1` makes the difference negative.
* In `wire` the replay window has three words of two bits and counters up to 11,
  twice its width: jumps below, at and above a word, a window and the carry
  between words all happen. The sealing counters have a top of 8 (two digits in
  base 7) and ten packets each, past the top. Sealing and the window share no
  state and are explored one after the other.
* The bounds that are not parameters of the code are `NumFrames`/`MaxFrames` (the
  length of the track), `NetCapacity`, `AcksInFlight`, `PlayAhead`, `NumArms`,
  `MayAsk`, `MayComeFrom`, `MaxPackets`, `MaxCounter`, `BufferReports`/`AckReports`,
  and the caps of the ages.

### Fairness

`FairSpec` of the receiver: weak fairness of `Tick` and `Elapse`. The endpoint's
owner calls `tick` on an interval (documented on `Endpoint::tick`), and time
passes. Nothing is assumed of packets. `FairSpec` of the sender: the same;
`pump_once` ticks on every turn, and both blocking calls loop over it.
`Transfer` adds that the tap's caller keeps offering frames and then finishes
(`TapPushFrame`, `TapFinish`), which is what `send_all` does, and that a blocked
call keeps taking turns of `pump_once`. No fairness is assumed of the network
there: the liveness results hold if it delivers nothing.

`Endpoint`: the reader's own steps are weakly fair. tokio's mutex is first come,
first served, so a task that asks for it gets it if it is let go again and again:
strong fairness of each disarm. A transfer that is ticked for ever reaches its
outcome, which is `RelAlwaysFinishes` of the receiver, stated here as strong
fairness of `TickFinishes`. `FairSpec` assumes nothing of the consumers;
`DrainedSpec` adds that they take frames, and the difference between the two is
the finding `endpoint_blocked`.

`Pacing`: time passes, a report that was begun becomes visible, the sink goes on
acknowledging, and the newest acknowledgement gets through again and again (strong
fairness; any single one may be lost). The player owes nothing: that it stopped
reporting, or that it plays out what it has, is a premise in the formula.
`SilentPeerIsClosed` and `PausedStaysAudible` have their premises in the
formula.

Deadlock checking is on in every run; no specification can stop, because the clock
can always move or, in `wire`, another counter be put to the window.

## 4. What the code and its words disagree about

Runs with the result "violated":

* *A duplicate reaches playback* (`receiver_duplicate`). `abandon` clears the set
  above the prefix without moving the prefix, although its comment says "Drop
  everything and jump the prefix forward" (`gap_tracker.rs:89`). After an abort a
  frame that was above the prefix counts as fresh again; a repeat of it is
  emitted as `Unreliable` twice. `tests/loopback.rs:186` says "What must never
  happen is a duplicate reaching the mixer." Moving the prefix to `highest`
  instead is not the remedy: that is a mutant here, and then `Ack.contiguous`
  claims frames that never arrived (`AckSound`). How far it goes is proved
  (`DuplicatesFollowAnAbort`): a frame is shown twice only after the reliable
  stream was given up, and never a frame that the cache got.
* *A stall without a gap* (`receiver_stall`). The stall timer runs from the last
  release, also when nothing is missing: before the first frame, or during a
  pause that the sink itself asked for. `receiver.rs:167` calls it "a gap that is
  never going to fill", and `types.rs:139` (and `config.rs:47`) adds "while
  packets were still arriving", of which there need not be any.
* *The wedge* (`transfer_wedge`). Once one acknowledgement has come, no timeout
  covers a `Streaming` sender. If every frame of its window is lost, it may not
  send, it is not paused and so sends no keepalive, the sink sees no gap above
  its highest arrival and asks for nothing, closes as `PeerGone`, and
  `send_frame` never returns. `frame/tag.rs:24` says "UDP ends via `End`/`EndAck`
  or a timeout."
* *One cache consumer stops every transfer* (`endpoint_blocked`). `apply` awaits
  room in the cache channel under the endpoint's lock. A consumer that neither
  takes frames nor hangs up stops the reader, every tick, arm and disarm, and with
  them the playback of every other transfer. `bind/receiver.rs:335` says "Playback
  must never be held up by a slow consumer".
* *A counter accepted twice* (`replay_edge`). A jump of exactly `WIDTH` clears the
  bitmap without recording the outgoing highest counter, which is exactly `WIDTH`
  back and still admitted: `accept(0)`, `accept(1024)`, `accept(0)` all succeed.
  `crypto.rs:135` says "returning `Err` if it was already seen or has fallen out
  of the window". `VerdictIsHistory` shows that this is the only such place.

Met while modelling, without a run of their own:

* The idle timeout does not look at `final_seq`: a cache worker, whose idle timeout
  is half its stall timeout, that has had `End` and waits for a lost frame reports
  `PeerGone`, which `types.rs:143` defines as "The transfer ended before `End`
  arrived." `AbortsAreJustified` therefore claims nothing of `PeerGone`.
* After an abort `on_data` returns before `check_finish`, and the tracker has
  forgotten the arrivals above its prefix, so a transfer that lands whole may never
  be answered with `EndAck`, however often `End` comes; `receiver.rs:280` says
  "Acknowledge the tail whenever the whole transfer has landed".
* `handle` of the sender does not look at the state: a failed sender answers a late
  `Nack`, and a late `EndAck` makes it report `Completed` after `Failed`.
  `sender.rs:21` says "Nothing further will be sent." The binding returns the error
  and reads its socket again only if its caller goes on. `DoneIsFinal` says that
  nothing else can follow a verdict.
* A request id that is armed again while an older disarm is still queued loses its
  new entry (`SlotLostOnlyToReuse` says this is the only way). Ids are random
  UUIDs, so a caller has to reuse one on purpose.
* A sink that has never reported counts as a report of play head 0 made at the
  start, for one TTL, although `ack_buffered_ms` names "a sink that has never
  reported" as a case of the fallback. The fallback is always 0: no binding calls
  `set_buffered_ms`.
* An old acknowledgement that overtakes a newer one may resume a tap whose sink is
  above the low-water mark; the next one corrects it (`PauseAlwaysEnds` and the
  window do not depend on the order).
* `tag.rs:71` says the direction is checked "after decryption, never before";
  `open` checks it before. `tag.rs:15` speaks of an orphan buffer; there is none.
* After `NoAck` a caller that sends another frame waits for ever in `send_frame`.
* `retrans.rs:62` says acknowledged frames "must not be reported as lost"; the
  next line raises `lost_below` over them. `DiscardedIsTrue` shows it is harmless.
* `receiver.rs:43` says a finished stream stops tracking gaps; `on_data` goes on
  recording, and `ahead` grows with the transfer.
* The branch `seq <= sender_lost_below` of `emit_nacks` cannot be taken
  (`NothingNeededIsLost`).
* `nack_backoff[0]` is never waited for, because an entry starts an hour old, and
  the last attempt gets no wait of its own: the next tick finds the budget spent
  as soon as it runs.
* `End` and `EndAck` are sent once. A lost tail is never asked for (`missing`
  looks below `highest` only), although `sender.rs:223` expects "NACKs for the
  tail".
* `ReplayWindow` is not used by the bindings, although the README describes it.

## 5. Proofs

Eight modules hold the proofs. Each theorem is of the component's specification,
for every value of the constants that the assumptions allow; the assumptions say
that sizes, budgets and timeouts are natural numbers, that payload offsets do not
decrease, that a NACK backoff is at most the hour a fresh entry is given, and, for
the packet layer, that a counter has at least two values and a window at least one
bit, that a byte can hold every kind and the version, and that the limit of a NACK
list fits its count. Every safety invariant and action property that a passing run
checks is also a theorem.

| Module | Theorems (the property each states for every instance) |
| --- | --- |
| `XferReceiverProof` | `ReceiverCorrect` (`TypeOK /\ IndInv`), `ReceiverTypes`, `CompleteIsWhole`, `EndAckIsTrue`, `PlaybackIsComplete`, `NothingNeededIsGone`, `FinishIsNeverMissed`, `ReceiverImplementsDualStream` |
| `XferReceiverCallsProof` | `CallsAreTrue` (`CallInv`), `NacksAreSound`, `AcksAreSound`, `ReorderIsExact`, `MemoryIsBounded`, `TheOutcomeIsFinal`, `AbortsTellTheTruth`, `DuplicatesFollowAnAbort` |
| `XferSenderProof` | `SenderCorrect` (`IndInv`), `SenderTypes`, `NothingLostSilently`, `VerdictIsFinal` |
| `TransferProof` | `TransferCorrect` (the joint invariant), `TheSinkIsHonest`, `CompletedIsDelivered`, `DroppedHasLanded`, `TheTapIsPaced`, `TheBlameIsTrue` |
| `EndpointProof` | `EndpointCorrect` (`IndInv`), `EndpointTypes`, `OutcomeComesLast`, `OnlyItsOwnTap`, `SlotsAreLostToReuseOnly` |
| `PacingProof` | `PacingCorrect` (`IndInv`), `OccupancyIsRight` |
| `CodecProof` | `OneToOneForAnyLength` (both directions of the codec, byte strings of any length) |
| `CryptoProof` | `SealingCorrect` (`SealInv`), `NoncesAreUnique`, `SealedOpens` (any text, any request), `ThePeerOpensIt`, `TheCodecIsOneToOne`, `WindowCorrect` (`WindowInv`), `TheVerdictIsHistory` |

### The receiver's state

None of the properties is inductive alone. `Complete` is whole because everything
up to the prefix is released, which holds because the buffer is exactly what the
tracker has above the prefix, which holds because the prefix stops at a real gap.
`IndInv` has one part per reason:

* `TrackerTrue`: the prefix and the set above it have arrived, nothing arrived
  above `highest`, and the set starts at least two above the prefix;
* `AlwaysTrue`: what also holds halfway through a call: the cache is not ahead of
  the prefix, playback equals the arrivals, state and outcome agree, `end_acked`
  implies everything arrived and closed;
* `Settled`: what holds between calls while streaming: buffer = `ahead`,
  released = prefix, arrivals = prefix and `ahead`, window kept, nothing needed
  has been declared gone;
* `Concluded`: a stream known to be whole is finished, and `Complete` goes with
  everything released and acknowledged.

`Settled` says "arrivals = prefix and `ahead`" only while streaming: after
`abandon` it is false, and that is the root of the duplicate at playback.

A call is a composition of operators, and so is its proof. `KeepsFaith(r, q)` says
that going from `r` to `q` keeps type and invariant and that the outputs move as
they may (`Follows`); `Lands(r, q, s)` adds the arrival of `s`. Both compose
(`FaithOn`, `LandsOn`). There is one lemma per operator and one per call;
`StepIsGood` has one step per action. The module begins with the gap tracker: what
`record` does to one (`RecordFresh`), from the existence of the place where
its loop stops. The refinement is then short: `Lands` is a `Land`, `KeepsFaith`
is a `Conclude`, and `OutputsMove` reads the abstract step off the invariant.

### The receiver's calls

`XferReceiverCallsProof` follows through each call what the first proof lets go:
the byte count (`CountTrue`), the packets put out (`Told`) and the reason of an
outcome (`Justified`). `Call(r, q)` collects them and `StepIsCall` shows that
every action is one. The byte count is a sum over a set. That `MapThenSumSet`
computes a sum at all, and that taking a run of consecutive frames out of the
buffer lowers it by the difference of two offsets (`SumRun`), are inductions; they
are argued by least counterexample (`LeastNatural`), since the induction theorems
of the library are out of the provers' reach.

`DuplicatesFollowAnAbort` bounds the finding `receiver_duplicate` of section 4.
Only `on_data` shows a frame (`NothingShown`), and it shows only what `record`
takes for fresh; while the stream is open that is a frame that has not arrived,
and after it a number above the frozen prefix, so above all that was released.

### The sender

`RingTrue` says what the ring holds: exactly the numbers above `lost_below` that
were used and not skipped; `StateTrue` ties state, `ended` and verdict together.
`NoSilentLoss` and `DoneIsFinal` follow. `RingPushEvicts` shows that the loop of
`push` stops within the budget, from the least cut that fits (the empty ring
fits).

A second half is about the sender and the set `A` of frames that have landed,
for the composition: `Rely(t, A)` (what left the ring landed, overflowed or never
went out; the tap is no more than `max_outstanding` ahead of `A`), `Truthful`
(what a packet says of the tap) and `Later` (what may become of the tap without
making an old packet false).

### The two together

`Joint` is the invariant of both ends plus what ties them: `Rely`, `Agree` (what
each end believes of the other's end of track, `lost_below` and verdict), and
`PacketTrue` of everything in flight. The argument is that truth in flight is
monotonic: a packet was true of its sender when it was made (`Told`, `Moves`), and
no later step of either end makes it false (`TapMovesOn`, `SinkMovesOn`); so it
does not matter when, how often or in which order it is delivered. A true packet
is then just what the receiving end's lemma asks for. The components' lemmas are
used through instances of their proof modules, and the first two sections of
`TransferProof` show that these instances speak of the same operators as the
instances `S` and `R` the specification is made of.

### The endpoint

`IndInv` holds what the properties rest on: a slot belongs to the
latest request with its id (`SlotsTrue`), ids are given in order (`ArmedInOrder`),
the reader works on an armed request (`ReaderTrue`), and a transfer nobody is
applying events of has put all of them into its channels (`ChannelsTrue`). The
last one is what the lock is for: it is false while the reader holds it. Each
transfer moves by the abstract `DualStream`, so `StreamMoves` is all that is known
of it, and `ReceiverImplementsDualStream` is what entitles the endpoint to it.
`OnlyItsOwnTap` is about steps: each action but the reader's `Handle` leaves
released frames and peer alone, a tick because an outcome releases nothing, a
dropped datagram because nothing is learned before the tag is checked.

### Feedback

`ReportsInOrder`: the last report that was seen in full, the play head the endpoint
sees, the report under way and where the player is are in this order. Each of the
two relaxed stores keeps the order by itself, which is why either may be seen first.
Nothing is said of the newest frame: the play head may be past it. `SinkTrue` needs
`newest_data_ms` to be a maximum.

### Codec and header

Everything rests on `from_be_bytes` being the inverse of `to_be_bytes` at every
width. `WrittenThenRead` and `ReadThenWritten` follow two recursive functions side
by side: what is left of an integer after its lowest bytes are written (`Rest`),
and what the first bytes read are worth (`Val`). While writing, what is left stays
below the power of the base that the bytes to come can hold, so nothing is left at
the end; while reading, the value after `i` bytes is what was left before the last
`w - i`. A recursive definition in TLA+ only says something once the function it
describes is known to exist; `Recursion` shows that once for all the definitions
used here (powers, `Rest`, `Val`, and the library's `FlattenSeq`), and `Upwards` is
the induction over their arguments, by least counterexample.

A datagram is then a string in which each field stands at its place
(`AtPlace`). Writing puts fields side by side (`Joined`, `SideBySide`), reading
cuts them out (`CutIs`, `TakeIs`), and the same facts are used backwards for the
other direction (`TakenStands`, `SameString`). The list of a Nack is the case that
needs more: entry `i` stands `i - 1` entries after the count (`Flattened`), and
since every byte of the rest belongs to one entry, by division with remainder,
there is nothing else in the datagram (`FlattenedIs`). There is one lemma per kind
and direction (`DataReturns`, `DataStands`, ...).

`OneToOneForAnyLength` puts no bound on the byte strings, where the run looks at
those up to the longest fixed layout.

### Nonces, opening and the replay window

`SealInv`: the packets of each of the three streams (the tap's frames, the tap's
control packets, the sink's control packets) are numbered without gaps, and the
n-th carries the counter of its number (`NthCounter`) as long as the counter
lasts; the tap's control counter is incremented before use and so ends on zero,
the sink's after use and so begins there. Unequal numbers then give unequal
counters (`CountersApart`), and the direction and the class keep the streams apart
(`NonceSays`).

`SealInv` also keeps every counter within `u32`, wrapping or saturating, so it fits
the header; `HeaderReturns` reads back from a datagram the header and the text it
was made of, hence the tag's nonce and associated data are recomputed as they were
(`SealedOpens`), and an end that expects the other direction stops before the tag.

`WindowInv`: bit `i` of the bitmap stands for the counter `highest - 1 - i`, for
all but the last bit. `ShiftMoves` is the heart: whole words first and bits with
their carries after are one shift of the whole bitmap, for any number and width of
words, by division with remainder (`PlaceOf`, `PlaceIs`, `WordsApart`). The last
bit is left out because a jump by exactly the width clears the map without
recording the old `highest`, which is the finding `replay_edge`; the proof shows
that this is the only place where the window and the history disagree.

### Only model-checked

* Liveness, and every property under fairness: `RelAlwaysFinishes`,
  `SilentPeerIsClosed`, `FinalizingEnds`, `PausedStaysAudible`, `TapAlwaysEnds`,
  `DroppedIsFreed`, `EveryArmIsAnswered`, `NeverHeldUp`, `PauseAlwaysEnds`.

The prover has no rules for fairness and `ENABLED`, so these stay with TLC on the
instances of section 3.

## 6. Not modelled

Left out: the AEAD and the random number generator (libraries),
address resolution and `connect`, the failure of the sink's socket (which ends
`run`), the order of replies among themselves (they are datagrams), the playback
channel's occupancy and its drop counter, logging, error enumerations and
re-exports. Nothing is persisted, so there is no crash and restart to recover
from: a tap or sink that dies is the silence the timeouts are about.
