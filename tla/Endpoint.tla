------------------------------ MODULE Endpoint ------------------------------
(***************************************************************************)
(* The sink's endpoint (protofish4/src/receiver.rs): one socket, any       *)
(* number of transfers in a table keyed by request id, behind one          *)
(* asynchronous lock.  Its tasks are the reader (run), whoever calls tick, *)
(* the owners that arm and drop requests, the disarm tasks their drops     *)
(* spawn, and the consumers of each transfer's channels.                   *)
(*                                                                         *)
(* The only await while the lock is held is the send into a full cache     *)
(* channel (apply), and only the reader meets it, because tick releases no *)
(* frame.  So the lock is taken across steps only by a reader in "apply";  *)
(* every other critical section is one step.                               *)
(*                                                                         *)
(* Each entry's XferReceiver is a DualStream, which XferReceiver is proved *)
(* to implement; which frames have landed is left open, so a packet may    *)
(* release any number.  A datagram is known by the tap whose key sealed it *)
(* and by the address it comes from.  The two are independent: a tap's NAT *)
(* may give it another address, and a datagram may be repeated from        *)
(* anywhere.                                                               *)
(***************************************************************************)
EXTENDS Integers

CONSTANTS
    NumArms,        \* bound: calls of arm, numbered in the order they return
    Ids,            \* request ids
    MayAsk,         \* bound: the ids each of those calls may ask for
    NumFrames,      \* every transfer carries frames 1 .. NumFrames
    RelCapacity,    \* of the cache channel (256 in the code)
    Addrs,          \* addresses
    MayComeFrom,    \* bound: the addresses each tap's datagrams may come from
    None            \* no entry, no peer, no outcome, no id

ASSUME EndpointAssumption ==
    /\ NumArms \in Nat \ {0}
    /\ NumFrames \in Nat
    /\ RelCapacity \in Nat \ {0}
    /\ MayAsk \in [1 .. NumArms -> SUBSET Ids]
    /\ MayComeFrom \in [1 .. NumArms -> SUBSET Addrs]
    /\ None \notin Ids /\ None \notin 1 .. NumArms /\ None \notin Addrs
    /\ None \notin {"Complete", "Aborted"}

VARIABLES
    entries,  \* the HashMap: id -> the arm call whose Entry is there
    reader,   \* where run is, and the datagram it works on
    xfer      \* per arm call: its Entry, its channels and its handle

vars == <<entries, reader, xfer>>

Arms     == 1 .. NumArms
Outcomes == {None, "Complete", "Aborted"}

\* A call of arm that has not been made.  sent and taken count the frames put
\* into and taken from the cache channel, told is what the outcome channel
\* carries, listening is FALSE once Streams::rel is dropped.
Unarmed ==
    [id |-> None, handle |-> "none", peer |-> None,
     released |-> 0, outcome |-> None, closed |-> FALSE,
     sent |-> 0, taken |-> 0, told |-> None, listening |-> TRUE]

Idle == [pc |-> "recv", tap |-> None]

Init == /\ entries = [id \in Ids |-> None]
        /\ reader  = Idle
        /\ xfer    = [g \in Arms |-> Unarmed]

Stream(g) == INSTANCE DualStream WITH
                 Plays    <- TRUE,
                 Reasons  <- {"Aborted"},
                 landed   <- 1 .. NumFrames,
                 played   <- 1 .. NumFrames,
                 released <- xfer[g].released,
                 outcome  <- xfer[g].outcome,
                 closed   <- xfer[g].closed

\* g's Entry is in the table.
InTable(g) == \E id \in Ids : entries[id] = g

Armed(g) == xfer[g].handle \in {"held", "dropped", "disarmed"}

\* Slips: no mutual exclusion; an id that is taken is overwritten.
LockFreeAlways == TRUE
TakenNever(id) == FALSE

\* entries.lock().await is granted at once.
LockFree == reader.pc # "apply"

\* entries.contains_key
Taken(id) == entries[id] # None

\* The id on tap's datagrams leads to an entry whose key opens them.
Routed(tap) == entries[xfer[tap].id] = tap

-----------------------------------------------------------------------------
(* Owners. *)

\* arm: refused when the id is taken.
Arm(g) ==
    /\ LockFree
    /\ xfer[g].handle = "none"
    /\ \A older \in 1 .. (g - 1) : xfer[older].handle # "none"
    /\ \E id \in MayAsk[g] :
          IF Taken(id)
          THEN /\ xfer' = [xfer EXCEPT ![g].handle = "refused"]
               /\ UNCHANGED <<entries, reader>>
          ELSE /\ xfer' = [xfer EXCEPT ![g].handle = "held", ![g].id = id]
               /\ entries' = [entries EXCEPT ![id] = g]
               /\ UNCHANGED reader

\* ArmedRequest::drop spawns a task that will disarm.
DropArmed(g) ==
    /\ xfer[g].handle = "held"
    /\ xfer' = [xfer EXCEPT ![g].handle = "dropped"]
    /\ UNCHANGED <<entries, reader>>

\* A slip: a request whose tap was heard from is not disarmed.
WithoutUnused(id) ==
    IF entries[id] # None /\ xfer[entries[id]].peer # None THEN entries
    ELSE [entries EXCEPT ![id] = None]

\* disarm removes whatever holds the id by now.
Without(id) == [entries EXCEPT ![id] = None]

RunDisarm(g) ==
    /\ LockFree
    /\ xfer[g].handle = "dropped"
    /\ xfer' = [xfer EXCEPT ![g].handle = "disarmed"]
    /\ entries' = Without(xfer[g].id)
    /\ UNCHANGED reader

-----------------------------------------------------------------------------
(* Consumers. *)

TakeReliable(g) ==
    /\ xfer[g].listening /\ xfer[g].taken < xfer[g].sent
    /\ xfer' = [xfer EXCEPT ![g].taken = @ + 1]
    /\ UNCHANGED <<entries, reader>>

HangUp(g) ==
    /\ Armed(g) /\ xfer[g].listening
    /\ xfer' = [xfer EXCEPT ![g].listening = FALSE, ![g].taken = 0]
    /\ UNCHANGED <<entries, reader>>

-----------------------------------------------------------------------------
(***************************************************************************)
(* The reader.  A datagram is any that a tap may have sent since its       *)
(* request was armed, early or late.  Waiting for the lock after recv_from *)
(* changes nothing, so on_datagram starts when the lock is granted.        *)
(***************************************************************************)

\* if entry.peer.is_none()
Learned(x, from) == [x EXCEPT !.peer = IF @ = None THEN from ELSE @]

\* A slip: the address is believed before the tag.
StrayLearned ==
    /\ reader.pc = "recv" /\ LockFree
    /\ \E tap \in Arms : \E from \in MayComeFrom[tap] :
          /\ Armed(tap) /\ ~Routed(tap)
          /\ xfer' = [g \in Arms |-> IF entries[xfer[tap].id] = g
                                    THEN Learned(xfer[g], from) ELSE xfer[g]]
    /\ UNCHANGED <<entries, reader>>

\* on_datagram drops what has no entry, or not the entry's key.
Stray ==
    /\ reader.pc = "recv" /\ LockFree
    /\ \E tap \in Arms : Armed(tap) /\ ~Routed(tap)
    /\ UNCHANGED vars

\* on_datagram up to apply: the address of the first datagram that opens is
\* kept as the peer, and handle moves the transfer.  Playback frames are offered
\* with try_send, which may lose one but never waits, so nothing of it is kept.
Handle(tap, g, from) ==
    /\ reader.pc = "recv" /\ LockFree
    /\ Armed(tap) /\ Routed(tap) /\ g = entries[xfer[tap].id]
    /\ \E released \in 0 .. NumFrames, outcome \in Outcomes, closed \in BOOLEAN :
          xfer' = [xfer EXCEPT ![g] = [Learned(@, from) EXCEPT !.released = released,
                                                               !.outcome  = outcome,
                                                               !.closed   = closed]]
    /\ Stream(g)!Conclude
    /\ reader' = [pc |-> "apply", tap |-> tap]
    /\ UNCHANGED entries

\* rel_tx.send returns: there is room, or the cache hung up.
HasRoom(x) == ~x.listening \/ x.sent - x.taken < RelCapacity

\* apply, the Reliable arm: the send is awaited with the lock held.
ApplyReliable ==
    /\ reader.pc = "apply"
    /\ LET g == reader.tap
       IN  /\ xfer[g].sent < xfer[g].released
           /\ HasRoom(xfer[g])
           /\ xfer' = [xfer EXCEPT ![g].sent = @ + 1]
    /\ UNCHANGED <<entries, reader>>

\* A slip: only success is told.
ToldComplete(x) == [x EXCEPT !.told = IF x.outcome = "Complete" THEN "Complete" ELSE @]

\* The RelFinished arm comes after the frames; the oneshot is used once.
Told(x) == [x EXCEPT !.told = IF @ = None THEN x.outcome ELSE @]

\* The end of apply: the outcome, then the lock is let go and replies are sent.
ApplyDone ==
    /\ reader.pc = "apply"
    /\ LET g == reader.tap
       IN  /\ xfer[g].sent = xfer[g].released
           /\ xfer' = [xfer EXCEPT ![g] = Told(@)]
           /\ reader' = IF xfer[g].closed
                        THEN [reader EXCEPT !.pc = "finished"] ELSE Idle
    /\ UNCHANGED entries

\* A slip: the reader waits for the owner to let go of the handle.
DisarmFinishedOnceDropped ==
    /\ reader.pc = "finished" /\ LockFree
    /\ xfer[reader.tap].handle # "held"
    /\ entries' = Without(xfer[reader.tap].id)
    /\ reader' = Idle
    /\ UNCHANGED xfer

\* A finished transfer is disarmed, by id, under a lock taken anew.
DisarmFinished ==
    /\ reader.pc = "finished" /\ LockFree
    /\ entries' = Without(xfer[reader.tap].id)
    /\ reader' = Idle
    /\ UNCHANGED xfer

-----------------------------------------------------------------------------
\* tick: every transfer's timers under one lock; closed ones are removed.
Live == {entries[id] : id \in Ids} \ {None}

Tick ==
    /\ LockFree
    /\ UNCHANGED reader
    /\ \E outcome \in [Live -> Outcomes], closed \in [Live -> BOOLEAN] :
          /\ xfer' = [g \in Arms |->
                 IF g \notin Live THEN xfer[g]
                 ELSE Told([xfer[g] EXCEPT !.outcome = outcome[g], !.closed = closed[g]])]
          /\ \A g \in Live : Stream(g)!Conclude
          /\ entries' = [id \in Ids |->
                 IF entries[id] \in Live /\ closed[entries[id]] THEN None ELSE entries[id]]

Next == \/ \E g \in Arms : \/ Arm(g) \/ DropArmed(g) \/ RunDisarm(g)
                           \/ TakeReliable(g) \/ HangUp(g)
        \/ \E tap, g \in Arms : \E from \in MayComeFrom[tap] : Handle(tap, g, from)
        \/ Stray \/ ApplyReliable \/ ApplyDone \/ DisarmFinished
        \/ Tick

Spec == Init /\ [][Next]_vars

(***************************************************************************)
(* tokio's mutex is handed over in the order it was asked for, so every    *)
(* task that asks is served if the lock is free again and again: SF.  The  *)
(* last conjunct is what XferReceiver's RelAlwaysFinishes shows: a stream  *)
(* that is ticked for ever reaches its outcome.                            *)
(***************************************************************************)
TickFinishes(g) == /\ xfer[g].outcome = None /\ g \in Live
                   /\ Tick
                   /\ xfer'[g].outcome # None

Fairness ==
    /\ WF_vars(ApplyReliable \/ ApplyDone \/ DisarmFinished)
    /\ \A g \in Arms : SF_vars(RunDisarm(g)) /\ SF_vars(TickFinishes(g))

\* Nothing is assumed of the consumers.
FairSpec == Spec /\ Fairness

\* The cache's consumers keep taking frames, or hang up.
DrainedSpec == FairSpec /\ \A g \in Arms : WF_vars(TakeReliable(g))

-----------------------------------------------------------------------------
XferType == [id        : Ids \cup {None},
             handle    : {"none", "refused", "held", "dropped", "disarmed"},
             peer      : Addrs \cup {None},
             released  : 0 .. NumFrames,
             outcome   : Outcomes,
             closed    : BOOLEAN,
             sent      : 0 .. NumFrames,
             taken     : 0 .. NumFrames,
             told      : Outcomes,
             listening : BOOLEAN]

\* Every variable has its type.
TypeOK ==
    /\ entries \in [Ids -> Arms \cup {None}]
    /\ reader \in [pc : {"recv", "apply", "finished"}, tap : Arms \cup {None}]
    /\ xfer \in [Arms -> XferType]

\* The consumer that hears the outcome has every frame of the stream already
\* in its channel, and `Complete` means the whole track is: the order in apply
\* and the lock keep a tick from announcing an end between two frames.
OutcomeAfterFrames ==
    \A g \in Arms : xfer[g].told # None =>
        /\ xfer[g].told = xfer[g].outcome
        /\ xfer[g].sent = xfer[g].released
        /\ xfer[g].told = "Complete" => xfer[g].sent = NumFrames

\* "A later packet claiming the same request id cannot redirect our replies":
\* whatever late datagrams of other requests of the same id arrive, and from
\* wherever, a transfer moves and learns its peer only by a datagram its own key
\* opens, and keeps replying to where the first of those came from, although
\* its own may come from elsewhere later.
OnlyItsTapMovesIt ==
    [][ \A g \in Arms :
          xfer'[g].released # xfer[g].released \/ xfer'[g].peer # xfer[g].peer =>
            /\ reader'.pc = "apply" /\ reader'.tap = g
            /\ xfer[g].peer # None => xfer'[g].peer = xfer[g].peer ]_vars

\* "Holds a request's slot on the endpoint": an owner that still holds the
\* handle of an unfinished transfer has lost the slot only if an earlier
\* request had the same id (whose disarm, by id and after the lock was let go,
\* takes the newer entry).
SlotLostOnlyToReuse ==
    \A g \in Arms :
        xfer[g].handle = "held" /\ ~xfer[g].closed /\ ~InTable(g)
            => \E older \in 1 .. (g - 1) : xfer[older].id = xfer[g].id

\* Dropping the handle frees the slot (ArmedRequest: "cannot leak a
\* demultiplexing slot"), even while the reader and tick compete for the lock.
DroppedIsFreed ==
    \A g \in Arms :
        xfer[g].handle = "dropped" ~>
            xfer[g].handle = "disarmed" /\ ~InTable(g)

\* Nobody waits for ever on Streams::outcome: an armed request's outcome is
\* told, or its entry is gone and the channel closed.
EveryArmIsAnswered ==
    \A g \in Arms :
        Armed(g) ~> xfer[g].told # None \/ ~InTable(g)

\* The reader always comes back to the socket, so that every transfer's
\* playback goes on ("Playback must never be held up by a slow consumer").
NeverHeldUp == []<>(reader.pc = "recv")
=============================================================================
