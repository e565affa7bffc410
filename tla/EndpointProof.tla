---------------------------- MODULE EndpointProof ----------------------------
(***************************************************************************)
(* The endpoint's safety for any number of requests, ids, frames and any   *)
(* channel capacity.                                                       *)
(***************************************************************************)
EXTENDS Endpoint, TLAPS

\* The table holds armed requests under the ids they asked for, and of the
\* requests that ever had an id the one in the table is the latest.
SlotsTrue ==
    \A id \in Ids, g \in Arms : entries[id] = g =>
        /\ xfer[g].id = id /\ Armed(g)
        /\ \A h \in Arms : xfer[h].id = id => h <= g

\* Requests are armed in order, and get their id when they are armed.
ArmedInOrder ==
    \A g \in Arms :
        /\ xfer[g].handle = "none" => /\ xfer[g].id = None
                                      /\ \A h \in Arms : g < h => xfer[h].handle = "none"
        /\ Armed(g) => xfer[g].id \in Ids

\* The reader works on an armed request, and disarms only a closed one.
ReaderTrue ==
    reader.pc # "recv" => /\ reader.tap \in Arms /\ Armed(reader.tap)
                          /\ reader.pc = "finished" => xfer[reader.tap].closed

Applying(g) == reader.pc = "apply" /\ reader.tap = g

\* A transfer nobody is applying events of has put all of them into its
\* channels; while they are applied, the frames go first.
ChannelsTrue ==
    \A g \in Arms :
        /\ xfer[g].sent <= xfer[g].released
        /\ xfer[g].told # None => /\ xfer[g].told = xfer[g].outcome
                                  /\ xfer[g].sent = xfer[g].released
        /\ ~Applying(g) => /\ xfer[g].told = xfer[g].outcome
                           /\ xfer[g].sent = xfer[g].released
        /\ xfer[g].outcome = "Complete" => xfer[g].released = NumFrames

IndInv == /\ TypeOK /\ SlotsTrue /\ ArmedInOrder /\ ReaderTrue /\ ChannelsTrue
          /\ SlotLostOnlyToReuse

-----------------------------------------------------------------------------
(***************************************************************************)
(* Steps that leave a part of the state alone.                             *)
(***************************************************************************)
\* One request's record is replaced.
LEMMA TouchOne ==
    ASSUME xfer \in [Arms -> XferType], NEW g \in Arms, NEW x \in XferType,
           xfer' = [xfer EXCEPT ![g] = x]
    PROVE  /\ xfer' \in [Arms -> XferType]
           /\ xfer'[g] = x
           /\ \A h \in Arms : h # g => xfer'[h] = xfer[h]
OBVIOUS

\* No request is armed, changes its id, or comes back from being closed.
SameSlots ==
    \A h \in Arms : /\ xfer'[h].id = xfer[h].id
                    /\ Armed(h)' <=> Armed(h)
                    /\ xfer'[h].handle = "none" <=> xfer[h].handle = "none"
                    /\ xfer'[h].handle = "held" => xfer[h].handle = "held"
                    /\ xfer[h].closed => xfer'[h].closed

\* An entry that leaves the table is one its owner has let go, a closed one, or
\* one whose id an older request had.
RemovedRightly ==
    \A id \in Ids : \/ entries'[id] = entries[id]
                    \/ /\ entries'[id] = None
                       /\ \A g \in Arms : entries[id] = g =>
                             \/ xfer'[g].handle # "held"
                             \/ xfer'[g].closed
                             \/ \E older \in 1 .. (g - 1) : xfer[older].id = id

\* Such a step keeps what is known of the table.
LEMMA SlotsKept ==
    ASSUME IndInv, SameSlots, RemovedRightly
    PROVE  SlotsTrue' /\ ArmedInOrder' /\ SlotLostOnlyToReuse'
<1>0. None \notin Arms /\ \A g \in Arms : 1 .. (g - 1) \subseteq Arms
  BY EndpointAssumption DEF Arms
<1>1. SlotsTrue'
  BY <1>0 DEF IndInv, SlotsTrue, SameSlots, RemovedRightly
<1>2. ArmedInOrder'
  BY DEF IndInv, ArmedInOrder, SameSlots
<1>3. SlotLostOnlyToReuse'
  <2> SUFFICES ASSUME NEW g \in Arms, xfer'[g].handle = "held", ~xfer'[g].closed, ~InTable(g)'
               PROVE  \E older \in 1 .. (g - 1) : xfer'[older].id = xfer'[g].id
    BY DEF SlotLostOnlyToReuse
  <2>1. xfer[g].handle = "held" /\ ~xfer[g].closed /\ xfer'[g].id = xfer[g].id
    BY DEF SameSlots
  <2>2. \A older \in 1 .. (g - 1) : xfer'[older].id = xfer[older].id
    BY <1>0 DEF SameSlots
  <2>3. CASE ~InTable(g)
    BY <2>1, <2>2, <2>3 DEF IndInv, SlotLostOnlyToReuse
  <2>4. CASE InTable(g)
    <3>1. PICK id \in Ids : entries[id] = g
      BY <2>4 DEF InTable
    <3>2. xfer[g].id = id /\ entries'[id] # g
      BY <3>1 DEF IndInv, SlotsTrue, InTable
    <3>3. \E older \in 1 .. (g - 1) : xfer[older].id = id
      BY <3>1, <3>2 DEF RemovedRightly
    <3> QED BY <2>1, <2>2, <3>2, <3>3
  <2> QED BY <2>3, <2>4
<1> QED BY <1>1, <1>2, <1>3

\* Nothing is sent or told, and no transfer moves.
SameChannels ==
    \A h \in Arms : /\ xfer'[h].peer = xfer[h].peer /\ xfer'[h].released = xfer[h].released
                    /\ xfer'[h].outcome = xfer[h].outcome
                    /\ xfer'[h].sent = xfer[h].sent /\ xfer'[h].told = xfer[h].told
                    /\ Applying(h)' <=> Applying(h)

\* Such a step keeps what is known of the channels.
LEMMA ChannelsKept ==
    ASSUME IndInv, SameChannels
    PROVE  ChannelsTrue'
BY DEF IndInv, ChannelsTrue, SameChannels

-----------------------------------------------------------------------------
(***************************************************************************)
(* Owners and consumers.                                                   *)
(***************************************************************************)
\* arm: the id was free, so the new request is the latest that has it.
LEMMA ArmKeeps ==
    ASSUME IndInv, NEW g \in Arms, Arm(g)
    PROVE  IndInv'
<1>0. /\ xfer \in [Arms -> XferType] /\ entries \in [Ids -> Arms \cup {None}]
      /\ xfer[g].handle = "none" /\ xfer[g] \in XferType /\ None \notin Arms
  BY EndpointAssumption DEF IndInv, TypeOK, Arm, Arms
<1>1. PICK id \in MayAsk[g] :
         IF Taken(id)
         THEN /\ xfer' = [xfer EXCEPT ![g].handle = "refused"]
              /\ UNCHANGED <<entries, reader>>
         ELSE /\ xfer' = [xfer EXCEPT ![g].handle = "held", ![g].id = id]
              /\ entries' = [entries EXCEPT ![id] = g]
              /\ UNCHANGED reader
  BY DEF Arm
<1>2. id \in Ids
  BY EndpointAssumption DEF Arms
<1>3. CASE Taken(id)
  <2> DEFINE x == [xfer[g] EXCEPT !.handle = "refused"]
  <2>1. /\ x \in XferType /\ x.id = xfer[g].id /\ x.handle = "refused"
        /\ x.closed = xfer[g].closed /\ x.peer = xfer[g].peer
        /\ x.released = xfer[g].released /\ x.outcome = xfer[g].outcome
        /\ x.sent = xfer[g].sent /\ x.told = xfer[g].told
    BY <1>0 DEF XferType
  <2>2. xfer' = [xfer EXCEPT ![g] = x] /\ entries' = entries /\ reader' = reader
    BY <1>1, <1>3
  <2> HIDE DEF x
  <2>3. /\ xfer' \in [Arms -> XferType] /\ xfer'[g] = x
        /\ \A h \in Arms : h # g => xfer'[h] = xfer[h]
    BY <1>0, <2>1, <2>2, TouchOne
  <2>4. TypeOK'
    BY <2>2, <2>3 DEF IndInv, TypeOK
  <2>5. SameChannels
    BY <2>1, <2>2, <2>3 DEF SameChannels, Applying
  <2>6. SlotsTrue' /\ ArmedInOrder' /\ ReaderTrue' /\ SlotLostOnlyToReuse'
    <3>1. ~Armed(g) /\ ~Armed(g)' /\ \A h \in Arms : h # g => (Armed(h)' <=> Armed(h))
      BY <1>0, <2>1, <2>3 DEF Armed
    <3>2. \A h \in Arms : xfer'[h].id = xfer[h].id /\ xfer'[h].closed = xfer[h].closed
      BY <2>1, <2>3
    <3>3. SlotsTrue'
      BY <2>2, <3>1, <3>2 DEF IndInv, SlotsTrue
    <3>4. ArmedInOrder'
      <4>1. \A h \in Arms : xfer'[h].handle = "none" => xfer[h].handle = "none" /\ h # g
        BY <2>1, <2>3
      <4>2. \A k \in Arms : xfer[k].handle = "none" => g <= k
        BY DEF Arm, Arms
      <4>3. \A h \in Arms : g < h => xfer'[h].handle = "none"
        BY <1>0, <2>3 DEF IndInv, ArmedInOrder, Arms
      <4>4. \A h, k \in Arms : k \in Int /\ h \in Int
        BY DEF Arms
      <4>5. \A k \in Arms : xfer'[k].handle = "none" =>
               \A h \in Arms : k < h => xfer'[h].handle = "none"
        BY <4>1, <4>2, <4>3, <4>4
      <4> QED BY <3>1, <3>2, <4>1, <4>5 DEF IndInv, ArmedInOrder
    <3>5. ReaderTrue'
      BY <2>2, <3>1, <3>2 DEF IndInv, ReaderTrue
    <3>6. SlotLostOnlyToReuse'
      <4>1. \A h \in Arms : xfer'[h].handle = "held" => xfer[h].handle = "held"
        BY <2>1, <2>3
      <4>2. \A h \in Arms : 1 .. (h - 1) \subseteq Arms
        BY EndpointAssumption DEF Arms
      <4> QED BY <2>2, <3>2, <4>1, <4>2 DEF IndInv, SlotLostOnlyToReuse, InTable
    <3> QED BY <3>3, <3>4, <3>5, <3>6
  <2> QED BY <2>4, <2>5, <2>6, ChannelsKept DEF IndInv
<1>4. CASE ~Taken(id)
  <2> DEFINE x == [xfer[g] EXCEPT !.handle = "held", !.id = id]
  <2>1. /\ x \in XferType /\ x.id = id /\ x.handle = "held"
        /\ x.closed = xfer[g].closed /\ x.peer = xfer[g].peer
        /\ x.released = xfer[g].released /\ x.outcome = xfer[g].outcome
        /\ x.sent = xfer[g].sent /\ x.told = xfer[g].told
    BY <1>0, <1>2 DEF XferType
  <2>2. xfer' = [xfer EXCEPT ![g] = x] /\ reader' = reader
        /\ entries' = [entries EXCEPT ![id] = g]
    BY <1>1, <1>4
  <2> HIDE DEF x
  <2>3. /\ xfer' \in [Arms -> XferType] /\ xfer'[g] = x
        /\ \A h \in Arms : h # g => xfer'[h] = xfer[h]
    BY <1>0, <2>1, <2>2, TouchOne
  <2>4. /\ entries' \in [Ids -> Arms \cup {None}] /\ entries'[id] = g /\ entries[id] = None
        /\ \A i \in Ids : i # id => entries'[i] = entries[i]
    BY <1>0, <1>2, <1>4, <2>2 DEF Taken
  <2>5. TypeOK'
    BY <2>2, <2>3, <2>4 DEF IndInv, TypeOK
  <2>6. SameChannels
    BY <2>1, <2>2, <2>3 DEF SameChannels, Applying
  <2>7. /\ ~Armed(g) /\ Armed(g)' /\ \A h \in Arms : h # g => (Armed(h)' <=> Armed(h))
        /\ \A h \in Arms : h # g => xfer'[h].id = xfer[h].id
        /\ \A h \in Arms : xfer'[h].closed = xfer[h].closed
    BY <1>0, <2>1, <2>3 DEF Armed
  <2>8. \A h \in Arms : h \in Int /\ 1 .. (h - 1) \subseteq Arms
    BY EndpointAssumption DEF Arms
  <2>9. \A h \in Arms : g < h => xfer[h].handle = "none" /\ xfer[h].id = None
    BY <1>0 DEF IndInv, ArmedInOrder
  <2>10. SlotsTrue'
    <3> SUFFICES ASSUME NEW i \in Ids, NEW f \in Arms, entries'[i] = f
                 PROVE  /\ xfer'[f].id = i /\ Armed(f)'
                        /\ \A h \in Arms : xfer'[h].id = i => h <= f
      BY DEF SlotsTrue
    <3>1. CASE i = id
      <4>1. f = g
        BY <2>4, <3>1
      <4>2. \A h \in Arms : xfer'[h].id = id => h <= g
        <5>1. None \notin Ids
          BY EndpointAssumption
        <5> QED BY <1>2, <2>7, <2>8, <2>9, <5>1
      <4> QED BY <2>1, <2>3, <2>7, <3>1, <4>1, <4>2
    <3>2. CASE i # id
      <4>1. entries[i] = f
        BY <2>4, <3>2
      <4>2. xfer[f].id = i /\ Armed(f) /\ \A h \in Arms : xfer[h].id = i => h <= f
        BY <4>1 DEF IndInv, SlotsTrue
      <4> QED BY <2>1, <2>3, <2>7, <3>2, <4>2
    <3> QED BY <3>1, <3>2
  <2>11. ArmedInOrder'
    <3>1. \A k \in Arms : xfer'[k].handle = "none" => xfer[k].handle = "none" /\ k # g
      BY <2>1, <2>3
    <3>2. \A k \in Arms : xfer[k].handle = "none" => g <= k
      BY DEF Arm, Arms
    <3>3. \A k \in Arms : xfer'[k].handle = "none" =>
             \A h \in Arms : k < h => xfer'[h].handle = "none"
      BY <2>3, <2>8, <2>9, <3>1, <3>2
    <3>4. \A k \in Arms : xfer'[k].handle = "none" => xfer'[k].id = None
      BY <2>7, <3>1 DEF IndInv, ArmedInOrder
    <3>5. \A k \in Arms : Armed(k)' => xfer'[k].id \in Ids
      BY <1>2, <2>1, <2>3, <2>7 DEF IndInv, ArmedInOrder
    <3> QED BY <3>3, <3>4, <3>5 DEF ArmedInOrder
  <2>12. ReaderTrue'
    BY <2>2, <2>7 DEF IndInv, ReaderTrue
  <2>13. SlotLostOnlyToReuse'
    <3> SUFFICES ASSUME NEW f \in Arms, xfer'[f].handle = "held", ~xfer'[f].closed, ~InTable(f)'
                 PROVE  \E older \in 1 .. (f - 1) : xfer'[older].id = xfer'[f].id
      BY DEF SlotLostOnlyToReuse
    <3>1. f # g
      BY <1>2, <2>4 DEF InTable
    <3>2. xfer'[f] = xfer[f] /\ ~InTable(f)
      BY <1>0, <1>2, <2>3, <2>4, <3>1 DEF InTable
    <3>3. PICK older \in 1 .. (f - 1) : xfer[older].id = xfer[f].id
      BY <3>2 DEF IndInv, SlotLostOnlyToReuse
    <3>4. older # g
      <4>1. xfer[g].id = None /\ xfer[f].id \in Ids /\ None \notin Ids
        BY <1>0, <3>2, EndpointAssumption DEF IndInv, ArmedInOrder, Armed
      <4> QED BY <3>3, <4>1
    <3> QED BY <2>3, <2>8, <3>2, <3>3, <3>4
  <2> QED BY <2>5, <2>6, <2>10, <2>11, <2>12, <2>13, ChannelsKept DEF IndInv
<1> QED BY <1>3, <1>4

\* ArmedRequest::drop and the consumers touch one request and no entry.
LEMMA OwnersKeep ==
    ASSUME IndInv, NEW g \in Arms, DropArmed(g) \/ TakeReliable(g) \/ HangUp(g)
    PROVE  IndInv'
<1>0. /\ xfer \in [Arms -> XferType] /\ xfer[g] \in XferType /\ NumFrames \in Nat
      /\ entries' = entries /\ reader' = reader
  BY EndpointAssumption DEF IndInv, TypeOK, DropArmed, TakeReliable, HangUp
<1>1. \E x \in XferType :
        /\ xfer' = [xfer EXCEPT ![g] = x]
        /\ x.id = xfer[g].id /\ x.closed = xfer[g].closed /\ x.peer = xfer[g].peer
        /\ x.released = xfer[g].released /\ x.outcome = xfer[g].outcome
        /\ x.sent = xfer[g].sent /\ x.told = xfer[g].told
        /\ \/ x.handle = xfer[g].handle
           \/ xfer[g].handle = "held" /\ x.handle = "dropped"
  <2>1. CASE DropArmed(g)
    <3> DEFINE x == [xfer[g] EXCEPT !.handle = "dropped"]
    <3>1. xfer' = [xfer EXCEPT ![g] = x] /\ xfer[g].handle = "held"
      BY <2>1 DEF DropArmed
    <3>2. x \in XferType
      BY <1>0 DEF XferType
    <3> QED BY <1>0, <3>1, <3>2 DEF XferType
  <2>2. CASE TakeReliable(g)
    <3> DEFINE t == xfer[g].taken + 1
               x == [xfer[g] EXCEPT !.taken = t]
    <3>1. xfer' = [xfer EXCEPT ![g] = x]
      BY <2>2 DEF TakeReliable
    <3>2. t \in 0 .. NumFrames
      BY <1>0, <2>2 DEF TakeReliable, XferType
    <3> HIDE DEF t
    <3>3. x \in XferType
      BY <1>0, <3>2 DEF XferType
    <3> QED BY <1>0, <3>1, <3>3 DEF XferType
  <2>3. CASE HangUp(g)
    <3> DEFINE z == 0
               x == [xfer[g] EXCEPT !.listening = FALSE, !.taken = z]
    <3>1. xfer' = [xfer EXCEPT ![g] = x]
      BY <2>3 DEF HangUp
    <3>2. z \in 0 .. NumFrames
      BY <1>0
    <3> HIDE DEF z
    <3>3. x \in XferType
      BY <1>0, <3>2 DEF XferType
    <3> QED BY <1>0, <3>1, <3>3 DEF XferType
  <2> QED BY <2>1, <2>2, <2>3
<1>2. PICK x \in XferType :
        /\ xfer' = [xfer EXCEPT ![g] = x]
        /\ x.id = xfer[g].id /\ x.closed = xfer[g].closed /\ x.peer = xfer[g].peer
        /\ x.released = xfer[g].released /\ x.outcome = xfer[g].outcome
        /\ x.sent = xfer[g].sent /\ x.told = xfer[g].told
        /\ \/ x.handle = xfer[g].handle
           \/ xfer[g].handle = "held" /\ x.handle = "dropped"
  BY <1>1
<1>3. /\ xfer' \in [Arms -> XferType] /\ xfer'[g] = x
      /\ \A h \in Arms : h # g => xfer'[h] = xfer[h]
  BY <1>0, <1>2, TouchOne
<1>4. SameSlots
  BY <1>2, <1>3 DEF SameSlots, Armed
<1>5. SameChannels
  BY <1>0, <1>2, <1>3 DEF SameChannels, Applying
<1>6. RemovedRightly
  BY <1>0 DEF RemovedRightly
<1>7. TypeOK'
  BY <1>0, <1>3 DEF IndInv, TypeOK
<1>8. ReaderTrue'
  BY <1>0, <1>4 DEF IndInv, ReaderTrue, SameSlots
<1> QED BY <1>4, <1>5, <1>6, <1>7, <1>8, SlotsKept, ChannelsKept DEF IndInv

\* Removing an id takes out the latest request that had it.
LEMMA RemovalByIdIsReuse ==
    ASSUME IndInv, NEW h \in Arms, Armed(h), entries' = Without(xfer[h].id),
           \A k \in Arms : xfer'[k].id = xfer[k].id,
           xfer'[h].handle # "held" \/ xfer'[h].closed
    PROVE  RemovedRightly /\ entries' \in [Ids -> Arms \cup {None}]
<1> DEFINE id == xfer[h].id
<1>1. id \in Ids /\ entries \in [Ids -> Arms \cup {None}]
  BY DEF IndInv, ArmedInOrder, TypeOK
<1>2. /\ entries' \in [Ids -> Arms \cup {None}] /\ entries'[id] = None
      /\ \A i \in Ids : i # id => entries'[i] = entries[i]
  BY <1>1 DEF Without
<1> SUFFICES ASSUME NEW g \in Arms, entries[id] = g, g # h
             PROVE  \E older \in 1 .. (g - 1) : xfer[older].id = id
  BY <1>2 DEF RemovedRightly
<1>3. h <= g
  BY <1>1 DEF IndInv, SlotsTrue
<1>4. h \in 1 .. (g - 1)
  BY <1>3 DEF Arms
<1> QED BY <1>4

\* disarm, run by the task that drop spawned.
LEMMA RunDisarmKeeps ==
    ASSUME IndInv, NEW g \in Arms, RunDisarm(g)
    PROVE  IndInv'
<1> DEFINE x == [xfer[g] EXCEPT !.handle = "disarmed"]
<1>0. /\ xfer \in [Arms -> XferType] /\ xfer[g] \in XferType
      /\ xfer[g].handle = "dropped" /\ reader' = reader
      /\ xfer' = [xfer EXCEPT ![g] = x] /\ entries' = Without(xfer[g].id)
  BY DEF IndInv, TypeOK, RunDisarm
<1>1. /\ x \in XferType /\ x.id = xfer[g].id /\ x.handle = "disarmed"
      /\ x.closed = xfer[g].closed /\ x.peer = xfer[g].peer
      /\ x.released = xfer[g].released /\ x.outcome = xfer[g].outcome
      /\ x.sent = xfer[g].sent /\ x.told = xfer[g].told
  BY <1>0 DEF XferType
<1> HIDE DEF x
<1>2. /\ xfer' \in [Arms -> XferType] /\ xfer'[g] = x
      /\ \A h \in Arms : h # g => xfer'[h] = xfer[h]
  BY <1>0, <1>1, TouchOne
<1>3. SameSlots
  BY <1>0, <1>1, <1>2 DEF SameSlots, Armed
<1>4. SameChannels
  BY <1>0, <1>1, <1>2 DEF SameChannels, Applying
<1>5. RemovedRightly /\ entries' \in [Ids -> Arms \cup {None}]
  <2>1. Armed(g) /\ xfer'[g].handle # "held"
    BY <1>0, <1>1, <1>2 DEF Armed
  <2>2. \A k \in Arms : xfer'[k].id = xfer[k].id
    BY <1>3 DEF SameSlots
  <2> QED BY <1>0, <2>1, <2>2, RemovalByIdIsReuse
<1>6. TypeOK'
  BY <1>0, <1>2, <1>5 DEF IndInv, TypeOK
<1>7. ReaderTrue'
  BY <1>0, <1>3 DEF IndInv, ReaderTrue, SameSlots
<1> QED BY <1>3, <1>4, <1>5, <1>6, <1>7, SlotsKept, ChannelsKept DEF IndInv

-----------------------------------------------------------------------------
(***************************************************************************)
(* The reader.                                                             *)
(***************************************************************************)
\* What DualStream lets a transfer's outputs do in one step.
LEMMA StreamMoves ==
    ASSUME NEW g \in Arms, Stream(g)!Conclude
    PROVE  /\ xfer[g].outcome # None => /\ xfer'[g].outcome = xfer[g].outcome
                                        /\ xfer'[g].released = xfer[g].released
           /\ xfer[g].outcome = None => /\ xfer'[g].released \in xfer[g].released .. NumFrames
                                        /\ xfer'[g].outcome = "Complete" =>
                                              xfer'[g].released = NumFrames
           /\ xfer[g].closed => xfer'[g].closed
<1>1. Stream(g)!CacheMoves /\ Stream(g)!MayClose
  BY DEF Stream!Conclude
<1>2. xfer[g].closed => xfer'[g].closed
  BY <1>1 DEF Stream!MayClose
<1>3. CASE xfer[g].outcome # None
  BY <1>1, <1>2, <1>3 DEF Stream!CacheMoves
<1>4. CASE xfer[g].outcome = None
  <2>1. /\ xfer'[g].released \in xfer[g].released .. NumFrames
        /\ \/ xfer'[g].outcome \in {None, "Aborted"}
           \/ xfer'[g].outcome = "Complete" /\ xfer'[g].released = NumFrames
    BY <1>1, <1>4 DEF Stream!CacheMoves
  <2>2. None # "Complete"
    BY EndpointAssumption
  <2> QED BY <1>2, <1>4, <2>1, <2>2
<1> QED BY <1>3, <1>4

\* on_datagram: the entry is the tap's own, its frames are still to be sent.
LEMMA HandleKeeps ==
    ASSUME IndInv, NEW tap \in Arms, NEW g \in Arms,
           NEW from \in MayComeFrom[tap], Handle(tap, g, from)
    PROVE  IndInv'
<1>0. /\ xfer \in [Arms -> XferType] /\ xfer[g] \in XferType
      /\ reader.pc = "recv" /\ reader' = [pc |-> "apply", tap |-> g]
      /\ entries' = entries /\ Armed(g) /\ g = tap /\ Stream(g)!Conclude
  <2>1. xfer \in [Arms -> XferType]
    BY DEF IndInv, TypeOK
  <2>2. /\ reader.pc = "recv" /\ reader' = [pc |-> "apply", tap |-> g]
        /\ entries' = entries /\ Armed(tap) /\ g = tap /\ Stream(g)!Conclude
    BY ZenonT(40) DEF Handle, Routed
  <2> QED BY <2>1, <2>2
<1> DEFINE p == IF xfer[g].peer = None THEN from ELSE xfer[g].peer
           y == [xfer[g] EXCEPT !.peer = p]
<1>1. PICK r \in 0 .. NumFrames, o \in Outcomes, c \in BOOLEAN :
         xfer' = [xfer EXCEPT ![g] = [y EXCEPT !.released = r, !.outcome = o, !.closed = c]]
  BY <1>0 DEF Handle, Learned
<1>2. p \in Addrs \cup {None}
  BY <1>0, EndpointAssumption DEF XferType, Arms
<1> HIDE DEF p
<1>3. /\ y \in XferType /\ y.id = xfer[g].id /\ y.handle = xfer[g].handle
      /\ y.sent = xfer[g].sent /\ y.told = xfer[g].told
  BY <1>0, <1>2 DEF XferType
<1> DEFINE x == [y EXCEPT !.released = r, !.outcome = o, !.closed = c]
<1> HIDE DEF y
<1>4. /\ x \in XferType /\ x.id = xfer[g].id /\ x.handle = xfer[g].handle
      /\ x.closed = c /\ x.released = r /\ x.outcome = o
      /\ x.sent = xfer[g].sent /\ x.told = xfer[g].told
  BY <1>3 DEF XferType
<1> HIDE DEF x
<1>5. /\ xfer' \in [Arms -> XferType] /\ xfer'[g] = x
      /\ \A h \in Arms : h # g => xfer'[h] = xfer[h]
  BY <1>0, <1>1, <1>4, TouchOne DEF x
<1>6. /\ xfer[g].outcome # None => o = xfer[g].outcome /\ r = xfer[g].released
      /\ xfer[g].outcome = None => /\ r \in xfer[g].released .. NumFrames
                                   /\ o = "Complete" => r = NumFrames
      /\ xfer[g].closed => c
  BY <1>0, <1>4, <1>5, StreamMoves
<1>7. SameSlots /\ RemovedRightly
  BY <1>0, <1>4, <1>5, <1>6 DEF SameSlots, RemovedRightly, Armed
<1>8. TypeOK'
  BY <1>0, <1>5 DEF IndInv, TypeOK
<1>9. ReaderTrue'
  BY <1>0, <1>7 DEF ReaderTrue, SameSlots
<1>10. ChannelsTrue'
  <2>1. \A h \in Arms : h # g => ~Applying(h) /\ ~Applying(h)'
    BY <1>0 DEF Applying
  <2>2. /\ xfer[g].told = xfer[g].outcome /\ xfer[g].sent = xfer[g].released
        /\ xfer[g].outcome = "Complete" => xfer[g].released = NumFrames
    BY <1>0 DEF IndInv, ChannelsTrue, Applying
  <2>3. xfer[g].released \in Int /\ r \in Int
    BY <1>0 DEF XferType
  <2>4. Applying(g)'
    BY <1>0 DEF Applying
  <2>5. /\ xfer'[g].sent <= xfer'[g].released
        /\ xfer'[g].told # None => /\ xfer'[g].told = xfer'[g].outcome
                                   /\ xfer'[g].sent = xfer'[g].released
        /\ xfer'[g].outcome = "Complete" => xfer'[g].released = NumFrames
    BY <1>4, <1>5, <1>6, <2>2, <2>3
  <2> QED BY <1>5, <2>1, <2>4, <2>5 DEF IndInv, ChannelsTrue
<1> QED BY <1>7, <1>8, <1>9, <1>10, SlotsKept DEF IndInv

\* apply: one frame into the channel.
LEMMA ApplyReliableKeeps ==
    ASSUME IndInv, ApplyReliable
    PROVE  IndInv'
<1> DEFINE g == reader.tap
           n == xfer[g].sent + 1
           x == [xfer[g] EXCEPT !.sent = n]
<1>0. /\ xfer \in [Arms -> XferType] /\ g \in Arms /\ xfer[g] \in XferType
      /\ reader.pc = "apply" /\ xfer[g].sent < xfer[g].released
      /\ xfer' = [xfer EXCEPT ![g] = x]
      /\ entries' = entries /\ reader' = reader
  BY DEF IndInv, TypeOK, ReaderTrue, ApplyReliable
<1>1. xfer[g].sent \in Nat /\ xfer[g].released \in 0 .. NumFrames /\ NumFrames \in Nat
  BY <1>0, EndpointAssumption DEF XferType
<1>2. n \in 0 .. NumFrames /\ n <= xfer[g].released
  BY <1>0, <1>1
<1> HIDE DEF n, g
<1>3. /\ x \in XferType /\ x.id = xfer[g].id /\ x.handle = xfer[g].handle
      /\ x.closed = xfer[g].closed /\ x.peer = xfer[g].peer
      /\ x.released = xfer[g].released /\ x.outcome = xfer[g].outcome
      /\ x.sent = n /\ x.told = xfer[g].told
  BY <1>0, <1>2 DEF XferType
<1> HIDE DEF x
<1>4. /\ xfer' \in [Arms -> XferType] /\ xfer'[g] = x
      /\ \A h \in Arms : h # g => xfer'[h] = xfer[h]
  BY <1>0, <1>3, TouchOne
<1>5. SameSlots /\ RemovedRightly
  BY <1>0, <1>3, <1>4 DEF SameSlots, RemovedRightly, Armed
<1>6. TypeOK'
  BY <1>0, <1>4 DEF IndInv, TypeOK
<1>7. ReaderTrue'
  BY <1>0, <1>5 DEF IndInv, ReaderTrue, SameSlots
<1>8. ChannelsTrue'
  <2>1. \A h \in Arms : Applying(h)' <=> Applying(h)
    BY <1>0 DEF Applying
  <2>2. Applying(g) /\ xfer[g].told = None
    BY <1>0, <1>1 DEF IndInv, ChannelsTrue, Applying, g
  <2>3. ASSUME NEW h \in Arms, h # g
        PROVE  xfer'[h] = xfer[h] /\ ~Applying(h)'
    BY <1>0, <1>4, <2>1, <2>3 DEF Applying, g
  <2> QED BY <1>2, <1>3, <1>4, <2>1, <2>2, <2>3 DEF IndInv, ChannelsTrue
<1> QED BY <1>5, <1>6, <1>7, <1>8, SlotsKept DEF IndInv

\* The end of apply: every frame is in the channel, so the outcome may be told.
LEMMA ApplyDoneKeeps ==
    ASSUME IndInv, ApplyDone
    PROVE  IndInv'
<1> DEFINE g == reader.tap
           t == IF xfer[g].told = None THEN xfer[g].outcome ELSE xfer[g].told
           x == [xfer[g] EXCEPT !.told = t]
<1>0. /\ xfer \in [Arms -> XferType] /\ g \in Arms /\ xfer[g] \in XferType
      /\ reader.pc = "apply" /\ xfer[g].sent = xfer[g].released /\ Armed(g)
      /\ xfer' = [xfer EXCEPT ![g] = x] /\ entries' = entries
      /\ reader' = IF xfer[g].closed THEN [reader EXCEPT !.pc = "finished"] ELSE Idle
  BY DEF IndInv, TypeOK, ReaderTrue, ApplyDone, Told
<1>1. t = xfer[g].outcome
  BY <1>0 DEF IndInv, ChannelsTrue
<1> HIDE DEF g, t
<1>2. /\ x \in XferType /\ x.id = xfer[g].id /\ x.handle = xfer[g].handle
      /\ x.closed = xfer[g].closed /\ x.peer = xfer[g].peer
      /\ x.released = xfer[g].released /\ x.outcome = xfer[g].outcome
      /\ x.sent = xfer[g].released /\ x.told = xfer[g].outcome
  BY <1>0, <1>1 DEF XferType
<1> HIDE DEF x
<1>3. /\ xfer' \in [Arms -> XferType] /\ xfer'[g] = x
      /\ \A h \in Arms : h # g => xfer'[h] = xfer[h]
  BY <1>0, <1>2, TouchOne
<1>4. SameSlots /\ RemovedRightly
  BY <1>0, <1>2, <1>3 DEF SameSlots, RemovedRightly, Armed
<1>5. TypeOK' /\ reader'.pc # "apply"
             /\ (reader'.pc = "finished" => reader'.tap = g /\ xfer[g].closed)
  BY <1>0, <1>3 DEF IndInv, TypeOK, Idle, g
<1>6. ReaderTrue'
  BY <1>0, <1>4, <1>5 DEF TypeOK, ReaderTrue, SameSlots
<1>7. ChannelsTrue'
  <2>1. \A h \in Arms : ~Applying(h)' /\ (h # g => ~Applying(h))
    BY <1>0, <1>5 DEF Applying, g
  <2>2. xfer[g].released \in Int
    BY <1>0 DEF XferType
  <2>3. xfer[g].outcome = "Complete" => xfer[g].released = NumFrames
    BY <1>0 DEF IndInv, ChannelsTrue
  <2> QED BY <1>2, <1>3, <2>1, <2>2, <2>3 DEF IndInv, ChannelsTrue
<1> QED BY <1>4, <1>5, <1>6, <1>7, SlotsKept DEF IndInv

\* A finished transfer is disarmed by id, after the lock was let go.
LEMMA DisarmFinishedKeeps ==
    ASSUME IndInv, DisarmFinished
    PROVE  IndInv'
<1> DEFINE g == reader.tap
<1>0. /\ g \in Arms /\ Armed(g) /\ xfer[g].closed /\ reader.pc = "finished"
      /\ xfer' = xfer /\ entries' = Without(xfer[g].id) /\ reader' = Idle
  BY DEF IndInv, ReaderTrue, DisarmFinished
<1> HIDE DEF g
<1>1. SameSlots /\ SameChannels
  BY <1>0 DEF SameSlots, SameChannels, Armed, Applying, Idle
<1>2. RemovedRightly /\ entries' \in [Ids -> Arms \cup {None}]
  BY <1>0, RemovalByIdIsReuse
<1>3. TypeOK'
  BY <1>0, <1>2 DEF IndInv, TypeOK, Idle
<1>4. ReaderTrue'
  BY <1>0 DEF ReaderTrue, Idle
<1> QED BY <1>1, <1>2, <1>3, <1>4, SlotsKept, ChannelsKept DEF IndInv

-----------------------------------------------------------------------------
\* tick: nobody is applying events, so every frame is in its channel before
\* any outcome is told.
LEMMA TickKeeps ==
    ASSUME IndInv, Tick
    PROVE  IndInv'
<1>0. /\ xfer \in [Arms -> XferType] /\ entries \in [Ids -> Arms \cup {None}]
      /\ None \notin Arms /\ reader' = reader
      /\ \A h \in Arms : ~Applying(h) /\ ~Applying(h)'
  BY EndpointAssumption DEF IndInv, TypeOK, Tick, LockFree, Applying, Arms
<1>1. PICK o \in [Live -> Outcomes], c \in [Live -> BOOLEAN] :
         /\ xfer' = [g \in Arms |->
                IF g \notin Live THEN xfer[g]
                ELSE Told([xfer[g] EXCEPT !.outcome = o[g], !.closed = c[g]])]
         /\ \A g \in Live : Stream(g)!Conclude
         /\ entries' = [id \in Ids |->
                IF entries[id] \in Live /\ c[entries[id]] THEN None ELSE entries[id]]
  BY DEF Tick
<1>2. Live \subseteq Arms
  BY <1>0 DEF Live
<1>3. ASSUME NEW h \in Arms
      PROVE  /\ xfer'[h] \in XferType
             /\ xfer'[h].id = xfer[h].id /\ xfer'[h].handle = xfer[h].handle
             /\ xfer'[h].peer = xfer[h].peer /\ xfer'[h].released = xfer[h].released
             /\ xfer'[h].sent = xfer[h].sent
             /\ xfer[h].closed => xfer'[h].closed
             /\ h \in Live => xfer'[h].closed = c[h]
             /\ xfer'[h].told = xfer'[h].outcome
             /\ xfer'[h].outcome = "Complete" => xfer'[h].released = NumFrames
  <2>1. xfer[h] \in XferType
    BY <1>0, <1>3
  <2>2. /\ xfer[h].told = xfer[h].outcome
        /\ xfer[h].outcome = "Complete" => xfer[h].released = NumFrames
    BY <1>0, <1>3 DEF IndInv, ChannelsTrue
  <2>3. CASE h \notin Live
    BY <1>1, <2>1, <2>2, <2>3
  <2>4. CASE h \in Live
    <3>1. o[h] \in Outcomes /\ c[h] \in BOOLEAN
      BY <2>4
    <3> DEFINE e == [xfer[h] EXCEPT !.outcome = o[h], !.closed = c[h]]
               t == IF xfer[h].told = None THEN o[h] ELSE xfer[h].told
               x == [e EXCEPT !.told = t]
    <3>2. /\ e \in XferType /\ e.told = xfer[h].told /\ e.outcome = o[h]
          /\ e.closed = c[h] /\ e.id = xfer[h].id /\ e.handle = xfer[h].handle
          /\ e.peer = xfer[h].peer /\ e.released = xfer[h].released /\ e.sent = xfer[h].sent
      BY <2>1, <3>1 DEF XferType
    <3>3. xfer'[h] = x
      <4> HIDE DEF e
      <4>1. xfer'[h] = Told(e)
        BY <1>1, <2>4 DEF e
      <4> QED BY <3>2, <4>1 DEF Told
    <3>4. t \in Outcomes
      BY <2>1, <3>1 DEF XferType
    <3> HIDE DEF e, t
    <3>5. /\ x \in XferType /\ x.told = t /\ x.outcome = o[h] /\ x.closed = c[h]
          /\ x.id = xfer[h].id /\ x.handle = xfer[h].handle
          /\ x.peer = xfer[h].peer /\ x.released = xfer[h].released /\ x.sent = xfer[h].sent
      BY <3>2, <3>4, SMTT(30) DEF XferType
    <3> HIDE DEF x
    <3>6. /\ xfer[h].outcome # None => x.outcome = xfer[h].outcome
          /\ xfer[h].outcome = None => (x.outcome = "Complete" => x.released = NumFrames)
          /\ xfer[h].closed => x.closed
      <4>1. Stream(h)!Conclude
        BY <1>1, <2>4, Zenon
      <4>2. /\ xfer[h].outcome # None => /\ xfer'[h].outcome = xfer[h].outcome
                                         /\ xfer'[h].released = xfer[h].released
            /\ xfer[h].outcome = None => /\ xfer'[h].released \in xfer[h].released .. NumFrames
                                         /\ xfer'[h].outcome = "Complete" =>
                                               xfer'[h].released = NumFrames
            /\ xfer[h].closed => xfer'[h].closed
        BY <1>3, <4>1, StreamMoves, Zenon
      <4> QED BY <3>3, <4>2
    <3>7. t = o[h]
      BY <2>2, <3>5, <3>6, SMTT(30) DEF t
    <3> QED BY <2>2, <3>3, <3>5, <3>6, <3>7
  <2> QED BY <2>3, <2>4
<1>4. xfer' \in [Arms -> XferType]
  BY <1>1, <1>3
<1>5. SameSlots
  BY <1>3 DEF SameSlots, Armed
<1>6. RemovedRightly /\ entries' \in [Ids -> Arms \cup {None}]
  <2>1. ASSUME NEW id \in Ids, entries'[id] # entries[id]
        PROVE  entries'[id] = None /\ entries[id] \in Live /\ c[entries[id]]
    BY <1>1, <2>1
  <2>2. entries' \in [Ids -> Arms \cup {None}]
    BY <1>0, <1>1
  <2> QED BY <1>2, <1>3, <2>1, <2>2 DEF RemovedRightly
<1>7. TypeOK'
  BY <1>0, <1>4, <1>6 DEF IndInv, TypeOK
<1>8. ReaderTrue'
  BY <1>0, <1>5 DEF IndInv, ReaderTrue, SameSlots
<1>9. ChannelsTrue'
  <2>1. \A h \in Arms : xfer[h].sent = xfer[h].released /\ xfer[h].sent \in Int
    BY <1>0 DEF IndInv, ChannelsTrue, XferType
  <2> QED BY <1>0, <1>3, <2>1 DEF ChannelsTrue
<1> QED BY <1>5, <1>6, <1>7, <1>8, <1>9, SlotsKept DEF IndInv

-----------------------------------------------------------------------------
(***************************************************************************)
(* The specification.                                                      *)
(***************************************************************************)
\* Nothing is armed at first.
LEMMA NothingArmed == Init => IndInv
<1> SUFFICES ASSUME Init PROVE IndInv
  OBVIOUS
<1> DEFINE z == 0
<1>0. /\ None \notin Arms /\ NumFrames \in Nat /\ None \notin {"Complete", "Aborted"}
      /\ None \notin Ids
  BY EndpointAssumption DEF Arms
<1>1. Unarmed = [id |-> None, handle |-> "none", peer |-> None,
                 released |-> z, outcome |-> None, closed |-> FALSE,
                 sent |-> z, taken |-> z, told |-> None, listening |-> TRUE]
  BY DEF Unarmed
<1>2. z \in 0 .. NumFrames /\ z <= z /\ ~(z > 0)
  BY <1>0
<1> HIDE DEF z
<1>3. Unarmed \in XferType
  BY <1>1, <1>2 DEF XferType, Outcomes
<1>4. \A g \in Arms : xfer[g] = Unarmed
  BY DEF Init
<1>5. \A id \in Ids : entries[id] = None
  BY DEF Init
<1>6. TypeOK
  BY <1>3 DEF Init, TypeOK, Idle
<1>7. SlotsTrue /\ ReaderTrue
  BY <1>0, <1>5 DEF SlotsTrue, ReaderTrue, Init, Idle
<1>8. ArmedInOrder /\ SlotLostOnlyToReuse
  BY <1>1, <1>4 DEF ArmedInOrder, SlotLostOnlyToReuse, Armed
<1>9. ChannelsTrue
  BY <1>0, <1>1, <1>2, <1>4 DEF ChannelsTrue
<1> QED BY <1>6, <1>7, <1>8, <1>9 DEF IndInv

\* Whatever the reader, tick, owners, disarm tasks and consumers do and in
\* whichever order they get the lock, the invariant holds (receiver.rs of the
\* protofish4 crate as a whole).
THEOREM EndpointCorrect == Spec => []IndInv
<1>1. Init => IndInv
  BY NothingArmed
<1>2. IndInv /\ [Next]_vars => IndInv'
  <2> SUFFICES ASSUME IndInv, [Next]_vars PROVE IndInv'
    OBVIOUS
  <2>1. ASSUME NEW g \in Arms, Arm(g) PROVE IndInv'
    BY <2>1, ArmKeeps
  <2>2. ASSUME NEW g \in Arms, DropArmed(g) \/ TakeReliable(g) \/ HangUp(g) PROVE IndInv'
    BY <2>2, OwnersKeep
  <2>3. ASSUME NEW g \in Arms, RunDisarm(g) PROVE IndInv'
    BY <2>3, RunDisarmKeeps
  <2>4. ASSUME NEW tap \in Arms, NEW g \in Arms, NEW from \in MayComeFrom[tap],
               Handle(tap, g, from)
        PROVE  IndInv'
    BY <2>4, HandleKeeps
  <2>5. CASE UNCHANGED vars
    BY <2>5 DEF vars, IndInv, TypeOK, SlotsTrue, ArmedInOrder, ReaderTrue, ChannelsTrue,
                SlotLostOnlyToReuse, Armed, Applying, InTable
  <2>6. CASE Stray
    BY <2>5, <2>6 DEF Stray
  <2>7. CASE ApplyReliable
    BY <2>7, ApplyReliableKeeps
  <2>8. CASE ApplyDone
    BY <2>8, ApplyDoneKeeps
  <2>9. CASE DisarmFinished
    BY <2>9, DisarmFinishedKeeps
  <2>10. CASE Tick
    BY <2>10, TickKeeps
  <2> QED BY <2>1, <2>2, <2>3, <2>4, <2>5, <2>6, <2>7, <2>8, <2>9, <2>10 DEF Next
<1> QED BY <1>1, <1>2, PTL DEF Spec

\* The table, the reader and every request's channels keep their types.
THEOREM EndpointTypes == Spec => []TypeOK
<1>1. IndInv => TypeOK
  BY DEF IndInv
<1> QED BY <1>1, EndpointCorrect, PTL

\* No consumer hears the outcome before the last frame is in its channel, and
\* `Complete` comes with the whole track (apply and tick, under one lock).
THEOREM OutcomeComesLast == Spec => []OutcomeAfterFrames
<1>1. IndInv => OutcomeAfterFrames
  BY DEF IndInv, ChannelsTrue, OutcomeAfterFrames
<1> QED BY <1>1, EndpointCorrect, PTL

\* A transfer moves, and learns where to reply, only by a datagram its own key
\* opens, and the first such address is kept, however often its id was used
\* before and wherever datagrams come from (on_datagram).
THEOREM OnlyItsOwnTap == Spec => OnlyItsTapMovesIt
<1> DEFINE Moved(g)   == xfer'[g].released # xfer[g].released \/ xfer'[g].peer # xfer[g].peer
           OwnTap(g)  == /\ reader'.pc = "apply" /\ reader'.tap = g
                         /\ xfer[g].peer # None => xfer'[g].peer = xfer[g].peer
           OwnTapOnly == \A g \in Arms : Moved(g) => OwnTap(g)
<1>1. ASSUME IndInv, [Next]_vars PROVE OwnTapOnly \/ UNCHANGED vars
  <2>0. xfer \in [Arms -> XferType] /\ \A g \in Arms : xfer[g] \in XferType
    BY <1>1 DEF IndInv, TypeOK
  <2>1. ASSUME NEW g \in Arms, Arm(g) PROVE OwnTapOnly
    BY <2>0, <2>1 DEF Arm, XferType
  <2>2. ASSUME NEW g \in Arms, DropArmed(g) \/ TakeReliable(g) \/ HangUp(g) PROVE OwnTapOnly
    BY <2>0, <2>2 DEF DropArmed, TakeReliable, HangUp, XferType
  <2>3. ASSUME NEW g \in Arms, RunDisarm(g) PROVE OwnTapOnly
    BY <2>0, <2>3 DEF RunDisarm, XferType
  <2>4. ASSUME NEW tap \in Arms, NEW g \in Arms, NEW from \in MayComeFrom[tap],
               Handle(tap, g, from)
        PROVE  OwnTapOnly
    <3>1. g = tap /\ reader' = [pc |-> "apply", tap |-> tap]
      BY <2>4 DEF Handle, Routed
    <3> DEFINE y == Learned(xfer[g], from)
    <3>2. PICK r \in 0 .. NumFrames, o \in Outcomes, c \in BOOLEAN :
             xfer' = [xfer EXCEPT ![g] = [y EXCEPT !.released = r, !.outcome = o, !.closed = c]]
      BY <2>0, <2>4 DEF Handle
    <3>3. xfer'[g].peer = IF xfer[g].peer = None THEN from ELSE xfer[g].peer
      BY <2>0, <3>2 DEF Learned, XferType
    <3>4. \A h \in Arms : h # g => xfer'[h] = xfer[h]
      BY <2>0, <3>2
    <3> QED BY <3>1, <3>3, <3>4
  <2>5. CASE ApplyReliable
    BY <1>1, <2>0, <2>5 DEF ApplyReliable, XferType
  <2>6. CASE ApplyDone
    BY <1>1, <2>0, <2>6 DEF ApplyDone, Told, XferType
  <2>7. CASE Tick
    <3>1. PICK o \in [Live -> Outcomes], c \in [Live -> BOOLEAN] :
             xfer' = [g \in Arms |->
                 IF g \notin Live THEN xfer[g]
                 ELSE Told([xfer[g] EXCEPT !.outcome = o[g], !.closed = c[g]])]
      BY <2>7 DEF Tick
    <3> QED BY <2>0, <3>1 DEF Told, XferType
  <2>8. CASE DisarmFinished
    BY <2>8 DEF DisarmFinished
  <2>9. CASE Stray \/ UNCHANGED vars
    BY <2>9 DEF Stray, vars
  <2> QED BY <1>1, <2>1, <2>2, <2>3, <2>4, <2>5, <2>6, <2>7, <2>8, <2>9 DEF Next
<1>2. IndInv /\ [Next]_vars => [OwnTapOnly]_vars
  BY <1>1
<1> QED BY <1>2, EndpointCorrect, PTL DEF Spec, OnlyItsTapMovesIt

\* A slot is lost under its owner only to the disarm of an older request with
\* the same id (disarm, by id, after the lock was let go).
THEOREM SlotsAreLostToReuseOnly == Spec => []SlotLostOnlyToReuse
<1>1. IndInv => SlotLostOnlyToReuse
  BY DEF IndInv
<1> QED BY <1>1, EndpointCorrect, PTL
=============================================================================
