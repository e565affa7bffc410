----------------------------- MODULE GapTracker -----------------------------
(***************************************************************************)
(* The arrival index of a transfer (xfer/gap_tracker.rs): a contiguous     *)
(* prefix of sequence numbers, the set of arrivals above it, and the       *)
(* highest arrival.  Sequence numbers start at 1; 0 means "nothing yet".   *)
(* Every operator maps a tracker value to a result or to the next value,   *)
(* as the methods of the Rust type do.                                     *)
(***************************************************************************)
EXTENDS Integers, FiniteSets

\* A tracker that has seen nothing.
GapTrackerNew == [contiguous |-> 0, ahead |-> {}, highest |-> 0]

(***************************************************************************)
(* How far a prefix ending at c extends through S without passing hi: the  *)
(* place where a loop "while S holds c + 1, advance c" stops.              *)
(***************************************************************************)
PrefixEnd(c, hi, S) ==
    CHOOSE p \in c .. hi : /\ (c + 1) .. p \subseteq S
                           /\ p = hi \/ (p + 1) \notin S

\* What `record` answers: neither below the prefix nor already above it.
Fresh(g, s) == s > g.contiguous /\ s \notin g.ahead

\* `record`: index a fresh arrival and advance the prefix as far as it goes.
Record(g, s) ==
    LET seen == g.ahead \cup {s}
        top  == IF s > g.highest THEN s ELSE g.highest
        p    == PrefixEnd(g.contiguous, top, seen)
    IN  IF Fresh(g, s)
        THEN [contiguous |-> p, ahead |-> seen \ (1 .. p), highest |-> top]
        ELSE g

\* A slip: the highest arrival taken for the prefix.
IsCompleteByHighest(g, finalSeq) == g.highest >= finalSeq

\* `is_complete`
IsComplete(g, finalSeq) == g.contiguous >= finalSeq

\* A slip: counting from the prefix itself.
GapsOffByOne(g) ==
    {s \in (IF g.contiguous = 0 THEN 1 ELSE g.contiguous) .. g.highest :
        s \notin g.ahead /\ \E h \in g.ahead : s < h}

\* Every gap: above the prefix, not arrived, below some arrival.
Gaps(g) ==
    {s \in (g.contiguous + 1) .. g.highest :
        s \notin g.ahead /\ \E h \in g.ahead : s < h}

\* `missing(limit)`: the lowest `limit` gaps.
Missing(g, limit) ==
    {s \in Gaps(g) : Cardinality({t \in Gaps(g) : t <= s}) <= limit}

\* `window_span`: highest.saturating_sub(contiguous)
WindowSpan(g) ==
    IF g.highest > g.contiguous THEN g.highest - g.contiguous ELSE 0

\* A slip: the prefix jumps over frames that never arrived.
AbandonJumping(g) == [g EXCEPT !.ahead = {}, !.contiguous = g.highest]

\* `abandon`: only the set above the prefix is dropped.
Abandon(g) == [g EXCEPT !.ahead = {}]
=============================================================================
