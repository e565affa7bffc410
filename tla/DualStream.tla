----------------------------- MODULE DualStream -----------------------------
(***************************************************************************)
(* What one transfer promises its owner, whatever the network does: two    *)
(* outputs of the same frames.  Playback gets every frame that lands, for  *)
(* as long as frames land; the cache gets a growing gap-free prefix until  *)
(* the reliable stream reaches its one outcome, `Complete` only if that    *)
(* prefix is the whole track.  No window, NACK, buffer or timer appears.   *)
(***************************************************************************)
EXTENDS Integers

CONSTANTS NumFrames,  \* the track is frames 1 .. NumFrames
          Plays,      \* whether there is a playback output
          None,       \* no outcome yet
          Reasons     \* the reasons an abort can give

VARIABLES landed,     \* frames that have arrived
          played,     \* frames given to playback
          released,   \* the cache has been given 1 .. released, in order
          outcome,    \* of the reliable stream
          closed      \* the transfer is over

dsVars == <<landed, played, released, outcome, closed>>

Init == /\ landed = {} /\ played = {} /\ released = 0
        /\ outcome = None /\ closed = FALSE

\* The cache side of a step: extend the prefix within what has landed, and
\* perhaps finish.  After the outcome it never moves again.
CacheMoves ==
    IF outcome # None THEN UNCHANGED <<released, outcome>>
    ELSE /\ released' \in released .. NumFrames
         /\ 1 .. released' \subseteq landed'
         /\ \/ outcome' \in {None} \cup Reasons
            \/ outcome' = "Complete" /\ released' = NumFrames

\* A transfer closes once, and not before its outcome is known.
MayClose == /\ closed' \in BOOLEAN
            /\ closed => closed'
            /\ closed' => outcome' # None

Land(s) == /\ landed' = landed \cup {s}
           /\ played' = IF Plays THEN played \cup {s} ELSE played
           /\ CacheMoves
           /\ MayClose

Conclude == /\ UNCHANGED <<landed, played>>
            /\ CacheMoves
            /\ MayClose

Next == (\E s \in 1 .. NumFrames : Land(s)) \/ Conclude

Spec == Init /\ [][Next]_dsVars
=============================================================================
