---------------------------- MODULE ReplayWindow ----------------------------
(***************************************************************************)
(* ReplayWindow (crypto.rs): which control counters were accepted, in a    *)
(* bitmap of Words words of WordBits bits below the highest.  A word is    *)
(* the set of its bits that are one.  Neither binding uses the window yet, *)
(* so accept is called here with any counter at any time.                  *)
(***************************************************************************)
EXTENDS Integers

CONSTANTS
    Words,       \* 16 in the code
    WordBits,    \* 64 in the code
    MaxCounter   \* bound: the largest counter put to the window

ASSUME WindowAssumption ==
    /\ Words \in Nat \ {0} /\ WordBits \in Nat \ {0} /\ MaxCounter \in Nat

VARIABLES window,    \* the ReplayWindow
          accepted   \* the counters it has accepted; not state of the code

windowVars == <<window, accepted>>

Width   == Words * WordBits
WordIdx == 0 .. (Words - 1)
Bit     == 0 .. (WordBits - 1)
Blank   == [i \in WordIdx |-> {}]

WindowNew == [highest |-> 0, seen |-> Blank, started |-> FALSE]

\* get and set
Get(seen, bit) == bit < Width /\ (bit % WordBits) \in seen[bit \div WordBits]
Set(seen, bit) ==
    IF bit >= Width THEN seen
    ELSE [seen EXCEPT ![bit \div WordBits] = @ \cup {bit % WordBits}]

\* shift_by moves whole words ...
ByWords(seen, words) ==
    [i \in WordIdx |-> IF i >= words THEN seen[i - words] ELSE {}]

\* A slip: what a shift pushes out of a word is dropped.
ByBitsNoCarry(seen, bits) ==
    [i \in WordIdx |-> {b \in Bit : (b - bits) \in seen[i]}]

\* ... then bits, what leaves a word entering the next.
ByBits(seen, bits) ==
    [i \in WordIdx |->
        {b \in Bit : \/ (b - bits) \in seen[i]
                     \/ i > 0 /\ b < bits /\ (b - bits + WordBits) \in seen[i - 1]}]

\* shift_by: a shift past the whole window clears it and is done.
ShiftBy(seen, shift) ==
    IF shift >= Width THEN Blank
    ELSE Set(ByBits(ByWords(seen, shift \div WordBits), shift % WordBits), shift - 1)

\* Fallen out of the window.
TooOld(back) == back > Width

Refuses(w, c) ==
    LET back == w.highest - c
    IN  /\ w.started /\ c <= w.highest
        /\ back > 0 /\ ~TooOld(back) => Get(w.seen, back - 1)

\* accept, once the counter is not refused.
Recorded(w, c) ==
    IF ~w.started THEN [w EXCEPT !.started = TRUE, !.highest = c]
    ELSE IF c > w.highest
    THEN [w EXCEPT !.seen = ShiftBy(@, c - w.highest), !.highest = c]
    ELSE [w EXCEPT !.seen = Set(@, w.highest - c - 1)]

WindowInit == window = WindowNew /\ accepted = {}

Accept(c) == /\ ~Refuses(window, c)
             /\ window' = Recorded(window, c)
             /\ accepted' = accepted \cup {c}

Refuse(c) == Refuses(window, c) /\ UNCHANGED windowVars

WindowNext == \E c \in 0 .. MaxCounter : Accept(c) \/ Refuse(c)

WindowSpec == WindowInit /\ [][WindowNext]_windowVars

-----------------------------------------------------------------------------
\* The counter at the very edge of the window, back = Width.
Edge == window.highest - Width

\* However counters jump, a verdict short of the edge is the history: a counter
\* is refused if and only if it was accepted before or has fallen out of the
\* window (accept, and shift_by across words, carries included).
VerdictIsHistory ==
    window.started =>
        \A c \in (0 .. MaxCounter) \ {Edge} :
            Refuses(window, c) <=> c \in accepted \/ c < Edge

\* No counter is accepted twice: "returning `Err` if it was already seen or has
\* fallen out of the window" (crypto.rs, accept).
NeverAcceptedTwice == \A c \in accepted : Refuses(window, c)
=============================================================================
