---------------------------- MODULE MCXferSender ----------------------------
(***************************************************************************)
(* A small instance of XferSender.  The sizes make the third datagram      *)
(* evict for the frame budget, and the fourth evict several at once and    *)
(* then itself, being larger than the whole ring.                          *)
(***************************************************************************)
EXTENDS XferSender

\* Datagram sizes 1, 1, 2, 4, ...
MCSealedLen == [s \in 1 .. MaxFrames |-> IF s = 1 THEN 1 ELSE 2 ^ (s - 2)]
=============================================================================
