------------------------------ MODULE MCPacing ------------------------------
(***************************************************************************)
(* A small instance of Pacing: frames of one byte.                         *)
(***************************************************************************)
EXTENDS Pacing

MCSealedLen == [s \in 1 .. NumFrames |-> 1]
=============================================================================
