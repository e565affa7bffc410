----------------------------- MODULE MCTransfer -----------------------------
(***************************************************************************)
(* Small instances of Transfer: frames of one byte.                        *)
(***************************************************************************)
EXTENDS Transfer

MCOffset    == [s \in 0 .. NumFrames |-> s]
MCSealedLen == [s \in 1 .. NumFrames |-> 1]
MCBackoff   == <<0, 1>>
=============================================================================
