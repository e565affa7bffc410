--------------------------- MODULE MCXferReceiver ---------------------------
(***************************************************************************)
(* Small instances of XferReceiver.  Frame sizes differ so that the byte   *)
(* ceiling can be passed before the window is.                             *)
(***************************************************************************)
EXTENDS XferReceiver

\* Payload sizes 1, 2, 1, 1.
MCOffset == [s \in 0 .. NumFrames |-> IF s < 2 THEN s ELSE s + 1]

MCBackoff == <<1, 2>>
=============================================================================
