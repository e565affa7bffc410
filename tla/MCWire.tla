------------------------------- MODULE MCWire -------------------------------
(***************************************************************************)
(* The parts of crypto.rs one after the other: two ends that seal, and,    *)
(* once they have sealed all they may, a replay window that is put every   *)
(* counter.  They share no state, so no interleaving is missed.            *)
(***************************************************************************)
EXTENDS Wire, ReplayWindow

MCInit == Init /\ WindowInit
MCNext == \/ Next /\ UNCHANGED windowVars
          \/ ~ENABLED Next /\ WindowNext /\ UNCHANGED wireVars
MCSpec == MCInit /\ [][MCNext]_<<wireVars, windowVars>>
=============================================================================
