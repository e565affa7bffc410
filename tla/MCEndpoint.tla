----------------------------- MODULE MCEndpoint -----------------------------
(***************************************************************************)
(* Two requests.  The second may have an id of its own, and be served at   *)
(* the same time, or reuse the first one's.  The first one's datagrams     *)
(* come from where the second's do, or from elsewhere.                     *)
(***************************************************************************)
EXTENDS Endpoint

MCIds         == {"a", "b"}
MCMayAsk      == <<{"a"}, {"a", "b"}>>
MCAddrs       == {"here", "there"}
MCMayComeFrom == <<{"here", "there"}, {"here"}>>
=============================================================================
