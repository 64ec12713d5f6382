---------------------------- MODULE MCThreadTeam ----------------------------
(* A small instance of ThreadTeam for TLC: three helpers, and calls that   *)
(* stay on the caller, share the particles evenly and leave a rest.        *)
EXTENDS ThreadTeam

MCCounts == {1, 255, 256, 301}
=============================================================================
