------------------------- MODULE MCSecondaryThread -------------------------
(* SecondaryThread on a small instance for TLC.                            *)
EXTENDS SecondaryThread
=============================================================================
