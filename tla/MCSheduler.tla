----------------------------- MODULE MCSheduler -----------------------------
(* Sheduler on small instances for TLC.                                    *)
EXTENDS Sheduler
=============================================================================
