---------------------------- MODULE MCRegistrator ---------------------------
(* A small instance of Registrator for TLC: two handlers of equal priority,*)
(* one of a lower one and one below that of an invalid entry (the cursor). *)
EXTENDS Registrator, TLC

CONSTANTS level, hud, console, cursor

MCHandlers == {level, hud, console, cursor}
MCPrio == (level :> 3) @@ (hud :> 3) @@ (console :> 1) @@ (cursor :> -3)
=============================================================================
