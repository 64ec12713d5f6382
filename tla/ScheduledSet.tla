---------------------------- MODULE ScheduledSet ----------------------------
(***************************************************************************)
(* What CSheduler promises to the objects of the game.  In an Update it    *)
(* calls objects one at a time, each at most once and only while it is     *)
(* registered and needs updates.  The game, which runs between two Updates *)
(* and inside a call, registers and unregisters with immediate effect; the *)
(* scheduler itself registers nothing, and drops only an object that needs *)
(* no updates.                                                             *)
(***************************************************************************)
CONSTANTS Objects, NULL

VARIABLES
    registered,   \* the objects the scheduler may call
    needed,       \* those that need updates, for the game to say
    updating,     \* an Update is under way
    running,      \* the object being called, or NULL
    served        \* those called in the current Update

ssvars == <<registered, needed, updating, running, served>>

Init == /\ registered = {} /\ needed = {} /\ served = {}
        /\ updating = FALSE /\ running = NULL

GameRuns == updating => running # NULL

Need(o)       == /\ GameRuns
                 /\ needed' \in {needed \cup {o}, needed \ {o}}
                 /\ UNCHANGED <<registered, updating, running, served>>

Register(o)   == /\ GameRuns
                 /\ o \in needed \ registered
                 /\ registered' = registered \cup {o}
                 /\ UNCHANGED <<needed, updating, running, served>>

Unregister(o) == /\ GameRuns
                 /\ registered' = registered \ {o}
                 /\ UNCHANGED <<needed, updating, running, served>>

Delete(o)     == /\ GameRuns
                 /\ registered' = registered \ {o} /\ needed' = needed \ {o}
                 /\ UNCHANGED <<updating, running, served>>

Begin         == /\ ~updating /\ updating' = TRUE
                 /\ served' = {}
                 /\ UNCHANGED <<registered, needed, running>>

Call(o)       == /\ updating /\ running = NULL
                 /\ o \in (registered \cap needed) \ served
                 /\ running' = o /\ served' = served \cup {o}
                 /\ UNCHANGED <<registered, needed, updating>>

Return        == /\ running # NULL /\ running' = NULL
                 /\ UNCHANGED <<registered, needed, updating, served>>

Drop(o)       == /\ updating /\ running = NULL
                 /\ o \in registered \ needed
                 /\ registered' = registered \ {o}
                 /\ UNCHANGED <<needed, updating, running, served>>

End           == /\ updating /\ running = NULL
                 /\ updating' = FALSE
                 /\ UNCHANGED <<registered, needed, running, served>>

Next == \/ Begin \/ Return \/ End
        \/ \E o \in Objects :
              \/ Need(o) \/ Register(o) \/ Unregister(o) \/ Delete(o)
              \/ Call(o) \/ Drop(o)

Spec == Init /\ [][Next]_ssvars
=============================================================================
