----------------------------- MODULE ObjectList -----------------------------
(***************************************************************************)
(* CObjectList and the part of CObject it works with (xrEngine/            *)
(* xr_object_list.cpp, xr_object.cpp): the life of a game object of a      *)
(* level, from g_sv_Spawn over the per-frame UpdateCL to the destroy queue.*)
(*                                                                         *)
(* An object that is near, visible or just changed makes itself a "crow":  *)
(* it sets its flag and enters a list, and the next Update calls UpdateCL  *)
(* of the listed objects, parents before children.  There is a list for    *)
(* the primary thread and one for the others.  Objects marked for          *)
(* destruction wait in destroy_queue until the end of Update.              *)
(*                                                                         *)
(* The secondary thread runs beside rendering only (SecondaryThread).      *)
(* Then both threads call MakeMeCrow, of the same object too: one access   *)
(* to shared state is a step there.  At all other times one thread runs    *)
(* and a call is a step.                                                   *)
(*                                                                         *)
(* An object is an address: a destroyed one may be created again.          *)
(***************************************************************************)
EXTENDS Integers, Sequences, FiniteSets, SequencesExt, FiniteSetsExt

CONSTANTS
    Objects,      \* addresses of game objects
    Ids,          \* network ids; 0 is the id of an object without one
    NULL,         \* no object
    MaxCounter,   \* bound: nested processing_activate calls (255 in the code)
    MaxOps        \* bound: game calls and events other than MakeMeCrow

ASSUME IdsAssumption     == Ids \subseteq Nat /\ 0 \in Ids
ASSUME ObjectsAssumption == IsFiniteSet(Objects) /\ NULL \notin Objects
ASSUME BoundsAssumption  == MaxCounter \in Nat \ {0} /\ MaxOps \in Nat

VARIABLES
    objects_active, objects_sleeping,
    bActiveCounter,   \* CObject::Props
    crow,             \* objects whose Props.crow is set
    bDestroy,         \* objects marked for destruction
    Parent, net_ID,
    inRuck,           \* owned items carried in the rucksack
    m_crows,          \* the crow lists: 0 primary thread, 1 the others
    asCrow,           \* objects whose dwFrame_AsCrow is this frame
    updated,          \* objects whose dwFrame_UpdateCL is this frame
    destroy_queue, map_NETID,
    paused,           \* Device.Paused()
    moving,           \* fTimeDelta > EPS_S: the frame has a time step
    rsDisableObjectsAsCrows,  \* multiplayer: every active object is updated
    pc,               \* where the primary thread stands
    objects,          \* the rest of the loop over Update's copy of the list
    calls,            \* calls of SingleUpdate that wait for their UpdateCL
    running,          \* the object SingleUpdate is at, being updated or spawned
    it, next,         \* index of the destroy loop, and what follows it
    spawnId,          \* the id being spawned
    dropped,          \* history: objects whose list was cleared by Destroy
    making,           \* the object of a thread's MakeMeCrow beside rendering
    at,               \* what that call does next
    ops               \* game calls and events so far, up to MaxOps

lists == <<objects_active, objects_sleeping, bActiveCounter>>
crows == <<crow, m_crows, asCrow>>
links == <<Parent, inRuck, net_ID, map_NETID>>
queue == <<bDestroy, destroy_queue>>
flags == <<paused, moving, rsDisableObjectsAsCrows>>
loop  == <<objects, calls, it, next>>
mt    == <<making, at>>
vars  == <<lists, crows, links, queue, flags, mt, loop, pc, updated, running,
           spawnId, dropped, ops>>

exists == objects_active \cup objects_sleeping
processing_enabled(o) == bActiveCounter[o] # 0

TypeOK ==
    /\ objects_active \subseteq Objects /\ objects_sleeping \subseteq Objects
    /\ bActiveCounter \in [Objects -> 0 .. MaxCounter]
    /\ crow \cup bDestroy \cup dropped \cup inRuck \subseteq exists
    /\ asCrow \cup updated \subseteq Objects
    /\ Parent \in [Objects -> Objects \cup {NULL}]
    /\ net_ID \in [Objects -> Ids]
    /\ m_crows \in [{0, 1} -> Seq(Objects)]
    /\ {destroy_queue, objects, calls} \subseteq Seq(Objects)
    /\ map_NETID \in [Ids -> Objects \cup {NULL}]
    /\ {paused, moving, rsDisableObjectsAsCrows} \subseteq BOOLEAN
    /\ pc \in {"early", "create", "spawn", "binder", "update", "climb",
               "updateCL", "destroy", "late", "render"}
    /\ making \in [{0, 1} -> exists \cup {NULL}]
    /\ at \in [{0, 1} -> {"idle", "test", "enabled", "exchange", "flag",
                          "list"}]
    /\ running \in Objects \cup {NULL}
    /\ it \in 0 .. Len(destroy_queue) /\ next \in {"create", "late"}
    /\ spawnId \in Ids
    /\ ops \in 0 .. MaxOps

Init ==
    /\ objects_active = {} /\ objects_sleeping = {}
    /\ bActiveCounter = [o \in Objects |-> 0]
    /\ crow = {} /\ bDestroy = {} /\ dropped = {} /\ inRuck = {}
    /\ asCrow = {} /\ updated = {}
    /\ Parent = [o \in Objects |-> NULL]
    /\ net_ID = [o \in Objects |-> 0]
    /\ m_crows = [t \in {0, 1} |-> <<>>]
    /\ destroy_queue = <<>> /\ objects = <<>> /\ calls = <<>>
    /\ map_NETID = [i \in Ids |-> NULL]
    /\ paused = FALSE /\ moving = TRUE
    /\ rsDisableObjectsAsCrows \in BOOLEAN
    /\ pc = "early" /\ running = NULL
    /\ making = [t \in {0, 1} |-> NULL] /\ at = [t \in {0, 1} |-> "idle"]
    /\ it = 0 /\ next = "late" /\ spawnId = 0
    /\ ops = 0

-----------------------------------------------------------------------------
(* CObject: crows, activity, the mark.                                     *)

(* MakeMeCrow of an object that is enabled or not, when one thread runs:   *)
(* not twice in a frame and not while it is on a list.                     *)
MakeMeCrow(o, enabled) ==
    LET try == o \notin crow /\ enabled
    IN  /\ asCrow' = IF try THEN asCrow \cup {o} ELSE asCrow
        /\ IF try /\ o \notin asCrow
           THEN /\ crow' = crow \cup {o}
                /\ m_crows' = [m_crows EXCEPT ![0] = Append(@, o)]
           ELSE UNCHANGED <<crow, m_crows>>

(* Mutated form: the count is not checked against its limit.              *)
Activate_NoLimit(o) ==
    /\ bActiveCounter' = [bActiveCounter EXCEPT ![o] = @ + 1]
    /\ objects_sleeping' = objects_sleeping \ {o}
    /\ objects_active' = objects_active \cup {o}

(* processing_activate and o_activate; the crow is made by the caller.     *)
Activate(o) ==
    /\ bActiveCounter[o] < MaxCounter
    /\ bActiveCounter' = [bActiveCounter EXCEPT ![o] = @ + 1]
    /\ objects_sleeping' = objects_sleeping \ {o}
    /\ objects_active' = objects_active \cup {o}

ProcessingActivate(o) ==
    /\ Activate(o)
    /\ IF processing_enabled(o) THEN UNCHANGED crows ELSE MakeMeCrow(o, TRUE)

(* Mutated form: the object stays active.                                  *)
ProcessingDeactivate_NoSleep(o) ==
    /\ bActiveCounter[o] > 0
    /\ bActiveCounter' = [bActiveCounter EXCEPT ![o] = @ - 1]
    /\ UNCHANGED <<objects_active, objects_sleeping>>

(* processing_deactivate and o_sleep, where MakeMeCrow finds the object    *)
(* disabled.  Callers keep the calls balanced (VERIFY3).                   *)
ProcessingDeactivate(o) ==
    /\ bActiveCounter[o] > 0
    /\ bActiveCounter' = [bActiveCounter EXCEPT ![o] = @ - 1]
    /\ IF bActiveCounter[o] = 1
       THEN /\ objects_active' = objects_active \ {o}
            /\ objects_sleeping' = objects_sleeping \cup {o}
       ELSE UNCHANGED <<objects_active, objects_sleeping>>

(* The objects o holds, and what they hold: the least set that contains    *)
(* its children and theirs.                                                *)
Below(o) ==
    {x \in exists : \A C \in SUBSET exists :
        (\A y \in exists : Parent[y] \in C \cup {o} => y \in C) => x \in C}

(* setDestroy(TRUE) and register_object_to_destroy mark the object and,    *)
(* depth first, the children not yet marked: any order of the siblings,    *)
(* every one behind its parent.                                            *)
Cascade(o) ==
    LET S == {o} \cup (Below(o) \ bDestroy)
    IN  {s \in SetToSeqs(S) : \A j \in 1 .. Len(s) :
            s[j] = o \/ \E k \in 1 .. j - 1 : s[k] = Parent[s[j]]}

(* Mutated form: the children are queued in front of their parent.         *)
SetDestroy_ChildrenFirst(o) ==
    IF o \in bDestroy THEN UNCHANGED queue
    ELSE \E s \in Cascade(o) :
            /\ bDestroy' = bDestroy \cup ToSet(s)
            /\ destroy_queue' = destroy_queue \o Reverse(s)

SetDestroy(o) ==
    IF o \in bDestroy THEN UNCHANGED queue
    ELSE \E s \in Cascade(o) :
            /\ bDestroy' = bDestroy \cup ToSet(s)
            /\ destroy_queue' = destroy_queue \o s

(* Mutated form: a destroyed object stays on the crow lists.               *)
DestroyObject_KeepsCrow(o, id) ==
    /\ map_NETID' = [map_NETID EXCEPT ![id] = NULL]
    /\ UNCHANGED m_crows
    /\ dropped' = dropped \ {o}
    /\ objects_active' = objects_active \ {o}
    /\ objects_sleeping' = objects_sleeping \ {o}
    /\ crow' = crow \ {o} /\ bDestroy' = bDestroy \ {o}
    /\ asCrow' = asCrow \ {o} /\ updated' = updated \ {o}
    /\ bActiveCounter' = [bActiveCounter EXCEPT ![o] = 0]
    /\ Parent' = [Parent EXCEPT ![o] = NULL] /\ inRuck' = inRuck \ {o}
    /\ net_ID' = [net_ID EXCEPT ![o] = 0]

(* net_Destroy and Destroy: whatever the id the object has names is        *)
(* unregistered, and unless the game is paused the whole list of the other *)
(* threads is cleared, of objects whose flag stays set.                    *)
DestroyObject(o, id) ==
    /\ map_NETID' = [map_NETID EXCEPT ![id] = NULL]
    /\ m_crows' = [t \in {0, 1} |-> IF t = 1 /\ ~paused THEN <<>>
                                    ELSE RemoveFirst(m_crows[t], o)]
    /\ dropped' =
          (IF paused THEN dropped ELSE dropped \cup ToSet(m_crows[1])) \ {o}
    /\ objects_active' = objects_active \ {o}
    /\ objects_sleeping' = objects_sleeping \ {o}
    /\ crow' = crow \ {o} /\ bDestroy' = bDestroy \ {o}
    /\ asCrow' = asCrow \ {o} /\ updated' = updated \ {o}
    /\ bActiveCounter' = [bActiveCounter EXCEPT ![o] = 0]
    /\ Parent' = [Parent EXCEPT ![o] = NULL] /\ inRuck' = inRuck \ {o}
    /\ net_ID' = [net_ID EXCEPT ![o] = 0]

-----------------------------------------------------------------------------
(* What game code does to objects: in events and scheduled updates before  *)
(* Update, inside an UpdateCL, and after Update.                           *)

Counted == ops < MaxOps /\ ops' = ops + 1
InGame  == pc \in {"early", "updateCL", "late"}

(* shedule_Update, UpdateCL of an object near the camera, and scripts.     *)
Crow(o) ==
    /\ InGame /\ o \in exists
    /\ MakeMeCrow(o, processing_enabled(o))
    /\ UNCHANGED <<lists, links, queue, flags, mt, loop, pc, updated, running,
                   spawnId, dropped, ops>>

GameActivate(o) ==
    /\ Counted /\ InGame /\ o \in exists
    /\ ProcessingActivate(o)
    /\ UNCHANGED <<links, queue, flags, mt, loop, pc, updated, running,
                   spawnId, dropped>>

GameDeactivate(o) ==
    /\ Counted /\ InGame /\ o \in exists
    /\ ProcessingDeactivate(o)
    /\ UNCHANGED <<crows, links, queue, flags, mt, loop, pc, updated, running,
                   spawnId, dropped>>

-----------------------------------------------------------------------------
(* Beside rendering: the primary thread is thread 0, the secondary 1.      *)

CallMakeMeCrow(t, o) ==
    making' = [making EXCEPT ![t] = o] /\ at' = [at EXCEPT ![t] = "test"]

(* renderable_Render of an object in view.                                 *)
RenderCrow(o) ==
    /\ pc = "render" /\ at[0] = "idle" /\ o \in exists
    /\ CallMakeMeCrow(0, o)
    /\ UNCHANGED <<lists, crows, links, queue, flags, loop, pc, updated,
                   running, spawnId, dropped, ops>>

(* The call of thread t goes on, or returns.                               *)
GoOn(t, from, to) ==
    /\ at[t] = from /\ at' = [at EXCEPT ![t] = to]
    /\ making' = [making EXCEPT ![t] = IF to = "idle" THEN NULL ELSE @]
    /\ UNCHANGED <<lists, links, queue, flags, loop, pc, updated, running,
                   spawnId, dropped, ops>>

(* Not while the object is on a list, and not while it is disabled.        *)
CrowTest(t) ==
    /\ GoOn(t, "test", IF making[t] \in crow THEN "idle" ELSE "enabled")
    /\ UNCHANGED crows

CrowEnabled(t) ==
    /\ GoOn(t, "enabled",
            IF processing_enabled(making[t]) THEN "exchange" ELSE "idle")
    /\ UNCHANGED crows

(* Mutated form: what the exchange returned is not looked at.              *)
CrowExchange_NotCompared(t) ==
    /\ GoOn(t, "exchange", "flag")
    /\ asCrow' = asCrow \cup {making[t]}
    /\ UNCHANGED <<crow, m_crows>>

(* _InterlockedCompareExchange of the frame: the one who finds another     *)
(* frame there makes the crow.                                             *)
CrowExchange(t) ==
    /\ GoOn(t, "exchange", IF making[t] \in asCrow THEN "idle" ELSE "flag")
    /\ asCrow' = asCrow \cup {making[t]}
    /\ UNCHANGED <<crow, m_crows>>

CrowFlag(t) ==
    /\ GoOn(t, "flag", "list")
    /\ crow' = crow \cup {making[t]}
    /\ UNCHANGED <<m_crows, asCrow>>

(* o_crow, on the list of the thread.                                      *)
CrowList(t) ==
    /\ GoOn(t, "list", "idle")
    /\ m_crows' = [m_crows EXCEPT ![t] = Append(@, making[t])]
    /\ asCrow' = asCrow \cup {making[t]}
    /\ UNCHANGED crow

CrowStep(t) ==
    \/ CrowTest(t) \/ CrowEnabled(t) \/ CrowExchange(t)
    \/ CrowFlag(t) \/ CrowList(t)

(* update_object_handler of a stalker on the secondary thread takes an     *)
(* item out of the rucksack into its slot (CObjectActionShow) ...          *)
MtSlot(o) ==
    /\ Counted /\ pc = "render" /\ at[1] = "idle" /\ o \in inRuck
    /\ inRuck' = inRuck \ {o}
    /\ Activate(o)
    /\ IF processing_enabled(o) THEN UNCHANGED mt ELSE CallMakeMeCrow(1, o)
    /\ UNCHANGED <<crows, Parent, net_ID, map_NETID, queue, flags, loop, pc,
                   updated, running, spawnId, dropped>>

(* ... and puts the one it replaces into the rucksack.                     *)
MtRuck(o) ==
    /\ Counted /\ pc = "render" /\ at[1] = "idle"
    /\ o \in exists \ inRuck /\ Parent[o] # NULL
    /\ inRuck' = inRuck \cup {o}
    /\ ProcessingDeactivate(o)
    /\ UNCHANGED <<crows, Parent, net_ID, map_NETID, queue, flags, mt, loop,
                   pc, updated, running, spawnId, dropped>>

(* H_SetParent and CInventory::Take of a processed item: a crow first, and *)
(* in the rucksack it stops processing; a slot adds to its count what Take *)
(* then subtracts.                                                         *)
TakeItem(p, c, ruck) ==
    /\ Parent' = [Parent EXCEPT ![c] = p]
    /\ MakeMeCrow(c, TRUE)
    /\ processing_enabled(c)
    /\ IF ruck THEN ProcessingDeactivate(c) /\ inRuck' = inRuck \cup {c}
               ELSE UNCHANGED <<lists, inRuck>>

(* GE_OWNERSHIP_TAKE, which the server sends for objects it still has.     *)
Take(p, c, ruck) ==
    /\ Counted /\ pc = "early"
    /\ {p, c} \subseteq exists \ bDestroy
    /\ Parent[c] = NULL /\ p \notin Below(c) \cup {c}
    /\ TakeItem(p, c, ruck)
    /\ UNCHANGED <<net_ID, map_NETID, queue, flags, mt, loop, pc, updated,
                   running, spawnId, dropped>>

(* CInventory::DropItem: an item of the rucksack is activated, one of a    *)
(* slot both ways, and H_SetParent makes it a crow.                        *)
DropItem(c) ==
    /\ Parent' = [Parent EXCEPT ![c] = NULL]
    /\ inRuck' = inRuck \ {c}
    /\ IF c \in inRuck THEN Activate(c)
       ELSE processing_enabled(c) /\ UNCHANGED lists
    /\ MakeMeCrow(c, TRUE)

(* GE_OWNERSHIP_REJECT.                                                    *)
Reject(c) ==
    /\ Counted /\ pc = "early" /\ c \in exists /\ Parent[c] # NULL
    /\ DropItem(c)
    /\ UNCHANGED <<net_ID, map_NETID, queue, flags, mt, loop, pc, updated,
                   running, spawnId, dropped>>

(* GE_DESTROY: an object that has a parent ignores it.                     *)
DestroyEvent(o) ==
    /\ Counted /\ pc = "early" /\ o \in exists /\ Parent[o] = NULL
    /\ SetDestroy(o)
    /\ UNCHANGED <<lists, crows, links, flags, mt, loop, pc, updated, running,
                   spawnId, dropped>>

(* GE_DESTROY_REJECT: GE_OWNERSHIP_REJECT and GE_DESTROY in one event.     *)
DestroyReject(c) ==
    /\ Counted /\ pc = "early" /\ c \in exists /\ Parent[c] # NULL
    /\ DropItem(c)
    /\ SetDestroy(c)
    /\ UNCHANGED <<net_ID, map_NETID, flags, mt, loop, pc, updated, running,
                   spawnId, dropped>>

(* Pause takes effect at once; the end of a pause also gives the current   *)
(* frame a time step of 2 * EPS_S.                                         *)
SetPause ==
    /\ Counted /\ InGame
    /\ paused' = ~paused
    /\ moving' = (paused \/ moving)
    /\ UNCHANGED <<lists, crows, links, queue, rsDisableObjectsAsCrows, mt,
                   loop, pc, updated, running, spawnId, dropped>>

-----------------------------------------------------------------------------
(* CLevel::g_sv_Spawn.                                                     *)

(* An object of that id which is marked has the queue processed first.     *)
BeginSpawn(i) ==
    /\ Counted /\ pc = "early" /\ exists # Objects
    /\ spawnId' = i
    /\ IF map_NETID[i] \in bDestroy
       THEN pc' = "destroy" /\ it' = Len(destroy_queue) /\ next' = "create"
       ELSE pc' = "create" /\ UNCHANGED <<it, next>>
    /\ UNCHANGED <<lists, crows, links, queue, flags, mt, objects, calls,
                   updated, running, dropped>>

(* CObjectList::Create; dwFrame_UpdateCL of a new object is not set.       *)
Create(o) ==
    /\ pc = "create" /\ o \notin exists
    /\ objects_sleeping' = objects_sleeping \cup {o}
    /\ updated' \in {updated, updated \cup {o}}
    /\ running' = o /\ pc' = "spawn"
    /\ UNCHANGED <<objects_active, bActiveCounter, crows, links, queue, flags,
                   mt, loop, spawnId, dropped, ops>>

EndSpawn == pc' = "early" /\ running' = NULL /\ spawnId' = 0

(* net_Spawn finds the id in use before it sets the object's own.          *)
SpawnRejected ==
    /\ pc = "spawn" /\ map_NETID[spawnId] # NULL
    /\ DestroyObject(running, 0)
    /\ EndSpawn
    /\ UNCHANGED <<destroy_queue, flags, mt, loop, ops>>

(* Mutated form: an id in use is taken over.                               *)
NetSpawn_AnyId ==
    LET o == running IN
    /\ pc = "spawn" /\ pc' = "binder"
    /\ net_ID' = [net_ID EXCEPT ![o] = spawnId]
    /\ map_NETID' = [map_NETID EXCEPT ![spawnId] = o]
    /\ Activate(o)
    /\ MakeMeCrow(o, TRUE)
    /\ UNCHANGED <<Parent, inRuck, queue, flags, mt, loop, updated, running,
                   spawnId, dropped, ops>>

(* net_Spawn: the object is registered, activated and a crow before the    *)
(* script binder is asked.                                                 *)
NetSpawn ==
    LET o == running IN
    /\ pc = "spawn" /\ map_NETID[spawnId] = NULL /\ pc' = "binder"
    /\ net_ID' = [net_ID EXCEPT ![o] = spawnId]
    /\ map_NETID' = [map_NETID EXCEPT ![spawnId] = o]
    /\ Activate(o)
    /\ MakeMeCrow(o, TRUE)
    /\ UNCHANGED <<Parent, inRuck, queue, flags, mt, loop, updated, running,
                   spawnId, dropped, ops>>

(* The binder refuses the object: all of that is undone.                   *)
SpawnFails ==
    /\ pc = "binder"
    /\ DestroyObject(running, net_ID[running])
    /\ EndSpawn
    /\ UNCHANGED <<destroy_queue, flags, mt, loop, ops>>

(* Or takes it, and GE_OWNERSHIP_TAKE follows when the object has a        *)
(* parent, into a slot or the rucksack of p.                               *)
SpawnSucceeds(p, ruck) ==
    /\ pc = "binder"
    /\ p \in {NULL} \cup (exists \ (bDestroy \cup {running}))
    /\ ruck => p # NULL
    /\ IF p = NULL THEN UNCHANGED <<lists, crows, Parent, inRuck>>
                   ELSE TakeItem(p, running, ruck)
    /\ EndSpawn
    /\ UNCHANGED <<net_ID, map_NETID, queue, flags, mt, loop, updated, dropped,
                   ops>>

-----------------------------------------------------------------------------
(* CObjectList::Update.                                                    *)

(* Mutated form: a paused game skips the destroy queue as well.            *)
BeginUpdate_PausedSkipsAll ==
    /\ pc = "early"
    /\ IF paused \/ ~moving
       THEN /\ pc' = IF paused THEN "late" ELSE "destroy"
            /\ it' = Len(destroy_queue)
            /\ UNCHANGED <<crow, m_crows, asCrow, objects, dropped>>
       ELSE LET all == m_crows[0] \o m_crows[1] IN
            \E workload \in IF rsDisableObjectsAsCrows
                            THEN SetToSeqs(objects_active) ELSE {all} :
                /\ objects' = workload
                /\ m_crows' = [t \in {0, 1} |-> <<>>]
                /\ crow' = crow \ ToSet(all \o workload)
                /\ asCrow' = asCrow \ ToSet(workload)
                /\ dropped' = dropped \ ToSet(workload)
                /\ pc' = "update" /\ UNCHANGED it
    /\ next' = "late"
    /\ UNCHANGED <<lists, links, queue, flags, mt, calls, updated, running,
                   spawnId, ops>>

(* The crows of both lists, or all active objects, are copied and no       *)
(* longer crows when the first of them is updated.                         *)
BeginUpdate ==
    /\ pc = "early"
    /\ IF paused \/ ~moving
       THEN /\ pc' = "destroy" /\ it' = Len(destroy_queue)
            /\ UNCHANGED <<crow, m_crows, asCrow, objects, dropped>>
       ELSE LET all == m_crows[0] \o m_crows[1] IN
            \E workload \in IF rsDisableObjectsAsCrows
                            THEN SetToSeqs(objects_active) ELSE {all} :
                /\ objects' = workload
                /\ m_crows' = [t \in {0, 1} |-> <<>>]
                /\ crow' = crow \ ToSet(all \o workload)
                /\ asCrow' = asCrow \ ToSet(workload)
                /\ dropped' = dropped \ ToSet(workload)
                /\ pc' = "update" /\ UNCHANGED it
    /\ next' = "late"
    /\ UNCHANGED <<lists, links, queue, flags, mt, calls, updated, running,
                   spawnId, ops>>

(* Update calls SingleUpdate of the next object of its copy.               *)
SingleUpdate ==
    /\ pc = "update" /\ calls = <<>> /\ objects # <<>>
    /\ running' = Head(objects) /\ objects' = Tail(objects)
    /\ pc' = "climb"
    /\ UNCHANGED <<lists, crows, links, queue, flags, mt, calls, it, next,
                   updated, spawnId, dropped, ops>>

ToBeUpdated(o) == o # NULL /\ o \notin updated /\ processing_enabled(o)

(* Mutated form: an object is updated before its parents.                  *)
ParentFirst_ChildFirst ==
    /\ pc = "climb" /\ ToBeUpdated(running)
    /\ calls' = Append(calls, running) /\ running' = Parent[running]
    /\ UNCHANGED <<lists, crows, links, queue, flags, mt, objects, it, next,
                   pc, updated, spawnId, dropped, ops>>

(* SingleUpdate calls itself for the parent before it calls UpdateCL: the  *)
(* object waits behind its ancestors ...                                   *)
ParentFirst ==
    /\ pc = "climb" /\ ToBeUpdated(running)
    /\ calls' = <<running>> \o calls /\ running' = Parent[running]
    /\ UNCHANGED <<lists, crows, links, queue, flags, mt, objects, it, next,
                   pc, updated, spawnId, dropped, ops>>

(* ... up to the first that is disabled or updated already.                *)
NoParentFirst ==
    /\ pc = "climb" /\ ~ToBeUpdated(running)
    /\ pc' = "update" /\ running' = NULL
    /\ UNCHANGED <<lists, crows, links, queue, flags, mt, loop, updated,
                   spawnId, dropped, ops>>

UpdateCL ==
    /\ pc = "update" /\ calls # <<>>
    /\ running' = Head(calls) /\ calls' = Tail(calls)
    /\ updated' = updated \cup {running'}
    /\ pc' = "updateCL"
    /\ UNCHANGED <<lists, crows, links, queue, flags, mt, objects, it, next,
                   spawnId, dropped, ops>>

UpdateCLReturn ==
    /\ pc = "updateCL"
    /\ pc' = "update" /\ running' = NULL
    /\ UNCHANGED <<lists, crows, links, queue, flags, mt, loop, updated,
                   spawnId, dropped, ops>>

UpdateDone ==
    /\ pc = "update" /\ calls = <<>> /\ objects = <<>>
    /\ pc' = "destroy" /\ it' = Len(destroy_queue) /\ next' = "late"
    /\ UNCHANGED <<lists, crows, links, queue, flags, mt, objects, calls,
                   updated, running, spawnId, dropped, ops>>

(* ProcessDestroyQueue, from the back.                                     *)
DestroyNext ==
    /\ pc = "destroy" /\ it > 0
    /\ DestroyObject(destroy_queue[it], net_ID[destroy_queue[it]])
    /\ it' = it - 1
    /\ UNCHANGED <<destroy_queue, flags, mt, objects, calls, next, pc, running,
                   spawnId, ops>>

(* Mutated form: the queue is not cleared.                                 *)
DestroyDone_KeepsQueue ==
    /\ pc = "destroy" /\ it = 0
    /\ pc' = next /\ next' = "late"
    /\ UNCHANGED <<lists, crows, links, queue, flags, mt, objects, calls, it,
                   updated, running, spawnId, dropped, ops>>

DestroyDone ==
    /\ pc = "destroy" /\ it = 0
    /\ destroy_queue' = <<>> /\ pc' = next /\ next' = "late"
    /\ UNCHANGED <<lists, crows, links, bDestroy, flags, mt, objects, calls,
                   it, updated, running, spawnId, dropped, ops>>

EndFrame ==
    /\ pc = "late" /\ pc' = "render"
    /\ UNCHANGED <<lists, crows, links, queue, flags, mt, loop, updated,
                   running, spawnId, dropped, ops>>

(* ++dwFrame and the frame's time step, when both threads are done.        *)
BeginFrame ==
    /\ pc = "render" /\ at[0] = "idle" /\ at[1] = "idle" /\ pc' = "early"
    /\ asCrow' = {} /\ updated' = {} /\ moving' = ~paused
    /\ UNCHANGED <<lists, crow, m_crows, links, queue, paused,
                   rsDisableObjectsAsCrows, mt, loop, running, spawnId,
                   dropped, ops>>

-----------------------------------------------------------------------------
Frame ==
    \/ BeginUpdate \/ SingleUpdate \/ ParentFirst \/ NoParentFirst
    \/ UpdateCL \/ UpdateCLReturn \/ UpdateDone
    \/ DestroyNext \/ DestroyDone \/ EndFrame \/ BeginFrame

Spawning ==
    \/ \E o \in Objects : Create(o)
    \/ SpawnRejected \/ NetSpawn \/ SpawnFails
    \/ \E p \in exists \cup {NULL}, ruck \in BOOLEAN : SpawnSucceeds(p, ruck)

Rendering ==
    \/ \E t \in {0, 1} : CrowStep(t)
    \/ \E o \in exists : RenderCrow(o) \/ MtSlot(o) \/ MtRuck(o)

Game ==
    \/ SetPause
    \/ \E i \in Ids : BeginSpawn(i)
    \/ \E o \in exists :
          \/ Crow(o) \/ GameActivate(o) \/ GameDeactivate(o)
          \/ Reject(o) \/ DestroyEvent(o) \/ DestroyReject(o)
    \/ \E p, c \in exists, ruck \in BOOLEAN : Take(p, c, ruck)

Next == Frame \/ Spawning \/ Rendering \/ Game

Spec == Init /\ [][Next]_vars

(* The main loop keeps running frames; a handler it calls returns.  What   *)
(* is in view is finite, so rendering ends, and the threads meet at the    *)
(* end of the frame (FrameCompletes of SecondaryThread).                   *)
FairSpec ==
    /\ Spec
    /\ WF_vars(Frame \/ Spawning) /\ SF_vars(BeginFrame)
    /\ \A t \in {0, 1} : WF_vars(CrowStep(t))

-----------------------------------------------------------------------------
(* Correctness.                                                            *)

(* What an Update still has to visit exists: no object is destroyed        *)
(* between the copy of the list and its UpdateCL, whose pointers are raw.  *)
NoDeadUpdate ==
    pc \in {"update", "climb", "updateCL"} =>
        ToSet(objects) \cup ToSet(calls) \cup ({running} \ {NULL})
            \subseteq exists

(* Flagged, and about to be listed by the thread that flagged it.          *)
Unlisted == {making[t] : t \in {u \in {0, 1} : at[u] = "list"}}

(* The flag and the two lists agree, but for what Destroy cleared: every   *)
(* flagged object is on one list, once, and every listed one is flagged    *)
(* (the VERIFY of Update, for both threads' lists), also when both threads *)
(* make a crow of one object at the same time.                             *)
CrowsSound ==
    LET all == m_crows[0] \o m_crows[1]
    IN  /\ ToSet(all) = crow \ (dropped \cup Unlisted)
        /\ IsInjective(all)

(* An object is active exactly while its count of processing_activate is   *)
(* positive, whichever thread moved it last.                               *)
ActiveIffCounted ==
    /\ objects_active = {o \in exists : processing_enabled(o)}
    /\ objects_active \cap objects_sleeping = {}

(* The owner of an object outlives it: H_Parent is never dangling, also in *)
(* the middle of the destroy loop.                                         *)
NoDanglingParent == \A o \in exists : Parent[o] # NULL => Parent[o] \in exists

(* The queue, as far as it is not processed, holds the marked objects,     *)
(* each once: none is forgotten and none is destroyed twice.               *)
MarkedQueued ==
    LET rest == IF pc = "destroy" THEN SubSeq(destroy_queue, 1, it)
                ELSE destroy_queue
    IN  ToSet(rest) = bDestroy /\ IsInjective(rest)

Spawned == exists \ (IF pc = "spawn" THEN {running} ELSE {})

(* map_NETID leads from the id of a spawned object to it and nowhere else; *)
(* for id 0 see ActorFindable.                                             *)
FoundById ==
    /\ \A o \in Spawned : net_ID[o] # 0 => map_NETID[net_ID[o]] = o
    /\ \A i \in Ids : map_NETID[i] # NULL =>
            map_NETID[i] \in Spawned /\ net_ID[map_NETID[i]] = i

(* An object is updated once in a frame, and after its parent if that is   *)
(* enabled: UpdateCL of an attached item uses the owner's position.        *)
ParentsUpdateFirst ==
    [][(pc = "update" /\ pc' = "updateCL") =>
         /\ running' \notin updated
         /\ Parent[running'] \in objects_active
               => Parent[running'] \in updated]_vars

(* An object that is marked is destroyed, whether the game is paused or    *)
(* not.                                                                    *)
EventuallyDestroyed == \A o \in Objects : o \in bDestroy ~> o \notin bDestroy

(* The comment of CObject::shedule_Update: MakeMeCrow there makes sure     *)
(* that UpdateCL is called at least as often, so an update of the frame    *)
(* covers every active object that is a crow.  It does not.                *)
EveryCrowUpdated ==
    [][(pc = "early" /\ pc' = "update")
          => crow \cap objects_active \subseteq ToSet(objects')]_vars

(* The actor has id 0 and is found under it.  A rejected spawn, whose      *)
(* object still has id 0, unregisters it.                                  *)
ActorFindable == \A o \in Spawned : net_ID[o] = 0 => map_NETID[0] = o

=============================================================================
