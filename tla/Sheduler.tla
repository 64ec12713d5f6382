------------------------------ MODULE Sheduler ------------------------------
(***************************************************************************)
(* CSheduler (xrEngine/xrSheduler.cpp), which calls shedule_Update of the  *)
(* registered game objects: realtime objects in every frame, the others    *)
(* when their time has come, earliest first, as far as the frame's budget  *)
(* goes.  Registrations are queued and applied, one request at a time,     *)
(* when an Update begins and when it ends; an unregistration made while    *)
(* the scheduler is processing is applied at once if the object is found.  *)
(*                                                                         *)
(* A shedule_Update may create, register, unregister and delete objects,   *)
(* its own included, so a call is two steps with the game's steps between. *)
(* An object is an address: a deleted one may be created again.            *)
(* Times are kept relative to dwTimeGlobal, which grows between frames.    *)
(* Items lists what the heap holds; its layout is left out, as only the    *)
(* times decide which item is at the top.                                  *)
(***************************************************************************)
EXTENDS Integers, Sequences, SequencesExt

CONSTANTS
    Objects,       \* addresses of schedulable objects
    RtObjects,     \* those registered as realtime (CActor)
    NULL,          \* no object
    Intervals,     \* possible values of dwUpdate, in units of time
    FrameTimes,    \* possible growth of dwTimeGlobal between two Updates
    Watched,       \* objects NoStarvation follows: one stands for all
    MaxLate,       \* bound: a due time is at most this far in the past
    MaxOps         \* bound: registrations, unregistrations and deletions

ASSUME ObjectsAssumption   == RtObjects \cup Watched \subseteq Objects /\ NULL \notin Objects
ASSUME IntervalsAssumption == Intervals \subseteq Nat \ {0} /\ Intervals # {}
ASSUME FrameTimesAssumption == FrameTimes \subseteq Nat /\ FrameTimes # {}
ASSUME BoundsAssumption    == MaxLate \in Nat \ {0} /\ MaxOps \in Nat

VARIABLES
    Items,              \* [Object, time]: the priority queue
    ItemsRT,            \* realtime objects, in the order of the calls
    ItemsProcessed,     \* items called in this Update
    Registration,       \* pending [OP, RT, Object], the applied ones left out
    m_current_step_obj, \* the non-realtime object being called, or NULL
    b_RT,               \* each object's realtime flag
    pc,                 \* where Update stands
    it,                 \* index of the realtime loop
    i,                  \* calls of the normal loop, modulo 3
    running,            \* the object of the call in progress (T.Object)
    alive,              \* objects that exist
    needed,             \* objects whose shedule_Needed() is true
    served,             \* history: objects called in this Update
    rtErased,           \* history: a realtime item was erased in the loop
    ops                 \* how much of MaxOps is used

queues == <<Items, ItemsRT, ItemsProcessed, Registration>>
step   == <<m_current_step_obj, pc, it, i, running>>
game   == <<alive, needed, ops>>
vars   == <<queues, b_RT, step, game, served, rtErased>>

Item(o, t) == [Object |-> o, time |-> t]
Times == {t \in Int : -MaxLate <= t /\ \E n \in Intervals : t <= n}
Request == [OP : BOOLEAN, RT : BOOLEAN, Object : Objects]

TypeOK ==
    /\ Items \in Seq([Object : Objects \cup {NULL}, time : Times])
    /\ ItemsProcessed \in Seq([Object : Objects, time : Times])
    /\ ItemsRT \in Seq(Objects)
    /\ Registration \in Seq(Request)
    /\ m_current_step_obj \in Objects \cup {NULL}
    /\ b_RT \in [Objects -> BOOLEAN]
    /\ pc \in {"idle", "begin", "rt", "rtCall", "step", "stepCall", "end", "final"}
    /\ it \in Nat \ {0} /\ i \in 0 .. 2
    /\ running \in Objects \cup {NULL}
    /\ alive \subseteq Objects /\ needed \subseteq alive
    /\ served \subseteq Objects /\ rtErased \in BOOLEAN
    /\ ops \in 0 .. MaxOps

Init ==
    /\ Items = <<>> /\ ItemsProcessed = <<>>
    /\ ItemsRT = <<>> /\ Registration = <<>>
    /\ m_current_step_obj = NULL /\ running = NULL
    /\ b_RT = [o \in Objects |-> FALSE]
    /\ pc = "idle" /\ it = 1 /\ i = 0
    /\ alive = {} /\ needed = {} /\ ops = 0
    /\ served = {} /\ rtErased = FALSE

m_processing_now == pc \in {"rt", "rtCall", "step", "stepCall", "end"}

-----------------------------------------------------------------------------
(* Registration.                                                           *)

(* Where the containers hold o, and the requests on o.                     *)
InItems(o)     == {k \in DOMAIN Items : Items[k].Object = o}
InProcessed(o) == {k \in DOMAIN ItemsProcessed : ItemsProcessed[k].Object = o}
InRT(o)        == {k \in DOMAIN ItemsRT : ItemsRT[k] = o}
Pending(o)     == {k \in DOMAIN Registration : Registration[k].Object = o}

First(S) == {k \in S : \A j \in S : k <= j}

Found(o, RT) == (IF RT THEN InRT(o) ELSE InItems(o)) # {}

(* internal_Unregister where it finds the object: a realtime item is       *)
(* erased, the object of a normal item is set to NULL and the item stays   *)
(* in the queue, the object being called is told to stay out.              *)
InternalUnregister(o, RT) ==
    \/ /\ RT
       /\ \E k \in First(InRT(o)) : ItemsRT' = RemoveAt(ItemsRT, k)
       /\ UNCHANGED <<Items, m_current_step_obj>>
    \/ /\ ~RT
       /\ \E k \in First(InItems(o)) : Items' = [Items EXCEPT ![k].Object = NULL]
       /\ UNCHANGED <<ItemsRT, m_current_step_obj>>
    \/ /\ ~Found(o, RT) /\ m_current_step_obj = o
       /\ m_current_step_obj' = NULL
       /\ UNCHANGED <<Items, ItemsRT>>

NotFound(o, RT) == ~Found(o, RT) /\ m_current_step_obj # o

(* The loop of internal_Registration, on the first request that is left.   *)
Applying ==
    /\ pc \in {"begin", "final"} /\ Registration # <<>>
    /\ UNCHANGED <<ItemsProcessed, pc, it, i, running, game, served, rtErased>>

(* The unregistrations a registration may be paired with.                  *)
Paired ==
    {k \in Pending(Head(Registration).Object) : k > 1 /\ ~Registration[k].OP}

(* A registration and the first later unregistration of the same object    *)
(* cancel out.                                                             *)
ApplyPair ==
    /\ Applying /\ Head(Registration).OP
    /\ \E k \in First(Paired) : Registration' = Tail(RemoveAt(Registration, k))
    /\ UNCHANGED <<Items, ItemsRT, m_current_step_obj, b_RT>>

(* internal_Register: the item is due from now on.                         *)
ApplyRegister ==
    LET R == Head(Registration)
    IN  /\ Applying /\ R.OP /\ Paired = {}
        /\ Registration' = Tail(Registration)
        /\ b_RT' = [b_RT EXCEPT ![R.Object] = R.RT]
        /\ IF R.RT
           THEN ItemsRT' = Append(ItemsRT, R.Object) /\ UNCHANGED Items
           ELSE Items' = Append(Items, Item(R.Object, 0)) /\ UNCHANGED ItemsRT
        /\ UNCHANGED m_current_step_obj

ApplyUnregister ==
    LET R == Head(Registration)
    IN  /\ Applying /\ ~R.OP
        /\ Registration' = Tail(Registration)
        /\ \/ InternalUnregister(R.Object, R.RT)
           \/ /\ NotFound(R.Object, R.RT)
              /\ UNCHANGED <<Items, ItemsRT, m_current_step_obj>>
        /\ UNCHANGED b_RT

(* The scheduler's own answer to "is it registered?" (the DEBUG method     *)
(* Registered): the last pending request on the object decides; without    *)
(* one the containers and the object being called do.                      *)
Placed(o) == \/ InItems(o) # {} \/ InProcessed(o) # {} \/ InRT(o) # {}
             \/ m_current_step_obj = o

Registered(o) ==
    \/ \E k \in Pending(o) : Registration[k].OP /\ \A j \in Pending(o) : j <= k
    \/ Pending(o) = {} /\ Placed(o)

-----------------------------------------------------------------------------
(* The game: between two Updates or inside a shedule_Update.               *)

GameRuns == pc \in {"idle", "rtCall", "stepCall"} /\ ops < MaxOps

Create(o) ==
    /\ pc \in {"idle", "rtCall", "stepCall"}
    /\ o \notin alive
    /\ alive' = alive \cup {o} /\ needed' = needed \cup {o}
    /\ UNCHANGED <<queues, b_RT, step, served, rtErased, ops>>

(* setDestroy(TRUE): shedule_Needed() is false from now on.                *)
SetDestroy(o) ==
    /\ GameRuns
    /\ o \in needed
    /\ needed' = needed \ {o} /\ ops' = ops + 1
    /\ UNCHANGED <<queues, b_RT, step, alive, served, rtErased>>

(* CSheduler::Register; callers keep VERIFY(!Registered(A)).               *)
Register(o) ==
    /\ GameRuns
    /\ o \in needed /\ ~Registered(o)
    /\ Registration' = Append(Registration,
                              [OP |-> TRUE, RT |-> o \in RtObjects, Object |-> o])
    /\ b_RT' = [b_RT EXCEPT ![o] = o \in RtObjects]
    /\ ops' = ops + 1
    /\ UNCHANGED <<Items, ItemsRT, ItemsProcessed, step, alive, needed,
                   served, rtErased>>

(* CSheduler::Unregister: found and removed at once while processing, or   *)
(* the object being called is told to stay out, or the request is queued.  *)
UnregisterNow(o) ==
    /\ m_processing_now
    /\ InternalUnregister(o, b_RT[o])
    /\ rtErased' = (rtErased \/ ItemsRT' # ItemsRT)
    /\ UNCHANGED Registration

UnregisterLater(o) ==
    /\ m_processing_now => NotFound(o, b_RT[o])
    /\ Registration' = Append(Registration,
                              [OP |-> FALSE, RT |-> b_RT[o], Object |-> o])
    /\ UNCHANGED <<Items, ItemsRT, m_current_step_obj, rtErased>>

(* Mutated form: every unregistration waits for the end of the Update.      *)
DoUnregister_Deferred(o) ==
    /\ Registration' = Append(Registration,
                              [OP |-> FALSE, RT |-> b_RT[o], Object |-> o])
    /\ UNCHANGED <<Items, ItemsRT, m_current_step_obj, rtErased>>

DoUnregister(o) == UnregisterNow(o) \/ UnregisterLater(o)

Unregister(o) ==
    /\ GameRuns
    /\ o \in alive
    /\ Registered(o) \/ o \notin needed
    /\ DoUnregister(o)
    /\ ops' = ops + 1
    /\ UNCHANGED <<ItemsProcessed, b_RT, pc, it, i, running, alive, needed, served>>

(* ~ISheduled unregisters the object whether or not its owner did.         *)
Delete(o) ==
    /\ GameRuns
    /\ o \in alive
    /\ DoUnregister(o)
    /\ alive' = alive \ {o} /\ needed' = needed \ {o}
    /\ ops' = ops + 1
    /\ UNCHANGED <<ItemsProcessed, b_RT, pc, it, i, running, served>>

GameStep == \E o \in Objects :
    Create(o) \/ SetDestroy(o) \/ Register(o) \/ Unregister(o) \/ Delete(o)

-----------------------------------------------------------------------------
(* CSheduler::Update.                                                      *)

(* dwTimeGlobal grows by d: every due time moves that far into the past.   *)
Later(t, d) == IF t - d < -MaxLate THEN -MaxLate ELSE t - d

BeginUpdate(d) ==
    /\ pc = "idle" /\ pc' = "begin"
    /\ Items' = [k \in DOMAIN Items |-> [Items[k] EXCEPT !.time = Later(@, d)]]
    /\ served' = {} /\ rtErased' = FALSE
    /\ UNCHANGED <<ItemsRT, ItemsProcessed, Registration, m_current_step_obj,
                   b_RT, it, i, running, game>>

BeginLoop ==
    /\ pc = "begin" /\ Registration = <<>>
    /\ pc' = "rt" /\ it' = 1
    /\ UNCHANGED <<queues, b_RT, m_current_step_obj, i, running, game,
                   served, rtErased>>

RtSkip ==
    /\ pc = "rt" /\ it <= Len(ItemsRT)
    /\ ItemsRT[it] \notin needed
    /\ it' = it + 1
    /\ UNCHANGED <<queues, b_RT, m_current_step_obj, pc, i, running, game,
                   served, rtErased>>

RtCall ==
    /\ pc = "rt" /\ it <= Len(ItemsRT)
    /\ ItemsRT[it] \in needed
    /\ pc' = "rtCall" /\ running' = ItemsRT[it]
    /\ served' = served \cup {ItemsRT[it]}
    /\ UNCHANGED <<queues, b_RT, m_current_step_obj, it, i, game, rtErased>>

RtReturn ==
    /\ pc = "rtCall" /\ pc' = "rt"
    /\ running' = NULL /\ it' = it + 1
    /\ UNCHANGED <<queues, b_RT, m_current_step_obj, i, game, served, rtErased>>

(* Mutated form: the realtime loop stops before the last object.           *)
RtDone_OffByOne ==
    /\ pc = "rt" /\ it >= Len(ItemsRT)
    /\ pc' = "step" /\ i' = 0
    /\ UNCHANGED <<queues, b_RT, m_current_step_obj, it, running, game,
                   served, rtErased>>

RtDone ==
    /\ pc = "rt" /\ it > Len(ItemsRT)
    /\ pc' = "step" /\ i' = 0
    /\ UNCHANGED <<queues, b_RT, m_current_step_obj, it, running, game,
                   served, rtErased>>

(* Mutated form: the queue is not kept as a heap.                          *)
Top_AnyDue == {k \in DOMAIN Items : Items[k].time < 0}

(* The items ProcessStep may take: in the past, and none is earlier.  The  *)
(* heap leaves open which of several goes first.                           *)
Top == {k \in DOMAIN Items :
           Items[k].time < 0 /\ \A j \in DOMAIN Items : Items[k].time <= Items[j].time}

NextI == i' = (i + 1) % 3

(* An unregistered item, or one that needs no update, leaves the queue.    *)
StepDrop(k) ==
    /\ pc = "step"
    /\ Items[k].Object \notin needed
    /\ Items' = RemoveAt(Items, k)
    /\ NextI
    /\ UNCHANGED <<ItemsRT, ItemsProcessed, Registration, b_RT,
                   m_current_step_obj, pc, it, running, game, served, rtErased>>

StepCall(k) ==
    /\ pc = "step" /\ pc' = "stepCall"
    /\ Items[k].Object \in needed
    /\ Items' = RemoveAt(Items, k)
    /\ m_current_step_obj' = Items[k].Object /\ running' = Items[k].Object
    /\ served' = served \cup {Items[k].Object}
    /\ UNCHANGED <<ItemsRT, ItemsProcessed, Registration, b_RT, it, i, game,
                   rtErased>>

(* Mutated form: an object that unregistered itself is put back as NULL.    *)
StepReturnSelf_PutsBack ==
    /\ pc = "stepCall" /\ pc' = "step"
    /\ m_current_step_obj = NULL
    /\ ItemsProcessed' = Append(ItemsProcessed, Item(NULL, 1))
    /\ running' = NULL
    /\ NextI
    /\ UNCHANGED <<Items, ItemsRT, Registration, b_RT, m_current_step_obj, it,
                   game, served, rtErased>>

(* The object unregistered itself: it is not put back, nor is the budget   *)
(* looked at.                                                              *)
StepReturnSelf ==
    /\ pc = "stepCall" /\ pc' = "step"
    /\ m_current_step_obj = NULL
    /\ running' = NULL
    /\ NextI
    /\ UNCHANGED <<queues, b_RT, m_current_step_obj, it, game, served, rtErased>>

(* Mutated form: a self-unregistration during the call is overlooked.      *)
StepReturn_IgnoresSelf(dwUpdate) ==
    /\ pc = "stepCall"
    /\ ItemsProcessed' = Append(ItemsProcessed, Item(running, dwUpdate))
    /\ m_current_step_obj' = NULL /\ running' = NULL
    /\ pc' = "step" \/ (i = 2 /\ pc' = "end")
    /\ NextI
    /\ UNCHANGED <<Items, ItemsRT, Registration, b_RT, it, game, served, rtErased>>

(* The object is due again after dwUpdate.  After every third turn of the  *)
(* loop Update may find that the frame's budget is used up.                *)
StepReturn(dwUpdate) ==
    /\ pc = "stepCall"
    /\ m_current_step_obj # NULL
    /\ ItemsProcessed' = Append(ItemsProcessed, Item(running, dwUpdate))
    /\ m_current_step_obj' = NULL /\ running' = NULL
    /\ pc' = "step" \/ (i = 2 /\ pc' = "end")
    /\ NextI
    /\ UNCHANGED <<Items, ItemsRT, Registration, b_RT, it, game, served, rtErased>>

(* Mutated form: the processed items are kept.                             *)
EndUpdate_KeepsProcessed ==
    /\ pc = "end" \/ (pc = "step" /\ Top = {})
    /\ pc' = "final"
    /\ Items' = Items \o ItemsProcessed
    /\ UNCHANGED <<ItemsRT, ItemsProcessed, Registration, b_RT, m_current_step_obj,
                   it, i, running, game, served, rtErased>>

(* The processed items go back; the pending requests are applied next.     *)
EndUpdate ==
    /\ pc = "end" \/ (pc = "step" /\ Top = {})
    /\ pc' = "final"
    /\ Items' = Items \o ItemsProcessed /\ ItemsProcessed' = <<>>
    /\ UNCHANGED <<ItemsRT, Registration, b_RT, m_current_step_obj, it, i, running,
                   game, served, rtErased>>

UpdateDone ==
    /\ pc = "final" /\ Registration = <<>>
    /\ pc' = "idle"
    /\ UNCHANGED <<queues, b_RT, m_current_step_obj, it, i, running, game,
                   served, rtErased>>

UpdateStep ==
    \/ \E d \in FrameTimes : BeginUpdate(d)
    \/ ApplyPair \/ ApplyRegister \/ ApplyUnregister
    \/ BeginLoop
    \/ RtSkip \/ RtCall \/ RtReturn \/ RtDone
    \/ \E k \in Top : StepDrop(k) \/ StepCall(k)
    \/ StepReturnSelf
    \/ \E dwUpdate \in Intervals : StepReturn(dwUpdate)
    \/ EndUpdate \/ UpdateDone

Next == GameStep \/ UpdateStep

Spec == Init /\ [][Next]_vars

(* Frames keep coming and a shedule_Update returns.                        *)
FairSpec == Spec /\ WF_vars(UpdateStep)

-----------------------------------------------------------------------------
(* Properties                                                              *)

(* Update never touches a deleted object: while it runs, every object that *)
(* the loops may call or that is put back exists.  Nor does                *)
(* internal_Registration: an object that was registered and deleted while  *)
(* its request was pending is never called.                                *)
TouchesOnlyLiving ==
    /\ m_processing_now =>
          /\ ToSet(ItemsRT) \subseteq alive
          /\ \A k \in DOMAIN Items : Items[k].Object \in alive \cup {NULL}
          /\ m_current_step_obj \in alive \cup {NULL}
    /\ pc \in {"begin", "final"} /\ Registration # <<>>
         /\ Head(Registration).OP /\ Paired = {}
       => Head(Registration).Object \in alive

(* The VERIFYs of Registered: an object is in one container at most, once, *)
(* and a registration is pending only on an object that is in none or is   *)
(* to be unregistered first.                                               *)
Places(o) ==
    ({"Items"} \X InItems(o)) \cup ({"ItemsProcessed"} \X InProcessed(o))
      \cup ({"ItemsRT"} \X InRT(o))
      \cup {p \in {<<"m_current_step_obj", 1>>} : m_current_step_obj = o}

OnePlace ==
    \A o \in Objects :
       /\ \A p, q \in Places(o) : p = q
       /\ Places(o) # {} => \A k \in First(Pending(o)) : ~Registration[k].OP

(* A realtime object that needs updates gets one in every frame, provided  *)
(* no realtime object was unregistered inside the loop.                    *)
RealtimeServed ==
    pc \in {"step", "stepCall", "end"} /\ ~rtErased
       => ToSet(ItemsRT) \cap needed \subseteq served

(* No starvation: however small the budget, an object that stays           *)
(* registered and needs updates is called again and again.  The module     *)
(* treats all normal objects alike, so following one of them is enough.    *)
NoStarvation ==
    \A o \in Watched : Registered(o) /\ o \in needed
       ~> o \in served \/ ~Registered(o) \/ o \notin needed

SS == INSTANCE ScheduledSet WITH
          registered <- {o \in Objects : Registered(o)},
          updating   <- pc # "idle"

(* Queued requests, cancelled pairs and items set to NULL do not show: the *)
(* scheduler implements a plain set of registered objects, each called at  *)
(* most once in an Update and only while registered and in need, and only  *)
(* the game adds to it.                                                    *)
ImplementsScheduledSet == SS!Spec
=============================================================================
