--------------------------- MODULE ServerEntities ---------------------------
(***************************************************************************)
(* The entities of the server and their owners, ALife switching them on    *)
(* and off the level, and the view of the client (xrGame/xrServer*.cpp,    *)
(* alife_switch_manager.cpp, Level.cpp), in single player.                 *)
(*                                                                         *)
(* Server and client are one process.  A request of the client runs the    *)
(* server at once; what the server answers waits in the client's queue     *)
(* until the next frame, when all of it is handled in order.  In between   *)
(* the two disagree, and requests are made from the older view.            *)
(*                                                                         *)
(* Ownership has two levels: creatures and boxes hold items, and launchers *)
(* among the items hold rockets.  The list of children is a set here: the  *)
(* code's order is one of those the messages below are sent in.            *)
(***************************************************************************)
EXTENDS Integers, Sequences, FiniteSets, SequencesExt

CONSTANTS
    Holders,      \* ids of creatures and inventory boxes
    Refusers,     \* the creatures among them: they may refuse an item
    Items,        \* ids of inventory items
    Launchers,    \* the items that hold rockets
    Rockets,      \* ids of rockets, which ALife does not keep
    Nobody,       \* no owner: 0xffff
    MaxMessages   \* bound: messages under way when a request is made

Ids == Holders \cup Items \cup Rockets

ASSUME KindsAssumption ==
    /\ Refusers \subseteq Holders /\ Launchers \subseteq Items
    /\ Holders \cap Items = {} /\ Rockets \cap (Holders \cup Items) = {}
ASSUME NobodyAssumption == Nobody \notin Ids
(* An id is a number of 16 bits.                                           *)
ASSUME IdsAssumption    == IsFiniteSet(Ids)
ASSUME BoundAssumption  == MaxMessages \in Nat

VARIABLES
    where,        \* server: in entities, kept by ALife only, or nowhere
    ID_Parent, children,
    net,          \* NET_Queue of the client: sent and not yet received
    game_events,  \* received in this frame
    object,       \* client: on the level, marked for destruction, or not
    H_Parent,
    removed,      \* objects whose m_bObjectRemoved is set
    stage,        \* the client updates its objects, or handles events
    switched      \* objects whose m_switch_counter is this cycle

server == <<where, ID_Parent, children>>
client == <<object, H_Parent, removed>>
vars   == <<server, net, game_events, client, stage, switched>>

CanHold(p, i) ==
    (p \in Holders /\ i \in Items) \/ (p \in Launchers /\ i \in Rockets)

(* Only the spawn of an entity without an owner has no destination.        *)
Messages ==
    [type : {"take", "reject", "destroy"}, dest : Ids, id : Ids]
      \cup [type : {"spawn"}, dest : Ids \cup {Nobody}, id : Ids]

Msg(type, dest, id) == [type |-> type, dest |-> dest, id |-> id]

TypeOK ==
    /\ where \in [Ids -> {"absent", "online", "offline"}]
    /\ ID_Parent \in [Ids -> Ids \cup {Nobody}]
    /\ children \in [Ids -> SUBSET Ids]
    /\ net \in Seq(Messages) /\ game_events \in Seq(Messages)
    /\ object \in [Ids -> {"absent", "present", "dying"}]
    /\ H_Parent \in [Ids -> Ids \cup {Nobody}]
    /\ removed \subseteq Ids /\ switched \subseteq Ids
    /\ stage \in {"update", "events"}

Init ==
    /\ where = [i \in Ids |-> "absent"]
    /\ ID_Parent = [i \in Ids |-> Nobody] /\ children = [i \in Ids |-> {}]
    /\ net = <<>> /\ game_events = <<>>
    /\ object = [i \in Ids |-> "absent"]
    /\ H_Parent = [i \in Ids |-> Nobody]
    /\ removed = {} /\ switched = {}
    /\ stage = "update"

-----------------------------------------------------------------------------
(* The server.                                                             *)

Online(i) == where[i] = "online"

Below(x)   == children[x] \cup UNION {children[k] : k \in children[x]}
Subtree(x) == {x} \cup Below(x)

Send(messages) == net' = net \o messages

(* A request is made while few messages are under way (the bound).         *)
Room == Len(net) + Len(game_events) < MaxMessages

(* Mutated form: a reject is sent for what has no owner.                   *)
Rejected_Always(y) == <<Msg("reject", ID_Parent[y], y)>>

Rejected(y) ==
    IF ID_Parent[y] = Nobody THEN <<>> ELSE <<Msg("reject", ID_Parent[y], y)>>

Destroyed(y) == <<Msg("destroy", y, y)>>

(* The orders that the lists of children in the tree of x may be in.       *)
Orders(x) ==
    {kids \in [Subtree(x) -> UNION {SetToSeqs(children[y]) : y \in Subtree(x)}] :
        \A y \in Subtree(x) : kids[y] \in SetToSeqs(children[y])}

(* A walk over the tree of x by recursion over the lists of children: Pre  *)
(* is sent on the way down, Post on the way up.                            *)
Walk(Pre(_), Post(_), x, kids) ==
    LET Each(F(_), y) == FlattenSeq([n \in DOMAIN kids[y] |-> F(kids[y][n])])
        Leaf(y)   == Pre(y) \o Post(y)
        Branch(y) == Pre(y) \o Each(Leaf, y) \o Post(y)
    IN  Pre(x) \o Each(Branch, x) \o Post(x)

(* Mutated form: an owner is destroyed before what it holds.               *)
DestroyPack_OwnerFirst(x, kids) ==
    Walk(LAMBDA y : Rejected(y) \o Destroyed(y), LAMBDA y : <<>>, x, kids)

(* What Process_event_destroy sends: an entity is taken from its owner and *)
(* destroyed when all it held is gone.                                     *)
DestroyPack(x, kids) ==
    Walk(LAMBDA y : <<>>, LAMBDA y : Rejected(y) \o Destroyed(y), x, kids)

(* Mutated form: owned entities are destroyed without a reject.            *)
OfflinePack_NoReject(x, kids) ==
    Walk(LAMBDA y : <<>>, LAMBDA y : Destroyed(y), x, kids)

(* Mutated form: the entities that x holds are not destroyed.              *)
OfflinePack_ItemsStay(x, kids) ==
    Walk(LAMBDA y : Rejected(y),
         LAMBDA y : IF y = x THEN Destroyed(y) ELSE <<>>, x, kids)

(* What Perform_destroy sends: an entity is taken from its owner before    *)
(* what it holds is destroyed, and destroyed after it.                     *)
OfflinePack(x, kids) ==
    Walk(LAMBDA y : Rejected(y), LAMBDA y : Destroyed(y), x, kids)

(* is_object_valid_on_svclient.                                            *)
ValidOnSvClient(i) == object[i] = "present" /\ i \notin removed

(* Process_event_ownership, and its request by the client: nothing happens *)
(* unless both are on the level and the item is free.                      *)
TakeRequest(p, i) ==
    /\ Room
    /\ CanHold(p, i) /\ Online(p) /\ Online(i)
    /\ ValidOnSvClient(p) /\ ValidOnSvClient(i)
    /\ ID_Parent[i] = Nobody
    /\ ID_Parent' = [ID_Parent EXCEPT ![i] = p]
    /\ children' = [children EXCEPT ![p] = @ \cup {i}]
    /\ Send(<<Msg("take", p, i)>>)
    /\ UNCHANGED <<where, game_events, client, stage, switched>>

(* Mutated form: the clients are not told.                                 *)
ProcessEventReject_Silent(p, i) ==
    IF i \in children[p] /\ Online(p)
    THEN /\ ID_Parent' = [ID_Parent EXCEPT ![i] = Nobody]
         /\ children' = [children EXCEPT ![p] = @ \ {i}]
         /\ UNCHANGED net
    ELSE UNCHANGED <<ID_Parent, children, net>>

(* Process_event_reject: ignored unless p is the owner.                    *)
ProcessEventReject(p, i) ==
    IF Online(p) /\ Online(i) /\ i \in children[p] /\ ID_Parent[i] = p
    THEN /\ ID_Parent' = [ID_Parent EXCEPT ![i] = Nobody]
         /\ children' = [children EXCEPT ![p] = @ \ {i}]
         /\ Send(<<Msg("reject", p, i)>>)
    ELSE UNCHANGED <<ID_Parent, children, net>>

(* The client drops, sells or launches what it sees p holding.             *)
RejectRequest(p, i) ==
    /\ Room
    /\ object[p] = "present" /\ object[i] = "present" /\ H_Parent[i] = p
    /\ ProcessEventReject(p, i)
    /\ UNCHANGED <<where, game_events, client, stage, switched>>

(* Process_event_destroy of an entity that is on the level: it and all it  *)
(* holds leave the server, and ALife.                                      *)
ProcessEventDestroy(i) ==
    /\ Online(i)
    /\ where' = [x \in Ids |-> IF x \in Subtree(i) THEN "absent" ELSE where[x]]
    /\ ID_Parent' = [x \in Ids |-> IF x \in Subtree(i) THEN Nobody
                                   ELSE ID_Parent[x]]
    /\ children' = [x \in Ids |-> IF x \in Subtree(i) THEN {}
                                  ELSE children[x] \ {i}]
    /\ \E kids \in Orders(i) : Send(DestroyPack(i, kids))

(* CGameObject::DestroyObject asks once.                                   *)
DestroyObject(i) ==
    /\ Room
    /\ object[i] # "absent" /\ i \notin removed
    /\ removed' = removed \cup {i}
    /\ \/ object[i] = "present" /\ ProcessEventDestroy(i)
       \/ /\ object[i] = "dying" \/ ~Online(i)
          /\ UNCHANGED <<server, net>>
    /\ UNCHANGED <<game_events, object, H_Parent, stage, switched>>

(* release of a script: asked for what is on the level and not yet dying.  *)
Release(i) ==
    /\ Room
    /\ object[i] = "present"
    /\ ProcessEventDestroy(i)
    /\ UNCHANGED <<game_events, client, stage, switched>>

(* An id is handed out again long after it was freed: the generator takes  *)
(* the block of ids that waited longest.                                   *)
IdFree(i) ==
    /\ where[i] = "absent" /\ object[i] = "absent"
    /\ \A n \in DOMAIN net : net[n].id # i
    /\ \A n \in DOMAIN game_events : game_events[n].id # i

(* Process_spawn of a new entity, with an owner that is on the level or    *)
(* without one.                                                            *)
Spawn(i, p) ==
    /\ Room
    /\ IdFree(i)
    /\ p = Nobody \/ (CanHold(p, i) /\ Online(p))
    /\ where' = [where EXCEPT ![i] = "online"]
    /\ ID_Parent' = [ID_Parent EXCEPT ![i] = p]
    /\ children' = [x \in Ids |-> IF x = p THEN children[x] \cup {i}
                                  ELSE children[x]]
    /\ Send(<<Msg("spawn", p, i)>>)
    /\ UNCHANGED <<game_events, client, stage, switched>>

-----------------------------------------------------------------------------
(* ALife.                                                                  *)

(* An update of ALife switches an object once.                             *)
SwitchPredicate(o) == o \notin switched /\ switched' = switched \cup {o}

(* add_online: the object is spawned, then what it holds.                  *)
SwitchOnline(o) ==
    /\ Room /\ stage = "update"
    /\ where[o] = "offline" /\ ID_Parent[o] = Nobody
    /\ SwitchPredicate(o)
    /\ where' = [x \in Ids |-> IF x \in {o} \cup children[o] THEN "online"
                               ELSE where[x]]
    /\ \E s \in SetToSeqs(children[o]) :
          Send(<<Msg("spawn", Nobody, o)>>
                 \o [n \in DOMAIN s |-> Msg("spawn", o, s[n])])
    /\ UNCHANGED <<ID_Parent, children, game_events, client, stage>>

(* Mutated form: rockets are kept in the list of their launcher.           *)
Kept_All(x) == children[x]

(* The children an offline object takes back: a launcher comes back empty. *)
Kept(x) == children[x] \ Rockets

(* remove_online: the tree leaves entities, the object and its items are   *)
(* kept by ALife under their ids and tied again, rockets are lost.         *)
RemoveOnline(o) ==
    /\ o \notin Rockets /\ Online(o) /\ ID_Parent[o] = Nobody
    /\ where' = [x \in Ids |-> IF x \notin Subtree(o) THEN where[x]
                               ELSE IF x \in Rockets THEN "absent"
                               ELSE "offline"]
    /\ ID_Parent' = [x \in Ids |-> IF x \in Subtree(o) \cap Rockets THEN Nobody
                                   ELSE ID_Parent[x]]
    /\ children' = [x \in Ids |-> IF x \in Subtree(o) THEN Kept(x)
                                  ELSE children[x]]
    /\ \E kids \in Orders(o) : Send(OfflinePack(o, kids))
    /\ UNCHANGED <<game_events, client, stage>>

(* try_switch_offline, in the update of ALife.                             *)
SwitchOffline(o) ==
    Room /\ stage = "update" /\ SwitchPredicate(o) /\ RemoveOnline(o)

(* teleport_object, asked for by a script or a creature: what is on the    *)
(* level goes offline at any time, whatever ALife did with it in this      *)
(* cycle.  What has an owner is not in ALife's graph, which teleporting    *)
(* changes.                                                                *)
TeleportObject(o) == Room /\ RemoveOnline(o) /\ UNCHANGED switched

-----------------------------------------------------------------------------
(* The client.                                                             *)

(* ClientReceive: all that was sent goes to the events of this frame.      *)
ClientReceive ==
    /\ stage = "update"
    /\ stage' = "events"
    /\ game_events' = game_events \o net /\ net' = <<>>
    /\ switched' = {}
    /\ UNCHANGED <<server, client>>

Event(type) ==
    /\ stage = "events" /\ game_events # <<>> /\ Head(game_events).type = type
    /\ game_events' = Tail(game_events)
    /\ UNCHANGED <<stage, switched>>

(* The objects after ProcessDestroyQueue.                                  *)
Purged == [i \in Ids |-> IF object[i] = "dying" THEN "absent" ELSE object[i]]

(* GE_OWNERSHIP_TAKE of item i, sent or after its spawn, when the level    *)
(* has these objects: a creature that cannot carry it, or finds it dying,  *)
(* sends the reject at once; boxes and launchers take everything.          *)
Take(objects, p, i) ==
    \/ /\ p \in Refusers /\ objects[p] # "absent" /\ objects[i] # "absent"
       /\ UNCHANGED H_Parent
       /\ ProcessEventReject(p, i)
    \/ /\ H_Parent' = IF /\ objects[p] # "absent" /\ objects[i] # "absent"
                         /\ p \in Refusers => objects[i] = "present"
                      THEN [H_Parent EXCEPT ![i] = p] ELSE H_Parent
       /\ UNCHANGED <<ID_Parent, children, net>>

(* g_sv_Spawn, which takes the object to its owner; a dying one with the   *)
(* same id is destroyed first.                                             *)
EvSpawn ==
    LET m       == Head(game_events)
        objects == IF object[m.id] = "dying" THEN Purged ELSE object
    IN  /\ Event("spawn")
        /\ object' = [objects EXCEPT ![m.id] = "present"]
        /\ removed' = {x \in removed \ {m.id} : objects[x] # "absent"}
        /\ IF m.dest = Nobody THEN UNCHANGED <<H_Parent, ID_Parent, children, net>>
           ELSE Take(object', m.dest, m.id)
        /\ UNCHANGED where

EvTake ==
    /\ Event("take")
    /\ Take(object, Head(game_events).dest, Head(game_events).id)
    /\ UNCHANGED <<where, object, removed>>

(* Whoever is told to drop an item that is on the level lets go of it      *)
(* (H_SetParent), but the actor takes no notice of an item that is dying   *)
(* or not its own.                                                         *)
LetsGo(p, i)  == object[p] # "absent" /\ object[i] # "absent"
Ignores(p, i) ==
    \/ ~LetsGo(p, i)
    \/ p \in Refusers /\ (object[i] = "dying" \/ H_Parent[i] # p)

(* GE_OWNERSHIP_REJECT, also of a launched rocket.                         *)
EvReject ==
    LET m == Head(game_events)
    IN  /\ Event("reject")
        /\ \/ LetsGo(m.dest, m.id) /\ H_Parent' = [H_Parent EXCEPT ![m.id] = Nobody]
           \/ Ignores(m.dest, m.id) /\ UNCHANGED H_Parent
        /\ UNCHANGED <<server, net, object, removed>>

(* GE_DESTROY marks an object without an owner; one with an owner stays.   *)
EvDestroy ==
    LET m == Head(game_events)
    IN  /\ Event("destroy")
        /\ object' = IF object[m.id] = "present" /\ H_Parent[m.id] = Nobody
                     THEN [object EXCEPT ![m.id] = "dying"] ELSE object
        /\ UNCHANGED <<server, net, H_Parent, removed>>

(* ProcessGameEvents goes on until the queue is empty.                     *)
Drained == game_events = <<>>

(* ProcessDestroyQueue, at the end of the update of the objects.           *)
ProcessDestroyQueue ==
    /\ stage = "events" /\ Drained
    /\ stage' = "update"
    /\ object' = Purged
    /\ removed' = {x \in removed : object[x] # "dying"}
    /\ UNCHANGED <<server, net, game_events, H_Parent, switched>>

Request ==
    \/ \E p, i \in Ids : TakeRequest(p, i) \/ RejectRequest(p, i)
    \/ \E i \in Ids : DestroyObject(i) \/ Release(i) \/ TeleportObject(i)
    \/ \E i \in Ids, p \in Ids \cup {Nobody} : Spawn(i, p)

Switch == \E o \in Ids : SwitchOnline(o) \/ SwitchOffline(o)

Handle == EvSpawn \/ EvTake \/ EvReject \/ EvDestroy

Next == Request \/ Switch \/ ClientReceive \/ Handle \/ ProcessDestroyQueue

Spec == Init /\ [][Next]_vars

-----------------------------------------------------------------------------
(* Properties.                                                             *)

(* verify_entity, which the server runs after every event: the parent and  *)
(* the children agree, and both are in entities.  ALife keeps the same for *)
(* what is off the level.                                                  *)
VerifyEntities ==
    /\ \A p, i \in Ids : i \in children[p] <=> ID_Parent[i] = p
    /\ \A i \in Ids : ID_Parent[i] # Nobody =>
          /\ where[i] = where[ID_Parent[i]]
          /\ CanHold(ID_Parent[i], i)
    /\ \A i \in Ids : where[i] = "absent" =>
          ID_Parent[i] = Nobody /\ children[i] = {}
    /\ \A r \in Rockets : where[r] # "offline"

(* When nothing is under way, the level shows what the server has: the     *)
(* online entities, each with the server's owner.                          *)
ViewAgrees ==
    (net = <<>> /\ game_events = <<>>) =>
        \A i \in Ids : /\ object[i] = "present" <=> Online(i)
                       /\ object[i] = "present" => H_Parent[i] = ID_Parent[i]

(* An object's owner is on the level, also while events wait: ObjectList   *)
(* relies on it.                                                           *)
OwnerOnLevel ==
    \A i \in Ids : H_Parent[i] # Nobody =>
        object[i] = "present" /\ object[H_Parent[i]] = "present"

(* GE_DESTROY of an object that still has an owner is dropped with an      *)
(* error, and the object would stay on the level for good: the reject came *)
(* before it.                                                              *)
DestroyFindsNoOwner ==
    [][(game_events' # game_events /\ game_events # <<>> /\ EvDestroy)
          => object'[Head(game_events).id] = "dying"]_vars

(* g_sv_Spawn finds the id of a new object free, or in use by a dying one  *)
(* that it destroys first: the object that was there before has been told  *)
(* to go, also when ALife and teleport_object switch it several times in   *)
(* one frame.  Else net_Spawn refuses the new object (SpawnRejected of     *)
(* ObjectList).                                                            *)
SpawnFindsIdFree ==
    [][EvSpawn => object[Head(game_events).id] # "present"]_vars

(* The VERIFY of try_switch_online: an object that is offline is not on    *)
(* the level when ALife looks at it.  One that was teleported in the same  *)
(* frame is.                                                               *)
OfflineOffLevel ==
    [][\A o \in Ids : where[o] = "offline" /\ where'[o] = "online"
          => object[o] = "absent"]_vars

(* The VERIFY of DropItem: who is told to drop an object holds it.         *)
RejectedIsOwned ==
    [][EvReject => LET m == Head(game_events)
                   IN  object[m.id] # "absent" => H_Parent[m.id] = m.dest]_vars
=============================================================================
