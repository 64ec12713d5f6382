------------------------ MODULE ServerEntitiesProofs ------------------------
(***************************************************************************)
(* The server's ownership forest, proved for any number of holders, items  *)
(* and rockets: the parent and the children of every entity agree, after   *)
(* every request and every switch of ALife, whatever the client refuses    *)
(* and in whatever order its events come.                                  *)
(*                                                                         *)
(* VerifyEntities is inductive with the types of the server's state.  What *)
(* makes it so is that a tree has at most two levels below its root        *)
(* (KindsAssumption), so Subtree is closed in both directions.             *)
(***************************************************************************)
EXTENDS ServerEntities, TLAPS

ServerTypeOK ==
    /\ where \in [Ids -> {"absent", "online", "offline"}]
    /\ ID_Parent \in [Ids -> Ids \cup {Nobody}]
    /\ children \in [Ids -> SUBSET Ids]

IInv == ServerTypeOK /\ VerifyEntities

(* A tree holds the children of its members, and the owners of all but its *)
(* root: no entity is left behind, none is taken from another tree.        *)
LEMMA SubtreeClosed ==
    ASSUME IInv, NEW i \in Ids, NEW y \in Ids
    PROVE  /\ Subtree(i) \subseteq Ids
           /\ ID_Parent[y] \in Subtree(i) => y \in Subtree(i)
           /\ y \in Subtree(i) /\ y # i => ID_Parent[y] \in Subtree(i)
<1>1. Subtree(i) \subseteq Ids
  BY DEF IInv, ServerTypeOK, Subtree, Below
<1>2. ASSUME ID_Parent[y] \in Subtree(i)
      PROVE  y \in Subtree(i)
  <2> DEFINE p == ID_Parent[y]
  <2>1. p \in Ids /\ p # Nobody /\ CanHold(p, y) /\ y \in children[p]
    BY <1>1, <1>2, NobodyAssumption DEF IInv, VerifyEntities
  <2>2. CASE p = i
    BY <2>1, <2>2 DEF Subtree, Below
  <2>3. CASE p \in children[i]
    BY <2>1, <2>3 DEF Subtree, Below
  <2>4. ASSUME NEW k \in children[i], p \in children[k]
        PROVE  FALSE
    <3>1. k \in Ids /\ ID_Parent[k] = i /\ ID_Parent[p] = k
      BY <2>1, <2>4 DEF IInv, ServerTypeOK, VerifyEntities
    <3>2. CanHold(i, k) /\ CanHold(k, p)
      BY <2>1, <3>1, NobodyAssumption DEF IInv, VerifyEntities
    <3> QED BY <2>1, <3>2, KindsAssumption DEF CanHold
  <2> QED BY <1>2, <2>2, <2>3, <2>4 DEF Subtree, Below
<1>3. ASSUME y \in Subtree(i), y # i
      PROVE  ID_Parent[y] \in Subtree(i)
  BY <1>3 DEF IInv, ServerTypeOK, VerifyEntities, Subtree, Below
<1> QED BY <1>1, <1>2, <1>3

(* At the start nothing exists and nothing is owned.                       *)
LEMMA InitIInv == Init => IInv
  BY NobodyAssumption DEF Init, IInv, ServerTypeOK, VerifyEntities, Ids

(* The server's take hangs a free entity on another of the same place.     *)
LEMMA TakeIInv ==
    ASSUME IInv, NEW p \in Ids, NEW i \in Ids, TakeRequest(p, i)
    PROVE  IInv'
<1> USE NobodyAssumption DEF IInv, ServerTypeOK, TakeRequest, Online
<1>1. ServerTypeOK'
  OBVIOUS
<1>2. p # i
  BY KindsAssumption DEF CanHold
<1>3. (\A q, x \in Ids : x \in children[q] <=> ID_Parent[x] = q)'
  <2> SUFFICES ASSUME NEW q \in Ids, NEW x \in Ids
               PROVE  x \in children'[q] <=> ID_Parent'[x] = q
    OBVIOUS
  <2>1. x \in children[q] <=> ID_Parent[x] = q
    BY DEF VerifyEntities
  <2>2. CASE x = i
    BY <2>1, <2>2
  <2>3. CASE x # i
    BY <2>1, <2>3
  <2> QED BY <2>2, <2>3
<1>4. (\A x \in Ids : ID_Parent[x] # Nobody =>
          where[x] = where[ID_Parent[x]] /\ CanHold(ID_Parent[x], x))'
  BY DEF VerifyEntities, CanHold
<1>5. (\A x \in Ids : where[x] = "absent" =>
          ID_Parent[x] = Nobody /\ children[x] = {})'
  BY DEF VerifyEntities
<1>6. (\A r \in Rockets : where[r] # "offline")'
  BY DEF VerifyEntities
<1> QED BY <1>1, <1>3, <1>4, <1>5, <1>6 DEF VerifyEntities

(* The item may be any id: the server looks for it among the children.     *)
LEMMA RejectIInv ==
    ASSUME IInv, NEW p \in Ids, NEW i,
           ProcessEventReject(p, i), UNCHANGED where
    PROVE  IInv'
<1> USE NobodyAssumption DEF IInv, ServerTypeOK, ProcessEventReject, Online
<1>1. CASE UNCHANGED server
  BY <1>1 DEF server, VerifyEntities, CanHold
<1>2. CASE Online(p) /\ Online(i) /\ i \in children[p] /\ ID_Parent[i] = p
  <2>i. i \in Ids
    BY <1>2
  <2>0. /\ ID_Parent' = [ID_Parent EXCEPT ![i] = Nobody]
        /\ children' = [children EXCEPT ![p] = @ \ {i}]
    BY <1>2
  <2>1. ServerTypeOK'
    BY <2>0, <2>i
  <2>2. (\A q, x \in Ids : x \in children[q] <=> ID_Parent[x] = q)'
    <3> SUFFICES ASSUME NEW q \in Ids, NEW x \in Ids
                 PROVE  x \in children'[q] <=> ID_Parent'[x] = q
      OBVIOUS
    <3>1. x \in children[q] <=> ID_Parent[x] = q
      BY DEF VerifyEntities
    <3>2. CASE x = i
      BY <1>2, <2>0, <2>i, <3>1, <3>2
    <3>3. CASE x # i
      BY <2>0, <2>i, <3>1, <3>3
    <3> QED BY <3>2, <3>3
  <2>3. (\A x \in Ids : ID_Parent[x] # Nobody =>
            where[x] = where[ID_Parent[x]] /\ CanHold(ID_Parent[x], x))'
    BY <2>0, <2>i DEF VerifyEntities, CanHold
  <2>4. (\A x \in Ids : where[x] = "absent" =>
            ID_Parent[x] = Nobody /\ children[x] = {})'
    BY <2>0, <2>i DEF VerifyEntities
  <2>5. (\A r \in Rockets : where[r] # "offline")'
    BY DEF VerifyEntities
  <2> QED BY <2>1, <2>2, <2>3, <2>4, <2>5 DEF VerifyEntities
<1> QED BY <1>1, <1>2 DEF server

(* The destruction of an entity takes its whole tree.                      *)
LEMMA DestroyIInv ==
    ASSUME IInv, NEW i \in Ids, ProcessEventDestroy(i)
    PROVE  IInv'
<1> USE NobodyAssumption DEF IInv, ServerTypeOK
<1> DEFINE T == Subtree(i)
<1>0. /\ where' = [x \in Ids |-> IF x \in T THEN "absent" ELSE where[x]]
      /\ ID_Parent' = [x \in Ids |-> IF x \in T THEN Nobody ELSE ID_Parent[x]]
      /\ children' = [x \in Ids |-> IF x \in T THEN {} ELSE children[x] \ {i}]
      /\ i \in T
  BY DEF ProcessEventDestroy, Subtree
<1>c. \A y \in Ids : /\ ID_Parent[y] \in T => y \in T
                     /\ y \in T /\ y # i => ID_Parent[y] \in T
  BY SubtreeClosed
<1> HIDE DEF T
<1>1. ServerTypeOK'
  BY <1>0
<1>2. (\A q, x \in Ids : x \in children[q] <=> ID_Parent[x] = q)'
  <2> SUFFICES ASSUME NEW q \in Ids, NEW x \in Ids
               PROVE  x \in children'[q] <=> ID_Parent'[x] = q
    OBVIOUS
  <2>1. x \in children[q] <=> ID_Parent[x] = q
    BY DEF VerifyEntities
  <2>2. CASE q \in T
    BY <1>0, <1>c, <2>1, <2>2
  <2>3. CASE q \notin T /\ x \in T
    BY <1>0, <1>c, <2>1, <2>3
  <2>4. CASE q \notin T /\ x \notin T
    BY <1>0, <2>1, <2>4
  <2> QED BY <2>2, <2>3, <2>4
<1>3. (\A x \in Ids : ID_Parent[x] # Nobody =>
          where[x] = where[ID_Parent[x]] /\ CanHold(ID_Parent[x], x))'
  BY <1>0, <1>c DEF VerifyEntities, CanHold
<1>4. (\A x \in Ids : where[x] = "absent" =>
          ID_Parent[x] = Nobody /\ children[x] = {})'
  BY <1>0 DEF VerifyEntities
<1>5. (\A r \in Rockets : where[r] # "offline")'
  BY <1>0 DEF VerifyEntities, Ids
<1> QED BY <1>1, <1>2, <1>3, <1>4, <1>5 DEF VerifyEntities

(* A spawned entity has an id that nothing refers to.                      *)
LEMMA SpawnIInv ==
    ASSUME IInv, NEW i \in Ids, NEW p \in Ids \cup {Nobody}, Spawn(i, p)
    PROVE  IInv'
<1> USE NobodyAssumption DEF IInv, ServerTypeOK
<1>0. /\ where' = [where EXCEPT ![i] = "online"]
      /\ ID_Parent' = [ID_Parent EXCEPT ![i] = p]
      /\ children' = [x \in Ids |-> IF x = p THEN children[x] \cup {i}
                                    ELSE children[x]]
      /\ where[i] = "absent"
      /\ p = Nobody \/ (CanHold(p, i) /\ where[p] = "online")
  BY DEF Spawn, IdFree, Online
<1>1. ServerTypeOK'
  BY <1>0
<1>a. ID_Parent[i] = Nobody /\ children[i] = {} /\ p # i
  BY <1>0 DEF VerifyEntities
<1>b. \A x \in Ids : ID_Parent[x] # i
  BY <1>a DEF VerifyEntities
<1>2. (\A q, x \in Ids : x \in children[q] <=> ID_Parent[x] = q)'
  <2> SUFFICES ASSUME NEW q \in Ids, NEW x \in Ids
               PROVE  x \in children'[q] <=> ID_Parent'[x] = q
    OBVIOUS
  <2>1. x \in children[q] <=> ID_Parent[x] = q
    BY DEF VerifyEntities
  <2>2. CASE x = i
    BY <1>0, <1>a, <2>1, <2>2
  <2>3. CASE x # i
    BY <1>0, <2>1, <2>3
  <2> QED BY <2>2, <2>3
<1>3. (\A x \in Ids : ID_Parent[x] # Nobody =>
          where[x] = where[ID_Parent[x]] /\ CanHold(ID_Parent[x], x))'
  BY <1>0, <1>a, <1>b DEF VerifyEntities, CanHold
<1>4. (\A x \in Ids : where[x] = "absent" =>
          ID_Parent[x] = Nobody /\ children[x] = {})'
  BY <1>0, <1>a DEF VerifyEntities
<1>5. (\A r \in Rockets : where[r] # "offline")'
  BY <1>0 DEF VerifyEntities, Ids
<1> QED BY <1>1, <1>2, <1>3, <1>4, <1>5 DEF VerifyEntities

(* A tree goes online as a whole.                                          *)
LEMMA OnlineIInv ==
    ASSUME IInv, NEW o \in Ids, SwitchOnline(o)
    PROVE  IInv'
<1> USE NobodyAssumption DEF IInv, ServerTypeOK
<1> DEFINE T == {o} \cup children[o]
<1>0. /\ where' = [x \in Ids |-> IF x \in T THEN "online" ELSE where[x]]
      /\ UNCHANGED <<ID_Parent, children>>
      /\ where[o] = "offline" /\ ID_Parent[o] = Nobody
  BY DEF SwitchOnline
<1>1. ServerTypeOK'
  BY <1>0
<1>2. (\A q, x \in Ids : x \in children[q] <=> ID_Parent[x] = q)'
  BY <1>0 DEF VerifyEntities
<1>3. ASSUME NEW x \in Ids, ID_Parent[x] # Nobody
      PROVE  x \in T <=> ID_Parent[x] \in T
  <2> DEFINE k == ID_Parent[x]
  <2>1. k \in Ids /\ where[x] = where[k] /\ CanHold(k, x)
    BY <1>3 DEF VerifyEntities
  <2>2. x \in T => k = o
    BY <1>0, <1>3 DEF VerifyEntities
  <2>3. ASSUME k \in T, k # o
        PROVE  FALSE
    <3>1. ID_Parent[k] = o /\ CanHold(o, k) /\ where[k] = "offline"
      BY <1>0, <2>1, <2>3 DEF VerifyEntities
    <3>2. x \in Rockets \/ k \in Rockets
      BY <2>1, <3>1, KindsAssumption DEF CanHold
    <3> QED BY <2>1, <3>1, <3>2 DEF VerifyEntities
  <2>4. k = o => x \in T
    BY DEF VerifyEntities
  <2> QED BY <2>2, <2>3, <2>4
<1>4. (\A x \in Ids : ID_Parent[x] # Nobody =>
          where[x] = where[ID_Parent[x]] /\ CanHold(ID_Parent[x], x))'
  <2> SUFFICES ASSUME NEW x \in Ids, ID_Parent[x] # Nobody
               PROVE  /\ where'[x] = where'[ID_Parent[x]]
                      /\ CanHold(ID_Parent[x], x)
    BY <1>0 DEF CanHold
  <2>1. where[x] = where[ID_Parent[x]] /\ CanHold(ID_Parent[x], x)
    BY DEF VerifyEntities
  <2> HIDE DEF T
  <2> QED BY <1>0, <1>3, <2>1
<1>5. (\A x \in Ids : where[x] = "absent" =>
          ID_Parent[x] = Nobody /\ children[x] = {})'
  BY <1>0 DEF VerifyEntities
<1>6. (\A r \in Rockets : where[r] # "offline")'
  BY <1>0 DEF VerifyEntities, Ids
<1> QED BY <1>1, <1>2, <1>4, <1>5, <1>6 DEF VerifyEntities

(* A tree goes offline as a whole, but for the rockets, which are deleted. *)
LEMMA OfflineIInv ==
    ASSUME IInv, NEW o \in Ids, RemoveOnline(o)
    PROVE  IInv'
<1> USE NobodyAssumption DEF IInv, ServerTypeOK
<1> DEFINE T == Subtree(o)
<1>0. /\ where' = [x \in Ids |-> IF x \notin T THEN where[x]
                                 ELSE IF x \in Rockets THEN "absent"
                                 ELSE "offline"]
      /\ ID_Parent' = [x \in Ids |-> IF x \in T \cap Rockets THEN Nobody
                                     ELSE ID_Parent[x]]
      /\ children' = [x \in Ids |-> IF x \in T THEN children[x] \ Rockets
                                    ELSE children[x]]
      /\ ID_Parent[o] = Nobody /\ o \notin Rockets /\ o \in T
  BY DEF RemoveOnline, Kept, Subtree
<1>c. \A y \in Ids : /\ ID_Parent[y] \in T => y \in T
                     /\ y \in T /\ y # o => ID_Parent[y] \in T
  BY SubtreeClosed
<1>r. \A r \in Rockets, y \in Ids : ID_Parent[y] # r
  BY KindsAssumption DEF VerifyEntities, CanHold, Ids
<1> HIDE DEF T
<1>1. ServerTypeOK'
  BY <1>0
<1>2. (\A q, x \in Ids : x \in children[q] <=> ID_Parent[x] = q)'
  <2> SUFFICES ASSUME NEW q \in Ids, NEW x \in Ids
               PROVE  x \in children'[q] <=> ID_Parent'[x] = q
    OBVIOUS
  <2>1. x \in children[q] <=> ID_Parent[x] = q
    BY DEF VerifyEntities
  <2>2. x \in children[q] => (x \in T <=> q \in T)
    BY <1>0, <1>c, <2>1
  <2> QED BY <1>0, <2>1, <2>2
<1>3. (\A x \in Ids : ID_Parent[x] # Nobody =>
          where[x] = where[ID_Parent[x]] /\ CanHold(ID_Parent[x], x))'
  <2> SUFFICES ASSUME NEW x \in Ids, ID_Parent'[x] # Nobody
               PROVE  /\ where'[x] = where'[ID_Parent'[x]]
                      /\ CanHold(ID_Parent'[x], x)
    BY DEF CanHold
  <2>1. ID_Parent'[x] = ID_Parent[x] /\ x \notin T \cap Rockets
    BY <1>0
  <2>2. where[x] = where[ID_Parent[x]] /\ CanHold(ID_Parent[x], x)
        /\ ID_Parent[x] \in Ids
    BY <2>1 DEF VerifyEntities
  <2>3. x \in T <=> ID_Parent[x] \in T
    BY <1>0, <1>c, <2>1
  <2>4. ID_Parent[x] \notin Rockets
    BY <1>r
  <2> QED BY <1>0, <2>1, <2>2, <2>3, <2>4
<1>4. (\A x \in Ids : where[x] = "absent" =>
          ID_Parent[x] = Nobody /\ children[x] = {})'
  <2> SUFFICES ASSUME NEW x \in Ids, where'[x] = "absent"
               PROVE  ID_Parent'[x] = Nobody /\ children'[x] = {}
    OBVIOUS
  <2>1. CASE x \in T
    <3>1. x \in Rockets
      BY <1>0, <2>1
    <3>2. children[x] = {}
      BY <1>r, <3>1 DEF VerifyEntities
    <3> QED BY <1>0, <2>1, <3>1, <3>2
  <2>2. CASE x \notin T
    BY <1>0, <2>2 DEF VerifyEntities
  <2> QED BY <2>1, <2>2
<1>5. (\A r \in Rockets : where[r] # "offline")'
  BY <1>0 DEF VerifyEntities, Ids
<1> QED BY <1>1, <1>2, <1>3, <1>4, <1>5 DEF VerifyEntities

(* The client's events change the server through a refusal only.           *)
LEMMA TakeEventIInv ==
    ASSUME IInv, NEW objects, NEW p, NEW i, Take(objects, p, i),
           UNCHANGED where
    PROVE  IInv'
<1>1. CASE UNCHANGED <<ID_Parent, children>>
  BY <1>1 DEF IInv, ServerTypeOK, VerifyEntities, CanHold
<1>2. CASE p \in Refusers /\ ProcessEventReject(p, i)
  <2>1. p \in Ids
    BY <1>2, KindsAssumption DEF Ids
  <2> QED BY <1>2, <2>1, RejectIInv
<1> QED BY <1>1, <1>2 DEF Take

(* IInv is inductive.                                                      *)
LEMMA StepIInv == IInv /\ [Next]_vars => IInv'
<1> SUFFICES ASSUME IInv, [Next]_vars
             PROVE  IInv'
  OBVIOUS
<1>s. CASE UNCHANGED server
  BY <1>s DEF server, IInv, ServerTypeOK, VerifyEntities, CanHold
<1>1. CASE Request
  <2>1. ASSUME NEW p \in Ids, NEW i \in Ids, TakeRequest(p, i)
        PROVE  IInv'
    BY <2>1, TakeIInv
  <2>2. ASSUME NEW p \in Ids, NEW i \in Ids, RejectRequest(p, i)
        PROVE  IInv'
    BY <2>2, RejectIInv DEF RejectRequest
  <2>3. ASSUME NEW i \in Ids, DestroyObject(i)
        PROVE  IInv'
    BY <2>3, <1>s, DestroyIInv DEF DestroyObject
  <2>4. ASSUME NEW i \in Ids, Release(i)
        PROVE  IInv'
    BY <2>4, DestroyIInv DEF Release
  <2>5. ASSUME NEW i \in Ids, NEW p \in Ids \cup {Nobody}, Spawn(i, p)
        PROVE  IInv'
    BY <2>5, SpawnIInv
  <2>6. ASSUME NEW i \in Ids, TeleportObject(i)
        PROVE  IInv'
    BY <2>6, OfflineIInv DEF TeleportObject
  <2> QED BY <1>1, <2>1, <2>2, <2>3, <2>4, <2>5, <2>6 DEF Request
<1>2. CASE Switch
  BY <1>2, OnlineIInv, OfflineIInv DEF Switch, SwitchOffline
<1>3. CASE ClientReceive
  BY <1>3, <1>s DEF ClientReceive
<1>4. CASE Handle
  <2> DEFINE m == Head(game_events)
  <2>1. CASE EvSpawn
    <3>1. UNCHANGED where
      BY <2>1 DEF EvSpawn
    <3>2. CASE UNCHANGED <<H_Parent, ID_Parent, children, net>>
      BY <3>1, <3>2, <1>s DEF server
    <3>3. CASE Take(object', m.dest, m.id)
      BY <3>1, <3>3, TakeEventIInv
    <3> QED BY <2>1, <3>2, <3>3 DEF EvSpawn
  <2>2. CASE EvTake
    BY <2>2, TakeEventIInv DEF EvTake
  <2>3. CASE EvReject
    BY <2>3, <1>s DEF EvReject
  <2>4. CASE EvDestroy
    BY <2>4, <1>s DEF EvDestroy
  <2> QED BY <1>4, <2>1, <2>2, <2>3, <2>4 DEF Handle
<1>5. CASE ProcessDestroyQueue
  BY <1>5, <1>s DEF ProcessDestroyQueue
<1>6. CASE UNCHANGED vars
  BY <1>6, <1>s DEF vars, server
<1> QED BY <1>1, <1>2, <1>3, <1>4, <1>5, <1>6 DEF Next

(* verify_entity holds of every entity at all times: after every event of  *)
(* the client, every spawn and every switch of ALife.                      *)
THEOREM EntitiesVerified == Spec => []VerifyEntities
<1>1. IInv => VerifyEntities
  BY DEF IInv
<1> QED BY <1>1, InitIInv, StepIInv, PTL DEF Spec
=============================================================================
