--------------------------- MODULE ObjectListProofs -------------------------
(***************************************************************************)
(* The object list, proved for any number of objects, ids and nested       *)
(* activations: the destroy queue holds the marked objects, owners outlive *)
(* what they own, ids lead to their objects, an object is active while its *)
(* count says so, the crow lists agree with the flags, and Update visits   *)
(* living objects only, owners first.                                      *)
(*                                                                         *)
(* The tree of owners and the queue belong together: the queue is          *)
(* processed from the back, so an owner must stand before what it owns     *)
(* (OwnersFirst), and nobody unmarked may hang on a marked object          *)
(* (MarksCascade), or the owner would go first.                            *)
(*                                                                         *)
(* The loop of Update climbs the tree: its waiting calls are a chain of    *)
(* owners (CallChain), without a repetition as the tree has no cycle       *)
(* (Acyclic).                                                              *)
(*                                                                         *)
(* Beside rendering two threads may be inside MakeMeCrow of one object:    *)
(* where each of the calls stands is part of the invariant (CallInv), and  *)
(* the two meet at the exchange of the frame number, which one of them     *)
(* wins.                                                                   *)
(***************************************************************************)
EXTENDS ObjectList, FiniteSetTheorems, SequenceLemmas

(* How much of the queue is still to be processed.                         *)
RestLen == IF pc = "destroy" THEN it ELSE Len(destroy_queue)
Rest    == 1 .. RestLen

TreeTypes ==
    /\ exists \subseteq Objects /\ inRuck \subseteq exists
    /\ Parent \in [Objects -> Objects \cup {NULL}]
    /\ \A o \in Objects \ exists : Parent[o] = NULL
    /\ destroy_queue \in Seq(Objects)
    /\ pc = "destroy" => it \in 0 .. Len(destroy_queue)
    /\ next \in {"create", "late"}

(* What a marked object holds is marked.                                   *)
MarksCascade ==
    /\ bDestroy \subseteq exists
    /\ \A x \in exists : Parent[x] \in bDestroy => x \in bDestroy

(* MarkedQueued, by places.                                                *)
QueueOfMarked ==
    /\ \A j \in Rest : destroy_queue[j] \in bDestroy
    /\ \A x \in bDestroy : \E j \in Rest : destroy_queue[j] = x
    /\ \A j, k \in Rest : destroy_queue[j] = destroy_queue[k] => j = k

OwnersFirst ==
    \A j \in Rest : \/ Parent[destroy_queue[j]] = NULL
                    \/ \E k \in 1 .. j - 1 : destroy_queue[k] = Parent[destroy_queue[j]]

(* An object that is being spawned holds nothing and is held by nobody.    *)
SpawnAlone ==
    pc \in {"spawn", "binder"} =>
        /\ running \in exists \ bDestroy /\ Parent[running] = NULL
        /\ \A x \in exists : Parent[x] # running

TreeInv ==
    /\ TreeTypes /\ NoDanglingParent /\ MarksCascade
    /\ QueueOfMarked /\ OwnersFirst /\ SpawnAlone

-----------------------------------------------------------------------------
(* Marking.                                                                *)

(* What is marked with o is unmarked before and closed downwards.          *)
LEMMA CascadeSet ==
    ASSUME TreeInv, NEW o \in exists \ bDestroy, NEW s \in Cascade(o)
    PROVE  /\ s \in Seq(Objects) /\ Len(s) \in Nat
           /\ \A j \in 1 .. Len(s) : s[j] \in exists \ bDestroy
           /\ \A j, k \in 1 .. Len(s) : s[j] = s[k] => j = k
           /\ \A j \in 1 .. Len(s) : s[j] = o \/ \E k \in 1 .. j - 1 : s[k] = Parent[s[j]]
           /\ \E j \in 1 .. Len(s) : s[j] = o
           /\ \A x \in exists \ bDestroy : \A j \in 1 .. Len(s) :
                 Parent[x] = s[j] => \E k \in 1 .. Len(s) : s[k] = x
<1> DEFINE S == {o} \cup (Below(o) \ bDestroy)
<1>1. S \subseteq exists \ bDestroy /\ exists \subseteq Objects
  BY DEF Below, TreeInv, TreeTypes
<1>2. IsFiniteSet(S)
  BY <1>1, ObjectsAssumption, FS_Subset
<1>3. /\ s \in SetToSeqs(S)
      /\ \A j \in 1 .. Len(s) : s[j] = o \/ \E k \in 1 .. j - 1 : s[k] = Parent[s[j]]
  BY DEF Cascade
<1>4. ASSUME NEW x \in exists \ bDestroy, Parent[x] \in S PROVE x \in S
  <2>1. SUFFICES ASSUME NEW C \in SUBSET exists,
                        \A y \in exists : Parent[y] \in C \cup {o} => y \in C
                 PROVE  x \in C
    BY DEF Below
  <2>2. Parent[x] = o \/ Parent[x] \in C
    BY <1>4, <2>1 DEF Below
  <2> QED
    BY <2>1, <2>2
<1> HIDE DEF S
<1>5. /\ s \in Seq(S) /\ Len(s) \in Nat
      /\ \A j, k \in 1 .. Len(s) : s[j] = s[k] => j = k
      /\ \A x \in S : \E j \in 1 .. Len(s) : s[j] = x
  BY <1>2, <1>3, SeqOfSet
<1>6. \A j \in 1 .. Len(s) : s[j] \in S
  BY <1>5, ElementOfSeq
<1>7. s \in Seq(Objects)
  BY <1>1, <1>5, SeqMonotonic
<1>8. o \in S
  BY DEF S
<1> QED
  BY <1>1, <1>3, <1>4, <1>5, <1>6, <1>7, <1>8

(* SetDestroy keeps the tree and the queue, where o has no owner, or has   *)
(* none after the step.                                                    *)
LEMMA SetDestroyTree ==
    ASSUME TreeInv, NEW o \in exists, SetDestroy(o), exists' = exists,
           pc = "early", pc' = "early", UNCHANGED <<next, it>>, inRuck' \subseteq exists,
           Parent' = [Parent EXCEPT ![o] = NULL]
    PROVE  TreeInv'
<1> USE ObjectsAssumption
<1>1. RestLen = Len(destroy_queue) /\ RestLen' = Len(destroy_queue')
      /\ exists \subseteq Objects
  BY DEF RestLen, TreeInv, TreeTypes
<1>2. \A x \in exists : Parent'[x] = IF x = o THEN NULL ELSE Parent[x]
  BY <1>1 DEF TreeInv, TreeTypes
<1>3. NoDanglingParent' /\ SpawnAlone'
  BY <1>2 DEF TreeInv, NoDanglingParent, SpawnAlone
<1>4. CASE o \in bDestroy
  <2>1. UNCHANGED <<bDestroy, destroy_queue>>
    BY <1>4 DEF SetDestroy, queue
  <2>2. TreeTypes'
    BY <1>1, <2>1 DEF TreeInv, TreeTypes
  <2>3. MarksCascade'
    BY <1>2, <2>1 DEF TreeInv, TreeTypes, MarksCascade
  <2>4. QueueOfMarked' /\ OwnersFirst'
    <3>1. \A j \in Rest : destroy_queue[j] \in exists
      BY DEF TreeInv, QueueOfMarked, MarksCascade
    <3> QED
      BY <1>1, <1>2, <2>1, <3>1 DEF TreeInv, QueueOfMarked, OwnersFirst, Rest
  <2> QED
    BY <1>3, <2>2, <2>3, <2>4 DEF TreeInv
<1>5. CASE o \notin bDestroy
  <2> DEFINE n == Len(destroy_queue)
  <2>1. PICK s \in Cascade(o) : /\ bDestroy' = bDestroy \cup ToSet(s)
                                /\ destroy_queue' = destroy_queue \o s
    BY <1>5 DEF SetDestroy
  <2>2. /\ s \in Seq(Objects) /\ Len(s) \in Nat
        /\ \A j \in 1 .. Len(s) : s[j] \in exists \ bDestroy
        /\ \A j, k \in 1 .. Len(s) : s[j] = s[k] => j = k
        /\ \A j \in 1 .. Len(s) : s[j] = o \/ \E k \in 1 .. j - 1 : s[k] = Parent[s[j]]
        /\ \E j \in 1 .. Len(s) : s[j] = o
        /\ \A x \in exists \ bDestroy : \A j \in 1 .. Len(s) :
              Parent[x] = s[j] => \E k \in 1 .. Len(s) : s[k] = x
    BY <1>5, CascadeSet
  <2>3. destroy_queue \in Seq(Objects) /\ n \in Nat
    BY DEF TreeInv, TreeTypes
  <2>4. /\ destroy_queue' \in Seq(Objects) /\ Len(destroy_queue') = n + Len(s)
        /\ \A j \in 1 .. n : destroy_queue'[j] = destroy_queue[j]
        /\ \A j \in n + 1 .. n + Len(s) : destroy_queue'[j] = s[j - n]
    BY <2>1, <2>2, <2>3, ConcatProperties
  <2>5. /\ \A x \in bDestroy' : x \in bDestroy \/ \E j \in 1 .. Len(s) : s[j] = x
        /\ \A j \in 1 .. Len(s) : s[j] \in bDestroy'
        /\ bDestroy \subseteq bDestroy'
    BY <2>1, <2>2, LenProperties DEF ToSet
  <2>6. TreeTypes'
    BY <1>1, <2>4 DEF TreeInv, TreeTypes
  <2>7. MarksCascade'
    <3>1. bDestroy' \subseteq exists
      BY <2>2, <2>5 DEF TreeInv, MarksCascade
    <3>2. ASSUME NEW x \in exists, Parent'[x] \in bDestroy' PROVE x \in bDestroy'
      <4>1. Parent'[x] = Parent[x] /\ Parent[x] \in bDestroy'
        BY <1>1, <1>2, <3>1, <3>2
      <4> QED
        BY <2>2, <2>5, <4>1 DEF TreeInv, MarksCascade
    <3> QED
      BY <3>1, <3>2 DEF MarksCascade
  <2>8. Rest = 1 .. n /\ Rest' = 1 .. n + Len(s)
    BY <1>1, <2>4 DEF Rest
  <2> HIDE DEF n
  <2>9. QueueOfMarked'
    <3>1. ASSUME NEW j \in Rest' PROVE destroy_queue'[j] \in bDestroy'
      <4>1. CASE j \in 1 .. n
        BY <2>4, <2>5, <2>8, <4>1 DEF TreeInv, QueueOfMarked
      <4>2. CASE j \in n + 1 .. n + Len(s)
        BY <2>2, <2>3, <2>4, <2>5, <4>2
      <4> QED
        BY <2>2, <2>3, <2>8, <3>1, <4>1, <4>2
    <3>2. ASSUME NEW x \in bDestroy' PROVE \E j \in Rest' : destroy_queue'[j] = x
      <4>1. CASE x \in bDestroy
        BY <2>2, <2>3, <2>4, <2>8, <4>1 DEF TreeInv, QueueOfMarked
      <4>2. CASE \E j \in 1 .. Len(s) : s[j] = x
        <5>1. PICK j \in 1 .. Len(s) : s[j] = x
          BY <4>2
        <5>2. n + j \in n + 1 .. n + Len(s) /\ (n + j) - n = j
          BY <2>2, <2>3
        <5>3. destroy_queue'[n + j] = s[j]
          BY <2>4, <5>2
        <5>4. n + j \in Rest'
          BY <2>2, <2>3, <2>8, <5>1
        <5> QED
          BY <5>1, <5>3, <5>4
      <4> QED
        BY <2>5, <4>1, <4>2
    <3>3. ASSUME NEW j \in Rest', NEW k \in Rest', destroy_queue'[j] = destroy_queue'[k]
          PROVE  j = k
      <4>1. \A m \in 1 .. n : destroy_queue'[m] \in bDestroy
        BY <2>4, <2>8 DEF TreeInv, QueueOfMarked
      <4>2. \A m \in n + 1 .. n + Len(s) :
               m - n \in 1 .. Len(s) /\ destroy_queue'[m] = s[m - n]
               /\ destroy_queue'[m] \notin bDestroy
        BY <2>2, <2>3, <2>4
      <4>3. CASE j \in 1 .. n /\ k \in 1 .. n
        BY <2>4, <2>8, <3>3, <4>3 DEF TreeInv, QueueOfMarked
      <4>4. CASE j \in n + 1 .. n + Len(s) /\ k \in n + 1 .. n + Len(s)
        <5>1. j - n = k - n
          BY <2>2, <3>3, <4>2, <4>4
        <5> QED
          BY <2>2, <2>3, <4>4, <5>1
      <4> QED
        BY <2>2, <2>3, <2>8, <3>3, <4>1, <4>2, <4>3, <4>4
    <3> QED
      BY <3>1, <3>2, <3>3 DEF QueueOfMarked
  <2>10. OwnersFirst'
    <3>1. SUFFICES ASSUME NEW j \in Rest'
                   PROVE  \/ Parent'[destroy_queue'[j]] = NULL
                          \/ \E k \in 1 .. j - 1 :
                                destroy_queue'[k] = Parent'[destroy_queue'[j]]
      BY DEF OwnersFirst
    <3>2. CASE j \in 1 .. n
      <4>1. destroy_queue'[j] = destroy_queue[j] /\ destroy_queue[j] \in exists \ {o}
        BY <1>5, <2>4, <2>8, <3>2 DEF TreeInv, QueueOfMarked, MarksCascade
      <4>2. \A k \in 1 .. j - 1 : destroy_queue'[k] = destroy_queue[k]
        BY <2>3, <2>4, <3>2
      <4> QED
        BY <1>2, <2>8, <3>2, <4>1, <4>2 DEF TreeInv, OwnersFirst
    <3>3. CASE j \in n + 1 .. n + Len(s)
      <4>1. j - n \in 1 .. Len(s) /\ destroy_queue'[j] = s[j - n]
        BY <2>2, <2>3, <2>4, <3>3
      <4>2. CASE s[j - n] = o
        BY <1>2, <4>1, <4>2
      <4>3. CASE s[j - n] # o
        <5>1. PICK k \in 1 .. (j - n) - 1 : s[k] = Parent[s[j - n]]
          BY <2>2, <4>1, <4>3
        <5>2. n + k \in n + 1 .. n + Len(s) /\ n + k \in 1 .. j - 1 /\ (n + k) - n = k
          BY <2>2, <2>3, <3>3, <5>1
        <5>3. destroy_queue'[n + k] = Parent'[destroy_queue'[j]]
          BY <1>2, <2>2, <2>4, <4>1, <4>3, <5>1, <5>2
        <5> QED
          BY <5>2, <5>3
      <4> QED
        BY <4>2, <4>3
    <3> QED
      BY <2>2, <2>3, <2>8, <3>2, <3>3
  <2> QED
    BY <1>3, <2>6, <2>7, <2>9, <2>10 DEF TreeInv
<1> QED
  BY <1>4, <1>5

-----------------------------------------------------------------------------
(* The tree and the queue.                                                 *)

(* At the start there is neither tree nor queue.                           *)
LEMMA InitTree == Init => TreeInv
<1> SUFFICES ASSUME Init PROVE TreeInv
  OBVIOUS
<1>1. exists = {} /\ bDestroy = {} /\ destroy_queue = <<>> /\ pc = "early"
  BY DEF Init, exists
<1>2. Len(destroy_queue) = 0 /\ destroy_queue \in Seq(Objects) /\ Rest = {}
  BY <1>1 DEF Rest, RestLen
<1> QED
  BY <1>1, <1>2 DEF Init, TreeInv, TreeTypes, NoDanglingParent, MarksCascade,
                    QueueOfMarked, OwnersFirst, SpawnAlone

(* A step that leaves the tree, the marks and the queue alone.             *)
LEMMA StillTree ==
    ASSUME TreeInv, UNCHANGED <<Parent, bDestroy, destroy_queue>>,
           exists' = exists, inRuck' \subseteq exists,
           next' \in {"create", "late"}, pc # "destroy",
           pc' \notin {"spawn", "binder"}, pc' = "destroy" => it' = Len(destroy_queue)
    PROVE  TreeInv'
<1>1. RestLen' = RestLen /\ Len(destroy_queue) \in Nat
  BY DEF RestLen, TreeInv, TreeTypes
<1> QED
  BY <1>1 DEF TreeInv, TreeTypes, NoDanglingParent, MarksCascade, QueueOfMarked,
              OwnersFirst, SpawnAlone, Rest

(* o gets the unmarked owner p, or none, and the queue stays.              *)
LEMMA ParentTree ==
    ASSUME TreeInv, UNCHANGED <<bDestroy, destroy_queue, next>>,
           NEW o \in exists, NEW p \in {NULL} \cup (exists \ bDestroy),
           p # NULL => o \notin bDestroy,
           Parent' = [Parent EXCEPT ![o] = p],
           exists' = exists, inRuck' \subseteq exists,
           pc # "destroy", pc' \notin {"spawn", "binder", "destroy"}
    PROVE  TreeInv'
<1> USE ObjectsAssumption
<1>1. RestLen' = RestLen /\ exists \subseteq Objects
  BY DEF RestLen, TreeInv, TreeTypes
<1>2. \A x \in exists : Parent'[x] = IF x = o THEN p ELSE Parent[x]
  BY <1>1 DEF TreeInv, TreeTypes
<1>3. TreeTypes' /\ NoDanglingParent' /\ SpawnAlone'
  BY <1>1, <1>2 DEF TreeInv, TreeTypes, NoDanglingParent, SpawnAlone
<1>4. MarksCascade'
  BY <1>1, <1>2 DEF TreeInv, TreeTypes, MarksCascade
<1>5. QueueOfMarked'
  BY <1>1 DEF TreeInv, QueueOfMarked, Rest
<1>6. OwnersFirst'
  <2>1. \A j \in Rest : destroy_queue[j] \in exists /\ destroy_queue[j] \in bDestroy
    BY DEF TreeInv, QueueOfMarked, MarksCascade
  <2> QED
    BY <1>1, <1>2, <2>1 DEF TreeInv, OwnersFirst, Rest
<1> QED
  BY <1>3, <1>4, <1>5, <1>6 DEF TreeInv

(* An unmarked object that holds nothing is destroyed, outside the loop.   *)
LEMMA SpawnGoneTree ==
    ASSUME TreeInv, pc \in {"spawn", "binder"}, NEW id, DestroyObject(running, id),
           pc' = "early", UNCHANGED <<destroy_queue, next>>
    PROVE  TreeInv'
<1> USE ObjectsAssumption
<1>1. RestLen' = RestLen /\ exists \subseteq Objects
  BY DEF RestLen, TreeInv, TreeTypes
<1>2. /\ exists' = exists \ {running} /\ bDestroy' = bDestroy
      /\ running \in exists /\ \A x \in exists : Parent[x] # running
      /\ Parent' = [Parent EXCEPT ![running] = NULL] /\ inRuck' = inRuck \ {running}
  BY DEF TreeInv, SpawnAlone, DestroyObject, exists
<1>3. \A x \in exists' : Parent'[x] = Parent[x]
  BY <1>1, <1>2 DEF TreeInv, TreeTypes
<1>4. TreeTypes' /\ NoDanglingParent' /\ SpawnAlone'
  BY <1>1, <1>2, <1>3 DEF TreeInv, TreeTypes, NoDanglingParent, SpawnAlone
<1>5. MarksCascade'
  BY <1>2, <1>3 DEF TreeInv, MarksCascade, SpawnAlone
<1>6. QueueOfMarked'
  BY <1>1, <1>2 DEF TreeInv, QueueOfMarked, Rest
<1>7. OwnersFirst'
  <2>1. \A j \in Rest : destroy_queue[j] \in exists'
    BY <1>2 DEF TreeInv, QueueOfMarked, MarksCascade, SpawnAlone
  <2> QED
    BY <1>1, <1>3, <2>1 DEF TreeInv, OwnersFirst, Rest
<1> QED
  BY <1>4, <1>5, <1>6, <1>7 DEF TreeInv

(* A new object owns nothing and is not marked: its address was free.      *)
LEMMA CreateTree ==
    ASSUME TreeInv, NEW o \in Objects, Create(o)
    PROVE  TreeInv'
<1> USE ObjectsAssumption
<1>1. /\ exists' = exists \cup {o} /\ o \notin exists /\ pc = "create"
      /\ running' = o /\ pc' = "spawn"
      /\ UNCHANGED <<Parent, bDestroy, destroy_queue, it, next, inRuck>>
  BY DEF Create, exists, links, queue, loop
<1>2. RestLen' = RestLen
  BY <1>1 DEF RestLen
<1>3. Parent[o] = NULL /\ o \notin bDestroy /\ \A x \in exists : Parent[x] # o
  BY <1>1 DEF TreeInv, TreeTypes, MarksCascade, NoDanglingParent
<1>4. NULL \notin bDestroy
  BY DEF TreeInv, TreeTypes, MarksCascade
<1> QED
  BY <1>1, <1>2, <1>3, <1>4 DEF TreeInv, TreeTypes, NoDanglingParent, MarksCascade,
     QueueOfMarked, OwnersFirst, SpawnAlone, Rest

(* The last of the queue owns nothing any more: what it owned stood behind *)
(* it.                                                                     *)
LEMMA DestroyNextTree ==
    ASSUME TreeInv, DestroyNext
    PROVE  TreeInv'
<1> DEFINE o == destroy_queue[it]
<1> USE ObjectsAssumption
<1>1. /\ pc = "destroy" /\ pc' = "destroy" /\ it > 0 /\ it' = it - 1
      /\ UNCHANGED <<destroy_queue, next>> /\ it \in 1 .. Len(destroy_queue)
      /\ Len(destroy_queue) \in Nat
  BY DEF DestroyNext, TreeInv, TreeTypes
<1>2. Rest = 1 .. it /\ Rest' = 1 .. it - 1 /\ it \in Rest
  BY <1>1 DEF Rest, RestLen
<1>3. o \in bDestroy /\ o \in exists /\ exists \subseteq Objects
  BY <1>2 DEF TreeInv, TreeTypes, QueueOfMarked, MarksCascade
<1>4. /\ exists' = exists \ {o} /\ bDestroy' = bDestroy \ {o}
      /\ Parent' = [Parent EXCEPT ![o] = NULL] /\ inRuck' = inRuck \ {o}
  BY DEF DestroyNext, DestroyObject, exists
<1> HIDE DEF o
<1>5. ASSUME NEW x \in exists PROVE Parent[x] # o
  <2>1. SUFFICES ASSUME Parent[x] = o PROVE FALSE
    OBVIOUS
  <2>2. x \in bDestroy /\ o # NULL
    BY <1>3, <2>1 DEF TreeInv, MarksCascade
  <2>3. PICK j \in Rest : destroy_queue[j] = x
    BY <2>2 DEF TreeInv, QueueOfMarked
  <2>4. PICK k \in 1 .. j - 1 : destroy_queue[k] = o
    BY <2>1, <2>2, <2>3 DEF TreeInv, OwnersFirst
  <2>5. k \in Rest /\ k # it
    BY <1>1, <1>2, <2>3, <2>4
  <2> QED
    BY <1>2, <2>4, <2>5 DEF TreeInv, QueueOfMarked, o
<1>6. \A x \in exists' : Parent'[x] = Parent[x]
  BY <1>3, <1>4 DEF TreeInv, TreeTypes
<1>7. TreeTypes'
  BY <1>1, <1>3, <1>4 DEF TreeInv, TreeTypes
<1>8. NoDanglingParent' /\ MarksCascade' /\ SpawnAlone'
  BY <1>1, <1>4, <1>5, <1>6 DEF TreeInv, NoDanglingParent, MarksCascade, SpawnAlone
<1>9. \A j \in Rest' : j \in Rest /\ destroy_queue[j] # o /\ destroy_queue[j] \in bDestroy
  BY <1>1, <1>2 DEF TreeInv, QueueOfMarked, o
<1>10. QueueOfMarked'
  <2>1. \A j \in Rest : j = it \/ j \in Rest'
    BY <1>1, <1>2
  <2> QED
    BY <1>1, <1>4, <1>9, <2>1 DEF TreeInv, QueueOfMarked, o
<1>11. OwnersFirst'
  <2>1. \A j \in Rest' : destroy_queue[j] \in exists'
    BY <1>4, <1>9 DEF TreeInv, MarksCascade
  <2> QED
    BY <1>1, <1>6, <1>9, <2>1 DEF TreeInv, OwnersFirst
<1> QED
  BY <1>7, <1>8, <1>10, <1>11 DEF TreeInv

(* When the loop ends nothing is marked, so the queue may be cleared.      *)
LEMMA DestroyDoneTree ==
    ASSUME TreeInv, DestroyDone
    PROVE  TreeInv'
<1>1. /\ pc = "destroy" /\ it = 0 /\ destroy_queue' = <<>>
      /\ pc' = next /\ next' = "late" /\ pc' \in {"create", "late"}
      /\ exists' = exists /\ UNCHANGED <<Parent, bDestroy, inRuck>>
  BY DEF DestroyDone, TreeInv, TreeTypes, lists, links, exists
<1>2. Rest = {} /\ Rest' = {}
  BY <1>1 DEF Rest, RestLen
<1>3. bDestroy = {}
  BY <1>2 DEF TreeInv, QueueOfMarked
<1>4. destroy_queue' \in Seq(Objects)
  BY <1>1
<1> QED
  BY <1>1, <1>2, <1>3, <1>4 DEF TreeInv, TreeTypes, NoDanglingParent, MarksCascade,
     QueueOfMarked, OwnersFirst, SpawnAlone

(* Activation and deactivation of an object move it between the lists.     *)
LEMMA ListsKeep ==
    ASSUME NEW o \in exists,
           Activate(o) \/ ProcessingDeactivate(o) \/ UNCHANGED lists
    PROVE  exists' = exists
BY DEF Activate, ProcessingDeactivate, lists, exists

(* What an event, a scheduled update or an UpdateCL does leaves the same   *)
(* objects, and Update where it stands.                                    *)
LEMMA GameSteps ==
    ASSUME Game
    PROVE  /\ exists' = exists /\ UNCHANGED <<net_ID, map_NETID>>
           /\ UNCHANGED <<objects, calls, updated, running, dropped, rsDisableObjectsAsCrows>>
           /\ UNCHANGED mt /\ pc \in {"early", "updateCL", "late"}
           /\ \/ UNCHANGED <<pc, it, spawnId>>
              \/ pc = "early" /\ pc' \in {"create", "destroy"} /\ spawnId' \in Ids
           /\ pc = "updateCL" => UNCHANGED Parent
<1>1. /\ UNCHANGED <<net_ID, map_NETID>>
      /\ UNCHANGED <<objects, calls, updated, running, dropped, rsDisableObjectsAsCrows>>
      /\ UNCHANGED mt /\ pc \in {"early", "updateCL", "late"}
      /\ \/ UNCHANGED <<pc, it, spawnId>>
         \/ pc = "early" /\ pc' \in {"create", "destroy"} /\ spawnId' \in Ids
      /\ pc = "updateCL" => UNCHANGED Parent
  BY DEF Game, SetPause, BeginSpawn, Crow, GameActivate, GameDeactivate, Reject,
     DestroyEvent, DestroyReject, Take, InGame, links, flags, loop
<1>2. \/ UNCHANGED lists
      \/ \E o \in exists : Activate(o) \/ ProcessingDeactivate(o)
  BY DEF Game, SetPause, BeginSpawn, Crow, GameActivate, GameDeactivate, Reject,
     DestroyEvent, DestroyReject, Take, TakeItem, DropItem, ProcessingActivate
<1>3. exists' = exists
  BY <1>2, ListsKeep DEF lists, exists
<1> QED
  BY <1>1, <1>3

(* What happens beside rendering leaves everything but the crows, the      *)
(* activity of items and the rucksack alone.                               *)
LEMMA RenderSteps ==
    ASSUME Rendering
    PROVE  /\ UNCHANGED <<Parent, net_ID, map_NETID, queue, flags, loop, pc>>
           /\ UNCHANGED <<updated, running, spawnId, dropped>>
           /\ exists' = exists /\ inRuck' \subseteq inRuck \cup exists
           /\ UNCHANGED lists \/ pc = "render"
           /\ \/ UNCHANGED lists
              \/ \E o \in exists : Activate(o) \/ ProcessingDeactivate(o)
           /\ Counted \/ UNCHANGED ops
<1>1. ASSUME NEW t \in {0, 1}, CrowStep(t)
      PROVE  UNCHANGED <<lists, links, queue, flags, loop, pc, updated, running,
                         spawnId, dropped, ops>>
  BY <1>1 DEF CrowStep, CrowTest, CrowEnabled, CrowExchange, CrowFlag, CrowList, GoOn
<1>2. ASSUME NEW o \in exists, RenderCrow(o) \/ MtSlot(o) \/ MtRuck(o)
      PROVE  /\ UNCHANGED <<Parent, net_ID, map_NETID, queue, flags, loop, pc>>
             /\ UNCHANGED <<updated, running, spawnId, dropped>>
             /\ inRuck' \subseteq inRuck \cup {o} /\ pc = "render"
             /\ UNCHANGED lists \/ Activate(o) \/ ProcessingDeactivate(o)
             /\ Counted \/ UNCHANGED ops
  BY <1>2 DEF RenderCrow, MtSlot, MtRuck, links
<1>3. \/ \E t \in {0, 1} : CrowStep(t)
      \/ \E o \in exists : RenderCrow(o) \/ MtSlot(o) \/ MtRuck(o)
  BY DEF Rendering
<1>4. ASSUME NEW t \in {0, 1}, CrowStep(t) PROVE exists' = exists
  BY <1>1, <1>4 DEF lists, exists
<1>5. ASSUME NEW o \in exists, RenderCrow(o) \/ MtSlot(o) \/ MtRuck(o)
      PROVE  exists' = exists
  BY <1>2, <1>5, ListsKeep
<1> QED
  BY <1>1, <1>2, <1>3, <1>4, <1>5 DEF links

-----------------------------------------------------------------------------
(* Every step keeps the tree and the queue.                                *)

(* The steps of Update touch the tree in the destroy loop only.            *)
LEMMA FrameTree ==
    ASSUME TreeInv, Frame
    PROVE  TreeInv'
<1>1. CASE DestroyNext
  BY <1>1, DestroyNextTree
<1>2. CASE DestroyDone
  BY <1>2, DestroyDoneTree
<1>3. CASE BeginUpdate
  <2>1. /\ UNCHANGED <<lists, links, queue>> /\ pc = "early" /\ next' = "late"
        /\ pc' \in {"destroy", "update"}
        /\ pc' = "destroy" => it' = Len(destroy_queue)
    BY <1>3 DEF BeginUpdate
  <2> QED
    BY <2>1, StillTree DEF lists, links, queue, exists, TreeInv, TreeTypes
<1>4. CASE \/ SingleUpdate \/ ParentFirst \/ NoParentFirst
           \/ UpdateCL \/ UpdateCLReturn \/ EndFrame \/ BeginFrame
  <2>1. /\ UNCHANGED <<lists, links, queue, next>>
        /\ pc \in {"update", "climb", "updateCL", "late", "render"}
        /\ pc' \in {"update", "climb", "updateCL", "render", "early"}
    BY <1>4 DEF SingleUpdate, ParentFirst, NoParentFirst, UpdateCL, UpdateCLReturn,
       EndFrame, BeginFrame, loop
  <2> QED
    BY <2>1, StillTree DEF lists, links, queue, exists, TreeInv, TreeTypes
<1>5. CASE UpdateDone
  BY <1>5, StillTree DEF UpdateDone, lists, links, queue, exists, TreeInv, TreeTypes
<1> QED
  BY <1>1, <1>2, <1>3, <1>4, <1>5 DEF Frame

(* A spawn hangs its object on an unmarked owner or takes it back.         *)
LEMMA SpawningTree ==
    ASSUME TreeInv, Spawning
    PROVE  TreeInv'
<1>1. CASE \E o \in Objects : Create(o)
  BY <1>1, CreateTree
<1>2. CASE SpawnRejected
  BY <1>2, SpawnGoneTree DEF SpawnRejected, EndSpawn, loop
<1>3. CASE SpawnFails
  BY <1>3, SpawnGoneTree DEF SpawnFails, EndSpawn, loop
<1>4. ASSUME NEW p, NEW ruck, SpawnSucceeds(p, ruck) PROVE TreeInv'
  <2>1. /\ p \in {NULL} \cup (exists \ bDestroy) /\ pc = "binder" /\ pc' = "early"
        /\ p # NULL => Parent' = [Parent EXCEPT ![running] = p]
        /\ p = NULL => UNCHANGED Parent
        /\ UNCHANGED <<bDestroy, destroy_queue, next>>
        /\ inRuck' \subseteq inRuck \cup {running}
        /\ ProcessingDeactivate(running) \/ UNCHANGED lists
    BY <1>4 DEF SpawnSucceeds, TakeItem, EndSpawn, queue, loop
  <2>2. /\ running \in exists \ bDestroy
        /\ Parent' = [Parent EXCEPT ![running] = p]
    BY <2>1 DEF TreeInv, TreeTypes, SpawnAlone
  <2>3. exists' = exists
    BY <2>1, <2>2, ListsKeep
  <2>4. inRuck' \subseteq exists
    BY <2>1, <2>2 DEF TreeInv, TreeTypes
  <2> QED
    BY <2>1, <2>2, <2>3, <2>4, ParentTree
<1>5. CASE NetSpawn
  <2>1. /\ UNCHANGED <<Parent, inRuck, bDestroy, destroy_queue, next, it, running>>
        /\ pc = "spawn" /\ pc' = "binder" /\ Activate(running)
    BY <1>5 DEF NetSpawn, queue, loop
  <2>2. exists' = exists
    BY <2>1, ListsKeep DEF TreeInv, SpawnAlone
  <2>3. RestLen' = RestLen
    BY <2>1 DEF RestLen
  <2> QED
    BY <2>1, <2>2, <2>3 DEF TreeInv, TreeTypes, NoDanglingParent, MarksCascade,
       QueueOfMarked, OwnersFirst, SpawnAlone, Rest
<1> QED
  BY <1>1, <1>2, <1>3, <1>4, <1>5 DEF Spawning

(* Events move unmarked objects in the tree or mark whole branches of it.  *)
LEMMA GameTree ==
    ASSUME TreeInv, Game
    PROVE  TreeInv'
<1>1. CASE SetPause
  BY <1>1, StillTree DEF SetPause, InGame, lists, links, queue, loop, exists, TreeInv, TreeTypes
<1>2. CASE \E i \in Ids : BeginSpawn(i)
  BY <1>2, StillTree DEF BeginSpawn, lists, links, queue, exists, TreeInv, TreeTypes
<1>3. ASSUME NEW o \in exists, Crow(o) \/ GameActivate(o) \/ GameDeactivate(o)
      PROVE  TreeInv'
  <2>1. /\ UNCHANGED <<Parent, bDestroy, destroy_queue, next, pc, inRuck>>
        /\ pc \notin {"spawn", "binder", "destroy"}
        /\ Activate(o) \/ ProcessingDeactivate(o) \/ UNCHANGED lists
    BY <1>3 DEF Crow, GameActivate, GameDeactivate, InGame, ProcessingActivate,
                links, queue, loop
  <2>2. exists' = exists
    BY <2>1, ListsKeep
  <2> QED
    BY <2>1, <2>2, StillTree DEF TreeInv, TreeTypes
<1>4. ASSUME NEW o \in exists, Reject(o) PROVE TreeInv'
  <2>1. /\ UNCHANGED <<bDestroy, destroy_queue, next, pc>> /\ pc = "early"
        /\ Parent' = [Parent EXCEPT ![o] = NULL] /\ inRuck' = inRuck \ {o}
        /\ Activate(o) \/ UNCHANGED lists
    BY <1>4 DEF Reject, DropItem, queue, loop
  <2>2. exists' = exists
    BY <2>1, ListsKeep
  <2> QED
    BY <2>1, <2>2, ParentTree DEF TreeInv, TreeTypes
<1>5. ASSUME NEW o \in exists, DestroyEvent(o) PROVE TreeInv'
  <2>1. Parent' = [Parent EXCEPT ![o] = NULL]
    BY <1>5 DEF DestroyEvent, links, TreeInv, TreeTypes
  <2>2. /\ SetDestroy(o) /\ pc = "early" /\ pc' = "early" /\ UNCHANGED <<next, it>>
        /\ exists' = exists /\ inRuck' \subseteq exists
    BY <1>5 DEF DestroyEvent, lists, links, loop, exists, TreeInv, TreeTypes
  <2> QED
    BY <2>1, <2>2, SetDestroyTree
<1>6. ASSUME NEW o \in exists, DestroyReject(o) PROVE TreeInv'
  <2>1. /\ SetDestroy(o) /\ pc = "early" /\ pc' = "early" /\ UNCHANGED <<next, it>>
        /\ Parent' = [Parent EXCEPT ![o] = NULL] /\ inRuck' = inRuck \ {o}
        /\ Activate(o) \/ UNCHANGED lists
    BY <1>6 DEF DestroyReject, DropItem, loop
  <2>2. exists' = exists
    BY <2>1, ListsKeep
  <2>3. inRuck' \subseteq exists
    BY <2>1 DEF TreeInv, TreeTypes
  <2> QED
    BY <2>1, <2>2, <2>3, SetDestroyTree
<1>7. ASSUME NEW p \in exists, NEW c \in exists, NEW ruck, Take(p, c, ruck) PROVE TreeInv'
  <2>1. /\ UNCHANGED <<bDestroy, destroy_queue, next, pc>> /\ pc = "early"
        /\ p \in exists \ bDestroy /\ c \in exists \ bDestroy
        /\ Parent' = [Parent EXCEPT ![c] = p] /\ inRuck' \subseteq inRuck \cup {c}
        /\ ProcessingDeactivate(c) \/ UNCHANGED lists
    BY <1>7 DEF Take, TakeItem, queue, loop
  <2>2. exists' = exists
    BY <2>1, ListsKeep
  <2>3. inRuck' \subseteq exists
    BY <2>1 DEF TreeInv, TreeTypes
  <2> QED
    BY <2>1, <2>2, <2>3, ParentTree
<1> QED
  BY <1>1, <1>2, <1>3, <1>4, <1>5, <1>6, <1>7 DEF Game

(* Beside rendering the tree stays.                                        *)
LEMMA RenderTree ==
    ASSUME TreeInv, Rendering
    PROVE  TreeInv'
<1>1. /\ UNCHANGED <<Parent, bDestroy, destroy_queue, next, it, pc, running>>
      /\ exists' = exists /\ inRuck' \subseteq inRuck \cup exists
  BY RenderSteps DEF queue, loop
<1>2. RestLen' = RestLen
  BY <1>1 DEF RestLen
<1> QED
  BY <1>1, <1>2 DEF TreeInv, TreeTypes, NoDanglingParent, MarksCascade,
     QueueOfMarked, OwnersFirst, SpawnAlone, Rest

(* TreeInv is inductive.                                                   *)
LEMMA StepTree == TreeInv /\ [Next]_vars => TreeInv'
<1> SUFFICES ASSUME TreeInv, [Next]_vars PROVE TreeInv'
  OBVIOUS
<1>1. CASE UNCHANGED vars
  BY <1>1 DEF vars, lists, links, queue, loop, exists, TreeInv, TreeTypes,
     NoDanglingParent, MarksCascade, QueueOfMarked, OwnersFirst, SpawnAlone, Rest, RestLen
<1> QED
  BY <1>1, FrameTree, SpawningTree, RenderTree, GameTree DEF Next

(* The tree and the queue fit together in every state.                     *)
THEOREM TreeInvariant == Spec => []TreeInv
<1> QED
  BY InitTree, StepTree, PTL DEF Spec

(* The owner of an object outlives it: Parent is never dangling, whatever  *)
(* was taken, dropped, marked or destroyed before.                         *)
THEOREM OwnersOutlive == Spec => []NoDanglingParent
<1>1. TreeInv => NoDanglingParent
  BY DEF TreeInv
<1> QED
  BY <1>1, TreeInvariant, PTL

(* What is left of the queue holds the marked objects, each once.          *)
THEOREM QueueHoldsMarked == Spec => []MarkedQueued
<1>1. TreeInv => MarkedQueued
  <2>1. SUFFICES ASSUME TreeInv PROVE MarkedQueued
    OBVIOUS
  <2> DEFINE rest == IF pc = "destroy" THEN SubSeq(destroy_queue, 1, it) ELSE destroy_queue
  <2>2. destroy_queue \in Seq(Objects) /\ Len(destroy_queue) \in Nat
    BY <2>1 DEF TreeInv, TreeTypes
  <2>3. DOMAIN rest = Rest /\ \A j \in Rest : rest[j] = destroy_queue[j]
    <3>1. CASE pc = "destroy"
      <4>1. it \in 0 .. Len(destroy_queue)
        BY <2>1, <3>1 DEF TreeInv, TreeTypes
      <4>2. Len(rest) = it /\ rest \in Seq(Objects)
            /\ \A j \in 1 .. it : rest[j] = destroy_queue[j]
        BY <2>2, <3>1, <4>1, SubSeqProperties
      <4> QED
        BY <3>1, <4>2, LenProperties DEF Rest, RestLen
    <3>2. CASE pc # "destroy"
      BY <2>2, <3>2, LenProperties DEF Rest, RestLen
    <3> QED
      BY <3>1, <3>2
  <2> HIDE DEF rest
  <2>4. ToSet(rest) = bDestroy
    BY <2>1, <2>3 DEF TreeInv, QueueOfMarked, ToSet
  <2>5. IsInjective(rest)
    BY <2>1, <2>3 DEF TreeInv, QueueOfMarked, IsInjective
  <2> QED
    BY <2>4, <2>5 DEF MarkedQueued, rest
<1> QED
  BY <1>1, TreeInvariant, PTL

-----------------------------------------------------------------------------
(* Ids.                                                                    *)

(* An object has no id before its spawn is done, nor after its end.        *)
IdInv ==
    /\ net_ID \in [Objects -> Ids]
    /\ map_NETID \in [Ids -> Objects \cup {NULL}]
    /\ spawnId \in Ids
    /\ \A o \in Objects : o \notin Spawned => net_ID[o] = 0
    /\ FoundById

(* At the start no id is in use.                                           *)
LEMMA InitId == Init => IdInv
BY IdsAssumption DEF Init, IdInv, FoundById, Spawned, exists

(* A step that touches no id and leaves the same objects spawned.          *)
LEMMA SameIds ==
    ASSUME IdInv, Spawned' = Spawned, UNCHANGED <<net_ID, map_NETID>>, spawnId' \in Ids
    PROVE  IdInv'
BY DEF IdInv, FoundById

(* The end of an object with the id that names it.                         *)
LEMMA OwnIdGone ==
    ASSUME IdInv, exists \subseteq Objects, NEW o \in exists,
           DestroyObject(o, net_ID[o]),
           Spawned = exists, Spawned' = exists', spawnId' \in Ids
    PROVE  IdInv'
<1> USE ObjectsAssumption, IdsAssumption
<1>1. spawnId' \in Ids
  OBVIOUS
<1>2. o \in exists /\ exists \subseteq Objects
  OBVIOUS
<1>3. /\ exists' = exists \ {o} /\ net_ID' = [net_ID EXCEPT ![o] = 0]
      /\ map_NETID' = [map_NETID EXCEPT ![net_ID[o]] = NULL]
  BY DEF DestroyObject, exists
<1>4. Spawned = exists /\ Spawned' = exists'
  OBVIOUS
<1>5. /\ \A x \in Objects : net_ID'[x] = IF x = o THEN 0 ELSE net_ID[x]
      /\ \A i \in Ids : map_NETID'[i] = IF i = net_ID[o] THEN NULL ELSE map_NETID[i]
  BY <1>3 DEF IdInv
<1>6. /\ net_ID' \in [Objects -> Ids] /\ map_NETID' \in [Ids -> Objects \cup {NULL}]
      /\ spawnId' \in Ids
  BY <1>1, <1>2, <1>3 DEF IdInv
<1>7. \A x \in Objects : x \notin Spawned' => net_ID'[x] = 0
  BY <1>3, <1>4, <1>5 DEF IdInv
<1>8. \A x \in Spawned' : net_ID'[x] # 0 => map_NETID'[net_ID'[x]] = x
  BY <1>2, <1>3, <1>4, <1>5, <1>6 DEF IdInv, FoundById
<1>9. \A i \in Ids : map_NETID'[i] # NULL =>
         map_NETID'[i] \in Spawned' /\ net_ID'[map_NETID'[i]] = i
  BY <1>2, <1>3, <1>4, <1>5 DEF IdInv, FoundById
<1> QED
  BY <1>6, <1>7, <1>8, <1>9 DEF IdInv, FoundById

(* The queue destroys spawned objects.                                     *)
LEMMA DestroyNextId ==
    ASSUME TreeInv, IdInv, DestroyNext
    PROVE  IdInv'
<1>1. /\ pc = "destroy" /\ pc' = "destroy" /\ it \in Rest
      /\ UNCHANGED spawnId
      /\ DestroyObject(destroy_queue[it], net_ID[destroy_queue[it]])
  BY DEF DestroyNext, TreeInv, TreeTypes, Rest, RestLen
<1>2. destroy_queue[it] \in exists /\ exists \subseteq Objects
  BY <1>1 DEF TreeInv, TreeTypes, QueueOfMarked, MarksCascade
<1>3. Spawned = exists /\ Spawned' = exists' /\ spawnId' \in Ids
  BY <1>1 DEF Spawned, IdInv
<1> QED
  BY <1>1, <1>2, <1>3, OwnIdGone

(* An object that the binder refuses has the id that names it.             *)
LEMMA SpawnFailsId ==
    ASSUME TreeInv, IdInv, SpawnFails
    PROVE  IdInv'
<1>1. /\ pc = "binder" /\ pc' = "early" /\ spawnId' = 0
      /\ DestroyObject(running, net_ID[running])
  BY DEF SpawnFails, EndSpawn
<1>2. running \in exists /\ exists \subseteq Objects
  BY <1>1 DEF TreeInv, TreeTypes, SpawnAlone
<1>3. Spawned = exists /\ Spawned' = exists' /\ spawnId' \in Ids
  BY <1>1, IdsAssumption DEF Spawned
<1> QED
  BY <1>1, <1>2, <1>3, OwnIdGone

(* A spawn that is rejected clears the id 0.                               *)
LEMMA SpawnRejectedId ==
    ASSUME TreeInv, IdInv, SpawnRejected
    PROVE  IdInv'
<1> USE ObjectsAssumption, IdsAssumption
<1>1. PICK id \in Ids : DestroyObject(running, id) /\ id = 0
  BY DEF SpawnRejected
<1>2. /\ pc = "spawn" /\ pc' = "early" /\ running \in exists /\ exists \subseteq Objects
      /\ spawnId' \in Ids
  BY DEF SpawnRejected, EndSpawn, TreeInv, TreeTypes, SpawnAlone
<1>3. /\ exists' = exists \ {running} /\ net_ID' = [net_ID EXCEPT ![running] = 0]
      /\ map_NETID' = [map_NETID EXCEPT ![id] = NULL]
  BY <1>1 DEF DestroyObject, exists
<1>4. Spawned' = Spawned /\ running \notin Spawned /\ running \in Objects
  BY <1>2, <1>3 DEF Spawned
<1>5. /\ \A x \in Objects : net_ID'[x] = net_ID[x]
      /\ \A i \in Ids : map_NETID'[i] = IF i = id THEN NULL ELSE map_NETID[i]
  BY <1>3, <1>4 DEF IdInv
<1>6. net_ID' \in [Objects -> Ids] /\ map_NETID' \in [Ids -> Objects \cup {NULL}]
  BY <1>3 DEF IdInv
<1>7. \A x \in Spawned : net_ID[x] # 0 => net_ID[x] \in Ids /\ net_ID[x] # id /\ x \in Objects
  BY <1>1, <1>2 DEF IdInv, FoundById, Spawned
<1>8. \A x \in Spawned' : net_ID'[x] # 0 => map_NETID'[net_ID'[x]] = x
  <2>1. SUFFICES ASSUME NEW x \in Spawned, net_ID[x] # 0
                 PROVE  net_ID'[x] = net_ID[x] /\ map_NETID'[net_ID[x]] = x
    BY <1>4, <1>5, <1>7, <1>2 DEF Spawned
  <2>2. map_NETID[net_ID[x]] = x
    BY <2>1 DEF IdInv, FoundById
  <2> QED
    BY <1>5, <1>7, <2>1, <2>2
<1>9. \A i \in Ids : map_NETID'[i] # NULL =>
         map_NETID'[i] \in Spawned' /\ net_ID'[map_NETID'[i]] = i
  BY <1>2, <1>4, <1>5 DEF IdInv, FoundById, Spawned
<1> QED
  BY <1>2, <1>4, <1>5, <1>6, <1>8, <1>9 DEF IdInv, FoundById

(* A spawned object gets an id that was free.                              *)
LEMMA NetSpawnId ==
    ASSUME TreeInv, IdInv, NetSpawn
    PROVE  IdInv'
<1> USE ObjectsAssumption, IdsAssumption
<1>1. /\ pc = "spawn" /\ pc' = "binder"
      /\ running \in exists /\ exists \subseteq Objects
      /\ map_NETID[spawnId] = NULL /\ UNCHANGED spawnId /\ spawnId \in Ids
      /\ net_ID' = [net_ID EXCEPT ![running] = spawnId]
      /\ map_NETID' = [map_NETID EXCEPT ![spawnId] = running]
      /\ Activate(running)
  BY DEF NetSpawn, TreeInv, TreeTypes, SpawnAlone, IdInv
<1>2. exists' = exists
  BY <1>1, ListsKeep
<1>3. Spawned' = exists /\ Spawned = exists \ {running}
  BY <1>1, <1>2 DEF Spawned
<1>4. /\ \A x \in Objects : net_ID'[x] = IF x = running THEN spawnId ELSE net_ID[x]
      /\ \A i \in Ids : map_NETID'[i] = IF i = spawnId THEN running ELSE map_NETID[i]
  BY <1>1 DEF IdInv
<1>5. net_ID' \in [Objects -> Ids] /\ map_NETID' \in [Ids -> Objects \cup {NULL}]
  BY <1>1 DEF IdInv
<1>6. \A x \in Spawned : net_ID[x] # 0 => net_ID[x] # spawnId
  BY <1>1 DEF IdInv, FoundById, Spawned
<1>7. \A x \in Spawned' : net_ID'[x] # 0 => map_NETID'[net_ID'[x]] = x
  BY <1>1, <1>3, <1>4, <1>6 DEF IdInv, FoundById
<1>8. \A i \in Ids : map_NETID'[i] # NULL =>
         map_NETID'[i] \in Spawned' /\ net_ID'[map_NETID'[i]] = i
  BY <1>1, <1>3, <1>4 DEF IdInv, FoundById
<1> QED
  BY <1>1, <1>3, <1>4, <1>5, <1>7, <1>8 DEF IdInv, FoundById

(* IdInv is inductive, beside TreeInv: who is in the queue exists.         *)
LEMMA StepId == TreeInv /\ IdInv /\ [Next]_vars => IdInv'
<1> SUFFICES ASSUME TreeInv, IdInv, [Next]_vars PROVE IdInv'
  OBVIOUS
<1> USE IdsAssumption
<1>1. CASE UNCHANGED vars
  BY <1>1, SameIds DEF vars, lists, links, Spawned, exists, IdInv
<1>2. CASE Frame
  <2>1. CASE DestroyNext
    BY <2>1, DestroyNextId
  <2>2. CASE ~DestroyNext
    <3>1. UNCHANGED <<lists, links, spawnId>> /\ pc # "spawn" /\ pc' # "spawn"
      BY <1>2, <2>2 DEF Frame, BeginUpdate, SingleUpdate, ParentFirst, NoParentFirst,
         UpdateCL, UpdateCLReturn, UpdateDone, DestroyDone, EndFrame, BeginFrame,
         TreeInv, TreeTypes
    <3> QED
      BY <3>1, SameIds DEF lists, links, Spawned, exists, IdInv
  <2> QED
    BY <2>1, <2>2
<1>3. CASE Spawning
  <2>1. ASSUME NEW o \in Objects, Create(o) PROVE IdInv'
    <3>1. /\ exists' = exists \cup {o} /\ o \notin exists /\ pc = "create"
          /\ running' = o /\ pc' = "spawn" /\ UNCHANGED <<net_ID, map_NETID, spawnId>>
      BY <2>1 DEF Create, exists, links
    <3> QED
      BY <3>1, SameIds DEF Spawned, IdInv
  <2>2. ASSUME NEW p, NEW ruck, SpawnSucceeds(p, ruck) PROVE IdInv'
    <3>1. /\ pc = "binder" /\ pc' = "early" /\ spawnId' = 0
          /\ UNCHANGED <<net_ID, map_NETID>>
          /\ ProcessingDeactivate(running) \/ UNCHANGED lists
      BY <2>2 DEF SpawnSucceeds, TakeItem, EndSpawn
    <3>2. exists' = exists
      BY <3>1, ListsKeep DEF TreeInv, SpawnAlone
    <3> QED
      BY <3>1, <3>2, SameIds DEF Spawned
  <2> QED
    BY <1>3, <2>1, <2>2, SpawnFailsId, SpawnRejectedId, NetSpawnId DEF Spawning
<1>4. CASE Game
  BY <1>4, GameSteps, SameIds DEF Spawned, IdInv
<1>5. CASE Rendering
  BY <1>5, RenderSteps, SameIds DEF Spawned, IdInv
<1> QED
  BY <1>1, <1>2, <1>3, <1>4, <1>5 DEF Next

(* map_NETID leads from the id of a spawned object to it, and nowhere      *)
(* else: g_sv_Spawn, which only looks an id up, is enough to keep ids      *)
(* apart.                                                                  *)
THEOREM IdsLead == Spec => []FoundById
<1>1. Init => TreeInv /\ IdInv
  BY InitTree, InitId
<1>2. TreeInv /\ IdInv /\ [Next]_vars => (TreeInv /\ IdInv)'
  BY StepTree, StepId
<1>3. IdInv => FoundById
  BY DEF IdInv
<1> QED
  BY <1>1, <1>2, <1>3, PTL DEF Spec

-----------------------------------------------------------------------------
(* Activity.                                                               *)

(* Who is on neither list has no count.                                    *)
ActInv ==
    /\ bActiveCounter \in [Objects -> Nat]
    /\ \A o \in Objects \ exists : bActiveCounter[o] = 0
    /\ ActiveIffCounted

(* At the start no object is active or sleeping.                           *)
LEMMA InitAct == Init => ActInv
BY DEF Init, ActInv, ActiveIffCounted, processing_enabled, exists

(* Activation and deactivation keep lists and counts together.             *)
LEMMA CountAct ==
    ASSUME ActInv, exists \subseteq Objects, NEW o \in exists,
           Activate(o) \/ ProcessingDeactivate(o)
    PROVE  ActInv'
<1>1. exists' = exists
  BY ListsKeep
<1>2. bActiveCounter[o] \in Nat /\ MaxCounter \in Nat
  BY BoundsAssumption DEF ActInv
<1>3. CASE Activate(o)
  <2>1. /\ bActiveCounter' = [bActiveCounter EXCEPT ![o] = bActiveCounter[o] + 1]
        /\ objects_active' = objects_active \cup {o}
        /\ objects_sleeping' = objects_sleeping \ {o}
    BY <1>3 DEF Activate
  <2> QED
    BY <1>1, <1>2, <2>1 DEF ActInv, ActiveIffCounted, processing_enabled
<1>4. CASE ProcessingDeactivate(o)
  <2>1. bActiveCounter[o] > 0
        /\ bActiveCounter' = [bActiveCounter EXCEPT ![o] = bActiveCounter[o] - 1]
    BY <1>4 DEF ProcessingDeactivate
  <2>2. CASE bActiveCounter[o] = 1
    <3>1. /\ objects_active' = objects_active \ {o}
          /\ objects_sleeping' = objects_sleeping \cup {o}
      BY <1>4, <2>2 DEF ProcessingDeactivate
    <3> QED
      BY <1>1, <1>2, <2>1, <2>2, <3>1 DEF ActInv, ActiveIffCounted, processing_enabled
  <2>3. CASE bActiveCounter[o] # 1
    <3>1. UNCHANGED <<objects_active, objects_sleeping>>
      BY <1>4, <2>3 DEF ProcessingDeactivate
    <3> QED
      BY <1>1, <1>2, <2>1, <2>3, <3>1 DEF ActInv, ActiveIffCounted, processing_enabled
  <2> QED
    BY <2>2, <2>3
<1> QED
  BY <1>3, <1>4

(* Destruction takes an object off both lists and clears its count.        *)
LEMMA GoneAct ==
    ASSUME ActInv, exists \subseteq Objects, NEW o \in exists, NEW id, DestroyObject(o, id)
    PROVE  ActInv'
<1>1. /\ objects_active' = objects_active \ {o}
      /\ objects_sleeping' = objects_sleeping \ {o}
      /\ bActiveCounter' = [bActiveCounter EXCEPT ![o] = 0]
  BY DEF DestroyObject
<1>2. exists' = exists \ {o}
  BY <1>1 DEF exists
<1> QED
  BY <1>1, <1>2 DEF ActInv, ActiveIffCounted, processing_enabled

(* What the steps do to the lists and the counts.                          *)
LEMMA ListSteps ==
    ASSUME TreeInv, Next
    PROVE  \/ UNCHANGED lists
           \/ \E o \in exists : Activate(o) \/ ProcessingDeactivate(o)
           \/ \E o \in exists : \E id : DestroyObject(o, id)
           \/ \E o \in Objects : Create(o)
<1>1. CASE Frame
  <2>1. CASE DestroyNext
    <3>1. it \in Rest
      BY <2>1 DEF DestroyNext, TreeInv, TreeTypes, Rest, RestLen
    <3>2. destroy_queue[it] \in exists
      BY <3>1 DEF TreeInv, QueueOfMarked, MarksCascade
    <3> QED
      BY <2>1, <3>2 DEF DestroyNext
  <2>2. CASE ~DestroyNext
    BY <1>1, <2>2 DEF Frame, BeginUpdate, SingleUpdate, ParentFirst, NoParentFirst,
       UpdateCL, UpdateCLReturn, UpdateDone, DestroyDone, EndFrame, BeginFrame
  <2> QED
    BY <2>1, <2>2
<1>2. CASE Spawning
  <2>1. CASE SpawnRejected \/ SpawnFails
    BY <2>1 DEF SpawnRejected, SpawnFails, EndSpawn, TreeInv, SpawnAlone
  <2>2. ASSUME NEW p, NEW ruck, SpawnSucceeds(p, ruck)
        PROVE  UNCHANGED lists \/ \E o \in exists : ProcessingDeactivate(o)
    BY <2>2 DEF SpawnSucceeds, TakeItem, EndSpawn, TreeInv, SpawnAlone
  <2>3. CASE NetSpawn
    BY <2>3 DEF NetSpawn, TreeInv, SpawnAlone
  <2> QED
    BY <1>2, <2>1, <2>2, <2>3 DEF Spawning
<1>3. CASE Game
  BY <1>3 DEF Game, SetPause, BeginSpawn, Crow, GameActivate, GameDeactivate, Reject,
     DestroyEvent, DestroyReject, Take, TakeItem, DropItem, ProcessingActivate
<1>4. CASE Rendering
  BY <1>4, RenderSteps
<1> QED
  BY <1>1, <1>2, <1>3, <1>4 DEF Next

(* ActInv is inductive, beside TreeInv.                                    *)
LEMMA StepAct == TreeInv /\ ActInv /\ [Next]_vars => ActInv'
<1> SUFFICES ASSUME TreeInv, ActInv, [Next]_vars PROVE ActInv'
  OBVIOUS
<1>1. exists \subseteq Objects
  BY DEF TreeInv, TreeTypes
<1>2. CASE UNCHANGED lists
  BY <1>2 DEF lists, exists, ActInv, ActiveIffCounted, processing_enabled
<1>3. CASE \E o \in exists : Activate(o) \/ ProcessingDeactivate(o)
  BY <1>1, <1>3, CountAct
<1>4. CASE \E o \in exists : \E id : DestroyObject(o, id)
  BY <1>1, <1>4, GoneAct
<1>5. ASSUME NEW o \in Objects, Create(o) PROVE ActInv'
  <2>1. /\ o \notin exists /\ objects_sleeping' = objects_sleeping \cup {o}
        /\ UNCHANGED <<objects_active, bActiveCounter>>
        /\ exists' = exists \cup {o}
    BY <1>5 DEF Create, exists
  <2>2. bActiveCounter[o] = 0 /\ o \notin objects_active
    BY <2>1 DEF ActInv, exists
  <2> QED
    BY <2>1, <2>2 DEF ActInv, ActiveIffCounted, processing_enabled
<1> QED
  BY <1>2, <1>3, <1>4, <1>5, ListSteps DEF vars

(* An object is active exactly while its count of activations is positive, *)
(* although o_activate and o_sleep move it from both threads.              *)
THEOREM ActiveAsCounted == Spec => []ActiveIffCounted
<1>1. Init => TreeInv /\ ActInv
  BY InitTree, InitAct
<1>2. TreeInv /\ ActInv /\ [Next]_vars => (TreeInv /\ ActInv)'
  BY StepTree, StepAct
<1>3. ActInv => ActiveIffCounted
  BY DEF ActInv
<1> QED
  BY <1>1, <1>2, <1>3, PTL DEF Spec

-----------------------------------------------------------------------------
(* Crows.                                                                  *)

Idle == \A t \in {0, 1} : at[t] = "idle"

(* A call of MakeMeCrow beside rendering.  One that found the flag clear   *)
(* goes on with an object that is not flagged, or was in this frame; the   *)
(* exchange is won by one thread, which then has the object for itself.    *)
CallInv(t) ==
    /\ making[t] \in exists \cup {NULL}
    /\ at[t] \in {"idle", "test", "enabled", "exchange", "flag", "list"}
    /\ at[t] = "idle" <=> making[t] = NULL
    /\ at[t] \in {"enabled", "exchange"} => making[t] \notin crow \ asCrow
    /\ at[t] \in {"flag", "list"} => making[t] \in asCrow
    /\ at[t] = "flag" => making[t] \notin crow
    /\ at[t] = "list" => making[t] \in crow \ dropped

CallsInv ==
    /\ DOMAIN making = {0, 1} /\ making = [t \in {0, 1} |-> making[t]]
    /\ DOMAIN at = {0, 1} /\ at = [t \in {0, 1} |-> at[t]]
    /\ \A t \in {0, 1} : CallInv(t)
    /\ pc # "render" => Idle
    /\ {at[0], at[1]} \subseteq {"flag", "list"} => making[0] # making[1]

(* CrowsSound, list by list, and which objects are flagged.                *)
ListsInv ==
    /\ m_crows \in [{0, 1} -> Seq(Objects)]
    /\ IsInjective(m_crows[0]) /\ IsInjective(m_crows[1])
    /\ ToSet(m_crows[0]) \cap ToSet(m_crows[1]) = {}
    /\ ToSet(m_crows[0]) \cup ToSet(m_crows[1]) = crow \ (dropped \cup Unlisted)
    /\ dropped \subseteq crow /\ crow \subseteq exists

CrowInv == ListsInv /\ CallsInv

(* Unlisted, thread by thread.                                             *)
LEMMA UnlistedIs ==
    /\ \A x : x \in Unlisted <=> \E t \in {0, 1} : at[t] = "list" /\ x = making[t]
    /\ \A x : x \in Unlisted' <=> \E t \in {0, 1} : at'[t] = "list" /\ x = making'[t]
BY DEF Unlisted

(* While one thread runs no call is under way.                             *)
LEMMA IdleCalls ==
    ASSUME CallsInv, Idle, UNCHANGED mt
    PROVE  CallsInv' /\ Unlisted = {} /\ Unlisted' = {}
<1>1. \A t \in {0, 1} : /\ at[t] = "idle" /\ making[t] = NULL
                        /\ at'[t] = "idle" /\ making'[t] = NULL
  BY DEF CallsInv, CallInv, Idle, mt
<1>2. \A t \in {0, 1} : CallInv(t)'
  BY <1>1 DEF CallInv
<1>3. Unlisted = {} /\ Unlisted' = {}
  BY <1>1, UnlistedIs
<1>4. Idle' /\ at'[0] = "idle"
  BY <1>1 DEF Idle
<1> QED
  BY <1>2, <1>3, <1>4 DEF CallsInv, mt

LEMMA OneThread ==
    ASSUME CallsInv, Frame \/ Spawning \/ Game
    PROVE  Idle /\ UNCHANGED mt
<1>1. CASE Frame
  <2>1. UNCHANGED mt
    BY <1>1 DEF Frame, BeginUpdate, SingleUpdate, ParentFirst, NoParentFirst, UpdateCL,
       UpdateCLReturn, UpdateDone, DestroyNext, DestroyDone, EndFrame, BeginFrame
  <2>2. pc # "render" \/ (at[0] = "idle" /\ at[1] = "idle")
    BY <1>1 DEF Frame, BeginUpdate, SingleUpdate, ParentFirst, NoParentFirst, UpdateCL,
       UpdateCLReturn, UpdateDone, DestroyNext, DestroyDone, EndFrame, BeginFrame
  <2> QED
    BY <2>1, <2>2 DEF CallsInv, Idle
<1>2. CASE Spawning
  <2>1. UNCHANGED mt /\ pc \in {"create", "spawn", "binder"}
    BY <1>2 DEF Spawning, Create, SpawnRejected, NetSpawn, SpawnFails, SpawnSucceeds
  <2> QED
    BY <2>1 DEF CallsInv
<1>3. CASE Game
  BY <1>3, GameSteps DEF CallsInv
<1> QED
  BY <1>1, <1>2, <1>3

(* At the start the lists are empty.                                       *)
LEMMA InitCrow == Init => CrowInv
<1> SUFFICES ASSUME Init PROVE CrowInv
  OBVIOUS
<1>1. /\ m_crows = [t \in {0, 1} |-> <<>>] /\ crow = {} /\ dropped = {}
      /\ m_crows[0] = <<>> /\ m_crows[1] = <<>>
      /\ making = [t \in {0, 1} |-> NULL] /\ at = [t \in {0, 1} |-> "idle"]
  BY DEF Init
<1>2. <<>> \in Seq(Objects) /\ IsInjective(<<>>) /\ ToSet(<<>>) = {}
  BY DEF IsInjective, ToSet
<1>3. ListsInv
  BY <1>1, <1>2 DEF ListsInv
<1>4. \A t \in {0, 1} : CallInv(t)
  BY <1>1 DEF CallInv
<1>5. Idle /\ at[0] = "idle"
  BY <1>1 DEF Idle
<1>6. /\ DOMAIN making = {0, 1} /\ making = [t \in {0, 1} |-> making[t]]
      /\ DOMAIN at = {0, 1} /\ at = [t \in {0, 1} |-> at[t]]
  BY <1>1
<1> QED
  BY <1>3, <1>4, <1>5, <1>6 DEF CrowInv, CallsInv

(* The lists after o_crow of an object that is on neither of them.         *)
LEMMA Listed ==
    ASSUME m_crows \in [{0, 1} -> Seq(Objects)],
           IsInjective(m_crows[0]), IsInjective(m_crows[1]),
           ToSet(m_crows[0]) \cap ToSet(m_crows[1]) = {},
           NEW o \in Objects, \A v \in {0, 1} : o \notin ToSet(m_crows[v]),
           NEW t \in {0, 1}, m_crows' = [m_crows EXCEPT ![t] = Append(m_crows[t], o)]
    PROVE  /\ m_crows' \in [{0, 1} -> Seq(Objects)]
           /\ IsInjective(m_crows'[0]) /\ IsInjective(m_crows'[1])
           /\ ToSet(m_crows'[0]) \cap ToSet(m_crows'[1]) = {}
           /\ ToSet(m_crows'[0]) \cup ToSet(m_crows'[1])
                 = ToSet(m_crows[0]) \cup ToSet(m_crows[1]) \cup {o}
<1>1. PICK u : u = Append(m_crows[t], o)
  OBVIOUS
<1>2. m_crows[t] \in Seq(Objects) /\ IsInjective(m_crows[t])
  OBVIOUS
<1>3. u \in Seq(Objects) /\ IsInjective(u) /\ ToSet(u) = ToSet(m_crows[t]) \cup {o}
  BY <1>1, <1>2, AppendDistinct
<1>4. /\ m_crows'[t] = u
      /\ \A v \in {0, 1} : v # t => m_crows'[v] = m_crows[v]
      /\ m_crows' \in [{0, 1} -> Seq(Objects)]
  BY <1>1, <1>3
<1> QED
  BY <1>3, <1>4

(* An object that becomes a crow was on neither list.                      *)
LEMMA CrowMade ==
    ASSUME ListsInv, exists \subseteq Objects, exists' = exists, UNCHANGED dropped,
           Unlisted = {}, Unlisted' = {},
           NEW o \in exists, NEW e, MakeMeCrow(o, e)
    PROVE  ListsInv'
<1>1. CASE UNCHANGED <<crow, m_crows>>
  BY <1>1 DEF ListsInv
<1>2. CASE ~UNCHANGED <<crow, m_crows>>
  <2>1. /\ o \notin crow /\ crow' = crow \cup {o}
        /\ m_crows' = [m_crows EXCEPT ![0] = Append(m_crows[0], o)]
    BY <1>2 DEF MakeMeCrow
  <2>2. o \notin dropped
    BY <2>1 DEF ListsInv
  <2>3. o \in Objects /\ \A v \in {0, 1} : o \notin ToSet(m_crows[v])
    BY <2>1 DEF ListsInv
  <2>4. /\ m_crows' \in [{0, 1} -> Seq(Objects)]
        /\ IsInjective(m_crows'[0]) /\ IsInjective(m_crows'[1])
        /\ ToSet(m_crows'[0]) \cap ToSet(m_crows'[1]) = {}
        /\ ToSet(m_crows'[0]) \cup ToSet(m_crows'[1])
              = ToSet(m_crows[0]) \cup ToSet(m_crows[1]) \cup {o}
    BY <2>1, <2>3, Listed DEF ListsInv
  <2> QED
    BY <2>1, <2>2, <2>4 DEF ListsInv
<1> QED
  BY <1>1, <1>2

(* Destroy takes an object off both lists, or clears the second of them    *)
(* and leaves the flags of its objects.                                    *)
LEMMA CrowGone ==
    ASSUME ListsInv, exists \subseteq Objects, Unlisted = {}, Unlisted' = {},
           NEW o \in exists, NEW id, DestroyObject(o, id)
    PROVE  ListsInv'
<1>1. PICK u, v : u = RemoveFirst(m_crows[0], o) /\ v = RemoveFirst(m_crows[1], o)
  OBVIOUS
<1>2. /\ u \in Seq(Objects) /\ IsInjective(u) /\ ToSet(u) = ToSet(m_crows[0]) \ {o}
      /\ v \in Seq(Objects) /\ IsInjective(v) /\ ToSet(v) = ToSet(m_crows[1]) \ {o}
  BY <1>1, RemoveFirstDistinct DEF ListsInv
<1>3. /\ crow' = crow \ {o} /\ exists' = exists \ {o}
  BY DEF DestroyObject, exists
<1>4. CASE paused
  <2>1. /\ m_crows' = [t \in {0, 1} |-> RemoveFirst(m_crows[t], o)]
        /\ dropped' = dropped \ {o}
    BY <1>4 DEF DestroyObject
  <2>2. m_crows'[0] = u /\ m_crows'[1] = v /\ m_crows' \in [{0, 1} -> Seq(Objects)]
    BY <1>1, <1>2, <2>1
  <2> QED
    BY <1>2, <1>3, <2>1, <2>2 DEF ListsInv
<1>5. CASE ~paused
  <2>1. /\ m_crows' = [t \in {0, 1} |-> IF t = 1 THEN <<>> ELSE RemoveFirst(m_crows[t], o)]
        /\ dropped' = (dropped \cup ToSet(m_crows[1])) \ {o}
    BY <1>5 DEF DestroyObject
  <2>2. <<>> \in Seq(Objects) /\ IsInjective(<<>>) /\ ToSet(<<>>) = {}
    BY DEF IsInjective, ToSet
  <2>3. m_crows'[0] = u /\ m_crows'[1] = <<>> /\ m_crows' \in [{0, 1} -> Seq(Objects)]
    BY <1>1, <1>2, <2>1, <2>2
  <2> QED
    BY <1>2, <1>3, <2>1, <2>2, <2>3 DEF ListsInv
<1> QED
  BY <1>4, <1>5

(* The copy of the list that Update works through.                         *)
LEMMA Workload ==
    ASSUME TreeInv, CrowInv, BeginUpdate, pc' = "update"
    PROVE  /\ objects' \in Seq(Objects) /\ ToSet(objects') \subseteq exists
           /\ m_crows' = [t \in {0, 1} |-> <<>>]
           /\ crow' = dropped' /\ dropped' \subseteq dropped
           /\ asCrow' \subseteq asCrow
<1> DEFINE all == m_crows[0] \o m_crows[1]
<1>1. PICK w : /\ w \in IF rsDisableObjectsAsCrows THEN SetToSeqs(objects_active) ELSE {all}
               /\ objects' = w /\ m_crows' = [t \in {0, 1} |-> <<>>]
               /\ crow' = crow \ ToSet(all \o w)
               /\ asCrow' = asCrow \ ToSet(w) /\ dropped' = dropped \ ToSet(w)
  BY DEF BeginUpdate
<1>0. Unlisted = {}
  BY OneThread, IdleCalls DEF CrowInv, Frame
<1>2. /\ all \in Seq(Objects) /\ ToSet(all) = crow \ dropped
  BY <1>0, ConcatDistinct DEF CrowInv, ListsInv
<1>3. dropped \subseteq crow /\ crow \subseteq exists /\ exists \subseteq Objects
      /\ objects_active \subseteq exists
  BY DEF CrowInv, ListsInv, TreeInv, TreeTypes, exists
<1> HIDE DEF all
<1>4. CASE rsDisableObjectsAsCrows
  <2>1. w \in SetToSeqs(objects_active)
    BY <1>1, <1>4
  <2>2. IsFiniteSet(objects_active)
    BY <1>3, ObjectsAssumption, FS_Subset
  <2>3. w \in Seq(objects_active) /\ DOMAIN w = 1 .. Len(w)
    BY <2>1, <2>2, SeqOfSet
  <2>4. w \in Seq(Objects)
    BY <1>3, <2>3, SeqMonotonic
  <2>5. \A k \in DOMAIN w : w[k] \in objects_active
    BY <2>3, ElementOfSeq
  <2>6. ToSet(w) \subseteq exists
    BY <1>3, <2>5 DEF ToSet
  <2>7. ToSet(all \o w) = (crow \ dropped) \cup ToSet(w)
    BY <1>2, <2>4, ConcatDistinct
  <2> QED
    BY <1>1, <1>3, <2>4, <2>6, <2>7
<1>5. CASE ~rsDisableObjectsAsCrows
  <2>1. w = all
    BY <1>1, <1>5
  <2>2. ToSet(all \o w) = crow \ dropped
    BY <1>2, <2>1, ConcatDistinct
  <2> QED
    BY <1>1, <1>2, <1>3, <2>1, <2>2
<1> QED
  BY <1>4, <1>5

(* A thread's call of MakeMeCrow goes on, and the other one's stays.       *)
LEMMA OneCall ==
    ASSUME CallsInv, NEW t \in {0, 1}, NEW from, NEW to, from # "idle", GoOn(t, from, to)
    PROVE  /\ exists' = exists /\ UNCHANGED dropped
           /\ at[t] = from /\ making[t] \in exists
           /\ at'[t] = to /\ making'[t] = (IF to = "idle" THEN NULL ELSE making[t])
           /\ \A u \in {0, 1} : u # t => at'[u] = at[u] /\ making'[u] = making[u]
           /\ (/\ \A u \in {0, 1} : CallInv(u)'
               /\ {at'[0], at'[1]} \subseteq {"flag", "list"} => making'[0] # making'[1])
              => CallsInv'
<1>1. /\ UNCHANGED <<lists, pc, dropped>> /\ at[t] = from
      /\ at' = [at EXCEPT ![t] = to]
      /\ making' = [making EXCEPT ![t] = IF to = "idle" THEN NULL ELSE making[t]]
  BY DEF GoOn
<1>2. exists' = exists /\ pc' = pc
  BY <1>1 DEF lists, exists
<1>3. CallInv(t) /\ pc = "render" /\ making[t] # NULL
  BY <1>1 DEF CallsInv, Idle, CallInv
<1>4. /\ DOMAIN making' = {0, 1} /\ making' = [u \in {0, 1} |-> making'[u]]
      /\ DOMAIN at' = {0, 1} /\ at' = [u \in {0, 1} |-> at'[u]]
  BY <1>1 DEF CallsInv
<1>5. at'[t] = to /\ making'[t] = (IF to = "idle" THEN NULL ELSE making[t])
  BY <1>1 DEF CallsInv
<1>6. \A u \in {0, 1} : u # t => at'[u] = at[u] /\ making'[u] = making[u]
  BY <1>1 DEF CallsInv
<1>7. making[t] \in exists
  BY <1>3 DEF CallInv
<1>8. ASSUME \A u \in {0, 1} : CallInv(u)',
             {at'[0], at'[1]} \subseteq {"flag", "list"} => making'[0] # making'[1]
      PROVE  CallsInv'
  BY <1>2, <1>3, <1>4, <1>8 DEF CallsInv
<1> QED
  BY <1>1, <1>2, <1>5, <1>6, <1>7, <1>8

(* An object is listed by one thread: what the other has in hand, once the *)
(* exchange is behind it, is another object.                               *)
LEMMA OtherObject ==
    ASSUME CallsInv, NEW t \in {0, 1}, NEW u \in {0, 1}, u # t,
           at[t] \in {"flag", "list"}, at[u] \in {"flag", "list"}
    PROVE  making[u] # making[t]
<1>1. {at[0], at[1]} \subseteq {"flag", "list"} => making[0] # making[1]
  BY DEF CallsInv
<1>2. (t = 0 /\ u = 1) \/ (t = 1 /\ u = 0)
  OBVIOUS
<1> QED
  BY <1>1, <1>2

(* The test of the flag and of the activity, and a lost exchange: nothing  *)
(* is written but the frame of an object that may have it already.         *)
LEMMA CrowTested ==
    ASSUME CrowInv, NEW t \in {0, 1}, CrowTest(t) \/ CrowEnabled(t)
    PROVE  CrowInv'
<1>1. PICK from, to : /\ GoOn(t, from, to) /\ UNCHANGED <<crow, m_crows, asCrow>>
                      /\ from \in {"test", "enabled"}
                      /\ to \in {"idle", "enabled", "exchange"}
                      /\ from = "test" /\ to # "idle" => making[t] \notin crow
                      /\ from = "test" \/ to # "enabled"
  BY DEF CrowTest, CrowEnabled, crows
<1>2. CallsInv /\ from # "idle"
  BY <1>1 DEF CrowInv
<1>3. /\ exists' = exists /\ UNCHANGED dropped
      /\ at[t] = from /\ making[t] \in exists
      /\ at'[t] = to /\ making'[t] = (IF to = "idle" THEN NULL ELSE making[t])
      /\ \A u \in {0, 1} : u # t => at'[u] = at[u] /\ making'[u] = making[u]
  BY <1>1, <1>2, OneCall
<1>4. \A u \in {0, 1} : CallInv(u) /\ (making[t] # NULL)
  BY <1>1, <1>2, <1>3 DEF CallsInv, CallInv
<1>5. CallInv(t)'
  BY <1>1, <1>3, <1>4 DEF CallInv
<1>6. ASSUME NEW u \in {0, 1}, u # t PROVE CallInv(u)'
  BY <1>1, <1>3, <1>4, <1>6 DEF CallInv
<1>7. {at'[0], at'[1]} \subseteq {"flag", "list"} => making'[0] # making'[1]
  BY <1>1, <1>3
<1>8. CallsInv'
  <2>1. \A u \in {0, 1} : CallInv(u)'
    BY <1>5, <1>6
  <2> QED
    BY <1>1, <1>2, <1>7, <2>1, OneCall
<1>9. Unlisted' = Unlisted
  <2>1. \A u \in {0, 1} : (at'[u] = "list") = (at[u] = "list")
    BY <1>1, <1>3
  <2>2. \A u \in {0, 1} : at[u] = "list" => making'[u] = making[u]
    BY <1>1, <1>3
  <2> QED
    BY <2>1, <2>2, UnlistedIs
<1> QED
  BY <1>1, <1>3, <1>8, <1>9 DEF CrowInv, ListsInv

(* The winner of the exchange has an object that is not flagged, and that  *)
(* the other thread does not have past its exchange.                       *)
LEMMA CrowExchanged ==
    ASSUME CrowInv, NEW t \in {0, 1}, CrowExchange(t)
    PROVE  CrowInv'
<1>1. PICK to : /\ GoOn(t, "exchange", to) /\ UNCHANGED <<crow, m_crows>>
                /\ to = IF making[t] \in asCrow THEN "idle" ELSE "flag"
                /\ asCrow' = asCrow \cup {making[t]}
  BY DEF CrowExchange
<1>2. CallsInv
  BY DEF CrowInv
<1>3. /\ exists' = exists /\ UNCHANGED dropped
      /\ at[t] = "exchange" /\ making[t] \in exists
      /\ at'[t] = to /\ making'[t] = (IF to = "idle" THEN NULL ELSE making[t])
      /\ \A u \in {0, 1} : u # t => at'[u] = at[u] /\ making'[u] = making[u]
  BY <1>1, <1>2, OneCall
<1>4. \A u \in {0, 1} : CallInv(u) /\ (making[t] # NULL)
  BY <1>2, <1>3 DEF CallsInv, CallInv
<1>5. CallInv(t)'
  BY <1>1, <1>3, <1>4 DEF CallInv
<1>6. ASSUME NEW u \in {0, 1}, u # t PROVE CallInv(u)'
  BY <1>1, <1>3, <1>4, <1>6 DEF CallInv
<1>7. {at'[0], at'[1]} \subseteq {"flag", "list"} => making'[0] # making'[1]
  <2>1. ASSUME NEW u \in {0, 1}, u # t, at'[t] = "flag", at'[u] \in {"flag", "list"}
        PROVE  making'[u] # making'[t]
    <3>1. making[u] \in asCrow
      BY <1>3, <1>4, <2>1 DEF CallInv
    <3>2. making[t] \notin asCrow
      BY <1>1, <1>3, <2>1
    <3> QED
      BY <1>3, <2>1, <3>1, <3>2
  <2>2. CASE t = 0
    BY <1>1, <1>3, <2>1, <2>2
  <2>3. CASE t = 1
    BY <1>1, <1>3, <2>1, <2>3
  <2> QED
    BY <2>2, <2>3
<1>8. CallsInv'
  <2>1. \A u \in {0, 1} : CallInv(u)'
    BY <1>5, <1>6
  <2> QED
    BY <1>1, <1>2, <1>7, <2>1, OneCall
<1>9. Unlisted' = Unlisted
  <2>1. \A u \in {0, 1} : (at'[u] = "list") = (at[u] = "list")
    BY <1>1, <1>3
  <2>2. \A u \in {0, 1} : at[u] = "list" => making'[u] = making[u]
    BY <1>1, <1>3
  <2> QED
    BY <2>1, <2>2, UnlistedIs
<1> QED
  BY <1>1, <1>3, <1>8, <1>9 DEF CrowInv, ListsInv

(* The flag is set of an object that is not listed yet.                    *)
LEMMA CrowFlagged ==
    ASSUME CrowInv, NEW t \in {0, 1}, CrowFlag(t)
    PROVE  CrowInv'
<1>1. /\ GoOn(t, "flag", "list") /\ UNCHANGED <<m_crows, asCrow>>
      /\ crow' = crow \cup {making[t]}
  BY DEF CrowFlag
<1>2. CallsInv
  BY DEF CrowInv
<1>3. /\ exists' = exists /\ UNCHANGED dropped
      /\ at[t] = "flag" /\ making[t] \in exists
      /\ at'[t] = "list" /\ making'[t] = making[t]
      /\ \A u \in {0, 1} : u # t => at'[u] = at[u] /\ making'[u] = making[u]
  BY <1>1, <1>2, OneCall
<1>4. \A u \in {0, 1} : CallInv(u)
  BY <1>2 DEF CallsInv
<1>5. /\ making[t] \notin crow /\ making[t] \in asCrow /\ making[t] # NULL
      /\ dropped \subseteq crow
  BY <1>3, <1>4 DEF CallInv, CrowInv, ListsInv
<1>6. CallInv(t)'
  BY <1>1, <1>3, <1>5 DEF CallInv
<1>7. ASSUME NEW u \in {0, 1}, u # t PROVE CallInv(u)'
  <2>1. at[u] = "flag" => making[u] # making[t]
    BY <1>2, <1>3, <1>7, OtherObject
  <2> QED
    BY <1>1, <1>3, <1>4, <1>5, <1>7, <2>1 DEF CallInv
<1>8. {at'[0], at'[1]} \subseteq {"flag", "list"} => making'[0] # making'[1]
  <2>1. \A u \in {0, 1} : u # t /\ at[u] \in {"flag", "list"} => making[u] # making[t]
    BY <1>2, <1>3, OtherObject
  <2>2. CASE t = 0
    BY <1>3, <2>1, <2>2
  <2>3. CASE t = 1
    BY <1>3, <2>1, <2>3
  <2> QED
    BY <2>2, <2>3
<1>9. CallsInv'
  <2>1. \A u \in {0, 1} : CallInv(u)'
    BY <1>6, <1>7
  <2> QED
    BY <1>1, <1>2, <1>8, <2>1, OneCall
<1>10. Unlisted' = Unlisted \cup {making[t]}
  BY <1>3, UnlistedIs
<1> QED
  BY <1>1, <1>3, <1>5, <1>9, <1>10 DEF CrowInv, ListsInv

(* o_crow lists an object that the other thread does not list.             *)
LEMMA CrowListed ==
    ASSUME CrowInv, exists \subseteq Objects, NEW t \in {0, 1}, CrowList(t)
    PROVE  CrowInv'
<1>1. /\ GoOn(t, "list", "idle") /\ UNCHANGED crow
      /\ m_crows' = [m_crows EXCEPT ![t] = Append(m_crows[t], making[t])]
      /\ asCrow' = asCrow \cup {making[t]}
  BY DEF CrowList
<1>2. CallsInv
  BY DEF CrowInv
<1>3. /\ exists' = exists /\ UNCHANGED dropped
      /\ at[t] = "list" /\ making[t] \in exists
      /\ at'[t] = "idle" /\ making'[t] = NULL
      /\ \A u \in {0, 1} : u # t => at'[u] = at[u] /\ making'[u] = making[u]
  BY <1>1, <1>2, OneCall
<1>4. \A u \in {0, 1} : CallInv(u)
  BY <1>2 DEF CallsInv
<1>5. CallInv(t)'
  BY <1>3 DEF CallInv
<1>6. ASSUME NEW u \in {0, 1}, u # t PROVE CallInv(u)'
  BY <1>1, <1>3, <1>4, <1>6 DEF CallInv
<1>7. CallsInv'
  <2>1. \A u \in {0, 1} : CallInv(u)'
    BY <1>5, <1>6
  <2>2. {at'[0], at'[1]} \subseteq {"flag", "list"} => making'[0] # making'[1]
    BY <1>3
  <2> QED
    BY <1>1, <1>2, <2>1, <2>2, OneCall
<1>8. Unlisted' = Unlisted \ {making[t]} /\ making[t] \in Unlisted
  <2>1. \A u \in {0, 1} : u # t /\ at[u] = "list" => making[u] # making[t]
    BY <1>2, <1>3, OtherObject
  <2> QED
    BY <1>3, <2>1, UnlistedIs
<1>9. making[t] \in crow \ dropped
  BY <1>3, <1>4 DEF CallInv
<1>10. \A v \in {0, 1} : making[t] \notin ToSet(m_crows[v])
  BY <1>8 DEF CrowInv, ListsInv
<1>11. /\ m_crows' \in [{0, 1} -> Seq(Objects)]
       /\ IsInjective(m_crows'[0]) /\ IsInjective(m_crows'[1])
       /\ ToSet(m_crows'[0]) \cap ToSet(m_crows'[1]) = {}
       /\ ToSet(m_crows'[0]) \cup ToSet(m_crows'[1])
             = ToSet(m_crows[0]) \cup ToSet(m_crows[1]) \cup {making[t]}
  <2>1. making[t] \in Objects
    BY <1>3
  <2> QED
    BY <1>1, <1>10, <2>1, Listed DEF CrowInv, ListsInv
<1> QED
  BY <1>1, <1>3, <1>7, <1>8, <1>9, <1>11 DEF CrowInv, ListsInv

(* A call begins.                                                          *)
LEMMA CrowCalled ==
    ASSUME CrowInv, exists \subseteq Objects, NEW t \in {0, 1}, NEW o \in exists, pc = "render", pc' = pc,
           at[t] = "idle", exists' = exists, UNCHANGED <<crow, m_crows, asCrow, dropped>>,
           CallMakeMeCrow(t, o) \/ UNCHANGED mt
    PROVE  CrowInv'
<1>1. CallsInv
  BY DEF CrowInv
<1>2. CASE UNCHANGED mt
  <2>1. \A u \in {0, 1} : CallInv(u)'
    BY <1>1, <1>2 DEF CallsInv, CallInv, mt
  <2>2. CallsInv'
    BY <1>1, <1>2, <2>1 DEF CallsInv, mt
  <2>3. Unlisted' = Unlisted
    BY <1>2, UnlistedIs DEF mt
  <2> QED
    BY <2>2, <2>3 DEF CrowInv, ListsInv
<1>3. CASE CallMakeMeCrow(t, o)
  <2>1. making' = [making EXCEPT ![t] = o] /\ at' = [at EXCEPT ![t] = "test"]
    BY <1>3 DEF CallMakeMeCrow
  <2>2. /\ DOMAIN making' = {0, 1} /\ making' = [u \in {0, 1} |-> making'[u]]
        /\ DOMAIN at' = {0, 1} /\ at' = [u \in {0, 1} |-> at'[u]]
    BY <1>1, <2>1 DEF CallsInv
  <2>3. /\ at'[t] = "test" /\ making'[t] = o
        /\ \A u \in {0, 1} : u # t => at'[u] = at[u] /\ making'[u] = making[u]
    BY <1>1, <2>1 DEF CallsInv
  <2>4. o # NULL
    BY ObjectsAssumption
  <2>5. \A u \in {0, 1} : CallInv(u)'
    BY <1>1, <2>3, <2>4 DEF CallsInv, CallInv
  <2>6. {at'[0], at'[1]} \subseteq {"flag", "list"} => making'[0] # making'[1]
    BY <2>3
  <2>7. CallsInv'
    BY <2>2, <2>5, <2>6 DEF CallsInv
  <2>8. Unlisted' = Unlisted
    BY <2>3, UnlistedIs
  <2> QED
    BY <2>7, <2>8 DEF CrowInv, ListsInv
<1> QED
  BY <1>2, <1>3

(* What both threads do beside rendering, in any order.                    *)
LEMMA RenderCrows ==
    ASSUME CrowInv, exists \subseteq Objects, Rendering
    PROVE  CrowInv'
<1>1. ASSUME NEW t \in {0, 1}, CrowStep(t) PROVE CrowInv'
  BY <1>1, CrowTested, CrowExchanged, CrowFlagged, CrowListed DEF CrowStep
<1>2. ASSUME NEW o \in exists, RenderCrow(o) PROVE CrowInv'
  <2>1. /\ pc = "render" /\ pc' = pc /\ at[0] = "idle" /\ CallMakeMeCrow(0, o)
        /\ UNCHANGED <<lists, crow, m_crows, asCrow, dropped>>
    BY <1>2 DEF RenderCrow, crows
  <2>2. exists' = exists
    BY <2>1 DEF lists, exists
  <2> QED
    BY <2>1, <2>2, CrowCalled
<1>3. ASSUME NEW o \in exists, MtSlot(o) \/ MtRuck(o) PROVE CrowInv'
  <2>1. /\ pc = "render" /\ pc' = pc /\ at[1] = "idle"
        /\ CallMakeMeCrow(1, o) \/ UNCHANGED mt
        /\ UNCHANGED <<crow, m_crows, asCrow, dropped>>
        /\ Activate(o) \/ ProcessingDeactivate(o)
    BY <1>3 DEF MtSlot, MtRuck, crows
  <2>2. exists' = exists
    BY <2>1, ListsKeep
  <2> QED
    BY <2>1, <2>2, CrowCalled
<1> QED
  BY <1>1, <1>2, <1>3 DEF Rendering

(* A step of the one thread that runs disturbs the lists only by making    *)
(* crows, by destroying objects and by taking the workload.                *)
LEMMA OneThreadCrows ==
    ASSUME TreeInv, CrowInv, Frame \/ Spawning \/ Game
    PROVE  CrowInv'
<1>1. /\ exists \subseteq Objects /\ ListsInv /\ CallsInv'
      /\ Unlisted = {} /\ Unlisted' = {}
  BY OneThread, IdleCalls DEF TreeInv, TreeTypes, CrowInv
<1>2. ASSUME exists \subseteq exists', UNCHANGED <<crow, m_crows, dropped>>
      PROVE  ListsInv'
  BY <1>1, <1>2 DEF ListsInv
<1>3. ASSUME exists' = exists, UNCHANGED dropped, NEW o \in exists, NEW e, MakeMeCrow(o, e)
      PROVE  ListsInv'
  BY <1>1, <1>3, CrowMade
<1>4. ASSUME NEW o \in exists, NEW id, DestroyObject(o, id)
      PROVE  ListsInv'
  BY <1>1, <1>4, CrowGone
<1>5. CASE Frame
  <2>1. CASE DestroyNext
    <3>1. destroy_queue[it] \in exists
      BY <2>1 DEF DestroyNext, TreeInv, TreeTypes, Rest, RestLen, QueueOfMarked, MarksCascade
    <3> QED
      BY <1>1, <1>4, <2>1, <3>1 DEF DestroyNext, CrowInv
  <2>2. CASE BeginUpdate
    <3>1. UNCHANGED lists
      BY <2>2 DEF BeginUpdate
    <3>2. CASE pc' = "update"
      <4>1. /\ m_crows' = [t \in {0, 1} |-> <<>>]
            /\ crow' = dropped' /\ dropped' \subseteq dropped
        BY <2>2, <3>2, Workload
      <4>2. <<>> \in Seq(Objects) /\ IsInjective(<<>>) /\ ToSet(<<>>) = {}
        BY DEF IsInjective, ToSet
      <4>3. /\ m_crows' \in [{0, 1} -> Seq(Objects)]
            /\ m_crows'[0] = <<>> /\ m_crows'[1] = <<>>
        BY <4>1, <4>2
      <4>4. crow' \subseteq exists'
        BY <3>1, <4>1, <1>1 DEF ListsInv, lists, exists
      <4> QED
        BY <1>1, <4>1, <4>2, <4>3, <4>4 DEF CrowInv, ListsInv
    <3>3. CASE pc' # "update"
      <4>1. UNCHANGED <<crow, m_crows, dropped>>
        BY <2>2, <3>3 DEF BeginUpdate
      <4> QED
        BY <1>1, <1>2, <3>1, <4>1 DEF lists, exists, CrowInv
    <3> QED
      BY <3>2, <3>3
  <2>3. CASE ~DestroyNext /\ ~BeginUpdate
    <3>1. UNCHANGED <<lists, crow, m_crows, dropped>>
      BY <1>5, <2>3 DEF Frame, SingleUpdate, ParentFirst, NoParentFirst, UpdateCL,
         UpdateCLReturn, UpdateDone, DestroyDone, EndFrame, BeginFrame, crows
    <3> QED
      BY <1>1, <1>2, <3>1 DEF lists, exists, CrowInv
  <2> QED
    BY <2>1, <2>2, <2>3
<1>6. CASE Spawning
  <2>1. ASSUME NEW o \in Objects, Create(o) PROVE CrowInv'
    BY <1>1, <1>2, <2>1 DEF Create, crows, exists, CrowInv
  <2>2. CASE SpawnRejected \/ SpawnFails
    BY <1>1, <1>4, <2>2 DEF SpawnRejected, SpawnFails, EndSpawn, TreeInv, SpawnAlone, CrowInv
  <2>3. CASE NetSpawn
    <3>1. /\ running \in exists /\ MakeMeCrow(running, TRUE) /\ UNCHANGED dropped
          /\ Activate(running)
      BY <2>3 DEF NetSpawn, TreeInv, SpawnAlone
    <3> QED
      BY <1>1, <1>3, <3>1, ListsKeep DEF CrowInv
  <2>4. ASSUME NEW p, NEW ruck, SpawnSucceeds(p, ruck) PROVE CrowInv'
    <3>1. /\ running \in exists /\ UNCHANGED dropped
          /\ ProcessingDeactivate(running) \/ UNCHANGED lists
          /\ MakeMeCrow(running, TRUE) \/ UNCHANGED <<crow, m_crows>>
      BY <2>4 DEF SpawnSucceeds, TakeItem, EndSpawn, crows, TreeInv, SpawnAlone
    <3>2. exists' = exists
      BY <3>1, ListsKeep
    <3> QED
      BY <1>1, <1>2, <1>3, <3>1, <3>2 DEF CrowInv
  <2> QED
    BY <1>6, <2>1, <2>2, <2>3, <2>4 DEF Spawning
<1>7. CASE Game
  <2>1. exists' = exists /\ UNCHANGED dropped
    BY <1>7, GameSteps
  <2>2. \/ UNCHANGED <<crow, m_crows>>
        \/ \E o \in exists : \E e : MakeMeCrow(o, e)
    <3>1. ASSUME NEW o \in exists, GameActivate(o)
          PROVE  UNCHANGED <<crow, m_crows>> \/ MakeMeCrow(o, TRUE)
      BY <3>1 DEF GameActivate, ProcessingActivate, crows
    <3>2. ASSUME NEW o \in exists, Crow(o) \/ Reject(o) \/ DestroyReject(o)
          PROVE  \E e : MakeMeCrow(o, e)
      BY <3>2 DEF Crow, Reject, DestroyReject, DropItem
    <3>3. ASSUME NEW p, NEW c, NEW ruck, Take(p, c, ruck)
          PROVE  MakeMeCrow(c, TRUE)
      BY <3>3 DEF Take, TakeItem
    <3>4. ASSUME NEW o \in exists, GameDeactivate(o) \/ DestroyEvent(o)
          PROVE  UNCHANGED <<crow, m_crows>>
      BY <3>4 DEF GameDeactivate, DestroyEvent, crows
    <3>5. ASSUME SetPause \/ \E i \in Ids : BeginSpawn(i)
          PROVE  UNCHANGED <<crow, m_crows>>
      BY <3>5 DEF SetPause, BeginSpawn, crows
    <3> QED
      BY <1>7, <3>1, <3>2, <3>3, <3>4, <3>5 DEF Game
  <2> QED
    BY <1>1, <1>2, <1>3, <2>1, <2>2 DEF CrowInv
<1> QED
  BY <1>5, <1>6, <1>7

(* CrowInv is inductive, beside TreeInv.                                   *)
LEMMA StepCrow == TreeInv /\ CrowInv /\ [Next]_vars => CrowInv'
<1> SUFFICES ASSUME TreeInv, CrowInv, [Next]_vars PROVE CrowInv'
  OBVIOUS
<1>1. CASE UNCHANGED vars
  <2>1. /\ UNCHANGED <<crow, m_crows, asCrow, dropped, pc, making, at>> /\ exists' = exists
    BY <1>1 DEF vars, lists, crows, mt, exists
  <2>2. \A u \in {0, 1} : CallInv(u)'
    BY <2>1 DEF CrowInv, CallsInv, CallInv
  <2>3. CallsInv'
    BY <2>1, <2>2 DEF CrowInv, CallsInv, Idle
  <2>4. Unlisted' = Unlisted
    BY <2>1, UnlistedIs
  <2> QED
    BY <2>1, <2>3, <2>4 DEF CrowInv, ListsInv
<1>2. CASE Rendering
  BY <1>2, RenderCrows DEF TreeInv, TreeTypes
<1> QED
  BY <1>1, <1>2, OneThreadCrows DEF Next

(* The crow lists and the flags agree, whichever thread made the crow and  *)
(* however the two calls of MakeMeCrow meet, but for the lists that        *)
(* Destroy clears.                                                         *)
THEOREM CrowsAgree == Spec => []CrowsSound
<1>1. TreeInv /\ CrowInv => CrowsSound
  <2>1. ASSUME ListsInv
        PROVE  CrowsSound
    <3>1. PICK u : u = m_crows[0] \o m_crows[1]
      OBVIOUS
    <3>2. ToSet(u) = crow \ (dropped \cup Unlisted) /\ IsInjective(u)
      BY <2>1, <3>1, ConcatDistinct DEF ListsInv
    <3> QED
      BY <3>1, <3>2 DEF CrowsSound
  <2> QED
    BY <2>1 DEF CrowInv
<1>2. Init => TreeInv /\ CrowInv
  BY InitTree, InitCrow
<1>3. TreeInv /\ CrowInv /\ [Next]_vars => (TreeInv /\ CrowInv)'
  BY StepTree, StepCrow
<1> QED
  BY <1>1, <1>2, <1>3, PTL DEF Spec

-----------------------------------------------------------------------------
(* Types.                                                                  *)

(* What the other parts leave of TypeOK; the loop over the queue is at its *)
(* end when it is not running.                                             *)
RestTypes ==
    /\ bActiveCounter \in [Objects -> 0 .. MaxCounter]
    /\ asCrow \subseteq Objects /\ updated \subseteq Objects
    /\ objects \in Seq(Objects) /\ calls \in Seq(Objects)
    /\ paused \in BOOLEAN /\ moving \in BOOLEAN /\ rsDisableObjectsAsCrows \in BOOLEAN
    /\ pc \in {"early", "create", "spawn", "binder", "update", "climb", "updateCL",
               "destroy", "late", "render"}
    /\ running \in Objects \cup {NULL}
    /\ pc # "destroy" => it = 0
    /\ ops \in 0 .. MaxOps

(* At the start nothing runs.                                              *)
LEMMA InitTypes == Init => RestTypes
<1> SUFFICES ASSUME Init PROVE RestTypes
  OBVIOUS
<1>1. /\ bActiveCounter = [o \in Objects |-> 0] /\ asCrow = {} /\ updated = {}
      /\ objects = <<>> /\ calls = <<>> /\ running = NULL /\ it = 0 /\ ops = 0
      /\ pc = "early"
  BY DEF Init
<1>2. paused \in BOOLEAN /\ moving \in BOOLEAN /\ rsDisableObjectsAsCrows \in BOOLEAN
  BY DEF Init
<1>3. bActiveCounter \in [Objects -> 0 .. MaxCounter] /\ ops \in 0 .. MaxOps
  BY <1>1, BoundsAssumption
<1>4. objects \in Seq(Objects) /\ calls \in Seq(Objects)
  BY <1>1
<1> QED
  BY <1>1, <1>2, <1>3, <1>4 DEF RestTypes

(* A count stays below the limit that processing_activate verifies.        *)
LEMMA CountTypes ==
    ASSUME TreeInv, RestTypes, [Next]_vars
    PROVE  bActiveCounter' \in [Objects -> 0 .. MaxCounter]
<1>1. exists \subseteq Objects /\ MaxCounter \in Nat
  BY BoundsAssumption DEF TreeInv, TreeTypes
<1>2. CASE UNCHANGED bActiveCounter
  BY <1>2 DEF RestTypes
<1>3. ASSUME NEW o \in exists, Activate(o)
      PROVE  bActiveCounter' \in [Objects -> 0 .. MaxCounter]
  <2>1. /\ bActiveCounter[o] \in 0 .. MaxCounter /\ bActiveCounter[o] < MaxCounter
        /\ bActiveCounter' = [bActiveCounter EXCEPT ![o] = bActiveCounter[o] + 1]
    BY <1>1, <1>3 DEF Activate, RestTypes
  <2>2. bActiveCounter[o] + 1 \in 0 .. MaxCounter
    BY <1>1, <2>1
  <2> QED
    BY <2>1, <2>2 DEF RestTypes
<1>4. ASSUME NEW o \in exists, ProcessingDeactivate(o)
      PROVE  bActiveCounter' \in [Objects -> 0 .. MaxCounter]
  <2>1. /\ bActiveCounter[o] \in 0 .. MaxCounter /\ bActiveCounter[o] > 0
        /\ bActiveCounter' = [bActiveCounter EXCEPT ![o] = bActiveCounter[o] - 1]
    BY <1>1, <1>4 DEF ProcessingDeactivate, RestTypes
  <2>2. bActiveCounter[o] - 1 \in 0 .. MaxCounter
    BY <1>1, <2>1
  <2> QED
    BY <2>1, <2>2 DEF RestTypes
<1>5. ASSUME NEW o \in exists, NEW id, DestroyObject(o, id)
      PROVE  bActiveCounter' \in [Objects -> 0 .. MaxCounter]
  BY <1>1, <1>5 DEF DestroyObject, RestTypes
<1> QED
  BY <1>2, <1>3, <1>4, <1>5, ListSteps DEF vars, lists, Create

(* MakeMeCrow adds its object to the crows of the frame, if any.           *)
LEMMA CrowFrame ==
    ASSUME NEW o, NEW e, MakeMeCrow(o, e)
    PROVE  asCrow' \subseteq asCrow \cup {o}
BY DEF MakeMeCrow

(* The steps of Update.                                                    *)
LEMMA FrameTypes ==
    ASSUME TreeInv, CrowInv, RestTypes, Frame
    PROVE  RestTypes'
<1>1. bActiveCounter' \in [Objects -> 0 .. MaxCounter]
  BY CountTypes DEF Next
<1>2. exists \subseteq Objects
  BY DEF TreeInv, TreeTypes
<1>3. CASE BeginUpdate
  <2>1. CASE pc' = "update"
    <3>1. /\ objects' \in Seq(Objects) /\ asCrow' \subseteq asCrow
      BY <1>3, <2>1, Workload
    <3>2. pc = "early" /\ UNCHANGED <<flags, calls, updated, running, ops>>
          /\ UNCHANGED it
      BY <1>3, <2>1 DEF BeginUpdate
    <3> QED
      BY <1>1, <2>1, <3>1, <3>2 DEF RestTypes, flags
  <2>2. CASE pc' # "update"
    <3>1. /\ pc' = "destroy"
          /\ UNCHANGED <<flags, objects, calls, updated, running, asCrow, ops>>
      BY <1>3, <2>2 DEF BeginUpdate
    <3> QED
      BY <1>1, <3>1 DEF RestTypes, flags
  <2> QED
    BY <2>1, <2>2
<1>4. CASE SingleUpdate
  <2>1. objects # <<>> /\ objects \in Seq(Objects)
    BY <1>4 DEF SingleUpdate, RestTypes
  <2>2. Tail(objects) \in Seq(Objects) /\ Head(objects) \in Objects
    BY <2>1, TailProperties, ElementOfSeq
  <2> QED
    BY <1>1, <1>4, <2>2 DEF SingleUpdate, RestTypes, flags, crows
<1>5. CASE ParentFirst
  <2>1. running \in Objects /\ Parent[running] \in Objects \cup {NULL}
    BY <1>5 DEF ParentFirst, ToBeUpdated, RestTypes, TreeInv, TreeTypes
  <2>2. <<running>> \o calls \in Seq(Objects)
    <3>1. <<running>> \in Seq(Objects) /\ calls \in Seq(Objects)
      BY <2>1 DEF RestTypes
    <3> QED
      BY <3>1, ConcatProperties
  <2> QED
    BY <1>1, <1>5, <2>1, <2>2 DEF ParentFirst, RestTypes, flags, crows
<1>6. CASE UpdateCL
  <2>1. calls # <<>> /\ calls \in Seq(Objects)
    BY <1>6 DEF UpdateCL, RestTypes
  <2>2. Tail(calls) \in Seq(Objects) /\ Head(calls) \in Objects
    BY <2>1, TailProperties, ElementOfSeq
  <2> QED
    BY <1>1, <1>6, <2>2 DEF UpdateCL, RestTypes, flags, crows
<1>7. CASE NoParentFirst \/ UpdateCLReturn \/ UpdateDone \/ EndFrame
  BY <1>1, <1>7 DEF NoParentFirst, UpdateCLReturn, UpdateDone, EndFrame, RestTypes,
     flags, crows, loop
<1>8. CASE BeginFrame
  <2>1. /\ pc = "render" /\ pc' = "early" /\ asCrow' = {} /\ updated' = {}
        /\ moving' = ~paused
        /\ UNCHANGED <<paused, rsDisableObjectsAsCrows, loop, running, ops>>
    BY <1>8 DEF BeginFrame
  <2>2. moving' \in BOOLEAN
    BY <2>1 DEF RestTypes
  <2> QED
    BY <1>1, <2>1, <2>2 DEF RestTypes, loop
<1>9. CASE DestroyNext
  <2>1. /\ asCrow' \subseteq asCrow /\ updated' \subseteq updated /\ pc = "destroy"
        /\ UNCHANGED <<flags, objects, calls, pc, running, ops>>
    BY <1>9 DEF DestroyNext, DestroyObject
  <2> QED
    BY <1>1, <2>1 DEF RestTypes, flags
<1>10. CASE DestroyDone
  <2>1. next \in {"create", "late"}
    BY DEF TreeInv, TreeTypes
  <2> QED
    BY <1>1, <1>10, <2>1 DEF DestroyDone, RestTypes, flags, crows
<1> QED
  BY <1>3, <1>4, <1>5, <1>6, <1>7, <1>8, <1>9, <1>10 DEF Frame

(* The steps of a spawn.                                                   *)
LEMMA SpawningTypes ==
    ASSUME TreeInv, RestTypes, Spawning
    PROVE  RestTypes'
<1>1. bActiveCounter' \in [Objects -> 0 .. MaxCounter]
  BY CountTypes DEF Next
<1>2. exists \subseteq Objects
  BY DEF TreeInv, TreeTypes
<1>3. ASSUME NEW o \in Objects, Create(o) PROVE RestTypes'
  BY <1>1, <1>3 DEF Create, RestTypes, flags, loop, crows
<1>4. ASSUME EndSpawn, asCrow' \subseteq Objects, updated' \subseteq updated,
             pc # "destroy", UNCHANGED <<flags, loop, ops>>
      PROVE  RestTypes'
  BY <1>1, <1>4 DEF EndSpawn, RestTypes, flags, loop
<1>5. CASE SpawnRejected \/ SpawnFails
  <2>1. /\ EndSpawn /\ UNCHANGED <<flags, loop, ops>> /\ pc # "destroy"
        /\ \E id : DestroyObject(running, id)
    BY <1>5 DEF SpawnRejected, SpawnFails
  <2>2. asCrow' \subseteq asCrow /\ updated' \subseteq updated
    BY <2>1 DEF DestroyObject
  <2> QED
    BY <1>4, <2>1, <2>2 DEF RestTypes
<1>6. CASE NetSpawn
  <2>1. /\ UNCHANGED <<flags, loop, updated, running, ops>>
        /\ pc = "spawn" /\ pc' = "binder"
        /\ MakeMeCrow(running, TRUE) /\ running \in exists
    BY <1>6 DEF NetSpawn, TreeInv, SpawnAlone
  <2>2. asCrow' \subseteq Objects
    BY <1>2, <2>1, CrowFrame DEF RestTypes
  <2> QED
    BY <1>1, <2>1, <2>2 DEF RestTypes, flags, loop
<1>7. ASSUME NEW p, NEW ruck, SpawnSucceeds(p, ruck) PROVE RestTypes'
  <2>1. /\ EndSpawn /\ UNCHANGED <<flags, loop, updated, ops>>
        /\ MakeMeCrow(running, TRUE) \/ UNCHANGED asCrow
        /\ running \in exists /\ pc # "destroy"
    BY <1>7 DEF SpawnSucceeds, TakeItem, EndSpawn, crows, TreeInv, SpawnAlone
  <2>2. asCrow' \subseteq Objects
    BY <1>2, <2>1, CrowFrame DEF RestTypes
  <2> QED
    BY <1>4, <2>1, <2>2
<1> QED
  BY <1>3, <1>5, <1>6, <1>7 DEF Spawning

(* The calls and events of the game.                                       *)
LEMMA GameTypes ==
    ASSUME TreeInv, RestTypes, Game
    PROVE  RestTypes'
<1>1. bActiveCounter' \in [Objects -> 0 .. MaxCounter]
  BY CountTypes DEF Next
<1>2. exists \subseteq Objects
  BY DEF TreeInv, TreeTypes
<1>3. /\ UNCHANGED <<objects, calls, updated, running, rsDisableObjectsAsCrows>>
      /\ pc \in {"early", "updateCL", "late"}
      /\ \/ UNCHANGED <<pc, it>>
         \/ pc' \in {"create", "destroy"}
  BY GameSteps
<1>4. asCrow' \subseteq Objects
  <2>1. ASSUME NEW o \in exists, GameActivate(o)
        PROVE  asCrow' \subseteq asCrow \cup {o}
    BY <2>1, CrowFrame DEF GameActivate, ProcessingActivate, crows
  <2>2. ASSUME NEW o \in exists, Crow(o) \/ Reject(o) \/ DestroyReject(o)
        PROVE  asCrow' \subseteq asCrow \cup {o}
    BY <2>2, CrowFrame DEF Crow, Reject, DestroyReject, DropItem
  <2>3. ASSUME NEW p, NEW c, NEW ruck, Take(p, c, ruck)
        PROVE  asCrow' \subseteq asCrow \cup {c}
    BY <2>3, CrowFrame DEF Take, TakeItem
  <2>4. ASSUME NEW o \in exists, GameDeactivate(o) \/ DestroyEvent(o)
        PROVE  asCrow' = asCrow
    BY <2>4 DEF GameDeactivate, DestroyEvent, crows
  <2>5. ASSUME SetPause \/ \E i \in Ids : BeginSpawn(i)
        PROVE  asCrow' = asCrow
    BY <2>5 DEF SetPause, BeginSpawn, crows
  <2> QED
    BY <1>2, <2>1, <2>2, <2>3, <2>4, <2>5 DEF Game, RestTypes
<1>5. pc' # "destroy" => it' = 0
  <2>1. ASSUME NEW i, BeginSpawn(i) PROVE pc' # "destroy" => UNCHANGED it /\ pc = "early"
    BY <2>1 DEF BeginSpawn
  <2>2. ASSUME ~\E i \in Ids : BeginSpawn(i) PROVE UNCHANGED <<pc, it>>
    BY <2>2 DEF Game, SetPause, Crow, GameActivate, GameDeactivate, Reject,
       DestroyEvent, DestroyReject, Take, loop
  <2> QED
    BY <1>3, <2>1, <2>2 DEF RestTypes
<1>6. ops' \in 0 .. MaxOps
  <2>1. Counted \/ UNCHANGED ops
    BY DEF Game, SetPause, BeginSpawn, Crow, GameActivate, GameDeactivate,
       Reject, DestroyEvent, DestroyReject, Take
  <2> QED
    BY <2>1, BoundsAssumption DEF Counted, RestTypes
<1>7. paused' \in BOOLEAN /\ moving' \in BOOLEAN
  <2>1. \/ UNCHANGED <<paused, moving>>
        \/ paused' = ~paused /\ moving' = (paused \/ moving)
    BY DEF Game, SetPause, BeginSpawn, Crow, GameActivate, GameDeactivate,
       Reject, DestroyEvent, DestroyReject, Take, flags
  <2> QED
    BY <2>1 DEF RestTypes
<1> QED
  BY <1>1, <1>3, <1>4, <1>5, <1>6, <1>7 DEF RestTypes

(* Beside rendering: the object of a call exists.                          *)
LEMMA RenderTypes ==
    ASSUME TreeInv, CrowInv, RestTypes, Rendering
    PROVE  RestTypes'
<1>1. bActiveCounter' \in [Objects -> 0 .. MaxCounter]
  BY CountTypes DEF Next
<1>2. /\ UNCHANGED <<flags, loop, pc, updated, running>>
      /\ Counted \/ UNCHANGED ops
  BY RenderSteps
<1>3. asCrow' \subseteq Objects
  <2>1. ASSUME NEW t \in {0, 1}, CrowTest(t) \/ CrowEnabled(t) \/ CrowFlag(t)
        PROVE  UNCHANGED asCrow
    BY <2>1 DEF CrowTest, CrowEnabled, CrowFlag, crows
  <2>2. ASSUME NEW t \in {0, 1}, CrowExchange(t) \/ CrowList(t)
        PROVE  asCrow' \subseteq Objects
    <3>1. asCrow' = asCrow \cup {making[t]} /\ at[t] # "idle"
      BY <2>2 DEF CrowExchange, CrowList, GoOn
    <3>2. CallInv(t) /\ exists \subseteq Objects
      BY DEF CrowInv, CallsInv, TreeInv, TreeTypes
    <3>3. making[t] \in Objects
      BY <3>1, <3>2 DEF CallInv
    <3> QED
      BY <3>1, <3>3 DEF RestTypes
  <2>3. ASSUME NEW o \in exists, RenderCrow(o) \/ MtSlot(o) \/ MtRuck(o)
        PROVE  UNCHANGED asCrow
    BY <2>3 DEF RenderCrow, MtSlot, MtRuck, crows
  <2> QED
    BY <2>1, <2>2, <2>3 DEF Rendering, CrowStep, RestTypes
<1>4. ops' \in 0 .. MaxOps
  BY <1>2, BoundsAssumption DEF Counted, RestTypes
<1> QED
  BY <1>1, <1>2, <1>3, <1>4 DEF RestTypes, flags, loop

(* RestTypes is inductive, beside TreeInv and CrowInv.                     *)
LEMMA StepTypes == TreeInv /\ CrowInv /\ RestTypes /\ [Next]_vars => RestTypes'
<1> SUFFICES ASSUME TreeInv, CrowInv, RestTypes, [Next]_vars PROVE RestTypes'
  OBVIOUS
<1>1. CASE UNCHANGED vars
  BY <1>1 DEF vars, lists, crows, flags, loop, RestTypes
<1> QED
  BY <1>1, FrameTypes, SpawningTypes, RenderTypes, GameTypes DEF Next

-----------------------------------------------------------------------------
(* The loop over the crows.                                                *)

InUpdate == pc \in {"update", "climb", "updateCL"}

(* What Update still has to visit exists, and so does the object of the    *)
(* call that runs.                                                         *)
VisitAlive ==
    /\ InUpdate => ToSet(objects) \subseteq exists /\ ToSet(calls) \subseteq exists
    /\ running # NULL => running \in exists
    /\ pc \notin {"spawn", "binder", "climb", "updateCL"} => running = NULL

(* The waiting calls are a chain of owners, none of them updated yet, each *)
(* once; running stands above its end while SingleUpdate climbs, and has   *)
(* been updated before the call returns to what it holds.                  *)
CallChain ==
    /\ ~InUpdate => calls = <<>>
    /\ IsInjective(calls) /\ ToSet(calls) \cap updated = {}
    /\ \A k \in DOMAIN calls : k # 1 => Parent[calls[k]] = calls[k - 1]
    /\ calls # <<>> =>
          /\ pc = "climb"    => running = Parent[calls[1]]
          /\ pc = "update"   => ~ToBeUpdated(Parent[calls[1]])
          /\ pc = "updateCL" => Parent[calls[1]] = running
    /\ pc = "updateCL" => running \in updated

(* No object is held by itself, through others: in any set of objects one  *)
(* has its owner outside.                                                  *)
Acyclic ==
    \A S \in SUBSET exists : S # {} => \E x \in S : Parent[x] \notin S

(* The tree after a step that hangs nothing on anything.                   *)
LEMMA FewerOwners ==
    ASSUME TreeInv, Acyclic, exists' \subseteq exists,
           \A x \in exists' : Parent'[x] \in {Parent[x], NULL}
    PROVE  Acyclic'
<1>1. NULL \notin exists
  BY ObjectsAssumption DEF TreeInv, TreeTypes
<1>2. SUFFICES ASSUME NEW S \in SUBSET exists', S # {}
               PROVE  \E x \in S : Parent'[x] \notin S
  BY DEF Acyclic
<1>3. PICK x \in S : Parent[x] \notin S
  BY <1>2 DEF Acyclic
<1> QED
  BY <1>1, <1>3

(* An object without one gets an owner that it does not hold.              *)
LEMMA NewOwner ==
    ASSUME TreeInv, Acyclic, exists' = exists,
           NEW c \in exists, NEW p \in exists, p \notin Below(c) \cup {c},
           Parent' = [Parent EXCEPT ![c] = p]
    PROVE  Acyclic'
<1>1. \A x \in exists : Parent'[x] = IF x = c THEN p ELSE Parent[x]
  BY DEF TreeInv, TreeTypes
<1>2. ASSUME NEW x \in exists, Parent[x] \in Below(c) \cup {c} PROVE x \in Below(c)
  <2>1. SUFFICES ASSUME NEW C \in SUBSET exists,
                        \A y \in exists : Parent[y] \in C \cup {c} => y \in C
                 PROVE  x \in C
    BY DEF Below
  <2>2. Parent[x] = c \/ Parent[x] \in C
    BY <1>2, <2>1 DEF Below
  <2> QED
    BY <2>1, <2>2
<1>3. SUFFICES ASSUME NEW S \in SUBSET exists, S # {}
               PROVE  \E x \in S : Parent'[x] \notin S
  BY DEF Acyclic
<1>4. CASE c \notin S \/ p \notin S
  <2>1. PICK x \in S : Parent[x] \notin S
    BY <1>3 DEF Acyclic
  <2> QED
    BY <1>1, <1>4, <2>1
<1>5. CASE c \in S /\ p \in S
  <2> DEFINE T == S \ (Below(c) \cup {c})
  <2>1. p \in T /\ T \in SUBSET exists
    BY <1>5
  <2>2. PICK x \in T : Parent[x] \notin T
    <3> HIDE DEF T
    <3> QED
      BY <2>1 DEF Acyclic
  <2>3. Parent[x] \notin S
    BY <1>2, <2>2
  <2> QED
    BY <1>1, <2>2, <2>3
<1> QED
  BY <1>4, <1>5

(* Acyclic is inductive, beside TreeInv.                                   *)
LEMMA StepAcyclic == TreeInv /\ Acyclic /\ [Next]_vars => Acyclic'
<1> SUFFICES ASSUME TreeInv, Acyclic, [Next]_vars PROVE Acyclic'
  OBVIOUS
<1>1. exists \subseteq Objects /\ NULL \notin exists /\ Parent \in [Objects -> Objects \cup {NULL}]
  BY ObjectsAssumption DEF TreeInv, TreeTypes
<1>2. CASE UNCHANGED <<lists, Parent>>
  BY <1>2, FewerOwners DEF lists, exists
<1>3. CASE \E o \in exists : \E id : DestroyObject(o, id)
  BY <1>1, <1>3, FewerOwners DEF DestroyObject, exists
<1>4. CASE Frame
  <2>1. CASE DestroyNext
    <3>1. destroy_queue[it] \in exists
      BY <2>1 DEF DestroyNext, TreeInv, TreeTypes, Rest, RestLen, QueueOfMarked, MarksCascade
    <3> QED
      BY <1>3, <2>1, <3>1 DEF DestroyNext
  <2>2. CASE ~DestroyNext
    BY <1>2, <1>4, <2>2 DEF Frame, BeginUpdate, SingleUpdate, ParentFirst, NoParentFirst,
       UpdateCL, UpdateCLReturn, UpdateDone, DestroyDone, EndFrame, BeginFrame, links
  <2> QED
    BY <2>1, <2>2
<1>5. CASE Spawning
  <2>1. ASSUME NEW o \in Objects, Create(o) PROVE Acyclic'
    <3>1. exists' = exists \cup {o} /\ o \notin exists /\ UNCHANGED Parent
      BY <2>1 DEF Create, exists, links
    <3>2. Parent[o] = NULL /\ NULL \notin exists'
      BY <1>1, <3>1, ObjectsAssumption DEF TreeInv, TreeTypes
    <3>3. SUFFICES ASSUME NEW S \in SUBSET exists', S # {}
                   PROVE  \E x \in S : Parent[x] \notin S
      BY <3>1 DEF Acyclic
    <3>4. CASE o \in S
      BY <3>2, <3>4
    <3>5. CASE o \notin S
      BY <3>1, <3>3, <3>5 DEF Acyclic
    <3> QED
      BY <3>4, <3>5
  <2>2. CASE SpawnRejected \/ SpawnFails
    BY <1>3, <2>2 DEF SpawnRejected, SpawnFails, EndSpawn, TreeInv, SpawnAlone
  <2>3. ASSUME NEW p, NEW ruck, SpawnSucceeds(p, ruck) PROVE Acyclic'
    <3>1. /\ pc = "binder" /\ running \in exists /\ p \in {NULL} \cup (exists \ {running})
          /\ p # NULL => Parent' = [Parent EXCEPT ![running] = p]
          /\ p = NULL => UNCHANGED Parent
          /\ \A x \in exists : Parent[x] # running
          /\ ProcessingDeactivate(running) \/ UNCHANGED lists
      BY <2>3 DEF SpawnSucceeds, TakeItem, EndSpawn, TreeInv, SpawnAlone
    <3>2. exists' = exists
      BY <3>1, ListsKeep
    <3>3. CASE p = NULL
      BY <1>1, <3>1, <3>2, <3>3, FewerOwners
    <3>4. CASE p # NULL
      <4>1. Below(running) = {}
        <5>1. \A y \in exists : Parent[y] \in {} \cup {running} => y \in {}
          BY <3>1
        <5>2. {} \in SUBSET exists
          OBVIOUS
        <5> QED
          BY <5>1, <5>2 DEF Below
      <4>2. p \in exists /\ p \notin Below(running) \cup {running}
        BY <3>1, <3>4, <4>1
      <4> QED
        BY <3>1, <3>2, <3>4, <4>2, NewOwner
    <3> QED
      BY <3>3, <3>4
  <2>4. CASE NetSpawn
    <3>1. Activate(running) /\ running \in exists /\ UNCHANGED Parent
      BY <2>4 DEF NetSpawn, TreeInv, SpawnAlone
    <3>2. exists' = exists
      BY <3>1, ListsKeep
    <3> QED
      BY <3>1, <3>2, FewerOwners
  <2> QED
    BY <1>5, <2>1, <2>2, <2>3, <2>4 DEF Spawning
<1>6. CASE Game
  <2>1. exists' = exists
    BY <1>6, GameSteps
  <2>2. ASSUME NEW c \in exists, Reject(c) \/ DestroyReject(c) PROVE Acyclic'
    <3>1. Parent' = [Parent EXCEPT ![c] = NULL]
      BY <2>2 DEF Reject, DestroyReject, DropItem
    <3> QED
      BY <1>1, <2>1, <3>1, FewerOwners
  <2>3. ASSUME NEW p \in exists, NEW c \in exists, NEW ruck, Take(p, c, ruck) PROVE Acyclic'
    <3>1. /\ p \notin Below(c) \cup {c} /\ Parent' = [Parent EXCEPT ![c] = p]
      BY <2>3 DEF Take, TakeItem
    <3> QED
      BY <2>1, <3>1, NewOwner
  <2>4. CASE UNCHANGED Parent
    BY <1>1, <2>1, <2>4, FewerOwners
  <2>5. ASSUME NEW o \in exists,
               Crow(o) \/ GameActivate(o) \/ GameDeactivate(o) \/ DestroyEvent(o)
        PROVE  UNCHANGED Parent
    BY <2>5 DEF Crow, GameActivate, GameDeactivate, DestroyEvent, links
  <2>6. ASSUME SetPause \/ \E i \in Ids : BeginSpawn(i) PROVE UNCHANGED Parent
    BY <2>6 DEF SetPause, BeginSpawn, links
  <2> QED
    BY <1>6, <2>2, <2>3, <2>4, <2>5, <2>6 DEF Game
<1>7. CASE Rendering
  BY <1>7, RenderSteps, FewerOwners
<1> QED
  BY <1>2, <1>4, <1>5, <1>6, <1>7 DEF Next, vars, links

(* At the start there is nothing to visit and nobody holds anything.       *)
LEMMA InitVisit == Init => VisitAlive /\ CallChain /\ Acyclic
<1> SUFFICES ASSUME Init PROVE VisitAlive /\ CallChain /\ Acyclic
  OBVIOUS
<1>1. pc = "early" /\ running = NULL /\ calls = <<>> /\ exists = {}
  BY DEF Init, exists
<1>2. IsInjective(<<>>) /\ ToSet(<<>>) = {} /\ DOMAIN <<>> = {}
  BY DEF IsInjective, ToSet
<1> QED
  BY <1>1, <1>2 DEF VisitAlive, CallChain, Acyclic, InUpdate

(* VisitAlive is inductive, beside the other parts: Update destroys        *)
(* nothing while it works, and the owners it climbs to are not dangling.   *)
LEMMA StepVisit ==
    TreeInv /\ CrowInv /\ RestTypes /\ VisitAlive /\ CallChain /\ [Next]_vars => VisitAlive'
<1> SUFFICES ASSUME TreeInv, CrowInv, RestTypes, VisitAlive, CallChain, [Next]_vars
             PROVE  VisitAlive'
  OBVIOUS
<1>1. exists \subseteq Objects /\ NULL \notin exists
  BY ObjectsAssumption DEF TreeInv, TreeTypes
<1>2. objects \in Seq(Objects) /\ calls \in Seq(Objects)
  BY DEF RestTypes
<1>3. CASE BeginUpdate
  <2>1. running = NULL /\ calls = <<>> /\ UNCHANGED <<lists, running, calls>>
    BY <1>3 DEF BeginUpdate, VisitAlive, CallChain, InUpdate
  <2>2. ToSet(<<>>) = {}
    BY DEF ToSet
  <2>3. pc' = "update" => ToSet(objects') \subseteq exists
    BY <1>3, Workload
  <2>4. pc' \in {"update", "destroy"}
    BY <1>3 DEF BeginUpdate
  <2> QED
    BY <2>1, <2>2, <2>3, <2>4 DEF VisitAlive, InUpdate, lists, exists
<1>4. CASE SingleUpdate
  <2>1. /\ pc = "update" /\ objects # <<>> /\ pc' = "climb" /\ UNCHANGED <<lists, calls>>
        /\ running' = Head(objects) /\ objects' = Tail(objects)
    BY <1>4 DEF SingleUpdate
  <2>2. /\ ToSet(objects') \subseteq ToSet(objects) /\ running' \in ToSet(objects)
    BY <1>2, <2>1, TailSet
  <2> QED
    BY <2>1, <2>2 DEF VisitAlive, InUpdate, lists, exists
<1>5. CASE ParentFirst
  <2>1. /\ pc = "climb" /\ pc' = "climb" /\ running # NULL /\ UNCHANGED <<lists, objects>>
        /\ running' = Parent[running] /\ calls' = <<running>> \o calls
    BY <1>5 DEF ParentFirst, ToBeUpdated
  <2>2. running \in exists /\ (running' # NULL => running' \in exists)
    BY <2>1 DEF VisitAlive, TreeInv, NoDanglingParent
  <2>3. ToSet(calls') = {running} \cup ToSet(calls)
    <3>1. PICK f : f = <<running>>
      OBVIOUS
    <3>2. f \in Seq(Objects) /\ ToSet(f) = {running}
      BY <1>1, <2>2, <3>1 DEF ToSet
    <3>3. ToSet(f \o calls) = ToSet(f) \cup ToSet(calls)
      BY <1>2, <3>2, ConcatDistinct
    <3> QED
      BY <2>1, <3>1, <3>2, <3>3
  <2> QED
    BY <2>1, <2>2, <2>3 DEF VisitAlive, InUpdate, lists, exists
<1>6. CASE UpdateCL
  <2>1. /\ pc = "update" /\ calls # <<>> /\ pc' = "updateCL" /\ UNCHANGED <<lists, objects>>
        /\ running' = Head(calls) /\ calls' = Tail(calls)
    BY <1>6 DEF UpdateCL
  <2>2. /\ ToSet(calls') \subseteq ToSet(calls) /\ running' \in ToSet(calls)
    BY <1>2, <2>1, TailSet
  <2> QED
    BY <2>1, <2>2 DEF VisitAlive, InUpdate, lists, exists
<1>7. CASE NoParentFirst \/ UpdateCLReturn
  BY <1>7 DEF NoParentFirst, UpdateCLReturn, VisitAlive, InUpdate, lists, exists, loop
<1>8. CASE UpdateDone \/ EndFrame \/ BeginFrame \/ DestroyDone
  <2>1. /\ pc \in {"update", "late", "render", "destroy"}
        /\ pc' \in {"destroy", "render", "early", "create", "late"} /\ UNCHANGED running
    BY <1>8 DEF UpdateDone, EndFrame, BeginFrame, DestroyDone, TreeInv, TreeTypes
  <2> QED
    BY <2>1 DEF VisitAlive, InUpdate
<1>9. CASE DestroyNext
  BY <1>9 DEF DestroyNext, VisitAlive, InUpdate
<1>10. CASE Spawning
  <2>1. ASSUME NEW o \in Objects, Create(o) PROVE VisitAlive'
    BY <2>1 DEF Create, VisitAlive, InUpdate, exists
  <2>2. CASE EndSpawn
    BY <2>2 DEF EndSpawn, VisitAlive, InUpdate
  <2>3. CASE NetSpawn
    <3>1. /\ pc' = "binder" /\ UNCHANGED running
          /\ Activate(running) /\ running \in exists
      BY <2>3 DEF NetSpawn, TreeInv, SpawnAlone
    <3>2. exists' = exists
      BY <3>1, ListsKeep
    <3> QED
      BY <3>1, <3>2 DEF VisitAlive, InUpdate
  <2> QED
    BY <1>10, <2>1, <2>2, <2>3 DEF Spawning, SpawnRejected, SpawnFails, SpawnSucceeds
<1>11. CASE Game
  BY <1>11, GameSteps DEF VisitAlive, InUpdate
<1>12. CASE UNCHANGED vars
  BY <1>12 DEF vars, lists, loop, VisitAlive, InUpdate, exists
<1>13. CASE Rendering
  BY <1>13, RenderSteps DEF loop, VisitAlive, InUpdate
<1> QED
  BY <1>3, <1>4, <1>5, <1>6, <1>7, <1>8, <1>9, <1>10, <1>11, <1>12, <1>13 DEF Next, Frame

(* CallChain is inductive, beside the other parts: an owner that waits in  *)
(* the chain already would hold itself.                                    *)
LEMMA StepChain ==
    TreeInv /\ RestTypes /\ VisitAlive /\ Acyclic /\ CallChain /\ [Next]_vars => CallChain'
<1> SUFFICES ASSUME TreeInv, RestTypes, VisitAlive, Acyclic, CallChain, [Next]_vars
             PROVE  CallChain'
  OBVIOUS
<1>1. exists \subseteq Objects /\ NULL \notin exists
  BY ObjectsAssumption DEF TreeInv, TreeTypes
<1>2. calls \in Seq(Objects) /\ DOMAIN calls = 1 .. Len(calls) /\ Len(calls) \in Nat
  BY LenProperties DEF RestTypes
<1>3. IsInjective(<<>>) /\ ToSet(<<>>) = {} /\ DOMAIN <<>> = {}
  BY DEF IsInjective, ToSet
<1>4. CASE /\ calls = <<>> /\ calls' = <<>> /\ pc' # "updateCL"
  BY <1>3, <1>4 DEF CallChain
<1>5. CASE ParentFirst
  <2>1. /\ pc = "climb" /\ pc' = "climb" /\ ToBeUpdated(running) /\ running # NULL
        /\ running \notin updated
        /\ UNCHANGED <<Parent, updated>>
        /\ running' = Parent[running] /\ calls' = <<running>> \o calls
    BY <1>5 DEF ParentFirst, ToBeUpdated, links
  <2>2. running \in exists /\ ToSet(calls) \subseteq exists
    BY <2>1 DEF VisitAlive, InUpdate
  <2>3. running \notin ToSet(calls)
    <3>1. SUFFICES ASSUME running \in ToSet(calls) PROVE FALSE
      OBVIOUS
    <3>2. ToSet(calls) # {} /\ calls # <<>>
      BY <1>3, <3>1
    <3>3. PICK x \in ToSet(calls) : Parent[x] \notin ToSet(calls)
      BY <2>2, <3>2 DEF Acyclic
    <3>4. PICK k \in DOMAIN calls : x = calls[k]
      BY DEF ToSet
    <3>5. CASE k = 1
      BY <2>1, <3>1, <3>2, <3>3, <3>4, <3>5 DEF CallChain
    <3>6. CASE k # 1
      <4>1. k - 1 \in DOMAIN calls /\ Parent[x] = calls[k - 1]
        BY <1>2, <3>4, <3>6 DEF CallChain
      <4> QED
        BY <3>3, <4>1 DEF ToSet
    <3> QED
      BY <3>5, <3>6
  <2>4. PICK s : s = <<running>> \o calls
    OBVIOUS
  <2>5. /\ s \in Seq(Objects) /\ IsInjective(s) /\ ToSet(s) = ToSet(calls) \cup {running}
        /\ s # <<>> /\ Head(s) = running /\ Tail(s) = calls
    BY <1>1, <1>2, <2>2, <2>3, <2>4, PrependDistinct DEF CallChain
  <2>6. /\ s[1] = running /\ DOMAIN calls = 1 .. Len(s) - 1 /\ Len(s) \in Nat \ {0}
        /\ DOMAIN s = 1 .. Len(s)
        /\ \A j \in 1 .. Len(s) - 1 : calls[j] = s[j + 1]
    BY <2>5, TailProperties, LenProperties
  <2>7. \A k \in DOMAIN s : k # 1 => Parent[s[k]] = s[k - 1]
    <3>1. SUFFICES ASSUME NEW k \in DOMAIN s, k # 1 PROVE Parent[s[k]] = s[k - 1]
      OBVIOUS
    <3>2. k - 1 \in DOMAIN calls /\ s[k] = calls[k - 1]
      BY <2>6, <3>1
    <3>3. CASE k - 1 = 1
      <4>1. calls # <<>> /\ Parent[calls[1]] = running
        BY <1>3, <2>1, <3>2 DEF CallChain
      <4> QED
        BY <2>6, <3>2, <3>3, <4>1
    <3>4. CASE k - 1 # 1
      <4>1. Parent[calls[k - 1]] = calls[(k - 1) - 1]
        BY <3>2, <3>4 DEF CallChain
      <4>2. (k - 1) - 1 \in 1 .. Len(s) - 1 /\ (k - 1) - 1 + 1 = k - 1
        BY <2>6, <3>1, <3>4
      <4> QED
        BY <2>6, <3>2, <4>1, <4>2
    <3> QED
      BY <3>3, <3>4
  <2>8. calls' = s
    BY <2>1, <2>4
  <2> QED
    BY <2>1, <2>5, <2>6, <2>7, <2>8 DEF CallChain, InUpdate
<1>6. CASE UpdateCL
  <2>1. /\ pc = "update" /\ calls # <<>> /\ pc' = "updateCL" /\ UNCHANGED Parent
        /\ running' = Head(calls) /\ calls' = Tail(calls)
        /\ updated' = updated \cup {running'}
    BY <1>6 DEF UpdateCL, links
  <2>2. PICK t : t = Tail(calls)
    OBVIOUS
  <2>3. /\ t \in Seq(Objects) /\ IsInjective(t) /\ Head(calls) \notin ToSet(t)
        /\ ToSet(calls) = ToSet(t) \cup {Head(calls)}
    BY <1>2, <2>1, <2>2, TailDistinct DEF CallChain
  <2>4. /\ Head(calls) = calls[1] /\ DOMAIN t = 1 .. Len(calls) - 1
        /\ \A j \in 1 .. Len(calls) - 1 : t[j] = calls[j + 1]
    BY <1>2, <2>1, <2>2, TailProperties
  <2>5. \A k \in DOMAIN t : k # 1 => Parent[t[k]] = t[k - 1]
    <3>1. SUFFICES ASSUME NEW k \in DOMAIN t, k # 1 PROVE Parent[t[k]] = t[k - 1]
      OBVIOUS
    <3>2. /\ k + 1 \in DOMAIN calls /\ k + 1 # 1 /\ (k + 1) - 1 = k
          /\ k - 1 \in 1 .. Len(calls) - 1 /\ (k - 1) + 1 = k
      BY <1>2, <2>4, <3>1
    <3>3. Parent[calls[k + 1]] = calls[k]
      BY <3>2 DEF CallChain
    <3> QED
      BY <2>4, <3>2, <3>3
  <2>6. t # <<>> => Parent[t[1]] = calls[1]
    <3>1. SUFFICES ASSUME t # <<>> PROVE Parent[t[1]] = calls[1]
      OBVIOUS
    <3>2. 1 \in DOMAIN t
      BY <1>2, <2>3, <2>4, <3>1, EmptySeq, LenProperties
    <3>3. 2 \in DOMAIN calls /\ t[1] = calls[2]
      BY <1>2, <2>4, <3>2
    <3>4. Parent[calls[2]] = calls[1]
      BY <3>3 DEF CallChain
    <3> QED
      BY <3>3, <3>4
  <2>7. calls' = t /\ running' = calls[1] /\ ToSet(t) \cap updated' = {}
    BY <2>1, <2>2, <2>3, <2>4 DEF CallChain
  <2> QED
    BY <2>1, <2>3, <2>5, <2>6, <2>7 DEF CallChain, InUpdate
<1>7. CASE NoParentFirst
  <2>1. /\ pc = "climb" /\ pc' = "update" /\ ~ToBeUpdated(running)
        /\ UNCHANGED <<Parent, updated, calls, bActiveCounter>>
    BY <1>7 DEF NoParentFirst, links, loop, lists
  <2>2. \A o : ToBeUpdated(o)' = ToBeUpdated(o)
    BY <2>1 DEF ToBeUpdated, processing_enabled
  <2> QED
    BY <2>1, <2>2 DEF CallChain, InUpdate
<1>8. CASE UpdateCLReturn
  <2>1. /\ pc = "updateCL" /\ pc' = "update"
        /\ UNCHANGED <<Parent, updated, calls>>
    BY <1>8 DEF UpdateCLReturn, links, loop
  <2>2. calls # <<>> => ~ToBeUpdated(Parent[calls[1]])'
    BY <2>1 DEF CallChain, ToBeUpdated
  <2> QED
    BY <2>1, <2>2 DEF CallChain, InUpdate
<1>9. CASE \/ BeginUpdate \/ SingleUpdate \/ UpdateDone \/ EndFrame \/ BeginFrame
           \/ DestroyNext \/ DestroyDone
  <2>1. calls = <<>> /\ calls' = calls /\ pc' # "updateCL"
    BY <1>9 DEF BeginUpdate, SingleUpdate, UpdateDone, EndFrame, BeginFrame, DestroyNext,
       DestroyDone, loop, CallChain, InUpdate, TreeInv, TreeTypes
  <2> QED
    BY <1>4, <2>1
<1>10. CASE Spawning
  <2>1. calls = <<>> /\ calls' = calls /\ pc' # "updateCL"
    BY <1>10 DEF Spawning, Create, SpawnRejected, NetSpawn, SpawnFails, SpawnSucceeds,
       EndSpawn, loop, CallChain, InUpdate
  <2> QED
    BY <1>4, <2>1
<1>11. CASE Game
  <2>1. CASE pc = "updateCL"
    BY <1>11, <2>1, GameSteps DEF CallChain, InUpdate
  <2>2. CASE pc # "updateCL"
    <3>1. calls = <<>> /\ calls' = calls /\ pc' # "updateCL"
      BY <1>11, <2>2, GameSteps DEF CallChain, InUpdate
    <3> QED
      BY <1>4, <3>1
  <2> QED
    BY <2>1, <2>2
<1>12. CASE UNCHANGED vars
  BY <1>12 DEF vars, lists, links, loop, CallChain, InUpdate, ToBeUpdated, processing_enabled
<1>13. CASE Rendering
  <2>1. /\ UNCHANGED <<Parent, calls, pc, updated, running>>
        /\ UNCHANGED lists \/ pc = "render"
    BY <1>13, RenderSteps DEF loop
  <2>2. CASE pc = "render"
    <3>1. calls = <<>> /\ calls' = <<>> /\ pc' # "updateCL"
      BY <2>1, <2>2 DEF CallChain, InUpdate
    <3> QED
      BY <1>4, <3>1
  <2>3. CASE UNCHANGED lists
    BY <2>1, <2>3 DEF lists, CallChain, InUpdate, ToBeUpdated, processing_enabled
  <2> QED
    BY <2>1, <2>2, <2>3
<1> QED
  BY <1>5, <1>6, <1>7, <1>8, <1>9, <1>10, <1>11, <1>12, <1>13 DEF Next, Frame

-----------------------------------------------------------------------------
(* The theorems that need all the parts.                                   *)

IInv ==
    /\ TreeInv /\ IdInv /\ ActInv /\ CrowInv
    /\ RestTypes /\ VisitAlive /\ Acyclic /\ CallChain

(* All the parts together are inductive: the tree is a forest, the lists   *)
(* agree with it, and so does the loop of Update, in every reachable state.*)
THEOREM ObjectListInvariant == Spec => []IInv
<1>1. Init => IInv
  BY InitTree, InitId, InitAct, InitCrow, InitTypes, InitVisit DEF IInv
<1>2. IInv /\ [Next]_vars => IInv'
  <2>1. SUFFICES ASSUME IInv, [Next]_vars PROVE IInv'
    OBVIOUS
  <2>2. TreeInv' /\ IdInv' /\ ActInv'
    BY <2>1, StepTree, StepId, StepAct DEF IInv
  <2>3. CrowInv' /\ RestTypes'
    BY <2>1, StepCrow, StepTypes DEF IInv
  <2>4. VisitAlive' /\ Acyclic' /\ CallChain'
    BY <2>1, StepVisit, StepAcyclic, StepChain DEF IInv
  <2> QED
    BY <2>2, <2>3, <2>4 DEF IInv
<1> QED
  BY <1>1, <1>2, PTL DEF Spec

(* Every variable keeps its type; a count of activations never passes its  *)
(* limit, and flags, marks and the rucksack are of objects that exist.     *)
THEOREM ObjectListTypes == Spec => []TypeOK
<1>1. IInv => TypeOK
  <2>1. SUFFICES ASSUME IInv PROVE TypeOK
    OBVIOUS
  <2>2. exists \subseteq Objects
    BY <2>1 DEF IInv, TreeInv, TreeTypes
  <2>3. objects_active \subseteq Objects /\ objects_sleeping \subseteq Objects
    BY <2>2 DEF exists
  <2>4. crow \cup bDestroy \cup dropped \cup inRuck \subseteq exists
    BY <2>1 DEF IInv, TreeInv, TreeTypes, MarksCascade, CrowInv, ListsInv
  <2>5. it \in 0 .. Len(destroy_queue)
    <3>1. Len(destroy_queue) \in Nat
      BY <2>1 DEF IInv, TreeInv, TreeTypes
    <3> QED
      BY <2>1, <3>1 DEF IInv, TreeInv, TreeTypes, RestTypes
  <2>6. /\ {destroy_queue, objects, calls} \subseteq Seq(Objects)
        /\ m_crows \in [{0, 1} -> Seq(Objects)]
    BY <2>1 DEF IInv, TreeInv, TreeTypes, RestTypes, CrowInv, ListsInv
  <2>7. {paused, moving, rsDisableObjectsAsCrows} \subseteq BOOLEAN
    BY <2>1 DEF IInv, RestTypes
  <2>8. /\ Parent \in [Objects -> Objects \cup {NULL}] /\ next \in {"create", "late"}
        /\ net_ID \in [Objects -> Ids] /\ map_NETID \in [Ids -> Objects \cup {NULL}]
        /\ spawnId \in Ids
    BY <2>1 DEF IInv, TreeInv, TreeTypes, IdInv
  <2>9. making \in [{0, 1} -> exists \cup {NULL}]
    <3>1. making = [t \in {0, 1} |-> making[t]]
      BY <2>1 DEF IInv, CrowInv, CallsInv
    <3>2. \A t \in {0, 1} : making[t] \in exists \cup {NULL}
      BY <2>1 DEF IInv, CrowInv, CallsInv, CallInv
    <3> QED
      BY <3>1, <3>2
  <2>10. at \in [{0, 1} -> {"idle", "test", "enabled", "exchange", "flag", "list"}]
    <3>1. at = [t \in {0, 1} |-> at[t]]
      BY <2>1 DEF IInv, CrowInv, CallsInv
    <3>2. \A t \in {0, 1} :
            at[t] \in {"idle", "test", "enabled", "exchange", "flag", "list"}
      BY <2>1 DEF IInv, CrowInv, CallsInv, CallInv
    <3> QED
      BY <3>1, <3>2
  <2> QED
    BY <2>1, <2>3, <2>4, <2>5, <2>6, <2>7, <2>8, <2>9, <2>10 DEF IInv, RestTypes, TypeOK
<1> QED
  BY <1>1, ObjectListInvariant, PTL

(* Update never reaches an object that has been destroyed, in its copy of  *)
(* the list, in the calls that wait or above them.                         *)
THEOREM OnlyLivingUpdated == Spec => []NoDeadUpdate
<1>1. IInv => NoDeadUpdate
  BY DEF IInv, VisitAlive, InUpdate, NoDeadUpdate
<1> QED
  BY <1>1, ObjectListInvariant, PTL

(* However the owners are nested, no object is updated twice in a frame,   *)
(* nor before its owner if that is active: SingleUpdate, which climbs      *)
(* until it meets a disabled or an updated one, is enough.                 *)
THEOREM OwnersUpdateFirst == Spec => ParentsUpdateFirst
<1>1. IInv /\ [Next]_vars =>
        [(pc = "update" /\ pc' = "updateCL") =>
            /\ running' \notin updated
            /\ Parent[running'] \in objects_active => Parent[running'] \in updated]_vars
  <2>1. SUFFICES ASSUME IInv, Next, pc = "update", pc' = "updateCL"
                 PROVE  /\ running' \notin updated
                        /\ Parent[running'] \in objects_active => Parent[running'] \in updated
    OBVIOUS
  <2>2. UpdateCL
    <3>1. CASE Frame
      BY <2>1, <3>1 DEF Frame, BeginUpdate, SingleUpdate, ParentFirst, NoParentFirst,
         UpdateCLReturn, UpdateDone, DestroyNext, DestroyDone, EndFrame, BeginFrame
    <3>2. ~Spawning
      BY <2>1 DEF Spawning, Create, SpawnRejected, NetSpawn, SpawnFails, SpawnSucceeds,
         EndSpawn
    <3>3. ~Game
      BY <2>1, GameSteps
    <3>4. ~Rendering
      BY <2>1, RenderSteps
    <3> QED
      BY <2>1, <3>1, <3>2, <3>3, <3>4 DEF Next
  <2>3. calls # <<>> /\ calls \in Seq(Objects) /\ running' = Head(calls)
    BY <2>1, <2>2 DEF UpdateCL, IInv, RestTypes
  <2>4. running' = calls[1] /\ running' \in ToSet(calls)
    BY <2>3, TailProperties, TailSet
  <2>5. running' \notin updated /\ ~ToBeUpdated(Parent[running'])
    BY <2>1, <2>3, <2>4 DEF IInv, CallChain
  <2>6. \A x \in objects_active : x # NULL /\ processing_enabled(x)
    BY <2>1, ObjectsAssumption
       DEF IInv, ActInv, ActiveIffCounted, TreeInv, TreeTypes
  <2> QED
    BY <2>5, <2>6 DEF ToBeUpdated
<1> QED
  BY <1>1, ObjectListInvariant, PTL DEF Spec, ParentsUpdateFirst
=============================================================================
