-------------------------- MODULE EventQueueProofs --------------------------
(***************************************************************************)
(* The events under way from the server to the client, proved for any      *)
(* number of entities and of events: what the server sent and the client   *)
(* has not handled leads from the client's view to the server's.           *)
(*                                                                         *)
(* The events about one entity follow on each other: each finds the entity *)
(* with the owner the one before left it with, the first agrees with the   *)
(* client, the last with the server, and after a destruction comes nothing *)
(* but another spawn. Two conditions relate the events of several          *)
(* entities: an owner is there when it is told to take, and it holds       *)
(* nothing when it is destroyed. A request or a switch of ALife appends a  *)
(* pack of events; the client takes one off, or refuses it and the server  *)
(* appends another.                                                        *)
(***************************************************************************)
EXTENDS ServerEntitiesProofs, SequenceLemmas

(* The owner an event finds its entity with, and the one it leaves it with. *)
Finds(m)  == IF m.type = "reject" THEN m.dest ELSE Nobody
Leaves(m) == IF m.type \in {"take", "spawn"} THEN m.dest ELSE Nobody

Mentions(q, i) == \E n \in DOMAIN q : q[n].id = i
IsFirst(q, n)  == \A k \in DOMAIN q : k < n => q[k].id # q[n].id
IsLast(q, n)   == \A k \in DOMAIN q : n < k => q[k].id # q[n].id
IsNext(q, j, k) ==
    /\ j < k /\ q[j].id = q[k].id
    /\ \A n \in DOMAIN q : j < n /\ n < k => q[n].id # q[k].id

Rejects(q, k, p, i) == q[k].type = "reject" /\ q[k].dest = p /\ q[k].id = i

(* Two events about an entity with none between them.                      *)
Fits(q) ==
    \A j, k \in DOMAIN q : IsNext(q, j, k) =>
        /\ q[j].type = "destroy" <=> q[k].type = "spawn"
        /\ Leaves(q[j]) = Finds(q[k])

(* The first event about an entity, and the client's object: an item that  *)
(* was refused is still to be rejected.                                    *)
Starts(q, obj, H) ==
    \A n \in DOMAIN q : IsFirst(q, n) =>
        IF q[n].type = "spawn" THEN obj[q[n].id] # "present"
        ELSE /\ obj[q[n].id] = "present"
             /\ \/ H[q[n].id] = Finds(q[n])
                \/ q[n].type = "reject" /\ H[q[n].id] = Nobody

(* The last event about an entity, and the server's entity.                *)
Ends(q, W, P) ==
    \A n \in DOMAIN q : IsLast(q, n) =>
        IF q[n].type = "destroy" THEN W[q[n].id] # "online"
        ELSE W[q[n].id] = "online" /\ P[q[n].id] = Leaves(q[n])

(* No event about an entity: the two agree.                                *)
Unmentioned(q, W, P, obj, H) ==
    \A i \in Ids : ~Mentions(q, i) =>
        IF W[i] = "online" THEN obj[i] = "present" /\ H[i] = P[i]
        ELSE obj[i] # "present"

NotDestroyed(q, j, k, p) ==
    \A n \in DOMAIN q : j < n /\ n < k /\ q[n].type = "destroy" => q[n].id # p

(* p is on the level when event k comes: from the start, or since a spawn. *)
There(q, k, p, obj) ==
    \/ obj[p] = "present" /\ NotDestroyed(q, 0, k, p)
    \/ \E j \in DOMAIN q : /\ j < k /\ q[j].type = "spawn" /\ q[j].id = p
                           /\ NotDestroyed(q, j, k, p)

(* Who is told to take something is on the level by then.                  *)
Held(q, obj) ==
    \A k \in DOMAIN q : Leaves(q[k]) # Nobody => There(q, k, q[k].dest, obj)

(* Who is destroyed was told to drop all it held, and all it took before.  *)
Emptied(q, H) ==
    \A n \in DOMAIN q : q[n].type = "destroy" =>
        /\ \A i \in Ids : H[i] = q[n].id =>
              \E k \in DOMAIN q : k < n /\ Rejects(q, k, q[n].id, i)
        /\ \A j \in DOMAIN q : j < n /\ Leaves(q[j]) = q[n].id =>
              \E k \in DOMAIN q : /\ j < k /\ k < n
                                  /\ Rejects(q, k, q[n].id, q[j].id)

Owners(obj, H) ==
    \A i \in Ids : H[i] # Nobody => obj[i] = "present" /\ obj[H[i]] = "present"

(* The events q lead from the client's view to the server's.               *)
Leads(q, W, P, obj, H) ==
    /\ Fits(q) /\ Starts(q, obj, H) /\ Ends(q, W, P)
    /\ Unmentioned(q, W, P, obj, H) /\ Held(q, obj) /\ Emptied(q, H)
    /\ Owners(obj, H)

ViewTypes(P, obj, H) ==
    /\ P \in [Ids -> Ids \cup {Nobody}]
    /\ obj \in [Ids -> {"absent", "present", "dying"}]
    /\ H \in [Ids -> Ids \cup {Nobody}]

LEMMA MessageTypes ==
    ASSUME NEW q \in Seq(Messages), NEW n \in DOMAIN q
    PROVE  /\ q[n].id \in Ids /\ q[n].dest \in Ids \cup {Nobody}
           /\ q[n].type \in {"take", "reject", "destroy", "spawn"}
           /\ q[n].type # "spawn" => q[n].dest \in Ids
           /\ n \in Nat \ {0} /\ n <= Len(q)
           /\ Finds(q[n]) \in Ids \cup {Nobody}
           /\ Leaves(q[n]) \in Ids \cup {Nobody}
<1>1. n \in 1 .. Len(q) /\ q[n] \in Messages /\ Len(q) \in Nat
  BY LenProperties, ElementOfSeq
<1> QED
  BY <1>1 DEF Messages, Finds, Leaves

(* Events about an entity have a first one, and each but the last a next.  *)
LEMMA FirstExists ==
    ASSUME NEW q \in Seq(Messages), NEW i, Mentions(q, i)
    PROVE  \E n \in DOMAIN q : q[n].id = i /\ IsFirst(q, n)
<1> DEFINE T == {n \in DOMAIN q : q[n].id = i}
<1>1. T \in SUBSET Nat /\ T # {}
  BY MessageTypes DEF Mentions
<1>2. PICK n \in T : \A k \in T : n <= k
  <2> HIDE DEF T
  <2> QED
    BY <1>1, NatMin
<1>3. \A k \in DOMAIN q : k < n => q[k].id # i
  BY <1>1, <1>2, MessageTypes
<1> QED
  BY <1>2, <1>3 DEF IsFirst

LEMMA NextExists ==
    ASSUME NEW q \in Seq(Messages), NEW j \in DOMAIN q, ~IsLast(q, j)
    PROVE  \E k \in DOMAIN q : IsNext(q, j, k)
<1> DEFINE T == {k \in DOMAIN q : j < k /\ q[k].id = q[j].id}
<1>1. T \in SUBSET Nat /\ T # {}
  BY MessageTypes DEF IsLast
<1>2. PICK k \in T : \A n \in T : k <= n
  <2> HIDE DEF T
  <2> QED
    BY <1>1, NatMin
<1>3. \A n \in DOMAIN q : j < n /\ n < k => q[n].id # q[k].id
  BY <1>1, <1>2, MessageTypes
<1> QED
  BY <1>2, <1>3 DEF IsNext

-----------------------------------------------------------------------------
(* What the server sends.                                                  *)

(* A pack p fits behind the events q: what it says of an entity begins     *)
(* with the server's view as it was and ends with the view as it is then.  *)
Joins(p, W, P, W2, P2) ==
    /\ Fits(p) /\ Ends(p, W2, P2)
    /\ \A n \in DOMAIN p : IsFirst(p, n) =>
          IF p[n].type = "spawn"
          THEN W[p[n].id] # "online"
          ELSE W[p[n].id] = "online" /\ P[p[n].id] = Finds(p[n])
    /\ \A i \in Ids : ~Mentions(p, i) =>
          /\ W2[i] = "online" <=> W[i] = "online"
          /\ W[i] = "online" => P2[i] = P[i]
    /\ \A k \in DOMAIN p : Leaves(p[k]) # Nobody =>
          /\ \/ W[p[k].dest] = "online"
             \/ \E j \in DOMAIN p :
                   j < k /\ p[j].type = "spawn" /\ p[j].id = p[k].dest
          /\ \A j \in DOMAIN p :
                j < k /\ p[j].type = "destroy" => p[j].id # p[k].dest
    /\ \A n \in DOMAIN p : p[n].type = "destroy" =>
          /\ \A i \in Ids : W[i] = "online" /\ P[i] = p[n].id =>
                \E k \in DOMAIN p : k < n /\ Rejects(p, k, p[n].id, i)
          /\ \A j \in DOMAIN p : Leaves(p[j]) # p[n].id

(* An entity that is online was spawned again after every destruction.     *)
LEMMA OnlineIsThere ==
    ASSUME NEW q \in Seq(Messages), NEW W, NEW P, NEW obj, NEW H,
           Leads(q, W, P, obj, H), NEW d \in Ids, W[d] = "online"
    PROVE  \/ obj[d] = "present" /\ \A n \in DOMAIN q :
                q[n].type = "destroy" => q[n].id # d
           \/ \E j \in DOMAIN q :
                /\ q[j].type = "spawn" /\ q[j].id = d
                /\ \A n \in DOMAIN q : j < n /\ q[n].type = "destroy" => q[n].id # d
<1> DEFINE D == {n \in DOMAIN q : q[n].type = "destroy" /\ q[n].id = d}
<1>n. \A n \in DOMAIN q : n \in Nat /\ n <= Len(q)
  BY MessageTypes
<1>1. CASE D = {}
  <2>1. CASE Mentions(q, d)
    <3>1. PICK n \in DOMAIN q : q[n].id = d /\ IsFirst(q, n)
      BY <2>1, FirstExists
    <3>2. q[n].type = "spawn" \/ obj[d] = "present"
      BY <3>1 DEF Leads, Starts
    <3> QED
      BY <1>1, <3>1, <3>2
  <2>2. CASE ~Mentions(q, d)
    <3>1. obj[d] = "present"
      BY <2>2 DEF Leads, Unmentioned
    <3> QED
      BY <1>1, <3>1
  <2> QED
    BY <2>1, <2>2
<1>2. CASE D # {}
  <2>1. PICK n \in D : \A k \in D : k <= n
    <3>1. D \in SUBSET Nat /\ Len(q) \in Nat /\ \A k \in D : k <= Len(q)
      BY <1>n, LenProperties
    <3> HIDE DEF D
    <3> QED
      BY <1>2, <3>1, MaxExists
  <2>2. n \in DOMAIN q /\ q[n].type = "destroy" /\ q[n].id = d
    OBVIOUS
  <2>3. ~IsLast(q, n)
    BY <2>2 DEF Leads, Ends
  <2>4. PICK j \in DOMAIN q : IsNext(q, n, j)
    BY <2>2, <2>3, NextExists
  <2>5. q[j].type = "spawn" /\ q[j].id = d /\ n < j
    BY <2>2, <2>4 DEF Leads, Fits, IsNext
  <2>6. \A k \in DOMAIN q : j < k /\ q[k].type = "destroy" => q[k].id # d
    BY <1>n, <2>1, <2>2, <2>5
  <2> QED
    BY <2>5, <2>6
<1> QED
  BY <1>1, <1>2

LEMMA AppendFits ==
    ASSUME NEW q \in Seq(Messages), NEW p \in Seq(Messages),
           NEW W, NEW P, NEW W2, NEW P2, NEW obj, NEW H,
           Leads(q, W, P, obj, H), Joins(p, W, P, W2, P2)
    PROVE  Fits(q \o p)
<1> DEFINE r == q \o p
           N == Len(q)
<1>0. /\ r \in Seq(Messages) /\ N \in Nat
      /\ \A n \in DOMAIN q : n \in DOMAIN r /\ r[n] = q[n] /\ n <= N
      /\ \A n \in DOMAIN p : N + n \in DOMAIN r /\ r[N + n] = p[n] /\ n \in Nat \ {0}
      /\ \A n \in DOMAIN r : n \in DOMAIN q \/ \E k \in DOMAIN p : n = N + k
  BY ConcatAt
<1>n. \A n \in DOMAIN q : n \in Nat
  BY MessageTypes
<1> HIDE DEF r, N
<1> SUFFICES ASSUME NEW j \in DOMAIN r, NEW k \in DOMAIN r, IsNext(r, j, k)
             PROVE  /\ r[j].type = "destroy" <=> r[k].type = "spawn"
                    /\ Leaves(r[j]) = Finds(r[k])
  BY DEF Fits, r
<1>1. CASE j \in DOMAIN q /\ k \in DOMAIN q
  <2>1. IsNext(q, j, k)
    BY <1>0, <1>1 DEF IsNext
  <2> QED
    BY <1>0, <1>1, <2>1 DEF Leads, Fits
<1>2. ASSUME NEW u \in DOMAIN p, NEW v \in DOMAIN p, j = N + u, k = N + v
      PROVE  /\ r[j].type = "destroy" <=> r[k].type = "spawn"
             /\ Leaves(r[j]) = Finds(r[k])
  <2>1. u < v /\ p[u].id = p[v].id
    BY <1>0, <1>2 DEF IsNext
  <2>2. ASSUME NEW n \in DOMAIN p, u < n, n < v
        PROVE  p[n].id # p[v].id
    <3>1. j < N + n /\ N + n < k /\ N + n \in DOMAIN r
      BY <1>0, <1>2, <2>2
    <3> QED
      BY <1>0, <1>2, <3>1 DEF IsNext
  <2>3. IsNext(p, u, v)
    BY <2>1, <2>2 DEF IsNext
  <2> QED
    BY <1>0, <1>2, <2>3 DEF Joins, Fits
<1>3. ASSUME j \in DOMAIN q, NEW v \in DOMAIN p, k = N + v
      PROVE  /\ r[j].type = "destroy" <=> r[k].type = "spawn"
             /\ Leaves(r[j]) = Finds(r[k])
  <2>0. r[j] = q[j] /\ r[k] = p[v] /\ q[j].id = p[v].id
    BY <1>0, <1>3 DEF IsNext
  <2>1. IsLast(q, j)
    <3> SUFFICES ASSUME NEW n \in DOMAIN q, j < n PROVE q[n].id # q[j].id
      BY DEF IsLast
    <3>1. n \in DOMAIN r /\ r[n] = q[n] /\ n < k
      BY <1>0, <1>3, <1>n
    <3> QED
      BY <2>0, <3>1 DEF IsNext
  <2>2. IsFirst(p, v)
    <3> SUFFICES ASSUME NEW n \in DOMAIN p, n < v PROVE p[n].id # p[v].id
      BY DEF IsFirst
    <3>1. N + n \in DOMAIN r /\ r[N + n] = p[n] /\ j < N + n /\ N + n < k
      BY <1>0, <1>3, <1>n
    <3> QED
      BY <2>0, <3>1 DEF IsNext
  <2>3. IF p[v].type = "spawn" THEN W[p[v].id] # "online"
        ELSE W[p[v].id] = "online" /\ P[p[v].id] = Finds(p[v])
    BY <2>2 DEF Joins
  <2>4. IF q[j].type = "destroy" THEN W[q[j].id] # "online"
        ELSE W[q[j].id] = "online" /\ P[q[j].id] = Leaves(q[j])
    BY <1>3, <2>1 DEF Leads, Ends
  <2>5. CASE q[j].type = "destroy"
    BY <2>0, <2>3, <2>4, <2>5 DEF Leaves, Finds
  <2>6. CASE q[j].type # "destroy"
    BY <2>0, <2>3, <2>4, <2>6
  <2> QED
    BY <2>5, <2>6
<1>4. ~(k \in DOMAIN q /\ \E u \in DOMAIN p : j = N + u)
  BY <1>0, <1>n DEF IsNext
<1> QED
  BY <1>0, <1>1, <1>2, <1>3, <1>4

LEMMA AppendStartsEnds ==
    ASSUME NEW q \in Seq(Messages), NEW p \in Seq(Messages),
           NEW W, NEW P, NEW W2, NEW P2, NEW obj, NEW H,
           Leads(q, W, P, obj, H), Joins(p, W, P, W2, P2)
    PROVE  /\ Starts(q \o p, obj, H) /\ Ends(q \o p, W2, P2)
           /\ Unmentioned(q \o p, W2, P2, obj, H)
<1> DEFINE r == q \o p
           N == Len(q)
<1>0. /\ r \in Seq(Messages) /\ N \in Nat
      /\ \A n \in DOMAIN q : n \in DOMAIN r /\ r[n] = q[n] /\ n <= N
      /\ \A n \in DOMAIN p : N + n \in DOMAIN r /\ r[N + n] = p[n] /\ n \in Nat \ {0}
      /\ \A n \in DOMAIN r : n \in DOMAIN q \/ \E k \in DOMAIN p : n = N + k
  BY ConcatAt
<1>n. \A n \in DOMAIN q : n \in Nat
  BY MessageTypes
<1> HIDE DEF r, N
<1>1. Starts(r, obj, H)
  <2> SUFFICES ASSUME NEW n \in DOMAIN r, IsFirst(r, n)
               PROVE  IF r[n].type = "spawn" THEN obj[r[n].id] # "present"
                      ELSE /\ obj[r[n].id] = "present"
                           /\ \/ H[r[n].id] = Finds(r[n])
                              \/ r[n].type = "reject" /\ H[r[n].id] = Nobody
    BY DEF Starts
  <2>1. CASE n \in DOMAIN q
    <3>1. IsFirst(q, n)
      BY <1>0, <2>1 DEF IsFirst
    <3> QED
      BY <1>0, <2>1, <3>1 DEF Leads, Starts
  <2>2. ASSUME NEW v \in DOMAIN p, n = N + v
        PROVE  IF r[n].type = "spawn" THEN obj[r[n].id] # "present"
               ELSE obj[r[n].id] = "present" /\ H[r[n].id] = Finds(r[n])
    <3>0. r[n] = p[v]
      BY <1>0, <2>2
    <3>1. IsFirst(p, v)
      <4> SUFFICES ASSUME NEW k \in DOMAIN p, k < v PROVE p[k].id # p[v].id
        BY DEF IsFirst
      <4>1. N + k \in DOMAIN r /\ r[N + k] = p[k] /\ N + k < n
        BY <1>0, <2>2
      <4> QED
        BY <3>0, <4>1 DEF IsFirst
    <3>2. ~Mentions(q, p[v].id)
      <4> SUFFICES ASSUME NEW k \in DOMAIN q, q[k].id = p[v].id PROVE FALSE
        BY DEF Mentions
      <4>1. k \in DOMAIN r /\ r[k] = q[k] /\ k < n
        BY <1>0, <1>n, <2>2
      <4> QED
        BY <3>0, <4>1 DEF IsFirst
    <3>3. p[v].id \in Ids
      BY MessageTypes
    <3>4. CASE p[v].type = "spawn"
      <4>1. W[p[v].id] # "online"
        BY <3>1, <3>4 DEF Joins
      <4>2. obj[p[v].id] # "present"
        BY <3>2, <3>3, <4>1 DEF Leads, Unmentioned
      <4> QED
        BY <3>0, <3>4, <4>2
    <3>5. CASE p[v].type # "spawn"
      <4>1. W[p[v].id] = "online" /\ P[p[v].id] = Finds(p[v])
        BY <3>1, <3>5 DEF Joins
      <4>2. obj[p[v].id] = "present" /\ H[p[v].id] = P[p[v].id]
        BY <3>2, <3>3, <4>1 DEF Leads, Unmentioned
      <4> QED
        BY <3>0, <3>5, <4>1, <4>2
    <3> QED
      BY <3>4, <3>5
  <2> QED
    BY <1>0, <2>1, <2>2
<1>2. Ends(r, W2, P2)
  <2> SUFFICES ASSUME NEW n \in DOMAIN r, IsLast(r, n)
               PROVE  IF r[n].type = "destroy" THEN W2[r[n].id] # "online"
                      ELSE W2[r[n].id] = "online" /\ P2[r[n].id] = Leaves(r[n])
    BY DEF Ends
  <2>1. CASE n \in DOMAIN q
    <3>1. IsLast(q, n)
      BY <1>0, <2>1 DEF IsLast
    <3>2. ~Mentions(p, q[n].id)
      <4> SUFFICES ASSUME NEW k \in DOMAIN p, p[k].id = q[n].id PROVE FALSE
        BY DEF Mentions
      <4>1. N + k \in DOMAIN r /\ r[N + k] = p[k] /\ n < N + k /\ r[n] = q[n]
        BY <1>0, <1>n, <2>1
      <4> QED
        BY <4>1 DEF IsLast
    <3>3. q[n].id \in Ids /\ r[n] = q[n]
      BY <1>0, <2>1, MessageTypes
    <3>4. /\ W2[q[n].id] = "online" <=> W[q[n].id] = "online"
          /\ W[q[n].id] = "online" => P2[q[n].id] = P[q[n].id]
      BY <3>2, <3>3 DEF Joins
    <3> QED
      BY <2>1, <3>1, <3>3, <3>4 DEF Leads, Ends
  <2>2. ASSUME NEW v \in DOMAIN p, n = N + v
        PROVE  IF r[n].type = "destroy" THEN W2[r[n].id] # "online"
               ELSE W2[r[n].id] = "online" /\ P2[r[n].id] = Leaves(r[n])
    <3>0. r[n] = p[v]
      BY <1>0, <2>2
    <3>1. IsLast(p, v)
      <4> SUFFICES ASSUME NEW k \in DOMAIN p, v < k PROVE p[k].id # p[v].id
        BY DEF IsLast
      <4>1. N + k \in DOMAIN r /\ r[N + k] = p[k] /\ n < N + k
        BY <1>0, <2>2
      <4> QED
        BY <3>0, <4>1 DEF IsLast
    <3> QED
      BY <3>0, <3>1 DEF Joins, Ends
  <2> QED
    BY <1>0, <2>1, <2>2
<1>3. Unmentioned(r, W2, P2, obj, H)
  <2> SUFFICES ASSUME NEW i \in Ids, ~Mentions(r, i)
               PROVE  IF W2[i] = "online" THEN obj[i] = "present" /\ H[i] = P2[i]
                      ELSE obj[i] # "present"
    BY DEF Unmentioned
  <2>1. ~Mentions(q, i) /\ ~Mentions(p, i)
    BY <1>0 DEF Mentions
  <2> QED
    BY <2>1 DEF Leads, Unmentioned, Joins
<1> QED
  BY <1>1, <1>2, <1>3 DEF r

LEMMA AppendHeldEmptied ==
    ASSUME NEW q \in Seq(Messages), NEW p \in Seq(Messages),
           NEW W, NEW P, NEW W2, NEW P2, NEW obj, NEW H, ViewTypes(P, obj, H),
           Leads(q, W, P, obj, H), Joins(p, W, P, W2, P2)
    PROVE  Held(q \o p, obj) /\ Emptied(q \o p, H)
<1> DEFINE r == q \o p
           N == Len(q)
<1>0. /\ r \in Seq(Messages) /\ N \in Nat
      /\ \A n \in DOMAIN q : n \in DOMAIN r /\ r[n] = q[n] /\ n <= N
      /\ \A n \in DOMAIN p : N + n \in DOMAIN r /\ r[N + n] = p[n] /\ n \in Nat \ {0}
      /\ \A n \in DOMAIN r : n \in DOMAIN q \/ \E k \in DOMAIN p : n = N + k
  BY ConcatAt
<1>n. \A n \in DOMAIN q : n \in Nat
  BY MessageTypes
<1> HIDE DEF r, N
<1>1. Held(r, obj)
  <2> SUFFICES ASSUME NEW k \in DOMAIN r, Leaves(r[k]) # Nobody
               PROVE  There(r, k, r[k].dest, obj)
    BY DEF Held
  <2>1. CASE k \in DOMAIN q
    <3>1. r[k] = q[k]
      BY <1>0, <2>1
    <3>2. \A j \in DOMAIN r : j < k => j \in DOMAIN q /\ r[j] = q[j]
      BY <1>0, <1>n, <2>1
    <3>3. There(q, k, r[k].dest, obj)
      BY <2>1, <3>1 DEF Leads, Held
    <3>4. \A j, p2 : NotDestroyed(q, j, k, p2) => NotDestroyed(r, j, k, p2)
      BY <3>2 DEF NotDestroyed
    <3> QED
      BY <1>0, <3>3, <3>4 DEF There
  <2>2. ASSUME NEW v \in DOMAIN p, k = N + v
        PROVE  There(r, k, r[k].dest, obj)
    <3> DEFINE d == p[v].dest
    <3>0. r[k] = p[v] /\ d \in Ids /\ Leaves(p[v]) = d
      <4>1. r[k] = p[v] /\ Leaves(p[v]) # Nobody /\ d \in Ids \cup {Nobody}
        BY <1>0, <2>2, MessageTypes
      <4> QED
        BY <4>1 DEF Leaves
    <3> HIDE DEF d
    <3>1. /\ \/ W[d] = "online"
             \/ \E j \in DOMAIN p : j < v /\ p[j].type = "spawn" /\ p[j].id = d
          /\ \A j \in DOMAIN p : j < v /\ p[j].type = "destroy" => p[j].id # d
      BY <3>0, NobodyAssumption DEF Joins, d
    <3>2. ASSUME NEW u \in DOMAIN p, N + u < k, p[u].type = "destroy"
          PROVE  p[u].id # d
      <4>1. u < v
        BY <1>0, <2>2, <3>2
      <4> QED
        BY <3>1, <3>2, <4>1
    <3>3. ASSUME W[d] = "online"
          PROVE  There(r, k, d, obj)
      <4>1. CASE obj[d] = "present" /\ \A n \in DOMAIN q :
                    q[n].type = "destroy" => q[n].id # d
        <5>1. ASSUME NEW n \in DOMAIN r, n < k, r[n].type = "destroy"
              PROVE  r[n].id # d
          <6>1. CASE n \in DOMAIN q
            BY <1>0, <4>1, <5>1, <6>1
          <6>2. ASSUME NEW u \in DOMAIN p, n = N + u PROVE r[n].id # d
            BY <1>0, <3>2, <5>1, <6>2
          <6> QED
            BY <1>0, <6>1, <6>2
        <5>2. NotDestroyed(r, 0, k, d)
          BY <5>1 DEF NotDestroyed
        <5> QED
          BY <4>1, <5>2 DEF There
      <4>2. ASSUME NEW j \in DOMAIN q,
                   /\ q[j].type = "spawn" /\ q[j].id = d
                   /\ \A n \in DOMAIN q : j < n /\ q[n].type = "destroy" => q[n].id # d
            PROVE  There(r, k, d, obj)
        <5>0. ASSUME NEW n \in DOMAIN r, j < n, n < k, r[n].type = "destroy"
              PROVE  r[n].id # d
          <6>1. CASE n \in DOMAIN q
            BY <1>0, <4>2, <5>0, <6>1
          <6>2. ASSUME NEW u \in DOMAIN p, n = N + u PROVE r[n].id # d
            BY <1>0, <3>2, <5>0, <6>2
          <6> QED
            BY <1>0, <6>1, <6>2
        <5>1. NotDestroyed(r, j, k, d)
          BY <5>0 DEF NotDestroyed
        <5>2. j \in DOMAIN r /\ r[j] = q[j] /\ j < k
          BY <1>0, <1>n, <2>2, <4>2
        <5> QED
          BY <4>2, <5>1, <5>2 DEF There
      <4>3. \/ obj[d] = "present" /\ \A n \in DOMAIN q :
                 q[n].type = "destroy" => q[n].id # d
            \/ \E j \in DOMAIN q :
                 /\ q[j].type = "spawn" /\ q[j].id = d
                 /\ \A n \in DOMAIN q : j < n /\ q[n].type = "destroy" => q[n].id # d
        BY <3>0, <3>3, OnlineIsThere
      <4> QED
        BY <4>1, <4>2, <4>3
    <3>4. ASSUME NEW j \in DOMAIN p, j < v, p[j].type = "spawn", p[j].id = d
          PROVE  There(r, k, d, obj)
      <4>1. N + j \in DOMAIN r /\ r[N + j] = p[j] /\ N + j < k
        BY <1>0, <2>2, <3>4
      <4>2. NotDestroyed(r, N + j, k, d)
        <5> SUFFICES ASSUME NEW n \in DOMAIN r, N + j < n, n < k, r[n].type = "destroy"
                     PROVE  r[n].id # d
          BY DEF NotDestroyed
        <5>1. n \notin DOMAIN q
          BY <1>0, <1>n
        <5>2. PICK u \in DOMAIN p : n = N + u
          BY <1>0, <5>1
        <5> QED
          BY <1>0, <3>2, <5>2
      <4> QED
        BY <3>4, <4>1, <4>2 DEF There
    <3> QED
      BY <3>0, <3>1, <3>3, <3>4 DEF d
  <2> QED
    BY <1>0, <2>1, <2>2
<1>2. Emptied(r, H)
  <2> SUFFICES ASSUME NEW n \in DOMAIN r, r[n].type = "destroy"
               PROVE  /\ \A i \in Ids : H[i] = r[n].id =>
                            \E k \in DOMAIN r : k < n /\ Rejects(r, k, r[n].id, i)
                      /\ \A j \in DOMAIN r : j < n /\ Leaves(r[j]) = r[n].id =>
                            \E k \in DOMAIN r : /\ j < k /\ k < n
                                                /\ Rejects(r, k, r[n].id, r[j].id)
    BY DEF Emptied
  <2>1. CASE n \in DOMAIN q
    <3>1. r[n] = q[n]
      BY <1>0, <2>1
    <3>2. \A j \in DOMAIN r : j < n => j \in DOMAIN q /\ r[j] = q[j]
      BY <1>0, <1>n, <2>1
    <3>3. ASSUME NEW i \in Ids, H[i] = r[n].id
          PROVE  \E k \in DOMAIN r : k < n /\ Rejects(r, k, r[n].id, i)
      <4>1. PICK k \in DOMAIN q : k < n /\ Rejects(q, k, q[n].id, i)
        BY <2>1, <3>1, <3>3 DEF Leads, Emptied
      <4> QED
        BY <1>0, <3>1, <4>1 DEF Rejects
    <3>4. ASSUME NEW j \in DOMAIN r, j < n, Leaves(r[j]) = r[n].id
          PROVE  \E k \in DOMAIN r : j < k /\ k < n /\ Rejects(r, k, r[n].id, r[j].id)
      <4>0. j \in DOMAIN q /\ r[j] = q[j]
        BY <3>2, <3>4
      <4>1. PICK k \in DOMAIN q : j < k /\ k < n /\ Rejects(q, k, q[n].id, q[j].id)
        BY <2>1, <3>1, <3>4, <4>0 DEF Leads, Emptied
      <4> QED
        BY <1>0, <3>1, <4>0, <4>1 DEF Rejects
    <3> QED
      BY <3>3, <3>4
  <2>2. ASSUME NEW v \in DOMAIN p, n = N + v
        PROVE  /\ \A i \in Ids : H[i] = r[n].id =>
                     \E k \in DOMAIN r : k < n /\ Rejects(r, k, r[n].id, i)
               /\ \A j \in DOMAIN r : j < n /\ Leaves(r[j]) = r[n].id =>
                     \E k \in DOMAIN r : /\ j < k /\ k < n
                                         /\ Rejects(r, k, r[n].id, r[j].id)
    <3> DEFINE d == p[v].id
    <3>0. r[n] = p[v] /\ p[v].type = "destroy" /\ d \in Ids /\ d # Nobody
      BY <1>0, <2>2, MessageTypes, NobodyAssumption
    <3> HIDE DEF d
    <3>1. \A i \in Ids : W[i] = "online" /\ P[i] = d =>
             \E k \in DOMAIN p : k < v /\ Rejects(p, k, d, i)
      BY <3>0 DEF Joins, d
    <3>2. ASSUME NEW i \in Ids, W[i] = "online", P[i] = d
          PROVE  \E k \in DOMAIN r : N < k /\ k < n /\ Rejects(r, k, d, i)
      <4>1. PICK k \in DOMAIN p : k < v /\ Rejects(p, k, d, i)
        BY <3>1, <3>2
      <4>2. N + k \in DOMAIN r /\ r[N + k] = p[k] /\ N < N + k /\ N + k < n
        BY <1>0, <2>2, <4>1
      <4> QED
        BY <4>1, <4>2 DEF Rejects
    <3>3. ASSUME NEW i \in Ids, H[i] = d
          PROVE  \E k \in DOMAIN r : k < n /\ Rejects(r, k, d, i)
      <4>1. obj[i] = "present"
        BY <3>0, <3>3 DEF Leads, Owners
      <4>2. CASE Mentions(q, i)
        <5>1. PICK k \in DOMAIN q : q[k].id = i /\ IsFirst(q, k)
          BY <4>2, FirstExists
        <5>2. k \in DOMAIN r /\ r[k] = q[k] /\ k < n
          BY <1>0, <1>n, <2>2, <5>1
        <5>3. q[k].type # "spawn" /\ H[i] = Finds(q[k])
          BY <3>0, <3>3, <4>1, <5>1 DEF Leads, Starts
        <5>4. q[k].type = "reject" /\ q[k].dest = d
          BY <3>0, <3>3, <5>3 DEF Finds
        <5> QED
          BY <5>1, <5>2, <5>4 DEF Rejects
      <4>3. CASE ~Mentions(q, i)
        <5>1. W[i] = "online" /\ P[i] = d
          BY <3>3, <4>1, <4>3 DEF Leads, Unmentioned
        <5> QED
          BY <3>2, <5>1
      <4> QED
        BY <4>2, <4>3
    <3>4. ASSUME NEW j \in DOMAIN r, j < n, Leaves(r[j]) = d
          PROVE  \E k \in DOMAIN r : j < k /\ k < n /\ Rejects(r, k, d, r[j].id)
      <4>1. j \in DOMAIN q
        <5> SUFFICES ASSUME NEW u \in DOMAIN p, j = N + u PROVE FALSE
          BY <1>0
        <5>1. Leaves(p[u]) = d
          BY <1>0, <3>4
        <5> QED
          BY <3>0, <5>1 DEF Joins, d
      <4>2. r[j] = q[j] /\ q[j].id \in Ids
        BY <1>0, <4>1, MessageTypes
      <4>3. CASE IsLast(q, j)
        <5>1. W[q[j].id] = "online" /\ P[q[j].id] = d
          <6>1. q[j].type # "destroy"
            BY <3>0, <3>4, <4>2 DEF Leaves
          <6> QED
            BY <3>4, <4>1, <4>2, <4>3, <6>1 DEF Leads, Ends
        <5>2. PICK k \in DOMAIN r : N < k /\ k < n /\ Rejects(r, k, d, r[j].id)
          BY <3>2, <4>2, <5>1
        <5>3. \A k2 \in DOMAIN r : k2 \in Nat
          BY <1>0, MessageTypes
        <5>4. j < k
          BY <1>0, <1>n, <4>1, <5>2, <5>3
        <5> QED
          BY <5>2, <5>4
      <4>4. CASE ~IsLast(q, j)
        <5>1. PICK k \in DOMAIN q : IsNext(q, j, k)
          BY <4>1, <4>4, NextExists
        <5>2. Finds(q[k]) = d /\ j < k /\ q[k].id = q[j].id
          BY <3>4, <4>1, <4>2, <5>1 DEF Leads, Fits, IsNext
        <5>3. q[k].type = "reject" /\ q[k].dest = d
          BY <3>0, <5>2 DEF Finds
        <5>4. k \in DOMAIN r /\ r[k] = q[k] /\ k < n
          BY <1>0, <1>n, <2>2, <5>1
        <5> QED
          BY <4>2, <5>2, <5>3, <5>4 DEF Rejects
      <4> QED
        BY <4>3, <4>4
    <3> QED
      BY <3>0, <3>3, <3>4 DEF d
  <2> QED
    BY <1>0, <2>1, <2>2
<1> QED
  BY <1>1, <1>2 DEF r

(* What was sent before and the pack together lead to the server's view.   *)
LEMMA AppendLeads ==
    ASSUME NEW q \in Seq(Messages), NEW p \in Seq(Messages),
           NEW W, NEW P, NEW W2, NEW P2, NEW obj, NEW H, ViewTypes(P, obj, H),
           Leads(q, W, P, obj, H), Joins(p, W, P, W2, P2)
    PROVE  q \o p \in Seq(Messages) /\ Leads(q \o p, W2, P2, obj, H)
<1>1. /\ Fits(q \o p) /\ Starts(q \o p, obj, H) /\ Ends(q \o p, W2, P2)
      /\ Unmentioned(q \o p, W2, P2, obj, H)
      /\ Held(q \o p, obj) /\ Emptied(q \o p, H)
  BY AppendFits, AppendStartsEnds, AppendHeldEmptied
<1>2. q \o p \in Seq(Messages)
  BY ConcatAt
<1> QED
  BY <1>1, <1>2 DEF Leads

-----------------------------------------------------------------------------
(* What the client does with the first event.                              *)

(* The object of the event, and no other, is as the event leaves it: or,   *)
(* refused, without an owner, and then another event about it waits.       *)
Handled(q, obj, H, obj2, H2) ==
    LET m == q[1]
    IN  /\ \A i \in Ids : i # m.id => obj2[i] = obj[i] /\ H2[i] = H[i]
        /\ obj2[m.id] = IF m.type = "destroy" THEN "dying" ELSE "present"
        /\ H2[m.id] = Leaves(m) \/ (H2[m.id] = Nobody /\ ~IsLast(q, 1))

LEMMA HandledLeads ==
    ASSUME NEW q \in Seq(Messages), q # <<>>, NEW W, NEW P,
           NEW obj, NEW H, NEW obj2, NEW H2,
           ViewTypes(P, obj, H), ViewTypes(P, obj2, H2),
           Leads(q, W, P, obj, H), Handled(q, obj, H, obj2, H2)
    PROVE  Tail(q) \in Seq(Messages) /\ Leads(Tail(q), W, P, obj2, H2)
<1>0. PICK t : t = Tail(q)
  OBVIOUS
<1>1. /\ t \in Seq(Messages) /\ 1 \in DOMAIN q
      /\ \A n \in DOMAIN t : n + 1 \in DOMAIN q /\ t[n] = q[n + 1] /\ n \in Nat \ {0}
      /\ \A n \in DOMAIN q : n \in Nat \ {0}
      /\ \A n \in DOMAIN q : n # 1 => n - 1 \in DOMAIN t /\ q[n] = t[n - 1]
  <2>1. /\ t \in Seq(Messages) /\ Len(q) \in Nat \ {0}
        /\ DOMAIN t = 1 .. Len(q) - 1 /\ DOMAIN q = 1 .. Len(q)
        /\ \A j \in 1 .. Len(q) - 1 : t[j] = q[j + 1]
    BY <1>0, TailProperties, LenProperties
  <2> QED
    BY <2>1
<1> DEFINE m == q[1]
           o == m.id
<1>2. /\ o \in Ids /\ o # Nobody /\ Leaves(m) \in Ids \cup {Nobody}
      /\ \A n \in DOMAIN q : q[n].id \in Ids /\ q[n].id # Nobody
      /\ \A n \in DOMAIN t : t[n].id \in Ids /\ t[n].id # Nobody
  BY <1>1, MessageTypes, NobodyAssumption
<1>3. /\ \A i \in Ids : i # o => obj2[i] = obj[i] /\ H2[i] = H[i]
      /\ obj2[o] = IF m.type = "destroy" THEN "dying" ELSE "present"
      /\ H2[o] = Leaves(m) \/ (H2[o] = Nobody /\ ~IsLast(q, 1))
  BY DEF Handled
<1> HIDE DEF o, m
<1>4. IsFirst(q, 1)
  BY <1>1 DEF IsFirst
<1>5. Fits(t)
  <2> SUFFICES ASSUME NEW j \in DOMAIN t, NEW k \in DOMAIN t, IsNext(t, j, k)
               PROVE  /\ t[j].type = "destroy" <=> t[k].type = "spawn"
                      /\ Leaves(t[j]) = Finds(t[k])
    BY DEF Fits
  <2>1. IsNext(q, j + 1, k + 1)
    <3>1. j + 1 < k + 1 /\ q[j + 1].id = q[k + 1].id
      BY <1>1 DEF IsNext
    <3>2. ASSUME NEW n \in DOMAIN q, j + 1 < n, n < k + 1
          PROVE  q[n].id # q[k + 1].id
      <4>1. n - 1 \in DOMAIN t /\ q[n] = t[n - 1] /\ j < n - 1 /\ n - 1 < k
        BY <1>1, <3>2
      <4> QED
        BY <1>1, <4>1 DEF IsNext
    <3> QED
      BY <3>1, <3>2 DEF IsNext
  <2> QED
    BY <1>1, <2>1 DEF Leads, Fits
<1>6. Starts(t, obj2, H2)
  <2> SUFFICES ASSUME NEW n \in DOMAIN t, IsFirst(t, n)
               PROVE  IF t[n].type = "spawn" THEN obj2[t[n].id] # "present"
                      ELSE /\ obj2[t[n].id] = "present"
                           /\ \/ H2[t[n].id] = Finds(t[n])
                              \/ t[n].type = "reject" /\ H2[t[n].id] = Nobody
    BY DEF Starts
  <2>0. n + 1 \in DOMAIN q /\ t[n] = q[n + 1] /\ t[n].id \in Ids
    BY <1>1, <1>2
  <2>1. ASSUME NEW k \in DOMAIN q, k # 1, k < n + 1
        PROVE  q[k].id # q[n + 1].id
    <3>1. k - 1 \in DOMAIN t /\ q[k] = t[k - 1] /\ k \in Nat /\ n \in Nat
      BY <1>1, <2>1
    <3>2. k - 1 < n
      BY <2>1, <3>1
    <3> QED
      BY <2>0, <3>1, <3>2 DEF IsFirst
  <2>2. CASE t[n].id # o
    <3>1. IsFirst(q, n + 1)
      BY <1>1, <2>0, <2>1, <2>2 DEF IsFirst, o, m
    <3> QED
      BY <1>3, <2>0, <2>2, <3>1 DEF Leads, Starts
  <2>3. CASE t[n].id = o
    <3>1. IsNext(q, 1, n + 1)
      BY <1>1, <2>0, <2>1, <2>3 DEF IsNext, o, m
    <3>2. /\ m.type = "destroy" <=> t[n].type = "spawn"
          /\ Leaves(m) = Finds(t[n])
      BY <1>1, <2>0, <3>1 DEF Leads, Fits, m
    <3> QED
      BY <1>3, <2>3, <3>2 DEF Finds
  <2> QED
    BY <2>2, <2>3
<1>7. Ends(t, W, P)
  <2> SUFFICES ASSUME NEW n \in DOMAIN t, IsLast(t, n)
               PROVE  IF t[n].type = "destroy" THEN W[t[n].id] # "online"
                      ELSE W[t[n].id] = "online" /\ P[t[n].id] = Leaves(t[n])
    BY DEF Ends
  <2>1. IsLast(q, n + 1)
    <3> SUFFICES ASSUME NEW k \in DOMAIN q, n + 1 < k PROVE q[k].id # q[n + 1].id
      BY DEF IsLast
    <3>1. k - 1 \in DOMAIN t /\ q[k] = t[k - 1] /\ n < k - 1
      BY <1>1
    <3> QED
      BY <1>1, <3>1 DEF IsLast
  <2> QED
    BY <1>1, <2>1 DEF Leads, Ends
<1>8. Unmentioned(t, W, P, obj2, H2)
  <2> SUFFICES ASSUME NEW i \in Ids, ~Mentions(t, i)
               PROVE  IF W[i] = "online" THEN obj2[i] = "present" /\ H2[i] = P[i]
                      ELSE obj2[i] # "present"
    BY DEF Unmentioned
  <2>0. \A n \in DOMAIN q : n # 1 => q[n].id # i
    BY <1>1 DEF Mentions
  <2>1. CASE i # o
    <3>1. ~Mentions(q, i)
      BY <2>0, <2>1 DEF Mentions, o, m
    <3> QED
      BY <1>3, <2>1, <3>1 DEF Leads, Unmentioned
  <2>2. CASE i = o
    <3>1. IsLast(q, 1)
      BY <2>0, <2>2 DEF IsLast, o, m
    <3>2. IF m.type = "destroy" THEN W[o] # "online"
          ELSE W[o] = "online" /\ P[o] = Leaves(m)
      BY <1>1, <3>1 DEF Leads, Ends, o, m
    <3> QED
      BY <1>3, <2>2, <3>1, <3>2
  <2> QED
    BY <2>1, <2>2
<1>9. Held(t, obj2)
  <2> SUFFICES ASSUME NEW k \in DOMAIN t, Leaves(t[k]) # Nobody
               PROVE  There(t, k, t[k].dest, obj2)
    BY DEF Held
  <2> DEFINE d == t[k].dest
  <2>0. k + 1 \in DOMAIN q /\ t[k] = q[k + 1] /\ d \in Ids
    <3>1. d \in Ids \cup {Nobody} /\ d # Nobody
      BY <1>1, MessageTypes DEF Leaves
    <3> QED
      BY <1>1, <3>1
  <2>1. There(q, k + 1, d, obj)
    BY <2>0 DEF Leads, Held
  <2> HIDE DEF d
  <2>2. ASSUME NEW j \in Nat, NotDestroyed(q, j, k + 1, d)
        PROVE  /\ j \in {0, 1} => NotDestroyed(t, 0, k, d)
               /\ NotDestroyed(t, j - 1, k, d)
    <3>1. ASSUME NEW n \in DOMAIN t, j < n + 1, n < k, t[n].type = "destroy"
          PROVE  t[n].id # d
      <4>1. n + 1 \in DOMAIN q /\ t[n] = q[n + 1] /\ n + 1 < k + 1
        BY <1>1, <3>1
      <4> QED
        BY <2>2, <3>1, <4>1 DEF NotDestroyed
    <3>2. \A n \in DOMAIN t : n \in Nat \ {0} /\ (j - 1 < n => j < n + 1)
      BY <1>1
    <3>3. j \in {0, 1} => \A n \in DOMAIN t : j < n + 1
      BY <1>1
    <3> QED
      BY <3>1, <3>2, <3>3 DEF NotDestroyed
  <2>3. CASE obj[d] = "present" /\ NotDestroyed(q, 0, k + 1, d)
    <3>1. NotDestroyed(t, 0, k, d)
      BY <2>2, <2>3
    <3>2. d = o => m.type # "destroy"
      <4>1. 0 < 1 /\ 1 < k + 1
        BY <1>1
      <4> QED
        BY <1>1, <2>3, <4>1 DEF NotDestroyed, o, m
    <3>3. obj2[d] = "present"
      BY <1>3, <2>0, <2>3, <3>2
    <3> QED
      BY <3>1, <3>3 DEF There, d
  <2>4. ASSUME NEW j \in DOMAIN q, j < k + 1, q[j].type = "spawn", q[j].id = d,
               NotDestroyed(q, j, k + 1, d)
        PROVE  There(t, k, d, obj2)
    <3>1. CASE j = 1
      <4>1. d = o /\ m.type = "spawn" /\ NotDestroyed(t, 0, k, d)
        BY <2>2, <2>4, <3>1 DEF o, m
      <4> QED
        BY <1>3, <4>1 DEF There
    <3>2. CASE j # 1
      <4>1. j - 1 \in DOMAIN t /\ q[j] = t[j - 1] /\ j \in Nat /\ k \in Nat
        BY <1>1, <3>2
      <4>2. j - 1 < k
        BY <2>4, <4>1
      <4>3. NotDestroyed(t, j - 1, k, d)
        BY <2>2, <2>4, <4>1
      <4> QED
        BY <2>4, <4>1, <4>2, <4>3 DEF There
    <3> QED
      BY <3>1, <3>2
  <2> QED
    BY <2>1, <2>3, <2>4 DEF There, d
<1>10. Emptied(t, H2)
  <2> SUFFICES ASSUME NEW n \in DOMAIN t, t[n].type = "destroy"
               PROVE  /\ \A i \in Ids : H2[i] = t[n].id =>
                            \E k \in DOMAIN t : k < n /\ Rejects(t, k, t[n].id, i)
                      /\ \A j \in DOMAIN t : j < n /\ Leaves(t[j]) = t[n].id =>
                            \E k \in DOMAIN t : /\ j < k /\ k < n
                                                /\ Rejects(t, k, t[n].id, t[j].id)
    BY DEF Emptied
  <2> DEFINE d == t[n].id
  <2>0. n + 1 \in DOMAIN q /\ t[n] = q[n + 1] /\ d # Nobody /\ 1 < n + 1
    BY <1>1, <1>2
  <2>1. /\ \A i \in Ids : H[i] = d =>
              \E k \in DOMAIN q : k < n + 1 /\ Rejects(q, k, d, i)
        /\ \A j \in DOMAIN q : j < n + 1 /\ Leaves(q[j]) = d =>
              \E k \in DOMAIN q : j < k /\ k < n + 1 /\ Rejects(q, k, d, q[j].id)
    BY <2>0 DEF Leads, Emptied
  <2> HIDE DEF d
  <2>2. ASSUME NEW k \in DOMAIN q, NEW i, k # 1, k < n + 1, Rejects(q, k, d, i)
        PROVE  k - 1 \in DOMAIN t /\ k - 1 < n /\ Rejects(t, k - 1, d, i)
    <3>1. k \in Nat /\ n \in Nat /\ k - 1 \in DOMAIN t /\ q[k] = t[k - 1]
      BY <1>1, <2>2
    <3> QED
      BY <2>2, <3>1 DEF Rejects
  <2>3. ASSUME NEW i \in Ids, H2[i] = d
        PROVE  \E k \in DOMAIN t : k < n /\ Rejects(t, k, d, i)
    <3>1. CASE i # o
      <4>1. PICK k \in DOMAIN q : k < n + 1 /\ Rejects(q, k, d, i)
        BY <1>3, <2>1, <2>3, <3>1
      <4>2. k # 1
        BY <3>1, <4>1 DEF Rejects, o, m
      <4> QED
        BY <2>2, <4>1, <4>2
    <3>2. CASE i = o
      <4>1. Leaves(m) = d
        BY <1>3, <2>0, <2>3, <3>2
      <4>2. PICK k \in DOMAIN q : 1 < k /\ k < n + 1 /\ Rejects(q, k, d, o)
        BY <1>1, <2>0, <2>1, <4>1 DEF o, m
      <4>3. k # 1
        BY <4>2
      <4> QED
        BY <2>2, <3>2, <4>2, <4>3
    <3> QED
      BY <3>1, <3>2
  <2>4. ASSUME NEW j \in DOMAIN t, j < n, Leaves(t[j]) = d
        PROVE  \E k \in DOMAIN t : j < k /\ k < n /\ Rejects(t, k, d, t[j].id)
    <3>1. j + 1 \in DOMAIN q /\ t[j] = q[j + 1] /\ j + 1 < n + 1
      BY <1>1, <2>4
    <3>2. PICK k \in DOMAIN q :
             j + 1 < k /\ k < n + 1 /\ Rejects(q, k, d, q[j + 1].id)
      BY <2>1, <2>4, <3>1
    <3>3. k # 1 /\ j < k - 1
      BY <1>1, <3>2
    <3> QED
      BY <2>2, <3>1, <3>2, <3>3
  <2> QED
    BY <2>3, <2>4 DEF d
<1>11. Owners(obj2, H2)
  <2> SUFFICES ASSUME NEW i \in Ids, H2[i] # Nobody
               PROVE  obj2[i] = "present" /\ obj2[H2[i]] = "present"
    BY DEF Owners
  <2>1. CASE i # o
    <3>1. /\ H2[i] = H[i] /\ obj2[i] = obj[i] /\ H[i] \in Ids
          /\ obj[i] = "present" /\ obj[H[i]] = "present"
      BY <1>3, <2>1 DEF Leads, Owners, ViewTypes
    <3>2. CASE H[i] = o
      <4>1. m.type # "destroy"
        <5> SUFFICES ASSUME m.type = "destroy" PROVE FALSE
          OBVIOUS
        <5>1. PICK k \in DOMAIN q : k < 1
          BY <1>1, <3>2 DEF Leads, Emptied, o, m
        <5> QED
          BY <1>1, <5>1
      <4> QED
        BY <1>3, <3>1, <3>2, <4>1
    <3>3. CASE H[i] # o
      BY <1>3, <3>1, <3>3
    <3> QED
      BY <3>2, <3>3
  <2>2. CASE i = o
    <3>1. H2[o] = Leaves(m) /\ Leaves(m) # Nobody
      BY <1>3, <2>2
    <3>2. m.type # "destroy" /\ Leaves(m) = m.dest /\ m.dest \in Ids
      BY <1>2, <3>1 DEF Leaves
    <3>3. obj[m.dest] = "present"
      <4>1. There(q, 1, m.dest, obj)
        BY <1>1, <3>1 DEF Leads, Held, m
      <4>2. \A j \in DOMAIN q : ~(j < 1)
        BY <1>1
      <4> QED
        BY <4>1, <4>2 DEF There
    <3> QED
      BY <1>3, <2>2, <3>1, <3>2, <3>3
  <2> QED
    BY <2>1, <2>2
<1> QED
  BY <1>0, <1>1, <1>5, <1>6, <1>7, <1>8, <1>9, <1>10, <1>11 DEF Leads

(* ProcessDestroyQueue takes away what no event is about.                  *)
LEMMA PurgedLeads ==
    ASSUME NEW q \in Seq(Messages), NEW W, NEW P, NEW obj, NEW H,
           ViewTypes(P, obj, H), Leads(q, W, P, obj, H), NEW obj2,
           \A i \in Ids : obj2[i] = IF obj[i] = "dying" THEN "absent" ELSE obj[i]
    PROVE  Leads(q, W, P, obj2, H)
<1>1. \A i \in Ids : obj2[i] = "present" <=> obj[i] = "present"
  OBVIOUS
<1>3. Starts(q, obj2, H)
  BY <1>1, MessageTypes DEF Leads, Starts
<1>4. Unmentioned(q, W, P, obj2, H)
  BY <1>1 DEF Leads, Unmentioned
<1>5. Held(q, obj2)
  <2>1. \A k \in DOMAIN q : Leaves(q[k]) # Nobody => q[k].dest \in Ids
    BY MessageTypes DEF Leaves
  <2> QED
    BY <1>1, <2>1 DEF Leads, Held, There
<1>6. Owners(obj2, H)
  <2>1. \A i \in Ids : H[i] # Nobody => H[i] \in Ids
    BY DEF ViewTypes
  <2> QED
    BY <1>1, <2>1 DEF Leads, Owners
<1> QED
  BY <1>3, <1>4, <1>5, <1>6 DEF Leads

-----------------------------------------------------------------------------
(* The packs of a destruction and of a switch to offline.                  *)

(* p takes the members of R from the owners they have, and destroys those  *)
(* of D, each once: an entity after it was taken from its owner, an owner  *)
(* after all that was taken from it.                                       *)
Pack(p, R, D) ==
    /\ p \in Seq(Messages) /\ R \subseteq Ids /\ D \subseteq Ids
    /\ \A n \in DOMAIN p :
          \/ p[n].type = "destroy" /\ p[n].id \in D
          \/ /\ p[n].type = "reject" /\ p[n].id \in R
             /\ p[n].dest = ID_Parent[p[n].id] /\ p[n].dest # Nobody
    /\ \A y \in D : \E n \in DOMAIN p : p[n].type = "destroy" /\ p[n].id = y
    /\ \A y \in R : ID_Parent[y] # Nobody =>
          \E n \in DOMAIN p : p[n].type = "reject" /\ p[n].id = y
    /\ \A j, k \in DOMAIN p : p[j].type = p[k].type /\ p[j].id = p[k].id => j = k
    /\ \A j, k \in DOMAIN p :
          /\ p[j].type = "reject" /\ p[k].type = "destroy"
          /\ p[k].id \in {p[j].id, ID_Parent[p[j].id]}
          => j < k

LEMMA PackConcat ==
    ASSUME NEW p, NEW q, NEW R, NEW D, NEW S, NEW E, Pack(p, R, D), Pack(q, S, E),
           R \cap S = {}, D \cap E = {},
           \A y \in S : y \notin D /\ ID_Parent[y] \notin D
    PROVE  Pack(p \o q, R \cup S, D \cup E)
<1> DEFINE r == p \o q
           N == Len(p)
<1>0. /\ r \in Seq(Messages) /\ N \in Nat
      /\ \A n \in DOMAIN p : n \in DOMAIN r /\ r[n] = p[n] /\ n <= N
      /\ \A n \in DOMAIN q : N + n \in DOMAIN r /\ r[N + n] = q[n] /\ n \in Nat \ {0}
      /\ \A n \in DOMAIN r : n \in DOMAIN p \/ \E k \in DOMAIN q : n = N + k
  BY ConcatAt DEF Pack
<1>n. \A n \in DOMAIN p : n \in Nat
  BY MessageTypes DEF Pack
<1> HIDE DEF r, N
<1>1. \A n \in DOMAIN r :
         \/ r[n].type = "destroy" /\ r[n].id \in D \cup E
         \/ /\ r[n].type = "reject" /\ r[n].id \in R \cup S
            /\ r[n].dest = ID_Parent[r[n].id] /\ r[n].dest # Nobody
  <2>1. \A n \in DOMAIN p :
           \/ p[n].type = "destroy" /\ p[n].id \in D
           \/ /\ p[n].type = "reject" /\ p[n].id \in R
              /\ p[n].dest = ID_Parent[p[n].id] /\ p[n].dest # Nobody
    BY DEF Pack
  <2>2. \A n \in DOMAIN q :
           \/ q[n].type = "destroy" /\ q[n].id \in E
           \/ /\ q[n].type = "reject" /\ q[n].id \in S
              /\ q[n].dest = ID_Parent[q[n].id] /\ q[n].dest # Nobody
    BY DEF Pack
  <2> SUFFICES ASSUME NEW n \in DOMAIN r
               PROVE  \/ r[n].type = "destroy" /\ r[n].id \in D \cup E
                      \/ /\ r[n].type = "reject" /\ r[n].id \in R \cup S
                         /\ r[n].dest = ID_Parent[r[n].id] /\ r[n].dest # Nobody
    OBVIOUS
  <2>3. CASE n \in DOMAIN p
    BY <1>0, <2>1, <2>3
  <2>4. ASSUME NEW k \in DOMAIN q, n = N + k
        PROVE  \/ r[n].type = "destroy" /\ r[n].id \in D \cup E
               \/ /\ r[n].type = "reject" /\ r[n].id \in R \cup S
                  /\ r[n].dest = ID_Parent[r[n].id] /\ r[n].dest # Nobody
    <3>1. r[n] = q[k]
      BY <1>0, <2>4
    <3> QED
      BY <2>2, <3>1
  <2> QED
    BY <1>0, <2>3, <2>4
<1>2. ASSUME NEW y \in D \cup E
      PROVE  \E n \in DOMAIN r : r[n].type = "destroy" /\ r[n].id = y
  <2>1. \/ \E n \in DOMAIN p : p[n].type = "destroy" /\ p[n].id = y
        \/ \E n \in DOMAIN q : q[n].type = "destroy" /\ q[n].id = y
    BY DEF Pack
  <2> QED
    BY <1>0, <2>1
<1>3. ASSUME NEW y \in R \cup S, ID_Parent[y] # Nobody
      PROVE  \E n \in DOMAIN r : r[n].type = "reject" /\ r[n].id = y
  <2>1. \/ \E n \in DOMAIN p : p[n].type = "reject" /\ p[n].id = y
        \/ \E n \in DOMAIN q : q[n].type = "reject" /\ q[n].id = y
    BY <1>3 DEF Pack
  <2> QED
    BY <1>0, <2>1
<1>4. ASSUME NEW j \in DOMAIN r, NEW k \in DOMAIN r,
             r[j].type = r[k].type, r[j].id = r[k].id
      PROVE  j = k
  <2>1. CASE j \in DOMAIN p /\ k \in DOMAIN p
    <3>1. p[j].type = p[k].type /\ p[j].id = p[k].id
      BY <1>0, <1>4, <2>1
    <3> QED
      BY <2>1, <3>1 DEF Pack
  <2>2. ASSUME NEW u \in DOMAIN q, NEW v \in DOMAIN q, j = N + u, k = N + v
        PROVE  j = k
    <3>1. q[u].type = q[v].type /\ q[u].id = q[v].id
      BY <1>0, <1>4, <2>2
    <3> QED
      BY <2>2, <3>1 DEF Pack
  <2>3. ASSUME NEW u \in DOMAIN p, NEW v \in DOMAIN q,
               p[u].type = q[v].type, p[u].id = q[v].id
        PROVE  FALSE
    BY <2>3 DEF Pack
  <2>4. ~(j \in DOMAIN p /\ k \notin DOMAIN p)
    <3> SUFFICES ASSUME j \in DOMAIN p, k \notin DOMAIN p PROVE FALSE
      OBVIOUS
    <3>1. PICK v \in DOMAIN q : k = N + v
      BY <1>0
    <3>2. r[j] = p[j] /\ r[k] = q[v]
      BY <1>0, <3>1
    <3> QED
      BY <1>4, <2>3, <3>2
  <2>5. ~(j \notin DOMAIN p /\ k \in DOMAIN p)
    <3> SUFFICES ASSUME j \notin DOMAIN p, k \in DOMAIN p PROVE FALSE
      OBVIOUS
    <3>1. PICK u \in DOMAIN q : j = N + u
      BY <1>0
    <3>2. r[k] = p[k] /\ r[j] = q[u]
      BY <1>0, <3>1
    <3> QED
      BY <1>4, <2>3, <3>2
  <2>6. CASE j \notin DOMAIN p /\ k \notin DOMAIN p
    BY <1>0, <2>2, <2>6
  <2> QED
    BY <2>1, <2>4, <2>5, <2>6
<1>5. ASSUME NEW j \in DOMAIN r, NEW k \in DOMAIN r,
             r[j].type = "reject", r[k].type = "destroy",
             r[k].id \in {r[j].id, ID_Parent[r[j].id]}
      PROVE  j < k
  <2>1. CASE j \in DOMAIN p /\ k \in DOMAIN p
    BY <1>0, <1>5, <2>1 DEF Pack
  <2>2. ASSUME NEW u \in DOMAIN q, NEW v \in DOMAIN q, j = N + u, k = N + v
        PROVE  j < k
    <3>1. u < v
      BY <1>0, <1>5, <2>2 DEF Pack
    <3> QED
      BY <1>0, <2>2, <3>1
  <2>3. ASSUME j \in DOMAIN p, NEW v \in DOMAIN q, k = N + v
        PROVE  j < k
    BY <1>0, <1>n, <2>3
  <2>4. ASSUME NEW u \in DOMAIN q, j = N + u, k \in DOMAIN p
        PROVE  FALSE
    <3>1. r[j] = q[u] /\ r[k] = p[k]
      BY <1>0, <2>4
    <3>2. q[u].id \in S /\ p[k].id \in D
      BY <1>5, <2>4, <3>1 DEF Pack
    <3> QED
      BY <1>5, <3>1, <3>2
  <2> QED
    BY <1>0, <2>1, <2>2, <2>3, <2>4
<1> QED
  BY <1>0, <1>1, <1>2, <1>3, <1>4, <1>5 DEF Pack, r

(* The packs that a walk is made of.                                       *)
LEMMA PackNothing == Pack(<<>>, {}, {})
  BY EmptySeq DEF Pack

LEMMA PackRejected ==
    ASSUME NEW y \in Ids, ID_Parent \in [Ids -> Ids \cup {Nobody}]
    PROVE  Pack(Rejected(y), {y}, {})
<1>1. CASE ID_Parent[y] = Nobody
  <2>1. Rejected(y) = <<>>
    BY <1>1 DEF Rejected
  <2> QED
    BY <1>1, <2>1, EmptySeq DEF Pack
<1>2. CASE ID_Parent[y] # Nobody
  <2>1. PICK m : m = Msg("reject", ID_Parent[y], y)
    OBVIOUS
  <2>2. /\ m \in Messages /\ m.type = "reject" /\ m.id = y
        /\ m.dest = ID_Parent[y]
    BY <1>2, <2>1 DEF Msg, Messages
  <2>3. PICK p : p = <<m>>
    OBVIOUS
  <2>4. p \in Seq(Messages) /\ DOMAIN p = {1} /\ p[1] = m
    BY <2>2, <2>3
  <2>5. Rejected(y) = p
    BY <1>2, <2>1, <2>3 DEF Rejected
  <2>6. Pack(p, {y}, {})
    BY <1>2, <2>2, <2>4 DEF Pack
  <2> QED
    BY <2>5, <2>6
<1> QED
  BY <1>1, <1>2

LEMMA PackDestroyed ==
    ASSUME NEW y \in Ids
    PROVE  Pack(Destroyed(y), {}, {y})
<1>1. PICK m : m = Msg("destroy", y, y)
  OBVIOUS
<1>2. m \in Messages /\ m.type = "destroy" /\ m.id = y
  BY <1>1 DEF Msg, Messages
<1>3. PICK p : p = <<m>>
  OBVIOUS
<1>4. p \in Seq(Messages) /\ DOMAIN p = {1} /\ p[1] = m
  BY <1>2, <1>3
<1>5. Destroyed(y) = p
  BY <1>1, <1>3 DEF Destroyed
<1>6. Pack(p, {}, {y})
  BY <1>2, <1>4 DEF Pack
<1> QED
  BY <1>5, <1>6

LEMMA IntervalGrows ==
    ASSUME NEW n \in Nat
    PROVE  /\ 1 .. n + 1 = (1 .. n) \cup {n + 1}
           /\ \A L \in Nat : n + 1 <= L =>
                 n + 1 \in 1 .. L /\ n <= L /\ (n + 1) - 1 = n
  OBVIOUS

(* Packs of trees that have nothing to do with each other, one after the   *)
(* other.                                                                  *)
LEMMA PackFlatten ==
    ASSUME NEW L \in Nat, NEW f \in [1 .. L -> Seq(Messages)],
           NEW T, \A n \in 1 .. L : Pack(f[n], T[n], T[n]),
           \A j, k \in 1 .. L : j # k =>
              T[j] \cap T[k] = {} /\ \A y \in T[k] : ID_Parent[y] \notin T[j],
           NEW A, \A y : y \in A <=> \E n \in 1 .. L : y \in T[n]
    PROVE  Pack(FlattenSeq(f), A, A)
<1>1. f \in Seq(Seq(Messages)) /\ Len(f) = L
  OBVIOUS
<1>2. PICK g \in [0 .. L -> Seq(Messages)] :
         /\ g[0] = <<>>
         /\ \A n \in 1 .. L : g[n] = g[n - 1] \o f[n]
         /\ FlattenSeq(f) = g[L]
  BY <1>1, FlattenUnfold
<1> DEFINE U(n) == UNION {T[k] : k \in 1 .. n}
           I == {n \in Nat : n <= L => Pack(g[n], U(n), U(n))}
<1>3. 0 \in I
  <2>1. U(0) = {}
    OBVIOUS
  <2> HIDE DEF U
  <2> QED
    BY <1>2, <2>1, PackNothing
<1>4. ASSUME NEW n \in Nat, n \in I, n + 1 <= L
      PROVE  Pack(g[n + 1], U(n + 1), U(n + 1))
  <2>1. n + 1 \in 1 .. L /\ n <= L /\ (n + 1) - 1 = n
    <3> HIDE DEF U, I
    <3> QED
      BY <1>4, IntervalGrows
  <2>2. Pack(g[n], U(n), U(n))
    BY <1>4, <2>1
  <2>3. U(n + 1) = U(n) \cup T[n + 1]
    <3>1. 1 .. n + 1 = (1 .. n) \cup {n + 1}
      BY IntervalGrows
    <3> QED
      BY <3>1
  <2>4. \A k \in 1 .. n : k \in 1 .. L /\ k # n + 1
    BY <2>1
  <2>5. U(n) \cap T[n + 1] = {}
    BY <2>1, <2>4
  <2>6. \A y \in T[n + 1] : y \notin U(n) /\ ID_Parent[y] \notin U(n)
    BY <2>1, <2>4, <2>5, SMTT(30)
  <2>7. g[n + 1] = g[n] \o f[n + 1]
    BY <1>2, <2>1
  <2>8. Pack(f[n + 1], T[n + 1], T[n + 1])
    BY <2>1
  <2> HIDE DEF U, I
  <2>9. Pack(g[n] \o f[n + 1], U(n) \cup T[n + 1], U(n) \cup T[n + 1])
    BY <2>2, <2>5, <2>6, <2>8, PackConcat
  <2> QED
    BY <2>3, <2>7, <2>9
<1>5. L \in I
  <2> HIDE DEF U
  <2>1. ASSUME NEW n \in Nat, n \in I
        PROVE  n + 1 \in I
    <3>1. n + 1 <= L => Pack(g[n + 1], U(n + 1), U(n + 1))
      <4> HIDE DEF I
      <4> QED
        BY <1>4, <2>1
    <3> QED
      BY <3>1
  <2> HIDE DEF I
  <2> QED
    BY <1>3, <2>1, NatInduct
<1>6. Pack(g[L], U(L), U(L))
  <2> HIDE DEF U
  <2>1. L <= L
    OBVIOUS
  <2> QED
    BY <1>5, <2>1
<1>7. A = U(L)
  OBVIOUS
<1> QED
  BY <1>2, <1>6, <1>7

(* The forest has no cycle: who is held, directly or not, does not hold.   *)
LEMMA TreeShape ==
    ASSUME IInv, NEW x \in Ids
    PROVE  /\ children[x] \subseteq Ids /\ IsFiniteSet(children[x])
           /\ \A c \in children[x] : ID_Parent[c] = x
           /\ x \notin Below(x) /\ ID_Parent[x] \notin Below(x)
<1>1. children[x] \subseteq Ids /\ \A c \in children[x] : ID_Parent[c] = x
  BY DEF IInv, ServerTypeOK, VerifyEntities
<1>2. IsFiniteSet(children[x])
  BY <1>1, IdsAssumption, FS_Subset
<1>3. \A p, i \in Ids : i \in children[p] => CanHold(p, i) /\ ID_Parent[i] = p
  BY NobodyAssumption DEF IInv, ServerTypeOK, VerifyEntities
<1>4. ID_Parent[x] \in Ids => CanHold(ID_Parent[x], x)
  BY NobodyAssumption DEF IInv, ServerTypeOK, VerifyEntities
<1>5. x \notin children[x] /\ ID_Parent[x] \notin children[x]
  BY <1>1, <1>3, <1>4, KindsAssumption DEF CanHold
<1>6. ASSUME NEW c \in children[x]
      PROVE  x \notin children[c] /\ ID_Parent[x] \notin children[c]
  <2>1. c \in Ids /\ CanHold(x, c) /\ children[c] \subseteq Ids
    BY <1>1, <1>3 DEF IInv, ServerTypeOK
  <2>2. x \notin children[c]
    BY <1>3, <2>1, KindsAssumption DEF CanHold
  <2>3. ASSUME ID_Parent[x] \in children[c]
        PROVE  FALSE
    <3>1. CanHold(c, ID_Parent[x]) /\ CanHold(ID_Parent[x], x)
      BY <1>3, <1>4, <2>1, <2>3
    <3> QED
      BY <2>1, <3>1, KindsAssumption DEF CanHold
  <2> QED
    BY <2>2, <2>3
<1> QED
  BY <1>1, <1>2, <1>5, <1>6 DEF Below

(* The packs of the children of x, in the order of their list: each of the *)
(* child alone, or with what it holds.                                     *)
LEMMA PackSiblings ==
    ASSUME IInv, NEW x \in Ids, NEW s \in SetToSeqs(children[x]),
           NEW f \in [DOMAIN s -> Seq(Messages)], NEW T,
           \A n \in DOMAIN s : Pack(f[n], T[s[n]], T[s[n]]),
           \A c \in children[x] : T[c] \subseteq {c} \cup children[c],
           NEW A, \A y : y \in A <=> \E c \in children[x] : y \in T[c]
    PROVE  Pack(FlattenSeq(f), A, A)
<1>1. IsFiniteSet(children[x]) /\ children[x] \subseteq Ids
  BY TreeShape
<1> DEFINE L == Len(s)
<1>2. /\ L \in Nat /\ DOMAIN s = 1 .. L
      /\ \A n \in 1 .. L : s[n] \in children[x]
      /\ \A j, k \in 1 .. L : s[j] = s[k] => j = k
      /\ \A c \in children[x] : \E n \in 1 .. L : s[n] = c
  BY <1>1, SeqOfSet, ElementOfSeq
<1> HIDE DEF L
<1> DEFINE V == [n \in 1 .. L |-> T[s[n]]]
<1>3. ASSUME NEW c \in children[x], NEW d \in children[x], c # d
      PROVE  T[c] \cap T[d] = {} /\ \A y \in T[d] : ID_Parent[y] \notin T[c]
  <2>1. /\ c \in Ids /\ d \in Ids /\ ID_Parent[c] = x /\ ID_Parent[d] = x
        /\ children[c] \subseteq Ids /\ children[d] \subseteq Ids
        /\ \A y \in children[c] : ID_Parent[y] = c
        /\ \A y \in children[d] : ID_Parent[y] = d
        /\ x \notin children[x] /\ x \notin children[c]
    BY <1>1, <1>3, TreeShape DEF Below
  <2>2. x # c /\ x # d
    BY <1>3, <2>1
  <2>3. T[c] \subseteq {c} \cup children[c] /\ T[d] \subseteq {d} \cup children[d]
    OBVIOUS
  <2>4. c \notin children[d] /\ d \notin children[c]
    BY <2>1, <2>2
  <2> QED
    BY <1>3, <2>1, <2>2, <2>3, <2>4
<1>4. \A n \in 1 .. L : Pack(f[n], V[n], V[n])
  BY <1>2
<1>5. \A j, k \in 1 .. L : j # k =>
         V[j] \cap V[k] = {} /\ \A y \in V[k] : ID_Parent[y] \notin V[j]
  BY <1>2, <1>3
<1>6. \A y : y \in A <=> \E n \in 1 .. L : y \in V[n]
  BY <1>2
<1>7. f \in [1 .. L -> Seq(Messages)]
  BY <1>2
<1> HIDE DEF V
<1> QED
  BY <1>2, <1>4, <1>5, <1>6, <1>7, PackFlatten

LEMMA PackChildren ==
    ASSUME IInv, NEW x \in Ids, NEW s \in SetToSeqs(children[x]),
           NEW f \in [DOMAIN s -> Seq(Messages)]
    PROVE  /\ (\A n \in DOMAIN s : Pack(f[n], {s[n]}, {s[n]})) =>
                 Pack(FlattenSeq(f), children[x], children[x])
           /\ (\A n \in DOMAIN s : Pack(f[n], {s[n]} \cup children[s[n]],
                                              {s[n]} \cup children[s[n]])) =>
                 Pack(FlattenSeq(f), Below(x), Below(x))
<1>0. \A n \in DOMAIN s : s[n] \in children[x]
  BY TreeShape, SeqOfSet, ElementOfSeq
<1>1. ASSUME \A n \in DOMAIN s : Pack(f[n], {s[n]}, {s[n]})
      PROVE  Pack(FlattenSeq(f), children[x], children[x])
  <2> DEFINE T == [c \in children[x] |-> {c}]
  <2>1. \A n \in DOMAIN s : Pack(f[n], T[s[n]], T[s[n]])
    BY <1>0, <1>1
  <2>2. \A c \in children[x] : T[c] \subseteq {c} \cup children[c]
    OBVIOUS
  <2>3. \A y : y \in children[x] <=> \E c \in children[x] : y \in T[c]
    OBVIOUS
  <2> HIDE DEF T
  <2> QED
    BY <2>1, <2>2, <2>3, PackSiblings
<1>2. ASSUME \A n \in DOMAIN s : Pack(f[n], {s[n]} \cup children[s[n]],
                                            {s[n]} \cup children[s[n]])
      PROVE  Pack(FlattenSeq(f), Below(x), Below(x))
  <2> DEFINE T == [c \in children[x] |-> {c} \cup children[c]]
  <2>1. \A n \in DOMAIN s : Pack(f[n], T[s[n]], T[s[n]])
    BY <1>0, <1>2
  <2>2. \A c \in children[x] : T[c] \subseteq {c} \cup children[c]
    OBVIOUS
  <2>3. \A y : y \in Below(x) <=> \E c \in children[x] : y \in T[c]
    BY DEF Below
  <2> HIDE DEF T
  <2> QED
    BY <2>1, <2>2, <2>3, PackSiblings
<1> QED
  BY <1>1, <1>2

(* What is below x in the order of its walk.                               *)
LEMMA OrderShape ==
    ASSUME IInv, NEW x \in Ids, NEW kids \in Orders(x), NEW y \in Subtree(x)
    PROVE  /\ y \in Ids /\ kids[y] \in SetToSeqs(children[y])
           /\ \A n \in DOMAIN kids[y] : kids[y][n] \in children[y]
           /\ children[y] \subseteq Ids /\ children[x] \subseteq Subtree(x)
           /\ y \notin children[y] /\ ID_Parent[y] \notin children[y]
           /\ y \notin Below(y) /\ ID_Parent[y] \notin Below(y)
<1>1. y \in Ids
  BY SubtreeClosed
<1>2. kids[y] \in SetToSeqs(children[y])
  BY DEF Orders
<1>3. children[y] \subseteq Ids /\ IsFiniteSet(children[y])
  BY <1>1, TreeShape
<1>4. \A n \in DOMAIN kids[y] : kids[y][n] \in children[y]
  BY <1>2, <1>3, SeqOfSet, ElementOfSeq
<1> QED
  BY <1>1, <1>2, <1>3, <1>4, TreeShape DEF Below, Subtree

(* An entity that is taken from its owner and destroyed.                   *)
LEMMA PackOne ==
    ASSUME IInv, NEW y \in Ids
    PROVE  /\ Pack(Rejected(y) \o Destroyed(y), {y}, {y})
           /\ Pack(<<>> \o (Rejected(y) \o Destroyed(y)), {y}, {y})
<1>1. Pack(Rejected(y), {y}, {}) /\ Pack(Destroyed(y), {}, {y})
  BY PackRejected, PackDestroyed DEF IInv, ServerTypeOK
<1>2. Pack(Rejected(y) \o Destroyed(y), {y} \cup {}, {} \cup {y})
  BY <1>1, PackConcat
<1>3. Pack(Rejected(y) \o Destroyed(y), {y}, {y})
  BY <1>2
<1>4. Pack(<<>> \o (Rejected(y) \o Destroyed(y)), {} \cup {y}, {} \cup {y})
  BY <1>3, PackNothing, PackConcat
<1>5. {} \cup {y} = {y}
  OBVIOUS
<1> QED
  BY <1>3, <1>4, <1>5

(* The same around the pack of all it holds: the reject after it or before *)
(* it.                                                                     *)
LEMMA PackAround ==
    ASSUME IInv, NEW y \in Ids, NEW p, NEW Y, Pack(p, Y, Y),
           y \notin Y, ID_Parent[y] \notin Y
    PROVE  /\ Pack((<<>> \o p) \o (Rejected(y) \o Destroyed(y)),
                   {y} \cup Y, {y} \cup Y)
           /\ Pack((Rejected(y) \o p) \o Destroyed(y), {y} \cup Y, {y} \cup Y)
<1>1. Pack(Rejected(y), {y}, {}) /\ Pack(Destroyed(y), {}, {y})
  BY PackRejected, PackDestroyed DEF IInv, ServerTypeOK
<1>2. Pack(<<>> \o p, Y, Y)
  <2>1. Pack(<<>> \o p, {} \cup Y, {} \cup Y)
    BY PackNothing, PackConcat
  <2> QED
    BY <2>1
<1>3. Pack((<<>> \o p) \o (Rejected(y) \o Destroyed(y)), Y \cup {y}, Y \cup {y})
  BY <1>2, PackOne, PackConcat
<1>4. Pack(Rejected(y) \o p, {y} \cup Y, Y)
  <2>1. Pack(Rejected(y) \o p, {y} \cup Y, {} \cup Y)
    BY <1>1, PackConcat
  <2> QED
    BY <2>1
<1>5. Pack((Rejected(y) \o p) \o Destroyed(y), {y} \cup Y, Y \cup {y})
  <2>1. Pack((Rejected(y) \o p) \o Destroyed(y), ({y} \cup Y) \cup {}, Y \cup {y})
    BY <1>1, <1>4, PackConcat
  <2> QED
    BY <2>1
<1>6. Y \cup {y} = {y} \cup Y
  OBVIOUS
<1> QED
  BY <1>3, <1>5, <1>6

(* Process_event_destroy: an entity goes when all it held is gone.         *)
LEMMA DestroyIsPack ==
    ASSUME IInv, NEW x \in Ids, NEW kids \in Orders(x)
    PROVE  Pack(DestroyPack(x, kids), Subtree(x), Subtree(x))
<1> DEFINE Leaf(y)   == <<>> \o (Rejected(y) \o Destroyed(y))
           Lower(y)  == FlattenSeq([n \in DOMAIN kids[y] |-> Leaf(kids[y][n])])
           Branch(y) == (<<>> \o Lower(y)) \o (Rejected(y) \o Destroyed(y))
           Upper     == FlattenSeq([n \in DOMAIN kids[x] |-> Branch(kids[x][n])])
<1>1. DestroyPack(x, kids) = (<<>> \o Upper) \o (Rejected(x) \o Destroyed(x))
  BY DEF DestroyPack, Walk
<1>2. \A y \in Ids : Pack(Leaf(y), {y}, {y})
  BY PackOne
<1> HIDE DEF Leaf
<1>3. ASSUME NEW y \in Subtree(x)
      PROVE  Pack(Branch(y), {y} \cup children[y], {y} \cup children[y])
  <2> DEFINE s == kids[y]
             f == [n \in DOMAIN s |-> Leaf(s[n])]
  <2>1. /\ y \in Ids /\ s \in SetToSeqs(children[y])
        /\ \A n \in DOMAIN s : s[n] \in children[y]
        /\ children[y] \subseteq Ids
        /\ y \notin children[y] /\ ID_Parent[y] \notin children[y]
    BY OrderShape
  <2> HIDE DEF s
  <2>2. \A n \in DOMAIN s : Pack(Leaf(s[n]), {s[n]}, {s[n]})
    BY <1>2, <2>1
  <2>3. \A n \in DOMAIN s : Pack(f[n], {s[n]}, {s[n]})
    BY <2>2
  <2>4. f \in [DOMAIN s -> Seq(Messages)]
    BY <2>2 DEF Pack
  <2>5. Pack(FlattenSeq(f), children[y], children[y])
    <3> HIDE DEF f
    <3> QED
      BY <2>1, <2>3, <2>4, PackChildren
  <2>6. Pack(Lower(y), children[y], children[y])
    BY <2>5 DEF s
  <2> HIDE DEF Lower
  <2> QED
    BY <2>1, <2>6, PackAround
<1> HIDE DEF Branch
<1>4. Pack(Upper, Below(x), Below(x)) /\ x \notin Below(x) /\ ID_Parent[x] \notin Below(x)
  <2> DEFINE s == kids[x]
             f == [n \in DOMAIN s |-> Branch(s[n])]
  <2>1. /\ s \in SetToSeqs(children[x])
        /\ \A n \in DOMAIN s : s[n] \in Subtree(x)
        /\ x \notin Below(x) /\ ID_Parent[x] \notin Below(x)
    BY OrderShape DEF Subtree
  <2> HIDE DEF s
  <2>2. \A n \in DOMAIN s : Pack(Branch(s[n]), {s[n]} \cup children[s[n]],
                                              {s[n]} \cup children[s[n]])
    BY <1>3, <2>1
  <2>3. \A n \in DOMAIN s : Pack(f[n], {s[n]} \cup children[s[n]],
                                      {s[n]} \cup children[s[n]])
    BY <2>2
  <2>4. f \in [DOMAIN s -> Seq(Messages)]
    BY <2>2 DEF Pack
  <2>5. Pack(FlattenSeq(f), Below(x), Below(x))
    <3> HIDE DEF f
    <3> QED
      BY <2>1, <2>3, <2>4, PackChildren
  <2> QED
    BY <2>1, <2>5 DEF s
<1> HIDE DEF Upper
<1>5. Pack((<<>> \o Upper) \o (Rejected(x) \o Destroyed(x)),
           {x} \cup Below(x), {x} \cup Below(x))
  BY <1>4, PackAround
<1> QED
  BY <1>1, <1>5 DEF Subtree

(* Perform_destroy: it is taken from its owner before.                     *)
LEMMA OfflineIsPack ==
    ASSUME IInv, NEW x \in Ids, NEW kids \in Orders(x)
    PROVE  Pack(OfflinePack(x, kids), Subtree(x), Subtree(x))
<1> DEFINE Leaf(y)   == Rejected(y) \o Destroyed(y)
           Lower(y)  == FlattenSeq([n \in DOMAIN kids[y] |-> Leaf(kids[y][n])])
           Branch(y) == (Rejected(y) \o Lower(y)) \o Destroyed(y)
           Upper     == FlattenSeq([n \in DOMAIN kids[x] |-> Branch(kids[x][n])])
<1>1. OfflinePack(x, kids) = (Rejected(x) \o Upper) \o Destroyed(x)
  BY DEF OfflinePack, Walk
<1>2. \A y \in Ids : Pack(Leaf(y), {y}, {y})
  BY PackOne
<1> HIDE DEF Leaf
<1>3. ASSUME NEW y \in Subtree(x)
      PROVE  Pack(Branch(y), {y} \cup children[y], {y} \cup children[y])
  <2> DEFINE s == kids[y]
             f == [n \in DOMAIN s |-> Leaf(s[n])]
  <2>1. /\ y \in Ids /\ s \in SetToSeqs(children[y])
        /\ \A n \in DOMAIN s : s[n] \in children[y]
        /\ children[y] \subseteq Ids
        /\ y \notin children[y] /\ ID_Parent[y] \notin children[y]
    BY OrderShape
  <2> HIDE DEF s
  <2>2. \A n \in DOMAIN s : Pack(Leaf(s[n]), {s[n]}, {s[n]})
    BY <1>2, <2>1
  <2>3. \A n \in DOMAIN s : Pack(f[n], {s[n]}, {s[n]})
    BY <2>2
  <2>4. f \in [DOMAIN s -> Seq(Messages)]
    BY <2>2 DEF Pack
  <2>5. Pack(FlattenSeq(f), children[y], children[y])
    <3> HIDE DEF f
    <3> QED
      BY <2>1, <2>3, <2>4, PackChildren
  <2>6. Pack(Lower(y), children[y], children[y])
    BY <2>5 DEF s
  <2> HIDE DEF Lower
  <2> QED
    BY <2>1, <2>6, PackAround
<1> HIDE DEF Branch
<1>4. Pack(Upper, Below(x), Below(x)) /\ x \notin Below(x) /\ ID_Parent[x] \notin Below(x)
  <2> DEFINE s == kids[x]
             f == [n \in DOMAIN s |-> Branch(s[n])]
  <2>1. /\ s \in SetToSeqs(children[x])
        /\ \A n \in DOMAIN s : s[n] \in Subtree(x)
        /\ x \notin Below(x) /\ ID_Parent[x] \notin Below(x)
    BY OrderShape DEF Subtree
  <2> HIDE DEF s
  <2>2. \A n \in DOMAIN s : Pack(Branch(s[n]), {s[n]} \cup children[s[n]],
                                              {s[n]} \cup children[s[n]])
    BY <1>3, <2>1
  <2>3. \A n \in DOMAIN s : Pack(f[n], {s[n]} \cup children[s[n]],
                                      {s[n]} \cup children[s[n]])
    BY <2>2
  <2>4. f \in [DOMAIN s -> Seq(Messages)]
    BY <2>2 DEF Pack
  <2>5. Pack(FlattenSeq(f), Below(x), Below(x))
    <3> HIDE DEF f
    <3> QED
      BY <2>1, <2>3, <2>4, PackChildren
  <2> QED
    BY <2>1, <2>5 DEF s
<1> HIDE DEF Upper
<1>5. Pack((Rejected(x) \o Upper) \o Destroyed(x),
           {x} \cup Below(x), {x} \cup Below(x))
  BY <1>4, PackAround
<1> QED
  BY <1>1, <1>5 DEF Subtree

-----------------------------------------------------------------------------
(* Every action of the server sends what joins the events under way.       *)

(* A tree that is online leaves the level.                                 *)
LEMMA PackJoins ==
    ASSUME IInv, NEW x \in Ids, NEW p,
           Pack(p, Subtree(x), Subtree(x)), Online(x), NEW W2, NEW P2,
           \A y \in Subtree(x) : W2[y] # "online",
           \A y \in Ids \ Subtree(x) : W2[y] = where[y] /\ P2[y] = ID_Parent[y]
    PROVE  p \in Seq(Messages) /\ Joins(p, where, ID_Parent, W2, P2)
<1> DEFINE T == Subtree(x)
<1>t. T \subseteq Ids /\ \A y \in Ids : ID_Parent[y] \in T => y \in T
  BY SubtreeClosed
<1>o. \A y \in T : where[y] = "online"
  <2>1. \A y \in children[x] : y \in Ids /\ where[y] = "online"
    BY NobodyAssumption DEF IInv, ServerTypeOK, VerifyEntities, Online
  <2>2. \A y \in children[x] : \A z \in children[y] : where[z] = "online"
    BY <2>1, NobodyAssumption DEF IInv, ServerTypeOK, VerifyEntities
  <2> QED
    BY <2>1, <2>2 DEF Subtree, Below, Online
<1>p. /\ p \in Seq(Messages)
      /\ \A n \in DOMAIN p :
            \/ p[n].type = "destroy" /\ p[n].id \in T
            \/ /\ p[n].type = "reject" /\ p[n].id \in T
               /\ p[n].dest = ID_Parent[p[n].id] /\ p[n].dest # Nobody
  BY DEF Pack
<1>d. \A y \in T : \E n \in DOMAIN p : p[n].type = "destroy" /\ p[n].id = y
  BY DEF Pack
<1>r. \A y \in T : ID_Parent[y] # Nobody =>
         \E n \in DOMAIN p : p[n].type = "reject" /\ p[n].id = y
  BY DEF Pack
<1>u. \A j, k \in DOMAIN p : p[j].type = p[k].type /\ p[j].id = p[k].id => j = k
  BY DEF Pack
<1>b. \A j, k \in DOMAIN p :
         /\ p[j].type = "reject" /\ p[k].type = "destroy"
         /\ p[k].id \in {p[j].id, ID_Parent[p[j].id]}
         => j < k
  BY DEF Pack
<1>n. \A n \in DOMAIN p : n \in Nat
  BY <1>p, MessageTypes
<1> HIDE DEF T
<1>1. Fits(p)
  <2> SUFFICES ASSUME NEW j \in DOMAIN p, NEW k \in DOMAIN p, IsNext(p, j, k)
               PROVE  /\ p[j].type = "destroy" <=> p[k].type = "spawn"
                      /\ Leaves(p[j]) = Finds(p[k])
    BY DEF Fits
  <2>1. j < k /\ p[j].id = p[k].id /\ j # k
    BY <1>n DEF IsNext
  <2>2. p[j].type = "reject" /\ p[k].type = "destroy"
    <3>1. p[j].type # p[k].type
      BY <1>u, <2>1
    <3>2. ~(p[j].type = "destroy" /\ p[k].type = "reject")
      <4> SUFFICES ASSUME p[j].type = "destroy", p[k].type = "reject" PROVE FALSE
        OBVIOUS
      <4>1. k < j
        BY <1>b, <2>1
      <4> QED
        BY <1>n, <2>1, <4>1
    <3> QED
      BY <1>p, <3>1, <3>2
  <2> QED
    BY <2>2 DEF Leaves, Finds
<1>2. Ends(p, W2, P2)
  <2> SUFFICES ASSUME NEW n \in DOMAIN p, IsLast(p, n)
               PROVE  p[n].type = "destroy" /\ W2[p[n].id] # "online"
    BY DEF Ends
  <2>1. p[n].id \in T
    BY <1>p
  <2>2. PICK k \in DOMAIN p : p[k].type = "destroy" /\ p[k].id = p[n].id
    BY <1>d, <2>1
  <2>3. p[n].type = "reject" => n < k
    BY <1>b, <2>2
  <2>4. p[n].type = "destroy"
    BY <1>p, <2>2, <2>3 DEF IsLast
  <2> QED
    BY <2>1, <2>4 DEF T
<1>3. ASSUME NEW n \in DOMAIN p, IsFirst(p, n)
      PROVE  /\ p[n].type # "spawn"
             /\ where[p[n].id] = "online" /\ ID_Parent[p[n].id] = Finds(p[n])
  <2>1. p[n].id \in T
    BY <1>p
  <2>2. CASE p[n].type = "reject"
    BY <1>o, <1>p, <2>1, <2>2 DEF Finds
  <2>3. CASE p[n].type # "reject"
    <3>1. p[n].type = "destroy"
      BY <1>p, <2>3
    <3>2. ID_Parent[p[n].id] = Nobody
      <4> SUFFICES ASSUME ID_Parent[p[n].id] # Nobody PROVE FALSE
        OBVIOUS
      <4>1. PICK j \in DOMAIN p : p[j].type = "reject" /\ p[j].id = p[n].id
        BY <1>r, <2>1
      <4>2. j < n
        BY <1>b, <3>1, <4>1
      <4> QED
        BY <1>3, <4>1, <4>2 DEF IsFirst
    <3> QED
      BY <1>o, <2>1, <3>1, <3>2 DEF Finds
  <2> QED
    BY <2>2, <2>3
<1>4. ASSUME NEW i \in Ids, ~Mentions(p, i)
      PROVE  /\ W2[i] = "online" <=> where[i] = "online"
             /\ where[i] = "online" => P2[i] = ID_Parent[i]
  <2>1. i \notin T
    BY <1>4, <1>d DEF Mentions
  <2> QED
    BY <2>1 DEF T
<1>5. \A k \in DOMAIN p : Leaves(p[k]) = Nobody
  BY <1>p DEF Leaves
<1>6. ASSUME NEW n \in DOMAIN p, p[n].type = "destroy"
      PROVE  /\ \A i \in Ids : where[i] = "online" /\ ID_Parent[i] = p[n].id =>
                   \E k \in DOMAIN p : k < n /\ Rejects(p, k, p[n].id, i)
             /\ \A j \in DOMAIN p : Leaves(p[j]) # p[n].id
  <2>1. p[n].id \in T /\ p[n].id \in Ids /\ p[n].id # Nobody
    BY <1>p, <1>t, <1>6, NobodyAssumption
  <2>2. ASSUME NEW i \in Ids, ID_Parent[i] = p[n].id
        PROVE  \E k \in DOMAIN p : k < n /\ Rejects(p, k, p[n].id, i)
    <3>1. i \in T
      BY <1>t, <2>1, <2>2
    <3>2. PICK k \in DOMAIN p : p[k].type = "reject" /\ p[k].id = i
      BY <1>r, <2>1, <2>2, <3>1
    <3>3. p[k].dest = p[n].id
      BY <1>p, <2>2, <3>2
    <3>4. k < n
      BY <1>b, <1>6, <2>2, <3>2
    <3> QED
      BY <3>2, <3>3, <3>4 DEF Rejects
  <2> QED
    BY <1>5, <2>1, <2>2
<1> QED
  BY <1>p, <1>1, <1>2, <1>3, <1>4, <1>5, <1>6 DEF Joins

(* An event alone, that takes, rejects or spawns.                          *)
LEMMA OneJoins ==
    ASSUME NEW m \in Messages,
           NEW W, NEW P, NEW W2, NEW P2, m.type # "destroy",
           IF m.type = "spawn" THEN W[m.id] # "online"
           ELSE W[m.id] = "online" /\ P[m.id] = Finds(m),
           W2[m.id] = "online" /\ P2[m.id] = Leaves(m),
           \A i \in Ids \ {m.id} :
              (W2[i] = "online" <=> W[i] = "online") /\ P2[i] = P[i],
           Leaves(m) # Nobody => W[m.dest] = "online"
    PROVE  <<m>> \in Seq(Messages) /\ Joins(<<m>>, W, P, W2, P2)
<1>1. PICK p : p = <<m>>
  OBVIOUS
<1>2. p \in Seq(Messages) /\ DOMAIN p = {1} /\ p[1] = m /\ ~(1 < 1)
  BY <1>1
<1>3. Fits(p)
  BY <1>2 DEF Fits, IsNext
<1>4. Ends(p, W2, P2)
  BY <1>2 DEF Ends
<1>5. \A i \in Ids : ~Mentions(p, i) => i # m.id
  BY <1>2 DEF Mentions
<1>6. Joins(p, W, P, W2, P2)
  BY <1>2, <1>3, <1>4, <1>5 DEF Joins
<1> QED
  BY <1>1, <1>2, <1>6

(* Where the events of a pack are behind one that is sent first.           *)
LEMMA PrependAt ==
    ASSUME NEW h \in Messages, NEW b \in Seq(Messages)
    PROVE  LET p == <<h>> \o b
           IN  /\ p \in Seq(Messages) /\ 1 \in DOMAIN p /\ p[1] = h
               /\ \A n \in DOMAIN b :
                     1 + n \in DOMAIN p /\ p[1 + n] = b[n] /\ n \in Nat \ {0}
               /\ \A n \in DOMAIN p : n = 1 \/ \E k \in DOMAIN b : n = 1 + k
<1>1. PICK a : a = <<h>>
  OBVIOUS
<1>2. a \in Seq(Messages)
  BY <1>1
<1>3. PICK p : p = a \o b
  OBVIOUS
<1>4. /\ p \in Seq(Messages)
      /\ \A n \in DOMAIN a : n \in DOMAIN p /\ p[n] = a[n]
      /\ \A n \in DOMAIN b : /\ Len(a) + n \in DOMAIN p /\ n \in Nat \ {0}
                             /\ p[Len(a) + n] = b[n]
      /\ \A n \in DOMAIN p :
            n \in DOMAIN a \/ \E k \in DOMAIN b : n = Len(a) + k
  BY <1>2, <1>3, ConcatAt
<1>5. DOMAIN a = {1} /\ a[1] = h /\ Len(a) = 1
  BY <1>1
<1> QED
  BY <1>1, <1>3, <1>4, <1>5

(* The list of the children of an entity.                                  *)
LEMMA ChildrenListed ==
    ASSUME IInv, NEW o \in Ids, NEW s \in SetToSeqs(children[o])
    PROVE  /\ Len(s) \in Nat /\ DOMAIN s = 1 .. Len(s)
           /\ \A n \in DOMAIN s : s[n] \in children[o]
           /\ \A j, k \in DOMAIN s : s[j] = s[k] => j = k
           /\ \A y \in children[o] : \E n \in DOMAIN s : s[n] = y
           /\ o \notin children[o] /\ children[o] \subseteq Ids
           /\ \A y \in children[o] : ID_Parent[y] = o
<1>1. /\ o \notin children[o] /\ children[o] \subseteq Ids
      /\ IsFiniteSet(children[o]) /\ \A y \in children[o] : ID_Parent[y] = o
  BY TreeShape DEF Below
<1>2. /\ s \in Seq(children[o]) /\ Len(s) \in Nat /\ DOMAIN s = 1 .. Len(s)
      /\ \A j, k \in 1 .. Len(s) : s[j] = s[k] => j = k
      /\ \A y \in children[o] : \E n \in 1 .. Len(s) : s[n] = y
  BY <1>1, SeqOfSet
<1>3. \A n \in DOMAIN s : s[n] \in children[o]
  BY <1>2, ElementOfSeq
<1> QED
  BY <1>1, <1>2, <1>3

(* A tree that comes online: the object, then what it holds.               *)
SpawnsTree(p, o, s) ==
    /\ p \in Seq(Messages)
    /\ 1 \in DOMAIN p /\ p[1].type = "spawn" /\ p[1].dest = Nobody /\ p[1].id = o
    /\ \A n \in DOMAIN s : /\ 1 + n \in DOMAIN p /\ p[1 + n].type = "spawn"
                           /\ p[1 + n].dest = o /\ p[1 + n].id = s[n]
    /\ \A n \in DOMAIN p : n = 1 \/ \E k \in DOMAIN s : n = 1 + k

LEMMA OnlineJoins ==
    ASSUME IInv, NEW o \in Ids, NEW W2,
           NEW s \in SetToSeqs(children[o]), ID_Parent[o] = Nobody,
           \A y \in {o} \cup children[o] : W2[y] = "online" /\ where[y] # "online",
           \A y \in Ids \ ({o} \cup children[o]) : W2[y] = where[y],
           NEW p, SpawnsTree(p, o, s)
    PROVE  Joins(p, where, ID_Parent, W2, ID_Parent)
<1>s. /\ Len(s) \in Nat /\ DOMAIN s = 1 .. Len(s)
      /\ \A n \in DOMAIN s : s[n] \in children[o]
      /\ \A j, k \in DOMAIN s : s[j] = s[k] => j = k
      /\ \A y \in children[o] : \E n \in DOMAIN s : s[n] = y
      /\ o \notin children[o] /\ children[o] \subseteq Ids
      /\ \A y \in children[o] : ID_Parent[y] = o
  BY ChildrenListed
<1>0. /\ p \in Seq(Messages)
      /\ 1 \in DOMAIN p /\ p[1].type = "spawn" /\ p[1].dest = Nobody /\ p[1].id = o
      /\ \A n \in DOMAIN s : /\ 1 + n \in DOMAIN p /\ p[1 + n].type = "spawn"
                             /\ p[1 + n].dest = o /\ p[1 + n].id = s[n]
                             /\ n \in Nat \ {0}
      /\ \A n \in DOMAIN p : n = 1 \/ \E k \in DOMAIN s : n = 1 + k
  <2>1. \A n \in DOMAIN s : n \in Nat \ {0}
    BY <1>s
  <2> QED
    BY <2>1 DEF SpawnsTree
<1>1. \A n \in DOMAIN p :
         \/ n = 1 /\ p[n].type = "spawn" /\ p[n].dest = Nobody /\ p[n].id = o
         \/ /\ 1 < n /\ p[n].type = "spawn" /\ p[n].dest = o
            /\ p[n].id \in children[o]
  BY <1>0, <1>s
<1>2. ASSUME NEW j \in DOMAIN p, NEW k \in DOMAIN p, p[j].id = p[k].id
      PROVE  j = k
  <2>1. CASE j # 1 /\ k # 1
    <3>1. PICK u \in DOMAIN s : j = 1 + u
      BY <1>0, <2>1
    <3>2. PICK v \in DOMAIN s : k = 1 + v
      BY <1>0, <2>1
    <3> QED
      BY <1>0, <1>2, <1>s, <3>1, <3>2
  <2> QED
    BY <1>1, <1>2, <1>s, <2>1
<1>3. Fits(p)
  <2>1. \A j \in DOMAIN p : j \in Nat
    BY <1>0, MessageTypes
  <2> QED
    BY <1>2, <2>1 DEF Fits, IsNext
<1>4. Ends(p, W2, ID_Parent)
  BY <1>1, <1>s DEF Ends, Leaves
<1>5. \A n \in DOMAIN p : p[n].type = "spawn" /\ where[p[n].id] # "online"
  BY <1>1
<1>6. ASSUME NEW i \in Ids, ~Mentions(p, i)
      PROVE  W2[i] = "online" <=> where[i] = "online"
  <2>1. i # o
    BY <1>0, <1>1, <1>6 DEF Mentions
  <2>2. i \notin children[o]
    <3> SUFFICES ASSUME i \in children[o] PROVE FALSE
      OBVIOUS
    <3>1. PICK n \in DOMAIN s : s[n] = i
      BY <1>s
    <3>2. 1 + n \in DOMAIN p /\ p[1 + n].id = i
      BY <1>0, <3>1
    <3> QED
      BY <1>6, <3>2 DEF Mentions
  <2> QED
    BY <2>1, <2>2
<1>7. \A k \in DOMAIN p : Leaves(p[k]) # Nobody =>
         /\ p[k].dest = o
         /\ 1 \in DOMAIN p /\ 1 < k /\ p[1].type = "spawn" /\ p[1].id = o
  BY <1>0, <1>1 DEF Leaves
<1> QED
  BY <1>3, <1>4, <1>5, <1>6, <1>7 DEF Joins

-----------------------------------------------------------------------------
(* The steps.                                                              *)

Pending == game_events \o net

QInv ==
    /\ TypeOK /\ IInv
    /\ Leads(Pending, where, ID_Parent, object, H_Parent)

LEMMA PendingTypes ==
    ASSUME TypeOK
    PROVE  /\ Pending \in Seq(Messages)
           /\ ViewTypes(ID_Parent, object, H_Parent)
<1>1. game_events \o net \in Seq(Messages)
  BY ConcatProperties DEF TypeOK
<1> QED
  BY <1>1 DEF TypeOK, Pending, ViewTypes

(* The types of a state that a step leads to.                              *)
LEMMA StepTypes ==
    ASSUME TypeOK, IInv', net' \in Seq(Messages), game_events' \in Seq(Messages),
           object' \in [Ids -> {"absent", "present", "dying"}],
           H_Parent' \in [Ids -> Ids \cup {Nobody}],
           removed' \subseteq Ids, switched' \subseteq Ids,
           stage' \in {"update", "events"}
    PROVE  TypeOK'
  BY DEF TypeOK, IInv, ServerTypeOK

LEMMA MentionsConcat ==
    ASSUME NEW q \in Seq(Messages), NEW p \in Seq(Messages), NEW i,
           ~Mentions(q, i), ~Mentions(p, i)
    PROVE  ~Mentions(q \o p, i)
<1> DEFINE r == q \o p
<1>1. /\ \A n \in DOMAIN q : r[n] = q[n]
      /\ \A n \in DOMAIN p : r[Len(q) + n] = p[n]
      /\ \A n \in DOMAIN r : n \in DOMAIN q \/ \E k \in DOMAIN p : n = Len(q) + k
  BY ConcatAt
<1> HIDE DEF r
<1>2. ~Mentions(r, i)
  BY <1>1 DEF Mentions
<1> QED
  BY <1>2 DEF r

(* The server appends a pack that fits.                                    *)
LEMMA Sent ==
    ASSUME QInv, IInv', NEW p \in Seq(Messages),
           Joins(p, where, ID_Parent, where', ID_Parent'),
           net' = net \o p, UNCHANGED <<game_events, object, H_Parent, stage>>,
           removed' \subseteq Ids, switched' \subseteq Ids
    PROVE  QInv'
<1>1. /\ Pending \in Seq(Messages) /\ ViewTypes(ID_Parent, object, H_Parent)
      /\ net \in Seq(Messages) /\ game_events \in Seq(Messages)
  BY PendingTypes DEF QInv, TypeOK
<1>2. net' \in Seq(Messages)
  <2>1. net \o p \in Seq(Messages)
    BY <1>1, ConcatProperties
  <2> QED
    BY <2>1
<1>3. TypeOK'
  <2>1. /\ game_events' \in Seq(Messages) /\ stage' \in {"update", "events"}
        /\ object' \in [Ids -> {"absent", "present", "dying"}]
        /\ H_Parent' \in [Ids -> Ids \cup {Nobody}]
    BY <1>1 DEF QInv, TypeOK
  <2> QED
    BY <1>2, <2>1 DEF TypeOK, IInv, ServerTypeOK
<1>4. Pending' = Pending \o p
  BY <1>1, ConcatAssociative DEF Pending
<1>5. Leads(Pending, where, ID_Parent, object, H_Parent)
  BY DEF QInv
<1>6. Leads(Pending \o p, where', ID_Parent', object, H_Parent)
  BY <1>1, <1>5, AppendLeads
<1>7. Leads(Pending, where, ID_Parent, object, H_Parent)'
  BY <1>4, <1>6
<1> QED
  BY <1>3, <1>7 DEF QInv

(* An entity that nothing under way is about is seen as the server has it. *)
LEMMA Unsaid ==
    ASSUME QInv, NEW i \in Ids, ~Mentions(Pending, i)
    PROVE  IF where[i] = "online"
           THEN object[i] = "present" /\ H_Parent[i] = ID_Parent[i]
           ELSE object[i] # "present"
  BY DEF QInv, Leads, Unmentioned

LEMMA TakeSent ==
    ASSUME QInv, IInv', NEW o \in Ids, NEW i \in Ids, TakeRequest(o, i)
    PROVE  QInv'
<1>1. PICK m : m = Msg("take", o, i)
  OBVIOUS
<1>2. /\ m \in Messages /\ m.type = "take" /\ m.id = i /\ m.dest = o
      /\ Finds(m) = Nobody /\ Leaves(m) = o
  BY <1>1 DEF Msg, Messages, Finds, Leaves
<1>3. /\ where[i] = "online" /\ where[o] = "online" /\ ID_Parent[i] = Nobody
      /\ ID_Parent' = [ID_Parent EXCEPT ![i] = o] /\ net' = net \o <<m>>
      /\ UNCHANGED <<where, game_events, object, H_Parent, removed, stage, switched>>
      /\ TypeOK
  BY <1>1 DEF TakeRequest, Online, Send, client, QInv
<1>4. Pending \in Seq(Messages)
  BY PendingTypes DEF QInv
<1>5. /\ ID_Parent'[i] = o
      /\ \A x \in Ids \ {i} : ID_Parent'[x] = ID_Parent[x]
  BY <1>3 DEF TypeOK
<1>6. PICK p : p = <<m>>
  OBVIOUS
<1>7. /\ p \in Seq(Messages)
      /\ Joins(p, where, ID_Parent, where', ID_Parent')
  <2>1. /\ m.type # "destroy" /\ m.type # "spawn"
        /\ where[m.id] = "online" /\ ID_Parent[m.id] = Finds(m)
        /\ where'[m.id] = "online" /\ ID_Parent'[m.id] = Leaves(m)
        /\ \A x \in Ids \ {m.id} : where'[x] = where[x] /\ ID_Parent'[x] = ID_Parent[x]
        /\ where[m.dest] = "online"
    BY <1>2, <1>3, <1>5
  <2>2. <<m>> \in Seq(Messages)
        /\ Joins(<<m>>, where, ID_Parent, where', ID_Parent')
    BY <1>2, <1>4, <2>1, OneJoins
  <2> QED
    BY <1>6, <2>2
<1> QED
  BY <1>3, <1>6, <1>7, Sent DEF TypeOK

(* What ProcessEventReject sends: one reject, or nothing.                  *)
SendsReject(m, o, i) ==
    /\ m \in Messages /\ m.type = "reject" /\ m.id = i /\ m.dest = o
    /\ Finds(m) = o /\ Leaves(m) = Nobody
    /\ where[i] = "online" /\ i \in Ids /\ net' = net \o <<m>>
    /\ ID_Parent[i] = o /\ ID_Parent'[i] = Nobody
    /\ \A x \in Ids \ {i} : ID_Parent'[x] = ID_Parent[x]

LEMMA RejectSends ==
    ASSUME TypeOK, NEW o \in Ids, NEW i, ProcessEventReject(o, i), UNCHANGED where
    PROVE  UNCHANGED <<ID_Parent, children, net>> \/ \E m : SendsReject(m, o, i)
<1>1. CASE UNCHANGED <<ID_Parent, children, net>>
  BY <1>1
<1>2. CASE Online(o) /\ Online(i) /\ i \in children[o] /\ ID_Parent[i] = o
  <2>1. PICK m : m = Msg("reject", o, i)
    OBVIOUS
  <2>2. i \in Ids
    BY <1>2 DEF TypeOK
  <2>3. /\ m \in Messages /\ m.type = "reject" /\ m.id = i /\ m.dest = o
        /\ Finds(m) = o /\ Leaves(m) = Nobody
    BY <2>1, <2>2 DEF Msg, Messages, Finds, Leaves
  <2>4. /\ where[i] = "online" /\ net' = net \o <<m>> /\ ID_Parent[i] = o
        /\ ID_Parent' = [ID_Parent EXCEPT ![i] = Nobody]
    BY <1>2, <2>1 DEF ProcessEventReject, Online, Send
  <2>5. /\ ID_Parent'[i] = Nobody
        /\ \A x \in Ids \ {i} : ID_Parent'[x] = ID_Parent[x]
    BY <2>2, <2>4 DEF TypeOK
  <2> QED
    BY <2>2, <2>3, <2>4, <2>5 DEF SendsReject
<1> QED
  BY <1>1, <1>2 DEF ProcessEventReject

(* A reject fits behind what is under way.                                 *)
LEMMA RejectJoins ==
    ASSUME NEW q \in Seq(Messages), NEW obj, NEW m \in Messages, NEW W, NEW P, NEW P2,
           m.type = "reject", Finds(m) = m.dest, Leaves(m) = Nobody,
           W[m.id] = "online", P[m.id] = m.dest, P2[m.id] = Nobody,
           \A x \in Ids \ {m.id} : P2[x] = P[x]
    PROVE  <<m>> \in Seq(Messages) /\ Joins(<<m>>, W, P, W, P2)
  BY OneJoins

LEMMA SameView ==
    ASSUME QInv, UNCHANGED <<server, net, game_events, object, H_Parent, stage, switched>>,
           removed' \subseteq Ids
    PROVE  QInv'
<1>1. UNCHANGED Pending
  BY DEF Pending, server
<1>2. Leads(Pending, where, ID_Parent, object, H_Parent)'
  BY <1>1 DEF QInv, server
<1>3. TypeOK' /\ IInv'
  BY <1>1 DEF QInv, TypeOK, server, IInv, ServerTypeOK, VerifyEntities
<1> QED
  BY <1>2, <1>3 DEF QInv

LEMMA RejectSent ==
    ASSUME QInv, IInv', NEW o \in Ids, NEW i \in Ids, RejectRequest(o, i)
    PROVE  QInv'
<1>1. /\ ProcessEventReject(o, i) /\ TypeOK
      /\ UNCHANGED <<where, game_events, object, H_Parent, removed, stage, switched>>
  BY DEF RejectRequest, client, QInv
<1>2. CASE UNCHANGED <<ID_Parent, children, net>>
  BY <1>1, <1>2, SameView DEF server, TypeOK
<1>3. ASSUME NEW m, SendsReject(m, o, i)
      PROVE  QInv'
  <2>0. /\ m \in Messages /\ m.type = "reject" /\ m.id = i /\ m.dest = o
        /\ Finds(m) = m.dest /\ Leaves(m) = Nobody
        /\ where[i] = "online" /\ net' = net \o <<m>>
        /\ ID_Parent[i] = o /\ ID_Parent'[i] = Nobody
        /\ \A x \in Ids \ {i} : ID_Parent'[x] = ID_Parent[x]
    BY <1>3 DEF SendsReject
  <2>1. Pending \in Seq(Messages)
    BY PendingTypes DEF QInv
  <2>2. PICK p : p = <<m>>
    OBVIOUS
  <2>3. /\ p \in Seq(Messages)
        /\ Joins(p, where, ID_Parent, where', ID_Parent')
    BY <1>1, <2>0, <2>1, <2>2, RejectJoins
  <2> QED
    BY <1>1, <2>0, <2>2, <2>3, Sent DEF TypeOK
<1> QED
  BY <1>1, <1>2, <1>3, RejectSends

LEMMA SpawnSent ==
    ASSUME QInv, IInv', NEW i \in Ids, NEW o \in Ids \cup {Nobody}, Spawn(i, o)
    PROVE  QInv'
<1>1. PICK m : m = Msg("spawn", o, i)
  OBVIOUS
<1>2. /\ m \in Messages /\ m.type = "spawn" /\ m.id = i /\ m.dest = o
      /\ Finds(m) = Nobody /\ Leaves(m) = o
  BY <1>1 DEF Msg, Messages, Finds, Leaves
<1>3. /\ IdFree(i) /\ (o = Nobody \/ where[o] = "online")
      /\ where' = [where EXCEPT ![i] = "online"]
      /\ ID_Parent' = [ID_Parent EXCEPT ![i] = o] /\ net' = net \o <<m>>
      /\ UNCHANGED <<game_events, object, H_Parent, removed, stage, switched>>
      /\ TypeOK
  BY <1>1 DEF Spawn, Online, Send, client, QInv
<1>4. Pending \in Seq(Messages) /\ net \in Seq(Messages) /\ game_events \in Seq(Messages)
  BY PendingTypes DEF QInv, TypeOK
<1>5. /\ where'[i] = "online" /\ ID_Parent'[i] = o
      /\ \A x \in Ids \ {i} : where'[x] = where[x] /\ ID_Parent'[x] = ID_Parent[x]
  BY <1>3 DEF TypeOK
<1>6. PICK p : p = <<m>>
  OBVIOUS
<1>7. where[i] # "online"
  BY <1>3 DEF IdFree
<1>8. /\ p \in Seq(Messages)
      /\ Joins(p, where, ID_Parent, where', ID_Parent')
  <2>1. /\ m.type = "spawn" /\ where[m.id] # "online"
        /\ where'[m.id] = "online" /\ ID_Parent'[m.id] = Leaves(m)
        /\ \A x \in Ids \ {m.id} : where'[x] = where[x] /\ ID_Parent'[x] = ID_Parent[x]
        /\ Leaves(m) # Nobody => where[m.dest] = "online"
    BY <1>2, <1>3, <1>5, <1>7
  <2>2. <<m>> \in Seq(Messages)
        /\ Joins(<<m>>, where, ID_Parent, where', ID_Parent')
    BY <1>2, <1>4, <2>1, OneJoins
  <2> QED
    BY <1>6, <2>2
<1> QED
  BY <1>3, <1>6, <1>8, Sent DEF TypeOK

LEMMA DestroySent ==
    ASSUME QInv, IInv', NEW i \in Ids, ProcessEventDestroy(i), removed' \subseteq Ids,
           UNCHANGED <<game_events, object, H_Parent, stage, switched>>
    PROVE  QInv'
<1>1. TypeOK /\ IInv /\ Online(i)
  BY DEF QInv, ProcessEventDestroy
<1>2. PICK kids \in Orders(i) : net' = net \o DestroyPack(i, kids)
  BY DEF ProcessEventDestroy, Send
<1>3. PICK p : p = DestroyPack(i, kids)
  OBVIOUS
<1>4. Pack(p, Subtree(i), Subtree(i))
  BY <1>1, <1>3, DestroyIsPack
<1>5. /\ \A x \in Subtree(i) : where'[x] = "absent"
      /\ \A x \in Ids \ Subtree(i) : where'[x] = where[x] /\ ID_Parent'[x] = ID_Parent[x]
  <2>1. Subtree(i) \subseteq Ids
    BY <1>4 DEF Pack
  <2> QED
    BY <2>1 DEF ProcessEventDestroy
<1>6. /\ p \in Seq(Messages)
      /\ Joins(p, where, ID_Parent, where', ID_Parent')
  <2>1. \A x \in Subtree(i) : where'[x] # "online"
    BY <1>5
  <2>2. Pending \in Seq(Messages)
    BY PendingTypes DEF QInv
  <2> QED
    BY <1>1, <1>4, <1>5, <2>1, <2>2, PackJoins
<1> QED
  BY <1>1, <1>2, <1>3, <1>6, Sent DEF TypeOK

LEMMA OnlineSent ==
    ASSUME QInv, IInv', NEW o \in Ids, SwitchOnline(o)
    PROVE  QInv'
<1> DEFINE T == {o} \cup children[o]
<1>1. /\ TypeOK /\ IInv /\ where[o] = "offline"
      /\ ID_Parent[o] = Nobody /\ switched' = switched \cup {o}
      /\ where' = [x \in Ids |-> IF x \in T THEN "online" ELSE where[x]]
      /\ UNCHANGED <<ID_Parent, game_events, object, H_Parent, removed, stage>>
  BY DEF QInv, SwitchOnline, SwitchPredicate, client
<1>2. T \subseteq Ids /\ \A y \in T : where[y] = "offline"
  <2>1. \A y \in children[o] : y \in Ids /\ ID_Parent[y] = o
    BY <1>1 DEF TypeOK, IInv, VerifyEntities
  <2>2. \A y \in children[o] : where[y] = "offline"
    BY <1>1, <2>1, NobodyAssumption DEF IInv, VerifyEntities
  <2> QED
    BY <1>1, <2>1, <2>2
<1>5. PICK s \in SetToSeqs(children[o]) :
         net' = net \o (<<Msg("spawn", Nobody, o)>>
                          \o [n \in DOMAIN s |-> Msg("spawn", o, s[n])])
  BY DEF SwitchOnline, Send
<1>6. PICK b : b = [n \in DOMAIN s |-> Msg("spawn", o, s[n])]
  OBVIOUS
<1>b. /\ b \in Seq(Messages) /\ DOMAIN b = DOMAIN s
      /\ \A n \in DOMAIN s : b[n] = Msg("spawn", o, s[n])
  <2>1. /\ Len(s) \in Nat /\ DOMAIN s = 1 .. Len(s)
        /\ \A n \in DOMAIN s : s[n] \in children[o]
    BY <1>1, ChildrenListed
  <2>2. \A n \in DOMAIN s : Msg("spawn", o, s[n]) \in Messages
    BY <1>2, <2>1 DEF Msg, Messages
  <2>3. b \in [1 .. Len(s) -> Messages]
    BY <1>6, <2>1, <2>2
  <2>4. b \in Seq(Messages) /\ DOMAIN b = DOMAIN s
    BY <2>1, <2>3
  <2> QED
    BY <1>6, <2>4
<1>p. PICK p : p = <<Msg("spawn", Nobody, o)>> \o b
  OBVIOUS
<1>n. net' = net \o p
  BY <1>5, <1>6, <1>p
<1>q. /\ p \in Seq(Messages) /\ 1 \in DOMAIN p /\ p[1] = Msg("spawn", Nobody, o)
      /\ \A n \in DOMAIN b : 1 + n \in DOMAIN p /\ p[1 + n] = b[n]
      /\ \A n \in DOMAIN p : n = 1 \/ \E k \in DOMAIN b : n = 1 + k
  <2>1. Msg("spawn", Nobody, o) \in Messages
    BY DEF Msg, Messages
  <2> QED
    BY <1>b, <1>p, <2>1, PrependAt
<1>7. /\ \A y \in T : where'[y] = "online" /\ where[y] # "online"
      /\ \A y \in Ids \ T : where'[y] = where[y]
  BY <1>1, <1>2
<1>8. Joins(p, where, ID_Parent, where', ID_Parent')
  <2>1. Joins(p, where, ID_Parent, where', ID_Parent)
    <3>1. p \in Seq(Messages) /\ 1 \in DOMAIN p
      BY <1>q
    <3>2. p[1].type = "spawn" /\ p[1].dest = Nobody /\ p[1].id = o
      BY <1>q DEF Msg
    <3>3. /\ \A n \in DOMAIN s : /\ 1 + n \in DOMAIN p /\ p[1 + n].type = "spawn"
                                 /\ p[1 + n].dest = o /\ p[1 + n].id = s[n]
          /\ \A n \in DOMAIN p : n = 1 \/ \E k \in DOMAIN s : n = 1 + k
      BY <1>b, <1>q DEF Msg
    <3>4. SpawnsTree(p, o, s)
      BY <3>1, <3>2, <3>3 DEF SpawnsTree
    <3>5. IInv /\ ID_Parent[o] = Nobody
      BY <1>1
    <3> QED
      BY <1>7, <3>4, <3>5, OnlineJoins
  <2> QED
    BY <1>1, <2>1
<1> QED
  BY <1>1, <1>n, <1>q, <1>8, Sent DEF TypeOK

LEMMA OfflineSent ==
    ASSUME QInv, IInv', NEW o \in Ids, RemoveOnline(o), switched' \subseteq Ids
    PROVE  QInv'
<1>1. /\ TypeOK /\ IInv /\ Online(o)
      /\ UNCHANGED <<game_events, object, H_Parent, removed, stage>>
  BY DEF QInv, RemoveOnline, client
<1>2. PICK kids \in Orders(o) : net' = net \o OfflinePack(o, kids)
  BY DEF RemoveOnline, Send
<1>3. PICK p : p = OfflinePack(o, kids)
  OBVIOUS
<1>4. Pack(p, Subtree(o), Subtree(o))
  BY <1>1, <1>3, OfflineIsPack
<1>5. /\ \A x \in Subtree(o) : x \in Ids
      /\ \A x \in Subtree(o) : where'[x] = IF x \in Rockets THEN "absent" ELSE "offline"
      /\ \A x \in Subtree(o) \ Rockets : ID_Parent'[x] = ID_Parent[x]
      /\ \A x \in Ids \ Subtree(o) : where'[x] = where[x] /\ ID_Parent'[x] = ID_Parent[x]
  <2>1. \A x \in Subtree(o) : x \in Ids
    BY <1>4 DEF Pack
  <2> QED
    BY <2>1 DEF RemoveOnline
<1>6. /\ p \in Seq(Messages)
      /\ Joins(p, where, ID_Parent, where', ID_Parent')
  <2>1. \A x \in Subtree(o) : where'[x] # "online"
    BY <1>5
  <2>2. Pending \in Seq(Messages)
    BY PendingTypes DEF QInv
  <2> QED
    BY <1>1, <1>4, <1>5, <2>1, <2>2, PackJoins
<1> QED
  BY <1>1, <1>2, <1>3, <1>6, Sent DEF TypeOK

LEMMA Received ==
    ASSUME QInv, IInv', ClientReceive
    PROVE  QInv'
<1>1. /\ net \in Seq(Messages) /\ game_events \in Seq(Messages) /\ TypeOK
      /\ game_events' = game_events \o net /\ net' = <<>> /\ stage' = "events"
      /\ switched' = {}
      /\ UNCHANGED <<where, ID_Parent, children, object, H_Parent, removed>>
  BY DEF QInv, TypeOK, ClientReceive, server, client
<1>2. game_events' \in Seq(Messages) /\ net' \in Seq(Messages)
  BY <1>1, ConcatProperties
<1>3. Pending' = Pending
  <2>1. (game_events \o net) \o <<>> = game_events \o net
    BY <1>1, <1>2, ConcatEmptySeq
  <2> QED
    BY <1>1, <2>1 DEF Pending
<1>4. Leads(Pending, where, ID_Parent, object, H_Parent)'
  BY <1>1, <1>3 DEF QInv
<1>5. TypeOK'
  <2>1. /\ object' \in [Ids -> {"absent", "present", "dying"}]
        /\ H_Parent' \in [Ids -> Ids \cup {Nobody}] /\ removed' \subseteq Ids
        /\ switched' \subseteq Ids /\ stage' \in {"update", "events"}
    BY <1>1 DEF TypeOK
  <2> QED
    BY <1>1, <1>2, <2>1, StepTypes
<1> QED
  BY <1>4, <1>5 DEF QInv

(* ProcessDestroyQueue comes when all of this frame is handled.            *)
LEMMA PurgeDone ==
    ASSUME QInv, IInv', ProcessDestroyQueue
    PROVE  QInv'
<1>1. /\ net \in Seq(Messages) /\ game_events = <<>> /\ TypeOK
      /\ stage = "events" /\ stage' = "update" /\ object' = Purged
      /\ UNCHANGED <<where, ID_Parent, children, net, game_events, H_Parent, switched>>
      /\ removed' \subseteq Ids
  BY DEF QInv, TypeOK, ProcessDestroyQueue, Drained, server
<1>2. /\ Pending \in Seq(Messages) /\ ViewTypes(ID_Parent, object, H_Parent)
      /\ Pending' = Pending /\ Pending = net
  BY <1>1, PendingTypes, ConcatEmptySeq DEF Pending
<1>3. /\ \A i \in Ids : object'[i] = IF object[i] = "dying" THEN "absent" ELSE object[i]
      /\ object' \in [Ids -> {"absent", "present", "dying"}]
  BY <1>1 DEF Purged, TypeOK
<1>4. Leads(Pending, where, ID_Parent, object, H_Parent)'
  <2>1. Leads(Pending, where, ID_Parent, object', H_Parent)
    BY <1>2, <1>3, PurgedLeads DEF QInv
  <2> QED
    BY <1>1, <1>2, <2>1
<1>5. TypeOK'
  <2>1. /\ game_events' \in Seq(Messages) /\ net' \in Seq(Messages)
        /\ H_Parent' \in [Ids -> Ids \cup {Nobody}]
        /\ switched' \subseteq Ids /\ stage' \in {"update", "events"}
    BY <1>1 DEF TypeOK
  <2> QED
    BY <1>1, <1>3, <2>1, StepTypes
<1> QED
  BY <1>4, <1>5 DEF QInv

-----------------------------------------------------------------------------
(* The client handles the first event of the frame.                        *)

LEMMA HeadOf ==
    ASSUME NEW g \in Seq(Messages), g # <<>>, NEW n \in Seq(Messages),
           NEW q, q = g \o n
    PROVE  /\ q \in Seq(Messages) /\ q # <<>> /\ 1 \in DOMAIN q
           /\ q[1] = Head(g) /\ Head(g) \in Messages
           /\ Tail(q) = Tail(g) \o n /\ Tail(g) \in Seq(Messages)
<1>1. q \in Seq(Messages) /\ q # <<>> /\ Head(q) = Head(g) /\ Tail(q) = Tail(g) \o n
  BY TailConcat, ConcatProperties
<1>2. /\ Len(q) \in Nat \ {0} /\ Head(q) = q[1] /\ DOMAIN q = 1 .. Len(q)
  BY <1>1, TailProperties, LenProperties
<1>3. Tail(g) \in Seq(Messages) /\ Head(g) = g[1] /\ 1 \in 1 .. Len(g)
  BY TailProperties
<1>4. Head(g) \in Messages
  BY <1>3, ElementOfSeq
<1> QED
  BY <1>1, <1>2, <1>3, <1>4

(* What the client has of the entities an event is about when it is next.  *)
LEMMA HeadKnown ==
    ASSUME QInv, game_events # <<>>, NEW m, m = Head(game_events)
    PROVE  /\ m \in Messages /\ m.id \in Ids
           /\ m.type # "spawn" => m.dest \in Ids
           /\ m.dest \in Ids \cup {Nobody}
           /\ IF m.type = "spawn" THEN object[m.id] # "present"
              ELSE /\ object[m.id] = "present"
                   /\ \/ H_Parent[m.id] = Finds(m)
                      \/ m.type = "reject" /\ H_Parent[m.id] = Nobody
           /\ Leaves(m) # Nobody => object[m.dest] = "present"
           /\ \A i \in Ids : H_Parent[i] # Nobody =>
                 object[i] = "present" /\ object[H_Parent[i]] = "present"
<1> DEFINE q == Pending
<1>1. net \in Seq(Messages) /\ game_events \in Seq(Messages)
  BY DEF QInv, TypeOK
<1>2. q \in Seq(Messages) /\ 1 \in DOMAIN q /\ q[1] = m /\ m \in Messages
  BY <1>1, HeadOf DEF Pending
<1>3. /\ Starts(q, object, H_Parent) /\ Held(q, object)
      /\ Owners(object, H_Parent)
  BY DEF QInv, Leads
<1> HIDE DEF q
<1>4. \A k \in DOMAIN q : k \in Nat \ {0}
  BY <1>2, MessageTypes
<1>5. /\ m.id \in Ids
      /\ m.type # "spawn" => m.dest \in Ids
      /\ m.dest \in Ids \cup {Nobody}
  <2>1. /\ q[1].id \in Ids /\ q[1].dest \in Ids \cup {Nobody}
        /\ q[1].type # "spawn" => q[1].dest \in Ids
    BY <1>2, MessageTypes
  <2> QED
    BY <1>2, <2>1
<1>6. IsFirst(q, 1) /\ \A k \in DOMAIN q : ~(k < 1)
  BY <1>4 DEF IsFirst
<1>7. IF m.type = "spawn" THEN object[m.id] # "present"
      ELSE /\ object[m.id] = "present"
           /\ \/ H_Parent[m.id] = Finds(m)
              \/ m.type = "reject" /\ H_Parent[m.id] = Nobody
  BY <1>2, <1>3, <1>6 DEF Starts
<1>8. Leaves(m) # Nobody => object[m.dest] = "present"
  BY <1>2, <1>3, <1>6 DEF Held, There
<1> QED
  BY <1>2, <1>3, <1>5, <1>7, <1>8 DEF Owners

LEMMA HandledStep ==
    ASSUME QInv, IInv', game_events # <<>>, stage = "events",
           game_events' = Tail(game_events), net' \in Seq(Messages),
           UNCHANGED <<where, stage, switched>>, removed' \subseteq Ids,
           object' \in [Ids -> {"absent", "present", "dying"}],
           H_Parent' \in [Ids -> Ids \cup {Nobody}],
           NEW q, q = game_events \o net',
           NEW obj \in [Ids -> {"absent", "present", "dying"}],
           Leads(q, where, ID_Parent', obj, H_Parent),
           Handled(q, obj, H_Parent, object', H_Parent')
    PROVE  QInv'
<1>1. /\ game_events \in Seq(Messages) /\ TypeOK
      /\ object \in [Ids -> {"absent", "present", "dying"}]
      /\ H_Parent \in [Ids -> Ids \cup {Nobody}]
  BY DEF QInv, TypeOK
<1>2. /\ q \in Seq(Messages) /\ q # <<>> /\ Tail(q) = Tail(game_events) \o net'
      /\ Tail(game_events) \in Seq(Messages)
  BY <1>1, HeadOf
<1>3. /\ ViewTypes(ID_Parent', obj, H_Parent)
      /\ ViewTypes(ID_Parent', object', H_Parent')
  BY <1>1 DEF ViewTypes, IInv, ServerTypeOK
<1>4. Leads(Tail(q), where, ID_Parent', object', H_Parent')
  BY <1>2, <1>3, HandledLeads
<1>5. Leads(Pending, where, ID_Parent, object, H_Parent)'
  BY <1>2, <1>4 DEF Pending
<1>6. TypeOK'
  <2>1. game_events' \in Seq(Messages) /\ switched' \subseteq Ids
        /\ stage' \in {"update", "events"}
    BY <1>1, <1>2 DEF TypeOK
  <2> QED
    BY <2>1 DEF TypeOK, IInv, ServerTypeOK
<1> QED
  BY <1>5, <1>6 DEF QInv

(* The view of the client that a spawn is handled from is the one without  *)
(* the dying objects, if it had to destroy these first.                    *)
Seen(obj) ==
    /\ obj \in [Ids -> {"absent", "present", "dying"}]
    /\ Leads(Pending, where, ID_Parent, obj, H_Parent)

LEMMA ViewSeen ==
    ASSUME QInv
    PROVE  /\ Seen(object) /\ Seen(Purged)
           /\ \A i \in Ids : Purged[i] = IF object[i] = "dying" THEN "absent"
                                          ELSE object[i]
<1>1. /\ object \in [Ids -> {"absent", "present", "dying"}]
      /\ Pending \in Seq(Messages) /\ ViewTypes(ID_Parent, object, H_Parent)
      /\ Leads(Pending, where, ID_Parent, object, H_Parent)
  BY PendingTypes DEF QInv, TypeOK
<1>2. PICK obj : obj = Purged
  OBVIOUS
<1>3. /\ obj \in [Ids -> {"absent", "present", "dying"}]
      /\ \A i \in Ids : obj[i] = IF object[i] = "dying" THEN "absent" ELSE object[i]
  BY <1>1, <1>2 DEF Purged
<1>4. Leads(Pending, where, ID_Parent, obj, H_Parent)
  BY <1>1, <1>3, PurgedLeads
<1> QED
  BY <1>1, <1>2, <1>3, <1>4 DEF Seen

(* What is under way when nothing is sent back.                            *)
LEMMA NothingSent ==
    ASSUME QInv, stage = "events", UNCHANGED <<ID_Parent, net>>, NEW obj, Seen(obj),
           NEW q, q = game_events \o net'
    PROVE  /\ net' \in Seq(Messages)
           /\ Leads(q, where, ID_Parent', obj, H_Parent)
<1>1. q = Pending
  BY DEF Pending
<1> QED
  BY <1>1 DEF QInv, TypeOK, Seen

LEMMA AppendAt ==
    ASSUME NEW q \in Seq(Messages), 1 \in DOMAIN q,
           NEW p \in Seq(Messages), 1 \in DOMAIN p
    PROVE  \E n \in DOMAIN (q \o p) : 1 < n /\ (q \o p)[n] = p[1]
<1>1. PICK v : v = q \o p
  OBVIOUS
<1>2. /\ Len(q) \in Nat /\ \A n \in DOMAIN q : n <= Len(q)
      /\ \A n \in DOMAIN p : Len(q) + n \in DOMAIN v /\ v[Len(q) + n] = p[n]
  BY <1>1, ConcatAt
<1>3. Len(q) + 1 \in DOMAIN v /\ v[Len(q) + 1] = p[1] /\ 1 < Len(q) + 1
  BY <1>2
<1> QED
  BY <1>1, <1>3

(* A refusal sends the item back at once, unless something else about it   *)
(* is under way already.                                                   *)
LEMMA RefusalSent ==
    ASSUME QInv, IInv', stage = "events", game_events # <<>>,
           NEW m, m = Head(game_events), m.type \in {"take", "spawn"},
           m.dest \in Ids, ProcessEventReject(m.dest, m.id), UNCHANGED where,
           NEW obj, Seen(obj), NEW q, q = game_events \o net'
    PROVE  /\ net' \in Seq(Messages)
           /\ Leads(q, where, ID_Parent', obj, H_Parent)
           /\ ~IsLast(q, 1)
<1>1. /\ net \in Seq(Messages) /\ game_events \in Seq(Messages) /\ TypeOK /\ IInv
      /\ Pending \in Seq(Messages) /\ ViewTypes(ID_Parent, obj, H_Parent)
      /\ Leads(Pending, where, ID_Parent, obj, H_Parent)
  BY PendingTypes DEF QInv, TypeOK, Seen, ViewTypes
<1>2. /\ 1 \in DOMAIN Pending /\ Pending[1] = m /\ m.id \in Ids
      /\ Leaves(m) = m.dest
  BY <1>1, HeadOf, HeadKnown DEF Pending, Leaves
<1>3. CASE UNCHANGED <<ID_Parent, children, net>>
  <2>1. q = Pending
    BY <1>3 DEF Pending
  <2>2. ASSUME IsLast(Pending, 1)
        PROVE  FALSE
    <3>1. where[m.id] = "online" /\ ID_Parent[m.id] = m.dest
      BY <1>1, <1>2, <2>2 DEF Leads, Ends
    <3>2. m.id \in children[m.dest] /\ where[m.dest] = "online"
      BY <1>1, <1>2, <3>1, NobodyAssumption DEF IInv, VerifyEntities
    <3>3. ID_Parent' = [ID_Parent EXCEPT ![m.id] = Nobody]
      BY <3>1, <3>2 DEF ProcessEventReject, Online
    <3> QED
      BY <1>1, <1>2, <1>3, <3>1, <3>3, NobodyAssumption DEF TypeOK
  <2>3. /\ net' \in Seq(Messages)
        /\ Leads(q, where, ID_Parent', obj, H_Parent)
    BY <1>3, NothingSent
  <2> QED
    BY <2>1, <2>2, <2>3
<1>4. ASSUME NEW r, SendsReject(r, m.dest, m.id)
      PROVE  /\ net' \in Seq(Messages)
             /\ Leads(q, where, ID_Parent', obj, H_Parent)
             /\ ~IsLast(q, 1)
  <2>1. /\ r \in Messages /\ r.type = "reject" /\ r.id = m.id /\ r.dest = m.dest
        /\ Finds(r) = r.dest /\ Leaves(r) = Nobody
        /\ where[r.id] = "online" /\ net' = net \o <<r>>
        /\ ID_Parent[r.id] = r.dest /\ ID_Parent'[r.id] = Nobody
        /\ \A x \in Ids \ {r.id} : ID_Parent'[x] = ID_Parent[x]
    BY <1>4 DEF SendsReject
  <2>2. PICK p : p = <<r>>
    OBVIOUS
  <2>3. /\ p \in Seq(Messages)
        /\ Joins(p, where, ID_Parent, where, ID_Parent')
    <3>1. /\ <<r>> \in Seq(Messages)
          /\ Joins(<<r>>, where, ID_Parent, where, ID_Parent')
      BY <1>1, <2>1, RejectJoins
    <3> QED
      BY <2>2, <3>1
  <2>4. net' = net \o p /\ net' \in Seq(Messages)
    <3>1. net \o p \in Seq(Messages)
      BY <1>1, <2>3, ConcatProperties
    <3> QED
      BY <2>1, <2>2, <3>1
  <2>5. q = Pending \o p
    BY <1>1, <2>3, <2>4, ConcatAssociative DEF Pending
  <2>6. Leads(Pending \o p, where, ID_Parent', obj, H_Parent)
    BY <1>1, <2>3, AppendLeads
  <2>7. ~IsLast(q, 1)
    <3>0. 1 \in DOMAIN p /\ p[1] = r
      BY <2>2
    <3>1. \E n \in DOMAIN (Pending \o p) : 1 < n /\ (Pending \o p)[n] = p[1]
      BY <1>1, <1>2, <2>3, <3>0, AppendAt
    <3>2. q[1] = m
      BY <1>1, <2>4, HeadOf
    <3>3. PICK n \in DOMAIN q : 1 < n /\ q[n] = r
      BY <2>5, <3>0, <3>1
    <3> QED
      BY <2>1, <3>2, <3>3 DEF IsLast
  <2> QED
    BY <2>4, <2>5, <2>6, <2>7
<1> QED
  BY <1>1, <1>2, <1>3, <1>4, RejectSends

(* GE_OWNERSHIP_TAKE, sent or after a spawn: the item goes to its owner or *)
(* is refused.                                                             *)
LEMMA TakeHandled ==
    ASSUME QInv, IInv', NEW obj, Seen(obj), stage = "events", game_events # <<>>,
           NEW m, m = Head(game_events), m.type \in {"take", "spawn"},
           m.dest \in Ids, Take(object', m.dest, m.id), UNCHANGED where,
           object' \in [Ids -> {"absent", "present", "dying"}],
           object'[m.id] = "present",
           object[m.dest] = "present" => obj[m.dest] = "present",
           \A i \in Ids \ {m.id} : object'[i] = obj[i],
           NEW q, q = game_events \o net'
    PROVE  /\ net' \in Seq(Messages) /\ H_Parent' \in [Ids -> Ids \cup {Nobody}]
           /\ Leads(q, where, ID_Parent', obj, H_Parent)
           /\ Handled(q, obj, H_Parent, object', H_Parent')
<1>1. /\ game_events \in Seq(Messages) /\ m.id \in Ids
      /\ H_Parent \in [Ids -> Ids \cup {Nobody}]
      /\ Leaves(m) = m.dest
  BY HeadKnown DEF QInv, TypeOK, Leaves
<1>2. H_Parent[m.id] = Nobody
  BY HeadKnown, <1>1 DEF Finds
<1>3. object'[m.dest] = "present"
  BY HeadKnown, <1>1, NobodyAssumption
<1>4. net' \in Seq(Messages) => q[1] = m
  BY <1>1, HeadOf
<1>5. CASE UNCHANGED H_Parent /\ ProcessEventReject(m.dest, m.id)
  <2>1. /\ net' \in Seq(Messages)
        /\ Leads(q, where, ID_Parent', obj, H_Parent)
        /\ ~IsLast(q, 1)
    BY <1>5, RefusalSent
  <2>2. Handled(q, obj, H_Parent, object', H_Parent')
    BY <1>1, <1>2, <1>4, <1>5, <2>1 DEF Handled
  <2> QED
    BY <1>1, <1>5, <2>1, <2>2
<1>6. CASE /\ H_Parent' = [H_Parent EXCEPT ![m.id] = m.dest]
           /\ UNCHANGED <<ID_Parent, children, net>>
  <2>1. /\ net' \in Seq(Messages)
        /\ Leads(q, where, ID_Parent', obj, H_Parent)
    BY <1>6, NothingSent
  <2>2. /\ H_Parent' \in [Ids -> Ids \cup {Nobody}]
        /\ H_Parent'[m.id] = m.dest
        /\ \A i \in Ids \ {m.id} : H_Parent'[i] = H_Parent[i]
    BY <1>1, <1>6
  <2>3. Handled(q, obj, H_Parent, object', H_Parent')
    BY <1>1, <1>4, <2>1, <2>2 DEF Handled
  <2> QED
    BY <2>1, <2>2, <2>3
<1> QED
  BY <1>3, <1>5, <1>6 DEF Take

LEMMA SpawnHandled ==
    ASSUME QInv, IInv', EvSpawn
    PROVE  QInv'
<1>1. PICK m : m = Head(game_events)
  OBVIOUS
<1>2. /\ stage = "events" /\ game_events # <<>> /\ m.type = "spawn"
      /\ game_events' = Tail(game_events)
      /\ UNCHANGED <<where, stage, switched>>
      /\ TypeOK
  BY <1>1 DEF EvSpawn, Event, QInv
<1>3. /\ m \in Messages /\ m.id \in Ids /\ m.dest \in Ids \cup {Nobody}
      /\ object[m.id] # "present" /\ H_Parent[m.id] = Nobody
  BY <1>1, <1>2, HeadKnown
<1>o. PICK obj : obj = IF object[m.id] = "dying" THEN Purged ELSE object
  OBVIOUS
<1>v. /\ Seen(obj) /\ obj \in [Ids -> {"absent", "present", "dying"}]
      /\ \A i \in Ids : object[i] = "present" => obj[i] = "present"
  BY <1>o, ViewSeen DEF Seen
<1>4. /\ object' = [obj EXCEPT ![m.id] = "present"]
      /\ removed' \subseteq removed
      /\ IF m.dest = Nobody THEN UNCHANGED <<H_Parent, ID_Parent, children, net>>
         ELSE Take(object', m.dest, m.id)
  BY <1>1, <1>o DEF EvSpawn
<1>5. /\ removed' \subseteq Ids /\ object'[m.id] = "present"
      /\ object' \in [Ids -> {"absent", "present", "dying"}]
      /\ \A i \in Ids \ {m.id} : object'[i] = obj[i]
  BY <1>2, <1>3, <1>4, <1>v DEF TypeOK
<1>6. PICK q : q = game_events \o net'
  OBVIOUS
<1>7. CASE m.dest = Nobody
  <2>1. /\ net' \in Seq(Messages) /\ H_Parent' \in [Ids -> Ids \cup {Nobody}]
        /\ Leads(q, where, ID_Parent', obj, H_Parent)
    BY <1>2, <1>4, <1>6, <1>7, <1>v, NothingSent DEF TypeOK
  <2>2. q[1] = m
    BY <1>1, <1>2, <1>6, <2>1, HeadOf DEF TypeOK
  <2>3. Handled(q, obj, H_Parent, object', H_Parent')
    BY <1>2, <1>3, <1>4, <1>5, <1>7, <2>2 DEF Handled, Leaves
  <2> QED
    BY <1>2, <1>5, <1>6, <1>v, <2>1, <2>3, HandledStep
<1>8. CASE m.dest # Nobody
  <2>1. m.dest \in Ids /\ Take(object', m.dest, m.id)
    BY <1>3, <1>4, <1>8
  <2>2. /\ net' \in Seq(Messages) /\ H_Parent' \in [Ids -> Ids \cup {Nobody}]
        /\ Leads(q, where, ID_Parent', obj, H_Parent)
        /\ Handled(q, obj, H_Parent, object', H_Parent')
    BY <1>1, <1>2, <1>5, <1>6, <1>v, <2>1, TakeHandled
  <2> QED
    BY <1>2, <1>5, <1>6, <1>v, <2>2, HandledStep
<1> QED
  BY <1>7, <1>8

LEMMA TakeEventHandled ==
    ASSUME QInv, IInv', EvTake
    PROVE  QInv'
<1>1. PICK m : m = Head(game_events)
  OBVIOUS
<1>2. /\ stage = "events" /\ game_events # <<>> /\ m.type = "take"
      /\ game_events' = Tail(game_events)
      /\ UNCHANGED <<where, object, removed, stage, switched>>
      /\ Take(object', m.dest, m.id) /\ TypeOK
  BY <1>1 DEF EvTake, Event, QInv
<1>3. m.dest \in Ids /\ m.id \in Ids /\ object'[m.id] = "present"
  BY <1>1, <1>2, HeadKnown
<1>4. /\ object' \in [Ids -> {"absent", "present", "dying"}]
      /\ removed' \subseteq Ids
  BY <1>2 DEF TypeOK
<1>5. PICK q : q = game_events \o net'
  OBVIOUS
<1>v. Seen(object) /\ object \in [Ids -> {"absent", "present", "dying"}]
  BY ViewSeen DEF Seen
<1>6. /\ net' \in Seq(Messages) /\ H_Parent' \in [Ids -> Ids \cup {Nobody}]
      /\ Leads(q, where, ID_Parent', object, H_Parent)
      /\ Handled(q, object, H_Parent, object', H_Parent')
  BY <1>1, <1>2, <1>3, <1>4, <1>5, <1>v, TakeHandled
<1> QED
  BY <1>2, <1>4, <1>5, <1>6, <1>v, HandledStep

LEMMA RejectHandled ==
    ASSUME QInv, IInv', EvReject
    PROVE  QInv'
<1>1. PICK m : m = Head(game_events)
  OBVIOUS
<1>2. /\ stage = "events" /\ game_events # <<>> /\ m.type = "reject"
      /\ game_events' = Tail(game_events)
      /\ UNCHANGED <<where, ID_Parent, net, object, removed, stage, switched>>
      /\ \/ H_Parent' = [H_Parent EXCEPT ![m.id] = Nobody]
         \/ Ignores(m.dest, m.id) /\ UNCHANGED H_Parent
      /\ TypeOK
  BY <1>1 DEF EvReject, Event, QInv, server
<1>3. /\ m.dest \in Ids /\ m.id \in Ids /\ object[m.id] = "present"
      /\ H_Parent[m.id] = m.dest \/ H_Parent[m.id] = Nobody
      /\ H_Parent[m.id] # Nobody => object[H_Parent[m.id]] = "present"
  BY <1>1, <1>2, HeadKnown DEF Finds
<1>4. /\ H_Parent'[m.id] = Nobody
      /\ \A i \in Ids \ {m.id} : H_Parent'[i] = H_Parent[i]
      /\ H_Parent' \in [Ids -> Ids \cup {Nobody}]
      /\ object' \in [Ids -> {"absent", "present", "dying"}]
      /\ removed' \subseteq Ids
  <2>1. Ignores(m.dest, m.id) => H_Parent[m.id] = Nobody
    BY <1>3, NobodyAssumption DEF Ignores, LetsGo
  <2> QED
    BY <1>2, <1>3, <2>1 DEF TypeOK
<1>5. PICK q : q = game_events \o net'
  OBVIOUS
<1>6. /\ net' \in Seq(Messages)
      /\ Leads(q, where, ID_Parent', object, H_Parent)
  BY <1>2, <1>5, ViewSeen, NothingSent
<1>7. q[1] = m
  BY <1>1, <1>2, <1>5, <1>6, HeadOf DEF TypeOK
<1>8. Handled(q, object, H_Parent, object', H_Parent')
  BY <1>2, <1>3, <1>4, <1>7 DEF Handled, Leaves
<1> QED
  BY <1>2, <1>4, <1>5, <1>6, <1>8, HandledStep DEF TypeOK

(* GE_DESTROY finds its object on the level and without an owner.          *)
LEMMA DestroyHandled ==
    ASSUME QInv, EvDestroy
    PROVE  /\ object'[Head(game_events).id] = "dying"
           /\ IInv' => QInv'
<1>1. PICK m : m = Head(game_events)
  OBVIOUS
<1>2. /\ stage = "events" /\ game_events # <<>> /\ m.type = "destroy"
      /\ game_events' = Tail(game_events)
      /\ UNCHANGED <<where, ID_Parent, net, H_Parent, removed, stage, switched>>
      /\ object' = IF object[m.id] = "present" /\ H_Parent[m.id] = Nobody
                   THEN [object EXCEPT ![m.id] = "dying"] ELSE object
      /\ TypeOK
  BY <1>1 DEF EvDestroy, Event, QInv, server
<1>3. m.id \in Ids /\ object[m.id] = "present" /\ H_Parent[m.id] = Nobody
  BY <1>1, <1>2, HeadKnown DEF Finds
<1>4. /\ object'[m.id] = "dying"
      /\ \A i \in Ids \ {m.id} : object'[i] = object[i]
      /\ H_Parent' \in [Ids -> Ids \cup {Nobody}]
      /\ object' \in [Ids -> {"absent", "present", "dying"}]
      /\ removed' \subseteq Ids
  BY <1>2, <1>3 DEF TypeOK
<1>5. ASSUME IInv'
      PROVE  QInv'
  <2>1. PICK q : q = game_events \o net'
    OBVIOUS
  <2>2. /\ net' \in Seq(Messages)
        /\ Leads(q, where, ID_Parent', object, H_Parent)
    BY <1>2, <2>1, ViewSeen, NothingSent
  <2>3. q[1] = m
    BY <1>1, <1>2, <2>1, <2>2, HeadOf DEF TypeOK
  <2>4. Handled(q, object, H_Parent, object', H_Parent')
    BY <1>2, <1>3, <1>4, <2>3 DEF Handled, Leaves
  <2> QED
    BY <1>2, <1>4, <1>5, <2>1, <2>2, <2>4, HandledStep DEF TypeOK
<1> QED
  BY <1>1, <1>4, <1>5

-----------------------------------------------------------------------------
(* The invariant and what follows from it.                                 *)

LEMMA InitQInv == Init => QInv
<1> SUFFICES ASSUME Init
             PROVE  QInv
  OBVIOUS
<1>1. /\ net = <<>> /\ game_events = <<>> /\ stage = "update"
      /\ \A i \in Ids : /\ where[i] = "absent" /\ ID_Parent[i] = Nobody
                        /\ object[i] = "absent" /\ H_Parent[i] = Nobody
  BY DEF Init
<1>2. TypeOK
  BY DEF Init, TypeOK
<1>4. PICK q : q = Pending
  OBVIOUS
<1>5. q = <<>>
  <2>1. <<>> \in Seq(Messages)
    BY EmptySeq
  <2>2. <<>> \o <<>> = <<>>
    BY <2>1, ConcatEmptySeq
  <2> QED
    BY <1>1, <1>4, <2>2 DEF Pending
<1>6. DOMAIN q = {}
  BY <1>5
<1>7. Leads(q, where, ID_Parent, object, H_Parent)
  BY <1>1, <1>6 DEF Leads, Fits, Starts, Ends, Unmentioned, Held, Emptied, Owners
<1> QED
  BY <1>2, <1>4, <1>7, InitIInv DEF QInv

LEMMA RequestQInv ==
    ASSUME QInv, IInv', Request
    PROVE  QInv'
<1>1. ASSUME NEW p \in Ids, NEW i \in Ids, TakeRequest(p, i)
      PROVE  QInv'
  BY <1>1, TakeSent
<1>2. ASSUME NEW p \in Ids, NEW i \in Ids, RejectRequest(p, i)
      PROVE  QInv'
  BY <1>2, RejectSent
<1>3. ASSUME NEW i \in Ids, DestroyObject(i)
      PROVE  QInv'
  <2>1. removed' \subseteq Ids
    BY <1>3 DEF DestroyObject, QInv, TypeOK
  <2>2. CASE ProcessEventDestroy(i)
    BY <1>3, <2>1, <2>2, DestroySent DEF DestroyObject
  <2>3. CASE UNCHANGED <<server, net>>
    BY <1>3, <2>1, <2>3, SameView DEF DestroyObject
  <2> QED
    BY <1>3, <2>2, <2>3 DEF DestroyObject
<1>4. ASSUME NEW i \in Ids, Release(i)
      PROVE  QInv'
  <2>1. /\ ProcessEventDestroy(i) /\ removed' \subseteq Ids
        /\ UNCHANGED <<game_events, object, H_Parent, stage, switched>>
    BY <1>4 DEF Release, client, QInv, TypeOK
  <2> QED
    BY <2>1, DestroySent
<1>5. ASSUME NEW i \in Ids, NEW p \in Ids \cup {Nobody}, Spawn(i, p)
      PROVE  QInv'
  BY <1>5, SpawnSent
<1>6. ASSUME NEW i \in Ids, TeleportObject(i)
      PROVE  QInv'
  BY <1>6, OfflineSent DEF TeleportObject, QInv, TypeOK
<1> QED
  BY <1>1, <1>2, <1>3, <1>4, <1>5, <1>6 DEF Request

(* QInv is inductive.                                                      *)
LEMMA StepQInv == QInv /\ [Next]_vars => QInv'
<1> SUFFICES ASSUME QInv, [Next]_vars
             PROVE  QInv'
  OBVIOUS
<1>0. IInv'
  BY StepIInv DEF QInv
<1>1. CASE Request
  BY <1>0, <1>1, RequestQInv
<1>2. CASE Switch
  <2>1. ASSUME NEW o \in Ids, SwitchOnline(o)
        PROVE  QInv'
    BY <1>0, <2>1, OnlineSent
  <2>2. ASSUME NEW o \in Ids, SwitchOffline(o)
        PROVE  QInv'
    <3>1. RemoveOnline(o) /\ switched' \subseteq Ids
      BY <2>2 DEF SwitchOffline, SwitchPredicate, QInv, TypeOK
    <3> QED
      BY <1>0, <3>1, OfflineSent
  <2> QED
    BY <1>2, <2>1, <2>2 DEF Switch
<1>3. CASE ClientReceive
  BY <1>0, <1>3, Received
<1>4. CASE Handle
  BY <1>0, <1>4, SpawnHandled, TakeEventHandled, RejectHandled, DestroyHandled DEF Handle
<1>5. CASE ProcessDestroyQueue
  BY <1>0, <1>5, PurgeDone
<1>6. CASE UNCHANGED vars
  <2>1. /\ removed' \subseteq Ids
        /\ UNCHANGED <<server, net, game_events, object, H_Parent, stage, switched>>
    BY <1>6 DEF vars, client, QInv, TypeOK
  <2> QED
    BY <2>1, SameView
<1> QED
  BY <1>1, <1>2, <1>3, <1>4, <1>5, <1>6 DEF Next

(* At all times the events under way lead from the client's view to the    *)
(* server's: each finds its entity as the one before left it.              *)
THEOREM EventsLead ==
    Spec => []Leads(Pending, where, ID_Parent, object, H_Parent)
<1>1. QInv => Leads(Pending, where, ID_Parent, object, H_Parent)
  BY DEF QInv
<1> QED
  BY <1>1, InitQInv, StepQInv, PTL DEF Spec

(* The state of server and client stays within its types: every event is   *)
(* about an id, and only a spawn goes to nobody.                           *)
THEOREM EntitiesTypes == Spec => []TypeOK
<1>1. QInv => TypeOK
  BY DEF QInv
<1> QED
  BY <1>1, InitQInv, StepQInv, PTL DEF Spec

(* When nothing is under way the client shows the online entities, each    *)
(* with the server's owner.                                                *)
THEOREM ViewsAgree == Spec => []ViewAgrees
<1>1. QInv => ViewAgrees
  <2> SUFFICES ASSUME QInv, net = <<>>, game_events = <<>>, NEW i \in Ids
               PROVE  /\ object[i] = "present" <=> Online(i)
                      /\ object[i] = "present" => H_Parent[i] = ID_Parent[i]
    BY DEF ViewAgrees
  <2>1. ~Mentions(net, i) /\ ~Mentions(game_events, i)
    BY DEF Mentions
  <2>2. ~Mentions(Pending, i)
    BY <2>1, MentionsConcat DEF Pending, QInv, TypeOK
  <2> QED
    BY <2>2, Unsaid DEF Online
<1> QED
  BY <1>1, InitQInv, StepQInv, PTL DEF Spec

(* Who owns an object of the level is on the level, also while events wait *)
(* and whatever is refused: what ObjectList relies on.                     *)
THEOREM OwnersOnLevel == Spec => []OwnerOnLevel
<1>1. QInv => OwnerOnLevel
  BY DEF QInv, Leads, Owners, OwnerOnLevel
<1> QED
  BY <1>1, InitQInv, StepQInv, PTL DEF Spec

(* No GE_DESTROY is dropped because its object still has an owner: the     *)
(* reject was sent, and handled, before it.                                *)
THEOREM DestroyIsHeeded == Spec => DestroyFindsNoOwner
<1>1. QInv /\ [Next]_vars =>
         [(game_events' # game_events /\ game_events # <<>> /\ EvDestroy)
             => object'[Head(game_events).id] = "dying"]_vars
  BY DestroyHandled
<1> QED
  BY <1>1, InitQInv, StepQInv, PTL DEF Spec, DestroyFindsNoOwner

(* However often ALife and teleport_object switch an object, its id is     *)
(* free on the client, or used by a dying object, when the spawn is        *)
(* handled: the destruction of the one before came first.                  *)
THEOREM SpawnsFindIdFree == Spec => SpawnFindsIdFree
<1>1. QInv /\ [Next]_vars =>
         [EvSpawn => object[Head(game_events).id] # "present"]_vars
  <2>1. ASSUME QInv, EvSpawn
        PROVE  object[Head(game_events).id] # "present"
    <3>1. game_events # <<>> /\ Head(game_events).type = "spawn"
      BY <2>1 DEF EvSpawn, Event
    <3> QED
      BY <2>1, <3>1, HeadKnown
  <2> QED
    BY <2>1
<1> QED
  BY <1>1, InitQInv, StepQInv, PTL DEF Spec, SpawnFindsIdFree
=============================================================================
