--------------------------- MODULE ShedulerProofs ---------------------------
(***************************************************************************)
(* Theorems about Sheduler, for every set of objects and every interval.   *)
(*                                                                         *)
(* The invariant has a part about the requests alone (RequestsOK): which   *)
(* may follow which, given the objects P that are placed in a container    *)
(* and the objects A that exist.  Applying a request changes both at once, *)
(* and the lemmas about it say that the objects registered (RegSet) stay   *)
(* the same, which is what the refinement of ScheduledSet needs.           *)
(***************************************************************************)
EXTENDS Sheduler, SequenceLemmas

-----------------------------------------------------------------------------
(* Requests.                                                               *)

On(reg, o) == {k \in DOMAIN reg : reg[k].Object = o}

(* A registration carries the object's kind.                               *)
KindKnown(reg) ==
    \A k \in DOMAIN reg :
        reg[k].OP => (reg[k].RT <=> reg[k].Object \in RtObjects)

(* An unregistration with the wrong kind comes before any registration of  *)
(* an object that is in no container.                                      *)
WrongKindIdle(reg, P) ==
    \A k \in DOMAIN reg :
        ~reg[k].OP /\ ~(reg[k].RT <=> reg[k].Object \in RtObjects) =>
           /\ reg[k].Object \notin P
           /\ \A j \in On(reg, reg[k].Object) : j < k => ~reg[j].OP

(* Between two registrations of an object there is an unregistration ...   *)
Alternate(reg) ==
    \A o \in Objects : \A j, k \in On(reg, o) :
        j < k /\ reg[j].OP /\ reg[k].OP =>
           \E l \in On(reg, o) : j < l /\ l < k /\ ~reg[l].OP

(* ... and also before the first, if the object is in a container.         *)
LeaveFirst(reg, P) ==
    \A o \in P : \A k \in On(reg, o) :
        reg[k].OP => \E j \in On(reg, o) : j < k /\ ~reg[j].OP

(* An object that does not exist will be unregistered.                     *)
DeadLeave(reg, P, A) ==
    /\ \A o \in Objects \ A : \A k \in On(reg, o) :
          reg[k].OP => \E j \in On(reg, o) : k < j /\ ~reg[j].OP
    /\ \A o \in P \ A : \E j \in On(reg, o) : ~reg[j].OP

RequestsOK(reg, P, A) ==
    /\ reg \in Seq(Request) /\ P \subseteq Objects
    /\ KindKnown(reg) /\ WrongKindIdle(reg, P)
    /\ Alternate(reg) /\ LeaveFirst(reg, P) /\ DeadLeave(reg, P, A)

(* The objects registered, as Registered has them.                         *)
RegSet(reg, P) ==
    {o \in Objects :
        \/ \E k \in On(reg, o) : reg[k].OP /\ \A j \in On(reg, o) : j <= k
        \/ On(reg, o) = {} /\ o \in P}

(* t is s without the requests at the places gone: f leads from a place of *)
(* t to the one in s.                                                      *)
Rest(t, s, f, gone) ==
    /\ t \in Seq(Request) /\ s \in Seq(Request)
    /\ DOMAIN t \subseteq Nat /\ DOMAIN s \subseteq Nat
    /\ f \in [DOMAIN t -> DOMAIN s \ gone]
    /\ \A j \in DOMAIN t : t[j] = s[f[j]]
    /\ \A j, k \in DOMAIN t : j < k <=> f[j] < f[k]
    /\ \A m \in DOMAIN s \ gone : \E j \in DOMAIN t : f[j] = m

LEMMA TailRest ==
    ASSUME NEW s \in Seq(Request), s # <<>>
    PROVE  Rest(Tail(s), s, [j \in DOMAIN Tail(s) |-> j + 1], {1})
<1>1. /\ Tail(s) \in Seq(Request) /\ Len(s) \in Nat \ {0}
      /\ DOMAIN Tail(s) = 1 .. Len(s) - 1 /\ DOMAIN s = 1 .. Len(s)
      /\ \A j \in 1 .. Len(s) - 1 : Tail(s)[j] = s[j + 1]
  BY TailProperties, LenProperties
<1>2. \A m \in DOMAIN s \ {1} : m - 1 \in DOMAIN Tail(s) /\ (m - 1) + 1 = m
  BY <1>1
<1> QED
  BY <1>1, <1>2 DEF Rest

LEMMA PairRest ==
    ASSUME NEW s \in Seq(Request), NEW k \in DOMAIN s, k > 1
    PROVE  LET t == Tail(RemoveAt(s, k))
           IN  Rest(t, s, [j \in DOMAIN t |-> IF j < k - 1 THEN j + 1 ELSE j + 2], {1, k})
<1> DEFINE r == RemoveAt(s, k)
           t == Tail(r)
           f == [j \in DOMAIN t |-> IF j < k - 1 THEN j + 1 ELSE j + 2]
<1>1. DOMAIN s = 1 .. Len(s) /\ Len(s) \in Nat /\ k \in 1 .. Len(s)
  BY LenProperties
<1>2. /\ r \in Seq(Request) /\ Len(r) = Len(s) - 1
      /\ \A j \in 1 .. Len(s) - 1 : r[j] = s[IF j < k THEN j ELSE j + 1]
  BY <1>1, RemoveAtProperties
<1>3. r # <<>>
  BY <1>1, <1>2
<1>4. /\ t \in Seq(Request) /\ DOMAIN t = 1 .. Len(s) - 2
      /\ \A j \in 1 .. Len(s) - 2 : t[j] = r[j + 1]
  <2> HIDE DEF r
  <2>1. /\ Tail(r) \in Seq(Request) /\ DOMAIN Tail(r) = 1 .. Len(r) - 1
        /\ \A j \in 1 .. Len(r) - 1 : Tail(r)[j] = r[j + 1]
    BY <1>2, <1>3, TailProperties
  <2>2. Len(r) - 1 = Len(s) - 2
    BY <1>1, <1>2
  <2> QED
    BY <2>1, <2>2
<1> HIDE DEF r, t
<1>5. f \in [DOMAIN t -> DOMAIN s \ {1, k}]
  BY <1>1, <1>4
<1>6. ASSUME NEW j \in DOMAIN t PROVE t[j] = s[f[j]]
  <2>1. t[j] = r[j + 1] /\ j + 1 \in 1 .. Len(s) - 1
    BY <1>1, <1>4
  <2>2. r[j + 1] = s[IF j + 1 < k THEN j + 1 ELSE (j + 1) + 1]
    BY <1>2, <2>1
  <2>3. f[j] = IF j + 1 < k THEN j + 1 ELSE (j + 1) + 1
    BY <1>1, <1>4
  <2> QED
    BY <2>1, <2>2, <2>3
<1>7. \A j, l \in DOMAIN t : j < l <=> f[j] < f[l]
  BY <1>1, <1>4
<1>8. ASSUME NEW m \in DOMAIN s \ {1, k} PROVE \E j \in DOMAIN t : f[j] = m
  <2>1. CASE m < k
    <3>1. m - 1 \in DOMAIN t /\ f[m - 1] = m
      BY <1>1, <1>4, <2>1
    <3> QED
      BY <3>1
  <2>2. CASE m > k
    <3>1. m - 2 \in DOMAIN t /\ f[m - 2] = m
      BY <1>1, <1>4, <2>2
    <3> QED
      BY <3>1
  <2> QED
    BY <1>1, <2>1, <2>2
<1>9. DOMAIN t \subseteq Nat /\ DOMAIN s \subseteq Nat
  BY <1>1, <1>4
<1>10. Rest(t, s, f, {1, k})
  <2> HIDE DEF f
  <2> QED
    BY <1>4, <1>5, <1>6, <1>7, <1>8, <1>9 DEF Rest
<1> QED
  BY <1>10 DEF f, t, r

(* Where the requests that are left are in the old list and the new.       *)
LEMMA OnRest ==
    ASSUME NEW t, NEW s, NEW f, NEW gone, Rest(t, s, f, gone), NEW o
    PROVE  /\ \A j \in On(t, o) : f[j] \in On(s, o) \ gone
           /\ \A m \in On(s, o) \ gone : \E j \in On(t, o) : f[j] = m
  BY DEF Rest, On

(* The parts that only ask for something on few requests.                  *)
LEMMA RestKind ==
    ASSUME NEW t, NEW s, NEW f, NEW gone, Rest(t, s, f, gone), NEW P,
           KindKnown(s), WrongKindIdle(s, P)
    PROVE  KindKnown(t) /\ WrongKindIdle(t, P)
<1>1. KindKnown(t)
  BY DEF Rest, KindKnown
<1>2. WrongKindIdle(t, P)
  <2>1. SUFFICES ASSUME NEW k \in DOMAIN t, ~t[k].OP,
                        ~(t[k].RT <=> t[k].Object \in RtObjects)
                 PROVE  /\ t[k].Object \notin P
                        /\ \A j \in On(t, t[k].Object) : j < k => ~t[j].OP
    BY DEF WrongKindIdle
  <2>2. f[k] \in DOMAIN s /\ t[k] = s[f[k]]
    BY DEF Rest
  <2>3. /\ s[f[k]].Object \notin P
        /\ \A j \in On(s, s[f[k]].Object) : j < f[k] => ~s[j].OP
    BY <2>1, <2>2 DEF WrongKindIdle
  <2>4. \A j \in On(t, t[k].Object) :
            j < k => f[j] < f[k] /\ f[j] \in On(s, t[k].Object) /\ t[j] = s[f[j]]
    BY OnRest DEF Rest, On
  <2> QED
    BY <2>2, <2>3, <2>4
<1> QED
  BY <1>1, <1>2

(* If the "gone" requests are not on o, nothing changes for o.             *)
LEMMA RestOther ==
    ASSUME NEW t, NEW s, NEW f, NEW gone, Rest(t, s, f, gone),
           NEW o \in Objects, On(s, o) \cap gone = {}, NEW P, NEW Q,
           o \in P <=> o \in Q
    PROVE  o \in RegSet(t, P) <=> o \in RegSet(s, Q)
<1>1. /\ \A j \in On(t, o) : f[j] \in On(s, o) /\ t[j] = s[f[j]]
      /\ \A m \in On(s, o) : \E j \in On(t, o) : f[j] = m
      /\ \A j, k \in On(t, o) : j < k <=> f[j] < f[k]
      /\ \A j, k \in On(t, o) : j \in Nat /\ k \in Nat /\ f[j] \in Nat /\ f[k] \in Nat
  BY OnRest DEF Rest, On
<1>2. On(t, o) = {} <=> On(s, o) = {}
  BY <1>1
<1>3. ASSUME NEW k \in On(t, o), t[k].OP, \A j \in On(t, o) : j <= k
      PROVE  s[f[k]].OP /\ \A m \in On(s, o) : m <= f[k]
  <2>1. ASSUME NEW m \in On(s, o) PROVE m <= f[k]
    <3>1. PICK j \in On(t, o) : f[j] = m
      BY <1>1
    <3>2. ~(k < j)
      BY <1>1, <1>3
    <3>3. ~(f[k] < f[j]) /\ f[j] \in Nat /\ f[k] \in Nat
      BY <1>1, <3>2
    <3> QED
      BY <3>1, <3>3
  <2> QED
    BY <1>1, <1>3, <2>1
<1>4. ASSUME NEW k \in On(t, o), s[f[k]].OP, \A m \in On(s, o) : m <= f[k]
      PROVE  t[k].OP /\ \A j \in On(t, o) : j <= k
  <2>1. ASSUME NEW j \in On(t, o) PROVE j <= k
    <3>1. f[j] <= f[k] /\ f[j] \in Nat /\ f[k] \in Nat
      BY <1>1, <1>4
    <3>2. ~(f[k] < f[j])
      BY <3>1
    <3>3. ~(k < j) /\ j \in Nat /\ k \in Nat
      BY <1>1, <3>2
    <3> QED
      BY <3>3
  <2> QED
    BY <1>1, <1>4, <2>1
<1>5. (\E k \in On(t, o) : t[k].OP /\ \A j \in On(t, o) : j <= k)
      <=> (\E m \in On(s, o) : s[m].OP /\ \A j \in On(s, o) : j <= m)
  BY <1>1, <1>3, <1>4
<1> QED
  BY <1>2, <1>5 DEF RegSet

(* A registration and the first unregistration behind it are taken out.    *)
LEMMA PairKeeps ==
    ASSUME NEW s, NEW t, NEW f, NEW P, NEW A, NEW k, NEW o,
           RequestsOK(s, P, A), 1 \in On(s, o), s[1].OP,
           k \in On(s, o), k > 1, ~s[k].OP,
           \A j \in On(s, o) : j > 1 /\ ~s[j].OP => k <= j,
           Rest(t, s, f, {1, k})
    PROVE  RequestsOK(t, P, A) /\ RegSet(t, P) = RegSet(s, P)
<1>1. /\ s \in Seq(Request) /\ o \in Objects /\ P \subseteq Objects
      /\ t \in Seq(Request) /\ DOMAIN s = 1 .. Len(s) /\ Len(s) \in Nat
  <2>1. s \in Seq(Request) /\ t \in Seq(Request) /\ P \subseteq Objects
    BY DEF Rest, RequestsOK
  <2>2. DOMAIN s = 1 .. Len(s) /\ Len(s) \in Nat
    BY <2>1, LenProperties
  <2>3. s[1] \in Request /\ s[1].Object = o
    BY <2>1, <2>2, ElementOfSeq DEF On
  <2> QED
    BY <2>1, <2>2, <2>3 DEF Request
<1>2. o \notin P
  BY <1>1 DEF RequestsOK, LeaveFirst, On
<1>3. ASSUME NEW m \in On(s, o), s[m].OP, m # 1 PROVE k < m
  <2>1. 1 < m /\ m \in Nat
    BY <1>1, <1>3 DEF On
  <2>2. PICK l \in On(s, o) : 1 < l /\ l < m /\ ~s[l].OP
    BY <1>1, <1>3, <2>1 DEF RequestsOK, Alternate
  <2>3. k <= l /\ l \in Nat /\ k \in Nat
    BY <1>1, <2>2 DEF On
  <2> QED
    BY <2>1, <2>2, <2>3
<1>4. ASSUME NEW x, x # o PROVE On(s, x) \cap {1, k} = {}
  BY <1>4 DEF On
<1>5. /\ \A x : \A j \in On(t, x) : f[j] \in On(s, x) \ {1, k} /\ t[j] = s[f[j]]
      /\ \A x : \A m \in On(s, x) \ {1, k} : \E j \in On(t, x) : f[j] = m
      /\ \A j, l \in DOMAIN t : j < l <=> f[j] < f[l]
  BY OnRest DEF Rest, On
<1>6. KindKnown(t) /\ WrongKindIdle(t, P)
  BY RestKind DEF RequestsOK
<1>7. Alternate(t)
  <2>1. SUFFICES ASSUME NEW x \in Objects, NEW j \in On(t, x), NEW m \in On(t, x),
                        j < m, t[j].OP, t[m].OP
                 PROVE  \E l \in On(t, x) : j < l /\ l < m /\ ~t[l].OP
    BY DEF Alternate
  <2>2. /\ f[j] \in On(s, x) \ {1, k} /\ f[m] \in On(s, x) \ {1, k}
        /\ s[f[j]].OP /\ s[f[m]].OP /\ f[j] < f[m]
    BY <1>5, <2>1 DEF On
  <2>3. PICK n \in On(s, x) : f[j] < n /\ n < f[m] /\ ~s[n].OP
    BY <2>2 DEF RequestsOK, Alternate
  <2>4. n \notin {1, k}
    <3>1. x = o => k < f[j]
      BY <1>3, <2>2
    <3>2. k \in Nat /\ n \in Nat /\ f[j] \in Nat
      BY <1>1, <2>2, <2>3 DEF On
    <3> QED
      BY <1>4, <2>3, <3>1, <3>2
  <2>5. PICK l \in On(t, x) : f[l] = n
    BY <1>5, <2>4
  <2> QED
    BY <1>5, <2>3, <2>5 DEF On
<1>8. LeaveFirst(t, P)
  <2>1. SUFFICES ASSUME NEW x \in P, NEW m \in On(t, x), t[m].OP
                 PROVE  \E j \in On(t, x) : j < m /\ ~t[j].OP
    BY DEF LeaveFirst
  <2>2. PICK n \in On(s, x) : n < f[m] /\ ~s[n].OP
    BY <1>5, <2>1 DEF RequestsOK, LeaveFirst
  <2>3. n \notin {1, k}
    BY <1>2, <1>4
  <2>4. PICK j \in On(t, x) : f[j] = n
    BY <1>5, <2>3
  <2> QED
    BY <1>5, <2>2, <2>4 DEF On
<1>9. DeadLeave(t, P, A)
  <2>1. ASSUME NEW x \in Objects \ A, NEW m \in On(t, x), t[m].OP
        PROVE  \E j \in On(t, x) : m < j /\ ~t[j].OP
    <3>1. f[m] \in On(s, x) \ {1, k} /\ s[f[m]].OP
      BY <1>5, <2>1
    <3>2. PICK n \in On(s, x) : f[m] < n /\ ~s[n].OP
      BY <3>1 DEF RequestsOK, DeadLeave
    <3>3. n \notin {1, k}
      <4>1. x = o => k < f[m]
        BY <1>3, <3>1
      <4>2. k \in Nat /\ n \in Nat /\ f[m] \in Nat /\ f[m] > 1
        BY <1>1, <3>1, <3>2 DEF On
      <4> QED
        BY <1>4, <3>2, <4>1, <4>2
    <3>4. PICK j \in On(t, x) : f[j] = n
      BY <1>5, <3>3
    <3> QED
      BY <1>5, <3>2, <3>4 DEF On
  <2>2. ASSUME NEW x \in P \ A PROVE \E j \in On(t, x) : ~t[j].OP
    <3>1. PICK n \in On(s, x) : ~s[n].OP
      BY DEF RequestsOK, DeadLeave
    <3>2. n \notin {1, k}
      BY <1>2, <1>4
    <3> QED
      BY <1>5, <3>1, <3>2
  <2> QED
    BY <2>1, <2>2 DEF DeadLeave
<1>10. ASSUME NEW x \in Objects PROVE x \in RegSet(t, P) <=> x \in RegSet(s, P)
  <2>1. CASE x # o
    BY <1>4, <2>1, RestOther
  <2>2. CASE x = o
    <3>1. ASSUME NEW m \in On(s, o), s[m].OP, \A j \in On(s, o) : j <= m
          PROVE  o \in RegSet(t, P)
      <4>1. m \notin {1, k}
        <5>1. k <= m /\ k \in Nat /\ m \in Nat
          BY <1>1, <3>1 DEF On
        <5> QED
          BY <3>1, <5>1
      <4>2. PICK l \in On(t, o) : f[l] = m
        BY <1>5, <4>1
      <4>3. \A j \in On(t, o) : ~(l < j) /\ j \in Nat /\ l \in Nat
        <5>1. ASSUME NEW j \in On(t, o) PROVE ~(l < j) /\ j \in Nat /\ l \in Nat
          <6>1. f[j] <= m /\ f[j] \in Nat /\ m \in Nat /\ j \in DOMAIN t /\ l \in DOMAIN t
            BY <1>1, <1>5, <3>1 DEF On
          <6>2. ~(f[l] < f[j])
            BY <4>2, <6>1
          <6> QED
            BY <1>5, <6>1, <6>2 DEF Rest
        <5> QED
          BY <5>1
      <4>4. \A j \in On(t, o) : j <= l
        BY <4>3
      <4> QED
        BY <1>1, <1>5, <3>1, <4>2, <4>4 DEF RegSet
    <3>2. ASSUME NEW l \in On(t, o), t[l].OP, \A j \in On(t, o) : j <= l
          PROVE  o \in RegSet(s, P)
      <4>1. f[l] \in On(s, o) \ {1, k} /\ s[f[l]].OP /\ k < f[l]
        BY <1>3, <1>5, <3>2
      <4>2. ASSUME NEW m \in On(s, o) PROVE m <= f[l]
        <5>1. m \in Nat /\ k \in Nat /\ f[l] \in Nat
          BY <1>1, <4>1 DEF On
        <5>2. CASE m \in {1, k}
          BY <4>1, <5>1, <5>2
        <5>3. CASE m \notin {1, k}
          <6>1. PICK j \in On(t, o) : f[j] = m
            BY <1>5, <5>3
          <6>2. j <= l /\ j \in Nat /\ l \in Nat /\ j \in DOMAIN t /\ l \in DOMAIN t
            BY <3>2 DEF On, Rest
          <6>3. ~(f[l] < f[j])
            BY <1>5, <6>2
          <6> QED
            BY <5>1, <6>1, <6>3
        <5> QED
          BY <5>2, <5>3
      <4> QED
        BY <1>1, <4>1, <4>2 DEF RegSet
    <3> QED
      BY <1>2, <2>2, <3>1, <3>2 DEF RegSet
  <2> QED
    BY <2>1, <2>2
<1>11. RegSet(t, P) = RegSet(s, P)
  BY <1>10 DEF RegSet
<1> QED
  BY <1>1, <1>6, <1>7, <1>8, <1>9, <1>11 DEF RequestsOK

(* A registration that has no unregistration behind it is applied: its     *)
(* object is placed.                                                       *)
LEMMA EnterKeeps ==
    ASSUME NEW s, NEW t, NEW f, NEW P, NEW A, NEW o,
           RequestsOK(s, P, A), 1 \in On(s, o), s[1].OP,
           \A j \in On(s, o) : j > 1 => s[j].OP,
           Rest(t, s, f, {1})
    PROVE  /\ RequestsOK(t, P \cup {o}, A)
           /\ RegSet(t, P \cup {o}) = RegSet(s, P)
           /\ o \in Objects \cap A /\ o \notin P
           /\ s[1].RT <=> o \in RtObjects
<1>1. /\ s \in Seq(Request) /\ o \in Objects /\ P \subseteq Objects
      /\ t \in Seq(Request) /\ DOMAIN s = 1 .. Len(s) /\ Len(s) \in Nat
      /\ s[1].Object = o
  <2>1. s \in Seq(Request) /\ t \in Seq(Request) /\ P \subseteq Objects
    BY DEF Rest, RequestsOK
  <2>2. DOMAIN s = 1 .. Len(s) /\ Len(s) \in Nat
    BY <2>1, LenProperties
  <2>3. s[1] \in Request /\ s[1].Object = o
    BY <2>1, <2>2, ElementOfSeq DEF On
  <2> QED
    BY <2>1, <2>2, <2>3 DEF Request
<1>2. o \notin P
  BY <1>1 DEF RequestsOK, LeaveFirst, On
<1>3. o \in A
  <2>1. SUFFICES ASSUME o \notin A PROVE FALSE
    OBVIOUS
  <2>2. PICK j \in On(s, o) : 1 < j /\ ~s[j].OP
    BY <1>1, <2>1 DEF RequestsOK, DeadLeave
  <2> QED
    BY <2>2
<1>4. On(s, o) = {1}
  <2>1. ASSUME NEW m \in On(s, o), m # 1 PROVE FALSE
    <3>1. 1 < m /\ s[m].OP
      BY <1>1, <2>1 DEF On
    <3>2. PICK l \in On(s, o) : 1 < l /\ ~s[l].OP
      BY <1>1, <3>1 DEF RequestsOK, Alternate
    <3> QED
      BY <3>2
  <2> QED
    BY <2>1
<1>5. /\ \A x : \A j \in On(t, x) : f[j] \in On(s, x) \ {1} /\ t[j] = s[f[j]]
      /\ \A x : \A m \in On(s, x) \ {1} : \E j \in On(t, x) : f[j] = m
      /\ \A j, l \in DOMAIN t : j < l <=> f[j] < f[l]
  BY OnRest DEF Rest, On
<1>6. On(t, o) = {}
  BY <1>4, <1>5
<1>7. ASSUME NEW x, x # o PROVE On(s, x) \cap {1} = {}
  BY <1>7, <1>1 DEF On
<1>8. KindKnown(t) /\ WrongKindIdle(t, P \cup {o})
  <2>1. KindKnown(t) /\ WrongKindIdle(t, P)
    BY RestKind DEF RequestsOK
  <2>2. \A j \in DOMAIN t : t[j].Object # o
    BY <1>6 DEF On
  <2> QED
    BY <2>1, <2>2 DEF WrongKindIdle
<1>9. Alternate(t)
  <2>1. SUFFICES ASSUME NEW x \in Objects, NEW j \in On(t, x), NEW m \in On(t, x),
                        j < m, t[j].OP, t[m].OP
                 PROVE  \E l \in On(t, x) : j < l /\ l < m /\ ~t[l].OP
    BY DEF Alternate
  <2>2. x # o
    BY <1>6
  <2>3. /\ f[j] \in On(s, x) /\ f[m] \in On(s, x)
        /\ s[f[j]].OP /\ s[f[m]].OP /\ f[j] < f[m]
    BY <1>5, <2>1 DEF On
  <2>4. PICK n \in On(s, x) : f[j] < n /\ n < f[m] /\ ~s[n].OP
    BY <2>3 DEF RequestsOK, Alternate
  <2>5. PICK l \in On(t, x) : f[l] = n
    BY <1>5, <1>7, <2>2
  <2> QED
    BY <1>5, <2>4, <2>5 DEF On
<1>10. LeaveFirst(t, P \cup {o})
  <2>1. SUFFICES ASSUME NEW x \in P \cup {o}, NEW m \in On(t, x), t[m].OP
                 PROVE  \E j \in On(t, x) : j < m /\ ~t[j].OP
    BY DEF LeaveFirst
  <2>2. x # o /\ x \in P
    BY <1>6
  <2>3. PICK n \in On(s, x) : n < f[m] /\ ~s[n].OP
    BY <1>5, <2>1, <2>2 DEF RequestsOK, LeaveFirst
  <2>4. PICK j \in On(t, x) : f[j] = n
    BY <1>5, <1>7, <2>2
  <2> QED
    BY <1>5, <2>3, <2>4 DEF On
<1>11. DeadLeave(t, P \cup {o}, A)
  <2>1. ASSUME NEW x \in Objects \ A, NEW m \in On(t, x), t[m].OP
        PROVE  \E j \in On(t, x) : m < j /\ ~t[j].OP
    <3>1. f[m] \in On(s, x) /\ s[f[m]].OP /\ x # o
      BY <1>3, <1>5, <2>1
    <3>2. PICK n \in On(s, x) : f[m] < n /\ ~s[n].OP
      BY <3>1 DEF RequestsOK, DeadLeave
    <3>3. PICK j \in On(t, x) : f[j] = n
      BY <1>5, <1>7, <3>1
    <3> QED
      BY <1>5, <3>2, <3>3 DEF On
  <2>2. ASSUME NEW x \in (P \cup {o}) \ A PROVE \E j \in On(t, x) : ~t[j].OP
    <3>1. x \in P \ A /\ x # o
      BY <1>3
    <3>2. PICK n \in On(s, x) : ~s[n].OP
      BY <3>1 DEF RequestsOK, DeadLeave
    <3> QED
      BY <1>5, <1>7, <3>1, <3>2
  <2> QED
    BY <2>1, <2>2 DEF DeadLeave
<1>12. ASSUME NEW x \in Objects PROVE x \in RegSet(t, P \cup {o}) <=> x \in RegSet(s, P)
  <2>1. CASE x # o
    BY <1>7, <2>1, RestOther
  <2>2. CASE x = o
    <3>1. o \in RegSet(t, P \cup {o})
      BY <1>1, <1>6 DEF RegSet
    <3>2. o \in RegSet(s, P)
      <4>1. \A j \in On(s, o) : j <= 1
        BY <1>4
      <4> QED
        BY <1>1, <4>1 DEF RegSet
    <3> QED
      BY <2>2, <3>1, <3>2
  <2> QED
    BY <2>1, <2>2
<1>13. RegSet(t, P \cup {o}) = RegSet(s, P)
  BY <1>12 DEF RegSet
<1>14. s[1].RT <=> o \in RtObjects
  BY <1>1 DEF RequestsOK, KindKnown, On
<1> QED
  BY <1>1, <1>2, <1>3, <1>8, <1>9, <1>10, <1>11, <1>13, <1>14 DEF RequestsOK

(* An unregistration is applied: its object is in no container any more.   *)
LEMMA LeaveKeeps ==
    ASSUME NEW s, NEW t, NEW f, NEW P, NEW A, NEW o,
           RequestsOK(s, P, A), 1 \in On(s, o), ~s[1].OP,
           Rest(t, s, f, {1})
    PROVE  /\ RequestsOK(t, P \ {o}, A)
           /\ RegSet(t, P \ {o}) = RegSet(s, P)
           /\ o \in P => (s[1].RT <=> o \in RtObjects)
<1>1. /\ s \in Seq(Request) /\ o \in Objects /\ P \subseteq Objects
      /\ t \in Seq(Request) /\ DOMAIN s = 1 .. Len(s) /\ Len(s) \in Nat
      /\ s[1].Object = o
  <2>1. s \in Seq(Request) /\ t \in Seq(Request) /\ P \subseteq Objects
    BY DEF Rest, RequestsOK
  <2>2. DOMAIN s = 1 .. Len(s) /\ Len(s) \in Nat
    BY <2>1, LenProperties
  <2>3. s[1] \in Request /\ s[1].Object = o
    BY <2>1, <2>2, ElementOfSeq DEF On
  <2> QED
    BY <2>1, <2>2, <2>3 DEF Request
<1>2. /\ \A x : \A j \in On(t, x) : f[j] \in On(s, x) \ {1} /\ t[j] = s[f[j]]
      /\ \A x : \A m \in On(s, x) \ {1} : \E j \in On(t, x) : f[j] = m
      /\ \A j, l \in DOMAIN t : j < l <=> f[j] < f[l]
      /\ \A x : \A j \in On(t, x) : f[j] > 1 /\ f[j] \in Nat
  <2>1. \A x : \A j \in On(t, x) : f[j] \in On(s, x) \ {1} /\ t[j] = s[f[j]]
    BY OnRest DEF Rest, On
  <2>2. \A x : \A j \in On(t, x) : f[j] \in DOMAIN s \ {1}
    BY <2>1 DEF On
  <2>3. \A x : \A j \in On(t, x) : f[j] > 1 /\ f[j] \in Nat
    BY <1>1, <2>2
  <2> QED
    <3>1. \A x : \A m \in On(s, x) \ {1} : \E j \in On(t, x) : f[j] = m
      BY OnRest
    <3>2. \A j, l \in DOMAIN t : j < l <=> f[j] < f[l]
      BY DEF Rest
    <3> QED
      BY <2>1, <2>3, <3>1, <3>2
<1>3. ASSUME NEW x, x # o PROVE On(s, x) \cap {1} = {}
  BY <1>3, <1>1 DEF On
<1>4. KindKnown(t) /\ WrongKindIdle(t, P \ {o})
  <2>1. KindKnown(t) /\ WrongKindIdle(t, P)
    BY RestKind DEF RequestsOK
  <2> QED
    BY <2>1 DEF WrongKindIdle
<1>5. Alternate(t)
  <2>1. SUFFICES ASSUME NEW x \in Objects, NEW j \in On(t, x), NEW m \in On(t, x),
                        j < m, t[j].OP, t[m].OP
                 PROVE  \E l \in On(t, x) : j < l /\ l < m /\ ~t[l].OP
    BY DEF Alternate
  <2>2. /\ f[j] \in On(s, x) /\ f[m] \in On(s, x) /\ f[j] > 1 /\ f[j] \in Nat
        /\ s[f[j]].OP /\ s[f[m]].OP /\ f[j] < f[m]
    BY <1>2, <2>1 DEF On
  <2>3. PICK n \in On(s, x) : f[j] < n /\ n < f[m] /\ ~s[n].OP
    BY <2>2 DEF RequestsOK, Alternate
  <2>4. n # 1
    BY <2>2, <2>3
  <2>5. PICK l \in On(t, x) : f[l] = n
    BY <1>2, <2>4
  <2> QED
    BY <1>2, <2>3, <2>5 DEF On
<1>6. LeaveFirst(t, P \ {o})
  <2>1. SUFFICES ASSUME NEW x \in P \ {o}, NEW m \in On(t, x), t[m].OP
                 PROVE  \E j \in On(t, x) : j < m /\ ~t[j].OP
    BY DEF LeaveFirst
  <2>2. PICK n \in On(s, x) : n < f[m] /\ ~s[n].OP
    BY <1>2, <2>1 DEF RequestsOK, LeaveFirst
  <2>3. PICK j \in On(t, x) : f[j] = n
    BY <1>2, <1>3
  <2> QED
    BY <1>2, <2>2, <2>3 DEF On
<1>7. DeadLeave(t, P \ {o}, A)
  <2>1. ASSUME NEW x \in Objects \ A, NEW m \in On(t, x), t[m].OP
        PROVE  \E j \in On(t, x) : m < j /\ ~t[j].OP
    <3>1. f[m] \in On(s, x) /\ s[f[m]].OP /\ f[m] > 1 /\ f[m] \in Nat
      BY <1>2, <2>1
    <3>2. PICK n \in On(s, x) : f[m] < n /\ ~s[n].OP
      BY <3>1 DEF RequestsOK, DeadLeave
    <3>3. n # 1
      BY <3>1, <3>2
    <3>4. PICK j \in On(t, x) : f[j] = n
      BY <1>2, <3>3
    <3> QED
      BY <1>2, <3>2, <3>4 DEF On
  <2>2. ASSUME NEW x \in (P \ {o}) \ A PROVE \E j \in On(t, x) : ~t[j].OP
    <3>1. PICK n \in On(s, x) : ~s[n].OP
      BY DEF RequestsOK, DeadLeave
    <3> QED
      BY <1>2, <1>3, <3>1
  <2> QED
    BY <2>1, <2>2 DEF DeadLeave
<1>8. ASSUME NEW x \in Objects PROVE x \in RegSet(t, P \ {o}) <=> x \in RegSet(s, P)
  <2>1. CASE x # o
    BY <1>3, <2>1, RestOther
  <2>2. CASE x = o
    <3>1. ASSUME NEW m \in On(s, o), s[m].OP, \A j \in On(s, o) : j <= m
          PROVE  o \in RegSet(t, P \ {o})
      <4>1. PICK l \in On(t, o) : f[l] = m
        BY <1>2, <3>1
      <4>2. \A j \in On(t, o) : f[j] <= m /\ m \in Nat
        BY <1>1, <1>2, <3>1 DEF On
      <4>3. ASSUME NEW j \in On(t, o) PROVE j <= l
        <5>1. ~(f[l] < f[j])
          BY <1>2, <4>1, <4>2
        <5>2. ~(l < j) /\ j \in Nat /\ l \in Nat
          BY <1>2, <5>1 DEF On, Rest
        <5> QED
          BY <5>2
      <4> QED
        BY <1>1, <1>2, <3>1, <4>1, <4>3 DEF RegSet
    <3>2. ASSUME NEW l \in On(t, o), t[l].OP, \A j \in On(t, o) : j <= l
          PROVE  o \in RegSet(s, P)
      <4>1. f[l] \in On(s, o) /\ s[f[l]].OP /\ f[l] > 1 /\ f[l] \in Nat
        BY <1>2, <3>2
      <4>2. ASSUME NEW m \in On(s, o), m # 1 PROVE m <= f[l]
        <5>1. PICK j \in On(t, o) : f[j] = m
          BY <1>2, <4>2
        <5>2. ~(l < j) /\ j \in DOMAIN t /\ l \in DOMAIN t /\ f[j] \in Nat
          <6>1. j <= l /\ j \in Nat /\ l \in Nat /\ j \in DOMAIN t /\ l \in DOMAIN t
            BY <3>2 DEF On, Rest
          <6> QED
            BY <6>1, <1>2
        <5>3. ~(f[l] < f[j])
          BY <1>2, <5>2
        <5> QED
          BY <4>1, <5>1, <5>2, <5>3
      <4>3. \A m \in On(s, o) : m <= f[l]
        BY <4>1, <4>2
      <4> QED
        BY <1>1, <4>1, <4>3 DEF RegSet
    <3> QED
      BY <1>1, <2>2, <3>1, <3>2 DEF RegSet
  <2> QED
    BY <2>1, <2>2
<1>9. RegSet(t, P \ {o}) = RegSet(s, P)
  BY <1>8 DEF RegSet
<1>10. o \in P => (s[1].RT <=> o \in RtObjects)
  BY <1>1 DEF RequestsOK, WrongKindIdle, On
<1> QED
  BY <1>1, <1>4, <1>5, <1>6, <1>7, <1>9, <1>10 DEF RequestsOK

(* t is s with the request r behind it, at n.                              *)
Added(t, s, r, n) ==
    /\ t \in Seq(Request) /\ n \in Nat /\ t[n] = r
    /\ DOMAIN t = DOMAIN s \cup {n}
    /\ \A k \in DOMAIN s : k \in Nat /\ k < n /\ t[k] = s[k]
    /\ \A x : On(s, x) \subseteq DOMAIN s
    /\ On(t, r.Object) = On(s, r.Object) \cup {n}
    /\ \A x : x # r.Object => On(t, x) = On(s, x)
    /\ \A x : On(s, x) \subseteq On(t, x)
    /\ \A x : \A k \in On(t, x) : k \in Nat /\ k <= n

LEMMA AppendOn ==
    ASSUME NEW s \in Seq(Request), NEW r \in Request
    PROVE  Added(Append(s, r), s, r, Len(s) + 1)
<1>0. PICK t, n : t = Append(s, r) /\ n = Len(s) + 1
  OBVIOUS
<1>1. /\ t \in Seq(Request) /\ Len(t) = Len(s) + 1 /\ t[n] = r
      /\ \A k \in 1 .. Len(s) : t[k] = s[k]
  BY <1>0, AppendProperties
<1>2. /\ DOMAIN s = 1 .. Len(s) /\ Len(s) \in Nat /\ DOMAIN t = 1 .. Len(t)
  BY <1>1, LenProperties
<1>3. DOMAIN t = DOMAIN s \cup {n} /\ n \in Nat
  BY <1>0, <1>1, <1>2
<1>4. \A k \in DOMAIN s : k \in Nat /\ k < n /\ t[k] = s[k]
  BY <1>0, <1>1, <1>2
<1>5. \A x : On(s, x) \subseteq DOMAIN s
  BY DEF On
<1>6. On(t, r.Object) = On(s, r.Object) \cup {n}
  BY <1>1, <1>3, <1>4 DEF On
<1>7. ASSUME NEW x, x # r.Object PROVE On(t, x) = On(s, x)
  BY <1>1, <1>3, <1>4, <1>7 DEF On
<1>8. \A x : On(s, x) \subseteq On(t, x)
  BY <1>1, <1>3, <1>4 DEF On
<1>9. ASSUME NEW x, NEW k \in On(t, x) PROVE k \in Nat /\ k <= n
  <2>1. k \in DOMAIN s \/ k = n
    BY <1>3 DEF On
  <2> QED
    BY <1>3, <1>4, <2>1
<1> QED
  BY <1>0, <1>1, <1>3, <1>4, <1>5, <1>6, <1>7, <1>8, <1>9 DEF Added

(* The requests on an object, if there are any, have a last one.           *)
LEMMA LastExists ==
    ASSUME NEW s \in Seq(Request), NEW o, On(s, o) # {}
    PROVE  \E k \in On(s, o) : \A j \in On(s, o) : j <= k
<1>1. DOMAIN s = 1 .. Len(s) /\ Len(s) \in Nat
  BY LenProperties
<1>2. On(s, o) \in SUBSET Nat /\ \A j \in On(s, o) : j <= Len(s)
  BY <1>1 DEF On
<1> QED
  BY <1>1, <1>2, MaxExists

LEMMA AddRegister ==
    ASSUME NEW s, NEW P, NEW A, NEW o \in Objects, RequestsOK(s, P, A),
           o \in A, o \notin RegSet(s, P),
           NEW r \in Request, r.OP, r.Object = o, r.RT <=> o \in RtObjects,
           NEW t, NEW n, Added(t, s, r, n)
    PROVE  /\ RequestsOK(t, P, A)
           /\ \A x : x \in RegSet(t, P) <=> x \in RegSet(s, P) \/ x = o
<1>1. s \in Seq(Request) /\ P \subseteq Objects
  BY DEF RequestsOK
<1>2. r \in Request /\ r.Object = o /\ r.OP /\ (r.RT <=> o \in RtObjects)
  OBVIOUS
<1>3. /\ t \in Seq(Request) /\ n \in Nat /\ t[n] = r
      /\ DOMAIN t = DOMAIN s \cup {n}
      /\ \A k \in DOMAIN s : k \in Nat /\ k < n /\ t[k] = s[k]
      /\ \A x : On(s, x) \subseteq DOMAIN s
      /\ On(t, o) = On(s, o) \cup {n}
      /\ \A x : x # o => On(t, x) = On(s, x)
      /\ \A x : On(s, x) \subseteq On(t, x)
      /\ \A x : \A k \in On(t, x) : k \in Nat /\ k <= n
  BY <1>2 DEF Added
<1>4. ASSUME On(s, o) # {} \/ o \in P
      PROVE  \E k \in On(s, o) : ~s[k].OP /\ \A j \in On(s, o) : j <= k
  <2>1. On(s, o) # {}
    BY <1>4 DEF RegSet
  <2>2. PICK k \in On(s, o) : \A j \in On(s, o) : j <= k
    BY <1>1, <2>1, LastExists
  <2> QED
    BY <2>2 DEF RegSet
<1>5. KindKnown(t)
  BY <1>2, <1>3 DEF RequestsOK, KindKnown
<1>6. WrongKindIdle(t, P)
  <2>1. SUFFICES ASSUME NEW k \in DOMAIN t, ~t[k].OP,
                        ~(t[k].RT <=> t[k].Object \in RtObjects)
                 PROVE  /\ t[k].Object \notin P
                        /\ \A j \in On(t, t[k].Object) : j < k => ~t[j].OP
    BY DEF WrongKindIdle
  <2>2. k \in DOMAIN s /\ k < n /\ t[k] = s[k]
    BY <1>2, <1>3, <2>1
  <2>3. /\ s[k].Object \notin P
        /\ \A j \in On(s, s[k].Object) : j < k => ~s[j].OP
    BY <2>1, <2>2 DEF RequestsOK, WrongKindIdle
  <2>4. ASSUME NEW j \in On(t, t[k].Object), j < k PROVE ~t[j].OP
    <3>1. j # n
      <4>1. k \in Nat /\ n \in Nat
        BY <1>1, <1>3, <2>2, LenProperties
      <4> QED
        BY <2>2, <2>4, <4>1
    <3>2. j \in On(s, t[k].Object) /\ t[j] = s[j]
      BY <1>3, <3>1 DEF On
    <3> QED
      BY <2>2, <2>3, <2>4, <3>2
  <2> QED
    BY <2>2, <2>3, <2>4
<1>7. Alternate(t)
  <2>1. SUFFICES ASSUME NEW x \in Objects, NEW j \in On(t, x), NEW k \in On(t, x),
                        j < k, t[j].OP, t[k].OP
                 PROVE  \E l \in On(t, x) : j < l /\ l < k /\ ~t[l].OP
    BY DEF Alternate
  <2>2. j \in On(s, x)
    <3>1. k \in Nat /\ n \in Nat /\ k <= n
      BY <1>3
    <3>2. j # n
      BY <2>1, <3>1
    <3> QED
      BY <1>3, <3>2
  <2>3. CASE k \in On(s, x)
    BY <1>3, <2>1, <2>2, <2>3 DEF RequestsOK, Alternate
  <2>4. CASE k \notin On(s, x)
    <3>1. k = n /\ x = o
      BY <1>3, <2>4
    <3>2. PICK l \in On(s, o) : ~s[l].OP /\ \A m \in On(s, o) : m <= l
      BY <1>4, <2>2, <3>1
    <3>3. j <= l /\ j # l /\ j \in Nat /\ l \in Nat
      BY <1>3, <2>1, <2>2, <3>1, <3>2
    <3>4. l \in On(t, x) /\ l < n /\ t[l] = s[l]
      BY <1>3, <3>1, <3>2
    <3>5. j < l
      BY <3>3
    <3>6. l < k /\ ~t[l].OP
      BY <3>1, <3>2, <3>4
    <3> QED
      BY <3>4, <3>5, <3>6
  <2> QED
    BY <2>3, <2>4
<1>8. LeaveFirst(t, P)
  <2>1. SUFFICES ASSUME NEW x \in P, NEW k \in On(t, x), t[k].OP
                 PROVE  \E j \in On(t, x) : j < k /\ ~t[j].OP
    BY DEF LeaveFirst
  <2>2. CASE k \in On(s, x)
    BY <1>3, <2>1, <2>2 DEF RequestsOK, LeaveFirst
  <2>3. CASE k \notin On(s, x)
    <3>1. k = n /\ x = o
      BY <1>3, <2>3
    <3>2. PICK l \in On(s, o) : ~s[l].OP
      BY <1>4, <3>1
    <3> QED
      BY <1>3, <3>1, <3>2
  <2> QED
    BY <2>2, <2>3
<1>9. DeadLeave(t, P, A)
  <2>1. ASSUME NEW x \in Objects \ A, NEW k \in On(t, x), t[k].OP
        PROVE  \E j \in On(t, x) : k < j /\ ~t[j].OP
    <3>1. k \in On(s, x) /\ s[k].OP
      BY <1>3, <2>1
    <3> QED
      BY <1>3, <3>1 DEF RequestsOK, DeadLeave
  <2>2. ASSUME NEW x \in P \ A PROVE \E j \in On(t, x) : ~t[j].OP
    BY <1>3 DEF RequestsOK, DeadLeave
  <2> QED
    BY <2>1, <2>2 DEF DeadLeave
<1>10. ASSUME NEW x \in Objects
       PROVE  x \in RegSet(t, P) <=> x \in RegSet(s, P) \cup {o}
  <2>1. CASE x = o
    <3>1. \A j \in On(t, o) : j <= n
      BY <1>3
    <3> QED
      BY <1>2, <1>3, <2>1, <3>1 DEF RegSet
  <2>2. CASE x # o
    <3>1. On(t, x) = On(s, x) /\ \A k \in On(s, x) : t[k] = s[k]
      BY <1>3, <2>2
    <3> QED
      BY <2>2, <3>1 DEF RegSet
  <2> QED
    BY <2>1, <2>2
<1>11. \A x : x \in RegSet(t, P) <=> x \in RegSet(s, P) \/ x = o
  BY <1>10 DEF RegSet
<1> QED
  BY <1>1, <1>3, <1>5, <1>6, <1>7, <1>8, <1>9, <1>11 DEF RequestsOK

(* The flag that r takes along is right, or does no harm.                  *)
KindOrIdle(r, s, P, o) ==
    \/ r.RT <=> o \in RtObjects
    \/ o \notin P /\ \A j \in On(s, o) : ~s[j].OP

(* An unregistration is queued: from now on its object need not exist.     *)
LEMMA AddUnregister ==
    ASSUME NEW s, NEW P, NEW A, NEW o \in Objects, RequestsOK(s, P, A),
           NEW r \in Request, ~r.OP, r.Object = o,
           KindOrIdle(r, s, P, o),
           NEW t, NEW n, Added(t, s, r, n)
    PROVE  /\ RequestsOK(t, P, A \ {o})
           /\ \A x : x \in RegSet(t, P) <=> x \in RegSet(s, P) /\ x # o
<1>1. s \in Seq(Request) /\ P \subseteq Objects
  BY DEF RequestsOK
<1>2. r \in Request /\ r.Object = o /\ ~r.OP
  OBVIOUS
<1>3. /\ t \in Seq(Request) /\ n \in Nat /\ t[n] = r
      /\ DOMAIN t = DOMAIN s \cup {n}
      /\ \A k \in DOMAIN s : k \in Nat /\ k < n /\ t[k] = s[k]
      /\ \A x : On(s, x) \subseteq DOMAIN s
      /\ On(t, o) = On(s, o) \cup {n}
      /\ \A x : x # o => On(t, x) = On(s, x)
      /\ \A x : On(s, x) \subseteq On(t, x)
      /\ \A x : \A k \in On(t, x) : k \in Nat /\ k <= n
  BY <1>2 DEF Added
<1>5. KindKnown(t)
  BY <1>2, <1>3 DEF RequestsOK, KindKnown
<1>6. WrongKindIdle(t, P)
  <2>1. SUFFICES ASSUME NEW k \in DOMAIN t, ~t[k].OP,
                        ~(t[k].RT <=> t[k].Object \in RtObjects)
                 PROVE  /\ t[k].Object \notin P
                        /\ \A j \in On(t, t[k].Object) : j < k => ~t[j].OP
    BY DEF WrongKindIdle
  <2>2. CASE k = n
    <3>1. t[k].Object = o /\ o \notin P /\ \A j \in On(s, o) : ~s[j].OP
      BY <1>2, <1>3, <2>1, <2>2 DEF KindOrIdle
    <3>2. \A j \in On(t, o) : ~t[j].OP
      BY <1>2, <1>3, <3>1
    <3> QED
      BY <3>1, <3>2
  <2>3. CASE k # n
    <3>1. k \in DOMAIN s /\ k < n /\ t[k] = s[k]
      BY <1>3, <2>3
    <3>2. /\ s[k].Object \notin P
          /\ \A j \in On(s, s[k].Object) : j < k => ~s[j].OP
      BY <2>1, <3>1 DEF RequestsOK, WrongKindIdle
    <3>3. ASSUME NEW j \in On(t, t[k].Object), j < k PROVE ~t[j].OP
      <4>1. CASE j = n
        BY <1>2, <1>3, <4>1
      <4>2. CASE j # n
        <5>1. j \in On(s, t[k].Object) /\ t[j] = s[j]
          BY <1>3, <4>2 DEF On
        <5> QED
          BY <3>1, <3>2, <3>3, <5>1
      <4> QED
        BY <4>1, <4>2
    <3> QED
      BY <3>1, <3>2, <3>3
  <2> QED
    BY <2>2, <2>3
<1>7. Alternate(t)
  <2>1. SUFFICES ASSUME NEW x \in Objects, NEW j \in On(t, x), NEW k \in On(t, x),
                        j < k, t[j].OP, t[k].OP
                 PROVE  \E l \in On(t, x) : j < l /\ l < k /\ ~t[l].OP
    BY DEF Alternate
  <2>2. j \in On(s, x) /\ k \in On(s, x)
    BY <1>2, <1>3, <2>1
  <2> QED
    BY <1>3, <2>1, <2>2 DEF RequestsOK, Alternate
<1>8. LeaveFirst(t, P)
  <2>1. SUFFICES ASSUME NEW x \in P, NEW k \in On(t, x), t[k].OP
                 PROVE  \E j \in On(t, x) : j < k /\ ~t[j].OP
    BY DEF LeaveFirst
  <2>2. k \in On(s, x)
    BY <1>2, <1>3, <2>1
  <2> QED
    BY <1>3, <2>1, <2>2 DEF RequestsOK, LeaveFirst
<1>9. DeadLeave(t, P, A \ {o})
  <2>1. ASSUME NEW x \in Objects \ (A \ {o}), NEW k \in On(t, x), t[k].OP
        PROVE  \E j \in On(t, x) : k < j /\ ~t[j].OP
    <3>1. k \in On(s, x) /\ s[k].OP
      <4>1. k # n
        BY <1>2, <1>3, <2>1
      <4>2. k \in On(s, x)
        BY <1>3, <4>1
      <4> QED
        BY <1>3, <2>1, <4>2
    <3>2. CASE x = o
      BY <1>2, <1>3, <3>1, <3>2
    <3>3. CASE x # o
      BY <1>3, <3>1, <3>3 DEF RequestsOK, DeadLeave
    <3> QED
      BY <3>2, <3>3
  <2>2. ASSUME NEW x \in P \ (A \ {o}) PROVE \E j \in On(t, x) : ~t[j].OP
    <3>1. CASE x = o
      BY <1>2, <1>3, <3>1
    <3>2. CASE x # o
      <4>1. PICK j \in On(s, x) : ~s[j].OP
        BY <3>2 DEF RequestsOK, DeadLeave
      <4> QED
        BY <1>3, <4>1
    <3> QED
      BY <3>1, <3>2
  <2> QED
    BY <2>1, <2>2 DEF DeadLeave
<1>10. ASSUME NEW x \in Objects
       PROVE  x \in RegSet(t, P) <=> x \in RegSet(s, P) \ {o}
  <2>1. CASE x = o
    <3>1. \A k \in On(t, o) : t[k].OP => k < n /\ k \in Nat
      BY <1>2, <1>3
    <3>2. n \in Nat
      BY <1>3
    <3>3. ASSUME NEW k \in On(t, o), t[k].OP PROVE ~(n <= k)
      <4>1. k < n /\ k \in Nat
        BY <3>1, <3>3
      <4> QED
        BY <3>2, <4>1
    <3> QED
      BY <1>3, <2>1, <3>3 DEF RegSet
  <2>2. CASE x # o
    <3>1. On(t, x) = On(s, x) /\ \A k \in On(s, x) : t[k] = s[k]
      BY <1>3, <2>2
    <3> QED
      BY <2>2, <3>1 DEF RegSet
  <2> QED
    BY <2>1, <2>2
<1>11. \A x : x \in RegSet(t, P) <=> x \in RegSet(s, P) /\ x # o
  BY <1>10 DEF RegSet
<1> QED
  BY <1>1, <1>3, <1>5, <1>6, <1>7, <1>8, <1>9, <1>11 DEF RequestsOK

(* An object with no request leaves its container.                         *)
LEMMA DropPlaced ==
    ASSUME NEW s, NEW P, NEW A, NEW o, RequestsOK(s, P, A), On(s, o) = {}
    PROVE  /\ RequestsOK(s, P \ {o}, A \ {o})
           /\ \A x : x \in RegSet(s, P \ {o}) <=> x \in RegSet(s, P) /\ x # o
<1>1. WrongKindIdle(s, P \ {o})
  BY DEF RequestsOK, WrongKindIdle
<1>2. LeaveFirst(s, P \ {o})
  BY DEF RequestsOK, LeaveFirst
<1>3. DeadLeave(s, P \ {o}, A \ {o})
  BY DEF RequestsOK, DeadLeave
<1>4. \A x : x \in RegSet(s, P \ {o}) <=> x \in RegSet(s, P) /\ x # o
  BY DEF RegSet
<1> QED
  BY <1>1, <1>2, <1>3, <1>4 DEF RequestsOK

(* More objects exist.                                                     *)
LEMMA MoreAlive ==
    ASSUME NEW s, NEW P, NEW A, NEW B, A \subseteq B, RequestsOK(s, P, A)
    PROVE  RequestsOK(s, P, B)
<1>1. DeadLeave(s, P, B)
  BY DEF RequestsOK, DeadLeave
<1> QED
  BY <1>1 DEF RequestsOK

-----------------------------------------------------------------------------
(* Containers.                                                             *)

AnyItem == [Object : Objects \cup {NULL}, time : Times]
ObjectItem == [Object : Objects, time : Times]

(* The objects in a sequence of items, and that each is there once.        *)
Ob(s)   == {s[k].Object : k \in DOMAIN s} \ {NULL}
Once(s) == \A j, k \in DOMAIN s :
               s[j].Object = s[k].Object /\ s[j].Object # NULL => j = k

LEMMA RemoveItem ==
    ASSUME NEW s \in Seq(AnyItem), Once(s), NEW k \in DOMAIN s
    PROVE  /\ RemoveAt(s, k) \in Seq(AnyItem) /\ Once(RemoveAt(s, k))
           /\ Ob(RemoveAt(s, k)) = Ob(s) \ {s[k].Object}
<1>0. PICK t : t = RemoveAt(s, k)
  OBVIOUS
<1>1. /\ DOMAIN s = 1 .. Len(s) /\ Len(s) \in Nat
      /\ t \in Seq(AnyItem) /\ DOMAIN t = 1 .. Len(s) - 1
      /\ \A j \in 1 .. Len(s) - 1 : t[j] = s[IF j < k THEN j ELSE j + 1]
  BY <1>0, RemoveAtProperties, LenProperties
<1> DEFINE f == [j \in DOMAIN t |-> IF j < k THEN j ELSE j + 1]
<1>2. /\ \A j \in DOMAIN t : f[j] \in DOMAIN s \ {k} /\ t[j] = s[f[j]]
      /\ \A j, l \in DOMAIN t : f[j] = f[l] => j = l
  BY <1>1
<1>3. ASSUME NEW m \in DOMAIN s \ {k} PROVE \E j \in DOMAIN t : f[j] = m
  <2>1. CASE m < k
    <3>1. m \in DOMAIN t /\ f[m] = m
      BY <1>1, <2>1
    <3> QED
      BY <3>1
  <2>2. CASE m > k
    <3>1. m - 1 \in DOMAIN t /\ f[m - 1] = m
      BY <1>1, <2>2
    <3> QED
      BY <3>1
  <2> QED
    BY <1>1, <2>1, <2>2
<1> HIDE DEF f
<1>4. Once(t)
  BY <1>2 DEF Once
<1>5. ASSUME NEW o \in Ob(t) PROVE o \in Ob(s) \ {s[k].Object}
  BY <1>2 DEF Ob, Once
<1>6. ASSUME NEW o \in Ob(s) \ {s[k].Object} PROVE o \in Ob(t)
  <2>1. PICK m \in DOMAIN s \ {k} : o = s[m].Object /\ o # NULL
    BY DEF Ob
  <2>2. PICK j \in DOMAIN t : f[j] = m
    BY <1>3
  <2> QED
    BY <1>2, <2>1, <2>2 DEF Ob
<1> QED
  BY <1>0, <1>1, <1>4, <1>5, <1>6

LEMMA ClearItem ==
    ASSUME NEW s \in Seq(AnyItem), Once(s), NEW k \in DOMAIN s,
           NEW t, t = [s EXCEPT ![k].Object = NULL]
    PROVE  t \in Seq(AnyItem) /\ Once(t) /\ Ob(t) = Ob(s) \ {s[k].Object}
<1>1. DOMAIN s = 1 .. Len(s) /\ \A j \in DOMAIN s : s[j] \in AnyItem
  BY LenProperties, ElementOfSeq
<1>2. /\ DOMAIN t = DOMAIN s
      /\ \A j \in DOMAIN s : t[j] = IF j = k THEN [s[k] EXCEPT !.Object = NULL] ELSE s[j]
  OBVIOUS
<1>3. [s[k] EXCEPT !.Object = NULL] \in AnyItem
  BY <1>1 DEF AnyItem
<1>4. t \in Seq(AnyItem)
  <2>1. t = [s EXCEPT ![k] = [s[k] EXCEPT !.Object = NULL]]
    OBVIOUS
  <2> QED
    BY <1>1, <1>3, <2>1, ExceptSeq
<1>5. t[k].Object = NULL /\ \A j \in DOMAIN s \ {k} : t[j].Object = s[j].Object
  BY <1>1, <1>2 DEF AnyItem
<1>6. Once(t)
  BY <1>2, <1>5 DEF Once
<1>7. Ob(t) = Ob(s) \ {s[k].Object}
  <2>1. \A o \in Ob(t) : o \in Ob(s) \ {s[k].Object}
    BY <1>2, <1>5 DEF Ob, Once
  <2>2. \A o \in Ob(s) \ {s[k].Object} : o \in Ob(t)
    BY <1>2, <1>5 DEF Ob
  <2> QED
    BY <2>1, <2>2
<1> QED
  BY <1>4, <1>6, <1>7

LEMMA AppendItem ==
    ASSUME NEW S, S \in SUBSET AnyItem, NEW s \in Seq(S), Once(s), NEW e \in S,
           e.Object \notin Ob(s) \cup {NULL}
    PROVE  /\ Append(s, e) \in Seq(S) /\ Once(Append(s, e))
           /\ Ob(Append(s, e)) = Ob(s) \cup {e.Object}
<1>0. PICK t, n : t = Append(s, e) /\ n = Len(s) + 1
  OBVIOUS
<1>1. /\ t \in Seq(S) /\ Len(t) = Len(s) + 1 /\ t[n] = e
      /\ \A k \in 1 .. Len(s) : t[k] = s[k]
  BY <1>0, AppendProperties
<1>2. /\ DOMAIN s = 1 .. Len(s) /\ Len(s) \in Nat /\ DOMAIN t = 1 .. Len(t)
  BY <1>1, LenProperties
<1>3. DOMAIN t = DOMAIN s \cup {n} /\ n \notin DOMAIN s
  BY <1>0, <1>1, <1>2
<1>4. \A k \in DOMAIN s : t[k] = s[k] /\ s[k].Object # e.Object
  BY <1>1, <1>2 DEF Ob
<1>5. Once(t)
  BY <1>1, <1>3, <1>4 DEF Once
<1>6. Ob(t) = Ob(s) \cup {e.Object}
  BY <1>1, <1>3, <1>4 DEF Ob
<1> QED
  BY <1>0, <1>1, <1>5, <1>6

LEMMA ConcatItems ==
    ASSUME NEW s \in Seq(AnyItem), NEW p \in Seq(AnyItem), Once(s), Once(p),
           Ob(s) \cap Ob(p) = {}
    PROVE  s \o p \in Seq(AnyItem) /\ Once(s \o p) /\ Ob(s \o p) = Ob(s) \cup Ob(p)
<1>0. PICK t, m, n : t = s \o p /\ m = Len(s) /\ n = Len(p)
  OBVIOUS
<1>1. /\ t \in Seq(AnyItem) /\ Len(t) = m + n
      /\ \A k \in 1 .. m + n : t[k] = IF k <= m THEN s[k] ELSE p[k - m]
  BY <1>0, ConcatProperties
<1>2. /\ DOMAIN s = 1 .. m /\ DOMAIN p = 1 .. n /\ DOMAIN t = 1 .. m + n
      /\ m \in Nat /\ n \in Nat
  BY <1>0, <1>1, LenProperties
<1>3. \A k \in DOMAIN t : \/ k \in DOMAIN s /\ t[k] = s[k]
                          \/ k > m /\ k - m \in DOMAIN p /\ t[k] = p[k - m]
  BY <1>1, <1>2
<1>4. /\ \A k \in DOMAIN s : k \in DOMAIN t /\ t[k] = s[k] /\ k <= m /\ k \in Nat
      /\ \A k \in DOMAIN p : k + m \in DOMAIN t /\ t[k + m] = p[k]
  BY <1>1, <1>2
<1>5. \A j \in DOMAIN s, k \in DOMAIN p :
          s[j].Object = p[k].Object => s[j].Object = NULL
  BY DEF Ob
<1>6. ASSUME NEW j \in DOMAIN t, NEW k \in DOMAIN t,
             t[j].Object = t[k].Object, t[j].Object # NULL
      PROVE  j = k
  <2>1. CASE j \in DOMAIN s /\ t[j] = s[j]
    <3>1. k \in DOMAIN s /\ t[k] = s[k]
      BY <1>3, <1>5, <1>6, <2>1
    <3> QED
      BY <1>6, <2>1, <3>1 DEF Once
  <2>2. CASE j > m /\ j - m \in DOMAIN p /\ t[j] = p[j - m]
    <3>1. k > m /\ k - m \in DOMAIN p /\ t[k] = p[k - m]
      BY <1>3, <1>5, <1>6, <2>2
    <3>2. j - m = k - m
      BY <1>6, <2>2, <3>1 DEF Once
    <3> QED
      BY <1>2, <3>2
  <2> QED
    BY <1>3, <2>1, <2>2
<1>7. Once(t)
  BY <1>6 DEF Once
<1>8. Ob(t) = Ob(s) \cup Ob(p)
  <2>1. \A o \in Ob(t) : o \in Ob(s) \cup Ob(p)
    BY <1>3 DEF Ob
  <2>2. \A o \in Ob(s) : o \in Ob(t)
    BY <1>4 DEF Ob
  <2>3. \A o \in Ob(p) : o \in Ob(t)
    BY <1>4 DEF Ob
  <2> QED
    BY <2>1, <2>2, <2>3
<1> QED
  BY <1>0, <1>1, <1>7, <1>8


-----------------------------------------------------------------------------
(* The inductive invariant.                                                *)

Cur    == {m_current_step_obj} \ {NULL}
Queued == Ob(Items) \cup ToSet(ItemsRT) \cup Cur
PlacedSet == Queued \cup Ob(ItemsProcessed)

(* Each object is in one container at most, the one of its kind.           *)
Containers ==
    /\ Once(Items) /\ Once(ItemsProcessed) /\ IsInjective(ItemsRT)
    /\ ToSet(ItemsRT) \subseteq RtObjects
    /\ (Ob(Items) \cup Ob(ItemsProcessed) \cup Cur) \cap RtObjects = {}
    /\ Ob(Items) \cap Ob(ItemsProcessed) = {}
    /\ Ob(Items) \cap Cur = {} /\ Ob(ItemsProcessed) \cap Cur = {}

Requests == RequestsOK(Registration, PlacedSet, alive)

(* The flag of an object says where it is, or will be, registered.         *)
Flags ==
    \A o \in Objects :
        \/ b_RT[o] <=> o \in RtObjects
        \/ o \notin PlacedSet /\ \A k \in On(Registration, o) : ~Registration[k].OP

(* While the loops run, the objects they may still call exist and no       *)
(* request on them is pending: those are on other objects.                 *)
Phase ==
    /\ m_processing_now =>
          \A o \in Queued : o \in alive /\ On(Registration, o) = {}
    /\ m_current_step_obj # NULL =>
          pc = "stepCall" /\ running = m_current_step_obj
    /\ ItemsProcessed # <<>> => pc \in {"step", "stepCall", "end"}

(* The loops have not called the objects that are ahead of them; the       *)
(* realtime loop has left out none of those behind it.                     *)
Passed(k) == ItemsRT[k] \in served \/ ItemsRT[k] \notin needed

Serving ==
    /\ pc = "begin" => served = {}
    /\ m_processing_now => Ob(Items) \cap served = {}
    /\ \A k \in DOMAIN ItemsRT :
          /\ pc = "rt" /\ k >= it     => ItemsRT[k] \notin served
          /\ pc = "rtCall" /\ k > it  => ItemsRT[k] \notin served
          /\ ~rtErased =>
                /\ pc = "rt" /\ k < it      => Passed(k)
                /\ pc = "rtCall" /\ k <= it => Passed(k)
                /\ pc \in {"step", "stepCall", "end"} => Passed(k)

IInv == TypeOK /\ Containers /\ Requests /\ Flags /\ Phase /\ Serving

-----------------------------------------------------------------------------
(* The steps that leave the containers and the requests alone.             *)

LEMMA StoreKept ==
    ASSUME IInv, UNCHANGED <<queues, m_current_step_obj, b_RT>>, alive \subseteq alive'
    PROVE  Containers' /\ Requests' /\ Flags' /\ Queued' = Queued
<1>1. /\ Items' = Items /\ ItemsRT' = ItemsRT /\ ItemsProcessed' = ItemsProcessed
      /\ Registration' = Registration
      /\ m_current_step_obj' = m_current_step_obj /\ b_RT' = b_RT
  BY DEF queues
<1>2. Queued' = Queued /\ PlacedSet' = PlacedSet /\ Cur' = Cur
  BY <1>1 DEF Queued, PlacedSet, Cur
<1>3. Containers'
  BY <1>1, <1>2 DEF IInv, Containers
<1>4. Requests'
  BY <1>1, <1>2, MoreAlive DEF IInv, Requests
<1>5. Flags'
  BY <1>1, <1>2 DEF IInv, Flags
<1> QED
  BY <1>2, <1>3, <1>4, <1>5

LEMMA BeginLoopIInv ==
    ASSUME IInv, BeginLoop
    PROVE  IInv'
<1>1. /\ pc = "begin" /\ pc' = "rt" /\ it' = 1 /\ Registration = <<>>
      /\ Items' = Items /\ ItemsRT' = ItemsRT /\ Registration' = Registration
      /\ ItemsProcessed' = ItemsProcessed
      /\ m_current_step_obj' = m_current_step_obj /\ served' = served /\ alive' = alive
  BY DEF BeginLoop, queues, game
<1>2. Containers' /\ Requests' /\ Flags' /\ Queued' = Queued
  BY StoreKept DEF BeginLoop, queues, game
<1>3. TypeOK'
  BY DEF IInv, BeginLoop, TypeOK, queues, game
<1>4. Phase'
  <2>1. \A o : On(Registration, o) = {}
    BY <1>1 DEF On
  <2>2. Queued \subseteq alive
    BY <2>1 DEF IInv, Requests, RequestsOK, DeadLeave, PlacedSet
  <2>3. m_current_step_obj = NULL /\ ItemsProcessed = <<>>
    BY <1>1 DEF IInv, Phase
  <2> QED
    BY <1>1, <1>2, <2>1, <2>2, <2>3 DEF Phase
<1>5. Serving'
  <2>1. served = {}
    BY <1>1 DEF IInv, Serving
  <2>2. DOMAIN ItemsRT \subseteq Nat \ {0}
    BY LenProperties DEF IInv, TypeOK
  <2> QED
    BY <1>1, <2>1, <2>2 DEF Serving
<1> QED
  BY <1>2, <1>3, <1>4, <1>5 DEF IInv

LEMMA RtSkipIInv ==
    ASSUME IInv, RtSkip
    PROVE  IInv'
<1>1. /\ pc = "rt" /\ pc' = "rt" /\ it' = it + 1 /\ ItemsRT[it] \notin needed
      /\ Items' = Items /\ ItemsRT' = ItemsRT /\ Registration' = Registration
      /\ ItemsProcessed' = ItemsProcessed /\ running' = running
      /\ m_current_step_obj' = m_current_step_obj /\ served' = served /\ alive' = alive
      /\ rtErased' = rtErased /\ needed' = needed
  BY DEF RtSkip, queues, game
<1>2. Containers' /\ Requests' /\ Flags' /\ Queued' = Queued
  BY StoreKept DEF RtSkip, queues, game
<1>3. TypeOK'
  BY DEF IInv, RtSkip, TypeOK, queues, game
<1>4. Phase'
  BY <1>1, <1>2 DEF IInv, Phase, m_processing_now
<1>5. Serving'
  <2>1. it \in Nat \ {0} /\ \A k \in DOMAIN ItemsRT : k \in Nat
    BY LenProperties DEF IInv, TypeOK
  <2>2. \A k \in DOMAIN ItemsRT :
            /\ k >= it + 1 => k >= it
            /\ k < it + 1 => k < it \/ k = it
    BY <2>1
  <2> QED
    BY <1>1, <2>2 DEF IInv, Serving, Passed, m_processing_now
<1> QED
  BY <1>2, <1>3, <1>4, <1>5 DEF IInv

LEMMA RtCallIInv ==
    ASSUME IInv, RtCall
    PROVE  IInv'
<1>1. /\ pc = "rt" /\ pc' = "rtCall" /\ it' = it /\ running' = ItemsRT[it]
      /\ served' = served \cup {ItemsRT[it]}
      /\ Items' = Items /\ ItemsRT' = ItemsRT /\ Registration' = Registration
      /\ ItemsProcessed' = ItemsProcessed
      /\ m_current_step_obj' = m_current_step_obj /\ alive' = alive
      /\ rtErased' = rtErased /\ needed' = needed
  BY DEF RtCall, queues, game
<1>2. Containers' /\ Requests' /\ Flags' /\ Queued' = Queued
  BY StoreKept DEF RtCall, queues, game
<1>3. /\ it \in Nat \ {0} /\ it \in DOMAIN ItemsRT /\ ItemsRT[it] \in Objects
      /\ \A k \in DOMAIN ItemsRT : k \in Nat
  BY LenProperties, ElementOfSeq DEF IInv, TypeOK, RtCall
<1>4. TypeOK'
  BY <1>1, <1>3 DEF IInv, RtCall, TypeOK, queues, game
<1>5. Phase'
  BY <1>1, <1>2 DEF IInv, Phase, m_processing_now
<1>6. Serving'
  <2>1. Ob(Items) \cap served' = {}
    BY <1>1, <1>3 DEF IInv, Serving, Containers, ToSet, m_processing_now
  <2>2. ASSUME NEW k \in DOMAIN ItemsRT, k > it
        PROVE  ItemsRT[k] \notin served'
    <3>1. ItemsRT[k] # ItemsRT[it] /\ k >= it
      BY <1>3, <2>2 DEF IInv, Containers, IsInjective
    <3> QED
      BY <1>1, <3>1 DEF IInv, Serving
  <2>3. ASSUME NEW k \in DOMAIN ItemsRT, k <= it, ~rtErased
        PROVE  Passed(k)'
    <3>1. k < it \/ k = it
      BY <1>3, <2>3
    <3> QED
      BY <1>1, <2>3, <3>1 DEF IInv, Serving, Passed
  <2> QED
    BY <1>1, <2>1, <2>2, <2>3 DEF Serving
<1> QED
  BY <1>2, <1>4, <1>5, <1>6 DEF IInv

LEMMA RtReturnIInv ==
    ASSUME IInv, RtReturn
    PROVE  IInv'
<1>1. /\ pc = "rtCall" /\ pc' = "rt" /\ it' = it + 1 /\ running' = NULL
      /\ Items' = Items /\ ItemsRT' = ItemsRT /\ Registration' = Registration
      /\ ItemsProcessed' = ItemsProcessed
      /\ m_current_step_obj' = m_current_step_obj /\ served' = served /\ alive' = alive
      /\ rtErased' = rtErased /\ needed' = needed
  BY DEF RtReturn, queues, game
<1>2. Containers' /\ Requests' /\ Flags' /\ Queued' = Queued
  BY StoreKept DEF RtReturn, queues, game
<1>3. TypeOK'
  BY DEF IInv, RtReturn, TypeOK, queues, game
<1>4. Phase'
  BY <1>1, <1>2 DEF IInv, Phase, m_processing_now
<1>5. Serving'
  <2>1. it \in Nat \ {0} /\ \A k \in DOMAIN ItemsRT : k \in Nat
    BY LenProperties DEF IInv, TypeOK
  <2>2. \A k \in DOMAIN ItemsRT :
            /\ k >= it + 1 => k > it
            /\ k < it + 1 => k <= it
    BY <2>1
  <2> QED
    BY <1>1, <2>2 DEF IInv, Serving, Passed, m_processing_now
<1> QED
  BY <1>2, <1>3, <1>4, <1>5 DEF IInv

LEMMA RtDoneIInv ==
    ASSUME IInv, RtDone
    PROVE  IInv'
<1>1. /\ pc = "rt" /\ pc' = "step" /\ it > Len(ItemsRT) /\ it' = it
      /\ Items' = Items /\ ItemsRT' = ItemsRT /\ Registration' = Registration
      /\ ItemsProcessed' = ItemsProcessed
      /\ m_current_step_obj' = m_current_step_obj /\ served' = served /\ alive' = alive
      /\ rtErased' = rtErased /\ needed' = needed /\ running' = running
  BY DEF RtDone, queues, game
<1>2. Containers' /\ Requests' /\ Flags' /\ Queued' = Queued
  BY StoreKept DEF RtDone, queues, game
<1>3. TypeOK'
  BY DEF IInv, RtDone, TypeOK, queues, game
<1>4. Phase'
  BY <1>1, <1>2 DEF IInv, Phase, m_processing_now
<1>5. Serving'
  <2>1. it \in Nat \ {0} /\ \A k \in DOMAIN ItemsRT : k < it
    BY <1>1, LenProperties DEF IInv, TypeOK
  <2> QED
    BY <1>1, <2>1 DEF IInv, Serving, Passed, m_processing_now
<1> QED
  BY <1>2, <1>3, <1>4, <1>5 DEF IInv

LEMMA StepReturnSelfIInv ==
    ASSUME IInv, StepReturnSelf
    PROVE  IInv'
<1>1. /\ pc = "stepCall" /\ pc' = "step" /\ it' = it /\ running' = NULL
      /\ m_current_step_obj = NULL
      /\ Items' = Items /\ ItemsRT' = ItemsRT /\ Registration' = Registration
      /\ ItemsProcessed' = ItemsProcessed
      /\ m_current_step_obj' = m_current_step_obj /\ served' = served /\ alive' = alive
      /\ rtErased' = rtErased /\ needed' = needed
  BY DEF StepReturnSelf, queues, game
<1>2. Containers' /\ Requests' /\ Flags' /\ Queued' = Queued
  BY StoreKept DEF StepReturnSelf, queues, game
<1>3. TypeOK'
  <2>1. (i + 1) % 3 \in 0 .. 2
    BY DEF IInv, TypeOK
  <2> QED
    BY <2>1 DEF IInv, StepReturnSelf, TypeOK, queues, game, NextI
<1>4. Phase'
  BY <1>1, <1>2 DEF IInv, Phase, m_processing_now
<1>5. Serving'
  BY <1>1 DEF IInv, Serving, Passed, m_processing_now
<1> QED
  BY <1>2, <1>3, <1>4, <1>5 DEF IInv

LEMMA UpdateDoneIInv ==
    ASSUME IInv, UpdateDone
    PROVE  IInv'
<1>1. /\ pc = "final" /\ pc' = "idle"
      /\ ItemsProcessed' = ItemsProcessed
      /\ m_current_step_obj' = m_current_step_obj
  BY DEF UpdateDone, queues, game
<1>2. Containers' /\ Requests' /\ Flags' /\ Queued' = Queued
  BY StoreKept DEF UpdateDone, queues, game
<1>3. TypeOK'
  BY DEF IInv, UpdateDone, TypeOK, queues, game
<1>4. Phase'
  BY <1>1 DEF IInv, Phase, m_processing_now
<1>5. Serving'
  BY <1>1 DEF Serving, m_processing_now
<1> QED
  BY <1>2, <1>3, <1>4, <1>5 DEF IInv

LEMMA SetDestroyIInv ==
    ASSUME IInv, NEW o \in Objects, SetDestroy(o)
    PROVE  IInv'
<1>1. /\ pc' = pc /\ it' = it /\ running' = running /\ needed' = needed \ {o}
      /\ Items' = Items /\ ItemsRT' = ItemsRT /\ Registration' = Registration
      /\ ItemsProcessed' = ItemsProcessed
      /\ m_current_step_obj' = m_current_step_obj /\ served' = served /\ alive' = alive
      /\ rtErased' = rtErased
  BY DEF SetDestroy, queues, step
<1>2. Containers' /\ Requests' /\ Flags' /\ Queued' = Queued
  BY StoreKept DEF SetDestroy, queues, step
<1>3. TypeOK'
  BY BoundsAssumption DEF IInv, SetDestroy, GameRuns, TypeOK, queues, step
<1>4. Phase'
  BY <1>1, <1>2 DEF IInv, Phase, m_processing_now
<1>5. Serving'
  BY <1>1 DEF IInv, Serving, Passed, m_processing_now
<1> QED
  BY <1>2, <1>3, <1>4, <1>5 DEF IInv

(* A new object is in no container that a loop still has to go through.    *)
LEMMA CreateIInv ==
    ASSUME IInv, NEW o \in Objects, Create(o)
    PROVE  IInv'
<1>1. /\ pc' = pc /\ it' = it /\ running' = running
      /\ o \notin alive /\ alive' = alive \cup {o} /\ needed' = needed \cup {o}
      /\ Items' = Items /\ ItemsRT' = ItemsRT /\ Registration' = Registration
      /\ ItemsProcessed' = ItemsProcessed
      /\ m_current_step_obj' = m_current_step_obj /\ served' = served
      /\ rtErased' = rtErased
  BY DEF Create, queues, step
<1>2. Containers' /\ Requests' /\ Flags' /\ Queued' = Queued
  BY <1>1, StoreKept DEF Create, queues, step
<1>3. TypeOK'
  BY <1>1 DEF IInv, Create, TypeOK, queues, step
<1>4. Phase'
  BY <1>1, <1>2 DEF IInv, Phase, m_processing_now
<1>5. Serving'
  <2>1. m_processing_now => \A k \in DOMAIN ItemsRT : ItemsRT[k] # o
    BY <1>1 DEF IInv, Phase, Queued, ToSet
  <2> QED
    BY <1>1, <2>1 DEF IInv, Serving, Passed, m_processing_now
<1> QED
  BY <1>2, <1>3, <1>4, <1>5 DEF IInv

-----------------------------------------------------------------------------
(* The steps that move items.                                              *)

RegNow == RegSet(Registration, PlacedSet)

(* The types of the parts, in the form the lemmas above need.              *)
LEMMA Typed ==
    ASSUME IInv
    PROVE  /\ Items \in Seq(AnyItem) /\ ItemsRT \in Seq(Objects)
           /\ ItemsProcessed \in Seq(ObjectItem) /\ ItemsProcessed \in Seq(AnyItem)
           /\ Registration \in Seq(Request)
           /\ PlacedSet \subseteq Objects /\ NULL \notin Objects
           /\ \A k \in DOMAIN Items : Items[k] \in AnyItem
           /\ \A k \in DOMAIN Registration : Registration[k] \in Request
           /\ \A k \in DOMAIN ItemsRT : ItemsRT[k] \in Objects /\ k \in Nat
<1>1. /\ Items \in Seq(AnyItem) /\ ItemsRT \in Seq(Objects)
      /\ ItemsProcessed \in Seq(ObjectItem) /\ Registration \in Seq(Request)
  BY DEF IInv, TypeOK, AnyItem, ObjectItem
<1>2. ItemsProcessed \in Seq(AnyItem)
  <2>1. ObjectItem \subseteq AnyItem
    BY DEF ObjectItem, AnyItem
  <2> QED
    BY <1>1, <2>1, SeqMonotonic
<1>3. PlacedSet \subseteq Objects
  BY DEF IInv, Requests, RequestsOK
<1>4. /\ \A k \in DOMAIN Items : Items[k] \in AnyItem
      /\ \A k \in DOMAIN Registration : Registration[k] \in Request
      /\ \A k \in DOMAIN ItemsRT : ItemsRT[k] \in Objects /\ k \in Nat
  BY <1>1, LenProperties, ElementOfSeq
<1> QED
  BY <1>1, <1>2, <1>3, <1>4, ObjectsAssumption

LEMMA BeginUpdateIInv ==
    ASSUME IInv, NEW d \in FrameTimes, BeginUpdate(d)
    PROVE  IInv' /\ RegNow' = RegNow /\ served' = {}
<1>1. /\ pc = "idle" /\ pc' = "begin" /\ served' = {}
      /\ Items' = [k \in DOMAIN Items |-> [Items[k] EXCEPT !.time = Later(@, d)]]
      /\ ItemsRT' = ItemsRT /\ ItemsProcessed' = ItemsProcessed
      /\ Registration' = Registration /\ m_current_step_obj' = m_current_step_obj
      /\ b_RT' = b_RT /\ alive' = alive
  BY DEF BeginUpdate, game
<1>2. \A t \in Times : Later(t, d) \in Times
  BY FrameTimesAssumption, BoundsAssumption, IntervalsAssumption DEF Times, Later
<1>3. \A k \in DOMAIN Items : Items'[k] \in AnyItem /\ Items'[k].Object = Items[k].Object
  BY <1>1, <1>2, Typed DEF AnyItem
<1>4. DOMAIN Items' = DOMAIN Items
  BY <1>1
<1>5. Items' \in Seq(AnyItem)
  <2>1. DOMAIN Items = 1 .. Len(Items) /\ Len(Items) \in Nat
    BY Typed, LenProperties
  <2>2. Items' \in [1 .. Len(Items) -> AnyItem]
    BY <1>1, <1>3, <2>1
  <2> QED
    BY <2>1, <2>2, SeqDef
<1>6. Ob(Items') = Ob(Items)
  BY <1>3, <1>4 DEF Ob
<1>7. PlacedSet' = PlacedSet /\ Cur' = Cur
  BY <1>1, <1>6 DEF PlacedSet, Queued, Cur
<1>8. TypeOK'
  <2>1. Items' \in Seq([Object : Objects \cup {NULL}, time : Times])
    BY <1>5 DEF AnyItem
  <2> QED
    BY <1>1, <2>1 DEF IInv, BeginUpdate, TypeOK, game
<1>9. Containers'
  <2>1. Once(Items')
    BY <1>3, <1>4 DEF IInv, Containers, Once
  <2> QED
    BY <1>1, <1>6, <1>7, <2>1 DEF IInv, Containers
<1>10. Requests' /\ Flags' /\ RegNow' = RegNow
  BY <1>1, <1>7 DEF IInv, Requests, Flags, RegNow
<1>11. Phase' /\ Serving'
  BY <1>1 DEF IInv, Phase, Serving, m_processing_now
<1> QED
  BY <1>1, <1>8, <1>9, <1>10, <1>11 DEF IInv

(* The object of an item that is dropped leaves; a NULL item leaves        *)
(* nothing behind.                                                         *)
LEMMA StepDropIInv ==
    ASSUME IInv, NEW k \in Top, StepDrop(k)
    PROVE  /\ IInv' /\ served' = served
           /\ Items[k].Object = NULL => RegNow' = RegNow
           /\ Items[k].Object # NULL => /\ Items[k].Object \in RegNow
                                        /\ RegNow' = RegNow \ {Items[k].Object}
<1>1. /\ pc = "step" /\ pc' = "step" /\ it' = it /\ running' = running
      /\ Items' = RemoveAt(Items, k)
      /\ ItemsRT' = ItemsRT /\ ItemsProcessed' = ItemsProcessed
      /\ Registration' = Registration /\ m_current_step_obj' = m_current_step_obj
      /\ b_RT' = b_RT /\ alive' = alive /\ needed' = needed /\ served' = served
      /\ rtErased' = rtErased
  BY DEF StepDrop, game
<1>2. k \in DOMAIN Items
  BY DEF Top
<1>3. PICK o : o = Items[k].Object
  OBVIOUS
<1>4. Items' \in Seq(AnyItem) /\ Once(Items') /\ Ob(Items') = Ob(Items) \ {o}
  BY <1>1, <1>2, <1>3, RemoveItem, Typed DEF IInv, Containers
<1>5. o = NULL \/ o \in Ob(Items)
  BY <1>2, <1>3 DEF Ob
<1>6. Queued' = Queued \ {o} /\ PlacedSet' = PlacedSet \ {o} /\ Cur' = Cur
  <2>1. o \notin ToSet(ItemsRT) /\ o \notin Cur /\ o \notin Ob(ItemsProcessed)
    <3>1. CASE o = NULL
      BY <3>1, Typed DEF ToSet, Cur, Ob
    <3>2. CASE o \in Ob(Items)
      BY <3>2 DEF IInv, Containers
    <3> QED
      BY <1>5, <3>1, <3>2
  <2> QED
    BY <1>1, <1>4, <2>1 DEF PlacedSet, Queued, Cur
<1>7. /\ RequestsOK(Registration, PlacedSet \ {o}, alive)
      /\ RegSet(Registration, PlacedSet \ {o}) = RegSet(Registration, PlacedSet) \ {o}
      /\ o # NULL => o \in RegNow
  <2>1. On(Registration, o) = {}
    <3>1. CASE o = NULL
      <4>1. \A j \in DOMAIN Registration : Registration[j].Object \in Objects
        BY Typed DEF Request
      <4> QED
        BY <3>1, <4>1, Typed DEF On
    <3>2. CASE o \in Ob(Items)
      BY <1>1, <3>2 DEF IInv, Phase, m_processing_now, Queued
    <3> QED
      BY <1>5, <3>1, <3>2
  <2>2. o # NULL => o \in PlacedSet /\ o \in Objects
    BY <1>5, Typed DEF PlacedSet, Queued
  <2>3. RequestsOK(Registration, PlacedSet, alive)
    BY DEF IInv, Requests
  <2>4. /\ RequestsOK(Registration, PlacedSet \ {o}, alive \ {o})
        /\ RegSet(Registration, PlacedSet \ {o}) = RegSet(Registration, PlacedSet) \ {o}
    BY <2>1, <2>3, DropPlaced
  <2>5. RequestsOK(Registration, PlacedSet \ {o}, alive)
    BY <2>4, MoreAlive
  <2>6. o # NULL => o \in RegNow
    BY <2>1, <2>2 DEF RegNow, RegSet
  <2> QED
    BY <2>4, <2>5, <2>6
<1>8. TypeOK'
  <2>1. (i + 1) % 3 \in 0 .. 2
    BY DEF IInv, TypeOK
  <2>2. Items' \in Seq([Object : Objects \cup {NULL}, time : Times])
    BY <1>4 DEF AnyItem
  <2> QED
    BY <1>1, <2>1, <2>2 DEF IInv, StepDrop, TypeOK, game, NextI
<1>9. Containers'
  BY <1>1, <1>4, <1>6 DEF IInv, Containers
<1>10. Requests'
  BY <1>1, <1>6, <1>7 DEF Requests
<1>11. Flags'
  BY <1>1, <1>6 DEF IInv, Flags
<1>12. Phase'
  BY <1>1, <1>6 DEF IInv, Phase, m_processing_now
<1>13. Serving'
  BY <1>1, <1>4 DEF IInv, Serving, Passed, m_processing_now
<1>14. RegNow' = RegNow \ {o}
  BY <1>1, <1>6, <1>7 DEF RegNow
<1>15. o = NULL => RegNow' = RegNow
  <2>1. NULL \notin RegNow
    BY Typed DEF RegNow, RegSet
  <2> QED
    BY <1>14, <2>1
<1> QED
  BY <1>1, <1>3, <1>7, <1>8, <1>9, <1>10, <1>11, <1>12, <1>13, <1>14, <1>15 DEF IInv

LEMMA StepCallIInv ==
    ASSUME IInv, NEW k \in Top, StepCall(k)
    PROVE  /\ IInv' /\ RegNow' = RegNow
           /\ Items[k].Object \in RegNow \ served
           /\ served' = served \cup {Items[k].Object}
<1>3. PICK o : o = Items[k].Object
  OBVIOUS
<1>1. /\ pc = "step" /\ pc' = "stepCall" /\ it' = it /\ running' = o
      /\ Items' = RemoveAt(Items, k)
      /\ ItemsRT' = ItemsRT /\ ItemsProcessed' = ItemsProcessed
      /\ Registration' = Registration /\ m_current_step_obj' = o
      /\ b_RT' = b_RT /\ alive' = alive /\ needed' = needed
      /\ served' = served \cup {o}
      /\ rtErased' = rtErased /\ o \in needed
  BY <1>3 DEF StepCall, game
<1>2. k \in DOMAIN Items /\ o \in Objects /\ o # NULL
  BY <1>1, ObjectsAssumption DEF Top, IInv, TypeOK
<1>4. Items' \in Seq(AnyItem) /\ Once(Items') /\ Ob(Items') = Ob(Items) \ {o}
  BY <1>1, <1>2, <1>3, RemoveItem, Typed DEF IInv, Containers
<1>5. o \in Ob(Items) /\ m_current_step_obj = NULL /\ Cur = {} /\ Cur' = {o}
  BY <1>1, <1>2, <1>3 DEF Ob, IInv, Phase, Cur
<1>6. Queued' = Queued /\ PlacedSet' = PlacedSet
  BY <1>1, <1>4, <1>5 DEF PlacedSet, Queued
<1>7. o \in RegNow \ served
  <2>1. On(Registration, o) = {} /\ o \in PlacedSet
    BY <1>1, <1>5 DEF IInv, Phase, m_processing_now, Queued, PlacedSet
  <2>2. o \notin served
    BY <1>1, <1>5 DEF IInv, Serving, m_processing_now
  <2> QED
    BY <1>2, <2>1, <2>2 DEF RegNow, RegSet
<1>8. TypeOK'
  <2>1. Items' \in Seq([Object : Objects \cup {NULL}, time : Times])
    BY <1>4 DEF AnyItem
  <2> QED
    BY <1>1, <1>2, <2>1 DEF IInv, StepCall, TypeOK, game
<1>9. Containers'
  BY <1>1, <1>4, <1>5 DEF IInv, Containers
<1>10. Requests' /\ Flags' /\ RegNow' = RegNow
  BY <1>1, <1>6 DEF IInv, Requests, Flags, RegNow
<1>11. Phase'
  BY <1>1, <1>6 DEF IInv, Phase, m_processing_now
<1>12. Serving'
  BY <1>1, <1>4 DEF IInv, Serving, Passed, m_processing_now
<1> QED
  BY <1>1, <1>3, <1>7, <1>8, <1>9, <1>10, <1>11, <1>12 DEF IInv

LEMMA StepReturnIInv ==
    ASSUME IInv, NEW dwUpdate \in Intervals, StepReturn(dwUpdate)
    PROVE  IInv' /\ RegNow' = RegNow /\ served' = served
<1>1. /\ pc = "stepCall" /\ pc' \in {"step", "end"} /\ it' = it /\ running' = NULL
      /\ ItemsProcessed' = Append(ItemsProcessed, Item(running, dwUpdate))
      /\ Items' = Items /\ ItemsRT' = ItemsRT
      /\ Registration' = Registration /\ m_current_step_obj' = NULL
      /\ m_current_step_obj # NULL
      /\ b_RT' = b_RT /\ alive' = alive /\ needed' = needed /\ served' = served
      /\ rtErased' = rtErased
  BY DEF StepReturn, game
<1>2. /\ running = m_current_step_obj /\ running \in Objects
      /\ Cur = {running} /\ Cur' = {} /\ running # NULL
  BY <1>1 DEF IInv, Phase, TypeOK, Cur
<1>3. Item(running, dwUpdate) \in ObjectItem /\ Item(running, dwUpdate).Object = running
  <2>1. dwUpdate \in Times
    BY IntervalsAssumption, BoundsAssumption DEF Times
  <2> QED
    BY <1>2, <2>1 DEF Item, ObjectItem
<1>4. /\ ItemsProcessed' \in Seq(ObjectItem) /\ Once(ItemsProcessed')
      /\ Ob(ItemsProcessed') = Ob(ItemsProcessed) \cup {running}
  <2>1. running \notin Ob(ItemsProcessed)
    BY <1>2 DEF IInv, Containers
  <2>2. ObjectItem \in SUBSET AnyItem
    BY DEF ObjectItem, AnyItem
  <2>3. PICK e : e = Item(running, dwUpdate)
    OBVIOUS
  <2>4. e \in ObjectItem /\ e.Object = running
    BY <1>3, <2>3
  <2>5. /\ Append(ItemsProcessed, e) \in Seq(ObjectItem) /\ Once(Append(ItemsProcessed, e))
        /\ Ob(Append(ItemsProcessed, e)) = Ob(ItemsProcessed) \cup {e.Object}
    BY <1>2, <2>1, <2>2, <2>4, AppendItem, Typed DEF IInv, Containers
  <2> QED
    BY <1>1, <2>3, <2>4, <2>5
<1>5. Queued' \subseteq Queued /\ PlacedSet' = PlacedSet
  BY <1>1, <1>2, <1>4 DEF PlacedSet, Queued
<1>6. TypeOK'
  <2>1. (i + 1) % 3 \in 0 .. 2
    BY DEF IInv, TypeOK
  <2>2. ItemsProcessed' \in Seq([Object : Objects, time : Times])
    BY <1>4 DEF ObjectItem
  <2> QED
    BY <1>1, <2>1, <2>2 DEF IInv, StepReturn, TypeOK, game, NextI
<1>7. Containers'
  BY <1>1, <1>2, <1>4 DEF IInv, Containers
<1>8. Requests' /\ Flags' /\ RegNow' = RegNow
  BY <1>1, <1>5 DEF IInv, Requests, Flags, RegNow
<1>9. Phase'
  BY <1>1, <1>5 DEF IInv, Phase, m_processing_now
<1>10. Serving'
  BY <1>1 DEF IInv, Serving, Passed, m_processing_now
<1> QED
  BY <1>1, <1>6, <1>7, <1>8, <1>9, <1>10 DEF IInv

LEMMA EndUpdateIInv ==
    ASSUME IInv, EndUpdate
    PROVE  IInv' /\ RegNow' = RegNow /\ served' = served
<1>1. /\ pc \in {"step", "end"} /\ pc' = "final"
      /\ Items' = Items \o ItemsProcessed /\ ItemsProcessed' = <<>>
      /\ ItemsRT' = ItemsRT
      /\ Registration' = Registration /\ m_current_step_obj' = m_current_step_obj
      /\ b_RT' = b_RT /\ alive' = alive /\ needed' = needed /\ served' = served
  BY DEF EndUpdate, game
<1>2. m_current_step_obj = NULL /\ Cur = {} /\ Cur' = {}
  BY <1>1 DEF IInv, Phase, Cur
<1>3. /\ Items' \in Seq(AnyItem) /\ Once(Items')
      /\ Ob(Items') = Ob(Items) \cup Ob(ItemsProcessed)
  BY <1>1, ConcatItems, Typed DEF IInv, Containers
<1>4. Ob(ItemsProcessed') = {} /\ Once(ItemsProcessed')
  BY <1>1 DEF Ob, Once
<1>5. PlacedSet' = PlacedSet
  BY <1>1, <1>2, <1>3, <1>4 DEF PlacedSet, Queued
<1>6. TypeOK'
  <2>1. /\ Items' \in Seq([Object : Objects \cup {NULL}, time : Times])
        /\ ItemsProcessed' \in Seq([Object : Objects, time : Times])
    BY <1>1, <1>3 DEF AnyItem
  <2> QED
    BY <1>1, <2>1 DEF IInv, EndUpdate, TypeOK, game
<1>7. Containers'
  BY <1>1, <1>2, <1>3, <1>4 DEF IInv, Containers
<1>8. Requests' /\ Flags' /\ RegNow' = RegNow
  BY <1>1, <1>5 DEF IInv, Requests, Flags, RegNow
<1>9. Phase' /\ Serving'
  BY <1>1, <1>2 DEF Phase, Serving, m_processing_now
<1> QED
  BY <1>1, <1>6, <1>7, <1>8, <1>9 DEF IInv

-----------------------------------------------------------------------------
(* The steps that apply a request.                                         *)

(* What stays as it is when a request is applied.                          *)
LEMMA ApplyingKeeps ==
    ASSUME IInv, Applying
    PROVE  /\ pc \in {"begin", "final"} /\ Registration # <<>>
           /\ pc' = pc /\ it' = it /\ i' = i /\ running' = running
           /\ ItemsProcessed' = ItemsProcessed /\ alive' = alive
           /\ needed' = needed /\ ops' = ops /\ served' = served
           /\ rtErased' = rtErased
           /\ m_current_step_obj = NULL /\ Cur = {} /\ ItemsProcessed = <<>>
           /\ Ob(ItemsProcessed) = {}
           /\ Head(Registration) = Registration[1]
           /\ 1 \in On(Registration, Head(Registration).Object)
           /\ Head(Registration) \in Request
<1>1. /\ pc \in {"begin", "final"} /\ Registration # <<>>
      /\ pc' = pc /\ it' = it /\ i' = i /\ running' = running
      /\ ItemsProcessed' = ItemsProcessed /\ alive' = alive
      /\ needed' = needed /\ ops' = ops /\ served' = served
      /\ rtErased' = rtErased
  BY DEF Applying, game
<1>2. m_current_step_obj = NULL /\ Cur = {} /\ ItemsProcessed = <<>>
  BY <1>1 DEF IInv, Phase, Cur
<1>3. Ob(ItemsProcessed) = {}
  BY <1>2 DEF Ob
<1>4. Head(Registration) = Registration[1] /\ 1 \in DOMAIN Registration
  <2>1. Len(Registration) \in Nat \ {0} /\ Head(Registration) = Registration[1]
    BY <1>1, TailProperties, Typed
  <2>2. DOMAIN Registration = 1 .. Len(Registration)
    BY Typed, LenProperties
  <2> QED
    BY <2>1, <2>2
<1>5. Head(Registration) \in Request
  BY <1>4, Typed
<1> QED
  BY <1>1, <1>2, <1>3, <1>4, <1>5 DEF On

LEMMA ApplyPairIInv ==
    ASSUME IInv, ApplyPair
    PROVE  IInv' /\ RegNow' = RegNow /\ served' = served
<1>1. /\ Applying /\ Head(Registration).OP
      /\ Items' = Items /\ ItemsRT' = ItemsRT
      /\ m_current_step_obj' = m_current_step_obj /\ b_RT' = b_RT
  BY DEF ApplyPair
<1>2. PICK k \in First(Paired) : Registration' = Tail(RemoveAt(Registration, k))
  BY DEF ApplyPair
<1>3. PICK o : o = Head(Registration).Object
  OBVIOUS
<1>4. /\ k \in On(Registration, o) /\ k > 1 /\ ~Registration[k].OP
      /\ \A j \in On(Registration, o) : j > 1 /\ ~Registration[j].OP => k <= j
  BY <1>3 DEF First, Paired, Pending, On
<1>5. PICK f : Rest(Registration', Registration, f, {1, k})
  <2>1. k \in DOMAIN Registration
    BY <1>4 DEF On
  <2> QED
    BY <1>2, <1>4, <2>1, PairRest, Typed
<1>6. 1 \in On(Registration, o) /\ Registration[1].OP
  BY <1>1, <1>3, ApplyingKeeps
<1>7. /\ RequestsOK(Registration', PlacedSet, alive)
      /\ RegSet(Registration', PlacedSet) = RegNow
  BY <1>4, <1>5, <1>6, PairKeeps DEF IInv, Requests, RegNow
<1>8. PlacedSet' = PlacedSet /\ Cur' = Cur
  BY <1>1, ApplyingKeeps DEF PlacedSet, Queued, Cur
<1>9. TypeOK'
  <2>1. Registration' \in Seq(Request)
    BY <1>5 DEF Rest
  <2> QED
    BY <1>1, <2>1, ApplyingKeeps DEF IInv, TypeOK
<1>10. Containers'
  BY <1>1, <1>8, ApplyingKeeps DEF IInv, Containers
<1>11. Requests' /\ RegNow' = RegNow
  BY <1>1, <1>7, <1>8, ApplyingKeeps DEF Requests, RegNow
<1>12. Flags'
  <2>1. ASSUME NEW x \in Objects, \A j \in On(Registration, x) : ~Registration[j].OP
        PROVE  \A j \in On(Registration', x) : ~Registration'[j].OP
    <3>1. \A j \in On(Registration', x) : f[j] \in On(Registration, x)
      BY <1>5, OnRest
    <3>2. \A j \in On(Registration', x) : Registration'[j] = Registration[f[j]]
      BY <1>5 DEF Rest, On
    <3> QED
      BY <2>1, <3>1, <3>2
  <2> QED
    BY <1>1, <1>8, <2>1 DEF IInv, Flags
<1>13. Phase' /\ Serving'
  BY <1>1, ApplyingKeeps DEF IInv, Phase, Serving, m_processing_now
<1> QED
  BY <1>1, <1>9, <1>10, <1>11, <1>12, <1>13, ApplyingKeeps DEF IInv

LEMMA ApplyRegisterIInv ==
    ASSUME IInv, ApplyRegister
    PROVE  /\ IInv' /\ RegNow' = RegNow /\ served' = served
           /\ Head(Registration).Object \in alive
<1> DEFINE R == Head(Registration)
<1>1. /\ Applying /\ R.OP /\ Paired = {}
      /\ Registration' = Tail(Registration)
      /\ b_RT' = [b_RT EXCEPT ![R.Object] = R.RT]
      /\ IF R.RT
         THEN ItemsRT' = Append(ItemsRT, R.Object) /\ Items' = Items
         ELSE Items' = Append(Items, Item(R.Object, 0)) /\ ItemsRT' = ItemsRT
      /\ m_current_step_obj' = m_current_step_obj
  BY DEF ApplyRegister
<1>2. PICK o : o = R.Object
  OBVIOUS
<1>3. 1 \in On(Registration, o) /\ Registration[1] = R /\ Registration[1].OP
  BY <1>1, <1>2, ApplyingKeeps
<1>4. \A j \in On(Registration, o) : j > 1 => Registration[j].OP
  BY <1>1, <1>2 DEF Paired, Pending, On
<1>5. PICK f : Rest(Registration', Registration, f, {1})
  BY <1>1, TailRest, ApplyingKeeps, Typed
<1>6. /\ RequestsOK(Registration', PlacedSet \cup {o}, alive)
      /\ RegSet(Registration', PlacedSet \cup {o}) = RegNow
      /\ o \in Objects \cap alive /\ o \notin PlacedSet
      /\ R.RT <=> o \in RtObjects
  <2>1. /\ RequestsOK(Registration', PlacedSet \cup {o}, alive)
        /\ RegSet(Registration', PlacedSet \cup {o}) = RegSet(Registration, PlacedSet)
        /\ o \in Objects \cap alive /\ o \notin PlacedSet
        /\ Registration[1].RT <=> o \in RtObjects
    BY <1>1, <1>3, <1>4, <1>5, EnterKeeps DEF IInv, Requests
  <2> QED
    BY <1>3, <2>1 DEF RegNow
<1>7. R \in Request /\ R.RT \in BOOLEAN
  BY <1>1, ApplyingKeeps DEF Request
<1>8. /\ Items' \in Seq(AnyItem) /\ ItemsRT' \in Seq(Objects)
      /\ Once(Items') /\ IsInjective(ItemsRT')
      /\ IF R.RT THEN Ob(Items') = Ob(Items) /\ ToSet(ItemsRT') = ToSet(ItemsRT) \cup {o}
                 ELSE Ob(Items') = Ob(Items) \cup {o} /\ ToSet(ItemsRT') = ToSet(ItemsRT)
  <2>1. CASE R.RT
    <3>1. ItemsRT' = Append(ItemsRT, o) /\ Items' = Items /\ o \notin ToSet(ItemsRT)
      BY <1>1, <1>2, <1>6, <2>1 DEF PlacedSet, Queued
    <3>2. /\ ItemsRT' \in Seq(Objects) /\ IsInjective(ItemsRT')
          /\ ToSet(ItemsRT') = ToSet(ItemsRT) \cup {o}
      BY <1>6, <3>1, AppendDistinct, Typed DEF IInv, Containers
    <3> QED
      BY <2>1, <3>1, <3>2, Typed DEF IInv, Containers
  <2>2. CASE ~R.RT
    <3>1. PICK e : e = Item(o, 0)
      OBVIOUS
    <3>2. e \in AnyItem /\ e.Object = o
      <4>1. 0 \in Times
        <5>1. PICK n \in Intervals : n \in Nat \ {0}
          BY IntervalsAssumption
        <5>2. -MaxLate <= 0 /\ 0 <= n
          BY <5>1, BoundsAssumption
        <5> QED
          BY <5>2 DEF Times
      <4> QED
        BY <1>6, <3>1, <4>1 DEF Item, AnyItem
    <3>3. Items' = Append(Items, e) /\ ItemsRT' = ItemsRT /\ e.Object \notin Ob(Items) \cup {NULL}
      BY <1>1, <1>2, <1>6, <2>2, <3>1, <3>2, Typed DEF PlacedSet, Queued
    <3>4. /\ Items' \in Seq(AnyItem) /\ Once(Items')
          /\ Ob(Items') = Ob(Items) \cup {o}
      BY <3>2, <3>3, AppendItem, Typed DEF IInv, Containers
    <3> QED
      BY <2>2, <3>3, <3>4, Typed DEF IInv, Containers
  <2> QED
    BY <2>1, <2>2
<1>9. PlacedSet' = PlacedSet \cup {o} /\ Cur' = Cur
  BY <1>1, <1>7, <1>8, ApplyingKeeps DEF PlacedSet, Queued, Cur
<1>10. TypeOK'
  <2>1. Registration' \in Seq(Request)
    BY <1>5 DEF Rest
  <2>2. Items' \in Seq([Object : Objects \cup {NULL}, time : Times])
    BY <1>8 DEF AnyItem
  <2>3. b_RT' \in [Objects -> BOOLEAN]
    BY <1>1, <1>7 DEF IInv, TypeOK
  <2> QED
    BY <1>1, <1>8, <2>1, <2>2, <2>3, ApplyingKeeps DEF IInv, TypeOK
<1>11. Containers'
  <2>1. o \notin Ob(Items) /\ o \notin ToSet(ItemsRT)
    BY <1>6 DEF PlacedSet, Queued
  <2>2. Once(ItemsProcessed') /\ Ob(ItemsProcessed') = {} /\ Cur' = {}
    BY <1>1, <1>9, ApplyingKeeps DEF IInv, Containers
  <2>3. /\ ToSet(ItemsRT') \subseteq RtObjects
        /\ Ob(Items') \cap RtObjects = {}
    BY <1>6, <1>7, <1>8, <2>1 DEF IInv, Containers
  <2> QED
    BY <1>8, <2>2, <2>3 DEF Containers
<1>12. Requests' /\ RegNow' = RegNow
  BY <1>1, <1>6, <1>9, ApplyingKeeps DEF Requests, RegNow
<1>13. Flags'
  <2>1. ASSUME NEW x \in Objects
        PROVE  \/ b_RT'[x] <=> x \in RtObjects
               \/ x \notin PlacedSet' /\ \A j \in On(Registration', x) : ~Registration'[j].OP
    <3>1. CASE x = o
      BY <1>1, <1>2, <1>6, <3>1 DEF IInv, TypeOK
    <3>2. CASE x # o
      <4>1. b_RT'[x] = b_RT[x] /\ (x \in PlacedSet' <=> x \in PlacedSet)
        BY <1>1, <1>2, <1>9, <3>2 DEF IInv, TypeOK
      <4>2. \A j \in On(Registration', x) :
                f[j] \in On(Registration, x) /\ Registration'[j] = Registration[f[j]]
        BY <1>5, OnRest DEF Rest, On
      <4> QED
        BY <4>1, <4>2 DEF IInv, Flags
    <3> QED
      BY <3>1, <3>2
  <2> QED
    BY <2>1 DEF Flags
<1>14. Phase' /\ Serving'
  BY <1>1, ApplyingKeeps DEF IInv, Phase, Serving, m_processing_now
<1> QED
  BY <1>1, <1>2, <1>6, <1>10, <1>11, <1>12, <1>13, <1>14, ApplyingKeeps DEF IInv

(* What internal_Unregister takes out, and that it takes out nothing else. *)
LEMMA InternalUnregisterDrops ==
    ASSUME IInv, NEW o \in Objects, NEW RT \in BOOLEAN, InternalUnregister(o, RT)
    PROVE  /\ Items' \in Seq(AnyItem) /\ ItemsRT' \in Seq(Objects)
           /\ Once(Items') /\ IsInjective(ItemsRT')
           /\ o \in Queued /\ o \notin Ob(ItemsProcessed)
           /\ Queued' = Queued \ {o}
           /\ Ob(Items') \subseteq Ob(Items) /\ Cur' \subseteq Cur
           /\ ToSet(ItemsRT') \subseteq ToSet(ItemsRT)
           /\ m_current_step_obj' \in {NULL, m_current_step_obj}
           /\ \A j \in DOMAIN ItemsRT' :
                 \E m \in DOMAIN ItemsRT : m >= j /\ ItemsRT'[j] = ItemsRT[m]
<1>1. o # NULL
  BY Typed
<1>2. CASE RT /\ (\E k \in First(InRT(o)) : ItemsRT' = RemoveAt(ItemsRT, k))
           /\ UNCHANGED <<Items, m_current_step_obj>>
  <2>1. PICK k \in DOMAIN ItemsRT : ItemsRT[k] = o /\ ItemsRT' = RemoveAt(ItemsRT, k)
    BY <1>2 DEF First, InRT
  <2>2. /\ ItemsRT' \in Seq(Objects) /\ IsInjective(ItemsRT')
        /\ ToSet(ItemsRT') = ToSet(ItemsRT) \ {o}
        /\ \A j \in DOMAIN ItemsRT' :
              \E m \in DOMAIN ItemsRT : m >= j /\ ItemsRT'[j] = ItemsRT[m]
    BY <2>1, RemoveDistinct, Typed DEF IInv, Containers
  <2>3. o \in ToSet(ItemsRT)
    BY <2>1 DEF ToSet
  <2>4. o \notin Ob(Items) /\ o \notin Cur /\ o \notin Ob(ItemsProcessed)
    BY <2>3 DEF IInv, Containers
  <2> QED
    BY <1>2, <2>2, <2>3, <2>4, Typed DEF Queued, Cur, IInv, Containers
<1>3. ASSUME Items' = Items \/ ItemsRT' = ItemsRT, ItemsRT' = ItemsRT
      PROVE  \A j \in DOMAIN ItemsRT' :
                \E m \in DOMAIN ItemsRT : m >= j /\ ItemsRT'[j] = ItemsRT[m]
  BY <1>3, Typed
<1>4. CASE ~RT /\ (\E k \in First(InItems(o)) : Items' = [Items EXCEPT ![k].Object = NULL])
           /\ UNCHANGED <<ItemsRT, m_current_step_obj>>
  <2>1. PICK k \in DOMAIN Items : /\ Items[k].Object = o
                                  /\ Items' = [Items EXCEPT ![k].Object = NULL]
    BY <1>4 DEF First, InItems
  <2>2. Items' \in Seq(AnyItem) /\ Once(Items') /\ Ob(Items') = Ob(Items) \ {o}
    BY <2>1, ClearItem, Typed DEF IInv, Containers
  <2>3. o \in Ob(Items)
    BY <1>1, <2>1 DEF Ob
  <2>4. o \notin ToSet(ItemsRT) /\ o \notin Cur /\ o \notin Ob(ItemsProcessed)
    BY <2>3 DEF IInv, Containers
  <2>5. /\ ItemsRT' = ItemsRT /\ m_current_step_obj' = m_current_step_obj
        /\ Cur' = Cur
    BY <1>4 DEF Cur
  <2>6. Queued' = Queued \ {o} /\ o \in Queued
    BY <2>2, <2>3, <2>4, <2>5 DEF Queued
  <2> QED
    BY <1>3, <2>2, <2>4, <2>5, <2>6, Typed DEF IInv, Containers
<1>5. CASE m_current_step_obj = o /\ m_current_step_obj' = NULL
           /\ UNCHANGED <<Items, ItemsRT>>
  <2>1. Cur = {o} /\ Cur' = {}
    BY <1>1, <1>5 DEF Cur
  <2>2. o \notin ToSet(ItemsRT) /\ o \notin Ob(Items) /\ o \notin Ob(ItemsProcessed)
    BY <2>1 DEF IInv, Containers
  <2> QED
    BY <1>3, <1>5, <2>1, <2>2, Typed DEF Queued, IInv, Containers
<1> QED
  BY <1>2, <1>4, <1>5 DEF InternalUnregister

(* Nor is anything left where the object is looked for by its right kind.  *)
LEMMA NotFoundQueued ==
    ASSUME IInv, NEW o \in Objects, NEW RT \in BOOLEAN, NotFound(o, RT),
           RT <=> o \in RtObjects
    PROVE  o \notin Queued
<1>1. o # NULL
  BY Typed
<1>2. o \notin Cur
  BY DEF NotFound, Cur
<1>3. CASE RT
  <2>1. InRT(o) = {} /\ o \in RtObjects
    BY <1>3 DEF NotFound, Found
  <2> QED
    BY <1>2, <2>1 DEF Queued, ToSet, InRT, IInv, Containers
<1>4. CASE ~RT
  <2>1. InItems(o) = {} /\ o \notin RtObjects
    BY <1>4 DEF NotFound, Found
  <2> QED
    BY <1>2, <2>1 DEF Queued, Ob, InItems, IInv, Containers
<1> QED
  BY <1>3, <1>4

LEMMA ApplyUnregisterIInv ==
    ASSUME IInv, ApplyUnregister
    PROVE  IInv' /\ RegNow' = RegNow /\ served' = served
<1> DEFINE R == Head(Registration)
<1>1. /\ Applying /\ ~R.OP
      /\ Registration' = Tail(Registration)
      /\ \/ InternalUnregister(R.Object, R.RT)
         \/ /\ NotFound(R.Object, R.RT)
            /\ UNCHANGED <<Items, ItemsRT, m_current_step_obj>>
      /\ b_RT' = b_RT
  BY DEF ApplyUnregister
<1>2. PICK o : o = R.Object
  OBVIOUS
<1>3. /\ R \in Request /\ R.RT \in BOOLEAN /\ o \in Objects
      /\ 1 \in On(Registration, o) /\ Registration[1] = R /\ ~Registration[1].OP
  BY <1>1, <1>2, ApplyingKeeps DEF Request
<1>4. PICK f : Rest(Registration', Registration, f, {1})
  BY <1>1, TailRest, ApplyingKeeps, Typed
<1>5. /\ RequestsOK(Registration', PlacedSet \ {o}, alive)
      /\ RegSet(Registration', PlacedSet \ {o}) = RegNow
      /\ o \in PlacedSet => (R.RT <=> o \in RtObjects)
  <2>1. /\ RequestsOK(Registration', PlacedSet \ {o}, alive)
        /\ RegSet(Registration', PlacedSet \ {o}) = RegSet(Registration, PlacedSet)
        /\ o \in PlacedSet => (Registration[1].RT <=> o \in RtObjects)
    BY <1>3, <1>4, LeaveKeeps DEF IInv, Requests
  <2> QED
    BY <1>3, <2>1 DEF RegNow
<1>6. /\ Items' \in Seq(AnyItem) /\ ItemsRT' \in Seq(Objects)
      /\ Once(Items') /\ IsInjective(ItemsRT')
      /\ Ob(Items') \subseteq Ob(Items) /\ Cur' \subseteq Cur
      /\ ToSet(ItemsRT') \subseteq ToSet(ItemsRT)
      /\ m_current_step_obj' = NULL
      /\ Queued' = Queued \ {o}
  <2>1. CASE InternalUnregister(R.Object, R.RT)
    BY <1>2, <1>3, <2>1, <1>1, InternalUnregisterDrops, ApplyingKeeps
  <2>2. CASE /\ NotFound(R.Object, R.RT)
             /\ UNCHANGED <<Items, ItemsRT, m_current_step_obj>>
    <3>1. o \notin Queued
      <4>1. o \in PlacedSet => o \notin Queued
        BY <1>2, <1>3, <1>5, <2>2, NotFoundQueued
      <4> QED
        BY <4>1 DEF PlacedSet
    <3>2. Queued' = Queued /\ Cur' = Cur
      BY <2>2 DEF Queued, Cur
    <3> QED
      BY <1>1, <2>2, <3>1, <3>2, Typed, ApplyingKeeps DEF IInv, Containers
  <2> QED
    BY <1>1, <2>1, <2>2
<1>7. PlacedSet' = PlacedSet \ {o} /\ Cur' = {} /\ Ob(ItemsProcessed') = {}
  BY <1>1, <1>6, ApplyingKeeps DEF PlacedSet
<1>8. TypeOK'
  <2>1. Registration' \in Seq(Request)
    BY <1>4 DEF Rest
  <2>2. Items' \in Seq([Object : Objects \cup {NULL}, time : Times])
    BY <1>6 DEF AnyItem
  <2> QED
    BY <1>1, <1>6, <2>1, <2>2, ApplyingKeeps DEF IInv, TypeOK
<1>9. Containers'
  BY <1>1, <1>6, <1>7, ApplyingKeeps DEF IInv, Containers
<1>10. Requests' /\ RegNow' = RegNow
  BY <1>1, <1>5, <1>7, ApplyingKeeps DEF Requests, RegNow
<1>11. Flags'
  <2>1. ASSUME NEW x \in Objects
        PROVE  \/ b_RT'[x] <=> x \in RtObjects
               \/ x \notin PlacedSet' /\ \A j \in On(Registration', x) : ~Registration'[j].OP
    <3>1. \A j \in On(Registration', x) :
              f[j] \in On(Registration, x) /\ Registration'[j] = Registration[f[j]]
      BY <1>4, OnRest DEF Rest, On
    <3> QED
      BY <1>1, <1>7, <3>1 DEF IInv, Flags
  <2> QED
    BY <2>1 DEF Flags
<1>12. Phase' /\ Serving'
  BY <1>1, <1>6, ApplyingKeeps DEF IInv, Phase, Serving, m_processing_now
<1> QED
  BY <1>1, <1>8, <1>9, <1>10, <1>11, <1>12, ApplyingKeeps DEF IInv

-----------------------------------------------------------------------------
(* The steps that make a request.                                          *)

(* Registered is what RegSet says of the pending requests.                 *)
LEMMA RegisteredIsRegNow ==
    ASSUME IInv, NEW o \in Objects
    PROVE  Registered(o) <=> o \in RegNow
<1>1. o # NULL /\ Pending(o) = On(Registration, o)
  BY Typed DEF Pending, On
<1>2. /\ InItems(o) # {} <=> o \in Ob(Items)
      /\ InProcessed(o) # {} <=> o \in Ob(ItemsProcessed)
      /\ InRT(o) # {} <=> o \in ToSet(ItemsRT)
      /\ m_current_step_obj = o <=> o \in Cur
  BY <1>1 DEF InItems, InProcessed, InRT, Ob, ToSet, Cur
<1>3. Placed(o) <=> o \in PlacedSet
  BY <1>2 DEF Placed, PlacedSet, Queued
<1> QED
  BY <1>1, <1>3 DEF Registered, RegNow, RegSet

LEMMA RegisterIInv ==
    ASSUME IInv, NEW o \in Objects, Register(o)
    PROVE  /\ IInv' /\ served' = served
           /\ o \notin RegNow /\ RegNow' = RegNow \cup {o}
<1>1. PICK r : r = [OP |-> TRUE, RT |-> o \in RtObjects, Object |-> o]
  OBVIOUS
<1>2. /\ GameRuns /\ o \in needed /\ ~Registered(o)
      /\ Registration' = Append(Registration, r)
      /\ b_RT' = [b_RT EXCEPT ![o] = o \in RtObjects] /\ ops' = ops + 1
      /\ Items' = Items /\ ItemsRT' = ItemsRT /\ ItemsProcessed' = ItemsProcessed
      /\ pc' = pc /\ it' = it /\ i' = i /\ running' = running
      /\ m_current_step_obj' = m_current_step_obj
      /\ alive' = alive /\ needed' = needed /\ served' = served
      /\ rtErased' = rtErased
  BY <1>1 DEF Register, step
<1>3. o \notin RegNow /\ o \in alive
  BY <1>2, RegisteredIsRegNow DEF IInv, TypeOK
<1>4. PlacedSet' = PlacedSet /\ Queued' = Queued /\ Cur' = Cur
  BY <1>2 DEF PlacedSet, Queued, Cur
<1>5. /\ RequestsOK(Registration', PlacedSet, alive)
      /\ RegSet(Registration', PlacedSet) = RegNow \cup {o}
  <2>1. RequestsOK(Registration, PlacedSet, alive) /\ o \notin RegSet(Registration, PlacedSet)
    BY <1>3 DEF IInv, Requests, RegNow
  <2>2. PICK t, n : t = Append(Registration, r) /\ n = Len(Registration) + 1
    OBVIOUS
  <2>3. r \in Request /\ r.OP /\ r.Object = o /\ (r.RT <=> o \in RtObjects)
    <3>1. (o \in RtObjects) \in BOOLEAN
      BY ObjectsAssumption
    <3> QED
      BY <1>1, <3>1 DEF Request
  <2>4. /\ RequestsOK(t, PlacedSet, alive)
        /\ \A x : x \in RegSet(t, PlacedSet) <=>
                    x \in RegSet(Registration, PlacedSet) \/ x = o
    <3>1. Added(t, Registration, r, n)
      BY <2>2, <2>3, AppendOn, Typed
    <3> QED
      BY <1>3, <2>1, <2>3, <3>1, AddRegister
  <2> QED
    BY <1>2, <2>2, <2>4 DEF RegNow
<1>6. \A x : x # o => /\ On(Registration', x) = On(Registration, x)
                      /\ \A k \in On(Registration, x) : Registration'[k] = Registration[k]
  <2>1. r \in Request /\ r.Object = o
    <3>1. (o \in RtObjects) \in BOOLEAN
      BY ObjectsAssumption
    <3> QED
      BY <1>1, <3>1 DEF Request
  <2>2. Added(Registration', Registration, r, Len(Registration) + 1)
    BY <1>2, <2>1, AppendOn, Typed
  <2> QED
    BY <2>1, <2>2 DEF Added
<1>7. TypeOK'
  <2>1. Registration' \in Seq(Request)
    BY <1>5 DEF RequestsOK
  <2>2. b_RT' \in [Objects -> BOOLEAN]
    <3>1. (o \in RtObjects) \in BOOLEAN
      BY ObjectsAssumption
    <3> QED
      BY <1>2, <3>1 DEF IInv, TypeOK
  <2>3. ops' \in 0 .. MaxOps
    BY <1>2, BoundsAssumption DEF IInv, TypeOK, GameRuns
  <2> QED
    BY <1>2, <2>1, <2>2, <2>3 DEF IInv, TypeOK
<1>8. Containers'
  BY <1>2, <1>4 DEF IInv, Containers
<1>9. Requests' /\ RegNow' = RegNow \cup {o}
  BY <1>2, <1>4, <1>5 DEF Requests, RegNow
<1>10. Flags'
  <2>1. ASSUME NEW x \in Objects
        PROVE  \/ b_RT'[x] <=> x \in RtObjects
               \/ x \notin PlacedSet' /\ \A k \in On(Registration', x) : ~Registration'[k].OP
    <3>1. CASE x = o
      BY <1>2, <3>1 DEF IInv, TypeOK
    <3>2. CASE x # o
      <4>1. b_RT'[x] = b_RT[x]
        BY <1>2, <3>2 DEF IInv, TypeOK
      <4> QED
        BY <1>4, <1>6, <3>2, <4>1 DEF IInv, Flags
    <3> QED
      BY <3>1, <3>2
  <2> QED
    BY <2>1 DEF Flags
<1>11. Phase'
  <2>1. m_processing_now => o \notin Queued
    BY <1>3 DEF IInv, Phase, RegNow, RegSet, PlacedSet
  <2>2. m_processing_now =>
            \A x \in Queued : x \in alive /\ On(Registration', x) = {}
    BY <1>6, <2>1 DEF IInv, Phase
  <2> QED
    BY <1>2, <1>4, <2>2 DEF IInv, Phase, m_processing_now
<1>12. Serving'
  BY <1>2 DEF IInv, Serving, Passed, m_processing_now
<1> QED
  BY <1>2, <1>3, <1>7, <1>8, <1>9, <1>10, <1>11, <1>12 DEF IInv

(* An unregistration by the owner, or by the destructor, after which the   *)
(* object need not exist.                                                  *)
LEMMA DoUnregisterIInv ==
    ASSUME IInv, NEW o \in Objects, GameRuns, DoUnregister(o), ops' = ops + 1,
           UNCHANGED <<ItemsProcessed, b_RT, pc, it, i, running, served>>,
           alive' \subseteq alive, alive \ {o} \subseteq alive',
           needed' \subseteq needed, needed' \subseteq alive'
    PROVE  IInv' /\ RegNow' = RegNow \ {o}
<1>1. /\ ItemsProcessed' = ItemsProcessed /\ b_RT' = b_RT /\ pc' = pc /\ it' = it
      /\ i' = i /\ running' = running /\ served' = served
      /\ Ob(ItemsProcessed') = Ob(ItemsProcessed)
      /\ ops' \in 0 .. MaxOps
      /\ b_RT[o] \in BOOLEAN
  BY BoundsAssumption DEF GameRuns, IInv, TypeOK
<1>2. CASE UnregisterNow(o)
  <2>1. /\ m_processing_now /\ InternalUnregister(o, b_RT[o])
        /\ rtErased' = (rtErased \/ ItemsRT' # ItemsRT)
        /\ Registration' = Registration
    BY <1>2 DEF UnregisterNow
  <2>2. /\ Items' \in Seq(AnyItem) /\ ItemsRT' \in Seq(Objects)
        /\ Once(Items') /\ IsInjective(ItemsRT')
        /\ o \in Queued /\ o \notin Ob(ItemsProcessed)
        /\ Queued' = Queued \ {o}
        /\ Ob(Items') \subseteq Ob(Items) /\ Cur' \subseteq Cur
        /\ ToSet(ItemsRT') \subseteq ToSet(ItemsRT)
        /\ m_current_step_obj' \in {NULL, m_current_step_obj}
        /\ \A j \in DOMAIN ItemsRT' :
              \E m \in DOMAIN ItemsRT : m >= j /\ ItemsRT'[j] = ItemsRT[m]
    BY <1>1, <2>1, InternalUnregisterDrops
  <2>3. On(Registration, o) = {}
    BY <2>1, <2>2 DEF IInv, Phase
  <2>4. PlacedSet' = PlacedSet \ {o}
    BY <1>1, <2>2 DEF PlacedSet
  <2>5. /\ RequestsOK(Registration, PlacedSet \ {o}, alive')
        /\ RegSet(Registration, PlacedSet \ {o}) = RegNow \ {o}
    <3>1. RequestsOK(Registration, PlacedSet, alive)
      BY DEF IInv, Requests
    <3>2. /\ RequestsOK(Registration, PlacedSet \ {o}, alive \ {o})
          /\ RegSet(Registration, PlacedSet \ {o}) = RegSet(Registration, PlacedSet) \ {o}
      BY <2>3, <3>1, DropPlaced
    <3>3. RequestsOK(Registration, PlacedSet \ {o}, alive')
      BY <3>2, MoreAlive
    <3> QED
      BY <3>2, <3>3 DEF RegNow
  <2>6. TypeOK'
    <3>1. Items' \in Seq([Object : Objects \cup {NULL}, time : Times])
      BY <2>2 DEF AnyItem
    <3>2. rtErased' \in BOOLEAN
      BY <2>1 DEF IInv, TypeOK
    <3> QED
      BY <1>1, <2>1, <2>2, <3>1, <3>2 DEF IInv, TypeOK
  <2>7. Containers'
    BY <1>1, <2>2 DEF IInv, Containers
  <2>8. Requests' /\ RegNow' = RegNow \ {o}
    BY <2>1, <2>4, <2>5 DEF Requests, RegNow
  <2>9. Flags'
    BY <1>1, <2>1, <2>4 DEF IInv, Flags
  <2>10. Phase'
    BY <1>1, <2>1, <2>2 DEF IInv, Phase, m_processing_now
  <2>11. Serving'
    <3>1. /\ pc' = "begin" => served' = {}
          /\ m_processing_now' => Ob(Items') \cap served' = {}
      BY <1>1, <2>2 DEF IInv, Serving, m_processing_now
    <3>2. ASSUME NEW j \in DOMAIN ItemsRT'
          PROVE  /\ pc' = "rt" /\ j >= it'     => ItemsRT'[j] \notin served'
                 /\ pc' = "rtCall" /\ j > it'  => ItemsRT'[j] \notin served'
      <4>1. PICK m \in DOMAIN ItemsRT : m >= j /\ ItemsRT'[j] = ItemsRT[m]
        BY <2>2
      <4>2. (j >= it => m >= it) /\ (j > it => m > it)
        <5>1. m \in Nat /\ it \in Nat /\ j \in Nat
          BY <2>2, LenProperties, Typed DEF IInv, TypeOK
        <5> QED
          BY <4>1, <5>1
      <4> QED
        BY <1>1, <4>1, <4>2 DEF IInv, Serving
    <3>3. ASSUME NEW j \in DOMAIN ItemsRT', ~rtErased'
          PROVE  /\ pc' = "rt" /\ j < it'      => Passed(j)'
                 /\ pc' = "rtCall" /\ j <= it' => Passed(j)'
                 /\ pc' \in {"step", "stepCall", "end"} => Passed(j)'
      <4>1. ItemsRT' = ItemsRT /\ ~rtErased
        BY <2>1, <3>3
      <4> QED
        BY <1>1, <4>1 DEF IInv, Serving, Passed
    <3> QED
      BY <3>1, <3>2, <3>3 DEF Serving
  <2> QED
    BY <2>6, <2>7, <2>8, <2>9, <2>10, <2>11 DEF IInv
<1>3. CASE UnregisterLater(o)
  <2>1. PICK r : r = [OP |-> FALSE, RT |-> b_RT[o], Object |-> o]
    OBVIOUS
  <2>2. /\ m_processing_now => NotFound(o, b_RT[o])
        /\ Registration' = Append(Registration, r)
        /\ Items' = Items /\ ItemsRT' = ItemsRT
        /\ m_current_step_obj' = m_current_step_obj /\ rtErased' = rtErased
    BY <1>3, <2>1 DEF UnregisterLater
  <2>3. PlacedSet' = PlacedSet /\ Queued' = Queued /\ Cur' = Cur
    BY <1>1, <2>2 DEF PlacedSet, Queued, Cur
  <2>4. \/ b_RT[o] <=> o \in RtObjects
        \/ o \notin PlacedSet /\ \A k \in On(Registration, o) : ~Registration[k].OP
    BY DEF IInv, Flags
  <2>5. /\ RequestsOK(Registration', PlacedSet, alive')
        /\ RegSet(Registration', PlacedSet) = RegNow \ {o}
    <3>1. /\ RequestsOK(Registration', PlacedSet, alive \ {o})
          /\ RegSet(Registration', PlacedSet) = RegNow \ {o}
      <4>1. RequestsOK(Registration, PlacedSet, alive)
        BY DEF IInv, Requests
      <4>3. r \in Request /\ ~r.OP /\ r.Object = o /\ r.RT = b_RT[o]
        BY <1>1, <2>1 DEF Request
      <4>4. PICK n : Added(Registration', Registration, r, n)
        BY <2>2, <4>3, AppendOn, Typed
      <4>5. /\ RequestsOK(Registration', PlacedSet, alive \ {o})
            /\ \A x : x \in RegSet(Registration', PlacedSet) <=>
                        x \in RegSet(Registration, PlacedSet) /\ x # o
        <5>1. KindOrIdle(r, Registration, PlacedSet, o)
          BY <2>4, <4>3 DEF KindOrIdle
        <5> QED
          BY <4>1, <4>3, <4>4, <5>1, AddUnregister
      <4> QED
        BY <4>5 DEF RegNow
    <3> QED
      BY <3>1, MoreAlive
  <2>6. r \in Request /\ r.Object = o /\ ~r.OP
    BY <1>1, <2>1 DEF Request
  <2>7. PICK n : Added(Registration', Registration, r, n)
    BY <2>2, <2>6, AppendOn, Typed
  <2>8. TypeOK'
    <3>1. Registration' \in Seq(Request)
      BY <2>7 DEF Added
    <3> QED
      BY <1>1, <2>2, <3>1 DEF IInv, TypeOK
  <2>9. Containers'
    BY <1>1, <2>2, <2>3 DEF IInv, Containers
  <2>10. Requests' /\ RegNow' = RegNow \ {o}
    BY <2>2, <2>3, <2>5 DEF Requests, RegNow
  <2>11. Flags'
    <3>1. ASSUME NEW x \in Objects, \A k \in On(Registration, x) : ~Registration[k].OP
          PROVE  \A k \in On(Registration', x) : ~Registration'[k].OP
      <4>1. CASE x = o
        BY <2>6, <2>7, <3>1, <4>1 DEF Added
      <4>2. CASE x # o
        BY <2>6, <2>7, <3>1, <4>2 DEF Added
      <4> QED
        BY <4>1, <4>2
    <3> QED
      BY <1>1, <2>3, <3>1 DEF IInv, Flags
  <2>12. Phase'
    <3>1. m_processing_now => o \notin Queued
      <4>1. CASE b_RT[o] <=> o \in RtObjects
        BY <1>1, <2>2, <4>1, NotFoundQueued
      <4>2. CASE o \notin PlacedSet
        BY <4>2 DEF PlacedSet
      <4> QED
        BY <2>4, <4>1, <4>2
    <3>2. ASSUME m_processing_now, NEW x \in Queued
          PROVE  x \in alive' /\ On(Registration', x) = {}
      <4>1. x # o /\ x \in alive /\ On(Registration, x) = {}
        BY <3>1, <3>2 DEF IInv, Phase
      <4>2. On(Registration', x) = On(Registration, x)
        BY <2>6, <2>7, <4>1 DEF Added
      <4> QED
        BY <4>1, <4>2
    <3> QED
      BY <1>1, <2>2, <2>3, <3>2 DEF IInv, Phase, m_processing_now
  <2>13. Serving'
    BY <1>1, <2>2 DEF IInv, Serving, Passed, m_processing_now
  <2> QED
    BY <2>8, <2>9, <2>10, <2>11, <2>12, <2>13 DEF IInv
<1> QED
  BY <1>2, <1>3 DEF DoUnregister

LEMMA UnregisterIInv ==
    ASSUME IInv, NEW o \in Objects, Unregister(o)
    PROVE  IInv' /\ RegNow' = RegNow \ {o} /\ served' = served
<1>1. needed' = needed /\ alive' = alive /\ needed \subseteq alive
  BY DEF Unregister, IInv, TypeOK
<1> QED
  BY <1>1, DoUnregisterIInv DEF Unregister

LEMMA DeleteIInv ==
    ASSUME IInv, NEW o \in Objects, Delete(o)
    PROVE  IInv' /\ RegNow' = RegNow \ {o} /\ served' = served
<1>1. needed' = needed \ {o} /\ alive' = alive \ {o} /\ needed \subseteq alive
  BY DEF Delete, IInv, TypeOK
<1> QED
  BY <1>1, DoUnregisterIInv DEF Delete

-----------------------------------------------------------------------------
(* The theorems.                                                           *)

LEMMA InitIInv == Init => IInv
<1> SUFFICES ASSUME Init PROVE IInv
  OBVIOUS
<1>1. /\ Items = <<>> /\ ItemsProcessed = <<>> /\ ItemsRT = <<>> /\ Registration = <<>>
      /\ m_current_step_obj = NULL /\ pc = "idle" /\ alive = {} /\ served = {}
      /\ b_RT = [o \in Objects |-> FALSE]
  BY DEF Init
<1>2. Ob(Items) = {} /\ Ob(ItemsProcessed) = {} /\ ToSet(ItemsRT) = {} /\ Cur = {}
  BY <1>1 DEF Ob, ToSet, Cur
<1>3. PlacedSet = {} /\ \A o : On(Registration, o) = {}
  BY <1>1, <1>2 DEF PlacedSet, Queued, On
<1>4. TypeOK
  <2>1. /\ Items \in Seq([Object : Objects \cup {NULL}, time : Times])
        /\ ItemsProcessed \in Seq([Object : Objects, time : Times])
        /\ ItemsRT \in Seq(Objects) /\ Registration \in Seq(Request)
    BY <1>1
  <2>2. ops \in 0 .. MaxOps /\ it \in Nat \ {0} /\ i \in 0 .. 2
    BY BoundsAssumption DEF Init
  <2> QED
    BY <1>1, <2>1, <2>2 DEF Init, TypeOK
<1>5. Containers
  BY <1>1, <1>2 DEF Containers, Once, IsInjective
<1>6. Requests
  <2>1. Registration \in Seq(Request) /\ DOMAIN Registration = {}
    BY <1>1
  <2> QED
    BY <1>1, <1>3, <2>1 DEF Requests, RequestsOK, KindKnown, WrongKindIdle,
        Alternate, LeaveFirst, DeadLeave
<1>7. Flags
  BY <1>3 DEF Flags
<1>8. Phase /\ Serving
  BY <1>1 DEF Phase, Serving, m_processing_now
<1> QED
  BY <1>4, <1>5, <1>6, <1>7, <1>8 DEF IInv

LEMMA StepIInv == IInv /\ [Next]_vars => IInv'
<1> SUFFICES ASSUME IInv, [Next]_vars PROVE IInv'
  OBVIOUS
<1>1. CASE UNCHANGED vars
  <2>1. Containers' /\ Requests' /\ Flags' /\ Queued' = Queued
    BY <1>1, StoreKept DEF vars, queues, step, game
  <2>2. TypeOK'
    BY <1>1 DEF IInv, TypeOK, vars, queues, step, game
  <2>3. Phase' /\ Serving'
    BY <1>1, <2>1 DEF IInv, Phase, Serving, Passed, m_processing_now, vars,
        queues, step, game
  <2> QED
    BY <2>1, <2>2, <2>3 DEF IInv
<1>2. CASE GameStep
  BY <1>2, CreateIInv, SetDestroyIInv, RegisterIInv, UnregisterIInv, DeleteIInv
  DEF GameStep
<1>3. CASE \E d \in FrameTimes : BeginUpdate(d)
  BY <1>3, BeginUpdateIInv
<1>4. CASE ApplyPair \/ ApplyRegister \/ ApplyUnregister
  BY <1>4, ApplyPairIInv, ApplyRegisterIInv, ApplyUnregisterIInv
<1>5. CASE BeginLoop \/ RtSkip \/ RtCall \/ RtReturn \/ RtDone
  BY <1>5, BeginLoopIInv, RtSkipIInv, RtCallIInv, RtReturnIInv, RtDoneIInv
<1>6. CASE \E k \in Top : StepDrop(k) \/ StepCall(k)
  BY <1>6, StepDropIInv, StepCallIInv
<1>7. CASE StepReturnSelf \/ \E dwUpdate \in Intervals : StepReturn(dwUpdate)
  BY <1>7, StepReturnSelfIInv, StepReturnIInv
<1>8. CASE EndUpdate \/ UpdateDone
  BY <1>8, EndUpdateIInv, UpdateDoneIInv
<1> QED
  BY <1>1, <1>2, <1>3, <1>4, <1>5, <1>6, <1>7, <1>8 DEF Next, UpdateStep

(* The invariant, from which the properties below follow.                  *)
THEOREM ShedulerInvariant == Spec => []IInv
  BY InitIInv, StepIInv, PTL DEF Spec

(* Every variable of the scheduler keeps its type, in particular the queue *)
(* of processed items, which is filled from the object being called.       *)
THEOREM ShedulerTypes == Spec => []TypeOK
<1>1. IInv => TypeOK
  BY DEF IInv
<1> QED
  BY <1>1, ShedulerInvariant, PTL

(* While Update runs its loops (xrSheduler.cpp, Update and ProcessStep),   *)
(* whatever the called objects create, register, unregister and delete,    *)
(* the containers hold objects that exist; and internal_Registration puts  *)
(* no deleted object into them.                                            *)
THEOREM LivingTouched == Spec => []TouchesOnlyLiving
<1>1. ASSUME IInv PROVE TouchesOnlyLiving
  <2>1. ASSUME m_processing_now
        PROVE  /\ ToSet(ItemsRT) \subseteq alive
               /\ \A k \in DOMAIN Items : Items[k].Object \in alive \cup {NULL}
               /\ m_current_step_obj \in alive \cup {NULL}
    <3>1. \A o \in Queued : o \in alive
      BY <1>1, <2>1 DEF IInv, Phase
    <3> QED
      BY <3>1 DEF Queued, Ob, ToSet, Cur, ToSet
  <2>2. ASSUME pc \in {"begin", "final"}, Registration # <<>>,
               Head(Registration).OP, Paired = {}
        PROVE  Head(Registration).Object \in alive
    <3>1. PICK o : o = Head(Registration).Object
      OBVIOUS
    <3>2. /\ Head(Registration) = Registration[1] /\ 1 \in DOMAIN Registration
          /\ Head(Registration) \in Request
      <4>1. Len(Registration) \in Nat \ {0} /\ Head(Registration) = Registration[1]
        BY <1>1, <2>2, TailProperties, Typed
      <4>2. DOMAIN Registration = 1 .. Len(Registration)
        BY <1>1, Typed, LenProperties
      <4>3. 1 \in DOMAIN Registration
        BY <4>1, <4>2
      <4> QED
        BY <1>1, <4>1, <4>3, Typed
    <3>3. 1 \in On(Registration, o) /\ Registration[1].OP
      BY <2>2, <3>1, <3>2 DEF On
    <3>4. \A j \in On(Registration, o) : j > 1 => Registration[j].OP
      BY <2>2, <3>1 DEF Paired, Pending, On
    <3>5. PICK t, f : Rest(t, Registration, f, {1})
      BY <1>1, <2>2, TailRest, Typed
    <3>6. RequestsOK(Registration, PlacedSet, alive)
      BY <1>1 DEF IInv, Requests
    <3>7. o \in Objects \cap alive /\ o \notin PlacedSet
      BY <3>3, <3>4, <3>5, <3>6, EnterKeeps
    <3> QED
      BY <3>1, <3>7
  <2> QED
    BY <2>1, <2>2 DEF TouchesOnlyLiving
<1> QED
  BY <1>1, ShedulerInvariant, PTL

(* The VERIFYs of CSheduler::Registered: no sequence of registrations,     *)
(* unregistrations and Updates puts an object into two places, or twice    *)
(* into one.                                                               *)
THEOREM PlacedOnce == Spec => []OnePlace
<1>1. ASSUME IInv PROVE OnePlace
  <2>1. SUFFICES ASSUME NEW o \in Objects
                 PROVE  /\ \A p, q \in Places(o) : p = q
                        /\ Places(o) # {} =>
                              \A k \in First(Pending(o)) : ~Registration[k].OP
    BY DEF OnePlace
  <2>2. o # NULL
    BY <1>1, Typed
  <2>3. /\ InItems(o) # {} => o \in Ob(Items)
        /\ InProcessed(o) # {} => o \in Ob(ItemsProcessed)
        /\ InRT(o) # {} => o \in ToSet(ItemsRT)
        /\ m_current_step_obj = o => o \in Cur
    BY <2>2 DEF InItems, InProcessed, InRT, Ob, ToSet, Cur
  <2>4. /\ \A j, k \in InItems(o) : j = k
        /\ \A j, k \in InProcessed(o) : j = k
        /\ \A j, k \in InRT(o) : j = k
    BY <1>1, <2>2 DEF InItems, InProcessed, InRT, IInv, Containers, Once, IsInjective
  <2>5. /\ ~(o \in Ob(Items) /\ o \in Ob(ItemsProcessed))
        /\ ~(o \in Ob(Items) /\ o \in ToSet(ItemsRT))
        /\ ~(o \in Ob(ItemsProcessed) /\ o \in ToSet(ItemsRT))
        /\ o \in Cur => o \notin Ob(Items) \cup Ob(ItemsProcessed) \cup ToSet(ItemsRT)
    BY <1>1 DEF IInv, Containers
  <2>6. \A p \in Places(o) :
           \/ \E k \in InItems(o) : p = <<"Items", k>>
           \/ \E k \in InProcessed(o) : p = <<"ItemsProcessed", k>>
           \/ \E k \in InRT(o) : p = <<"ItemsRT", k>>
           \/ m_current_step_obj = o /\ p = <<"m_current_step_obj", 1>>
    BY DEF Places
  <2>7. \A p, q \in Places(o) : p = q
    BY <2>3, <2>4, <2>5, <2>6
  <2>8. Places(o) # {} => o \in PlacedSet
    BY <2>3, <2>6 DEF PlacedSet, Queued
  <2>9. ASSUME o \in PlacedSet, NEW k \in First(Pending(o)) PROVE ~Registration[k].OP
    <3>1. k \in On(Registration, o) /\ \A j \in On(Registration, o) : k <= j
      BY <2>9 DEF First, Pending, On
    <3>2. \A j \in On(Registration, o) : j \in Nat
      BY <1>1, Typed, LenProperties DEF On
    <3>3. Registration[k].OP =>
              \E j \in On(Registration, o) : j < k /\ ~Registration[j].OP
      BY <1>1, <2>9, <3>1 DEF IInv, Requests, RequestsOK, LeaveFirst
    <3>4. \A j \in On(Registration, o) : ~(j < k)
      BY <3>1, <3>2
    <3> QED
      BY <3>3, <3>4
  <2> QED
    BY <2>7, <2>8, <2>9
<1> QED
  BY <1>1, ShedulerInvariant, PTL

(* The realtime loop leaves out no object that needs an update, unless an  *)
(* erasure inside the loop moved one under its index.                      *)
THEOREM RealtimeAllServed == Spec => []RealtimeServed
<1>1. ASSUME IInv PROVE RealtimeServed
  <2>1. SUFFICES ASSUME pc \in {"step", "stepCall", "end"}, ~rtErased,
                        NEW k \in DOMAIN ItemsRT, ItemsRT[k] \in needed
                 PROVE  ItemsRT[k] \in served
    BY DEF RealtimeServed, ToSet
  <2> QED
    BY <1>1, <2>1 DEF IInv, Serving, Passed
<1> QED
  BY <1>1, ShedulerInvariant, PTL

-----------------------------------------------------------------------------
(* Refinement of ScheduledSet.                                             *)

Reg == {o \in Objects : Registered(o)}

LEMMA RegIsRegNow == IInv => Reg = RegNow
<1>1. RegNow \subseteq Objects
  BY DEF RegNow, RegSet
<1> QED
  BY <1>1, RegisteredIsRegNow DEF Reg

LEMMA KeptRegNow ==
    ASSUME UNCHANGED queues, m_current_step_obj' = m_current_step_obj
    PROVE  RegNow' = RegNow
  BY DEF RegNow, PlacedSet, Queued, Cur, queues

(* A call is in progress exactly where Update waits for its return.        *)
CallInProgress == running # NULL <=> pc \in {"rtCall", "stepCall"}

LEMMA CallsRun == Spec => []CallInProgress
<1>1. Init => CallInProgress
  BY DEF Init, CallInProgress
<1>2. ASSUME IInv, CallInProgress, [Next]_vars PROVE CallInProgress'
  <2>1. CASE UNCHANGED vars
    BY <1>2, <2>1 DEF CallInProgress, vars, step
  <2>2. CASE GameStep
    BY <1>2, <2>2 DEF CallInProgress, GameStep, Create, SetDestroy, Register,
        Unregister, Delete, step
  <2>3. CASE (\E d \in FrameTimes : BeginUpdate(d))
             \/ ApplyPair \/ ApplyRegister \/ ApplyUnregister
    BY <1>2, <2>3 DEF CallInProgress, BeginUpdate, ApplyPair, ApplyRegister,
        ApplyUnregister, Applying
  <2>4. CASE BeginLoop \/ RtSkip \/ RtReturn \/ RtDone \/ EndUpdate \/ UpdateDone
    BY <1>2, <2>4 DEF CallInProgress, BeginLoop, RtSkip, RtReturn, RtDone,
        EndUpdate, UpdateDone
  <2>5. CASE RtCall
    <3>1. pc' = "rtCall" /\ running' = ItemsRT[it] /\ it \in DOMAIN ItemsRT
      BY <1>2, <2>5, Typed, LenProperties DEF RtCall, IInv, TypeOK
    <3>2. ItemsRT[it] \in Objects
      BY <1>2, <3>1, Typed
    <3> QED
      BY <3>1, <3>2, ObjectsAssumption DEF CallInProgress
  <2>6. CASE \E k \in Top : StepDrop(k) \/ StepCall(k)
    BY <1>2, <2>6, StepCallIInv, ObjectsAssumption
    DEF CallInProgress, StepDrop, StepCall, RegNow, RegSet
  <2>7. CASE StepReturnSelf \/ \E dwUpdate \in Intervals : StepReturn(dwUpdate)
    BY <2>7 DEF CallInProgress, StepReturnSelf, StepReturn
  <2> QED
    BY <1>2, <2>1, <2>2, <2>3, <2>4, <2>5, <2>6, <2>7 DEF Next, UpdateStep
<1> QED
  BY <1>1, <1>2, ShedulerInvariant, PTL DEF Spec

(* ScheduledSet, seen through RegNow.                                      *)
RN == INSTANCE ScheduledSet WITH registered <- RegNow, updating <- pc # "idle"

GameKept == UNCHANGED <<pc, running, served>>

LEMMA GameImplements ==
    ASSUME IInv, CallInProgress, GameStep
    PROVE  [RN!Next]_(RN!ssvars)
<1>1. PICK o \in Objects :
          Create(o) \/ SetDestroy(o) \/ Register(o) \/ Unregister(o) \/ Delete(o)
  BY DEF GameStep
<1>2. RN!GameRuns /\ GameKept
  BY <1>1 DEF RN!GameRuns, CallInProgress, GameKept, Create, SetDestroy, Register,
      Unregister, Delete, GameRuns, step
<1>3. CASE Create(o) \/ SetDestroy(o)
  <2>1. RegNow' = RegNow /\ needed' \in {needed \cup {o}, needed \ {o}}
    BY <1>3, KeptRegNow DEF Create, SetDestroy, step, queues
  <2> QED
    BY <1>2, <2>1 DEF GameKept, RN!Need, RN!Next
<1>4. CASE Register(o)
  <2>1. /\ o \in needed /\ needed' = needed
        /\ o \notin RegNow /\ RegNow' = RegNow \cup {o}
    BY <1>4, RegisterIInv DEF Register
  <2> QED
    BY <1>2, <2>1 DEF GameKept, RN!Register, RN!Next
<1>5. CASE Unregister(o)
  <2>1. needed' = needed /\ RegNow' = RegNow \ {o}
    BY <1>5, UnregisterIInv DEF Unregister
  <2> QED
    BY <1>2, <2>1 DEF GameKept, RN!Unregister, RN!Next
<1>6. CASE Delete(o)
  <2>1. needed' = needed \ {o} /\ RegNow' = RegNow \ {o}
    BY <1>6, DeleteIInv DEF Delete
  <2> QED
    BY <1>2, <2>1 DEF GameKept, RN!Delete, RN!Next
<1> QED
  BY <1>1, <1>3, <1>4, <1>5, <1>6

(* An object is called where it is registered, needs it and has not been   *)
(* called yet.                                                             *)
LEMMA CallImplements ==
    ASSUME IInv, CallInProgress, RtCall \/ \E k \in Top : StepCall(k)
    PROVE  \E o \in Objects : RN!Call(o)
<1>0. RegNow \subseteq Objects
  BY DEF RegNow, RegSet
<1>1. CASE RtCall
  <2>1. PICK o : o = ItemsRT[it]
    OBVIOUS
  <2>2. /\ pc = "rt" /\ pc' = "rtCall" /\ it \in DOMAIN ItemsRT
        /\ running' = o /\ served' = served \cup {o} /\ o \in needed
        /\ RegNow' = RegNow /\ needed' = needed
    BY <1>1, <2>1, KeptRegNow, Typed, LenProperties
    DEF RtCall, queues, game, IInv, TypeOK
  <2>3. o \in Queued /\ o \notin served
    <3>1. it >= it
      BY DEF IInv, TypeOK
    <3> QED
      BY <2>1, <2>2, <3>1 DEF Queued, ToSet, IInv, Serving
  <2>4. On(Registration, o) = {} /\ o \in PlacedSet /\ o \in Objects
    BY <2>2, <2>3, Typed DEF IInv, Phase, m_processing_now, PlacedSet
  <2>5. o \in RegNow
    BY <2>4 DEF RegNow, RegSet
  <2> QED
    BY <2>2, <2>3, <2>4, <2>5 DEF CallInProgress, RN!Call
<1>2. CASE \E k \in Top : StepCall(k)
  <2>1. PICK k \in Top : StepCall(k)
    BY <1>2
  <2>2. PICK o : o = Items[k].Object
    OBVIOUS
  <2>3. /\ pc = "step" /\ pc' = "stepCall" /\ running' = o /\ o \in needed
        /\ needed' = needed
    BY <2>1, <2>2 DEF StepCall, game
  <2>4. /\ o \in RegNow \ served /\ RegNow' = RegNow
        /\ served' = served \cup {o}
    BY <2>1, <2>2, StepCallIInv
  <2> QED
    BY <1>0, <2>3, <2>4 DEF CallInProgress, RN!Call
<1> QED
  BY <1>1, <1>2

(* What leaves the queue without a call is an emptied item or an object    *)
(* that needs no updates.                                                  *)
LEMMA DropImplements ==
    ASSUME IInv, CallInProgress, NEW k \in Top, StepDrop(k)
    PROVE  [\E o \in Objects : RN!Drop(o)]_(RN!ssvars)
<1>1. /\ pc = "step" /\ pc' = "step" /\ running' = running /\ needed' = needed
      /\ served' = served /\ running = NULL /\ Items[k].Object \notin needed
  BY DEF StepDrop, game, CallInProgress
<1>2. CASE Items[k].Object = NULL
  BY <1>1, <1>2, StepDropIInv DEF RN!ssvars
<1>3. CASE Items[k].Object # NULL
  <2>1. PICK o : o = Items[k].Object
    OBVIOUS
  <2>2. o \in RegNow /\ RegNow' = RegNow \ {o} /\ o \in Objects
    BY <1>3, <2>1, StepDropIInv DEF RegNow, RegSet
  <2> QED
    BY <1>1, <2>1, <2>2 DEF RN!Drop
<1> QED
  BY <1>2, <1>3

LEMMA UpdateImplements ==
    ASSUME IInv, CallInProgress, UpdateStep
    PROVE  [RN!Next]_(RN!ssvars)
<1>1. CASE \E d \in FrameTimes : BeginUpdate(d)
  <2>1. PICK d \in FrameTimes : BeginUpdate(d)
    BY <1>1
  <2>2. /\ pc = "idle" /\ pc' = "begin" /\ running' = running /\ needed' = needed
        /\ RegNow' = RegNow /\ served' = {}
    BY <2>1, BeginUpdateIInv DEF BeginUpdate, game
  <2> QED
    BY <2>2 DEF RN!Begin, RN!Next
<1>2. CASE ApplyPair \/ ApplyRegister \/ ApplyUnregister
  <2>1. /\ pc' = pc /\ running' = running /\ needed' = needed
    BY <1>2 DEF ApplyPair, ApplyRegister, ApplyUnregister, Applying, game
  <2>2. RegNow' = RegNow /\ served' = served
    BY <1>2, ApplyPairIInv, ApplyRegisterIInv, ApplyUnregisterIInv
  <2> QED
    BY <2>1, <2>2 DEF RN!ssvars
<1>3. CASE BeginLoop \/ RtSkip \/ RtDone
  <2>1. /\ pc # "idle" /\ pc' # "idle" /\ running' = running /\ needed' = needed
        /\ served' = served /\ RegNow' = RegNow
    BY <1>3, KeptRegNow DEF BeginLoop, RtSkip, RtDone, queues, game
  <2> QED
    BY <2>1 DEF RN!ssvars
<1>4. CASE RtCall \/ \E k \in Top : StepCall(k)
  BY <1>4, CallImplements DEF RN!Next
<1>5. CASE RtReturn \/ StepReturnSelf \/ \E dwUpdate \in Intervals : StepReturn(dwUpdate)
  <2>1. /\ pc \in {"rtCall", "stepCall"} /\ pc' # "idle" /\ running' = NULL
        /\ needed' = needed /\ served' = served
    BY <1>5 DEF RtReturn, StepReturnSelf, StepReturn, game
  <2>2. RegNow' = RegNow
    BY <1>5, KeptRegNow, StepReturnIInv DEF RtReturn, StepReturnSelf, queues
  <2> QED
    BY <2>1, <2>2 DEF CallInProgress, RN!Return, RN!Next
<1>6. CASE \E k \in Top : StepDrop(k)
  BY <1>6, DropImplements DEF RN!Next
<1>7. CASE EndUpdate
  <2>1. /\ pc # "idle" /\ pc' # "idle" /\ running' = running /\ needed' = needed
    BY <1>7 DEF EndUpdate, game
  <2>2. RegNow' = RegNow /\ served' = served
    BY <1>7, EndUpdateIInv
  <2> QED
    BY <2>1, <2>2 DEF RN!ssvars
<1>8. CASE UpdateDone
  <2>1. /\ pc = "final" /\ pc' = "idle" /\ running' = running /\ needed' = needed
        /\ served' = served /\ RegNow' = RegNow
    BY <1>8, KeptRegNow DEF UpdateDone, queues, game
  <2> QED
    BY <2>1 DEF CallInProgress, RN!End, RN!Next
<1> QED
  BY <1>1, <1>2, <1>3, <1>4, <1>5, <1>6, <1>7, <1>8 DEF UpdateStep

LEMMA StepImplements ==
    ASSUME IInv, CallInProgress, [Next]_vars
    PROVE  [RN!Next]_(RN!ssvars)
<1>1. CASE UNCHANGED vars
  BY <1>1, KeptRegNow DEF RN!ssvars, vars, queues, step, game
<1> QED
  BY <1>1, GameImplements, UpdateImplements DEF Next

(* The scheduler implements ScheduledSet: seen through Registered, which   *)
(* counts the pending requests, a registration and an unregistration take  *)
(* effect at once, applying requests changes nothing, and an object is     *)
(* called only while registered, when it needs it and once in an Update.   *)
THEOREM SetImplemented == Spec => ImplementsScheduledSet
<1>1. Init => SS!Init
  <2> SUFFICES ASSUME Init PROVE SS!Init
    OBVIOUS
  <2>1. Items = <<>> /\ ItemsProcessed = <<>> /\ ItemsRT = <<>> /\ Registration = <<>>
    BY DEF Init
  <2>2. /\ m_current_step_obj = NULL /\ served = {} /\ needed = {} /\ pc = "idle"
        /\ running = NULL
    BY DEF Init
  <2>3. \A o \in Objects : ~Registered(o)
    BY <2>1, <2>2, ObjectsAssumption
    DEF Registered, Pending, Placed, InItems, InProcessed, InRT
  <2> QED
    BY <2>2, <2>3 DEF SS!Init
<1>2. (IInv => Reg = RegNow)'
  BY RegIsRegNow, PTL
<1>3. IInv /\ IInv' /\ CallInProgress /\ [Next]_vars => [SS!Next]_(SS!ssvars)
  <2> SUFFICES ASSUME IInv, IInv', CallInProgress, [Next]_vars
               PROVE  [SS!Next]_(SS!ssvars)
    OBVIOUS
  <2>1. Reg = RegNow /\ Reg' = RegNow'
    BY <1>2, RegIsRegNow
  <2>2. [RN!Next]_(RN!ssvars)
    BY StepImplements
  <2>3. SS!ssvars = RN!ssvars /\ (SS!ssvars)' = (RN!ssvars)'
    BY <2>1 DEF SS!ssvars, RN!ssvars, Reg
  <2>4. SS!GameRuns = RN!GameRuns
    BY DEF SS!GameRuns, RN!GameRuns
  <2>5. ASSUME NEW o \in Objects
        PROVE  /\ RN!Need(o) => SS!Need(o)
               /\ RN!Register(o) => SS!Register(o)
               /\ RN!Unregister(o) => SS!Unregister(o)
               /\ RN!Delete(o) => SS!Delete(o)
               /\ RN!Call(o) => SS!Call(o)
               /\ RN!Drop(o) => SS!Drop(o)
    BY <2>1, <2>4 DEF Reg, SS!Need, RN!Need, SS!Register, RN!Register,
        SS!Unregister, RN!Unregister, SS!Delete, RN!Delete, SS!Call, RN!Call,
        SS!Drop, RN!Drop
  <2>6. /\ RN!Begin => SS!Begin
        /\ RN!Return => SS!Return
        /\ RN!End => SS!End
    BY <2>1 DEF Reg, SS!Begin, RN!Begin, SS!Return, RN!Return, SS!End, RN!End
  <2> QED
    BY <2>2, <2>3, <2>5, <2>6 DEF SS!Next, RN!Next
<1> QED
  BY <1>1, <1>3, ShedulerInvariant, CallsRun, PTL
  DEF Spec, ImplementsScheduledSet, SS!Spec

=============================================================================
