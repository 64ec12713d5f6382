-------------------------- MODULE RegistratorProofs -------------------------
(***************************************************************************)
(* The message registrators, proved for any handlers, any priorities and   *)
(* lists of any length.                                                    *)
(*                                                                         *)
(* The list is bound to the history variables in two ways: it holds one    *)
(* valid entry per registered handler, whatever the sort did to it         *)
(* (ListOK), and within a pass an entry below the index has been called    *)
(* and one above it has not (PassOK), because Add only appends then and    *)
(* Remove only invalidates.                                                *)
(***************************************************************************)
EXTENDS Registrator, FiniteSetTheorems, SequenceTheorems, TLAPS

Entry == [Object : Handlers, Prio : Int]

(* One valid entry per handler of reg, with the priority it was added with.*)
Distinct(s) ==
    \A j, k \in DOMAIN s :
        Valid(s[j]) /\ Valid(s[k]) /\ s[j].Object = s[k].Object => j = k
Holds(s, h) == \E k \in DOMAIN s : Valid(s[k]) /\ s[k].Object = h

ListOK(s, reg) ==
    /\ s \in Seq(Entry)
    /\ Distinct(s)
    /\ \A k \in DOMAIN s : Valid(s[k]) => s[k].Prio = Prio[s[k].Object]
    /\ \A h \in Handlers : Holds(s, h) <=> h \in reg

TidyList(s) == Descending(s) /\ (s # <<>> => Valid(s[Len(s)]))

(* A list that was changed in a pass is sorted when it ends.               *)
SortOK == (~changed => TidyList(R)) /\ (~in_process => ~changed)

Reached(k) == k < i \/ (k = i /\ calling)
Stays(k)   == Valid(R[k]) /\ R[k].Object \in stayed

(* What the pass has called, and in which order it will call the rest.     *)
PassOK ==
    /\ i <= Len(R) + 1
    /\ i = 0 => stayed = {}
    /\ \A h \in Handlers :
          called[h] <= IF calling THEN i ELSE IF i = 0 THEN 0 ELSE i - 1
    /\ \A k \in DOMAIN R :
          Stays(k) => called[R[k].Object] = IF Reached(k) THEN 1 ELSE 0
    /\ tidy => \A j, k \in DOMAIN R :
                  j < k /\ Stays(j) /\ Stays(k) => R[j].Prio >= R[k].Prio

(* The two parts of TypeOK.                                                *)
FlagTypes ==
    /\ in_process \in BOOLEAN /\ changed \in BOOLEAN
    /\ calling \in BOOLEAN /\ tidy \in BOOLEAN
OtherTypes ==
    /\ R \in Seq(Entry) /\ Len(R) \in 0 .. MaxLen
    /\ i \in 0 .. MaxLen + 1
    /\ (calling => i \in DOMAIN R) /\ (i # 0 => in_process)
    /\ stayed \subseteq registered /\ registered \subseteq Handlers
    /\ called \in [Handlers -> 0 .. MaxLen]

IInv == FlagTypes /\ OtherTypes /\ ListOK(R, registered) /\ SortOK /\ PassOK

-----------------------------------------------------------------------------
(* The list.                                                               *)

(* A permutation of the places of a list is one to one and onto.           *)
LEMMA PlacesOneToOne ==
    ASSUME NEW n \in Nat, NEW p \in Bijection(1 .. n, 1 .. n)
    PROVE  /\ p \in [1 .. n -> 1 .. n]
           /\ \A j, k \in 1 .. n : p[j] = p[k] => j = k
           /\ \A k \in 1 .. n : \E j \in 1 .. n : p[j] = k
  BY DEF Bijection, Injection, IsInjective, Surjection

(* The sort, with the invalid entries popped from the back, loses no valid *)
(* entry and doubles none.                                                 *)
LEMMA SortedKeeps ==
    ASSUME NEW reg, NEW s, ListOK(s, reg), NEW t \in Sorted(s)
    PROVE  ListOK(t, reg) /\ TidyList(t) /\ Len(t) <= Len(s)
<1>1. s \in Seq(Entry) /\ Len(s) \in Nat /\ DOMAIN s = 1 .. Len(s)
  BY DEF ListOK
<1>2. PICK p \in Bijection(1 .. Len(s), 1 .. Len(s)) :
        LET u == [k \in 1 .. Len(s) |-> s[p[k]]]
        IN  /\ Descending(u)
            /\ \E n \in Kept(u) : t = SubSeq(u, 1, n)
  <2>1. PICK v \in {[k \in DOMAIN s |-> s[p[k]]] : p \in Bijection(DOMAIN s, DOMAIN s)} :
          Descending(v) /\ t \in {SubSeq(v, 1, n) : n \in Kept(v)}
    BY DEF Sorted
  <2>2. PICK p \in Bijection(DOMAIN s, DOMAIN s) : v = [k \in DOMAIN s |-> s[p[k]]]
    BY <2>1
  <2>3. \E n \in Kept(v) : t = SubSeq(v, 1, n)
    BY <2>1
  <2>4. p \in Bijection(1 .. Len(s), 1 .. Len(s))
    BY <1>1, <2>2
  <2>5. v = [k \in 1 .. Len(s) |-> s[p[k]]]
    BY <1>1, <2>2
  <2> QED
    BY <2>1, <2>3, <2>4, <2>5
<1> DEFINE u == [k \in 1 .. Len(s) |-> s[p[k]]]
<1>3. /\ p \in [1 .. Len(s) -> 1 .. Len(s)]
      /\ \A j, k \in 1 .. Len(s) : p[j] = p[k] => j = k
      /\ \A k \in 1 .. Len(s) : \E j \in 1 .. Len(s) : p[j] = k
  BY <1>1, <1>2, PlacesOneToOne
<1>4. u \in Seq(Entry) /\ Len(u) = Len(s) /\ DOMAIN u = 1 .. Len(s)
  <2>1. \A k \in 1 .. Len(s) : s[p[k]] \in Entry
    BY <1>1, <1>3, ElementOfSeq
  <2> QED
    BY <1>1, <2>1
<1>5. PICK n \in Kept(u) : t = SubSeq(u, 1, n)
  BY <1>2
<1>6. Descending(u) /\ \A k \in 1 .. Len(s) : u[k] = s[p[k]]
  BY <1>2
<1> HIDE DEF u
<1>7. /\ n \in 0 .. Len(s)
      /\ n # 0 => Valid(u[n])
      /\ \A k \in n + 1 .. Len(s) : ~Valid(u[k])
  BY <1>4, <1>5 DEF Kept
<1>8. /\ t \in Seq(Entry) /\ Len(t) = n /\ DOMAIN t = 1 .. n
      /\ \A k \in 1 .. n : t[k] = u[k]
  <2>1. \A k \in 1 .. n : u[k] \in Entry
    BY <1>4, <1>7, ElementOfSeq
  <2>2. /\ t \in Seq(Entry) /\ Len(t) = IF 1 <= n THEN n - 1 + 1 ELSE 0
        /\ \A k \in 1 .. n - 1 + 1 : t[k] = u[1 + k - 1]
    BY <1>5, <1>7, <2>1, SubSeqProperties
  <2> QED
    BY <1>7, <2>2
<1>9. TidyList(t)
  BY <1>4, <1>6, <1>7, <1>8 DEF TidyList, Descending
<1>10. \A k \in 1 .. n : t[k] = s[p[k]] /\ p[k] \in 1 .. Len(s)
  <2>1. \A k \in 1 .. n : k \in 1 .. Len(s)
    BY <1>1, <1>7
  <2>2. \A k \in 1 .. Len(s) : p[k] \in 1 .. Len(s)
    BY <1>3
  <2> QED
    BY <1>6, <1>8, <2>1, <2>2
<1>11. \A m \in 1 .. Len(s) : Valid(s[m]) => \E k \in 1 .. n : p[k] = m
  BY <1>1, <1>3, <1>6, <1>7
<1>12. Distinct(t)
  <2>1. SUFFICES ASSUME NEW j \in 1 .. n, NEW k \in 1 .. n, Valid(t[j]), Valid(t[k]),
                        t[j].Object = t[k].Object
                 PROVE  j = k
    BY <1>8 DEF Distinct
  <2>2. p[j] = p[k]
    BY <1>1, <1>10, <2>1 DEF ListOK, Distinct
  <2>3. j \in 1 .. Len(s) /\ k \in 1 .. Len(s)
    BY <1>1, <1>7
  <2> QED
    BY <1>3, <2>2, <2>3
<1>13. \A k \in DOMAIN t : Valid(t[k]) => t[k].Prio = Prio[t[k].Object]
  BY <1>1, <1>8, <1>10 DEF ListOK
<1>14. ASSUME NEW h \in Handlers PROVE Holds(t, h) <=> Holds(s, h)
  BY <1>1, <1>8, <1>10, <1>11 DEF Holds
<1> QED
  BY <1>1, <1>7, <1>8, <1>9, <1>12, <1>13, <1>14 DEF ListOK

(* An entry appended for a new handler.                                    *)
LEMMA AppendKeeps ==
    ASSUME NEW reg, NEW s, ListOK(s, reg), NEW h \in Handlers, h \notin reg
    PROVE  LET t == Append(s, [Object |-> h, Prio |-> Prio[h]])
           IN  /\ ListOK(t, reg \cup {h})
               /\ Len(t) = Len(s) + 1 /\ DOMAIN t = 1 .. Len(s) + 1
               /\ \A k \in 1 .. Len(s) : t[k] = s[k]
               /\ t[Len(s) + 1].Object = h
<1> DEFINE e == [Object |-> h, Prio |-> Prio[h]]
           t == Append(s, e)
<1>1. s \in Seq(Entry) /\ Len(s) \in Nat /\ DOMAIN s = 1 .. Len(s)
  BY DEF ListOK
<1>2. e \in Entry /\ Valid(e)
  BY PrioAssumption DEF Entry, Valid
<1>3. /\ t \in Seq(Entry) /\ Len(t) = Len(s) + 1 /\ DOMAIN t = 1 .. Len(s) + 1
      /\ \A k \in 1 .. Len(s) : t[k] = s[k]
      /\ t[Len(s) + 1] = e
  BY <1>1, <1>2
<1>4. e.Object = h /\ e.Prio = Prio[h]
  OBVIOUS
<1> HIDE DEF e, t
<1>5. Distinct(t)
  BY <1>1, <1>3, <1>4 DEF ListOK, Distinct, Holds
<1>6. \A k \in DOMAIN t : Valid(t[k]) => t[k].Prio = Prio[t[k].Object]
  BY <1>1, <1>3, <1>4 DEF ListOK
<1>7. \A g \in Handlers : Holds(t, g) <=> g \in reg \cup {h}
  BY <1>1, <1>2, <1>3, <1>4 DEF ListOK, Holds
<1>8. ListOK(t, reg \cup {h})
  BY <1>3, <1>5, <1>6, <1>7 DEF ListOK
<1> QED
  BY <1>3, <1>4, <1>8 DEF t, e

Without(s, h) ==
    [k \in DOMAIN s |-> IF s[k].Object = h THEN [s[k] EXCEPT !.Prio = Invalid]
                        ELSE s[k]]

(* The entries of a handler made invalid.                                  *)
LEMMA WithoutKeeps ==
    ASSUME NEW reg, NEW s, ListOK(s, reg), NEW h \in Handlers
    PROVE  /\ ListOK(Without(s, h), reg \ {h})
           /\ Len(Without(s, h)) = Len(s) /\ DOMAIN Without(s, h) = 1 .. Len(s)
           /\ \A k \in 1 .. Len(s) :
                 /\ Without(s, h)[k].Object = s[k].Object
                 /\ Valid(Without(s, h)[k])
                       => Without(s, h)[k] = s[k] /\ s[k].Object # h
<1> DEFINE t == Without(s, h)
<1>1. s \in Seq(Entry) /\ Len(s) \in Nat /\ DOMAIN s = 1 .. Len(s)
  BY DEF ListOK
<1>2. ASSUME NEW k \in 1 .. Len(s)
      PROVE  /\ t[k] = IF s[k].Object = h THEN [s[k] EXCEPT !.Prio = Invalid]
                       ELSE s[k]
             /\ t[k] \in Entry /\ t[k].Object = s[k].Object
             /\ Valid(t[k]) <=> Valid(s[k]) /\ s[k].Object # h
             /\ Valid(t[k]) => t[k] = s[k]
  <2>1. s[k] \in Entry
    BY <1>1, ElementOfSeq
  <2>2. t[k] = IF s[k].Object = h THEN [s[k] EXCEPT !.Prio = Invalid] ELSE s[k]
    BY <1>1 DEF Without
  <2> QED
    BY <2>1, <2>2 DEF Entry, Valid, Invalid
<1>3. t \in Seq(Entry) /\ Len(t) = Len(s) /\ DOMAIN t = 1 .. Len(s)
  <2>1. t = [k \in 1 .. Len(s) |-> IF s[k].Object = h
                THEN [s[k] EXCEPT !.Prio = Invalid] ELSE s[k]]
    BY <1>1 DEF Without
  <2>2. t \in [1 .. Len(s) -> Entry]
    BY <1>2, <2>1
  <2> QED
    BY <1>1, <2>1, <2>2
<1> HIDE DEF t
<1>4. Distinct(t)
  BY <1>1, <1>2, <1>3 DEF ListOK, Distinct
<1>5. \A k \in DOMAIN t : Valid(t[k]) => t[k].Prio = Prio[t[k].Object]
  BY <1>1, <1>2, <1>3 DEF ListOK
<1>6. \A g \in Handlers : Holds(t, g) <=> g \in reg \ {h}
  BY <1>1, <1>2, <1>3 DEF ListOK, Holds
<1>7. ListOK(t, reg \ {h})
  BY <1>3, <1>4, <1>5, <1>6 DEF ListOK
<1> QED
  BY <1>2, <1>3, <1>7 DEF t

-----------------------------------------------------------------------------
(* The steps.                                                              *)

(* The list typed once.                                                    *)
LEMMA ListType ==
    ASSUME IInv
    PROVE  /\ R \in Seq(Entry) /\ Len(R) \in Nat /\ DOMAIN R = 1 .. Len(R)
           /\ \A k \in 1 .. Len(R) : R[k] \in Entry
  BY ElementOfSeq DEF IInv, ListOK

(* At the start the list is empty and no pass runs.                        *)
LEMMA InitIInv ==
    ASSUME Init PROVE IInv
<1>1. FlagTypes /\ OtherTypes
  <2>1. FlagTypes
    BY DEF Init, FlagTypes
  <2>2. OtherTypes
    BY LenAssumption, EmptySeq DEF Init, OtherTypes
  <2> QED
    BY <2>1, <2>2
<1>2. ListOK(R, registered)
  BY EmptySeq DEF Init, ListOK, Distinct, Holds
<1>3. SortOK
  BY DEF Init, SortOK, TidyList, Descending
<1>4. PassOK
  BY DEF Init, PassOK, Stays
<1> QED
  BY <1>1, <1>2, <1>3, <1>4 DEF IInv

(* Add, in a pass and outside.                                             *)
LEMMA AddIInv ==
    ASSUME NEW h \in Handlers, IInv, Add(h) PROVE IInv'
<1> DEFINE t == Append(R, [Object |-> h, Prio |-> Prio[h]])
<1>1. /\ ListOK(t, registered')
      /\ Len(t) = Len(R) + 1 /\ DOMAIN t = 1 .. Len(R) + 1
      /\ \A k \in 1 .. Len(R) : t[k] = R[k]
      /\ t[Len(R) + 1].Object = h
  BY AppendKeeps DEF IInv, Add
<1>2. \/ in_process /\ R' = t /\ changed' = TRUE
      \/ ~in_process /\ R' \in Sorted(t) /\ changed' = FALSE
  BY DEF Add, Resort
<1>3. h \notin registered /\ Len(R) < MaxLen /\ registered' = registered \cup {h}
      /\ UNCHANGED <<in_process, i, calling, stayed, called, tidy>>
  BY DEF Add
<1> HIDE DEF t
<1>4. Len(R') <= Len(t) /\ ListOK(R', registered') /\ (~changed' => TidyList(R'))
  BY <1>1, <1>2, SortedKeeps, ListType
<1>5. R' \in Seq(Entry) /\ Len(R') \in 0 .. MaxLen
  <2>1. R' \in Seq(Entry)
    BY <1>4 DEF ListOK
  <2>2. Len(R') \in Nat
    BY <2>1
  <2> QED
    BY <1>1, <1>3, <1>4, <2>1, <2>2, ListType, LenAssumption DEF IInv, OtherTypes
<1>6. ~in_process => i = 0 /\ ~calling
  BY ListType DEF IInv, OtherTypes
<1>7. FlagTypes' /\ OtherTypes'
  <2>1. FlagTypes'
    BY <1>2, <1>3 DEF IInv, FlagTypes
  <2>2. OtherTypes'
    BY <1>1, <1>2, <1>3, <1>5, <1>6, ListType DEF IInv, OtherTypes
  <2> QED
    BY <2>1, <2>2
<1>8. SortOK'
  BY <1>2, <1>3, <1>4 DEF SortOK
<1>9. PassOK'
  <2>1. CASE in_process
    <3>1. PassOK /\ stayed \subseteq registered /\ Len(R) \in Nat /\ DOMAIN R = 1 .. Len(R)
      BY ListType DEF IInv, OtherTypes
    <3>2. R' = t /\ DOMAIN R' = 1 .. Len(R) + 1 /\ Len(R') = Len(R) + 1
      BY <1>1, <1>2, <2>1
    <3>3. R'[Len(R) + 1].Object \notin stayed'
      BY <1>1, <1>3, <3>1, <3>2
    <3>4. \A k \in DOMAIN R' : Stays(k)' => k \in DOMAIN R
      <4>1. SUFFICES ASSUME NEW k \in DOMAIN R', k \notin DOMAIN R PROVE ~Stays(k)'
        OBVIOUS
      <4>2. k = Len(R) + 1
        BY <3>1, <3>2, <4>1
      <4> QED
        BY <3>3, <4>2 DEF Stays
    <3>5. \A k \in DOMAIN R : R'[k] = R[k] /\ (Stays(k)' <=> Stays(k))
                              /\ (Reached(k)' <=> Reached(k))
      BY <1>1, <1>3, <3>1, <3>2 DEF Stays, Reached
    <3>6. i \in Nat /\ i <= Len(R') + 1
      BY <3>1, <3>2 DEF IInv, OtherTypes, PassOK
    <3>7. \A k \in DOMAIN R' :
              Stays(k)' => called'[R'[k].Object] = IF Reached(k)' THEN 1 ELSE 0
      BY <1>3, <3>1, <3>4, <3>5 DEF PassOK
    <3>8. tidy' => \A j, k \in DOMAIN R' :
              j < k /\ Stays(j)' /\ Stays(k)' => R'[j].Prio >= R'[k].Prio
      BY <1>3, <3>1, <3>4, <3>5 DEF PassOK
    <3> QED
      BY <1>3, <3>1, <3>6, <3>7, <3>8 DEF PassOK
  <2>2. CASE ~in_process
    BY <1>3, <1>5, <1>6, <2>2 DEF IInv, OtherTypes, PassOK, Stays
  <2> QED
    BY <2>1, <2>2
<1> QED
  BY <1>4, <1>7, <1>8, <1>9 DEF IInv

(* Remove, in a pass and outside.                                          *)
LEMMA RemoveIInv ==
    ASSUME NEW h \in Handlers, IInv, Remove(h) PROVE IInv'
<1> DEFINE t == Without(R, h)
<1>1. /\ ListOK(t, registered')
      /\ Len(t) = Len(R) /\ DOMAIN t = 1 .. Len(R)
      /\ \A k \in 1 .. Len(R) :
            /\ t[k].Object = R[k].Object
            /\ Valid(t[k]) => t[k] = R[k] /\ R[k].Object # h
  <2>1. ListOK(R, registered) /\ registered' = registered \ {h}
    BY DEF IInv, Remove
  <2>2. /\ ListOK(t, registered \ {h})
        /\ Len(t) = Len(R) /\ DOMAIN t = 1 .. Len(R)
        /\ \A k \in 1 .. Len(R) :
              /\ t[k].Object = R[k].Object
              /\ Valid(t[k]) => t[k] = R[k] /\ R[k].Object # h
    BY ONLY <2>1, WithoutKeeps
  <2> QED
    BY <2>1, <2>2
<1>2. \/ in_process /\ R' = t /\ changed' = TRUE
      \/ ~in_process /\ R' \in Sorted(t) /\ changed' = FALSE
  BY DEF Remove, Resort, Without
<1>3. /\ registered' = registered \ {h} /\ stayed' = stayed \ {h}
      /\ UNCHANGED <<in_process, i, calling, called, tidy>>
  BY DEF Remove
<1> HIDE DEF t
<1>4. Len(R') <= Len(t) /\ ListOK(R', registered') /\ (~changed' => TidyList(R'))
  BY <1>1, <1>2, SortedKeeps, ListType
<1>5. R' \in Seq(Entry) /\ Len(R') \in 0 .. MaxLen
  <2>1. R' \in Seq(Entry)
    BY <1>4 DEF ListOK
  <2>2. Len(R') \in Nat
    BY <2>1
  <2> QED
    BY <1>1, <1>4, <2>1, <2>2, ListType, LenAssumption DEF IInv, OtherTypes
<1>6. ~in_process => i = 0 /\ ~calling
  BY ListType DEF IInv, OtherTypes
<1>7. FlagTypes' /\ OtherTypes'
  <2>1. FlagTypes'
    BY <1>2, <1>3 DEF IInv, FlagTypes
  <2>2. OtherTypes'
    BY <1>1, <1>2, <1>3, <1>5, <1>6, ListType DEF IInv, OtherTypes
  <2> QED
    BY <2>1, <2>2
<1>8. SortOK'
  BY <1>2, <1>3, <1>4 DEF SortOK
<1>9. PassOK'
  <2>1. CASE in_process
    BY <1>1, <1>2, <1>3, <2>1, ListType DEF IInv, OtherTypes, PassOK, Stays, Reached
  <2>2. CASE ~in_process
    BY <1>3, <1>5, <1>6, <2>2 DEF IInv, OtherTypes, PassOK, Stays
  <2> QED
    BY <2>1, <2>2
<1> QED
  BY <1>4, <1>7, <1>8, <1>9 DEF IInv

(* A pass begins: nothing has been called, and the list is tidy unless the *)
(* pass before was empty.                                                  *)
LEMMA BeginIInv ==
    ASSUME IInv, Begin PROVE IInv'
<1>1. FlagTypes' /\ OtherTypes'
  <2>1. FlagTypes'
    BY Zenon DEF IInv, FlagTypes, Begin
  <2>2. OtherTypes'
    BY ListType, LenAssumption DEF IInv, OtherTypes, Begin
  <2> QED
    BY <2>1, <2>2
<1>2. ListOK(R, registered)'
  BY DEF IInv, Begin, ListOK, Distinct, Holds
<1>3. SortOK'
  BY DEF IInv, Begin, SortOK, TidyList, Descending
<1>4. PassOK'
  <2>1. CASE R = <<>>
    BY <2>1, ListType DEF IInv, OtherTypes, Begin, PassOK, Stays, Reached
  <2>2. CASE R # <<>>
    <3>1. i' = 1 /\ ~calling' /\ Len(R) \in Nat \ {0} /\ UNCHANGED <<R, called>>
      BY <2>2, ListType DEF IInv, OtherTypes, Begin
    <3>2. \A h \in Handlers : called[h] = 0
      BY LenAssumption DEF IInv, OtherTypes, PassOK, Begin
    <3>3. tidy' => Descending(R)
      BY <2>2 DEF IInv, SortOK, TidyList, Begin
    <3>4. \A k \in 1 .. Len(R) : ~Reached(k)'
      BY <3>1 DEF Reached
    <3>5. \A k \in 1 .. Len(R) : R[k].Object \in Handlers
      BY ListType DEF Entry
    <3> QED
      BY <3>1, <3>2, <3>3, <3>4, <3>5, ListType DEF PassOK, Stays, Descending
  <2> QED
    BY <2>1, <2>2
<1> QED
  BY <1>1, <1>2, <1>3, <1>4 DEF IInv

(* The valid entry at the index is called.                                 *)
LEMMA CallIInv ==
    ASSUME IInv, Call PROVE IInv'
<1>1. R[i].Object \in Handlers /\ i \in 1 .. Len(R)
  BY ListType DEF Call, Entry
<1>2. FlagTypes' /\ OtherTypes'
  <2>1. FlagTypes'
    BY DEF IInv, FlagTypes, Call
  <2>2. OtherTypes'
    BY <1>1, ListType, LenAssumption DEF IInv, OtherTypes, Call, PassOK
  <2> QED
    BY <2>1, <2>2
<1>3. ListOK(R, registered)'
  BY DEF IInv, Call, ListOK, Distinct, Holds
<1>4. SortOK'
  BY DEF IInv, Call, SortOK, TidyList, Descending
<1>5. PassOK'
  BY <1>1, ListType DEF IInv, OtherTypes, Call, PassOK, Stays, Reached, ListOK, Distinct
<1> QED
  BY <1>2, <1>3, <1>4, <1>5 DEF IInv

(* The return from a call ends the pass or leaves it at its next place.    *)
LEMMA ReturnIInv ==
    ASSUME IInv, Return PROVE IInv'
<1>1. FlagTypes' /\ OtherTypes'
  <2>1. FlagTypes'
    BY DEF IInv, FlagTypes, Return
  <2>2. OtherTypes'
    BY ListType, LenAssumption DEF IInv, OtherTypes, Return
  <2> QED
    BY <2>1, <2>2
<1>2. ListOK(R, registered)'
  BY DEF IInv, Return, ListOK, Distinct, Holds
<1>3. SortOK'
  BY DEF IInv, Return, SortOK, TidyList, Descending
<1>4. PassOK'
  BY ListType, LenAssumption DEF IInv, OtherTypes, Return, PassOK, Stays, Reached
<1> QED
  BY <1>1, <1>2, <1>3, <1>4 DEF IInv

(* An invalid entry is passed over: it is nobody's.                        *)
LEMMA SkipIInv ==
    ASSUME IInv, Skip PROVE IInv'
<1>1. FlagTypes' /\ OtherTypes'
  <2>1. FlagTypes'
    BY DEF IInv, FlagTypes, Skip
  <2>2. OtherTypes'
    BY ListType, LenAssumption DEF IInv, OtherTypes, Skip
  <2> QED
    BY <2>1, <2>2
<1>2. ListOK(R, registered)'
  BY DEF IInv, Skip, ListOK, Distinct, Holds
<1>3. SortOK'
  BY DEF IInv, Skip, SortOK, TidyList, Descending
<1>4. PassOK'
  BY ListType, LenAssumption DEF IInv, OtherTypes, Skip, PassOK, Stays, Reached
<1> QED
  BY <1>1, <1>2, <1>3, <1>4 DEF IInv

(* The pass ends, and what was put off is sorted.                          *)
LEMMA EndIInv ==
    ASSUME IInv, End PROVE IInv'
<1>1. /\ ListOK(R', registered') /\ Len(R') <= Len(R) /\ TidyList(R')
  BY SortedKeeps, ListType DEF IInv, End, SortOK
<1>2. R' \in Seq(Entry) /\ Len(R') \in Nat
  BY <1>1 DEF ListOK
<1>3. FlagTypes' /\ OtherTypes'
  <2>1. FlagTypes'
    BY DEF IInv, FlagTypes, End
  <2>2. OtherTypes'
    BY <1>1, <1>2, ListType, LenAssumption DEF IInv, OtherTypes, End
  <2> QED
    BY <2>1, <2>2
<1>4. SortOK'
  BY <1>1 DEF SortOK, End
<1>5. PassOK'
  BY <1>2 DEF PassOK, Stays, End
<1> QED
  BY <1>1, <1>3, <1>4, <1>5 DEF IInv

(* The invariant reads the variables only.                                 *)
LEMMA StutterIInv ==
    ASSUME IInv, UNCHANGED vars PROVE IInv'
<1>1. FlagTypes' /\ OtherTypes'
  <2>1. FlagTypes'
    BY DEF vars, IInv, FlagTypes
  <2>2. OtherTypes'
    BY DEF vars, IInv, OtherTypes
  <2> QED
    BY <2>1, <2>2
<1>2. ListOK(R, registered)'
  BY DEF vars, IInv, ListOK, Distinct, Holds
<1>3. SortOK'
  BY DEF vars, IInv, SortOK, TidyList, Descending
<1>4. PassOK'
  BY DEF vars, IInv, PassOK, Stays, Reached
<1> QED
  BY <1>1, <1>2, <1>3, <1>4 DEF IInv

(* Every step of Process, Add and Remove keeps the invariant.              *)
LEMMA StepIInv ==
    ASSUME IInv, [Next]_vars PROVE IInv'
  BY BeginIInv, CallIInv, ReturnIInv, SkipIInv, EndIInv, AddIInv, RemoveIInv,
     StutterIInv DEF Next

-----------------------------------------------------------------------------
(* The theorems.                                                           *)

(* The inductive invariant holds, however the calls are nested.            *)
THEOREM RegistratorInvariant == Spec => []IInv
  BY InitIInv, StepIInv, PTL DEF Spec

(* The index stays within the list, a call within a pass, and every        *)
(* variable in its range.                                                  *)
THEOREM RegistratorTypes == Spec => []TypeOK
<1>1. IInv => TypeOK
  BY DEF IInv, FlagTypes, OtherTypes, TypeOK, Entry
<1> QED
  BY <1>1, RegistratorInvariant, PTL

(* A registered handler has one valid entry, any other has none, for any   *)
(* handlers and priorities: the sort does not lose or double one.          *)
THEOREM EntryOfEach == Spec => []OneEntry
<1>1. ASSUME IInv, NEW h \in Handlers
      PROVE  Cardinality(Entries(h)) = IF h \in registered THEN 1 ELSE 0
  <2>1. ListOK(R, registered)
    BY <1>1 DEF IInv
  <2>2. CASE h \in registered
    <3>1. PICK k \in DOMAIN R : Valid(R[k]) /\ R[k].Object = h
      BY <2>1, <2>2 DEF ListOK, Holds
    <3>2. Entries(h) = {k}
      BY <2>1, <3>1 DEF ListOK, Distinct, Entries
    <3> QED
      BY <2>2, <3>2, FS_Singleton
  <2>3. CASE h \notin registered
    <3>1. Entries(h) = {}
      BY <2>1, <2>3 DEF ListOK, Holds, Entries
    <3> QED
      BY <2>3, <3>1, FS_EmptySet
  <2> QED
    BY <2>2, <2>3
<1>2. IInv => OneEntry
  BY <1>1 DEF OneEntry
<1> QED
  BY <1>2, RegistratorInvariant, PTL

(* Outside Process the list is sorted, and the entry at its back is that   *)
(* of a registered handler, whose priority is below that of the invalid    *)
(* entries in front of it.                                                 *)
THEOREM ListSorted == Spec => []SortedBetweenPasses
<1>1. ASSUME IInv, ~in_process
      PROVE  /\ Descending(R)
             /\ \A k \in DOMAIN R : ~Valid(R[k]) =>
                   \E n \in k + 1 .. Len(R) :
                       R[n].Object \in registered /\ R[n].Prio < Invalid
  <2>1. TidyList(R) /\ ListOK(R, registered)
    BY <1>1 DEF IInv, SortOK
  <2>2. SUFFICES ASSUME NEW k \in DOMAIN R, ~Valid(R[k])
                 PROVE  \E n \in k + 1 .. Len(R) :
                            R[n].Object \in registered /\ R[n].Prio < Invalid
    BY <2>1 DEF TidyList
  <2>3. /\ Len(R) \in Nat /\ DOMAIN R = 1 .. Len(R)
        /\ \A n \in DOMAIN R : R[n].Object \in Handlers /\ R[n].Prio \in Int
    BY <1>1, ListType DEF IInv, ListOK, Entry
  <2>4. Valid(R[Len(R)]) /\ Len(R) \in DOMAIN R /\ k < Len(R)
    BY <2>1, <2>2, <2>3 DEF TidyList
  <2>5. R[k].Prio >= R[Len(R)].Prio /\ R[k].Prio = Invalid
    BY <2>1, <2>2, <2>4 DEF TidyList, Descending, Valid
  <2>6. R[Len(R)].Prio < Invalid
    BY <2>3, <2>4, <2>5 DEF Valid, Invalid
  <2>7. R[Len(R)].Object \in registered
    BY <2>1, <2>3, <2>4 DEF ListOK, Holds
  <2>8. Len(R) \in k + 1 .. Len(R)
    BY <2>3, <2>4
  <2> QED
    BY <2>6, <2>7, <2>8
<1>2. IInv => SortedBetweenPasses
  BY <1>1 DEF SortedBetweenPasses
<1> QED
  BY <1>2, RegistratorInvariant, PTL

(* No handler is called that is not registered at that moment.             *)
THEOREM RegisteredWhenCalled == Spec => CalledWhileRegistered
<1>1. ASSUME IInv, [Next]_vars, ~calling, calling'
      PROVE  R[i].Object \in registered
  <2>1. Call
    BY <1>1 DEF Next, vars, Begin, Return, Skip, End, Add, Remove
  <2> QED
    BY <1>1, <2>1, ListType DEF IInv, Call, ListOK, Holds, Entry
<1>2. IInv /\ [Next]_vars => [(~calling /\ calling') => R[i].Object \in registered]_vars
  BY <1>1
<1> QED
  BY <1>2, RegistratorInvariant, PTL DEF Spec, CalledWhileRegistered

(* A pass calls each handler that stayed registered once, whatever the     *)
(* handlers did to the list.                                               *)
THEOREM CalledOnceEach == Spec => EachCalledOnce
<1>1. ASSUME IInv, [Next]_vars, i # 0, i' = 0, NEW h \in stayed
      PROVE  called[h] = 1
  <2>1. i = Len(R) + 1 /\ ~calling
    <3>1. i \in Nat
      BY <1>1, LenAssumption DEF IInv, OtherTypes
    <3>2. ~Begin /\ ~Return /\ ~Skip
      BY <1>1, <3>1 DEF Begin, Return, Skip
    <3>3. ~Call /\ ~UNCHANGED vars /\ \A g \in Handlers : ~Add(g) /\ ~Remove(g)
      BY <1>1 DEF Call, Add, Remove, vars
    <3>4. End
      BY <1>1, <3>2, <3>3 DEF Next
    <3> QED
      BY <1>1, <3>4, ListType DEF End, IInv, OtherTypes
  <2>2. h \in registered /\ h \in Handlers
    BY <1>1 DEF IInv, OtherTypes
  <2>3. PICK k \in 1 .. Len(R) : Valid(R[k]) /\ R[k].Object = h
    BY <1>1, <2>2, ListType DEF IInv, ListOK, Holds
  <2> QED
    BY <1>1, <2>1, <2>3, ListType DEF IInv, PassOK, Stays, Reached
<1>2. IInv /\ [Next]_vars => [(i # 0 /\ i' = 0) => \A h \in stayed : called[h] = 1]_vars
  BY <1>1
<1> QED
  BY <1>2, RegistratorInvariant, PTL DEF Spec, EachCalledOnce

(* When a handler that stays is called, those of higher priority have been.*)
THEOREM HigherCalledFirst == Spec => HigherFirst
<1>1. ASSUME IInv, [Next]_vars, ~calling, calling', tidy, R[i].Object \in stayed,
             NEW h \in stayed, Prio[h] > R[i].Prio
      PROVE  called[h] = 1
  <2>1. i \in 1 .. Len(R) /\ Valid(R[i])
    BY <1>1, ListType DEF Next, vars, Begin, Call, Return, Skip, End, Add, Remove
  <2>2. h \in registered /\ h \in Handlers
    BY <1>1 DEF IInv, OtherTypes
  <2>3. PICK k \in 1 .. Len(R) : Valid(R[k]) /\ R[k].Object = h
    BY <1>1, <2>2, ListType DEF IInv, ListOK, Holds
  <2>4. R[k].Prio = Prio[h] /\ R[k].Prio \in Int /\ R[i].Prio \in Int
    BY <1>1, <2>1, <2>3, ListType DEF IInv, ListOK, Entry
  <2>5. ~(i < k) /\ k # i
    BY <1>1, <2>1, <2>3, <2>4, ListType DEF IInv, PassOK, Stays
  <2> QED
    BY <1>1, <2>1, <2>3, <2>5, ListType DEF IInv, PassOK, Stays, Reached
<1>2. IInv /\ [Next]_vars =>
        [(~calling /\ calling' /\ tidy /\ R[i].Object \in stayed) =>
           \A h \in stayed : Prio[h] > R[i].Prio => called[h] = 1]_vars
  BY <1>1
<1> QED
  BY <1>2, RegistratorInvariant, PTL DEF Spec, HigherFirst
=============================================================================
