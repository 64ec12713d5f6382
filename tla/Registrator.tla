---------------------------- MODULE Registrator -----------------------------
(***************************************************************************)
(* CRegistrator (xrEngine/pure.h): the prioritised list of handlers behind *)
(* every message of the device (seqFrame, seqRender, seqAppActivate, ...). *)
(*                                                                         *)
(* Process walks the vector by index and calls the handlers, which add and *)
(* remove handlers of the same list: while it runs an Add only appends and *)
(* a Remove only invalidates, and the list is sorted when the pass ends.   *)
(***************************************************************************)
EXTENDS Integers, Sequences, FiniteSets, Functions

CONSTANTS
    Handlers,     \* objects that handle the message
    Prio,         \* the priority each is added with
    MaxLen        \* bound: entries of the list

Invalid == -1     \* REG_PRIORITY_INVALID, 0xffffffff as the int Prio

ASSUME PrioAssumption == Prio \in [Handlers -> Int \ {Invalid}]
ASSUME LenAssumption  == MaxLen \in Nat \ {0}

VARIABLES
    R,            \* the entries, from the front
    in_process, changed,
    i,            \* index of the loop of Process; 0 outside
    calling,      \* the handler of entry i is running
    registered,   \* history: handlers added and not removed since
    stayed,       \* history: handlers registered during the whole pass
    called,       \* history: how often each was called in this pass
    tidy          \* history: the pass did not follow an empty one

vars == <<R, in_process, changed, i, calling, registered, stayed, called, tidy>>

Valid(e) == e.Prio # Invalid
Entries(h) == {k \in DOMAIN R : R[k].Object = h /\ Valid(R[k])}

TypeOK ==
    /\ R \in Seq([Object : Handlers, Prio : Int]) /\ Len(R) \in 0 .. MaxLen
    /\ in_process \in BOOLEAN /\ changed \in BOOLEAN
    /\ calling \in BOOLEAN /\ tidy \in BOOLEAN
    /\ i \in 0 .. MaxLen + 1
    /\ (calling => i \in DOMAIN R) /\ (i # 0 => in_process)
    /\ stayed \subseteq registered /\ registered \subseteq Handlers
    /\ called \in [Handlers -> 0 .. MaxLen]

Init ==
    /\ R = <<>> /\ in_process = FALSE /\ changed = FALSE
    /\ i = 0 /\ calling = FALSE
    /\ registered = {} /\ stayed = {} /\ called = [h \in Handlers |-> 0]
    /\ tidy = FALSE

-----------------------------------------------------------------------------
Descending(s) == \A j, k \in DOMAIN s : j < k => s[j].Prio >= s[k].Prio

(* Mutated form: nothing is popped.                                        *)
Kept_All(s) == {Len(s)}

(* The invalid entries at the back are popped: how many are kept.          *)
Kept(s) == {n \in 0 .. Len(s) : /\ n # 0 => Valid(s[n])
                                /\ \A k \in n + 1 .. Len(s) : ~Valid(s[k])}

(* qsort by falling priority, equal ones in any order: invalid entries in  *)
(* front of a negative priority stay.                                      *)
Sorted(s) ==
    LET Permuted == {[k \in DOMAIN s |-> s[p[k]]] : p \in Bijection(DOMAIN s, DOMAIN s)}
    IN  UNION {{SubSeq(t, 1, n) : n \in Kept(t)} : t \in {u \in Permuted : Descending(u)}}

(* Mutated form: the list is sorted while it is walked.                    *)
Resort_Always(s) == R' \in Sorted(s) /\ changed' = FALSE

(* Mutated form: the sort is always left to the end of the next Process.   *)
Resort_Deferred(s) == R' = s /\ changed' = TRUE

(* What Add and Remove do after their change: inside Process the sort is   *)
(* left to its end.                                                        *)
Resort(s) ==
    IF in_process THEN R' = s /\ changed' = TRUE
    ELSE R' \in Sorted(s) /\ changed' = FALSE

Outside == i = 0 \/ calling

(* Add of an object that is not registered (VERIFY).                       *)
Add(h) ==
    /\ Outside /\ h \notin registered /\ Len(R) < MaxLen
    /\ registered' = registered \cup {h}
    /\ Resort(Append(R, [Object |-> h, Prio |-> Prio[h]]))
    /\ UNCHANGED <<in_process, i, calling, stayed, called, tidy>>

(* Mutated form: only entries the loop has not reached are invalidated.    *)
Remove_AheadOnly(h) ==
    /\ Outside
    /\ registered' = registered \ {h} /\ stayed' = stayed \ {h}
    /\ Resort([k \in DOMAIN R |-> IF R[k].Object = h /\ k > i
                                  THEN [R[k] EXCEPT !.Prio = Invalid] ELSE R[k]])
    /\ UNCHANGED <<in_process, i, calling, called, tidy>>

(* Remove, also of an object that is not registered.                       *)
Remove(h) ==
    /\ Outside
    /\ registered' = registered \ {h} /\ stayed' = stayed \ {h}
    /\ Resort([k \in DOMAIN R |-> IF R[k].Object = h
                                  THEN [R[k] EXCEPT !.Prio = Invalid] ELSE R[k]])
    /\ UNCHANGED <<in_process, i, calling, called, tidy>>

-----------------------------------------------------------------------------
(* Mutated form: the flag that protects the walk is not set.               *)
Begin_NoFlag ==
    /\ i = 0
    /\ IF R = <<>> THEN UNCHANGED <<i, stayed, tidy>>
       ELSE i' = 1 /\ stayed' = registered /\ tidy' = ~in_process
    /\ UNCHANGED <<R, in_process, changed, calling, registered, called>>

(* Process.  An empty list returns at once and leaves in_process set.      *)
Begin ==
    /\ i = 0
    /\ in_process' = TRUE
    /\ IF R = <<>> THEN UNCHANGED <<i, stayed, tidy>>
       ELSE i' = 1 /\ stayed' = registered /\ tidy' = ~in_process
    /\ UNCHANGED <<R, changed, calling, registered, called>>

(* Mutated form: entries removed in this pass are called.                  *)
Call_NoTest ==
    /\ i \in DOMAIN R /\ ~calling
    /\ calling' = TRUE /\ called' = [called EXCEPT ![R[i].Object] = @ + 1]
    /\ UNCHANGED <<R, in_process, changed, i, registered, stayed, tidy>>

Call ==
    /\ i \in DOMAIN R /\ ~calling /\ Valid(R[i])
    /\ calling' = TRUE /\ called' = [called EXCEPT ![R[i].Object] = @ + 1]
    /\ UNCHANGED <<R, in_process, changed, i, registered, stayed, tidy>>

Return ==
    /\ calling
    /\ calling' = FALSE /\ i' = i + 1
    /\ UNCHANGED <<R, in_process, changed, registered, stayed, called, tidy>>

Skip ==
    /\ i \in DOMAIN R /\ ~calling /\ ~Valid(R[i])
    /\ i' = i + 1
    /\ UNCHANGED <<R, in_process, changed, calling, registered, stayed, called, tidy>>

End ==
    /\ i = Len(R) + 1 /\ i > 1
    /\ IF changed THEN R' \in Sorted(R) ELSE UNCHANGED R
    /\ changed' = FALSE /\ in_process' = FALSE /\ i' = 0
    /\ stayed' = {} /\ called' = [h \in Handlers |-> 0]
    /\ tidy' = FALSE
    /\ UNCHANGED <<calling, registered>>

Next ==
    \/ Begin \/ Call \/ Return \/ Skip \/ End
    \/ \E h \in Handlers : Add(h) \/ Remove(h)

Spec == Init /\ [][Next]_vars

-----------------------------------------------------------------------------
(* A handler has one valid entry while it is registered and none when it   *)
(* is not, however Add, Remove and Process are nested: it is not called    *)
(* after Remove, which its destructor calls.                               *)
OneEntry ==
    \A h \in Handlers : Cardinality(Entries(h)) = IF h \in registered THEN 1 ELSE 0

CalledWhileRegistered ==
    [][(~calling /\ calling') => R[i].Object \in registered]_vars

(* A pass calls every handler that was registered all through it exactly   *)
(* once, whatever the other handlers added and removed on the way.         *)
EachCalledOnce ==
    [][(i # 0 /\ i' = 0) =>
         \A h \in stayed : called[h] = 1]_vars

(* Of the handlers that stay for the whole pass, those of higher priority  *)
(* are called first, except in the pass after one that was empty: Add does *)
(* not sort then.                                                          *)
HigherFirst ==
    [][(~calling /\ calling' /\ tidy /\ R[i].Object \in stayed) =>
         \A h \in stayed : Prio[h] > R[i].Prio => called[h] = 1]_vars

(* Between passes, unless the last Process found the list empty, it is     *)
(* sorted, and an invalid entry has only stayed because a handler that is  *)
(* registered, with a priority below that of invalid entries, stands       *)
(* behind it: without such a handler there are no invalid entries.         *)
SortedBetweenPasses ==
    ~in_process =>
        /\ Descending(R)
        /\ \A k \in DOMAIN R : ~Valid(R[k]) =>
              \E n \in k + 1 .. Len(R) :
                  R[n].Object \in registered /\ R[n].Prio < Invalid
=============================================================================
