----------------------- MODULE SecondaryThreadProofs -----------------------
(***************************************************************************)
(* Theorems about SecondaryThread, for every set of objects and renderer   *)
(* jobs and every number of frames.                                        *)
(***************************************************************************)
EXTENDS SecondaryThread, SequenceTheorems, TLAPS

Unique(s) == \A i, j \in 1 .. Len(s) : s[i] = s[j] => i = j

(* Removing the first occurrence of e from a list without duplicates       *)
(* leaves a list without duplicates and without e.                         *)
LEMMA RemoveFirstUnique ==
    ASSUME NEW S, NEW s \in Seq(S), NEW e, Unique(s)
    PROVE  /\ RemoveFirst(s, e) \in Seq(S \ {e})
           /\ Unique(RemoveFirst(s, e))
<1>1. CASE ~ \E i \in 1 .. Len(s) : s[i] = e
  <2>1. RemoveFirst(s, e) = s
    BY <1>1 DEF RemoveFirst
  <2>2. s \in Seq(S \ {e})
    BY <1>1, IsASeq, ElementOfSeq, LenProperties
  <2>. QED  BY <2>1, <2>2
<1>2. CASE \E i \in 1 .. Len(s) : s[i] = e
  <2>1. PICK k \in 1 .. Len(s) : s[k] = e
    BY <1>2
  <2>. DEFINE I == {i \in 1 .. Len(s) : s[i] = e}
              a == SubSeq(s, 1, k - 1)
              b == SubSeq(s, k + 1, Len(s))
  <2>2. I = {k}
    BY <2>1 DEF Unique
  <2>3. Min(I) = k
    BY <2>2 DEF Min
  <2>4. SelectInSeq(s, LAMBDA v : v = e) = k
    BY <2>2, <2>3 DEF SelectInSeq
  <2>5. RemoveFirst(s, e) = a \o b
    BY <1>2, <2>4 DEF RemoveFirst, RemoveAt
  <2>6. Len(s) \in Nat /\ \A i \in 1 .. Len(s) : s[i] \in S
    BY LenProperties, ElementOfSeq
  <2>7. \A i \in 1 .. k - 1 : s[i] \in S \ {e}
    BY <2>1, <2>6 DEF Unique
  <2>8. \A i \in k + 1 .. Len(s) : s[i] \in S \ {e}
    BY <2>1, <2>6 DEF Unique
  <2>9. /\ a \in Seq(S \ {e}) /\ Len(a) = k - 1
        /\ \A i \in 1 .. k - 1 : a[i] = s[i]
    <3>1. k - 1 \in Int /\ 1 \in Int
      BY <2>1
    <3>. QED  BY <3>1, <2>1, <2>6, <2>7, SubSeqProperties
  <2>10. /\ b \in Seq(S \ {e}) /\ Len(b) = Len(s) - k
         /\ \A i \in 1 .. Len(s) - k : b[i] = s[k + i]
    <3>1. k + 1 \in Int /\ Len(s) \in Int
      BY <2>1, <2>6
    <3>2. /\ b \in Seq(S \ {e})
          /\ Len(b) = IF k + 1 <= Len(s) THEN Len(s) - (k + 1) + 1 ELSE 0
          /\ \A i \in 1 .. Len(s) - (k + 1) + 1 : b[i] = s[k + 1 + i - 1]
      BY <3>1, <2>8, SubSeqProperties
    <3>. QED  BY <3>1, <3>2, <2>1, <2>6
  <2>. HIDE DEF a, b, I
  <2>11. /\ a \o b \in Seq(S \ {e})
         /\ Len(a \o b) = Len(s) - 1
         /\ \A i \in 1 .. Len(s) - 1 :
               (a \o b)[i] = s[IF i < k THEN i ELSE i + 1]
    <3>1. /\ a \o b \in Seq(S \ {e}) /\ Len(a \o b) = Len(a) + Len(b)
          /\ \A i \in 1 .. Len(a) + Len(b) :
                (a \o b)[i] = IF i <= Len(a) THEN a[i] ELSE b[i - Len(a)]
      BY <2>9, <2>10, ConcatProperties
    <3>. QED  BY <3>1, <2>1, <2>6, <2>9, <2>10
  <2>12. Unique(a \o b)
    <3>1. SUFFICES ASSUME NEW i \in 1 .. Len(s) - 1, NEW j \in 1 .. Len(s) - 1,
                          (a \o b)[i] = (a \o b)[j]
                   PROVE  i = j
      BY <2>11 DEF Unique
    <3>. DEFINE m == IF i < k THEN i ELSE i + 1
                n == IF j < k THEN j ELSE j + 1
    <3>2. m \in 1 .. Len(s) /\ n \in 1 .. Len(s)
      BY <2>6
    <3>3. s[m] = s[n]
      BY <2>11, <3>1
    <3>4. m = n
      <4>. HIDE DEF m, n
      <4>. QED  BY <3>2, <3>3 DEF Unique
    <3>. QED  BY <3>4, <2>6
  <2>. QED  BY <2>5, <2>11, <2>12
<1>. QED  BY <1>1, <1>2

(* Adding a new element at either end of a list without duplicates leaves  *)
(* a list without duplicates.                                              *)
LEMMA AppendUnique ==
    ASSUME NEW S, NEW s \in Seq(S), NEW e, e \notin S, Unique(s)
    PROVE  Unique(Append(s, e))
<1>. DEFINE new == Append(s, e)
<1>1. s \in Seq(S \cup {e})
  BY SeqMonotonic
<1>2. /\ Len(s) \in Nat /\ \A i \in 1 .. Len(s) : s[i] # e
      /\ Len(new) = Len(s) + 1
      /\ \A i \in 1 .. Len(s) : new[i] = s[i]
      /\ new[Len(s) + 1] = e
  BY <1>1, AppendProperties, LenProperties, ElementOfSeq
<1>. HIDE DEF new
<1>3. SUFFICES ASSUME NEW i \in 1 .. Len(s) + 1, NEW j \in 1 .. Len(s) + 1,
                      new[i] = new[j]
               PROVE  i = j
  BY <1>2 DEF Unique, new
<1>4. CASE i <= Len(s) /\ j <= Len(s)
  BY <1>2, <1>3, <1>4 DEF Unique
<1>5. CASE ~ (i <= Len(s) /\ j <= Len(s))
  BY <1>2, <1>3, <1>5
<1>. QED  BY <1>4, <1>5

(* A new member in front keeps a sequence without duplicates.              *)
LEMMA PrependUnique ==
    ASSUME NEW S, NEW s \in Seq(S), NEW e, e \notin S, Unique(s)
    PROVE  Unique(<<e>> \o s)
<1>. DEFINE new == <<e>> \o s
<1>1. s \in Seq(S \cup {e}) /\ <<e>> \in Seq(S \cup {e})
  BY SeqMonotonic
<1>2. /\ Len(new) = 1 + Len(s)
      /\ \A i \in 1 .. 1 + Len(s) :
            new[i] = IF i <= 1 THEN <<e>>[i] ELSE s[i - 1]
  <2>1. Len(<<e>>) = 1
    OBVIOUS
  <2>. QED  BY <1>1, <2>1, ConcatProperties
<1>3. Len(s) \in Nat /\ (\A i \in 1 .. Len(s) : s[i] # e) /\ <<e>>[1] = e
  BY LenProperties, ElementOfSeq
<1>. HIDE DEF new
<1>4. SUFFICES ASSUME NEW i \in 1 .. 1 + Len(s), NEW j \in 1 .. 1 + Len(s),
                      new[i] = new[j]
               PROVE  i = j
  BY <1>2 DEF Unique, new
<1>5. CASE i = 1 \/ j = 1
  BY <1>2, <1>3, <1>4, <1>5
<1>6. CASE i > 1 /\ j > 1
  <2>1. i - 1 \in 1 .. Len(s) /\ j - 1 \in 1 .. Len(s) /\ s[i - 1] = s[j - 1]
    BY <1>2, <1>3, <1>4, <1>6
  <2>. QED  BY <2>1 DEF Unique
<1>. QED  BY <1>3, <1>5, <1>6

-----------------------------------------------------------------------------
(* The inductive invariant.                                                *)

HasEnter == {"check", "mark", "call", "process", "leave", "exitLeave"}

(* Who holds which critical section, read off the program counters.        *)
Locks ==
    /\ mt_csEnter = Main <=> pc[Main] \in HasFrameData
    /\ mt_csEnter = MT   <=> pc[MT] \in HasEnter
    /\ mt_csLeave = Main <=> pc[Main] \in {"giveEnter", "render", "giveLeave"}
    /\ mt_csLeave = MT   <=> pc[MT] = "waitLeave"

(* The exit flag is up from the request to the acknowledgement, and once   *)
(* it is up the secondary thread starts no cycle.                          *)
Shutdown ==
    /\ mt_bMustExit <=> /\ pc[Main] \in {"stop", "stopWait"}
                        /\ pc[MT] \notin {"exitLeave", "done"}
    /\ pc[MT] \in {"exitLeave", "done"} => pc[Main] \in {"stopWait", "returned"}
    /\ pc[Main] = "returned" => pc[MT] \in {"exitLeave", "done"}
    /\ pc[Main] \in {"stop", "stopWait"}
          => pc[MT] \notin {"mark", "call", "process", "leave"}

(* The marker never runs ahead of the frame counter.                       *)
Marker == mt_Thread_marker \in (0 .. dwFrame) \cup {InitialMarker}

Fresh    == mtRuns = 0 /\ called = <<>>
InCall(t) == /\ mtRuns = 0 /\ seqParallel = due
             /\ pit[t] \in 1 .. Len(due) + 1
             /\ called = SubSeq(due, 1, pit[t] - 1)
Called   == mtRuns = 0 /\ seqParallel = <<>> /\ called = due
Finished == mtRuns = 1 /\ seqParallel = <<>> /\ called = due

(* How far the work of the current frame has got.                          *)
Progress ==
    /\ pc[Main] = "message" /\ dwFrame = 0 => Called
    /\ pc[Main] \in {"message", "stop"} /\ dwFrame > 0 => Finished
    /\ pc[Main] = "move" => Fresh /\ due = <<>> /\ mt_Thread_marker # dwFrame
    /\ pc[Main] \in {"takeLeave", "giveEnter"} =>
          Fresh /\ seqParallel = due /\ mt_Thread_marker # dwFrame
    /\ pc[Main] \in {"move", "takeLeave", "giveEnter", "render", "giveLeave",
                    "ensure", "call", "process"} => dwFrame > 0
    /\ pc[Main] \in {"render", "giveLeave", "ensure"} /\ mt_Thread_marker # dwFrame =>
          /\ Fresh /\ seqParallel = due
          /\ pc[MT] \in {"enter", "check", "mark", "waitEnter", "waitLeave"}
    /\ pc[Main] \in {"render", "giveLeave"} /\ mt_Thread_marker = dwFrame =>
          /\ pc[MT] \in {"call", "process", "leave", "waitEnter"}
          /\ pc[MT] = "call" => InCall(MT)
          /\ pc[MT] = "process" => Called
          /\ pc[MT] \in {"leave", "waitEnter"} => Finished
    /\ pc[Main] = "ensure" /\ mt_Thread_marker = dwFrame => Finished
    /\ pc[Main] = "call" => InCall(Main)
    /\ pc[Main] = "process" => Called
    /\ mtRuns <= 1

(* The list holds delegates of existing objects and renderer jobs, none    *)
(* twice; while the game is updated, only of those updated in this frame.  *)
List ==
    /\ Unique(seqParallel)
    /\ seqParallel \in Seq(alive \cup RenderJobs)
    /\ pc[Main] = "move" => seqParallel \in Seq(updated)

IInv == TypeOK /\ Locks /\ Shutdown /\ Marker /\ Progress /\ List

(* The invariant holds at the start.                                       *)
LEMMA InitIInv == Init => IInv
<1>. SUFFICES ASSUME Init PROVE IInv
  OBVIOUS
<1>. USE DEF Init, Threads, Main, MT
<1>1. TypeOK
  <2>1. <<>> \in Seq(Delegates)
    BY EmptySeq
  <2>2. dwFrame \in 0 .. MaxFrame
    BY FrameAssumption
  <2>3. /\ pc \in [Threads -> MainPC \cup MtPC]
        /\ pc[Main] \in MainPC /\ pc[MT] \in MtPC
    BY DEF MainPC, MtPC
  <2>4. pit \in [Threads -> Nat \ {0}]
    OBVIOUS
  <2>. QED  BY <2>1, <2>2, <2>3, <2>4 DEF TypeOK
<1>2. Locks
  BY NobodyAssumption DEF Locks, HasEnter, HasFrameData
<1>3. Shutdown
  BY DEF Shutdown
<1>4. Marker
  BY DEF Marker
<1>5. Progress
  BY DEF Progress, Called
<1>6. List
  BY EmptySeq DEF List, Unique
<1>. QED  BY <1>1, <1>2, <1>3, <1>4, <1>5, <1>6 DEF IInv

(* Every step of either thread keeps the invariant.                        *)
LEMMA NextIInv == IInv /\ [Next]_vars => IInv'
<1>. SUFFICES ASSUME IInv, [Next]_vars PROVE IInv'
  OBVIOUS
<1>. USE FrameAssumption, MarkerAssumption, NobodyAssumption
<1>. USE DEF IInv, TypeOK, MainPC, MtPC, Locks, Shutdown, Marker, Progress, List,
             Fresh, InCall, Called, Finished, HasEnter, HasFrameData,
             Goto, Enter, Leave, InFrameMove, Threads, Main, MT,
             sync, mark, work, game, hist
<1>1. ASSUME MtEnter PROVE IInv'
  BY <1>1 DEF MtEnter
<1>2. ASSUME MtGoOn PROVE IInv'
  BY <1>2 DEF MtGoOn
<1>3. ASSUME MtMark PROVE IInv'
  BY <1>3 DEF MtMark
<1>4. ASSUME CallDelegate(MT) PROVE IInv'
  BY <1>4 DEF CallDelegate
<1>5. ASSUME ClearParallel(MT) PROVE IInv'
  <2>1. seqParallel' = <<>> /\ seqParallel' \in Seq(Delegates)
        /\ seqParallel' \in Seq(alive \cup RenderJobs) /\ Len(seqParallel') = 0
    BY <1>5, EmptySeq DEF ClearParallel
  <2>2. called = due
    <3>1. InCall(MT) /\ pit[MT] > Len(due) /\ Len(due) \in Nat
      BY <1>5, LenProperties DEF ClearParallel
    <3>2. pit[MT] - 1 = Len(due)
      BY <3>1
    <3>. QED  BY <3>1, <3>2, SubSeqFull
  <2>. QED  BY <1>5, <2>1, <2>2 DEF ClearParallel, Unique
<1>6. ASSUME ProcessFrameMT(MT) PROVE IInv'
  BY <1>6 DEF ProcessFrameMT
<1>7. ASSUME MtLeave PROVE IInv'
  BY <1>7 DEF MtLeave
<1>8. ASSUME MtWaitEnter PROVE IInv'
  BY <1>8 DEF MtWaitEnter
<1>9. ASSUME MtWaitLeave PROVE IInv'
  BY <1>9 DEF MtWaitLeave
<1>10. ASSUME MtMustExit PROVE IInv'
  BY <1>10 DEF MtMustExit
<1>11. ASSUME MtExit PROVE IInv'
  BY <1>11 DEF MtExit
<1>12. ASSUME BeginFrame PROVE IInv'
  BY <1>12 DEF BeginFrame
<1>13. ASSUME NEW o \in Objects, SpawnObject(o) PROVE IInv'
  BY <1>13 DEF SpawnObject
<1>14. ASSUME NEW o \in Objects, QueueObject(o) PROVE IInv'
  <2>. DEFINE new == Append(seqParallel, o)
  <2>1. seqParallel \in Seq(alive \cup RenderJobs) /\ seqParallel \in Seq(updated)
        /\ seqParallel \in Seq(Delegates) /\ o \in alive \ updated
    BY <1>14 DEF QueueObject
  <2>2. new \in Seq(alive \cup RenderJobs)
    BY <2>1, AppendProperties
  <2>3. new \in Seq(updated \cup {o})
    BY <2>1, SeqMonotonic, AppendProperties
  <2>4. new \in Seq(Delegates)
    BY <2>1, AppendProperties DEF Delegates
  <2>5. Unique(new)
    BY <2>1, AppendUnique
  <2>6. seqParallel' = new /\ updated' = updated \cup {o} /\ alive' = alive
    BY <1>14 DEF QueueObject
  <2>. HIDE DEF new
  <2>. QED  BY <1>14, <2>2, <2>3, <2>4, <2>5, <2>6 DEF QueueObject, Unique, Delegates
<1>15. ASSUME NEW o \in Objects, DestroyObject(o) PROVE IInv'
  <2>1. /\ Unique(seqParallel) /\ seqParallel \in Seq(alive \cup RenderJobs)
        /\ seqParallel \in Seq(updated) /\ seqParallel \in Seq(Delegates)
    BY <1>15 DEF DestroyObject
  <2>2. /\ seqParallel' = RemoveFirst(seqParallel, o)
        /\ alive' = alive \ {o} /\ updated' = updated \ {o}
    BY <1>15 DEF DestroyObject
  <2>3. Unique(seqParallel') /\ seqParallel' \in Seq((alive \cup RenderJobs) \ {o})
    BY <2>1, <2>2, RemoveFirstUnique
  <2>4. seqParallel' \in Seq(updated')
    BY <2>1, <2>2, RemoveFirstUnique
  <2>5. seqParallel' \in Seq(Delegates)
    <3>1. seqParallel' \in Seq(Delegates \ {o})
      BY <2>1, <2>2, RemoveFirstUnique
    <3>. QED  BY <3>1, SeqMonotonic
  <2>6. seqParallel' \in Seq(alive' \cup RenderJobs)
    <3>1. (alive \cup RenderJobs) \ {o} \subseteq alive' \cup RenderJobs
      BY <2>2
    <3>. QED  BY <3>1, <2>3, SeqMonotonic
  <2>. QED  BY <1>15, <2>2, <2>3, <2>4, <2>5, <2>6 DEF DestroyObject, Unique
<1>16. ASSUME NEW r \in RenderJobs, QueueRenderJob(r) PROVE IInv'
  <2>. DEFINE new == <<r>> \o seqParallel
  <2>1. seqParallel \in Seq(alive \cup RenderJobs) /\ seqParallel \in Seq(updated)
        /\ seqParallel \in Seq(Delegates) /\ r \notin updated
    BY <1>16 DEF QueueRenderJob
  <2>2. /\ <<r>> \in Seq(alive \cup RenderJobs) /\ <<r>> \in Seq(updated \cup {r})
        /\ <<r>> \in Seq(Delegates) /\ Len(<<r>>) = 1 /\ <<r>>[1] = r
    BY DEF Delegates
  <2>3. new \in Seq(alive \cup RenderJobs)
    BY <2>1, <2>2, ConcatProperties
  <2>4. new \in Seq(updated \cup {r})
    BY <2>1, <2>2, SeqMonotonic, ConcatProperties
  <2>5. new \in Seq(Delegates)
    BY <2>1, <2>2, ConcatProperties
  <2>6. Unique(new)
    BY <2>1, PrependUnique
  <2>7. seqParallel' = new /\ updated' = updated \cup {r} /\ alive' = alive
    BY <1>16 DEF QueueRenderJob
  <2>. HIDE DEF new
  <2>. QED  BY <1>16, <2>3, <2>4, <2>5, <2>6, <2>7 DEF QueueRenderJob, Unique, Delegates
<1>17. ASSUME UnloadLevel PROVE IInv'
  <2>1. /\ seqParallel' = <<>> /\ Len(seqParallel') = 0
        /\ seqParallel' \in Seq(Delegates) /\ seqParallel' \in Seq(updated')
        /\ seqParallel' \in Seq(alive' \cup RenderJobs)
    BY <1>17, EmptySeq DEF UnloadLevel
  <2>. QED  BY <1>17, <2>1 DEF UnloadLevel, Unique
<1>18. ASSUME EndFrameMove PROVE IInv'
  BY <1>18 DEF EndFrameMove
<1>19. ASSUME TakeLeave PROVE IInv'
  BY <1>19 DEF TakeLeave
<1>20. ASSUME GiveEnter PROVE IInv'
  BY <1>20 DEF GiveEnter
<1>21. ASSUME TakeEnter PROVE IInv'
  BY <1>21 DEF TakeEnter
<1>22. ASSUME GiveLeave PROVE IInv'
  BY <1>22 DEF GiveLeave
<1>23. ASSUME EnsureExecuted PROVE IInv'
  BY <1>23 DEF EnsureExecuted
<1>24. ASSUME CallDelegate(Main) PROVE IInv'
  BY <1>24 DEF CallDelegate
<1>25. ASSUME ClearParallel(Main) PROVE IInv'
  <2>1. seqParallel' = <<>> /\ seqParallel' \in Seq(Delegates)
        /\ seqParallel' \in Seq(alive \cup RenderJobs) /\ Len(seqParallel') = 0
    BY <1>25, EmptySeq DEF ClearParallel
  <2>2. called = due
    <3>1. InCall(Main) /\ pit[Main] > Len(due) /\ Len(due) \in Nat
      BY <1>25, LenProperties DEF ClearParallel
    <3>2. pit[Main] - 1 = Len(due)
      BY <3>1
    <3>. QED  BY <3>1, <3>2, SubSeqFull
  <2>. QED  BY <1>25, <2>1, <2>2 DEF ClearParallel, Unique
<1>26. ASSUME ProcessFrameMT(Main) PROVE IInv'
  BY <1>26 DEF ProcessFrameMT
<1>27. ASSUME StopGiveEnter PROVE IInv'
  BY <1>27 DEF StopGiveEnter
<1>28. ASSUME ReturnFromRun PROVE IInv'
  BY <1>28 DEF ReturnFromRun
<1>29. ASSUME Quit PROVE IInv'
  BY <1>29 DEF Quit
<1>30. ASSUME UNCHANGED vars PROVE IInv'
  BY <1>30 DEF vars
<1>. QED
  BY <1>1, <1>2, <1>3, <1>4, <1>5, <1>6, <1>7, <1>8, <1>9, <1>10, <1>11, <1>12, <1>13, <1>14, <1>15, <1>16, <1>17, <1>18, <1>19, <1>20, <1>21, <1>22, <1>23, <1>24, <1>25, <1>26, <1>27, <1>28, <1>29, <1>30 DEF Next, MtStep, FrameMoveStep, MainControl, Ended

-----------------------------------------------------------------------------
(* The theorems.                                                           *)

(* The invariant holds in every state.                                     *)
LEMMA SpecIInv == Spec => []IInv
<1>. QED  BY InitIInv, NextIInv, PTL DEF Spec

(* Every variable keeps its type.                                          *)
THEOREM TypeCorrect == Spec => []TypeOK
<1>1. IInv => TypeOK
  BY DEF IInv
<1>. QED  BY SpecIInv, <1>1, PTL

(* The two threads never touch the frame's data at the same time.          *)
THEOREM Exclusive == Spec => []FrameDataExclusive
<1>1. IInv => FrameDataExclusive
  BY DEF IInv, Locks, HasEnter, FrameDataExclusive, Main, MT
<1>. QED  BY SpecIInv, <1>1, PTL

(* The work of a frame is done exactly once before the message loop is     *)
(* entered again.                                                          *)
THEOREM WorkOnce == Spec => []FrameWorkOnce
<1>1. IInv => FrameWorkOnce
  BY DEF IInv, TypeOK, Progress, Finished, FrameWorkOnce
<1>. QED  BY SpecIInv, <1>1, PTL

(* The list has no duplicates and no delegate of a deleted object.         *)
THEOREM ListSound == Spec => []NoDuplicateDelegate
<1>1. IInv => NoDuplicateDelegate
  BY ElementOfSeq DEF IInv, List, Unique, NoDuplicateDelegate
<1>. QED  BY SpecIInv, <1>1, PTL

(* No thread calls a delegate of a deleted object.                         *)
THEOREM CallsSound == Spec => []NoCallOnDeletedObject
<1>1. IInv => NoCallOnDeletedObject
  <2>1. SUFFICES ASSUME IInv, NEW t \in Threads, pit[t] <= Len(seqParallel)
                 PROVE  seqParallel[pit[t]] \in alive \cup RenderJobs
    BY DEF NoCallOnDeletedObject
  <2>2. pit[t] \in 1 .. Len(seqParallel)
    BY <2>1, LenProperties DEF IInv, TypeOK
  <2>. QED  BY <2>1, <2>2, ElementOfSeq DEF IInv, List
<1>. QED  BY SpecIInv, <1>1, PTL

(* When Run returns, the secondary thread is past its last cycle.          *)
THEOREM QuietAfterRun == Spec => []NoWorkAfterRun
<1>1. IInv => NoWorkAfterRun
  BY DEF IInv, Shutdown, NoWorkAfterRun
<1>. QED  BY SpecIInv, <1>1, PTL

-----------------------------------------------------------------------------
(* The refinement, its safety part: initial states and steps.              *)

(* FrameWork's RemoveFirst is the same operator.                           *)
LEMMA SameRemoveFirst == \A s, e : FW!RemoveFirst(s, e) = RemoveFirst(s, e)
<1>. QED  BY DEF FW!RemoveFirst, FW!RemoveAt, FW!SelectInSeq, FW!Min,
              RemoveFirst, RemoveAt, SelectInSeq, Min

(* The initial states map to the initial state of FrameWork.               *)
LEMMA InitFrameWork == Init => FW!Init
<1>. QED  BY DEF Init, FW!Init, Stage, Queue, Threads, Main, MT

(* Control steps do not show in the abstract state.                        *)
LEMMA ControlStutters ==
    ASSUME IInv, pc'[Main] # "move", pc[Main] # "move",
           UNCHANGED <<dwFrame, due, called, mtRuns>>
    PROVE  UNCHANGED FW!fwvars
<1>. QED  BY DEF FW!fwvars, Stage, Queue

(* A thread that runs the loop works off the dispatched queue.             *)
LEMMA CallPerforms ==
    ASSUME IInv, NEW t \in Threads, CallDelegate(t)
    PROVE  FW!Perform
<1>1. /\ InCall(t) /\ dwFrame > 0 /\ pc[Main] # "move"
      /\ due \in Seq(Delegates) /\ Len(due) \in Nat
  BY LenProperties DEF IInv, TypeOK, Locks, Shutdown, Progress, HasEnter,
       HasFrameData, CallDelegate, Goto, Threads, Main, MT, MainPC
<1>2. pc' = pc
  BY DEF CallDelegate, Goto, IInv, TypeOK
<1>3. Stage = "perform" /\ Stage' = "perform" /\ Queue = due /\ Queue' = due
  BY <1>1, <1>2 DEF Stage, Queue, InCall, CallDelegate, mark
<1>4. Len(called) = pit[t] - 1
  <2>1. pit[t] - 1 \in Int /\ \A i \in 1 .. pit[t] - 1 : due[i] \in Delegates
    BY <1>1, ElementOfSeq DEF InCall
  <2>. QED  BY <1>1, <2>1, SubSeqProperties DEF InCall
<1>5. /\ called' = Append(called, seqParallel[pit[t]])
      /\ pit[t] <= Len(seqParallel) /\ dwFrame' = dwFrame
  BY DEF CallDelegate, mark
<1>6. pit[t] \in Nat /\ seqParallel = due
  BY <1>1 DEF InCall
<1>. QED  BY <1>3, <1>4, <1>5, <1>6 DEF FW!Perform

(* The call of the work on the secondary thread is the abstract Finish.    *)
LEMMA ProcessFinishes ==
    ASSUME IInv, NEW t \in Threads, ProcessFrameMT(t)
    PROVE  FW!Finish
<1>1. /\ Called /\ dwFrame > 0 /\ pc[Main] # "move" /\ pc'[Main] # "move"
      /\ Len(called) = Len(due)
  BY DEF IInv, TypeOK, Locks, Shutdown, Progress, HasEnter, Called,
       HasFrameData, ProcessFrameMT, Goto, Threads, Main, MT, MainPC
<1>. QED  BY <1>1 DEF FW!Finish, Stage, Queue, Called, ProcessFrameMT, mark

(* Every step maps to a step of FrameWork or to a stutter.                 *)
LEMMA StepFrameWork == IInv /\ [Next]_vars => [FW!Next]_(FW!fwvars)
<1>. SUFFICES ASSUME IInv, [Next]_vars PROVE [FW!Next]_(FW!fwvars)
  OBVIOUS
<1>. USE DEF FW!Next
<1>1. ASSUME BeginFrame PROVE FW!Begin
  <2>1. Stage = "idle" /\ seqParallel = <<>>
    BY <1>1 DEF IInv, TypeOK, Progress, Finished, Called, BeginFrame, Goto, Stage
  <2>2. pc'[Main] = "move" /\ pc[Main] = "message"
    BY <1>1 DEF IInv, TypeOK, BeginFrame, Goto, Threads
  <2>. QED  BY <1>1, <2>1, <2>2 DEF BeginFrame, FW!Begin, Stage, Queue, work
<1>2. ASSUME FrameMoveStep PROVE FW!Collect \/ UNCHANGED FW!fwvars
  <2>1. /\ pc[Main] = "move" /\ pc' = pc /\ dwFrame' = dwFrame /\ called' = called
        /\ mtRuns' = mtRuns
    BY <1>2 DEF FrameMoveStep, SpawnObject, QueueObject, DestroyObject,
         QueueRenderJob, UnloadLevel, InFrameMove, mark, hist
  <2>2. Stage = "collect" /\ Stage' = "collect" /\ Queue = seqParallel
        /\ Queue' = seqParallel'
    BY <2>1 DEF Stage, Queue
  <2>3. \/ seqParallel' = seqParallel
        \/ \E d \in Delegates : \/ seqParallel' = Append(seqParallel, d)
                                \/ seqParallel' = <<d>> \o seqParallel
                                \/ seqParallel' = RemoveFirst(seqParallel, d)
        \/ seqParallel' = <<>>
    BY <1>2 DEF FrameMoveStep, SpawnObject, QueueObject, DestroyObject,
         QueueRenderJob, UnloadLevel, Delegates
  <2>4. CASE seqParallel' = seqParallel
    BY <2>1, <2>2, <2>4 DEF FW!fwvars
  <2>5. CASE seqParallel' # seqParallel
    <3>1. \/ \E d \in Delegates : Queue' = Append(Queue, d)
          \/ \E d \in Delegates : Queue' = <<d>> \o Queue
          \/ \E d \in Delegates : Queue' = RemoveFirst(Queue, d)
          \/ Queue' = <<>>
      BY <2>2, <2>3, <2>5, Zenon
    <3>2. Stage = "collect" /\ UNCHANGED <<dwFrame, Stage, called>>
      BY <2>1, <2>2
    <3>3. FW!Collect
      BY <3>1, <3>2, SameRemoveFirst, Zenon DEF FW!Collect
    <3>. QED  BY <3>3
  <2>. QED  BY <2>4, <2>5
<1>3. ASSUME EndFrameMove PROVE FW!Dispatch
  <2>1. mtRuns = 0 /\ dwFrame > 0 /\ pc[Main] = "move" /\ pc'[Main] = "takeLeave"
    BY <1>3 DEF IInv, TypeOK, Progress, Fresh, EndFrameMove, Goto, Threads
  <2>. QED  BY <1>3, <2>1 DEF EndFrameMove, FW!Dispatch, Stage, Queue, mark, work
<1>4. ASSUME NEW t \in Threads, CallDelegate(t) PROVE FW!Perform
  BY <1>4, CallPerforms
<1>5. ASSUME NEW t \in Threads, ProcessFrameMT(t) PROVE FW!Finish
  BY <1>5, ProcessFinishes
<1>6. ASSUME NEW t \in Threads, ClearParallel(t) PROVE UNCHANGED FW!fwvars
  <2>1. pc[Main] # "move" /\ pc'[Main] # "move"
    BY <1>6 DEF IInv, TypeOK, Locks, HasEnter, HasFrameData, ClearParallel, Goto,
         Threads, Main, MT
  <2>. QED  BY <1>6, <2>1, ControlStutters DEF ClearParallel, mark, hist
<1>7. ASSUME UNCHANGED vars PROVE UNCHANGED FW!fwvars
  BY <1>7 DEF vars, mark, work, hist, FW!fwvars, Stage, Queue
<1>8. ASSUME MtEnter PROVE UNCHANGED FW!fwvars
  BY <1>8 DEF MtEnter, Goto, IInv, TypeOK, Threads, Main, MT, mark, hist, work,
       FW!fwvars, Stage, Queue
<1>9. ASSUME MtGoOn PROVE UNCHANGED FW!fwvars
  BY <1>9 DEF MtGoOn, Goto, IInv, TypeOK, Threads, Main, MT, mark, hist, work,
       FW!fwvars, Stage, Queue
<1>10. ASSUME MtMark PROVE UNCHANGED FW!fwvars
  BY <1>10 DEF MtMark, Goto, IInv, TypeOK, Threads, Main, MT, mark, hist, work,
       FW!fwvars, Stage, Queue
<1>11. ASSUME MtLeave PROVE UNCHANGED FW!fwvars
  BY <1>11 DEF MtLeave, Goto, IInv, TypeOK, Threads, Main, MT, mark, hist, work,
       FW!fwvars, Stage, Queue
<1>12. ASSUME MtWaitEnter PROVE UNCHANGED FW!fwvars
  BY <1>12 DEF MtWaitEnter, Goto, IInv, TypeOK, Threads, Main, MT, mark, hist, work,
       FW!fwvars, Stage, Queue
<1>13. ASSUME MtWaitLeave PROVE UNCHANGED FW!fwvars
  BY <1>13 DEF MtWaitLeave, Goto, IInv, TypeOK, Threads, Main, MT, mark, hist, work,
       FW!fwvars, Stage, Queue
<1>14. ASSUME MtMustExit PROVE UNCHANGED FW!fwvars
  BY <1>14 DEF MtMustExit, Goto, IInv, TypeOK, Threads, Main, MT, mark, hist, work,
       FW!fwvars, Stage, Queue
<1>15. ASSUME MtExit PROVE UNCHANGED FW!fwvars
  BY <1>15 DEF MtExit, Goto, IInv, TypeOK, Threads, Main, MT, mark, hist, work,
       FW!fwvars, Stage, Queue
<1>16. ASSUME TakeLeave PROVE UNCHANGED FW!fwvars
  BY <1>16, ControlStutters
     DEF TakeLeave, Goto, IInv, TypeOK, Threads, Main, mark, hist
<1>17. ASSUME GiveEnter PROVE UNCHANGED FW!fwvars
  BY <1>17, ControlStutters
     DEF GiveEnter, Goto, IInv, TypeOK, Threads, Main, mark, hist
<1>18. ASSUME TakeEnter PROVE UNCHANGED FW!fwvars
  BY <1>18, ControlStutters
     DEF TakeEnter, Goto, IInv, TypeOK, Threads, Main, mark, hist
<1>19. ASSUME GiveLeave PROVE UNCHANGED FW!fwvars
  BY <1>19, ControlStutters
     DEF GiveLeave, Goto, IInv, TypeOK, Threads, Main, mark, hist
<1>20. ASSUME EnsureExecuted PROVE UNCHANGED FW!fwvars
  BY <1>20, ControlStutters
     DEF EnsureExecuted, Goto, IInv, TypeOK, Threads, Main, mark, hist
<1>21. ASSUME StopGiveEnter PROVE UNCHANGED FW!fwvars
  BY <1>21, ControlStutters
     DEF StopGiveEnter, Goto, IInv, TypeOK, Threads, Main, mark, hist
<1>22. ASSUME ReturnFromRun PROVE UNCHANGED FW!fwvars
  BY <1>22, ControlStutters
     DEF ReturnFromRun, Goto, IInv, TypeOK, Threads, Main, mark, hist
<1>23. ASSUME Quit PROVE UNCHANGED FW!fwvars
  BY <1>23, ControlStutters
     DEF Quit, Goto, IInv, TypeOK, Threads, Main, mark, hist
<1>. QED
  BY <1>1, <1>2, <1>3, <1>4, <1>5, <1>6, <1>7, <1>8, <1>9, <1>10, <1>11, <1>12, <1>13, <1>14, <1>15, <1>16, <1>17, <1>18, <1>19, <1>20, <1>21, <1>22, <1>23
     DEF Next, MtStep, MainControl, Ended, Threads

(* The hand-off implements FrameWork: every behaviour's initial state and  *)
(* steps are FrameWork's (its fairness is left to the model checker).      *)
THEOREM Refinement == Spec => FW!Init /\ [][FW!Next]_(FW!fwvars)
<1>. QED  BY InitFrameWork, StepFrameWork, SpecIInv, PTL DEF Spec

=============================================================================
