--------------------------- MODULE SecondaryThread ---------------------------
(***************************************************************************)
(* The hand-off between the primary thread and the secondary thread of     *)
(* CRenderDevice (xrEngine/device.cpp).  The primary thread runs a message *)
(* loop; every frame it updates the game (FrameMove), lets the secondary   *)
(* thread work while it renders, and takes the permission back.  The work  *)
(* is the list seqParallel, filled during FrameMove, and the registrator   *)
(* seqFrameMT.  Two critical sections carry the hand-off:                  *)
(*   mt_csEnter  is the permission to touch the frame's data,              *)
(*   mt_csLeave  keeps the secondary thread from starting a second cycle.  *)
(*                                                                         *)
(* Entering and leaving a critical section, testing a flag, calling one    *)
(* delegate are steps of their own; rendering touches none of this state.  *)
(***************************************************************************)
EXTENDS Integers, Sequences, SequencesExt

CONSTANTS
    Objects,        \* game objects that queue a delegate from their UpdateCL
    RenderJobs,     \* the renderer's own delegates (MT-details, MT-HOM)
    MaxFrame,       \* bound: the last frame that is started
    InitialMarker,  \* mt_Thread_marker before the first cycle: 0x12345678
    Nobody          \* the owner of a free critical section

Main == "main"
MT   == "mt"
Threads == {Main, MT}

Delegates == Objects \cup RenderJobs

ASSUME FrameAssumption  == MaxFrame \in Nat /\ InitialMarker \in Nat
(* The marker's initial value is a number no frame of the run has.         *)
ASSUME MarkerAssumption == InitialMarker > MaxFrame
ASSUME KindAssumption   == Objects \cap RenderJobs = {}
ASSUME NobodyAssumption == Nobody \notin Threads

VARIABLES
    pc,               \* where each thread stands
    mt_csEnter,       \* owner of each critical section, or Nobody
    mt_csLeave,
    mt_bMustExit,
    dwFrame,
    mt_Thread_marker,
    seqParallel,      \* the delegates queued for this frame
    pit,              \* each thread's index into seqParallel
    alive,            \* the objects that exist
    updated,          \* objects whose UpdateCL ran in this frame
    due,              \* history: the queue as FrameMove left it
    called,           \* history: the delegates called since, in order
    mtRuns            \* history: runs of seqFrameMT.Process in this frame

sync == <<mt_csEnter, mt_csLeave, mt_bMustExit>>
mark == <<dwFrame, mt_Thread_marker>>
work == <<seqParallel, pit>>
game == <<alive, updated>>
hist == <<due, called, mtRuns>>
vars == <<pc, sync, mark, work, game, hist>>

MainPC == {"message", "move", "takeLeave", "giveEnter", "render", "giveLeave",
           "ensure", "call", "process", "stop", "stopWait", "returned"}
MtPC   == {"enter", "check", "mark", "call", "process", "leave",
           "waitEnter", "waitLeave", "exitLeave", "done"}

TypeOK ==
    /\ pc \in [Threads -> MainPC \cup MtPC]
    /\ pc[Main] \in MainPC /\ pc[MT] \in MtPC
    /\ mt_csEnter \in Threads \cup {Nobody}
    /\ mt_csLeave \in Threads \cup {Nobody}
    /\ mt_bMustExit \in BOOLEAN
    /\ dwFrame \in 0 .. MaxFrame
    /\ mt_Thread_marker \in (0 .. MaxFrame) \cup {InitialMarker}
    /\ seqParallel \in Seq(Delegates)
    /\ pit \in [Threads -> Nat \ {0}]
    /\ alive \subseteq Objects
    /\ updated \subseteq Delegates
    /\ due \in Seq(Delegates)
    /\ called \in Seq(Delegates)
    /\ mtRuns \in Nat

(* CRenderDevice::Run has entered mt_csEnter and spawned mt_Thread.        *)
Init ==
    /\ pc = [t \in Threads |-> IF t = Main THEN "message" ELSE "enter"]
    /\ mt_csEnter = Main
    /\ mt_csLeave = Nobody
    /\ mt_bMustExit = FALSE
    /\ dwFrame = 0
    /\ mt_Thread_marker = InitialMarker
    /\ seqParallel = <<>>
    /\ pit = [t \in Threads |-> 1]
    /\ alive = {}
    /\ updated = {}
    /\ due = <<>>
    /\ called = <<>>
    /\ mtRuns = 0

Goto(t, from, to) == pc[t] = from /\ pc' = [pc EXCEPT ![t] = to]

Enter(cs, t) == cs = Nobody /\ cs' = t
Leave(cs)    == cs' = Nobody

-----------------------------------------------------------------------------
(* Mutated forms: plausible slips in the code, each of which one of the    *)
(* properties at the end must catch.  No action below uses them.           *)

(* The loop's index starts before the list.                                *)
MtMark_IndexFromZero ==
    /\ Goto(MT, "mark", "call")
    /\ mt_Thread_marker' = dwFrame
    /\ pit' = [pit EXCEPT ![MT] = 0]
    /\ UNCHANGED <<sync, dwFrame, seqParallel, game, hist>>

(* The primary thread does not wait for the startup point.                 *)
TakeEnter_NoWait ==
    /\ Goto(Main, "render", "giveLeave")
    /\ UNCHANGED <<sync, mark, work, game, hist>>

(* The end point is not captured.                                          *)
TakeLeave_Skipped ==
    /\ Goto(Main, "takeLeave", "giveEnter")
    /\ UNCHANGED <<sync, mark, work, game, hist>>

(* net_Destroy forgets the object's delegate in the list.                  *)
DestroyObject_KeepsDelegate(o) ==
    /\ pc[Main] = "move" /\ UNCHANGED <<pc, sync, mark, pit, hist>>
    /\ o \in alive
    /\ alive' = alive \ {o}
    /\ updated' = updated \ {o}
    /\ UNCHANGED seqParallel

(* The list is not cleared after the cycle.                                *)
ClearParallel_Skipped(t) ==
    /\ Goto(t, "call", "process")
    /\ pit[t] > Len(seqParallel)
    /\ UNCHANGED <<sync, mark, work, game, hist>>

(* The list is walked from its end.                                        *)
CallDelegate_Backwards(t) ==
    /\ Goto(t, "call", "call")
    /\ pit[t] <= Len(seqParallel)
    /\ called' = Append(called, seqParallel[Len(seqParallel) + 1 - pit[t]])
    /\ pit' = [pit EXCEPT ![t] = @ + 1]
    /\ UNCHANGED <<sync, mark, seqParallel, game, due, mtRuns>>

(* Run returns without waiting for the secondary thread.                   *)
ReturnFromRun_NoWait ==
    /\ Goto(Main, "stopWait", "returned")
    /\ UNCHANGED <<sync, mark, work, game, hist>>

(* The secondary thread keeps the permission after its cycle.              *)
MtLeave_KeepsEnter ==
    /\ Goto(MT, "leave", "waitEnter")
    /\ UNCHANGED <<sync, mark, work, game, hist>>

(* The exit request is not acknowledged.                                   *)
MtMustExit_NoReset ==
    /\ Goto(MT, "check", "exitLeave")
    /\ mt_bMustExit
    /\ UNCHANGED <<sync, mark, work, game, hist>>

-----------------------------------------------------------------------------
(* The frame's parallel work, run by whichever thread has the permission.  *)

(* One turn of the loop over seqParallel, whose size is read every turn.   *)
CallDelegate(t) ==
    /\ Goto(t, "call", "call")
    /\ pit[t] <= Len(seqParallel)
    /\ called' = Append(called, seqParallel[pit[t]])
    /\ pit' = [pit EXCEPT ![t] = @ + 1]
    /\ UNCHANGED <<sync, mark, seqParallel, game, due, mtRuns>>

(* The loop ends and the list is cleared.                                  *)
ClearParallel(t) ==
    /\ Goto(t, "call", "process")
    /\ pit[t] > Len(seqParallel)
    /\ seqParallel' = <<>>
    /\ UNCHANGED <<sync, mark, pit, game, hist>>

(* seqFrameMT.Process(rp_Frame), the last part of the cycle.               *)
ProcessFrameMT(t) ==
    /\ Goto(t, "process", IF t = Main THEN "message" ELSE "leave")
    /\ mtRuns' = mtRuns + 1
    /\ UNCHANGED <<sync, mark, work, game, due, called>>

-----------------------------------------------------------------------------
(* The secondary thread: mt_Thread.                                        *)

MtEnter ==
    /\ Goto(MT, "enter", "check")
    /\ Enter(mt_csEnter, MT)
    /\ UNCHANGED <<mt_csLeave, mt_bMustExit, mark, work, game, hist>>

MtGoOn ==
    /\ Goto(MT, "check", "mark")
    /\ ~mt_bMustExit
    /\ UNCHANGED <<sync, mark, work, game, hist>>

MtMark ==
    /\ Goto(MT, "mark", "call")
    /\ mt_Thread_marker' = dwFrame
    /\ pit' = [pit EXCEPT ![MT] = 1]
    /\ UNCHANGED <<sync, dwFrame, seqParallel, game, hist>>

MtLeave ==
    /\ Goto(MT, "leave", "waitEnter")
    /\ Leave(mt_csEnter)
    /\ UNCHANGED <<mt_csLeave, mt_bMustExit, mark, work, game, hist>>

MtWaitEnter ==
    /\ Goto(MT, "waitEnter", "waitLeave")
    /\ Enter(mt_csLeave, MT)
    /\ UNCHANGED <<mt_csEnter, mt_bMustExit, mark, work, game, hist>>

MtWaitLeave ==
    /\ Goto(MT, "waitLeave", "enter")
    /\ Leave(mt_csLeave)
    /\ UNCHANGED <<mt_csEnter, mt_bMustExit, mark, work, game, hist>>

MtMustExit ==
    /\ Goto(MT, "check", "exitLeave")
    /\ mt_bMustExit
    /\ mt_bMustExit' = FALSE
    /\ UNCHANGED <<mt_csEnter, mt_csLeave, mark, work, game, hist>>

MtExit ==
    /\ Goto(MT, "exitLeave", "done")
    /\ Leave(mt_csEnter)
    /\ UNCHANGED <<mt_csLeave, mt_bMustExit, mark, work, game, hist>>

MtStep ==
    \/ MtEnter \/ MtGoOn \/ MtMark
    \/ CallDelegate(MT) \/ ClearParallel(MT) \/ ProcessFrameMT(MT)
    \/ MtLeave \/ MtWaitEnter \/ MtWaitLeave
    \/ MtMustExit \/ MtExit

-----------------------------------------------------------------------------
(* The game inside FrameMove: the handlers of seqFrame.                    *)

InFrameMove == pc[Main] = "move" /\ UNCHANGED <<pc, sync, mark, pit, hist>>

SpawnObject(o) ==
    /\ InFrameMove
    /\ o \notin alive
    /\ alive' = alive \cup {o}
    /\ UNCHANGED <<seqParallel, updated>>

(* UpdateCL runs at most once per frame and may queue the delegate.        *)
QueueObject(o) ==
    /\ InFrameMove
    /\ o \in alive \ updated
    /\ updated' = updated \cup {o}
    /\ seqParallel' = Append(seqParallel, o)
    /\ UNCHANGED alive

(* CRender::OnFrame puts the renderer's delegates at the front.            *)
QueueRenderJob(r) ==
    /\ InFrameMove
    /\ r \notin updated
    /\ updated' = updated \cup {r}
    /\ seqParallel' = <<r>> \o seqParallel
    /\ UNCHANGED alive

(* net_Destroy withdraws the object's delegate (remove_from_seq_parallel)  *)
(* before the object is deleted.  A new object may take its place later.   *)
DestroyObject(o) ==
    /\ InFrameMove
    /\ o \in alive
    /\ alive' = alive \ {o}
    /\ updated' = updated \ {o}
    /\ seqParallel' = RemoveFirst(seqParallel, o)

(* The level goes: every object is destroyed and the list is cleared.      *)
UnloadLevel ==
    /\ InFrameMove
    /\ alive # {}
    /\ alive' = {}
    /\ updated' = updated \ Objects
    /\ seqParallel' = <<>>

-----------------------------------------------------------------------------
(* The primary thread: message_loop, on_idle and the end of Run.           *)

BeginFrame ==
    /\ Goto(Main, "message", "move")
    /\ dwFrame < MaxFrame
    /\ dwFrame' = dwFrame + 1
    /\ updated' = {}
    /\ due' = <<>>
    /\ called' = <<>>
    /\ mtRuns' = 0
    /\ UNCHANGED <<sync, mt_Thread_marker, work, alive>>

EndFrameMove ==
    /\ Goto(Main, "move", "takeLeave")
    /\ due' = seqParallel
    /\ UNCHANGED <<sync, mark, work, game, called, mtRuns>>

(* Capture end point - thread must run only ONE cycle.                     *)
TakeLeave ==
    /\ Goto(Main, "takeLeave", "giveEnter")
    /\ Enter(mt_csLeave, Main)
    /\ UNCHANGED <<mt_csEnter, mt_bMustExit, mark, work, game, hist>>

(* Release start point - allow thread to run.                              *)
GiveEnter ==
    /\ Goto(Main, "giveEnter", "render")
    /\ Leave(mt_csEnter)
    /\ UNCHANGED <<mt_csLeave, mt_bMustExit, mark, work, game, hist>>

(* Rendering is over: capture startup point, then release end point.       *)
TakeEnter ==
    /\ Goto(Main, "render", "giveLeave")
    /\ Enter(mt_csEnter, Main)
    /\ UNCHANGED <<mt_csLeave, mt_bMustExit, mark, work, game, hist>>

GiveLeave ==
    /\ Goto(Main, "giveLeave", "ensure")
    /\ Leave(mt_csLeave)
    /\ UNCHANGED <<mt_csEnter, mt_bMustExit, mark, work, game, hist>>

(* Ensure, that second thread gets chance to execute anyway.               *)
EnsureExecuted ==
    /\ pc[Main] = "ensure"
    /\ \/ dwFrame # mt_Thread_marker
          /\ Goto(Main, "ensure", "call")
          /\ pit' = [pit EXCEPT ![Main] = 1]
       \/ dwFrame = mt_Thread_marker
          /\ Goto(Main, "ensure", "message")
          /\ UNCHANGED pit
    /\ UNCHANGED <<sync, mark, seqParallel, game, hist>>

(* WM_QUIT ends the loop; Run asks the secondary thread to exit.           *)
Quit ==
    /\ Goto(Main, "message", "stop")
    /\ mt_bMustExit' = TRUE
    /\ UNCHANGED <<mt_csEnter, mt_csLeave, mark, work, game, hist>>

StopGiveEnter ==
    /\ Goto(Main, "stop", "stopWait")
    /\ Leave(mt_csEnter)
    /\ UNCHANGED <<mt_csLeave, mt_bMustExit, mark, work, game, hist>>

(* while (mt_bMustExit) Sleep(0);                                          *)
ReturnFromRun ==
    /\ Goto(Main, "stopWait", "returned")
    /\ ~mt_bMustExit
    /\ UNCHANGED <<sync, mark, work, game, hist>>

FrameMoveStep ==
    \/ \E o \in Objects : SpawnObject(o) \/ QueueObject(o) \/ DestroyObject(o)
    \/ \E r \in RenderJobs : QueueRenderJob(r)
    \/ UnloadLevel

MainControl ==
    \/ EndFrameMove \/ TakeLeave \/ GiveEnter \/ TakeEnter \/ GiveLeave
    \/ EnsureExecuted
    \/ CallDelegate(Main) \/ ClearParallel(Main) \/ ProcessFrameMT(Main)
    \/ StopGiveEnter \/ ReturnFromRun

(* The program has ended: both threads are gone.                           *)
Ended == pc[Main] = "returned" /\ pc[MT] = "done" /\ UNCHANGED vars

Next == MtStep \/ BeginFrame \/ FrameMoveStep \/ MainControl \/ Quit \/ Ended

Spec == Init /\ [][Next]_vars

(* The operating system runs both threads, and FrameMove ends.  When a     *)
(* frame is started and when WM_QUIT arrives is up to the messages.        *)
FairSpec == Spec /\ WF_vars(MtStep) /\ WF_vars(MainControl)

-----------------------------------------------------------------------------
(* Properties                                                              *)

Working(t) == pc[t] \in {"call", "process"}
HasFrameData == {"message", "move", "takeLeave", "giveEnter", "giveLeave",
                 "ensure", "call", "process", "stop"}

(* The secondary thread is never inside its cycle (from granted permission *)
(* to mt_csEnter.Leave) while the primary one is outside the rendering     *)
(* window: FrameMove, the fallback cycle and the message handlers have the *)
(* frame's data, seqParallel included, for themselves.                     *)
FrameDataExclusive ==
    ~(/\ pc[Main] \in HasFrameData
      /\ pc[MT] \in {"check", "mark", "call", "process", "leave", "exitLeave"})

(* "Thread must run only ONE cycle" and "ensure that second thread gets    *)
(* chance to execute anyway": when the primary thread is back in the       *)
(* message loop, seqFrameMT was processed exactly once for the frame, the  *)
(* delegates that FrameMove left in the queue were all called, no other    *)
(* was and none twice, and the list is empty.                              *)
FrameWorkOnce ==
    /\ mtRuns <= 1
    /\ pc[Main] \in {"message", "stop"} /\ dwFrame > 0 =>
          /\ mtRuns = 1
          /\ seqParallel = <<>>
          /\ ToSet(called) = ToSet(due) /\ Len(called) = Len(due)

(* A delegate is about to be called only on an object that still exists,   *)
(* though objects are deleted between the queueing and the call.           *)
NoCallOnDeletedObject ==
    \A t \in Threads :
       pc[t] = "call" /\ pit[t] <= Len(seqParallel)
          => seqParallel[pit[t]] \in alive \cup RenderJobs

(* The VERIFYs of ai_stalker.cpp: no delegate is in the list twice, and    *)
(* after net_Destroy none of the object's delegates is left in it.         *)
NoDuplicateDelegate ==
    /\ \A i, j \in 1 .. Len(seqParallel) :
          seqParallel[i] = seqParallel[j] => i = j
    /\ \A i \in 1 .. Len(seqParallel) : seqParallel[i] \in alive \cup RenderJobs

(* When Run has returned, the secondary thread does no more frame work: it *)
(* can only still be leaving mt_csEnter.                                   *)
NoWorkAfterRun ==
    pc[Main] = "returned" => pc[MT] \in {"exitLeave", "done"}

(* A frame that began comes back to the message loop.                      *)
FrameCompletes == pc[Main] \notin {"message", "returned"}
                     ~> pc[Main] \in {"message", "returned"}

(* The shutdown ends both threads: the secondary thread, wherever it       *)
(* stands when mt_bMustExit is set, sees the flag.                         *)
ShutdownCompletes == pc[Main] = "stop" ~> pc[Main] = "returned" /\ pc[MT] = "done"

-----------------------------------------------------------------------------
(* The abstract frame work that this hand-off implements.                  *)

Stage ==
    IF pc[Main] = "move" THEN "collect"
    ELSE IF mtRuns = 0 /\ dwFrame > 0 THEN "perform" ELSE "idle"

Queue == IF pc[Main] = "move" THEN seqParallel ELSE due

FW == INSTANCE FrameWork WITH
         Jobs <- Delegates, frame <- dwFrame, stage <- Stage,
         queue <- Queue, done <- called

(* The two threads together implement FrameWork: the work of a frame is    *)
(* carried out once, in order, before the next frame begins, whether the   *)
(* secondary thread got its chance or the primary one stood in for it.     *)
ImplementsFrameWork == FW!Spec
=============================================================================
