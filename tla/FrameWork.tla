----------------------------- MODULE FrameWork -----------------------------
(***************************************************************************)
(* What CRenderDevice promises to the rest of the engine about the         *)
(* parallel work of a frame, whichever thread runs it: jobs are collected  *)
(* while the game is updated; then each collected job is performed once,   *)
(* in the order of the queue, followed by the registered MT handlers; only *)
(* then does the next frame begin.                                         *)
(***************************************************************************)
EXTENDS Naturals, Sequences, SequencesExt

CONSTANT Jobs

VARIABLES
    frame,     \* number of the last frame begun
    stage,     \* "idle", "collect" or "perform"
    queue,     \* the jobs of this frame
    done       \* those performed already, in order

fwvars == <<frame, stage, queue, done>>

Init == frame = 0 /\ stage = "idle" /\ queue = <<>> /\ done = <<>>

Begin ==
    /\ stage = "idle" /\ stage' = "collect"
    /\ frame' = frame + 1
    /\ queue' = <<>> /\ done' = <<>>

Collect ==
    /\ stage = "collect"
    /\ \/ \E j \in Jobs : queue' = Append(queue, j)
       \/ \E j \in Jobs : queue' = <<j>> \o queue
       \/ \E j \in Jobs : queue' = RemoveFirst(queue, j)
       \/ queue' = <<>>
    /\ UNCHANGED <<frame, stage, done>>

Dispatch ==
    /\ stage = "collect" /\ stage' = "perform"
    /\ UNCHANGED <<frame, queue, done>>

Perform ==
    /\ stage = "perform"
    /\ Len(done) < Len(queue)
    /\ done' = Append(done, queue[Len(done) + 1])
    /\ UNCHANGED <<frame, stage, queue>>

Finish ==
    /\ stage = "perform" /\ stage' = "idle"
    /\ Len(done) = Len(queue)
    /\ UNCHANGED <<frame, queue, done>>

Next == Begin \/ Collect \/ Dispatch \/ Perform \/ Finish

(* Work that was dispatched is carried through.                            *)
Spec == Init /\ [][Next]_fwvars /\ WF_fwvars(Perform \/ Finish)
=============================================================================
