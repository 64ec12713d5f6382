------------------------------ MODULE ThreadTeam ----------------------------
(***************************************************************************)
(* The thread team (xrCPU_Pipe/ttapi.cpp) and the calls that split the     *)
(* particles of an effect over it (PATurbulence::Execute, the same code in *)
(* CParticleEffect::Render and xrSkin4W_thread).                           *)
(*                                                                         *)
(* The caller fills a slot per worker, clears the flags of the helper      *)
(* threads, does the last slot's work itself and spins until the helpers   *)
(* have counted ttapi_queue_size down to zero.  Nothing is locked, and the *)
(* parameters of the jobs lie on the caller's stack.  The primary thread   *)
(* is the only caller.                                                     *)
(***************************************************************************)
EXTENDS Integers, FiniteSets

CONSTANTS
    Threads,      \* ttapi_threads_count: helpers beside the caller
    Counts        \* the numbers of particles that occur

ASSUME ThreadsAssumption == Threads \in Nat
ASSUME CountsAssumption  == Counts \subseteq Nat \ {0}

VARIABLES
    vlFlag,       \* of every helper: 0 lets it go
    lpWorkerFunc, \* of every slot: a job, or NULL
    params,       \* of every slot: the particles it is to handle
    size,         \* ttapi_queue_size
    assigned,     \* ttapi_assigned_workers
    pc,           \* where the caller stands
    next,         \* index of its loop over the helpers
    p_cnt, nWorkers,
    at,           \* where every helper stands
    ran           \* history: how often each slot's job ran in this call

team   == <<vlFlag, lpWorkerFunc, params, size, assigned>>
caller == <<pc, next, p_cnt, nWorkers>>
vars   == <<team, caller, at, ran>>

Helpers == 0 .. Threads - 1
Slots   == 0 .. Threads       \* ttapi_workers_count of them
Workers == Threads + 1
Slice   == [p_from : Nat, p_to : Nat]

InCall == {"start", "run", "spin"}

TypeOK ==
    /\ vlFlag \in [Helpers -> {0, 1}]
    /\ lpWorkerFunc \in [Slots -> {"NULL", "Stream"}]
    /\ params \in [Slots -> Slice]
    /\ size \in 0 .. Threads
    /\ assigned \in 0 .. Workers
    /\ pc \in {"idle", "add", "clean", "stop", "ask", "join", "gone"} \cup InCall
    /\ next \in 0 .. Threads
    /\ p_cnt \in Nat /\ nWorkers \in {1, Workers}
    /\ at \in [Helpers -> {"wait", "process", "fetch", "work", "count", "ended"}]
    /\ ran \in [Slots -> Nat]

(* ttapi_Init.                                                             *)
Init ==
    /\ vlFlag = [h \in Helpers |-> 1]
    /\ lpWorkerFunc = [s \in Slots |-> "NULL"]
    /\ params = [s \in Slots |-> [p_from |-> 0, p_to |-> 0]]
    /\ size = 0 /\ assigned = 0
    /\ pc = "idle" /\ next = 0
    /\ p_cnt = 0 /\ nWorkers = 1
    /\ at = [h \in Helpers |-> "wait"]
    /\ ran = [s \in Slots |-> 0]

-----------------------------------------------------------------------------
(* The caller.                                                             *)

(* Mutated form: the last worker gets a step like the others.              *)
Part_Equal(n, workers, i) ==
    LET nStep == (n - n \div 128) \div workers
    IN  [p_from |-> i * nStep, p_to |-> i * nStep + nStep]

(* The particles of worker i: equal steps, and the rest for the last one.  *)
Part(n, workers, i) ==
    LET nStep == (n - n \div 128) \div workers
    IN  [p_from |-> i * nStep,
         p_to   |-> IF i = workers - 1 THEN n ELSE i * nStep + nStep]

(* A call with n particles; few of them are not worth the team.            *)
Execute(n) ==
    /\ pc = "idle" /\ pc' = "add"
    /\ p_cnt' = n
    /\ nWorkers' = IF n < Workers * 64 THEN 1 ELSE Workers
    /\ ran' = [s \in Slots |-> 0]
    /\ UNCHANGED <<team, next, at>>

AddWorker ==
    /\ pc = "add" /\ assigned < nWorkers
    /\ lpWorkerFunc' = [lpWorkerFunc EXCEPT ![assigned] = "Stream"]
    /\ params' = [params EXCEPT ![assigned] = Part(p_cnt, nWorkers, assigned)]
    /\ assigned' = assigned + 1
    /\ UNCHANGED <<vlFlag, size, caller, at, ran>>

(* Mutated form: the helpers that work are counted with the caller.        *)
QueueSize_All == assigned

QueueSize == assigned - 1

(* RunAllWorkers: the count is set before any helper is let go.            *)
RunAllWorkers ==
    /\ pc = "add" /\ assigned = nWorkers
    /\ IF assigned - 1 # 0
       THEN size' = QueueSize /\ pc' = "start" /\ next' = 0
       ELSE pc' = "run" /\ UNCHANGED <<size, next>>
    /\ UNCHANGED <<vlFlag, lpWorkerFunc, params, assigned, p_cnt, nWorkers, at, ran>>

StartHelper ==
    /\ pc = "start"
    /\ IF next < assigned - 1
       THEN /\ vlFlag' = [vlFlag EXCEPT ![next] = 0]
            /\ next' = next + 1 /\ UNCHANGED pc
       ELSE pc' = "run" /\ UNCHANGED <<vlFlag, next>>
    /\ UNCHANGED <<lpWorkerFunc, params, size, assigned, p_cnt, nWorkers, at, ran>>

(* The caller does the last job.                                           *)
RunLast ==
    /\ pc = "run"
    /\ pc' = IF assigned - 1 # 0 THEN "spin" ELSE "clean"
    /\ ran' = [ran EXCEPT ![assigned - 1] = @ + 1]
    /\ UNCHANGED <<team, next, p_cnt, nWorkers, at>>

(* Mutated form: the caller does not wait.                                 *)
QueueEmpty_Skip == size >= 0

QueueEmpty == size = 0

Spin ==
    /\ pc = "spin" /\ QueueEmpty
    /\ pc' = "clean"
    /\ UNCHANGED <<team, next, p_cnt, nWorkers, at, ran>>

(* RunAllWorkers returns, and the stack with the parameters is released.   *)
Return ==
    /\ pc = "clean" /\ pc' = "idle"
    /\ assigned' = 0
    /\ UNCHANGED <<vlFlag, lpWorkerFunc, params, size, next, p_cnt, nWorkers, at, ran>>

(* ttapi_Done: the helpers are asked to end one by one, then waited for.   *)
Done ==
    /\ pc = "idle" /\ pc' = "stop" /\ next' = 0
    /\ UNCHANGED <<team, p_cnt, nWorkers, at, ran>>

EndFunc(h) == lpWorkerFunc' = [lpWorkerFunc EXCEPT ![h] = "NULL"]

ClearFunc ==
    /\ pc = "stop"
    /\ IF next < Threads THEN EndFunc(next) /\ pc' = "ask"
       ELSE pc' = "join" /\ UNCHANGED lpWorkerFunc
    /\ UNCHANGED <<vlFlag, params, size, assigned, next, p_cnt, nWorkers, at, ran>>

AskToEnd ==
    /\ pc = "ask" /\ pc' = "stop"
    /\ vlFlag' = [vlFlag EXCEPT ![next] = 0]
    /\ next' = next + 1
    /\ UNCHANGED <<lpWorkerFunc, params, size, assigned, p_cnt, nWorkers, at, ran>>

WaitForHelpers ==
    /\ pc = "join" /\ pc' = "gone"
    /\ \A h \in Helpers : at[h] = "ended"
    /\ assigned' = 0
    /\ UNCHANGED <<vlFlag, lpWorkerFunc, params, size, next, p_cnt, nWorkers, at, ran>>

CallerStep ==
    \/ AddWorker \/ RunAllWorkers \/ StartHelper \/ RunLast \/ Spin \/ Return
    \/ ClearFunc \/ AskToEnd \/ WaitForHelpers

-----------------------------------------------------------------------------
(* A helper thread: ttapiThreadProc.                                       *)

Goes(h, from, to) == at[h] = from /\ at' = [at EXCEPT ![h] = to]

(* Spinning, yielding and sleeping all end with the flag cleared.          *)
SeeFlag(h) ==
    /\ vlFlag[h] = 0
    /\ Goes(h, "wait", "process")
    /\ UNCHANGED <<team, caller, ran>>

(* Mutated form: the helper does not close its own gate.                   *)
Closed_Not(h) == vlFlag

Closed(h) == [vlFlag EXCEPT ![h] = 1]

ResetFlag(h) ==
    /\ Goes(h, "process", "fetch")
    /\ vlFlag' = Closed(h)
    /\ UNCHANGED <<lpWorkerFunc, params, size, assigned, caller, ran>>

Fetch(h) ==
    /\ \/ lpWorkerFunc[h] # "NULL" /\ Goes(h, "fetch", "work")
       \/ lpWorkerFunc[h] = "NULL" /\ Goes(h, "fetch", "ended")
    /\ UNCHANGED <<team, caller, ran>>

Work(h) ==
    /\ Goes(h, "work", "count")
    /\ ran' = [ran EXCEPT ![h] = @ + 1]
    /\ UNCHANGED <<team, caller>>

Decrement(h) ==
    /\ Goes(h, "count", "wait")
    /\ size' = size - 1
    /\ UNCHANGED <<vlFlag, lpWorkerFunc, params, assigned, caller, ran>>

HelperStep(h) ==
    SeeFlag(h) \/ ResetFlag(h) \/ Fetch(h) \/ Work(h) \/ Decrement(h)

Next ==
    \/ \E n \in Counts : Execute(n)
    \/ Done
    \/ CallerStep
    \/ \E h \in Helpers : HelperStep(h)

Spec == Init /\ [][Next]_vars

(* Every thread runs on; nothing makes the game call or end.               *)
FairSpec ==
    Spec /\ WF_vars(CallerStep) /\ \A h \in Helpers : WF_vars(HelperStep(h))

-----------------------------------------------------------------------------
(* Properties.                                                             *)

Handles(s, k) == params[s].p_from <= k /\ k < params[s].p_to

(* When RunAllWorkers returns, every particle has been handled by exactly  *)
(* one worker and once, whatever the number of workers and of particles.   *)
EachParticleOnce ==
    pc = "clean" =>
        \A k \in 0 .. p_cnt - 1 :
            \E s \in 0 .. nWorkers - 1 :
                /\ Handles(s, k) /\ ran[s] = 1
                /\ \A t \in 0 .. nWorkers - 1 : Handles(t, k) => t = s

(* Outside a call every helper waits at a closed gate: none uses the       *)
(* parameters on a stack that is gone, reads a slot that AddWorker writes, *)
(* or counts down for a later call.  And once ttapi_Done has begun to let  *)
(* the helpers go, none takes the open gate for a job.                     *)
NoLateWork ==
    /\ pc \in {"clean", "idle", "add"} =>
          \A h \in Helpers : at[h] = "wait" /\ vlFlag[h] = 1
    /\ pc \in {"stop", "ask", "join", "gone"} =>
          \A h \in Helpers : at[h] \notin {"work", "count"}

(* A call returns, and ttapi_Done ends: the caller never spins for good.   *)
CallReturns == /\ pc = "add" ~> pc = "idle"
               /\ pc = "stop" ~> pc = "gone"
=============================================================================
