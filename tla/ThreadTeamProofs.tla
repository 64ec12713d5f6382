-------------------------- MODULE ThreadTeamProofs --------------------------
(***************************************************************************)
(* The thread team, proved for any number of helpers and of particles.     *)
(*                                                                         *)
(* What the caller spins on is one number, and it says nothing of where a  *)
(* helper stands.  The inductive invariant ties the two: during a call     *)
(* ttapi_queue_size is the number of helpers that have not finished their  *)
(* job (Pending), and every helper below Limit has been let go once.       *)
(***************************************************************************)
EXTENDS ThreadTeam, FiniteSetTheorems, TLAPS

(* A product grows with a factor: the solver is told once.                 *)
LEMMA ProductMonotone ==
    ASSUME NEW a \in Int, NEW b \in Int, NEW c \in Nat, a <= b
    PROVE  a * c <= b * c
  BY Z3

(* A product of naturals is a natural.                                     *)
LEMMA ProductNat ==
    ASSUME NEW a \in Nat, NEW b \in Nat
    PROVE  a * b \in Nat
  BY Z3

(* A quotient of naturals is a natural.                                    *)
LEMMA DivNat ==
    ASSUME NEW n \in Nat, NEW d \in Nat \ {0}
    PROVE  n \div d \in Nat /\ n \div d <= n
  BY Z3

(* What the quotient leaves is less than the divisor.                      *)
LEMMA DivBounds ==
    ASSUME NEW k \in Nat, NEW d \in Nat \ {0}
    PROVE  /\ k \div d \in Nat
           /\ (k \div d) * d <= k /\ k < (k \div d) * d + d
  BY Z3

-----------------------------------------------------------------------------
(* The particles of the workers.                                           *)

(* A step times the workers never passes the particles.                    *)
LEMMA StepBound ==
    ASSUME NEW n \in Nat, NEW w \in Nat \ {0}
    PROVE  LET nStep == (n - n \div 128) \div w
           IN  nStep \in Nat /\ nStep * w <= n
<1> DEFINE m == n - n \div 128
<1>1. n \div 128 \in Nat /\ n \div 128 <= n
  BY DivNat
<1>2. m \in Nat /\ m <= n
  BY <1>1
<1> HIDE DEF m
<1>3. m \div w \in Nat /\ (m \div w) * w <= m
  BY <1>2, DivBounds
<1>4. (m \div w) * w \in Nat
  BY <1>3, ProductNat
<1>5. m \div w \in Nat /\ (m \div w) * w <= n
  BY <1>2, <1>3, <1>4
<1> QED
  BY <1>5 DEF m

(* Every worker is given a slice of the particles.                         *)
LEMMA PartType ==
    ASSUME NEW n \in Nat, NEW w \in Nat \ {0}, NEW i \in Nat
    PROVE  Part(n, w, i) \in Slice
<1> DEFINE nStep == (n - n \div 128) \div w
<1>1. nStep \in Nat
  BY StepBound
<1> HIDE DEF nStep
<1>2. i * nStep \in Nat
  BY <1>1, ProductNat
<1>3. i * nStep + nStep \in Nat
  BY <1>1, <1>2
<1>4. Part(n, w, i) = [p_from |-> i * nStep,
                       p_to   |-> IF i = w - 1 THEN n ELSE i * nStep + nStep]
  BY DEF Part, nStep
<1> QED
  BY <1>2, <1>3, <1>4 DEF Slice

InPart(n, w, i, k) == Part(n, w, i).p_from <= k /\ k < Part(n, w, i).p_to

(* The slices of the workers meet nowhere and leave nothing out.           *)
LEMMA PartsPartition ==
    ASSUME NEW n \in Nat, NEW w \in Nat \ {0}, NEW k \in 0 .. n - 1
    PROVE  \E i \in 0 .. w - 1 :
              /\ InPart(n, w, i, k)
              /\ \A j \in 0 .. w - 1 : InPart(n, w, j, k) => j = i
<1> DEFINE d == (n - n \div 128) \div w
           P(i) == i * d <= k /\ (k < i * d + d \/ i = w - 1)
<1>1. d \in Nat /\ d * w <= n /\ d * w \in Nat
  BY StepBound, ProductNat
<1>2. ASSUME NEW i \in 0 .. w - 1 PROVE InPart(n, w, i, k) <=> P(i)
  <2>1. /\ Part(n, w, i).p_from = i * d
        /\ Part(n, w, i).p_to = IF i = w - 1 THEN n ELSE i * d + d
    BY DEF Part
  <2> HIDE DEF d
  <2>2. i * d \in Nat
    BY <1>1, ProductNat
  <2> QED
    BY <1>1, <2>1, <2>2 DEF InPart
<1> HIDE DEF d
<1>3. ASSUME NEW i \in 0 .. w - 1, NEW j \in 0 .. w - 1, i < j, P(i)
      PROVE  ~P(j)
  <2>1. (i + 1) * d <= j * d
    <3>1. i + 1 \in Int /\ j \in Int /\ i + 1 <= j
      BY <1>3
    <3> QED
      BY <1>1, <3>1, ProductMonotone
  <2>2. (i + 1) * d = i * d + d
    BY <1>1, Z3
  <2>3. i * d \in Nat /\ j * d \in Nat
    BY <1>1, ProductNat
  <2> QED
    BY <1>1, <1>3, <2>1, <2>2, <2>3
<1>4. \E i \in 0 .. w - 1 : P(i)
  <2>1. CASE (w - 1) * d <= k
    BY <2>1
  <2>2. CASE ~((w - 1) * d <= k)
    <3>1. (w - 1) * d \in Nat
      BY <1>1, ProductNat
    <3>2. d # 0
      BY <2>2, Z3
    <3> DEFINE i == k \div d
    <3>3. i \in Nat /\ i * d <= k /\ k < i * d + d
      BY <1>1, <3>2, DivBounds
    <3> HIDE DEF i
    <3>4. i * d \in Nat
      BY <1>1, <3>3, ProductNat
    <3>5. i < w - 1
      <4>1. SUFFICES ASSUME w - 1 <= i PROVE FALSE
        BY <3>3
      <4>2. (w - 1) * d <= i * d
        BY <1>1, <3>3, <4>1, ProductMonotone
      <4> QED
        BY <2>2, <3>1, <3>3, <3>4, <4>2
    <3> QED
      BY <3>3, <3>5
  <2> QED
    BY <2>1, <2>2
<1>5. PICK i \in 0 .. w - 1 : P(i)
  BY <1>4
<1>6. ASSUME NEW j \in 0 .. w - 1, P(j) PROVE j = i
  BY <1>3, <1>5, <1>6
<1> QED
  BY <1>2, <1>5, <1>6

-----------------------------------------------------------------------------
(* The inductive invariant.                                                *)

Idle(h)     == at[h] = "wait" /\ vlFlag[h] = 1
Finished(h) == Idle(h) /\ ran[h] = 1
Started(h)  == \/ vlFlag[h] = 0 /\ at[h] \in {"wait", "process"} /\ ran[h] = 0
               \/ vlFlag[h] = 1 /\ at[h] \in {"fetch", "work"} /\ ran[h] = 0
               \/ vlFlag[h] = 1 /\ at[h] = "count" /\ ran[h] = 1

(* The helpers of a call, those that have not finished, and how many the   *)
(* caller has let go.                                                      *)
Called  == 0 .. nWorkers - 2
Pending == {h \in Called : ~Finished(h)}
Limit   == IF pc = "start" THEN next ELSE nWorkers - 1

Stopping == {"stop", "ask", "join", "gone"}

(* The slots hold the jobs of this call.                                   *)
SlotsFilled ==
    /\ \A s \in 0 .. assigned - 1 :
          lpWorkerFunc[s] = "Stream" /\ params[s] = Part(p_cnt, nWorkers, s)
    /\ pc \in Stopping \cup {"idle"} => assigned = 0
    /\ pc = "add" => assigned <= nWorkers
    /\ pc \in InCall \cup {"clean"} => assigned = nWorkers
    /\ pc \in {"start", "spin"} => nWorkers > 1

(* Outside a call the team rests.                                          *)
TeamRests ==
    /\ pc \in {"idle", "add", "clean"} => \A h \in Helpers : Idle(h)
    /\ pc \notin InCall => size = 0
    /\ pc = "add" => \A s \in Slots : ran[s] = 0
    /\ pc = "clean" => \A s \in 0 .. nWorkers - 1 : ran[s] = 1

(* In a call ttapi_queue_size counts the helpers that have not finished.   *)
CallCounted ==
    /\ pc = "start" => next <= nWorkers - 1
    /\ pc \in InCall =>
          /\ size = Cardinality(Pending)
          /\ ran[nWorkers - 1] = IF pc = "spin" THEN 1 ELSE 0
          /\ \A h \in Helpers :
                /\ h < Limit => Started(h) \/ Finished(h)
                /\ h >= Limit => Idle(h) /\ (h < nWorkers - 1 => ran[h] = 0)

(* ttapi_Done has cleared the function of every helper it has let go.      *)
HelpersEnd ==
    pc \in Stopping =>
        /\ pc = "ask" => next < Threads
        /\ \A h \in Helpers :
              /\ at[h] \in {"wait", "process", "fetch", "ended"}
              /\ h < next \/ (h = next /\ pc = "ask") => lpWorkerFunc[h] = "NULL"
              /\ h >= next => Idle(h)

IInv == TypeOK /\ SlotsFilled /\ TeamRests /\ CallCounted /\ HelpersEnd

-----------------------------------------------------------------------------
(* The steps.                                                              *)

(* Pending is a finite set.                                                *)
LEMMA PendingFinite ==
    ASSUME TypeOK
    PROVE  IsFiniteSet(Pending) /\ Cardinality(Pending) \in Nat
<1>1. IsFiniteSet(Called)
  BY ThreadsAssumption, FS_Interval DEF TypeOK, Called, Workers
<1> QED
  BY <1>1, FS_Subset, FS_CardinalityType DEF Pending

(* A call starts with nothing assigned and nothing run.                    *)
LEMMA ExecuteIInv ==
    ASSUME NEW n \in Counts, IInv, Execute(n)
    PROVE  IInv'
<1> USE ThreadsAssumption, CountsAssumption
<1>1. TypeOK'
  BY DEF IInv, Execute, TypeOK, InCall, Helpers, Slots, Workers, team
<1>2. SlotsFilled'
  BY DEF IInv, Execute, TypeOK, SlotsFilled, InCall, Stopping, team
<1>3. TeamRests'
  BY DEF IInv, Execute, TypeOK, TeamRests, Idle, InCall, Slots, Helpers,
      Workers, team
<1>4. CallCounted'
  BY DEF IInv, Execute, CallCounted, InCall, team
<1>5. HelpersEnd'
  BY DEF IInv, Execute, HelpersEnd, Stopping, InCall, team
<1> QED
  BY <1>1, <1>2, <1>3, <1>4, <1>5 DEF IInv

(* ttapi_Done finds the team at rest.                                      *)
LEMMA DoneIInv ==
    ASSUME IInv, Done
    PROVE  IInv'
<1> USE ThreadsAssumption
<1>1. TypeOK'
  BY DEF IInv, Done, TypeOK, InCall, Helpers, Slots, Workers, team
<1>2. SlotsFilled'
  BY DEF IInv, Done, TypeOK, SlotsFilled, InCall, Stopping, team
<1>3. TeamRests'
  BY DEF IInv, Done, TypeOK, TeamRests, Idle, InCall, Slots, Helpers,
      Workers, team
<1>4. CallCounted'
  BY DEF IInv, Done, CallCounted, InCall, team
<1>5. HelpersEnd'
  BY DEF IInv, Done, TypeOK, TeamRests, HelpersEnd, Stopping, InCall, Idle,
      Helpers, Slots, Workers, team
<1> QED
  BY <1>1, <1>2, <1>3, <1>4, <1>5 DEF IInv

(* A slot is filled beside those filled before.                            *)
LEMMA AddWorkerIInv ==
    ASSUME IInv, AddWorker
    PROVE  IInv'
<1> USE ThreadsAssumption
<1>1. TypeOK'
  <2>1. Part(p_cnt, nWorkers, assigned) \in Slice
    BY PartType DEF IInv, TypeOK, Workers
  <2> QED
    BY <2>1 DEF IInv, AddWorker, TypeOK, InCall, Helpers, Slots, Workers,
        caller
<1>2. SlotsFilled'
  BY DEF IInv, AddWorker, TypeOK, SlotsFilled, InCall, Stopping, Slots,
      Workers, Helpers, caller
<1>3. TeamRests'
  BY DEF IInv, AddWorker, TypeOK, TeamRests, Idle, InCall, Slots, Helpers,
      Workers, caller
<1>4. CallCounted'
  BY DEF IInv, AddWorker, CallCounted, InCall, caller
<1>5. HelpersEnd'
  BY DEF IInv, AddWorker, HelpersEnd, Stopping, InCall, caller
<1> QED
  BY <1>1, <1>2, <1>3, <1>4, <1>5 DEF IInv

(* Every helper of the call is pending when it is counted.                 *)
LEMMA RunAllWorkersIInv ==
    ASSUME IInv, RunAllWorkers
    PROVE  IInv'
<1> USE ThreadsAssumption
<1>1. TypeOK'
  BY DEF IInv, RunAllWorkers, QueueSize, TypeOK, InCall, Helpers, Slots,
      Workers
<1>2. SlotsFilled'
  BY DEF IInv, RunAllWorkers, QueueSize, TypeOK, SlotsFilled, InCall,
      Stopping, Slots, Workers, Helpers
<1>3. TeamRests'
  BY DEF IInv, RunAllWorkers, QueueSize, TypeOK, TeamRests, Idle, InCall,
      Slots, Helpers, Workers
<1>4. CallCounted'
  <2>1. Pending' = 0 .. nWorkers - 2
    BY DEF IInv, RunAllWorkers, QueueSize, TypeOK, SlotsFilled, TeamRests,
        CallCounted, HelpersEnd, Idle, Finished, Started, Called, Pending,
        Limit, Stopping, InCall, Helpers, Slots, Workers
  <2>2. nWorkers \in Nat \ {0}
    BY DEF IInv, TypeOK, Workers
  <2>3. 0 \in Int /\ nWorkers - 2 \in Int
    BY <2>2
  <2>4. Cardinality(0 .. nWorkers - 2) = nWorkers - 1
    BY <2>2, <2>3, FS_Interval
  <2> QED
    BY <2>1, <2>2, <2>4 DEF IInv, RunAllWorkers, QueueSize, TypeOK,
        SlotsFilled, TeamRests, CallCounted, HelpersEnd, Idle, Finished,
        Started, Limit, InCall, Stopping, Helpers, Slots, Workers
<1>5. HelpersEnd'
  BY DEF IInv, RunAllWorkers, QueueSize, HelpersEnd, Stopping, InCall
<1> QED
  BY <1>1, <1>2, <1>3, <1>4, <1>5 DEF IInv

(* The helper let go was idle, and is pending still.                       *)
LEMMA StartHelperIInv ==
    ASSUME IInv, StartHelper
    PROVE  IInv'
<1> USE ThreadsAssumption
<1>1. TypeOK'
  BY DEF IInv, StartHelper, TypeOK, InCall, Helpers, Slots, Workers
<1>2. SlotsFilled'
  BY DEF IInv, StartHelper, TypeOK, SlotsFilled, InCall, Stopping
<1>3. TeamRests'
  BY DEF IInv, StartHelper, TypeOK, TeamRests, Idle, InCall, Slots, Helpers,
      Workers
<1>4. CallCounted'
  <2>1. Pending' = Pending
    BY DEF IInv, StartHelper, TypeOK, SlotsFilled, TeamRests, CallCounted,
        HelpersEnd, Idle, Finished, Started, Called, Pending, Limit,
        Stopping, InCall, Helpers, Slots, Workers
  <2> QED
    BY <2>1 DEF IInv, StartHelper, TypeOK, SlotsFilled, TeamRests,
        CallCounted, HelpersEnd, Idle, Finished, Started, Limit, InCall,
        Stopping, Helpers, Slots, Workers
<1>5. HelpersEnd'
  BY DEF IInv, StartHelper, HelpersEnd, Stopping, InCall
<1> QED
  BY <1>1, <1>2, <1>3, <1>4, <1>5 DEF IInv

(* The job of the caller is not that of a helper.                          *)
LEMMA RunLastIInv ==
    ASSUME IInv, RunLast
    PROVE  IInv'
<1> USE ThreadsAssumption
<1>1. TypeOK'
  BY DEF IInv, RunLast, TypeOK, SlotsFilled, TeamRests, InCall, Stopping,
      Helpers, Slots, Workers, team
<1>2. SlotsFilled'
  BY DEF IInv, RunLast, TypeOK, SlotsFilled, InCall, Stopping, Slots,
      Workers, Helpers, team
<1>3. TeamRests'
  <2>1. nWorkers = 1 => size = 0
    BY FS_EmptySet DEF IInv, CallCounted, InCall, Pending, Called, RunLast
  <2> QED
    BY <2>1 DEF IInv, RunLast, TypeOK, SlotsFilled, TeamRests, CallCounted,
        HelpersEnd, Idle, InCall, Stopping, Helpers, Slots, Workers, Limit,
        team
<1>4. CallCounted'
  <2>1. Pending' = Pending
    BY DEF IInv, RunLast, TypeOK, SlotsFilled, TeamRests, CallCounted,
        HelpersEnd, Idle, Finished, Started, Called, Pending, Limit,
        Stopping, InCall, Helpers, Slots, Workers, team
  <2> QED
    BY <2>1 DEF IInv, RunLast, TypeOK, SlotsFilled, TeamRests, CallCounted,
        HelpersEnd, Idle, Finished, Started, Limit, InCall, Stopping,
        Helpers, Slots, Workers, team
<1>5. HelpersEnd'
  BY DEF IInv, RunLast, HelpersEnd, Stopping, InCall, team
<1> QED
  BY <1>1, <1>2, <1>3, <1>4, <1>5 DEF IInv

(* At zero no helper is pending: all have finished.                        *)
LEMMA SpinIInv ==
    ASSUME IInv, Spin
    PROVE  IInv'
<1> USE ThreadsAssumption
<1>1. TypeOK'
  BY DEF IInv, Spin, QueueEmpty, TypeOK, InCall, Helpers, Slots, Workers,
      team
<1>2. SlotsFilled'
  BY DEF IInv, Spin, QueueEmpty, TypeOK, SlotsFilled, InCall, Stopping, team
<1>3. TeamRests'
  <2>1. Pending = {}
    BY PendingFinite, FS_EmptySet DEF IInv, CallCounted, InCall, Spin, QueueEmpty
  <2>2. nWorkers = Workers
    BY DEF IInv, TypeOK, SlotsFilled, Spin
  <2>3. \A x \in Helpers : Finished(x)
    BY <2>1, <2>2 DEF Pending, Called, Helpers, Workers
  <2>4. ran[nWorkers - 1] = 1
    BY DEF IInv, CallCounted, InCall, Spin
  <2>5. \A x \in Helpers : Idle(x) /\ ran[x] = 1
    BY <2>3 DEF Finished
  <2> QED
    BY <2>2, <2>4, <2>5 DEF IInv, Spin, QueueEmpty, TypeOK, TeamRests, Idle,
        InCall, Slots, Helpers, Workers, team
<1>4. CallCounted'
  BY DEF IInv, Spin, QueueEmpty, CallCounted, InCall, team
<1>5. HelpersEnd'
  BY DEF IInv, Spin, QueueEmpty, HelpersEnd, Stopping, InCall, team
<1> QED
  BY <1>1, <1>2, <1>3, <1>4, <1>5 DEF IInv

(* The team rests when the call returns.                                   *)
LEMMA ReturnIInv ==
    ASSUME IInv, Return
    PROVE  IInv'
<1> USE ThreadsAssumption
<1>1. TypeOK'
  BY DEF IInv, Return, TypeOK, InCall, Helpers, Slots, Workers
<1>2. SlotsFilled'
  BY DEF IInv, Return, TypeOK, SlotsFilled, InCall, Stopping
<1>3. TeamRests'
  BY DEF IInv, Return, TypeOK, TeamRests, Idle, InCall, Slots, Helpers,
      Workers
<1>4. CallCounted'
  BY DEF IInv, Return, CallCounted, InCall
<1>5. HelpersEnd'
  BY DEF IInv, Return, HelpersEnd, Stopping, InCall
<1> QED
  BY <1>1, <1>2, <1>3, <1>4, <1>5 DEF IInv

(* The function goes before its helper is let go.                          *)
LEMMA ClearFuncIInv ==
    ASSUME IInv, ClearFunc
    PROVE  IInv'
<1> USE ThreadsAssumption
<1>1. TypeOK'
  BY DEF IInv, ClearFunc, EndFunc, TypeOK, InCall, Helpers, Slots, Workers
<1>2. SlotsFilled'
  BY DEF IInv, ClearFunc, EndFunc, TypeOK, SlotsFilled, InCall, Stopping
<1>3. TeamRests'
  BY DEF IInv, ClearFunc, EndFunc, TypeOK, TeamRests, Idle, InCall, Slots,
      Helpers, Workers
<1>4. CallCounted'
  BY DEF IInv, ClearFunc, EndFunc, CallCounted, InCall
<1>5. HelpersEnd'
  BY DEF IInv, ClearFunc, EndFunc, TypeOK, HelpersEnd, Stopping, Idle,
      Helpers, Slots
<1> QED
  BY <1>1, <1>2, <1>3, <1>4, <1>5 DEF IInv

(* The helper let go has no function.                                      *)
LEMMA AskToEndIInv ==
    ASSUME IInv, AskToEnd
    PROVE  IInv'
<1> USE ThreadsAssumption
<1>1. TypeOK'
  BY DEF IInv, AskToEnd, TypeOK, SlotsFilled, TeamRests, CallCounted,
      HelpersEnd, Idle, Finished, Started, Called, Pending, Limit, Stopping,
      InCall, Helpers, Slots, Workers
<1>2. SlotsFilled'
  BY DEF IInv, AskToEnd, TypeOK, SlotsFilled, InCall, Stopping
<1>3. TeamRests'
  BY DEF IInv, AskToEnd, TypeOK, TeamRests, Idle, InCall, Slots, Helpers,
      Workers
<1>4. CallCounted'
  BY DEF IInv, AskToEnd, CallCounted, InCall
<1>5. HelpersEnd'
  BY DEF IInv, AskToEnd, TypeOK, HelpersEnd, Stopping, Idle, Helpers, Slots
<1> QED
  BY <1>1, <1>2, <1>3, <1>4, <1>5 DEF IInv

(* The helpers have ended.                                                 *)
LEMMA WaitForHelpersIInv ==
    ASSUME IInv, WaitForHelpers
    PROVE  IInv'
<1> USE ThreadsAssumption
<1>1. TypeOK'
  BY DEF IInv, WaitForHelpers, TypeOK, InCall, Helpers, Slots, Workers
<1>2. SlotsFilled'
  BY DEF IInv, WaitForHelpers, TypeOK, SlotsFilled, InCall, Stopping
<1>3. TeamRests'
  BY DEF IInv, WaitForHelpers, TypeOK, TeamRests, Idle, InCall, Slots,
      Helpers, Workers
<1>4. CallCounted'
  BY DEF IInv, WaitForHelpers, CallCounted, InCall
<1>5. HelpersEnd'
  BY DEF IInv, WaitForHelpers, TypeOK, HelpersEnd, Stopping, Idle, Helpers,
      Slots
<1> QED
  BY <1>1, <1>2, <1>3, <1>4, <1>5 DEF IInv

(* A helper that sees its flag was let go.                                 *)
LEMMA SeeFlagIInv ==
    ASSUME NEW h \in Helpers, IInv, SeeFlag(h)
    PROVE  IInv'
<1> USE ThreadsAssumption
<1>1. TypeOK'
  BY DEF IInv, SeeFlag, Goes, TypeOK, InCall, Helpers, Slots, Workers, team,
      caller
<1>2. SlotsFilled'
  BY DEF IInv, SeeFlag, Goes, TypeOK, SlotsFilled, InCall, Stopping, team,
      caller
<1>3. TeamRests'
  BY DEF IInv, SeeFlag, Goes, TypeOK, TeamRests, Idle, InCall, Slots,
      Helpers, Workers, team, caller
<1>4. CallCounted'
  <2>1. Pending' = Pending
    BY DEF IInv, SeeFlag, Goes, TypeOK, SlotsFilled, TeamRests, CallCounted,
        HelpersEnd, Idle, Finished, Started, Called, Pending, Limit,
        Stopping, InCall, Helpers, Slots, Workers, team, caller
  <2> QED
    BY <2>1 DEF IInv, SeeFlag, Goes, TypeOK, CallCounted, InCall, Idle,
        Started, Finished, Limit, Helpers, Slots, team, caller
<1>5. HelpersEnd'
  BY DEF IInv, SeeFlag, Goes, TypeOK, HelpersEnd, Stopping, Idle, Helpers,
      Slots, team, caller
<1> QED
  BY <1>1, <1>2, <1>3, <1>4, <1>5 DEF IInv

(* A helper closes its gate before it works.                               *)
LEMMA ResetFlagIInv ==
    ASSUME NEW h \in Helpers, IInv, ResetFlag(h)
    PROVE  IInv'
<1> USE ThreadsAssumption
<1>1. TypeOK'
  BY DEF IInv, ResetFlag, Closed, Goes, TypeOK, InCall, Helpers, Slots,
      Workers, caller
<1>2. SlotsFilled'
  BY DEF IInv, ResetFlag, Closed, Goes, TypeOK, SlotsFilled, InCall,
      Stopping, caller
<1>3. TeamRests'
  BY DEF IInv, ResetFlag, Closed, Goes, TypeOK, TeamRests, Idle, InCall,
      Slots, Helpers, Workers, caller
<1>4. CallCounted'
  <2>1. Pending' = Pending
    BY DEF IInv, ResetFlag, Closed, Goes, TypeOK, SlotsFilled, TeamRests,
        CallCounted, HelpersEnd, Idle, Finished, Started, Called, Pending,
        Limit, Stopping, InCall, Helpers, Slots, Workers, caller
  <2> QED
    BY <2>1 DEF IInv, ResetFlag, Closed, Goes, TypeOK, CallCounted, InCall,
        Idle, Started, Finished, Limit, Helpers, Slots, caller
<1>5. HelpersEnd'
  BY DEF IInv, ResetFlag, Closed, Goes, TypeOK, HelpersEnd, Stopping, Idle,
      Helpers, Slots, caller
<1> QED
  BY <1>1, <1>2, <1>3, <1>4, <1>5 DEF IInv

(* A helper of a call finds a job, one that is to end none.                *)
LEMMA FetchIInv ==
    ASSUME NEW h \in Helpers, IInv, Fetch(h)
    PROVE  IInv'
<1> USE ThreadsAssumption
<1>1. TypeOK'
  BY DEF IInv, Fetch, Goes, TypeOK, InCall, Helpers, Slots, Workers, team,
      caller
<1>2. SlotsFilled'
  BY DEF IInv, Fetch, Goes, TypeOK, SlotsFilled, InCall, Stopping, team,
      caller
<1>3. TeamRests'
  BY DEF IInv, Fetch, Goes, TypeOK, TeamRests, Idle, InCall, Slots, Helpers,
      Workers, team, caller
<1>4. CallCounted'
  <2>1. UNCHANGED <<pc, next, nWorkers, size, vlFlag>>
    BY DEF Fetch, team, caller
  <2>2. /\ at[h] = "fetch" /\ at'[h] \in {"work", "ended"}
        /\ \A x \in Helpers : x # h => at'[x] = at[x]
    BY DEF IInv, Fetch, Goes, TypeOK
  <2>3. ran' = ran
    BY DEF IInv, Fetch, TypeOK, Helpers, Slots
  <2>4. CASE pc \notin InCall
    BY <2>1, <2>4 DEF IInv, CallCounted, InCall
  <2>5. CASE pc \in InCall
    <3>1. /\ vlFlag[h] = 1 /\ ran[h] = 0 /\ h < Limit /\ ~Finished(h)
      BY <2>2, <2>5 DEF IInv, CallCounted, Started, Finished, Idle, Limit, TypeOK,
         Helpers, Workers, InCall
    <3>2. Limit' = Limit /\ Limit \in Int /\ nWorkers \in Int /\ Limit <= nWorkers - 1
      BY <2>1, <2>5 DEF IInv, CallCounted, Limit, TypeOK, Workers
    <3>3. Started(h)' /\ ~Finished(h)'
      <4>1. h \in 0 .. assigned - 1
        BY <2>5, <3>1, <3>2 DEF IInv, SlotsFilled, InCall, Helpers
      <4>2. at'[h] = "work"
        BY <4>1 DEF IInv, SlotsFilled, Fetch, Goes, TypeOK
      <4> QED
        BY <2>1, <2>3, <3>1, <4>2 DEF Started, Finished, Idle
    <3>4. \A x \in Helpers : x # h =>
             /\ Finished(x)' <=> Finished(x)
             /\ Started(x)' <=> Started(x)
             /\ Idle(x)' <=> Idle(x)
             /\ ran'[x] = ran[x]
      BY <2>1, <2>2, <2>3 DEF Started, Finished, Idle, Helpers, Slots
    <3>5. Pending' = Pending
      <4>1. Called' = Called /\ \A x \in Called : Finished(x)' <=> Finished(x)
        BY <2>1, <3>1, <3>3, <3>4 DEF IInv, TypeOK, Called, Helpers, Workers
      <4> QED
        BY <4>1 DEF Pending
    <3>6. ran'[nWorkers - 1] = ran[nWorkers - 1]
      BY <2>3, <3>1, <3>2 DEF IInv, TypeOK, Helpers, Slots, Workers
    <3>7. \A x \in Helpers :
             /\ x < Limit' => Started(x)' \/ Finished(x)'
             /\ x >= Limit' => Idle(x)' /\ (x < nWorkers' - 1 => ran'[x] = 0)
      <4>1. \A x \in Helpers :
               /\ x < Limit => Started(x) \/ Finished(x)
               /\ x >= Limit => Idle(x) /\ (x < nWorkers - 1 => ran[x] = 0)
        BY <2>5 DEF IInv, CallCounted
      <4>2. h \in Int
        BY DEF Helpers
      <4> QED
        BY <2>1, <3>1, <3>2, <3>3, <3>4, <4>1, <4>2
    <3> QED
      BY <2>1, <2>5, <3>5, <3>6, <3>7 DEF IInv, CallCounted
  <2> QED
    BY <2>4, <2>5
<1>5. HelpersEnd'
  BY DEF IInv, Fetch, Goes, TypeOK, HelpersEnd, Stopping, Idle, Helpers,
      Slots, team, caller
<1> QED
  BY <1>1, <1>2, <1>3, <1>4, <1>5 DEF IInv

(* A job is run once, before it is counted.                                *)
LEMMA WorkIInv ==
    ASSUME NEW h \in Helpers, IInv, Work(h)
    PROVE  IInv'
<1> USE ThreadsAssumption
<1>1. TypeOK'
  BY DEF IInv, Work, Goes, TypeOK, InCall, Helpers, Slots, Workers, team,
      caller
<1>2. SlotsFilled'
  BY DEF IInv, Work, Goes, TypeOK, SlotsFilled, InCall, Stopping, team,
      caller
<1>3. TeamRests'
  BY DEF IInv, Work, Goes, TypeOK, TeamRests, Idle, InCall, Slots, Helpers,
      Workers, team, caller
<1>4. CallCounted'
  <2>1. UNCHANGED <<pc, next, nWorkers, size, vlFlag>>
    BY DEF Work, team, caller
  <2>2. /\ at[h] = "work" /\ at'[h] = "count"
        /\ \A x \in Helpers : x # h => at'[x] = at[x]
    BY DEF IInv, Work, Goes, TypeOK
  <2>3. ran'[h] = ran[h] + 1 /\ \A s \in Slots : s # h => ran'[s] = ran[s]
    BY DEF IInv, Work, TypeOK, Helpers, Slots
  <2>4. CASE pc \notin InCall
    BY <2>1, <2>4 DEF IInv, CallCounted, InCall
  <2>5. CASE pc \in InCall
    <3>1. /\ vlFlag[h] = 1 /\ ran[h] = 0 /\ h < Limit /\ ~Finished(h)
      BY <2>2, <2>5 DEF IInv, CallCounted, Started, Finished, Idle, Limit, TypeOK,
         Helpers, Workers, InCall
    <3>2. Limit' = Limit /\ Limit \in Int /\ nWorkers \in Int /\ Limit <= nWorkers - 1
      BY <2>1, <2>5 DEF IInv, CallCounted, Limit, TypeOK, Workers
    <3>3. Started(h)' /\ ~Finished(h)'
      BY <2>1, <2>2, <2>3, <2>5, <3>1 DEF Started, Finished, Idle
    <3>4. \A x \in Helpers : x # h =>
             /\ Finished(x)' <=> Finished(x)
             /\ Started(x)' <=> Started(x)
             /\ Idle(x)' <=> Idle(x)
             /\ ran'[x] = ran[x]
      BY <2>1, <2>2, <2>3 DEF Started, Finished, Idle, Helpers, Slots
    <3>5. Pending' = Pending
      <4>1. Called' = Called /\ \A x \in Called : Finished(x)' <=> Finished(x)
        BY <2>1, <3>1, <3>3, <3>4 DEF IInv, TypeOK, Called, Helpers, Workers
      <4> QED
        BY <4>1 DEF Pending
    <3>6. ran'[nWorkers - 1] = ran[nWorkers - 1]
      BY <2>3, <3>1, <3>2 DEF IInv, TypeOK, Helpers, Slots, Workers
    <3>7. \A x \in Helpers :
             /\ x < Limit' => Started(x)' \/ Finished(x)'
             /\ x >= Limit' => Idle(x)' /\ (x < nWorkers' - 1 => ran'[x] = 0)
      <4>1. \A x \in Helpers :
               /\ x < Limit => Started(x) \/ Finished(x)
               /\ x >= Limit => Idle(x) /\ (x < nWorkers - 1 => ran[x] = 0)
        BY <2>5 DEF IInv, CallCounted
      <4>2. h \in Int
        BY DEF Helpers
      <4> QED
        BY <2>1, <3>1, <3>2, <3>3, <3>4, <4>1, <4>2
    <3> QED
      BY <2>1, <2>5, <3>5, <3>6, <3>7 DEF IInv, CallCounted
  <2> QED
    BY <2>4, <2>5
<1>5. HelpersEnd'
  BY DEF IInv, Work, Goes, HelpersEnd, Stopping, InCall, team, caller
<1> QED
  BY <1>1, <1>2, <1>3, <1>4, <1>5 DEF IInv

(* The helper that counts itself out was pending.                          *)
LEMMA DecrementIInv ==
    ASSUME NEW h \in Helpers, IInv, Decrement(h)
    PROVE  IInv'
<1> USE ThreadsAssumption
<1>1. pc \in InCall /\ h \in Pending /\ vlFlag[h] = 1 /\ ran[h] = 1
  <2>1. ~Idle(h) /\ at[h] = "count"
    BY DEF Decrement, Goes, Idle
  <2>2. pc \in InCall
    BY <2>1 DEF IInv, TypeOK, TeamRests, HelpersEnd, Stopping, InCall
  <2>3. h < Limit
    BY <2>1, <2>2 DEF IInv, TypeOK, CallCounted, Limit, Helpers, Workers
  <2>4. h < nWorkers - 1
    BY <2>2, <2>3 DEF IInv, TypeOK, CallCounted, Limit, Helpers, Workers
  <2>5. vlFlag[h] = 1 /\ ran[h] = 1
    BY <2>1, <2>2, <2>3 DEF IInv, CallCounted, Started, Finished, Idle
  <2> QED
    BY <2>1, <2>2, <2>4, <2>5 DEF IInv, TypeOK, Pending, Called, Finished, Helpers, Workers
<1>2. Pending' = Pending \ {h}
  <2>1. ~Finished(h) /\ Finished(h)'
    BY <1>1 DEF IInv, TypeOK, Decrement, Goes, Finished, Idle, Helpers
  <2>2. \A x \in Helpers : x # h => (Finished(x)' <=> Finished(x))
    BY DEF IInv, TypeOK, Decrement, Goes, Finished, Idle, Helpers
  <2> QED
    BY <1>1, <2>1, <2>2 DEF IInv, TypeOK, Decrement, caller, Pending, Called, Helpers, Workers
<1>3. size \in Nat \ {0} /\ size - 1 = Cardinality(Pending')
  BY <1>1, <1>2, PendingFinite, FS_RemoveElement, FS_EmptySet DEF IInv,
      CallCounted
<1>4. TypeOK'
  BY <1>3 DEF IInv, Decrement, Goes, TypeOK, InCall, Helpers, Slots, Workers,
      caller
<1>5. SlotsFilled'
  BY DEF IInv, Decrement, Goes, TypeOK, SlotsFilled, InCall, Stopping, caller
<1>6. TeamRests'
  BY DEF IInv, Decrement, Goes, TypeOK, SlotsFilled, TeamRests, CallCounted,
      HelpersEnd, Idle, InCall, Stopping, Helpers, Slots, Workers, Limit,
      caller
<1>7. CallCounted'
  BY <1>3 DEF IInv, Decrement, Goes, TypeOK, CallCounted, InCall, Idle,
      Started, Finished, Limit, Helpers, Slots, caller
<1>8. HelpersEnd'
  BY DEF IInv, Decrement, Goes, HelpersEnd, Stopping, InCall, caller
<1> QED
  BY <1>4, <1>5, <1>6, <1>7, <1>8 DEF IInv

(* ttapi_Init.                                                             *)
LEMMA InitIInv ==
    ASSUME Init PROVE IInv
  BY ThreadsAssumption DEF IInv, Init, Slice, TypeOK, SlotsFilled, TeamRests,
     CallCounted, HelpersEnd, Idle, Stopping, InCall, Helpers, Slots, Workers

(* The invariant reads the variables only.                                 *)
LEMMA StutterIInv ==
    ASSUME IInv, UNCHANGED vars PROVE IInv'
  BY DEF vars, team, caller, IInv, TypeOK, SlotsFilled, TeamRests, CallCounted,
     HelpersEnd, Idle, Finished, Started, Called, Pending, Limit

(* Every step of the caller and of a helper keeps the invariant.           *)
LEMMA StepIInv ==
    ASSUME IInv, [Next]_vars PROVE IInv'
<1>1. CASE \E n \in Counts : Execute(n)
  BY <1>1, ExecuteIInv
<1>2. CASE Done
  BY <1>2, DoneIInv
<1>3. CASE CallerStep
  BY <1>3, AddWorkerIInv, RunAllWorkersIInv, StartHelperIInv, RunLastIInv, SpinIInv,
     ReturnIInv, ClearFuncIInv, AskToEndIInv, WaitForHelpersIInv DEF CallerStep
<1>4. CASE \E h \in Helpers : HelperStep(h)
  BY <1>4, SeeFlagIInv, ResetFlagIInv, FetchIInv, WorkIInv, DecrementIInv
     DEF HelperStep
<1>5. CASE UNCHANGED vars
  BY <1>5, StutterIInv
<1> QED
  BY <1>1, <1>2, <1>3, <1>4, <1>5 DEF Next

-----------------------------------------------------------------------------
(* The theorems.                                                           *)

(* The inductive invariant holds, however the threads interleave.          *)
THEOREM TeamInvariant == Spec => []IInv
  BY InitIInv, StepIInv, PTL DEF Spec

(* Every slot, flag and count stays in its range: above all, the count     *)
(* does not pass zero, and no slot beyond the last is written.             *)
THEOREM TeamTypes == Spec => []TypeOK
<1>1. IInv => TypeOK
  BY DEF IInv
<1> QED
  BY <1>1, TeamInvariant, PTL

(* Outside a call every helper waits at a closed gate, and one that        *)
(* ttapi_Done has let go finds no job, for any number of helpers.          *)
THEOREM TeamRested == Spec => []NoLateWork
<1>1. IInv => NoLateWork
  BY DEF IInv, TeamRests, HelpersEnd, Stopping, NoLateWork, Idle
<1> QED
  BY <1>1, TeamInvariant, PTL

(* When a call returns, each of its particles has been handled by exactly  *)
(* one worker and once, for any numbers of particles and helpers.          *)
THEOREM ParticlesHandled == Spec => []EachParticleOnce
<1>1. ASSUME IInv PROVE EachParticleOnce
  <2>1. SUFFICES ASSUME pc = "clean", NEW k \in 0 .. p_cnt - 1
                 PROVE  \E s \in 0 .. nWorkers - 1 :
                           /\ Handles(s, k) /\ ran[s] = 1
                           /\ \A t \in 0 .. nWorkers - 1 : Handles(t, k) => t = s
    BY DEF EachParticleOnce
  <2>2. p_cnt \in Nat /\ nWorkers \in Nat \ {0}
    BY <1>1, ThreadsAssumption DEF IInv, TypeOK, Workers
  <2>3. \A s \in 0 .. nWorkers - 1 : Handles(s, k) <=> InPart(p_cnt, nWorkers, s, k)
    BY <1>1, <2>1 DEF IInv, SlotsFilled, Handles, InPart
  <2>4. \A s \in 0 .. nWorkers - 1 : ran[s] = 1
    BY <1>1, <2>1 DEF IInv, TeamRests
  <2> QED
    BY <2>2, <2>3, <2>4, PartsPartition
<1> QED
  BY <1>1, TeamInvariant, PTL
=============================================================================
