----------------------- MODULE JobQueueContractProofs -----------------------
(***************************************************************************)
(* JobQueue implements the safety of TaskQueue under the lease: whoever    *)
(* submits work may think of it as a task with one owner at a time.        *)
(***************************************************************************)
EXTENDS JobQueueContract, JobQueueProofs

\* The invariant the refinement rests on.
ContractInv == HoldInv /\ LeaseInv /\ AttemptsInv

LEMMA ContractInvHolds ==
  ASSUME LeaseAssumptions
  PROVE  Spec => []ContractInv
<1>1. Init => AttemptsInv
  BY ConstantsAssumption, MaxOfPositive DEF Init, AttemptsInv, MaxOf
<1>2. HoldInv /\ LeaseInv /\ AttemptsInv /\ [Next]_vars => AttemptsInv'
  BY AttemptsStep
<1> QED
  BY <1>1, <1>2, LeaseHolds, PTL DEF Spec, ContractInv

\* The owner of a row is the worker that has it in hand.
LEMMA OwnerOf ==
  ASSUME NoDoubleExecution, NEW j \in Job
  PROVE  /\ \A w \in Worker : Busy(w) /\ held[w] = j => taskOwner[j] = w
         /\ (\A w \in Worker : Busy(w) => held[w] # j) => taskOwner[j] = NoWorker
         /\ \A w \in Worker : taskOwner[j] = w => Busy(w) /\ held[w] = j
<1>1. ASSUME NEW w \in Worker, Busy(w), held[w] = j
      PROVE  taskOwner[j] = w
  <2>1. Holders(j) = {w}
    BY <1>1 DEF Holders, NoDoubleExecution
  <2> QED
    BY <1>1, <2>1 DEF taskOwner, OneOf
<1>2. ASSUME \A w \in Worker : Busy(w) => held[w] # j
      PROVE  taskOwner[j] = NoWorker
  BY <1>2 DEF Holders, taskOwner, OneOf
<1>3. ASSUME NEW w \in Worker, taskOwner[j] = w
      PROVE  Busy(w) /\ held[w] = j
  <2>1. PICK v \in Worker : Busy(v) /\ held[v] = j
    BY <1>2, <1>3, NoWorkerAssumption
  <2> QED
    BY <1>1, <1>3, <2>1
<1> QED
  BY <1>1, <1>2, <1>3

\* Of one holder it is the owner; a task nobody holds has none.
LEMMA OneOfOne == OneOf({}) = NoWorker /\ \A w : OneOf({w}) = w
BY DEF OneOf

\* When the holders of one task change, only its owner does.
LEMMA OwnersFollow ==
  ASSUME NEW j \in Job, NEW H, \A i \in Job : Holders(i)' = IF i = j THEN H ELSE Holders(i)
  PROVE  taskOwner' = [taskOwner EXCEPT ![j] = OneOf(H)]
<1> DEFINE Owns(i) == OneOf(Holders(i))
<1>1. \A i \in Job : OneOf(Holders(i)') = IF i = j THEN OneOf(H) ELSE Owns(i)
  OBVIOUS
<1>2. taskOwner' = [i \in Job |-> OneOf(Holders(i)')]
  BY DEF taskOwner, OneOf
<1>3. taskOwner = [i \in Job |-> Owns(i)]
  BY DEF taskOwner
<1> HIDE DEF Owns
<1> QED
  BY <1>1, <1>2, <1>3

\* A step that moves no holder and no status is a stutter of TaskQueue.
LEMMA ContractStutter ==
  ASSUME UNCHANGED <<status, held, attempts>>, \A w \in Worker : Busy(w)' <=> Busy(w)
  PROVE  UNCHANGED <<taskState, taskOwner, attempts>>
<1>1. \A j \in Job : Holders(j)' = Holders(j)
  BY DEF Holders
<1>2. taskState' = taskState
  BY DEF taskState
<1>3. taskOwner' = taskOwner
  BY <1>1 DEF taskOwner
<1> QED
  BY <1>2, <1>3

\* When only the status of j changes, only the state of task j does.
LEMMA ContractState ==
  ASSUME TypeOK, NEW j \in Job, NEW s \in Status, status' = [status EXCEPT ![j] = s]
  PROVE  \E t \in {"none", "waiting", "working", "done", "failed"} :
           /\ taskState' = [taskState EXCEPT ![j] = t]
           /\ s = "absent" => t = "none"
           /\ s = "pending" => t = "waiting"
           /\ s = "running" => t = "working"
           /\ s \in {"done", "failed"} => t = s
BY DEF taskState, TypeOK, Status


LEMMA ContractInit == Init => Tasks!TQInit
<1> SUFFICES ASSUME Init
             PROVE  Tasks!TQInit
  OBVIOUS
<1>1. taskState = [j \in Job |-> "none"]
  BY DEF Init, taskState
<1>2. \A j \in Job : Holders(j) = {}
  BY DEF Init, Holders, Busy, Holding
<1>3. taskOwner = [j \in Job |-> NoWorker]
  BY <1>2 DEF taskOwner, OneOf
<1> QED
  BY <1>1, <1>3 DEF Init, Tasks!TQInit


\* Inserting or deleting a row, which nobody holds, is Submit or Forget.
LEMMA ContractInsert ==
  ASSUME ContractInv, NEW j \in Job, NEW k, Insert(j, k), UNCHANGED <<pc, held>>
  PROVE  Tasks!TQNext
<1>1. UNCHANGED taskOwner
  BY DEF taskOwner, Holders, Busy
<1>2. taskState[j] = "none" /\ taskState' = [taskState EXCEPT ![j] = "waiting"]
  BY DEF Insert, Unused, taskState, ContractInv, HoldInv, TypeOK, Status
<1>3. Tasks!Submit(j)
  BY <1>1, <1>2 DEF Insert, Tasks!Submit
<1> QED
  BY <1>3 DEF Tasks!TQNext

LEMMA ContractPurge ==
  ASSUME ContractInv, NEW j \in Job, Purge(j)
  PROVE  Tasks!TQNext
<1>1. UNCHANGED taskOwner
  BY DEF Purge, workerVars, taskOwner, Holders, Busy
<1>2. /\ taskState[j] \in {"done", "failed"}
      /\ taskState' = [taskState EXCEPT ![j] = "none"]
  BY DEF Purge, taskState, ContractInv, HoldInv, TypeOK, Status
<1>3. Tasks!Forget(j)
  BY <1>1, <1>2 DEF Purge, Tasks!Forget
<1> QED
  BY <1>3 DEF Tasks!TQNext

\* A claim starts the task: it waits, has starts left, and its owner is free.
LEMMA ContractClaim ==
  ASSUME ContractInv, ContractInv', NEW w \in Worker, ClaimNext(w)
  PROVE  Tasks!TQNext
<1>1. PICK j \in Job : /\ status[j] = "pending"
                       /\ status' = [status EXCEPT ![j] = "running"]
                       /\ attempts' = [attempts EXCEPT ![j] = Reserved(@)]
                       /\ held' = [held EXCEPT ![w] = j]
  BY DEF ClaimNext, Due
<1>2. pc[w] = "claim" /\ pc' = [pc EXCEPT ![w] = "exec"]
  BY DEF ClaimNext
<1>3. attempts[j] < MaxAttempts /\ Reserved(attempts[j]) = attempts[j] + 1
  <2>1. attempts[j] < MaxOf(j)
    BY <1>1 DEF ContractInv, AttemptsInv
  <2>2. attempts[j] \in 0 .. MaxAttempts + 1 /\ MaxOf(j) \in 1 .. MaxAttempts
    BY MaxOfPositive DEF ContractInv, HoldInv, TypeOK
  <2>3. attempts[j] < MaxAttempts /\ attempts[j] < MaxAttempts + 1
    BY <2>1, <2>2, ConstantsAssumption
  <2>4. MaxAttempts + 1 \in Nat
    BY ConstantsAssumption
  <2> QED
    BY <2>2, <2>3, <2>4, CappedType DEF Reserved
<1>4. \A i \in Job : taskOwner[i] # w
  BY <1>2, OwnerOf DEF ContractInv, LeaseInv, Busy, Holding
<1>5. /\ taskState[j] = "waiting"
      /\ taskState' = [taskState EXCEPT ![j] = "working"]
  BY <1>1 DEF taskState, ContractInv, HoldInv, TypeOK
<1>6. taskOwner' = [taskOwner EXCEPT ![j] = w]
  <2>1. \A i \in Job : Holders(i)' = IF i = j THEN {w} ELSE Holders(i)
    BY <1>1, <1>2 DEF Holders, Busy, Holding, ContractInv, HoldInv, LeaseInv, TypeOK
  <2> QED
    BY <2>1, OwnersFollow, OneOfOne
<1>7. Tasks!Start(j, w)
  BY <1>1, <1>3, <1>4, <1>5, <1>6 DEF Tasks!Start, ContractInv, HoldInv, TypeOK
<1> QED
  BY <1>7 DEF Tasks!TQNext

\* Recording an outcome ends the task; a retry is left only with starts left.
LEMMA ContractRecord ==
  ASSUME LeaseAssumptions, ContractInv, NEW w \in Worker,
         Complete(w) \/ FailForGood(w) \/ FailRetry(w) \/ RowVanished(w)
  PROVE  Tasks!TQNext
<1>1. PICK j \in Job : j = held[w] /\ status[j] = "running"
  BY LeaseUse DEF ContractInv
<1>2. \E s \in {"done", "failed", "pending"} :
        /\ status' = [status EXCEPT ![j] = s]
        /\ s = "pending" => attempts[j] < MaxAttempts
  <2>1. CASE Complete(w)
    BY <1>1, <2>1 DEF Complete, Finish
  <2>2. CASE FailForGood(w)
    BY <1>1, <2>2 DEF FailForGood, Finish
  <2>3. CASE FailRetry(w)
    <3>1. attempts[j] \in 0 .. MaxAttempts + 1 /\ MaxOf(j) \in 1 .. MaxAttempts
      BY MaxOfPositive DEF ContractInv, HoldInv, TypeOK
    <3>2. ~(attempts[j] >= MaxOf(j)) /\ status' = [status EXCEPT ![j] = "pending"]
      BY <1>1, <2>3 DEF FailRetry, Esgotado
    <3>3. attempts[j] < MaxAttempts
      BY <3>1, <3>2, ConstantsAssumption
    <3> QED
      BY <3>2, <3>3
  <2>4. ~RowVanished(w)
    BY <1>1 DEF RowVanished
  <2> QED
    BY <2>1, <2>2, <2>3, <2>4
<1>3. PICK s \in {"done", "failed", "pending"} :
        /\ status' = [status EXCEPT ![j] = s]
        /\ s = "pending" => attempts[j] < MaxAttempts
  BY <1>2
<1>4. LetGo(w) /\ Busy(w)
  BY DEF Complete, FailForGood, FailRetry, RowVanished, Busy, Holding
<1>5. taskOwner' = [taskOwner EXCEPT ![j] = NoWorker]
  <2>1. \A i \in Job : Holders(i)' = IF i = j THEN {} ELSE Holders(i)
    BY <1>1, <1>4
    DEF Holders, LetGo, Goto, Busy, Holding, ContractInv, HoldInv, LeaseInv, TypeOK,
        NoDoubleExecution
  <2> QED
    BY <2>1, OwnersFollow, OneOfOne
<1>6. taskState[j] = "working"
  BY <1>1 DEF taskState
<1>7. PICK t \in {"none", "waiting", "working", "done", "failed"} :
        /\ taskState' = [taskState EXCEPT ![j] = t]
        /\ s = "pending" => t = "waiting"
        /\ s \in {"done", "failed"} => t = s
  BY <1>3, ContractState DEF ContractInv, HoldInv, Status
<1>8. Tasks!End(j)
  BY <1>3, <1>4, <1>5, <1>6, <1>7 DEF Tasks!End, LetGo
<1> QED
  BY <1>8 DEF Tasks!TQNext

LEMMA ContractStep ==
  ASSUME LeaseAssumptions
  PROVE  ContractInv /\ ContractInv' /\ [Next]_vars => [Tasks!TQNext]_(Tasks!tqVars)
<1> SUFFICES ASSUME ContractInv, ContractInv', [Next]_vars
             PROVE  [Tasks!TQNext]_(Tasks!tqVars)
  OBVIOUS
<1>0. pc \in [Worker -> Place]
  BY DEF ContractInv, HoldInv, TypeOK
<1>1. ASSUME UNCHANGED <<status, held, attempts>>, \A w \in Worker : Busy(w)' <=> Busy(w)
      PROVE  [Tasks!TQNext]_(Tasks!tqVars)
  BY <1>1, ContractStutter DEF Tasks!tqVars
<1>2. ASSUME NEW c \in Client, ClientStep(c)
      PROVE  [Tasks!TQNext]_(Tasks!tqVars)
  BY <1>1, <1>2, ContractInsert
  DEF ClientStep, EnqueueCheck, EnqueueInsert, EnqueueRollback, EnqueueKeyless, rowVars,
      workerVars, Busy
<1>3. ASSUME NEW w \in Worker, LoopStep(w)
      PROVE  [Tasks!TQNext]_(Tasks!tqVars)
  <2>1. CASE \/ BeginPeriodic(w) \/ SkipPeriodic(w) \/ PeriodicCheck(w) \/ PeriodicFails(w)
             \/ EndPeriodic(w) \/ SelectStale(w) \/ RequeueStale(w) \/ RequeueMissesRow(w)
             \/ NothingToClaim(w)
    <3>1. UNCHANGED <<status, held, attempts>>
      BY <2>1, LeaseUse
      DEF BeginPeriodic, SkipPeriodic, PeriodicCheck, PeriodicFails, EndPeriodic,
          SelectStale, RequeueStale, RequeueMissesRow, NothingToClaim, rowVars, workerVars,
          ContractInv
    <3>2. \A v \in Worker : Busy(v)' <=> Busy(v)
      BY <1>0, <2>1
      DEF BeginPeriodic, SkipPeriodic, PeriodicCheck, PeriodicFails, EndPeriodic,
          SelectStale, RequeueStale, RequeueMissesRow, NothingToClaim, workerVars, Busy,
          Holding
    <3> QED
      BY <1>1, <3>1, <3>2
  <2>2. CASE PeriodicInsert(w)
    BY <2>2, ContractInsert DEF PeriodicInsert, workerVars
  <2>3. CASE ClaimNext(w)
    BY <2>3, ContractClaim
  <2>4. CASE Complete(w) \/ FailForGood(w) \/ FailRetry(w) \/ RowVanished(w)
    BY <2>4, ContractRecord
  <2> QED
    BY <1>3, <2>1, <2>2, <2>3, <2>4 DEF LoopStep
<1>4. ASSUME NEW w \in Worker, ExecuteStep(w)
      PROVE  [Tasks!TQNext]_(Tasks!tqVars)
  BY <1>0, <1>1, <1>4
  DEF ExecuteStep, ExecuteReturns, ExecuteRaises, Goto, rowVars, Busy, Holding
<1>5. ASSUME NEW w \in Worker, FaultStep(w)
      PROVE  [Tasks!TQNext]_(Tasks!tqVars)
  BY <1>5, NoFaultStep DEF ContractInv, HoldInv
<1>6. ASSUME Tick \/ \E j \in Job : BackoffExpires(j)
      PROVE  [Tasks!TQNext]_(Tasks!tqVars)
  BY <1>1, <1>6 DEF Tick, BackoffExpires, workerVars, Busy
<1>7. ASSUME NEW j \in Job, Purge(j)
      PROVE  [Tasks!TQNext]_(Tasks!tqVars)
  BY <1>7, ContractPurge
<1>8. CASE UNCHANGED vars
  BY <1>1, <1>8 DEF vars, Busy
<1> QED
  BY <1>2, <1>3, <1>4, <1>5, <1>6, <1>7, <1>8 DEF Next

(* Under the lease every behaviour of the queue, seen through the mapping,   *)
(* is one of TaskQueue: one owner per task, one task per owner, a bounded    *)
(* number of starts and no way back from done or failed.                     *)
THEOREM LeaseKeepsTheSafeContract ==
  ASSUME LeaseAssumptions
  PROVE  Spec => KeepsTheSafeContract
<1>1. ContractInv /\ ContractInv' /\ [Next]_vars => [Tasks!TQNext]_(Tasks!tqVars)
  BY ContractStep
<1> QED
  BY <1>1, ContractInit, ContractInvHolds, PTL
  DEF Spec, KeepsTheSafeContract, Tasks!TQSafety

=============================================================================
