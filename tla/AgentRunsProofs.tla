--------------------------- MODULE AgentRunsProofs --------------------------
(***************************************************************************)
(* Theorems about AgentRuns: run_job stays inside the executions of the    *)
(* queue, nothing is delivered unbilled, and under the lease a job is      *)
(* billed and delivered exactly once.                                      *)
(***************************************************************************)
EXTENDS AgentRuns, JobQueueProofs, FiniteSetTheorems, WellFoundedInduction

-----------------------------------------------------------------------------
(***************************************************************************)
(* Every step of AgentRuns is a step of JobQueue or leaves it alone.       *)
(***************************************************************************)

LEMMA RunStepIsQueueStep == [RunsNext]_allVars => [Next]_vars
<1> SUFFICES ASSUME [RunsNext]_allVars
             PROVE  [Next]_vars
  OBVIOUS
<1>1. CASE QueueStep
  BY <1>1 DEF QueueStep, Next, FaultStep
<1>2. ASSUME NEW w \in Worker, RunJobStep(w)
      PROVE  [Next]_vars
  <2>1. CASE AlreadyExecuted(w) \/ Commit(w)
    BY <2>1 DEF AlreadyExecuted, Commit, Next, ExecuteStep
  <2>2. CASE CloseUnpaid(w)
    BY <2>2 DEF CloseUnpaid, Next, ExecuteStep
  <2>3. CASE ReadLedger(w) \/ DecideFresh(w) \/ DecideAbandoned(w) \/ OpenRun(w)
             \/ CheckBudget(w) \/ Work(w) \/ CloseSucceeded(w)
    BY <2>3 DEF ReadLedger, DecideFresh, DecideAbandoned, OpenRun, CheckBudget, Work,
                CloseSucceeded
  <2> QED
    BY <1>2, <2>1, <2>2, <2>3 DEF RunJobStep
<1>3. ASSUME NEW w \in Worker, RunBreaks(w) \/ CrashInRun(w)
      PROVE  [Next]_vars
  BY <1>3 DEF RunBreaks, CrashInRun, Next, ExecuteStep, FaultStep
<1>4. CASE RunsTick
  BY <1>4 DEF RunsTick, Next
<1>5. CASE UNCHANGED allVars
  BY <1>5 DEF allVars
<1> QED
  BY <1>1, <1>2, <1>3, <1>4, <1>5 DEF RunsNext

(* What JobQueue promises holds with agent runs inside its executions: the   *)
(* ledger, the bill and the delivery add no step the queue does not know.    *)
THEOREM AgentRunsImplementsQueue == RunsSpec => ImplementsQueue
<1>1. RunsInit => Init
  BY DEF RunsInit
<1> QED
  BY <1>1, RunStepIsQueueStep, PTL DEF RunsSpec, ImplementsQueue, Spec

-----------------------------------------------------------------------------
(***************************************************************************)
(* Types of the ledger, and the order of bill and delivery.                *)
(***************************************************************************)

\* A set of run ids that is not empty has a last one.
LEMMA LastRun ==
  ASSUME NEW S \in SUBSET RunId, S # {}
  PROVE  \E r \in S : \A q \in S : q <= r
<1> DEFINE T == {MaxRuns - r : r \in S}
<1>1. T \subseteq Nat /\ T # {}
  <2>1. \A r \in S : MaxRuns - r \in Nat
    BY RunsAssumption DEF RunId
  <2>2. \E r \in S : MaxRuns - r \in T
    OBVIOUS
  <2> QED
    BY <2>1, <2>2
<1>2. PICK t \in T : \A u \in T : <<u, t>> \notin OpToRel(<, Nat)
  BY <1>1, NatLessThanWellFounded, WFMin
<1>3. \A u \in T : ~(u < t)
  <2> SUFFICES ASSUME NEW u \in T, u < t
               PROVE  FALSE
    OBVIOUS
  <2>1. <<u, t>> \in Nat \X Nat
    BY <1>1
  <2>2. <<u, t>> \notin OpToRel(<, Nat)
    BY <1>2
  <2> HIDE DEF T
  <2> QED
    BY <2>1, <2>2, Zenon DEF OpToRel
<1>4. PICK r \in S : t = MaxRuns - r
  OBVIOUS
<1>5. \A q \in S : ~(MaxRuns - q < MaxRuns - r)
  BY <1>3, <1>4
<1> QED
  BY <1>5, RunsAssumption DEF RunId

LEMMA AnteriorIsRun ==
  ASSUME NEW j, Anteriores(j) # {}
  PROVE  Anterior(j) \in Anteriores(j) /\ Anterior(j) \in RunId
<1>1. Anteriores(j) \subseteq RunId
  BY DEF Anteriores
<1>2. \E r \in Anteriores(j) : \A q \in Anteriores(j) : q <= r
  BY <1>1, LastRun
<1> QED
  BY <1>1, <1>2 DEF Anterior


\* The steps of run_job at which the worker has a run of its own open.
OwnRun == {"budget", "work", "deliver", "reject", "conflict", "fail", "commit"}

\* A worker is in run_job only while it executes; the run it has open exists;
\* the bill is written before the work can be committed.
RunInv ==
  /\ RunsTypeOK
  /\ \A w \in Worker : pc[w] # "exec" => step[w] = "out"
  /\ \A w \in Worker : step[w] \in OwnRun => mine[w] \in 1 .. opened
  /\ \A w \in Worker : step[w] = "commit" => mine[w] \in billed
  /\ DeliveredWasBilled

Ledger == [RunId -> [job : Job \cup {NoJob}, status : RunStatus, age : 0 .. StaleAfter + 1]]

LEMMA CloseType ==
  ASSUME runs \in Ledger, NEW w, mine[w] \in RunId, NEW s \in RunStatus, CloseAs(w, s)
  PROVE  runs' \in Ledger
BY DEF CloseAs, Ledger

LEMMA RunInvInit == RunsInit => RunInv
BY RunsAssumption, ConstantsAssumption
DEF RunsInit, Init, RunInv, RunsTypeOK, OwnRun, DeliveredWasBilled, RunId, NoRun, Nothing,
    RunStatus, RunStep

LEMMA RunInvStep == HoldInv /\ RunInv /\ [RunsNext]_allVars => RunInv'
<1> SUFFICES ASSUME HoldInv, RunInv, [RunsNext]_allVars
             PROVE  RunInv'
  OBVIOUS
<1> USE RunsAssumption, ConstantsAssumption DEF RunInv, DeliveredWasBilled, Ledger
<1>0. /\ pc \in [Worker -> Place]
      /\ \A w \in Worker : pc[w] = "exec" => held[w] \in Job
  BY DEF HoldInv, TypeOK, HoldsOne, Busy, Holding
<1>1. ASSUME NEW w \in Worker, UNCHANGED runVars, pc[w] # "exec",
             \A v \in Worker \ {w} : pc'[v] = pc[v]
      PROVE  RunInv'
  BY <1>1 DEF runVars, RunsTypeOK
<1>2. CASE QueueStep
  <2>1. CASE pc' = pc
    BY <1>2, <2>1 DEF QueueStep, runVars, RunsTypeOK
  <2>2. ASSUME NEW w \in Worker, LoopStep(w) \/ CompleteBreaks(w) \/ RecordBreaks(w)
        PROVE  RunInv'
    <3>1. pc[w] # "exec" /\ \A v \in Worker \ {w} : pc'[v] = pc[v]
      BY <2>2, <1>0
      DEF LoopStep, BeginPeriodic, SkipPeriodic, PeriodicCheck, PeriodicInsert,
          PeriodicFails, EndPeriodic, SelectStale, RequeueStale, RequeueMissesRow,
          ClaimNext, NothingToClaim, Complete, FailForGood, FailRetry, RowVanished,
          CompleteBreaks, RecordBreaks, LetGo, Goto, workerVars
    <3> QED
      BY <1>1, <1>2, <3>1 DEF QueueStep
  <2>3. (\E c \in Client : ClientStep(c)) \/ (\E j \in Job : BackoffExpires(j)) => pc' = pc
    BY DEF ClientStep, EnqueueCheck, EnqueueInsert, EnqueueRollback, EnqueueKeyless,
           BackoffExpires, workerVars
  <2> QED
    BY <1>2, <2>1, <2>2, <2>3 DEF QueueStep
<1>3. ASSUME NEW w \in Worker, ReadLedger(w)
      PROVE  RunInv'
  <2>1. CASE Anteriores(held[w]) = {}
    BY <1>3, <2>1
    DEF ReadLedger, RunsTypeOK, Nothing, RunStatus, RunStep, Move, At, OwnRun, vars
  <2>2. CASE Anteriores(held[w]) # {}
    <3> DEFINE r == Anterior(held[w])
    <3>1. r \in RunId /\ runs[r].status \in RunStatus /\ Abandonado(r) \in BOOLEAN
      BY <2>2, AnteriorIsRun DEF RunsTypeOK, Abandonado
    <3>2. seen' = [seen EXCEPT ![w] = [run |-> r, status |-> runs[r].status,
                                       abandoned |-> Abandonado(r)]]
      BY <1>3, <2>2 DEF ReadLedger
    <3>3. r \in 0 .. MaxRuns
      BY <3>1 DEF RunId
    <3> HIDE DEF r
    <3>4. seen' \in [Worker -> [run : 0 .. MaxRuns, status : RunStatus,
                                abandoned : BOOLEAN]]
      BY <3>1, <3>2, <3>3 DEF RunsTypeOK
    <3> QED
      BY <1>3, <3>4 DEF ReadLedger, RunsTypeOK, RunStep, Move, At, OwnRun, vars
  <2> QED
    BY <2>1, <2>2
<1>4. ASSUME NEW w \in Worker, DecideFresh(w) \/ CheckBudget(w) \/ Work(w)
      PROVE  RunInv'
  BY <1>4 DEF DecideFresh, CheckBudget, Work, RunsTypeOK, RunStep, Move, At, OwnRun, vars
<1>5. ASSUME NEW w \in Worker, DecideAbandoned(w)
      PROVE  RunInv'
  <2>1. seen[w].run \in RunId
    BY <1>5 DEF DecideAbandoned, RunsTypeOK, RunId
  <2>2. runs' \in Ledger
    BY <1>5, <2>1, SMTT(30) DEF DecideAbandoned, RunsTypeOK, RunStatus
  <2>3. RunsTypeOK'
    BY <1>5, <2>2 DEF DecideAbandoned, RunsTypeOK, RunStep, Move
  <2> QED
    BY <1>5, <2>3 DEF DecideAbandoned, Move, At, OwnRun, vars, RunsTypeOK
<1>6. ASSUME NEW w \in Worker, OpenRun(w)
      PROVE  RunInv'
  <2>1. /\ opened' \in 0 .. MaxRuns /\ opened + 1 \in RunId
        /\ 1 .. opened \subseteq 1 .. opened' /\ opened' \in 1 .. opened'
    BY <1>6 DEF OpenRun, RunsTypeOK, RunId
  <2>2. RunsTypeOK'
    BY <1>6, <1>0, <2>1 DEF OpenRun, RunsTypeOK, RunStep, RunStatus, Move, At, RunId
  <2> QED
    BY <1>6, <2>1, <2>2 DEF OpenRun, Move, At, OwnRun, vars, RunsTypeOK
<1>7. ASSUME NEW w \in Worker, CloseSucceeded(w)
      PROVE  RunInv'
  <2>1. mine[w] \in RunId
    BY <1>7 DEF CloseSucceeded, At, OwnRun, RunId, RunsTypeOK
  <2>2. runs' \in Ledger
    BY <1>7, <2>1, CloseType DEF CloseSucceeded, RunsTypeOK, RunStatus
  <2>3. RunsTypeOK'
    BY <1>7, <2>1, <2>2 DEF CloseSucceeded, RunsTypeOK, RunStep, Move
  <2> QED
    BY <1>7, <2>3 DEF CloseSucceeded, RunsTypeOK, Move, At, OwnRun, vars
<1>8. ASSUME NEW w \in Worker, pc'[w] # "exec", LeaveRun(w), UNCHANGED opened,
             \A v \in Worker \ {w} : pc'[v] = pc[v],
             billed' = billed, delivered' \subseteq billed, breaks' \in 0 .. MaxBreaks,
             runs' \in Ledger
      PROVE  RunInv'
  BY <1>8 DEF LeaveRun, RunsTypeOK, Nothing, RunStatus, RunStep, Move, OwnRun
<1>9. ASSUME NEW w \in Worker, AlreadyExecuted(w)
      PROVE  RunInv'
  BY <1>9, <1>8, <1>0 DEF AlreadyExecuted, ExecuteReturns, Goto, RunsTypeOK
<1>10. ASSUME NEW w \in Worker, Commit(w)
       PROVE  RunInv'
  <2>1. delivered' \subseteq billed
    BY <1>10 DEF Commit, At
  <2> QED
    BY <1>10, <1>8, <1>0, <2>1 DEF Commit, ExecuteReturns, Goto, RunsTypeOK
<1>11. ASSUME NEW w \in Worker, CloseUnpaid(w)
       PROVE  RunInv'
  <2>1. mine[w] \in RunId
    <3>1. step[w] \in OwnRun
      BY <1>11 DEF CloseUnpaid, At, OwnRun
    <3> QED
      BY <3>1 DEF RunId, RunsTypeOK
  <2>2. runs' \in Ledger
    BY <1>11, <2>1, CloseType DEF CloseUnpaid, RunsTypeOK, RunStatus
  <2> QED
    BY <1>11, <1>8, <1>0, <2>2 DEF CloseUnpaid, ExecuteRaises, Goto, RunsTypeOK
<1>12. ASSUME NEW w \in Worker, RunBreaks(w)
       PROVE  RunInv'
  BY <1>12, <1>8, <1>0 DEF RunBreaks, Break, ExecuteRaises, Goto, RunsTypeOK
<1>13. ASSUME NEW w \in Worker, CrashInRun(w)
       PROVE  RunInv'
  BY <1>13, <1>8, <1>0 DEF CrashInRun, Crash, Goto, RunsTypeOK
<1>14. CASE RunsTick
  <2>1. \A r \in RunId : runs[r].age \in 0 .. StaleAfter + 1
                         /\ Capped(runs[r].age, StaleAfter + 1) \in 0 .. StaleAfter + 1
    BY CappedType DEF RunsTypeOK
  <2>2. runs' \in Ledger
    BY <1>14, <2>1 DEF RunsTick, RunsTypeOK
  <2> QED
    BY <1>14, <2>2 DEF RunsTick, Tick, RunsTypeOK
<1>15. CASE UNCHANGED allVars
  BY <1>15 DEF allVars, vars, runVars, RunsTypeOK
<1> QED
  BY <1>2, <1>3, <1>4, <1>5, <1>6, <1>7, <1>9, <1>10, <1>11, <1>12, <1>13, <1>14, <1>15
  DEF RunsNext, RunJobStep

LEMMA RunInvHolds == RunsSpec => [](HoldInv /\ RunInv)
<1>1. RunsInit => HoldInv /\ RunInv
  BY HoldInit, RunInvInit DEF RunsInit
<1>2. HoldInv /\ RunInv /\ [RunsNext]_allVars => (HoldInv /\ RunInv)'
  BY HoldStep, RunInvStep, RunStepIsQueueStep
<1> QED
  BY <1>1, <1>2, PTL DEF RunsSpec

(* The ledger, the bill and what each worker knows keep their types.         *)
THEOREM RunsTypeCorrect == RunsSpec => []RunsTypeOK
<1>1. RunInv => RunsTypeOK
  BY DEF RunInv
<1> QED
  BY <1>1, RunInvHolds, PTL

(* No work reaches the customer unbilled, whatever crashes, breaks, overruns *)
(* or runs twice: the bill is committed before the work.                     *)
THEOREM NothingUnbilled == RunsSpec => []DeliveredWasBilled
<1>1. RunInv => DeliveredWasBilled
  BY DEF RunInv
<1> QED
  BY <1>1, RunInvHolds, PTL

-----------------------------------------------------------------------------
(***************************************************************************)
(* Exactly once.  Under the lease one worker at a time answers for a job,  *)
(* so what the ledger says of the job is what that worker has done.        *)
(***************************************************************************)

RunsLeaseAssumptions == LeaseAssumptions /\ MaxBreaks = 0

Unpaid(j) == RunsOf(j) \cap (billed \cup delivered) = {}

Failed(j) == \A r \in RunsOf(j) : runs[r].status = "failed"

Untouched(j) == Failed(j) /\ Unpaid(j)

Paid(j) == \E r \in RunsOf(j) : /\ billed \cap RunsOf(j) = {r}
                                /\ delivered \cap RunsOf(j) = {r}

\* What the ledger says of a job nobody has in hand.
JobLedger(j) ==
  /\ status[j] \in {"absent", "pending"} => Untouched(j)
  /\ status[j] = "done" => Paid(j)
  /\ status[j] = "failed" => Unpaid(j)

\* What it says of the job in the hands of w, step by step.
WorkerLedger(w) ==
  LET j == held[w]
      m == mine[w]
  IN /\ pc[w] = "exec" /\ step[w] \notin OwnRun => Untouched(j)
     /\ step[w] = "decide" => seen[w].run = 0
     /\ step[w] \in OwnRun =>
          /\ runs[m].job = j
          /\ \A r \in RunsOf(j) \ {m} : runs[r].status = "failed"
     /\ step[w] \in OwnRun \ {"commit"} => Unpaid(j)
     /\ step[w] = "commit" => /\ billed \cap RunsOf(j) = {m}
                              /\ delivered \cap RunsOf(j) = {}
     /\ pc[w] = "executed" => Paid(j)
     /\ pc[w] = "raised" => Untouched(j)
     /\ pc[w] = "refused" => Unpaid(j)

LedgerInv ==
  /\ \A r \in RunId : r > opened => runs[r].job = NoJob
  /\ billed \subseteq 1 .. opened
  /\ \A j \in Job : JobLedger(j)
  /\ \A w \in Worker : WorkerLedger(w)


\* What happens to the runs of other jobs does not matter.
LEMMA LedgerOfJob ==
  ASSUME NEW i, RunsOf(i)' = RunsOf(i),
         \A r \in RunsOf(i) : /\ runs'[r].status = runs[r].status
                              /\ r \in billed' <=> r \in billed
                              /\ r \in delivered' <=> r \in delivered
  PROVE  /\ Unpaid(i)' <=> Unpaid(i)
         /\ Untouched(i)' <=> Untouched(i)
         /\ Paid(i)' <=> Paid(i)
         /\ billed' \cap RunsOf(i)' = billed \cap RunsOf(i)
         /\ delivered' \cap RunsOf(i)' = delivered \cap RunsOf(i)
<1>1. /\ billed' \cap RunsOf(i)' = billed \cap RunsOf(i)
      /\ delivered' \cap RunsOf(i)' = delivered \cap RunsOf(i)
  OBVIOUS
<1>2. Unpaid(i)' <=> Unpaid(i)
  BY DEF Unpaid
<1>3. Failed(i)' <=> Failed(i)
  BY DEF Failed
<1>4. Paid(i)' <=> Paid(i)
  BY <1>1 DEF Paid
<1> QED
  BY <1>1, <1>2, <1>3, <1>4 DEF Untouched

\* A step of run_job by w concerns nobody but w: others hold other jobs.
LEMMA OthersKeepTheirLedger ==
  ASSUME HoldInv, LeaseInv, RunInv, LedgerInv,
         NEW w \in Worker, pc[w] = "exec", UNCHANGED <<status, held>>,
         \A v \in Worker \ {w} : /\ pc'[v] = pc[v] /\ step'[v] = step[v]
                                 /\ mine'[v] = mine[v] /\ seen'[v] = seen[v],
         \A i \in Job \ {held[w]} :
           /\ RunsOf(i)' = RunsOf(i)
           /\ \A r \in RunsOf(i) : /\ runs'[r].status = runs[r].status
                                   /\ r \in billed' <=> r \in billed
                                   /\ r \in delivered' <=> r \in delivered
  PROVE  /\ \A i \in Job : JobLedger(i)'
         /\ \A v \in Worker \ {w} : WorkerLedger(v)'
<1>1. Busy(w) /\ status[held[w]] = "running"
  BY DEF Busy, Holding, LeaseInv
<1>2. \A i \in Job : JobLedger(i)'
  <2> TAKE i \in Job
  <2>1. CASE i = held[w]
    BY <2>1, <1>1 DEF JobLedger
  <2>2. CASE i # held[w]
    BY <2>2, LedgerOfJob DEF JobLedger, LedgerInv
  <2> QED
    BY <2>1, <2>2
<1>3. ASSUME NEW v \in Worker \ {w}
      PROVE  WorkerLedger(v)'
  <2>1. CASE ~Busy(v)
    BY <2>1 DEF Busy, Holding, RunInv, WorkerLedger, OwnRun
  <2>2. CASE Busy(v)
    <3> DEFINE i == held[v]
    <3>1. i \in Job /\ i # held[w]
      BY <1>1, <2>2 DEF HoldInv, HoldsOne, TypeOK, LeaseInv, NoDoubleExecution
    <3>2. /\ RunsOf(i)' = RunsOf(i)
          /\ \A r \in RunsOf(i) : runs'[r].status = runs[r].status
      BY <3>1
    <3>3. /\ Unpaid(i)' <=> Unpaid(i)
          /\ Untouched(i)' <=> Untouched(i)
          /\ Paid(i)' <=> Paid(i)
          /\ billed' \cap RunsOf(i)' = billed \cap RunsOf(i)
          /\ delivered' \cap RunsOf(i)' = delivered \cap RunsOf(i)
      BY <3>1, LedgerOfJob
    <3>4. step[v] \in OwnRun => mine[v] \in RunId
      BY DEF RunInv, RunsTypeOK, RunId
    <3>5. step[v] \in OwnRun /\ runs[mine[v]].job = i => runs'[mine[v]].job = i
      BY <3>2, <3>4 DEF RunsOf
    <3>6. held'[v] = i
      OBVIOUS
    <3> HIDE DEF i
    <3> QED
      BY <3>2, <3>3, <3>5, <3>6 DEF WorkerLedger, LedgerInv, i
  <2> QED
    BY <2>1, <2>2
<1> QED
  BY <1>2, <1>3


\* The queue moves jobs about; the ledger says of each what its place asks for.
LEMMA LedgerQueueStep ==
  ASSUME LeaseAssumptions, HoldInv, LeaseInv, RunInv, LedgerInv, QueueStep
  PROVE  LedgerInv'
<1> USE DEF QueueStep
<1>1. /\ \A j : /\ Unpaid(j)' <=> Unpaid(j)
                /\ Untouched(j)' <=> Untouched(j)
                /\ Paid(j)' <=> Paid(j)
                /\ RunsOf(j)' = RunsOf(j)
      /\ UNCHANGED <<runs, opened, step, seen, mine, billed, delivered>>
  BY DEF runVars, Unpaid, Untouched, Failed, Paid, RunsOf
<1>2. ASSUME \A j \in Job : JobLedger(j)', \A w \in Worker : WorkerLedger(w)'
      PROVE  LedgerInv'
  BY <1>1, <1>2 DEF LedgerInv
<1>3. ASSUME \A j \in Job : status'[j] = status[j]
                            \/ (status[j] = "absent" /\ status'[j] = "pending")
      PROVE  \A j \in Job : JobLedger(j)'
  BY <1>1, <1>3 DEF JobLedger, LedgerInv
<1>4. ASSUME UNCHANGED held, \A w \in Worker : pc'[w] = pc[w] \/ (~Busy(w) /\ ~Busy(w)')
      PROVE  \A w \in Worker : WorkerLedger(w)'
  BY <1>1, <1>4 DEF WorkerLedger, LedgerInv, RunInv, Busy, Holding, OwnRun
<1>5. ASSUME NEW c \in Client, ClientStep(c)
      PROVE  LedgerInv'
  <2>1. \A j \in Job : status'[j] = status[j]
                       \/ (status[j] = "absent" /\ status'[j] = "pending")
    BY <1>5 DEF ClientStep, EnqueueCheck, EnqueueInsert, EnqueueRollback, EnqueueKeyless,
                Insert, Unused, rowVars, HoldInv, TypeOK
  <2>2. UNCHANGED <<pc, held>>
    BY <1>5 DEF ClientStep, EnqueueCheck, EnqueueInsert, EnqueueRollback, EnqueueKeyless,
                workerVars
  <2> QED
    BY <1>2, <1>3, <1>4, <2>1, <2>2
<1>6. ASSUME NEW w \in Worker, LoopStep(w)
      PROVE  LedgerInv'
  <2>0. pc \in [Worker -> Place]
    BY DEF HoldInv, TypeOK
  <2>1. CASE \/ BeginPeriodic(w) \/ SkipPeriodic(w) \/ PeriodicCheck(w) \/ PeriodicInsert(w)
             \/ PeriodicFails(w) \/ EndPeriodic(w) \/ SelectStale(w) \/ RequeueStale(w)
             \/ RequeueMissesRow(w) \/ NothingToClaim(w)
    <3>1. \A j \in Job : status'[j] = status[j]
                         \/ (status[j] = "absent" /\ status'[j] = "pending")
      BY <2>1, LeaseUse
      DEF BeginPeriodic, SkipPeriodic, PeriodicCheck, PeriodicInsert, PeriodicFails,
          EndPeriodic, SelectStale, RequeueMissesRow, NothingToClaim, Insert, Unused,
          rowVars, HoldInv, TypeOK
    <3>2. /\ UNCHANGED held
          /\ \A v \in Worker : pc'[v] = pc[v] \/ (~Busy(v) /\ ~Busy(v)')
      BY <2>0, <2>1
      DEF BeginPeriodic, SkipPeriodic, PeriodicCheck, PeriodicInsert, PeriodicFails,
          EndPeriodic, SelectStale, RequeueStale, RequeueMissesRow, NothingToClaim,
          workerVars, Busy, Holding
    <3> QED
      BY <1>2, <1>3, <1>4, <3>1, <3>2
  <2>2. CASE ClaimNext(w)
    <3>1. PICK j \in Job : /\ status[j] = "pending"
                           /\ status' = [status EXCEPT ![j] = "running"]
                           /\ held' = [held EXCEPT ![w] = j]
      BY <2>2 DEF ClaimNext, Due
    <3>2. pc[w] = "claim" /\ pc' = [pc EXCEPT ![w] = "exec"]
      BY <2>2 DEF ClaimNext
    <3>3. Untouched(j)
      BY <3>1 DEF LedgerInv, JobLedger
    <3>4. step[w] = "out"
      BY <3>2 DEF RunInv
    <3>5. WorkerLedger(w)'
      BY <1>1, <2>0, <3>1, <3>2, <3>3, <3>4 DEF WorkerLedger, OwnRun, HoldInv, TypeOK
    <3>6. \A v \in Worker \ {w} : WorkerLedger(v)'
      BY <1>1, <2>0, <3>1, <3>2 DEF WorkerLedger, LedgerInv, HoldInv, TypeOK
    <3>7. \A i \in Job : JobLedger(i)'
      BY <1>1, <3>1 DEF JobLedger, LedgerInv, HoldInv, TypeOK
    <3> QED
      BY <1>2, <3>5, <3>6, <3>7
  <2>3. CASE Complete(w) \/ FailForGood(w) \/ FailRetry(w) \/ RowVanished(w)
    <3>1. PICK j \in Job : j = held[w] /\ status[j] = "running"
      BY <2>3, LeaseUse
    <3>2. PICK s \in {"done", "failed", "pending"} :
            /\ status' = [status EXCEPT ![j] = s]
            /\ s = "done" => pc[w] = "executed"
            /\ s = "failed" => pc[w] \in {"raised", "refused"}
            /\ s = "pending" => pc[w] = "raised"
      BY <2>3, <3>1 DEF Complete, FailForGood, FailRetry, RowVanished, Finish
    <3>3. LetGo(w) /\ pc[w] # "exec"
      BY <2>3 DEF Complete, FailForGood, FailRetry, RowVanished
    <3>4. WorkerLedger(w)
      BY DEF LedgerInv
    <3>5. JobLedger(j)'
      BY <1>1, <3>1, <3>2, <3>4 DEF WorkerLedger, JobLedger, Untouched, HoldInv, TypeOK
    <3>6. \A i \in Job : JobLedger(i)'
      BY <1>1, <3>1, <3>2, <3>5 DEF JobLedger, LedgerInv, HoldInv, TypeOK
    <3>7. WorkerLedger(w)'
      BY <1>1, <2>0, <3>3 DEF LetGo, Goto, WorkerLedger, RunInv, OwnRun
    <3>8. \A v \in Worker \ {w} : WorkerLedger(v)'
      BY <1>1, <2>0, <3>3 DEF LetGo, Goto, WorkerLedger, LedgerInv, HoldInv, TypeOK
    <3> QED
      BY <1>2, <3>6, <3>7, <3>8
  <2> QED
    BY <1>6, <2>1, <2>2, <2>3 DEF LoopStep
<1>7. ASSUME NEW w \in Worker, CompleteBreaks(w) \/ RecordBreaks(w)
      PROVE  LedgerInv'
  BY <1>7, NoFaultStep DEF FaultStep, HoldInv
<1>8. ASSUME NEW j \in Job, BackoffExpires(j)
      PROVE  LedgerInv'
  BY <1>2, <1>3, <1>4, <1>8 DEF BackoffExpires, workerVars
<1> QED
  BY <1>5, <1>6, <1>7, <1>8


\* Each step of run_job leaves the ledger of its job as the next step asks.
LEMMA LedgerRunJobStep ==
  ASSUME HoldInv, LeaseInv, RunInv, LedgerInv, NEW w \in Worker, RunJobStep(w)
  PROVE  LedgerInv'
<1> DEFINE m == mine[w]
<1>1. PICK j \in Job : j = held[w]
  BY DEF RunJobStep, ReadLedger, DecideFresh, DecideAbandoned, AlreadyExecuted, OpenRun,
         CheckBudget, Work, CloseSucceeded, Commit, CloseUnpaid, At, HoldInv, HoldsOne,
         TypeOK, Busy, Holding
<1>2. /\ pc[w] = "exec"
      /\ WorkerLedger(w)
      /\ UNCHANGED <<status, held>>
      /\ pc \in [Worker -> Place]
      /\ RunsTypeOK
  BY DEF RunJobStep, ReadLedger, DecideFresh, DecideAbandoned, AlreadyExecuted, OpenRun,
         CheckBudget, Work, CloseSucceeded, Commit, CloseUnpaid, At, ExecuteReturns,
         ExecuteRaises, vars, rowVars, LedgerInv, RunInv, HoldInv, TypeOK
<1>3. \A v \in Worker \ {w} : /\ pc'[v] = pc[v] /\ step'[v] = step[v]
                              /\ mine'[v] = mine[v] /\ seen'[v] = seen[v]
  BY <1>2
  DEF RunJobStep, ReadLedger, DecideFresh, DecideAbandoned, AlreadyExecuted, OpenRun,
      CheckBudget, Work, CloseSucceeded, Commit, CloseUnpaid, ExecuteReturns,
      ExecuteRaises, vars, Goto, Move, LeaveRun, RunsTypeOK
<1>4. ASSUME UNCHANGED opened, billed' \subseteq 1 .. opened, WorkerLedger(w)',
             \A r \in RunId : runs'[r].job = runs[r].job,
             \A r \in RunId : runs'[r].status = runs[r].status \/ runs[r].job = j,
             \A r \in RunId : runs[r].job # j => /\ r \in billed' <=> r \in billed
                                                 /\ r \in delivered' <=> r \in delivered
      PROVE  LedgerInv'
  <2>1. \A i \in Job : RunsOf(i)' = RunsOf(i)
    BY <1>4 DEF RunsOf
  <2>2. \A i \in Job \ {held[w]} : \A r \in RunsOf(i) :
          /\ runs'[r].status = runs[r].status
          /\ r \in billed' <=> r \in billed
          /\ r \in delivered' <=> r \in delivered
    BY <1>1, <1>4 DEF RunsOf
  <2>3. (\A i \in Job : JobLedger(i)') /\ (\A v \in Worker \ {w} : WorkerLedger(v)')
    BY <1>2, <1>3, <2>1, <2>2, OthersKeepTheirLedger
  <2> QED
    BY <1>4, <2>3 DEF LedgerInv
<1>5. ASSUME UNCHANGED <<runs, opened, billed, delivered>>, WorkerLedger(w)'
      PROVE  LedgerInv'
  BY <1>4, <1>5 DEF LedgerInv
<1>6. step[w] \in OwnRun => m \in RunId /\ m \in 1 .. opened /\ runs[m].job = j
  BY <1>1, <1>2 DEF RunInv, RunsTypeOK, RunId, WorkerLedger
<1>7. CASE ReadLedger(w)
  <2>1. Untouched(j)
    BY <1>1, <1>2, <1>7 DEF ReadLedger, At, WorkerLedger, OwnRun
  <2>2. Anteriores(j) = {}
    BY <2>1 DEF Untouched, Failed, Anteriores, RunsOf
  <2>3. seen'[w].run = 0
    BY <1>1, <1>2, <1>7, <2>2 DEF ReadLedger, Nothing, RunsTypeOK
  <2>4. Untouched(j)' /\ pc' = pc /\ step'[w] = "decide" /\ held'[w] = j
    BY <1>1, <1>2, <1>7, <2>1
    DEF ReadLedger, Move, vars, Untouched, Failed, Unpaid, RunsOf, RunsTypeOK
  <2>5. WorkerLedger(w)'
    BY <1>2, <2>3, <2>4 DEF WorkerLedger, OwnRun
  <2> QED
    BY <1>5, <1>7, <2>5 DEF ReadLedger
<1>8. CASE DecideFresh(w)
  <2>1. Untouched(j)
    BY <1>1, <1>2, <1>8 DEF DecideFresh, At, WorkerLedger, OwnRun
  <2>2. Untouched(j)' /\ pc' = pc /\ step'[w] = "open" /\ held'[w] = j
    BY <1>1, <1>2, <1>8, <2>1
    DEF DecideFresh, Move, vars, Untouched, Failed, Unpaid, RunsOf, RunsTypeOK
  <2>3. WorkerLedger(w)'
    BY <1>2, <2>2 DEF WorkerLedger, OwnRun
  <2> QED
    BY <1>5, <1>8, <2>3 DEF DecideFresh
<1>9. CASE DecideAbandoned(w) \/ AlreadyExecuted(w)
  BY <1>2, <1>9 DEF DecideAbandoned, AlreadyExecuted, At, WorkerLedger
<1>10. CASE OpenRun(w)
  <2> DEFINE n == opened + 1
  <2>1. Untouched(j)
    BY <1>1, <1>2, <1>10 DEF OpenRun, At, WorkerLedger, OwnRun
  <2>2. n \in RunId /\ n > opened /\ n \notin 1 .. opened /\ opened \in Nat
    BY <1>2, <1>10, RunsAssumption DEF OpenRun, RunsTypeOK, RunId
  <2>3. runs[n].job = NoJob /\ n \notin billed /\ n \notin delivered
    BY <2>2 DEF LedgerInv, RunInv, DeliveredWasBilled
  <2>4. /\ opened' = n
        /\ runs' = [runs EXCEPT ![n] = [job |-> j, status |-> "running", age |-> 0]]
        /\ mine'[w] = n /\ step'[w] = "budget" /\ pc' = pc /\ held'[w] = j
        /\ UNCHANGED <<billed, delivered>>
    BY <1>1, <1>2, <1>10 DEF OpenRun, Move, vars, RunsTypeOK
  <2>5. j # NoJob
    BY ConstantsAssumption
  <2> HIDE DEF n
  <2>6. /\ \A i \in Job \ {j} : RunsOf(i)' = RunsOf(i)
        /\ RunsOf(j)' = RunsOf(j) \cup {n}
        /\ n \notin RunsOf(j)
        /\ \A r \in RunId \ {n} : runs'[r] = runs[r]
        /\ runs'[n].job = j
    BY <1>2, <2>2, <2>3, <2>4, <2>5, ConstantsAssumption DEF RunsOf, RunsTypeOK
  <2>7. WorkerLedger(w)'
    BY <1>1, <1>2, <2>1, <2>3, <2>4, <2>6
    DEF WorkerLedger, OwnRun, Untouched, Failed, Unpaid, RunsOf
  <2>8. (\A i \in Job : JobLedger(i)') /\ (\A v \in Worker \ {w} : WorkerLedger(v)')
    <3>1. \A i \in Job \ {held[w]} :
            /\ RunsOf(i)' = RunsOf(i)
            /\ \A r \in RunsOf(i) : /\ runs'[r].status = runs[r].status
                                    /\ r \in billed' <=> r \in billed
                                    /\ r \in delivered' <=> r \in delivered
      BY <1>1, <2>3, <2>4, <2>5, <2>6, ConstantsAssumption DEF RunsOf
    <3> QED
      BY <1>2, <1>3, <3>1, OthersKeepTheirLedger
  <2>9. /\ \A r \in RunId : r > opened' => runs'[r].job = NoJob
        /\ billed' \subseteq 1 .. opened'
    BY <2>2, <2>4, <2>6 DEF LedgerInv, RunId, n
  <2> QED
    BY <2>7, <2>8, <2>9 DEF LedgerInv
<1>11. CASE CheckBudget(w) \/ Work(w)
  <2>1. /\ step[w] \in OwnRun \ {"commit"} /\ step'[w] \in OwnRun \ {"commit"}
        /\ pc' = pc /\ held'[w] = j /\ mine' = mine
        /\ UNCHANGED <<runs, opened, billed, delivered>>
    BY <1>1, <1>2, <1>11 DEF CheckBudget, Work, At, Move, OwnRun, vars, RunsTypeOK
  <2>2. /\ runs[m].job = j /\ Unpaid(j)
        /\ \A r \in RunsOf(j) \ {m} : runs[r].status = "failed"
    BY <1>1, <1>2, <2>1 DEF WorkerLedger
  <2>3. WorkerLedger(w)'
    BY <1>1, <1>2, <2>1, <2>2 DEF WorkerLedger, OwnRun, Unpaid, RunsOf
  <2> QED
    BY <1>5, <2>1, <2>3
<1>12. CASE CloseSucceeded(w)
  <2>1. /\ step[w] = "deliver" /\ step'[w] = "commit" /\ pc' = pc /\ held'[w] = j
        /\ mine' = mine /\ runs' = [runs EXCEPT ![m].status = "succeeded"]
        /\ billed' = billed \cup {m} /\ UNCHANGED <<opened, delivered>>
    BY <1>1, <1>2, <1>12 DEF CloseSucceeded, CloseAs, At, Move, vars, RunsTypeOK
  <2>2. /\ m \in RunId /\ m \in 1 .. opened /\ runs[m].job = j
    BY <1>6, <2>1 DEF OwnRun
  <2>3. /\ Unpaid(j)
        /\ \A r \in RunsOf(j) \ {m} : runs[r].status = "failed"
    BY <1>1, <1>2, <2>1 DEF WorkerLedger, OwnRun
  <2> HIDE DEF m
  <2>4. /\ \A r \in RunId : runs'[r].job = runs[r].job
        /\ \A r \in RunId \ {m} : runs'[r] = runs[r]
        /\ RunsOf(j)' = RunsOf(j) /\ m \in RunsOf(j)
    BY <1>2, <2>1, <2>2 DEF RunsOf, RunsTypeOK
  <2>5. WorkerLedger(w)'
    BY <1>1, <1>2, <2>1, <2>2, <2>3, <2>4 DEF WorkerLedger, OwnRun, Unpaid, m
  <2> QED
    BY <1>4, <2>1, <2>2, <2>4, <2>5 DEF LedgerInv
<1>13. CASE Commit(w)
  <2>1. /\ step[w] = "commit" /\ step'[w] = "out" /\ pc'[w] = "executed" /\ held'[w] = j
        /\ delivered' = delivered \cup {m} /\ UNCHANGED <<runs, opened, billed>>
    BY <1>1, <1>2, <1>13
    DEF Commit, At, LeaveRun, Move, ExecuteReturns, Goto, RunsTypeOK, rowVars
  <2>2. m \in RunId /\ runs[m].job = j
    BY <1>6, <2>1 DEF OwnRun
  <2>3. billed \cap RunsOf(j) = {m} /\ delivered \cap RunsOf(j) = {}
    BY <1>1, <1>2, <2>1 DEF WorkerLedger
  <2> HIDE DEF m
  <2>4. RunsOf(j)' = RunsOf(j) /\ m \in RunsOf(j)
    BY <2>1, <2>2 DEF RunsOf
  <2>5. Paid(j)'
    BY <2>1, <2>3, <2>4 DEF Paid
  <2>6. WorkerLedger(w)'
    BY <2>1, <2>5 DEF WorkerLedger, OwnRun
  <2> QED
    BY <1>4, <2>1, <2>2, <2>6 DEF LedgerInv
<1>14. CASE CloseUnpaid(w)
  <2>1. PICK s \in {"rejected", "failed"} :
          /\ runs' = [runs EXCEPT ![m].status = s]
          /\ pc'[w] \in {"raised", "refused"}
          /\ pc'[w] = "raised" => s = "failed"
    BY <1>2, <1>14 DEF CloseUnpaid, CloseAs, Goto
  <2>2. /\ step[w] \in OwnRun \ {"commit"} /\ step'[w] = "out" /\ held'[w] = j
        /\ UNCHANGED <<opened, billed, delivered>>
    BY <1>1, <1>2, <1>14 DEF CloseUnpaid, At, LeaveRun, Move, OwnRun, RunsTypeOK
  <2>3. m \in RunId /\ runs[m].job = j
    BY <1>6, <2>2
  <2>4. /\ Unpaid(j)
        /\ \A r \in RunsOf(j) \ {m} : runs[r].status = "failed"
    BY <1>1, <1>2, <2>2 DEF WorkerLedger
  <2> HIDE DEF m
  <2>5. /\ \A r \in RunId : runs'[r].job = runs[r].job
        /\ \A r \in RunId \ {m} : runs'[r] = runs[r]
        /\ runs'[m].status = s
        /\ RunsOf(j)' = RunsOf(j)
    BY <1>2, <2>1, <2>3 DEF RunsOf, RunsTypeOK
  <2>6. Unpaid(j)'
    BY <2>2, <2>4, <2>5 DEF Unpaid
  <2>7. s = "failed" => Untouched(j)'
    BY <2>4, <2>5, <2>6 DEF Untouched, Failed, RunsOf
  <2>8. WorkerLedger(w)'
    BY <2>1, <2>2, <2>6, <2>7 DEF WorkerLedger, OwnRun
  <2> QED
    BY <1>4, <2>2, <2>3, <2>5, <2>8 DEF LedgerInv
<1> QED
  BY <1>7, <1>8, <1>9, <1>10, <1>11, <1>12, <1>13, <1>14 DEF RunJobStep


LEMMA LedgerInvInit == RunsInit => LedgerInv
BY ConstantsAssumption
DEF RunsInit, Init, LedgerInv, JobLedger, WorkerLedger, Untouched, Unpaid, Failed, RunsOf,
    NoRun, OwnRun

LEMMA LedgerStep ==
  ASSUME RunsLeaseAssumptions
  PROVE  HoldInv /\ LeaseInv /\ RunInv /\ LedgerInv /\ [RunsNext]_allVars => LedgerInv'
<1> SUFFICES ASSUME HoldInv, LeaseInv, RunInv, LedgerInv, [RunsNext]_allVars
             PROVE  LedgerInv'
  OBVIOUS
<1> USE DEF RunsLeaseAssumptions
<1>1. ASSUME UNCHANGED <<status, held, pc, step, seen, mine, opened, billed, delivered>>,
             \A r \in RunId : /\ runs'[r].job = runs[r].job
                              /\ runs'[r].status = runs[r].status
      PROVE  LedgerInv'
  <2>1. \A j : /\ RunsOf(j)' = RunsOf(j)
               /\ Unpaid(j)' <=> Unpaid(j)
               /\ Untouched(j)' <=> Untouched(j)
               /\ Paid(j)' <=> Paid(j)
    BY <1>1 DEF RunsOf, Unpaid, Untouched, Failed, Paid
  <2>2. \A w \in Worker : step[w] \in OwnRun => mine[w] \in RunId
    BY DEF RunInv, RunsTypeOK, RunId
  <2>3. \A j \in Job : JobLedger(j)'
    BY <1>1, <2>1 DEF JobLedger, LedgerInv
  <2>4. \A w \in Worker : WorkerLedger(w)'
    <3> TAKE w \in Worker
    <3>1. WorkerLedger(w)
      BY DEF LedgerInv
    <3>2. \A r \in RunsOf(held[w]) : r \in RunId
      BY DEF RunsOf
    <3> QED
      BY <1>1, <2>1, <2>2, <3>1, <3>2 DEF WorkerLedger
  <2> QED
    BY <1>1, <2>3, <2>4 DEF LedgerInv
<1>2. CASE QueueStep
  BY <1>2, LedgerQueueStep
<1>3. ASSUME NEW w \in Worker, RunJobStep(w)
      PROVE  LedgerInv'
  BY <1>3, LedgerRunJobStep
<1>4. ASSUME NEW w \in Worker, RunBreaks(w) \/ CrashInRun(w)
      PROVE  LedgerInv'
  <2>1. ~Break
    BY DEF Break, RunInv, RunsTypeOK
  <2>2. ~Crash(w)
    BY NoFaultStep DEF FaultStep, HoldInv
  <2> QED
    BY <1>4, <2>1, <2>2 DEF RunBreaks, CrashInRun
<1>5. CASE RunsTick
  <2>1. \A r \in RunId : runs'[r].job = runs[r].job /\ runs'[r].status = runs[r].status
    BY <1>5 DEF RunsTick, RunInv, RunsTypeOK
  <2> QED
    BY <1>1, <1>5, <2>1 DEF RunsTick, Tick
<1>6. CASE UNCHANGED allVars
  BY <1>1, <1>6 DEF allVars, vars, runVars
<1> QED
  BY <1>2, <1>3, <1>4, <1>5, <1>6 DEF RunsNext

(* Without faults, and with every execution recorded within STALE_AFTER, a   *)
(* job that is done was billed for exactly one run and that run's work was   *)
(* delivered, and a job that failed was billed for none, for any number of   *)
(* jobs, workers, attempts and retries.                                      *)
THEOREM LeaseBillsExactlyOnce ==
  ASSUME RunsLeaseAssumptions
  PROVE  RunsSpec => []DoneExactlyOnce
<1>1. RunsInit => LeaseInv /\ LedgerInv
  BY LedgerInvInit
  DEF RunsInit, Init, LeaseInv, NoDoubleExecution, Busy, Holding
<1>2. /\ HoldInv /\ LeaseInv /\ [RunsNext]_allVars => LeaseInv'
      /\ HoldInv /\ LeaseInv /\ RunInv /\ LedgerInv /\ [RunsNext]_allVars => LedgerInv'
  BY LeaseStep, LedgerStep, RunStepIsQueueStep DEF RunsLeaseAssumptions
<1>3. LedgerInv => DoneExactlyOnce
  BY DEF LedgerInv, JobLedger, DoneExactlyOnce, Paid, Unpaid
<1> QED
  BY <1>1, <1>2, <1>3, RunInvHolds, PTL DEF RunsSpec

-----------------------------------------------------------------------------
(***************************************************************************)
(* What every step of the instance leaves to the worker that takes it.     *)
(***************************************************************************)

\* Only a step of run_job, a crash or a broken transaction writes what
\* concerns runs; the queue moves no job that is being executed.
LEMMA QueueLeavesRuns ==
  ASSUME HoldInv, RunInv, QueueStep
  PROVE  /\ UNCHANGED runVars
         /\ \A w \in Worker : step[w] # "out" => held'[w] = held[w]
<1> SUFFICES ASSUME NEW w \in Worker, step[w] # "out"
             PROVE  held'[w] = held[w]
  BY DEF QueueStep
<1>1. pc[w] = "exec" /\ held \in [Worker -> Job \cup {NoJob}]
  BY DEF RunInv, HoldInv, TypeOK
<1>2. ASSUME NEW v \in Worker, LoopStep(v) \/ CompleteBreaks(v) \/ RecordBreaks(v)
      PROVE  held'[w] = held[w]
  <2>1. pc[v] # "exec"
    BY <1>2 DEF LoopStep, BeginPeriodic, SkipPeriodic, PeriodicCheck, PeriodicInsert,
          PeriodicFails, EndPeriodic, SelectStale, RequeueStale, RequeueMissesRow,
          ClaimNext, NothingToClaim, Complete, FailForGood, FailRetry, RowVanished,
          CompleteBreaks, RecordBreaks
  <2>2. v # w
    BY <1>1, <2>1
  <2> QED
    BY <1>1, <1>2, <2>2
    DEF LoopStep, BeginPeriodic, SkipPeriodic, PeriodicCheck, PeriodicInsert,
        PeriodicFails, EndPeriodic, SelectStale, RequeueStale, RequeueMissesRow,
        ClaimNext, NothingToClaim, Complete, FailForGood, FailRetry, RowVanished,
        CompleteBreaks, RecordBreaks, LetGo, workerVars
<1>3. (\E c \in Client : ClientStep(c)) \/ (\E j \in Job : BackoffExpires(j)) => held' = held
  BY DEF ClientStep, EnqueueCheck, EnqueueInsert, EnqueueRollback, EnqueueKeyless,
         BackoffExpires, workerVars
<1> QED
  BY <1>2, <1>3 DEF QueueStep

LEMMA SubsetSize ==
  ASSUME NEW S, IsFiniteSet(S), NEW T \in SUBSET S
  PROVE  IsFiniteSet(T) /\ Cardinality(T) \in Nat /\ Cardinality(S) \in Nat
         /\ Cardinality(T) <= Cardinality(S)
BY FS_Subset, FS_CardinalityType

LEMMA BilledSize ==
  ASSUME RunsTypeOK
  PROVE  /\ IsFiniteSet(billed) /\ UnitsUsed = Cardinality(billed)
         /\ \A S \in SUBSET billed : IsFiniteSet(S) /\ Cardinality(S) \in Nat
<1>1. IsFiniteSet(RunId)
  BY FS_Interval, RunsAssumption DEF RunId
<1> QED
  BY <1>1, SubsetSize DEF RunsTypeOK, UnitsUsed

-----------------------------------------------------------------------------
(***************************************************************************)
(* The quota: whoever has passed the check has a unit in hand.             *)
(***************************************************************************)

\* Workers past the check of the budget whose run is not billed yet.
Spending == {w \in Worker : step[w] \in {"work", "deliver"}}

BudgetInv == UnitsUsed + Cardinality(Spending) <= UnitsLimit + Cardinality(Worker) - 1

LEMMA SpendingSize ==
  /\ IsFiniteSet(Spending) /\ Cardinality(Spending) \in Nat
  /\ Cardinality(Spending) <= Cardinality(Worker) /\ Cardinality(Worker) \in Nat \ {0}
BY SubsetSize, RunsAssumption, FS_EmptySet DEF Spending

\* No run is billed and nobody passes the check.
LEMMA BudgetShrinks ==
  ASSUME RunsTypeOK, BudgetInv, billed' = billed, Spending' \subseteq Spending
  PROVE  BudgetInv'
<1>1. UnitsUsed' = UnitsUsed /\ UnitsUsed \in Nat
  BY BilledSize DEF UnitsUsed
<1>2. Cardinality(Spending') <= Cardinality(Spending) /\ Cardinality(Spending') \in Nat
  BY SpendingSize, SubsetSize
<1>3. Cardinality(Spending)' = Cardinality(Spending')
  OBVIOUS
<1> QED
  BY <1>1, <1>2, <1>3, SpendingSize, RunsAssumption DEF BudgetInv

LEMMA BudgetCheck ==
  ASSUME RunsTypeOK, BudgetInv, NEW w \in Worker, CheckBudget(w)
  PROVE  BudgetInv'
<1>1. CASE Cabe
  <2>1. UnitsUsed' = UnitsUsed /\ UnitsUsed \in Nat
    BY BilledSize DEF CheckBudget, UnitsUsed
  <2>2. Spending' \subseteq Worker
    BY DEF Spending
  <2>3. Cardinality(Spending') <= Cardinality(Worker) /\ Cardinality(Spending') \in Nat
    BY <2>2, SubsetSize, RunsAssumption
  <2> QED
    BY <1>1, <2>1, <2>3, SpendingSize, RunsAssumption DEF BudgetInv, Cabe
<1>2. CASE ~Cabe
  <2>1. Spending' \subseteq Spending /\ billed' = billed
    BY <1>2 DEF CheckBudget, Spending, Move, RunsTypeOK
  <2> QED
    BY <2>1, BudgetShrinks
<1> QED
  BY <1>1, <1>2

LEMMA BudgetClose ==
  ASSUME RunsTypeOK, BudgetInv, NEW w \in Worker, CloseSucceeded(w)
  PROVE  BudgetInv'
<1>1. Spending' = Spending \ {w} /\ w \in Spending
  BY DEF CloseSucceeded, At, Spending, Move, RunsTypeOK
<1>2. Cardinality(Spending') = Cardinality(Spending) - 1
  BY <1>1, SpendingSize, FS_RemoveElement
<1>3. UnitsUsed' <= UnitsUsed + 1 /\ UnitsUsed \in Nat /\ UnitsUsed' \in Nat
  <2>1. billed' = billed \cup {mine[w]}
    BY DEF CloseSucceeded
  <2>2. IsFiniteSet(billed) /\ Cardinality(billed) \in Nat /\ UnitsUsed = Cardinality(billed)
    BY BilledSize
  <2>3. UnitsUsed' = Cardinality(billed')
    BY DEF UnitsUsed
  <2>4. Cardinality(billed') = Cardinality(billed)
        \/ Cardinality(billed') = Cardinality(billed) + 1
    BY <2>1, <2>2, FS_AddElement
  <2> QED
    BY <2>2, <2>3, <2>4
<1> QED
  BY <1>2, <1>3, SpendingSize, RunsAssumption DEF BudgetInv

LEMMA BudgetStep == HoldInv /\ RunInv /\ BudgetInv /\ [RunsNext]_allVars => BudgetInv'
<1> SUFFICES ASSUME HoldInv, RunInv, BudgetInv, [RunsNext]_allVars
             PROVE  BudgetInv'
  OBVIOUS
<1>0. RunsTypeOK
  BY DEF RunInv
<1>1. CASE QueueStep \/ RunsTick \/ UNCHANGED allVars
  <2>1. billed' = billed /\ step' = step
    BY <1>1, QueueLeavesRuns DEF runVars, RunsTick, allVars
  <2> QED
    BY <1>0, <2>1, BudgetShrinks DEF Spending
<1>2. ASSUME NEW w \in Worker,
             \/ ReadLedger(w) \/ DecideFresh(w) \/ DecideAbandoned(w) \/ AlreadyExecuted(w)
             \/ OpenRun(w) \/ Work(w) \/ Commit(w) \/ CloseUnpaid(w)
             \/ RunBreaks(w) \/ CrashInRun(w)
      PROVE  BudgetInv'
  <2>1. billed' = billed
    BY <1>2 DEF ReadLedger, DecideFresh, DecideAbandoned, AlreadyExecuted, OpenRun, Work,
                Commit, CloseUnpaid, RunBreaks, CrashInRun
  <2>2. PICK s \in RunStep : step' = [step EXCEPT ![w] = s]
                             /\ (s \in {"work", "deliver"} => step[w] = "work")
    BY <1>2 DEF ReadLedger, DecideFresh, DecideAbandoned, AlreadyExecuted, OpenRun, Work,
                Commit, CloseUnpaid, RunBreaks, CrashInRun, LeaveRun, Move, At, RunStep
  <2>3. Spending' \subseteq Spending
    BY <1>0, <2>2 DEF Spending, RunsTypeOK
  <2> QED
    BY <1>0, <2>1, <2>3, BudgetShrinks
<1> QED
  BY <1>0, <1>1, <1>2, BudgetCheck, BudgetClose DEF RunsNext, RunJobStep

(* Any number of workers overshoot the quota of a tenant by less than one    *)
(* unit each: all may see the last unit free, but nobody starts to work once *)
(* the bill has reached the limit.                                           *)
THEOREM BudgetHolds == RunsSpec => []BudgetOvershootIsBounded
<1>1. RunsInit => BudgetInv
  <2> SUFFICES ASSUME RunsInit
               PROVE  BudgetInv
    OBVIOUS
  <2>1. billed = {} /\ Spending = {}
    BY DEF RunsInit, Spending
  <2>2. UnitsUsed = 0 /\ Cardinality(Spending) = 0
    BY <2>1, FS_EmptySet DEF UnitsUsed
  <2> QED
    BY <2>2, SpendingSize, RunsAssumption DEF BudgetInv
<1>2. RunInv /\ BudgetInv => BudgetOvershootIsBounded
  <2> SUFFICES ASSUME RunInv, BudgetInv
               PROVE  BudgetOvershootIsBounded
    OBVIOUS
  <2>1. UnitsUsed \in Nat
    BY BilledSize DEF RunInv
  <2> QED
    BY <2>1, SpendingSize, RunsAssumption DEF BudgetInv, BudgetOvershootIsBounded
<1> QED
  BY <1>1, <1>2, BudgetStep, RunInvHolds, PTL DEF RunsSpec

-----------------------------------------------------------------------------
(***************************************************************************)
(* A bill without a delivery is charged to a fault.                        *)
(***************************************************************************)

\* Runs that are closed and whose work is about to be committed.
InHand == {mine[w] : w \in {v \in Worker : step[v] = "commit"}}

Wasted == billed \ (delivered \cup InHand)

WasteInv == Cardinality(Wasted) <= faults + breaks

LEMMA WastedSize ==
  ASSUME RunsTypeOK
  PROVE  IsFiniteSet(Wasted) /\ Cardinality(Wasted) \in Nat
BY BilledSize DEF Wasted

\* No new waste.
LEMMA WasteKept ==
  ASSUME RunsTypeOK, WasteInv, TypeOK, TypeOK', RunsTypeOK', Wasted' \subseteq Wasted,
         faults <= faults', breaks <= breaks'
  PROVE  WasteInv'
<1>1. Cardinality(Wasted') <= Cardinality(Wasted) /\ Cardinality(Wasted') \in Nat
  BY WastedSize, SubsetSize
<1>2. Cardinality(Wasted)' = Cardinality(Wasted')
  OBVIOUS
<1>3. Cardinality(Wasted) \in Nat
  BY WastedSize
<1> QED
  BY <1>1, <1>2, <1>3, RunsAssumption, ConstantsAssumption DEF WasteInv, TypeOK, RunsTypeOK

\* One more, for one more fault.
LEMMA WasteCharged ==
  ASSUME RunsTypeOK, WasteInv, TypeOK, TypeOK', RunsTypeOK',
         NEW r, Wasted' \subseteq Wasted \cup {r},
         \/ faults' = faults + 1 /\ breaks' = breaks
         \/ faults' = faults /\ breaks' = breaks + 1
  PROVE  WasteInv'
<1>1. IsFiniteSet(Wasted \cup {r}) /\ Cardinality(Wasted) \in Nat
      /\ Cardinality(Wasted \cup {r}) \in {Cardinality(Wasted), Cardinality(Wasted) + 1}
  BY WastedSize, FS_AddElement
<1>2. Cardinality(Wasted') <= Cardinality(Wasted \cup {r}) /\ Cardinality(Wasted') \in Nat
  BY <1>1, SubsetSize
<1>3. Cardinality(Wasted)' = Cardinality(Wasted')
  OBVIOUS
<1>4. faults \in Int /\ breaks \in Int /\ faults' \in Int /\ breaks' \in Int
  BY RunsAssumption, ConstantsAssumption DEF TypeOK, RunsTypeOK
<1>5. Cardinality(Wasted') <= Cardinality(Wasted) + 1
  BY <1>1, <1>2
<1>6. Cardinality(Wasted') <= faults' + breaks'
  BY <1>1, <1>2, <1>4, <1>5 DEF WasteInv
<1> QED
  BY <1>6 DEF WasteInv

LEMMA WasteStep == HoldInv /\ RunInv /\ WasteInv /\ [RunsNext]_allVars => WasteInv'
<1> SUFFICES ASSUME HoldInv, RunInv, WasteInv, [RunsNext]_allVars
             PROVE  WasteInv'
  OBVIOUS
<1>0. RunsTypeOK /\ TypeOK /\ RunsTypeOK' /\ TypeOK'
  BY HoldStep, RunInvStep, RunStepIsQueueStep DEF RunInv, HoldInv
<1>1. CASE QueueStep \/ RunsTick \/ UNCHANGED allVars
  <2>1. UNCHANGED <<billed, delivered, step, mine, breaks>>
    BY <1>1, QueueLeavesRuns DEF runVars, RunsTick, allVars
  <2>2. faults <= faults'
    <3>1. faults \in Int
      BY <1>0, ConstantsAssumption DEF TypeOK
    <3>2. ASSUME NEW c \in Client, ClientStep(c)
          PROVE  faults' = faults
      BY <3>2 DEF ClientStep, EnqueueCheck, EnqueueInsert, EnqueueRollback, EnqueueKeyless
    <3>3. ASSUME NEW w \in Worker, LoopStep(w) \/ CompleteBreaks(w) \/ RecordBreaks(w)
          PROVE  faults' = faults \/ faults' = faults + 1
      BY <3>3
      DEF LoopStep, BeginPeriodic, SkipPeriodic, PeriodicCheck, PeriodicInsert,
          PeriodicFails, EndPeriodic, SelectStale, RequeueStale, RequeueMissesRow,
          ClaimNext, NothingToClaim, Complete, FailForGood, FailRetry, RowVanished,
          CompleteBreaks, RecordBreaks, LetGo, Fault
    <3>4. ASSUME NEW j \in Job, BackoffExpires(j)
          PROVE  faults' = faults
      BY <3>4 DEF BackoffExpires
    <3>5. RunsTick \/ UNCHANGED allVars => faults' = faults
      BY DEF RunsTick, Tick, allVars, vars
    <3> QED
      BY <1>1, <3>1, <3>2, <3>3, <3>4, <3>5 DEF QueueStep
  <2>3. Wasted' = Wasted
    BY <2>1 DEF Wasted, InHand
  <2>4. breaks <= breaks'
    BY <1>0, <2>1, RunsAssumption DEF RunsTypeOK
  <2> QED
    BY <1>0, <2>2, <2>3, <2>4, WasteKept
<1>2. ASSUME NEW w \in Worker, step[w] # "commit", UNCHANGED <<billed, delivered>>,
             \A v \in Worker \ {w} : step'[v] = step[v] /\ mine'[v] = mine[v],
             faults <= faults', breaks <= breaks'
      PROVE  WasteInv'
  <2>1. InHand \subseteq InHand'
    BY <1>2 DEF InHand
  <2>2. Wasted' \subseteq Wasted
    BY <1>2, <2>1 DEF Wasted
  <2> QED
    BY <1>0, <1>2, <2>2, WasteKept
<1>3. faults <= faults /\ breaks <= breaks /\ faults \in Int /\ breaks \in Int
  BY <1>0, ConstantsAssumption, RunsAssumption DEF TypeOK, RunsTypeOK
<1>4. ASSUME NEW w \in Worker,
             \/ ReadLedger(w) \/ DecideFresh(w) \/ DecideAbandoned(w) \/ AlreadyExecuted(w)
             \/ OpenRun(w) \/ CheckBudget(w) \/ Work(w) \/ CloseUnpaid(w)
      PROVE  WasteInv'
  <2>1. /\ step[w] # "commit" /\ UNCHANGED <<billed, delivered, breaks, faults>>
        /\ \A v \in Worker \ {w} : step'[v] = step[v] /\ mine'[v] = mine[v]
    BY <1>0, <1>4
    DEF ReadLedger, DecideFresh, DecideAbandoned, AlreadyExecuted, OpenRun, CheckBudget,
        Work, CloseUnpaid, At, Move, LeaveRun, vars, ExecuteReturns, ExecuteRaises, RunsTypeOK
  <2> QED
    BY <1>2, <1>3, <2>1
<1>5. ASSUME NEW w \in Worker, CloseSucceeded(w)
      PROVE  WasteInv'
  <2>1. /\ mine[w] \in InHand' /\ InHand \subseteq InHand'
        /\ billed' = billed \cup {mine[w]}
        /\ UNCHANGED <<delivered, faults, breaks>>
    BY <1>0, <1>5 DEF CloseSucceeded, InHand, Move, vars, RunsTypeOK
  <2>2. Wasted' \subseteq Wasted
    BY <2>1 DEF Wasted
  <2> QED
    BY <1>0, <1>3, <2>1, <2>2, WasteKept
<1>6. ASSUME NEW w \in Worker, LeaveRun(w)
      PROVE  InHand \subseteq InHand' \cup {mine[w]}
  BY <1>0, <1>6 DEF LeaveRun, Move, InHand, RunsTypeOK
<1>7. ASSUME NEW w \in Worker, Commit(w)
      PROVE  WasteInv'
  <2>1. UNCHANGED <<billed, faults, breaks>> /\ delivered' = delivered \cup {mine[w]}
    BY <1>7 DEF Commit, ExecuteReturns
  <2>2. Wasted' \subseteq Wasted
    BY <1>6, <1>7, <2>1 DEF Wasted, Commit
  <2> QED
    BY <1>0, <1>3, <2>1, <2>2, WasteKept
<1>8. ASSUME NEW w \in Worker, RunBreaks(w) \/ CrashInRun(w)
      PROVE  WasteInv'
  <2>1. /\ UNCHANGED <<billed, delivered>> /\ LeaveRun(w)
        /\ \/ faults' = faults + 1 /\ breaks' = breaks
           \/ faults' = faults /\ breaks' = breaks + 1
    BY <1>8 DEF RunBreaks, CrashInRun, Crash, Fault, Break, ExecuteRaises
  <2>2. Wasted' \subseteq Wasted \cup {mine[w]}
    BY <1>6, <2>1 DEF Wasted
  <2> QED
    BY <1>0, <2>1, <2>2, WasteCharged
<1> QED
  BY <1>1, <1>4, <1>5, <1>7, <1>8 DEF RunsNext, RunJobStep

(* Each unit the customer pays for nothing is charged to a crash or a broken *)
(* transaction of its own, with any number of workers and executions of any  *)
(* length: no interleaving, requeue or retry wastes a bill.                  *)
THEOREM WasteNeedsFault == RunsSpec => []BilledForNothingNeedsFault
<1>1. RunsInit => WasteInv
  <2> SUFFICES ASSUME RunsInit
               PROVE  WasteInv
    OBVIOUS
  <2>1. Wasted = {} /\ faults = 0 /\ breaks = 0
    BY DEF RunsInit, Init, Wasted
  <2>2. Cardinality(Wasted) = 0
    BY <2>1, FS_EmptySet
  <2> QED
    BY <2>1, <2>2 DEF WasteInv
<1>2. WasteInv => BilledForNothingNeedsFault
  BY DEF WasteInv, Wasted, InHand, BilledForNothingNeedsFault
<1> QED
  BY <1>1, <1>2, WasteStep, RunInvHolds, PTL DEF RunsSpec

-----------------------------------------------------------------------------
(***************************************************************************)
(* One worker, as deployed: a repeated delivery finds the earlier run,     *)
(* whatever crashed in between and however long the execution took.        *)
(***************************************************************************)

\* At most one run of a job has not failed, and while its worker is past the
\* ledger it is the one the worker has open.  A run that is billed succeeded.
OnceInv ==
  /\ \A j \in Job : \A q, r \in Anteriores(j) : q = r
  /\ \A r \in billed : runs[r].status = "succeeded" /\ runs[r].job \in Job
  /\ \A r \in RunId : r > opened => runs[r] = NoRun
  /\ \A w \in Worker :
       /\ step[w] = "decide" =>
            /\ seen[w].run = 0 => Anteriores(held[w]) = {}
            /\ seen[w].run # 0 =>
                 /\ seen[w].run \in Anteriores(held[w])
                 /\ seen[w].abandoned => runs[seen[w].run].status = "running"
       /\ step[w] = "open" => Anteriores(held[w]) = {}
       /\ step[w] \in OwnRun => runs[mine[w]].job = held[w]
       /\ step[w] \in OwnRun \ {"commit"} => runs[mine[w]].status = "running"

LEMMA OnceInit == RunsInit => OnceInv
BY RunsAssumption
DEF RunsInit, OnceInv, Anteriores, NoRun, OwnRun

\* The ledger is as it was, and nobody has come to know more of it.
LEMMA OnceKept ==
  ASSUME OnceInv, UNCHANGED <<opened, billed>>,
         \A r \in RunId : runs'[r].job = runs[r].job /\ runs'[r].status = runs[r].status
                          /\ (runs[r] = NoRun => runs'[r] = NoRun),
         RunInv,
         \A w \in Worker :
           \/ step'[w] = "out"
           \/ /\ step'[w] = step[w] \/ {step[w], step'[w]} \subseteq OwnRun \ {"commit"}
              /\ seen'[w] = seen[w] /\ mine'[w] = mine[w] /\ held'[w] = held[w]
  PROVE  OnceInv'
<1>1. \A j : Anteriores(j)' = Anteriores(j)
  BY DEF Anteriores
<1>2. \A w \in Worker : step[w] \in OwnRun => mine[w] \in RunId
  BY DEF RunInv, RunsTypeOK, RunId
<1>3. /\ \A j \in Job : \A q, r \in Anteriores(j)' : q = r
      /\ \A r \in billed' : runs'[r].status = "succeeded" /\ runs'[r].job \in Job
      /\ \A r \in RunId : r > opened' => runs'[r] = NoRun
  BY <1>1 DEF OnceInv, RunInv, RunsTypeOK
<1>4. \A w \in Worker : held'[w] = held[w] => Anteriores(held[w])' = Anteriores(held[w])
  BY <1>1
<1>5. ASSUME NEW w \in Worker
      PROVE  /\ step'[w] = "decide" =>
                  /\ seen'[w].run = 0 => Anteriores(held[w])' = {}
                  /\ seen'[w].run # 0 =>
                       /\ seen'[w].run \in Anteriores(held[w])'
                       /\ seen'[w].abandoned => runs'[seen'[w].run].status = "running"
             /\ step'[w] = "open" => Anteriores(held[w])' = {}
             /\ step'[w] \in OwnRun => runs'[mine'[w]].job = held'[w]
             /\ step'[w] \in OwnRun \ {"commit"} => runs'[mine'[w]].status = "running"
  <2>1. CASE step'[w] = "out"
    BY <2>1 DEF OwnRun
  <2>2. CASE /\ step'[w] = step[w] \/ {step[w], step'[w]} \subseteq OwnRun \ {"commit"}
             /\ seen'[w] = seen[w] /\ mine'[w] = mine[w] /\ held'[w] = held[w]
    <3>1. /\ step'[w] = "decide" => step[w] = "decide"
          /\ step'[w] = "open" => step[w] = "open"
          /\ step'[w] \in OwnRun => step[w] \in OwnRun
          /\ step'[w] \in OwnRun \ {"commit"} => step[w] \in OwnRun \ {"commit"}
      BY <2>2 DEF OwnRun
    <3>2. Anteriores(held[w])' = Anteriores(held[w]) /\ Anteriores(held[w]) \subseteq RunId
      BY <1>1, <2>2, <1>4 DEF Anteriores
    <3> QED
      BY <1>2, <2>2, <3>1, <3>2 DEF OnceInv
  <2> QED
    BY <2>1, <2>2
<1> QED
  BY <1>3, <1>5 DEF OnceInv

\* The single worker w decides from the ledger, and nobody changes it meanwhile.
LEMMA OnceDecides ==
  ASSUME HoldInv, RunInv, OnceInv, OneWorker, StableId, NEW w \in Worker,
         ReadLedger(w) \/ DecideFresh(w) \/ DecideAbandoned(w)
  PROVE  OnceInv'
<1>0. /\ RunsTypeOK /\ \A v \in Worker : v = w
      /\ held' = held /\ held[w] \in Job
  BY DEF RunInv, OneWorker, ReadLedger, DecideFresh, DecideAbandoned, vars, HoldInv, TypeOK,
         HoldsOne, Busy, Holding, At
<1> DEFINE A == Anteriores(held[w])
<1>1. A \subseteq RunId
  BY DEF Anteriores
<1>2. CASE ReadLedger(w)
  <2>1. runs' = runs /\ billed' = billed /\ opened' = opened /\ step'[w] = "decide"
    BY <1>0, <1>2 DEF ReadLedger, Move, RunsTypeOK
  <2>2. \A j : Anteriores(j)' = Anteriores(j)
    BY <2>1 DEF Anteriores
  <2>3. CASE A = {}
    <3>1. seen'[w].run = 0
      BY <1>0, <1>2, <2>3 DEF ReadLedger, Nothing, RunsTypeOK
    <3> QED
      BY <1>0, <2>1, <2>2, <2>3, <3>1 DEF OnceInv, OwnRun
  <2>4. CASE A # {}
    <3>1. /\ seen'[w].run = Anterior(held[w])
          /\ seen'[w].abandoned = Abandonado(Anterior(held[w]))
      BY <1>0, <1>2, <2>4 DEF ReadLedger, RunsTypeOK
    <3>2. Anterior(held[w]) \in A /\ Anterior(held[w]) # 0
      BY <2>4, AnteriorIsRun, RunsAssumption DEF RunId
    <3>3. seen'[w].abandoned => runs'[seen'[w].run].status = "running"
      BY <2>1, <3>1 DEF Abandonado
    <3> HIDE DEF A
    <3>4. seen'[w].run \in Anteriores(held[w])' /\ seen'[w].run # 0
      BY <1>0, <2>2, <3>1, <3>2 DEF A
    <3> QED
      BY <1>0, <2>1, <2>2, <3>3, <3>4 DEF OnceInv, OwnRun
  <2> QED
    BY <2>3, <2>4
<1>3. CASE DecideFresh(w)
  <2>1. /\ runs' = runs /\ billed' = billed /\ opened' = opened /\ step'[w] = "open"
        /\ A = {}
    BY <1>0, <1>3 DEF DecideFresh, At, Move, RunsTypeOK, OnceInv
  <2>2. \A j : Anteriores(j)' = Anteriores(j)
    BY <2>1 DEF Anteriores
  <2> QED
    BY <1>0, <2>1, <2>2 DEF OnceInv, OwnRun
<1>4. CASE DecideAbandoned(w)
  <2> DEFINE r == seen[w].run
  <2>1. r \in A /\ runs[r].status = "running" /\ r \in RunId
    BY <1>1, <1>4 DEF DecideAbandoned, At, OnceInv
  <2>2. /\ runs' = [runs EXCEPT ![r].status = "failed"] /\ billed' = billed
        /\ opened' = opened /\ step'[w] = "open"
    BY <1>0, <1>4 DEF DecideAbandoned, Move, RunsTypeOK
  <2>3. A = {r} /\ r \notin billed /\ r <= opened
    BY <1>0, <2>1 DEF OnceInv, RunsTypeOK, RunId, NoRun
  <2> HIDE DEF r
  <2>4. /\ \A q \in RunId : runs'[q].job = runs[q].job
        /\ \A q \in RunId \ {r} : runs'[q] = runs[q]
        /\ runs'[r].status = "failed"
    BY <1>0, <2>1, <2>2 DEF RunsTypeOK
  <2>5. \A j : Anteriores(j)' \subseteq Anteriores(j)
    BY <2>1, <2>4 DEF Anteriores
  <2>6. Anteriores(held[w])' = {}
    BY <1>0, <2>3, <2>4, <2>5 DEF Anteriores
  <2>7. \A q \in RunId : q > opened => q # r
    BY <2>1, <2>3, <1>0 DEF RunId, RunsTypeOK
  <2>8. \A q \in billed : q # r /\ q \in RunId
    BY <1>0, <2>3 DEF RunsTypeOK
  <2> QED
    BY <1>0, <2>2, <2>4, <2>5, <2>6, <2>7, <2>8 DEF OnceInv, OwnRun
<1> QED
  BY <1>2, <1>3, <1>4

LEMMA OnceOpens ==
  ASSUME HoldInv, RunInv, OnceInv, OneWorker, NEW w \in Worker, OpenRun(w)
  PROVE  OnceInv'
<1> DEFINE n == opened + 1
           j == held[w]
<1>0. /\ RunsTypeOK /\ \A v \in Worker : v = w
      /\ held' = held /\ j \in Job
  BY DEF RunInv, OneWorker, OpenRun, vars, HoldInv, TypeOK, HoldsOne, Busy, Holding, At
<1>1. n \in RunId /\ opened' = n /\ opened \in Nat /\ billed' = billed
  BY <1>0, RunsAssumption DEF OpenRun, RunsTypeOK, RunId
<1>2. /\ runs' = [runs EXCEPT ![n] = [job |-> j, status |-> "running", age |-> 0]]
      /\ mine'[w] = n /\ step'[w] = "budget" /\ Anteriores(j) = {}
  BY <1>0 DEF OpenRun, Move, At, OnceInv, RunsTypeOK
<1>3. n \notin billed /\ billed \subseteq RunId
  BY <1>0, <1>1 DEF OnceInv, NoRun, RunsTypeOK
<1> HIDE DEF n, j
<1>4. runs'[n].job = j /\ runs'[n].status = "running" /\ \A q \in RunId \ {n} : runs'[q] = runs[q]
  BY <1>0, <1>1, <1>2 DEF RunsTypeOK
<1>5. \A i : i = j => Anteriores(i)' \subseteq {n}
  BY <1>2, <1>4 DEF Anteriores
<1>6. \A i \in Job \ {j} : Anteriores(i)' \subseteq Anteriores(i)
  BY <1>4 DEF Anteriores
<1>7. \A q \in RunId : q > opened' => q > opened /\ q # n
  BY <1>0, <1>1 DEF RunsTypeOK, RunId, n
<1> QED
  BY <1>0, <1>1, <1>2, <1>3, <1>4, <1>5, <1>6, <1>7 DEF OnceInv, OwnRun, j

LEMMA OnceCloses ==
  ASSUME HoldInv, RunInv, OnceInv, OneWorker, NEW w \in Worker,
         CloseSucceeded(w) \/ CloseUnpaid(w)
  PROVE  OnceInv'
<1> DEFINE m == mine[w]
<1>0. /\ RunsTypeOK /\ \A v \in Worker : v = w
      /\ held' = held /\ held[w] \in Job
  BY DEF RunInv, OneWorker, CloseSucceeded, CloseUnpaid, ExecuteRaises, vars, HoldInv, TypeOK,
         HoldsOne, Busy, Holding, At
<1>1. /\ step[w] \in OwnRun \ {"commit"} /\ m \in RunId /\ m <= opened
      /\ runs[m].status = "running" /\ runs[m].job = held[w]
  BY <1>0 DEF CloseSucceeded, CloseUnpaid, At, OwnRun, RunInv, RunsTypeOK, RunId, OnceInv
<1>2. PICK s \in {"succeeded", "rejected", "failed"} :
        /\ runs' = [runs EXCEPT ![m].status = s] /\ opened' = opened
        /\ \/ s = "succeeded" /\ billed' = billed \cup {m} /\ step'[w] = "commit"
              /\ mine'[w] = m
           \/ billed' = billed /\ step'[w] = "out"
  BY <1>0 DEF CloseSucceeded, CloseUnpaid, CloseAs, Move, LeaveRun, RunsTypeOK
<1>3. m \notin billed /\ billed \subseteq RunId
  BY <1>0, <1>1 DEF OnceInv, RunsTypeOK
<1> HIDE DEF m
<1>4. /\ \A q \in RunId : runs'[q].job = runs[q].job
      /\ \A q \in RunId \ {m} : runs'[q] = runs[q]
      /\ runs'[m].status = s
  BY <1>0, <1>1, <1>2 DEF RunsTypeOK
<1>5. \A i : Anteriores(i)' \subseteq Anteriores(i)
  BY <1>1, <1>4 DEF Anteriores
<1>6. \A q \in RunId : q > opened => q # m
  BY <1>0, <1>1 DEF RunId, RunsTypeOK
<1>7. \A r \in billed' : runs'[r].status = "succeeded" /\ runs'[r].job \in Job
  BY <1>0, <1>1, <1>2, <1>3, <1>4 DEF OnceInv
<1> QED
  BY <1>0, <1>1, <1>2, <1>4, <1>5, <1>6, <1>7 DEF OnceInv, OwnRun

LEMMA OnceStep ==
  ASSUME OneWorker, StableId
  PROVE  HoldInv /\ RunInv /\ OnceInv /\ [RunsNext]_allVars => OnceInv'
<1> SUFFICES ASSUME HoldInv, RunInv, OnceInv, [RunsNext]_allVars
             PROVE  OnceInv'
  OBVIOUS
<1>0. RunsTypeOK
  BY DEF RunInv
<1>1. CASE QueueStep
  BY <1>1, QueueLeavesRuns, OnceKept DEF runVars
<1>2. CASE UNCHANGED allVars
  BY <1>2, OnceKept DEF allVars, vars, runVars
<1>3. CASE RunsTick
  <2>1. \A r \in RunId : /\ runs'[r].job = runs[r].job /\ runs'[r].status = runs[r].status
                         /\ (runs[r] = NoRun => runs'[r] = NoRun)
    BY <1>0, <1>3 DEF RunsTick, RunsTypeOK, NoRun
  <2>2. UNCHANGED <<opened, billed, step, seen, mine, held>>
    BY <1>3 DEF RunsTick, Tick
  <2> QED
    BY <2>1, <2>2, OnceKept
<1>4. ASSUME NEW w \in Worker, CheckBudget(w) \/ Work(w)
      PROVE  OnceInv'
  <2>1. /\ UNCHANGED <<opened, billed, runs, seen, mine, held>>
        /\ {step[w], step'[w]} \subseteq OwnRun \ {"commit"}
        /\ \A v \in Worker \ {w} : step'[v] = step[v]
    BY <1>0, <1>4 DEF CheckBudget, Work, At, Move, vars, OwnRun, RunsTypeOK
  <2> QED
    BY <2>1, OnceKept
<1>5. ASSUME NEW w \in Worker, AlreadyExecuted(w) \/ Commit(w) \/ RunBreaks(w) \/ CrashInRun(w)
      PROVE  OnceInv'
  <2>1. UNCHANGED <<opened, billed, runs>> /\ LeaveRun(w)
    BY <1>5 DEF AlreadyExecuted, Commit, RunBreaks, CrashInRun
  <2>2. \A v \in Worker : step'[v] = "out"
    BY <1>0, <2>1 DEF OneWorker, LeaveRun, Move, RunsTypeOK
  <2> QED
    BY <2>1, <2>2, OnceKept
<1> QED
  BY <1>1, <1>2, <1>3, <1>4, <1>5, OnceDecides, OnceOpens, OnceCloses
  DEF RunsNext, RunJobStep

(* "Entrega repetida nao executa duas vezes", with one worker and payloads   *)
(* that carry their job_id: a job is billed once and delivered once, however *)
(* often it is requeued, retried, interrupted or taken for abandoned.        *)
THEOREM OneWorkerBillsOnce ==
  ASSUME OneWorker, StableId
  PROVE  RunsSpec => []BilledAndDeliveredOnce
<1>1. HoldInv /\ RunInv /\ OnceInv /\ [RunsNext]_allVars => OnceInv'
  BY OnceStep
<1>2. RunInv /\ OnceInv => BilledAndDeliveredOnce
  <2> SUFFICES ASSUME RunInv, OnceInv, NEW q \in billed \cup delivered,
                      NEW r \in billed \cup delivered, runs[q].job = runs[r].job
               PROVE  q = r
    BY DEF BilledAndDeliveredOnce
  <2>1. {q, r} \subseteq billed /\ billed \subseteq RunId
    BY DEF RunInv, DeliveredWasBilled, RunsTypeOK
  <2>2. q \in Anteriores(runs[q].job) /\ r \in Anteriores(runs[q].job)
    BY <2>1 DEF Anteriores, OnceInv
  <2> QED
    BY <2>1, <2>2 DEF OnceInv
<1> QED
  BY <1>1, <1>2, OnceInit, RunInvHolds, PTL DEF RunsSpec

=============================================================================
