----------------------------- MODULE AgentRuns ------------------------------
(***************************************************************************)
(* What a worker does with an agent_run job: run_job of                    *)
(* app/orchestrator/runner.py, composed with the queue of JobQueue.  Every *)
(* execution reads the ledger of runs (_run_existente), opens a run, checks *)
(* the budget, lets the agent work, closes the run (which bills it) and     *)
(* commits what the agent wrote.  The ledger is written in sessions of its *)
(* own (tenant_session as book), so each of these is a step others can come *)
(* between.                                                                *)
(*                                                                         *)
(* A run belongs to the row whose envelope it executes.  Rows are not      *)
(* deleted here: an envelope id is never used again.  All jobs of the      *)
(* instance belong to one tenant and cost one unit (usage.UNIT_COST).      *)
(***************************************************************************)
EXTENDS JobQueue

CONSTANTS
  StableId,    \* TRUE: the payload carries the job_id of the envelope
  MaxRuns,     \* bound on the runs opened in a behaviour
  MaxBreaks,   \* bound on failed ledger or domain transactions
  UnitsLimit   \* ai_units_per_month of the tenant

ASSUME RunsAssumption ==
  /\ StableId \in BOOLEAN
  /\ MaxRuns \in Nat
  /\ MaxBreaks \in Nat
  /\ UnitsLimit \in Nat
  /\ IsFiniteSet(Worker) /\ Worker # {}

VARIABLES
  runs,       \* the ledger: AgentRun rows, in the order of started_at
  opened,     \* how many runs there are
  step,       \* where each worker is in run_job; "out" when it is not in it
  seen,       \* what _run_existente read: a run, its status, is it abandoned
  mine,       \* the run the worker has opened
  billed,     \* the runs with a UsageEvent of their own, one unit each
  delivered,  \* history: the runs whose work has been committed
  breaks      \* failed transactions so far

runVars == <<runs, opened, step, seen, mine, billed, delivered, breaks>>
allVars == <<vars, runVars>>

RunStatus == {"absent", "running", "succeeded", "failed", "rejected"}

RunStep == {"out", "decide", "open", "budget", "work", "deliver", "reject",
            "conflict", "fail", "commit"}

RunId == 1 .. MaxRuns

NoRun == [job |-> NoJob, status |-> "absent", age |-> 0]

Nothing == [run |-> 0, status |-> "absent", abandoned |-> FALSE]

RunsTypeOK ==
  /\ runs \in [RunId -> [job : Job \cup {NoJob}, status : RunStatus,
                         age : 0 .. StaleAfter + 1]]
  /\ opened \in 0 .. MaxRuns
  /\ step \in [Worker -> RunStep]
  /\ seen \in [Worker -> [run : 0 .. MaxRuns, status : RunStatus, abandoned : BOOLEAN]]
  /\ mine \in [Worker -> 0 .. MaxRuns]
  /\ billed \subseteq RunId
  /\ delivered \subseteq RunId
  /\ breaks \in 0 .. MaxBreaks

RunsInit ==
  /\ Init
  /\ runs = [r \in RunId |-> NoRun]
  /\ opened = 0
  /\ step = [w \in Worker |-> "out"]
  /\ seen = [w \in Worker |-> Nothing]
  /\ mine = [w \in Worker |-> 0]
  /\ billed = {}
  /\ delivered = {}
  /\ breaks = 0

At(w, s) == pc[w] = "exec" /\ step[w] = s

Move(w, s) == step' = [step EXCEPT ![w] = s]

\* run_job is left, by return or by exception.
LeaveRun(w) ==
  /\ Move(w, "out")
  /\ mine' = [mine EXCEPT ![w] = 0]
  /\ seen' = [seen EXCEPT ![w] = Nothing]

Break == /\ breaks < MaxBreaks
         /\ breaks' = breaks + 1

-----------------------------------------------------------------------------
(***************************************************************************)
(* _run_existente: the latest run of this envelope that did not fail.  A   *)
(* payload without job_id gets a fresh one in from_dict: nothing is found. *)
(***************************************************************************)

\* Mutant: only a run still going on counts as one to respect.
SoEmCurso(j) == {r \in RunId : StableId /\ runs[r].job = j /\ runs[r].status = "running"}

Anteriores(j) ==
  {r \in RunId : StableId /\ runs[r].job = j /\ runs[r].status \notin {"absent", "failed"}}

Anterior(j) == CHOOSE r \in Anteriores(j) : \A q \in Anteriores(j) : q <= r

Abandonado(r) == runs[r].status = "running" /\ runs[r].age > StaleAfter

ReadLedger(w) ==
  /\ At(w, "out")
  /\ LET j == held[w]
     IN seen' = [seen EXCEPT ![w] =
          IF Anteriores(j) = {} THEN Nothing
          ELSE [run |-> Anterior(j), status |-> runs[Anterior(j)].status,
                abandoned |-> Abandonado(Anterior(j))]]
  /\ Move(w, "decide")
  /\ UNCHANGED <<vars, runs, opened, mine, billed, delivered, breaks>>

\* Nothing to respect: go and run.
DecideFresh(w) ==
  /\ At(w, "decide")
  /\ seen[w].run = 0
  /\ Move(w, "open")
  /\ UNCHANGED <<vars, runs, opened, seen, mine, billed, delivered, breaks>>

\* The run found is marked failed by id and the work is done again.
DecideAbandoned(w) ==
  /\ At(w, "decide")
  /\ seen[w].run # 0 /\ seen[w].abandoned
  /\ runs' = [runs EXCEPT ![seen[w].run].status = "failed"]
  /\ Move(w, "open")
  /\ UNCHANGED <<vars, opened, seen, mine, billed, delivered, breaks>>

\* "Entrega repetida": run_job returns the run found and nothing is done.
AlreadyExecuted(w) ==
  /\ At(w, "decide")
  /\ seen[w].run # 0 /\ ~seen[w].abandoned
  /\ ExecuteReturns(w)
  /\ LeaveRun(w)
  /\ UNCHANGED <<runs, opened, billed, delivered, breaks>>

-----------------------------------------------------------------------------
(***************************************************************************)
(* _open_run, check_ai_budget and the executor.                            *)
(***************************************************************************)

OpenRun(w) ==
  /\ At(w, "open")
  /\ opened < MaxRuns
  /\ opened' = opened + 1
  /\ runs' = [runs EXCEPT ![opened + 1] =
                [job |-> held[w], status |-> "running", age |-> 0]]
  /\ mine' = [mine EXCEPT ![w] = opened + 1]
  /\ Move(w, "budget")
  /\ UNCHANGED <<vars, seen, billed, delivered, breaks>>

UnitsUsed == Cardinality(billed)

\* Mutant: the comparison forgets the unit about to be spent.
CabeSemContar == UnitsUsed <= UnitsLimit

Cabe == UnitsUsed + 1 <= UnitsLimit

CheckBudget(w) ==
  /\ At(w, "budget")
  /\ Move(w, IF Cabe THEN "work" ELSE "reject")
  /\ UNCHANGED <<vars, runs, opened, seen, mine, billed, delivered, breaks>>

\* build_context and the executor: it delivers, is refused by a policy (402 or
\* 403), finds the work blocked (409), or fails in any other way.
Work(w) ==
  /\ At(w, "work")
  /\ \E s \in {"deliver", "reject", "conflict", "fail"} : Move(w, s)
  /\ UNCHANGED <<vars, runs, opened, seen, mine, billed, delivered, breaks>>

-----------------------------------------------------------------------------
(***************************************************************************)
(* _close_run and the commit of the executor's session.                    *)
(***************************************************************************)

CloseAs(w, s) == runs' = [runs EXCEPT ![mine[w]].status = s]

\* Mutant: the usage event is written only after the commit, by nobody.
CloseWithoutBill(w) ==
  /\ At(w, "deliver")
  /\ CloseAs(w, "succeeded")
  /\ Move(w, "commit")
  /\ UNCHANGED <<vars, opened, seen, mine, billed, delivered, breaks>>

CloseSucceeded(w) ==
  /\ At(w, "deliver")
  /\ CloseAs(w, "succeeded")
  /\ billed' = billed \cup {mine[w]}
  /\ Move(w, "commit")
  /\ UNCHANGED <<vars, opened, seen, mine, delivered, breaks>>

\* session.commit(): only now the draft, the research or the score exists.
Commit(w) ==
  /\ At(w, "commit")
  /\ delivered' = delivered \cup {mine[w]}
  /\ ExecuteReturns(w)
  /\ LeaveRun(w)
  /\ UNCHANGED <<runs, opened, billed, breaks>>

\* Mutant: an exception outside AppError leaves its run in "running".
LeftOpen(w) ==
  /\ \/ At(w, "reject") /\ CloseAs(w, "rejected") /\ Goto(w, "refused")
     \/ At(w, "conflict") /\ CloseAs(w, "failed") /\ Goto(w, "refused")
     \/ At(w, "fail") /\ UNCHANGED runs /\ Goto(w, "raised")
  /\ ExecuteRaises(w)
  /\ LeaveRun(w)
  /\ UNCHANGED <<opened, billed, delivered, breaks>>

\* Mutant: run_job swallows the exception and the next job is claimed.
Swallowed(w) ==
  /\ At(w, "reject") \/ At(w, "conflict") \/ At(w, "fail")
  /\ CloseAs(w, "failed")
  /\ Goto(w, "claim")
  /\ LeaveRun(w)
  /\ UNCHANGED <<rowVars, held, spent, todo, chosen, stale, returned, faults,
                 opened, billed, delivered, breaks>>

\* Mutant: a run that failed is billed like one that succeeded.
BillAnyway(w) ==
  /\ At(w, "reject") \/ At(w, "conflict") \/ At(w, "fail")
  /\ CloseAs(w, "failed")
  /\ billed' = billed \cup {mine[w]}
  /\ ExecuteRaises(w)
  /\ LeaveRun(w)
  /\ UNCHANGED <<opened, delivered, breaks>>

\* The exception closes the run without billing it and goes on to ciclo.
CloseUnpaid(w) ==
  /\ \/ At(w, "reject") /\ CloseAs(w, "rejected") /\ Goto(w, "refused")
     \/ At(w, "conflict") /\ CloseAs(w, "failed") /\ Goto(w, "refused")
     \/ At(w, "fail") /\ CloseAs(w, "failed") /\ Goto(w, "raised")
  /\ ExecuteRaises(w)
  /\ LeaveRun(w)
  /\ UNCHANGED <<opened, billed, delivered, breaks>>

\* A transaction of run_job fails (the connection drops): the session of the
\* work is rolled back, the ledger stays as it was, ciclo sees an exception.
RunBreaks(w) ==
  /\ Break
  /\ pc[w] = "exec"
  /\ ExecuteRaises(w) /\ Goto(w, "raised")
  /\ LeaveRun(w)
  /\ UNCHANGED <<runs, opened, billed, delivered>>

-----------------------------------------------------------------------------
RunJobStep(w) ==
  \/ ReadLedger(w) \/ DecideFresh(w) \/ DecideAbandoned(w) \/ AlreadyExecuted(w)
  \/ OpenRun(w) \/ CheckBudget(w) \/ Work(w)
  \/ CloseSucceeded(w) \/ Commit(w) \/ CloseUnpaid(w)

CrashInRun(w) ==
  /\ Crash(w)
  /\ LeaveRun(w)
  /\ UNCHANGED <<runs, opened, billed, delivered, breaks>>

RunsTick ==
  /\ Tick
  /\ runs' = [r \in RunId |-> IF runs[r].status = "running"
                              THEN [runs[r] EXCEPT !.age = Capped(@, StaleAfter + 1)]
                              ELSE runs[r]]
  /\ UNCHANGED <<opened, step, seen, mine, billed, delivered, breaks>>

\* The steps of the queue that run_job does not refine; rows stay.
QueueStep ==
  /\ \/ \E c \in Client : ClientStep(c)
     \/ \E w \in Worker : LoopStep(w) \/ CompleteBreaks(w) \/ RecordBreaks(w)
     \/ \E j \in Job : BackoffExpires(j)
  /\ UNCHANGED runVars

RunsNext ==
  \/ QueueStep
  \/ \E w \in Worker : RunJobStep(w) \/ RunBreaks(w) \/ CrashInRun(w)
  \/ RunsTick

RunsSpec == RunsInit /\ [][RunsNext]_allVars

(***************************************************************************)
(* Fairness as in JobQueue: workers keep running and every step of run_job *)
(* ends, backoffs expire and the clock advances.                           *)
(***************************************************************************)
RunsFairness ==
  /\ \A w \in Worker : WF_allVars((LoopStep(w) /\ UNCHANGED runVars) \/ RunJobStep(w))
  /\ \A j \in Job : WF_allVars(BackoffExpires(j) /\ UNCHANGED runVars)
  /\ WF_allVars(RunsTick)

RunsFairSpec == RunsSpec /\ RunsFairness

-----------------------------------------------------------------------------
(***************************************************************************)
(* Properties.                                                             *)
(***************************************************************************)

(* Every step of run_job is a step of the queue or none of its business:     *)
(* what JobQueue promises holds with real agent runs inside.                 *)
ImplementsQueue == Spec

RunsOf(j) == {r \in RunId : runs[r].job = j}

(* "Entrega repetida nao executa duas vezes" (docs/01-arquitetura.md:130): a *)
(* job is billed once and its work is delivered once, however often it is    *)
(* requeued, retried or interrupted.                                         *)
BilledAndDeliveredOnce ==
  \A q, r \in billed \cup delivered : runs[q].job = runs[r].job => q = r

(* Nothing is delivered that was not billed: the run is closed first.        *)
DeliveredWasBilled == delivered \subseteq billed

(* A job that is done was billed for exactly one run, and that run's work    *)
(* was delivered; a job that failed was billed for none and delivered none.  *)
(* It holds under the lease, without faults.                                 *)
DoneExactlyOnce ==
  \A j \in Job :
    /\ status[j] = "done" => \E r \in RunsOf(j) : /\ billed \cap RunsOf(j) = {r}
                                                 /\ delivered \cap RunsOf(j) = {r}
    /\ status[j] = "failed" => RunsOf(j) \cap (billed \cup delivered) = {}

(* "O cliente nao paga cota por trabalho que nao foi entregue"               *)
(* (orchestrator/runner.py:125-126): a unit billed for nothing takes a crash *)
(* or a broken transaction, one for each such unit.                          *)
BilledForNothingNeedsFault ==
  LET inHand == {mine[w] : w \in {v \in Worker : step[v] = "commit"}}
  IN Cardinality(billed \ (delivered \cup inHand)) <= faults + breaks

(* A job is not marked done without anything having been done: an execution  *)
(* left behind is not taken for a delivery (orchestrator/runner.py:168-173). *)
DoneWasDelivered ==
  \A j \in Job : status[j] = "done" => RunsOf(j) \cap delivered # {}

(* The check and the bill are apart, so "a conta e exata"                    *)
(* (services/usage.py:120) up to the runs in flight at the same time: the    *)
(* quota is overshot by less than one unit for each worker.                  *)
BudgetOvershootIsBounded == UnitsUsed <= UnitsLimit + Cardinality(Worker) - 1

(* A submitted agent job is over in the end, whatever crashes and breaks.    *)
JobSettles == \A j \in Job : status[j] = "pending" ~> status[j] \in {"done", "failed"}

=============================================================================
