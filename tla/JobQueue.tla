------------------------------ MODULE JobQueue ------------------------------
(***************************************************************************)
(* The work queue of the platform: the table `jobs` with the operations of *)
(* app/services/jobs.py (enqueue, claim_next, complete, fail,              *)
(* requeue_stale) and the worker processes of app/workers/runner.py that   *)
(* drive it (agendar_periodicos, ciclo, main).                             *)
(*                                                                         *)
(* One action is one database transaction, or the part of a transaction    *)
(* between two reads that other sessions can come between (READ COMMITTED, *)
(* no row lock).  The exception is ClaimNext, which FOR UPDATE SKIP LOCKED *)
(* makes atomic.  What a job does when it runs is left to AgentRuns; here  *)
(* executing ends in one of the three ways ciclo tells apart.              *)
(*                                                                         *)
(* Time: one Tick is a stretch of clock time.  Only two comparisons of the *)
(* code read the clock, so only they are kept: how long ago a row was      *)
(* reserved (age, against STALE_AFTER) and whether run_at has come         *)
(* (deferred, and the order `before` of the rows whose time has come).     *)
(***************************************************************************)
EXTENDS Integers, FiniteSets

CONSTANTS
  Job,          \* row ids of the table; an "absent" row is an unused id
  Worker,       \* worker processes (python -m app.workers.runner)
  Client,       \* other sessions that enqueue: API requests, sequences.tick
  Key,          \* pairs (tenant, dedupe_key)
  Periodic,     \* the keys that agendar_periodicos enqueues
  NoKey,        \* a job without dedupe_key; also "no key chosen"
  NoJob,        \* a worker that holds no job
  MaxAttempts,  \* max_attempts of a job that is not periodic
  StaleAfter,   \* STALE_AFTER, in ticks
  MaxExec,      \* longest time from claim to record when Overrun is FALSE
  Overrun,      \* TRUE: a job may take longer than any bound
  MaxFaults     \* bound on crashes and failed transactions in a behaviour

ASSUME ConstantsAssumption ==
  /\ Periodic \subseteq Key
  /\ NoKey \notin Key
  /\ NoJob \notin Job
  /\ MaxAttempts \in Nat \ {0}
  /\ StaleAfter \in Nat
  /\ MaxExec \in Nat
  /\ Overrun \in BOOLEAN
  /\ MaxFaults \in Nat

VARIABLES
  status,    \* Job.status of each row
  key,       \* Job.dedupe_key
  attempts,  \* Job.attempts, exact up to MaxAttempts + 1 and saturated there
  age,       \* ticks since Job.started_at, saturated at StaleAfter + 1
  deferred,  \* pending rows whose run_at has not come yet
  before,    \* <<i, j>>: i and j are due and run_at of i is earlier
  pc,        \* where each worker is in main and ciclo
  held,      \* the job a worker took out of the queue (dados)
  spent,     \* ticks since that claim, saturated at MaxExec
  todo,      \* periodic keys still to visit in agendar_periodicos
  chosen,    \* key found free by an enqueuer whose INSERT has not committed
  stale,     \* rows requeue_stale has read and not yet written (presos)
  returned,  \* history: some execution of the job returned normally
  faults     \* crashes and failed transactions so far

rowVars    == <<status, key, attempts, age, deferred, before>>
workerVars == <<pc, held, spent, todo, stale>>
vars == <<status, key, attempts, age, deferred, before,
          pc, held, spent, todo, chosen, stale, returned, faults>>

Status == {"absent", "pending", "running", "done", "failed"}

Place == {"start", "periodic", "requeue", "stale", "claim",
          "exec", "executed", "raised", "refused"}

\* The places of ciclo at which the worker answers for a job.
Holding == {"exec", "executed", "raised", "refused"}

Capped(n, cap) == IF n < cap THEN n + 1 ELSE cap

Live(k) == \E j \in Job : key[j] = k /\ status[j] \in {"pending", "running"}

MaxOf(j) == IF key[j] \in Periodic THEN 1 ELSE MaxAttempts

\* Pending rows whose run_at has come.
Due == {j \in Job : status[j] = "pending" /\ j \notin deferred}

\* Ids a new row may take: ids are uuids, so never one somebody still refers to.
Unused == {j \in Job : /\ status[j] = "absent"
                       /\ \A w \in Worker : held[w] # j /\ j \notin stale[w]}

Busy(w) == pc[w] \in Holding

\* Something fails that the code only guards against.
Fault == /\ faults < MaxFaults
         /\ faults' = faults + 1

TypeOK ==
  /\ status \in [Job -> Status]
  /\ key \in [Job -> Key \cup {NoKey}]
  /\ attempts \in [Job -> 0 .. MaxAttempts + 1]
  /\ age \in [Job -> 0 .. StaleAfter + 1]
  /\ deferred \subseteq Job
  /\ before \subseteq Job \X Job
  /\ pc \in [Worker -> Place]
  /\ held \in [Worker -> Job \cup {NoJob}]
  /\ spent \in [Worker -> 0 .. MaxExec]
  /\ todo \in [Worker -> SUBSET Periodic]
  /\ chosen \in [Worker \cup Client -> Key \cup {NoKey}]
  /\ stale \in [Worker -> SUBSET Job]
  /\ returned \in [Job -> BOOLEAN]
  /\ faults \in 0 .. MaxFaults

Init ==
  /\ status = [j \in Job |-> "absent"]
  /\ key = [j \in Job |-> NoKey]
  /\ attempts = [j \in Job |-> 0]
  /\ age = [j \in Job |-> 0]
  /\ deferred = {}
  /\ before = {}
  /\ pc = [w \in Worker |-> "start"]
  /\ held = [w \in Worker |-> NoJob]
  /\ spent = [w \in Worker |-> 0]
  /\ todo = [w \in Worker |-> {}]
  /\ chosen = [e \in Worker \cup Client |-> NoKey]
  /\ stale = [w \in Worker |-> {}]
  /\ returned = [j \in Job |-> FALSE]
  /\ faults = 0

-----------------------------------------------------------------------------
(***************************************************************************)
(* The order of run_at among due rows.                                     *)
(***************************************************************************)

\* `before` without the rows of S.
Without(S) == {p \in before : p[1] \notin S /\ p[2] \notin S}

\* The rows of S become due now, after every row that is due already.
DueNow(S) == Without(S) \cup ((Due \ S) \X S)

-----------------------------------------------------------------------------
(***************************************************************************)
(* enqueue: the SELECT of the dedupe key and the INSERT are two steps, and *)
(* the row is visible to other sessions only when its session commits.     *)
(* An absent id carries the column defaults of Job already (Init, Purge).  *)
(***************************************************************************)

\* Mutant: the SELECT of enqueue looks at waiting rows only.
LivePendingOnly(k) == \E j \in Job : key[j] = k /\ status[j] = "pending"

Existente(k) == Live(k)

Insert(j, k) ==
  /\ j \in Unused
  /\ status' = [status EXCEPT ![j] = "pending"]
  /\ key' = [key EXCEPT ![j] = k]
  /\ before' = DueNow({j})
  /\ UNCHANGED <<attempts, age, deferred, returned>>

\* A session enqueues with a dedupe key that nobody has in the queue.
EnqueueCheck(c, k) ==
  /\ chosen[c] = NoKey
  /\ ~Existente(k)
  /\ chosen' = [chosen EXCEPT ![c] = k]
  /\ UNCHANGED <<rowVars, workerVars, returned, faults>>

EnqueueInsert(c) ==
  /\ chosen[c] # NoKey
  /\ \E j \in Job : Insert(j, chosen[c])
  /\ chosen' = [chosen EXCEPT ![c] = NoKey]
  /\ UNCHANGED <<workerVars, faults>>

\* The request fails before its session commits.
EnqueueRollback(c) ==
  /\ chosen[c] # NoKey
  /\ chosen' = [chosen EXCEPT ![c] = NoKey]
  /\ UNCHANGED <<rowVars, workerVars, returned, faults>>

\* enqueue without a dedupe key: no SELECT, always a new row.
EnqueueKeyless(c) ==
  /\ chosen[c] = NoKey
  /\ \E j \in Job : Insert(j, NoKey)
  /\ UNCHANGED <<workerVars, chosen, faults>>

-----------------------------------------------------------------------------
(***************************************************************************)
(* main and agendar_periodicos.  The interval of five minutes is the       *)
(* choice at "start".  A tenant is represented by one of the kinds it      *)
(* enqueues, so visiting a key is visiting the session of a tenant.        *)
(***************************************************************************)

BeginPeriodic(w) ==
  /\ pc[w] = "start"
  /\ pc' = [pc EXCEPT ![w] = "periodic"]
  /\ todo' = [todo EXCEPT ![w] = Periodic]
  /\ UNCHANGED <<rowVars, held, spent, chosen, stale, returned, faults>>

SkipPeriodic(w) ==
  /\ pc[w] = "start"
  /\ pc' = [pc EXCEPT ![w] = "requeue"]
  /\ UNCHANGED <<rowVars, held, spent, todo, chosen, stale, returned, faults>>

PeriodicCheck(w) ==
  /\ pc[w] = "periodic"
  /\ chosen[w] = NoKey
  /\ \E k \in todo[w] :
       /\ todo' = [todo EXCEPT ![w] = @ \ {k}]
       /\ chosen' = [chosen EXCEPT ![w] = IF Existente(k) THEN NoKey ELSE k]
  /\ UNCHANGED <<rowVars, pc, held, spent, stale, returned, faults>>

PeriodicInsert(w) ==
  /\ pc[w] = "periodic"
  /\ chosen[w] # NoKey
  /\ \E j \in Job : Insert(j, chosen[w])
  /\ chosen' = [chosen EXCEPT ![w] = NoKey]
  /\ UNCHANGED <<workerVars, faults>>

\* The session of one tenant fails: logged, and the next tenant is visited.  A
\* full table, which only a finite Job can be, is one such failure.
PeriodicFails(w) ==
  /\ pc[w] = "periodic"
  /\ chosen[w] # NoKey
  /\ Fault \/ (Unused = {} /\ UNCHANGED faults)
  /\ chosen' = [chosen EXCEPT ![w] = NoKey]
  /\ UNCHANGED <<rowVars, workerVars, returned>>

EndPeriodic(w) ==
  /\ pc[w] = "periodic"
  /\ todo[w] = {}
  /\ chosen[w] = NoKey
  /\ pc' = [pc EXCEPT ![w] = "requeue"]
  /\ UNCHANGED <<rowVars, held, spent, todo, chosen, stale, returned, faults>>

-----------------------------------------------------------------------------
(***************************************************************************)
(* requeue_stale: a SELECT without FOR UPDATE, then one UPDATE by id per   *)
(* row that was read, whatever the row has become in between.              *)
(***************************************************************************)

\* Mutant: a row is given up one tick before STALE_AFTER has passed.
PresoCedo(j) == status[j] = "running" /\ age[j] >= StaleAfter

\* Mutant: the SELECT forgets the status.
PresoSemStatus(j) == age[j] > StaleAfter

\* Mutant: nothing is ever considered stuck.
PresoNunca(j) == FALSE

Preso(j) == status[j] = "running" /\ age[j] > StaleAfter

SelectStale(w) ==
  /\ pc[w] = "requeue"
  /\ stale' = [stale EXCEPT ![w] = {j \in Job : Preso(j)}]
  /\ pc' = [pc EXCEPT ![w] = "stale"]
  /\ UNCHANGED <<rowVars, held, spent, todo, chosen, returned, faults>>

RequeueStale(w) ==
  /\ pc[w] = "stale"
  /\ \A j \in stale[w] : status[j] # "absent"
  /\ status' = [j \in Job |-> IF j \in stale[w] THEN "pending" ELSE status[j]]
  /\ deferred' = deferred \ stale[w]
  /\ before' = DueNow(stale[w])
  /\ stale' = [stale EXCEPT ![w] = {}]
  /\ pc' = [pc EXCEPT ![w] = "claim"]
  /\ UNCHANGED <<key, attempts, age, held, spent, todo, chosen, returned, faults>>

\* A row that was read has been deleted: the UPDATE matches nothing, the
\* transaction is undone and main starts the next cycle.
RequeueMissesRow(w) ==
  /\ pc[w] = "stale"
  /\ \E j \in stale[w] : status[j] = "absent"
  /\ stale' = [stale EXCEPT ![w] = {}]
  /\ pc' = [pc EXCEPT ![w] = "start"]
  /\ UNCHANGED <<rowVars, held, spent, todo, chosen, returned, faults>>

-----------------------------------------------------------------------------
(***************************************************************************)
(* claim_next.                                                             *)
(***************************************************************************)

Proximo(j) == \A i \in Due : <<i, j>> \notin before

Reserved(n) == Capped(n, MaxAttempts + 1)

ClaimNext(w) ==
  /\ pc[w] = "claim"
  /\ \E j \in Due :
       /\ Proximo(j)
       /\ status' = [status EXCEPT ![j] = "running"]
       /\ attempts' = [attempts EXCEPT ![j] = Reserved(@)]
       /\ age' = [age EXCEPT ![j] = 0]
       /\ before' = Without({j})
       /\ held' = [held EXCEPT ![w] = j]
  /\ spent' = [spent EXCEPT ![w] = 0]
  /\ pc' = [pc EXCEPT ![w] = "exec"]
  /\ UNCHANGED <<key, deferred, todo, chosen, stale, returned, faults>>

\* The queue is empty: ciclo ends, main sleeps and starts over.
NothingToClaim(w) ==
  /\ pc[w] = "claim"
  /\ Due = {}
  /\ pc' = [pc EXCEPT ![w] = "start"]
  /\ UNCHANGED <<rowVars, held, spent, todo, chosen, stale, returned, faults>>

-----------------------------------------------------------------------------
(***************************************************************************)
(* executar: its session commits and it returns, or it raises.  A refusal  *)
(* is an AppError with status 402, 403 or 409 (definitivo).                *)
(***************************************************************************)

Goto(w, place) == pc' = [pc EXCEPT ![w] = place]

ExecuteReturns(w) ==
  /\ pc[w] = "exec"
  /\ Goto(w, "executed")
  /\ returned' = [returned EXCEPT ![held[w]] = status[held[w]] # "absent"]
  /\ UNCHANGED <<rowVars, held, spent, todo, chosen, stale, faults>>

ExecuteRaises(w) ==
  /\ pc[w] = "exec"
  /\ Goto(w, "raised") \/ Goto(w, "refused")
  /\ UNCHANGED <<rowVars, held, spent, todo, chosen, stale, returned, faults>>

-----------------------------------------------------------------------------
(***************************************************************************)
(* complete and fail, each in a transaction of its own after the work: the *)
(* row is read again by id and overwritten, whatever its status is.        *)
(***************************************************************************)

\* Back to the top of the loop of ciclo, with nothing in hand.
LetGo(w) ==
  /\ Goto(w, "claim")
  /\ held' = [held EXCEPT ![w] = NoJob]
  /\ spent' = [spent EXCEPT ![w] = 0]
  /\ UNCHANGED <<key, attempts, age, todo, chosen, stale, returned, faults>>

\* The row of job j ends up with status s and waits for nothing any more.
Finish(j, s) ==
  /\ status' = [status EXCEPT ![j] = s]
  /\ deferred' = deferred \ {j}
  /\ before' = Without({j})

\* Mutant: success is recorded on the way out of the except branch too.
CompleteAnyway(w) ==
  /\ pc[w] \in {"executed", "raised"}
  /\ status[held[w]] # "absent"
  /\ Finish(held[w], "done")
  /\ LetGo(w)

Complete(w) ==
  /\ pc[w] = "executed"
  /\ status[held[w]] # "absent"
  /\ Finish(held[w], "done")
  /\ LetGo(w)

\* Mutant: one attempt too many (attempts > max_attempts).
EsgotadoTarde(j) == attempts[j] > MaxOf(j)

Esgotado(j) == attempts[j] >= MaxOf(j)

FailForGood(w) ==
  /\ \/ pc[w] = "refused"
     \/ pc[w] = "raised" /\ Esgotado(held[w])
  /\ status[held[w]] # "absent"
  /\ Finish(held[w], "failed")
  /\ LetGo(w)

FailRetry(w) ==
  /\ pc[w] = "raised"
  /\ ~Esgotado(held[w])
  /\ status[held[w]] # "absent"
  /\ status' = [status EXCEPT ![held[w]] = "pending"]
  /\ deferred' = deferred \cup {held[w]}
  /\ before' = Without({held[w]})
  /\ LetGo(w)

\* registro is None: the row is gone, there is nothing to record.
RowVanished(w) ==
  /\ pc[w] \in {"executed", "raised", "refused"}
  /\ status[held[w]] = "absent"
  /\ UNCHANGED <<status, deferred, before>>
  /\ LetGo(w)

-----------------------------------------------------------------------------
(***************************************************************************)
(* Faults.                                                                 *)
(***************************************************************************)

\* The process dies (SIGKILL, container recycled) and is started again, or an
\* exception outside the guards of ciclo brings main to its next cycle.
Crash(w) ==
  /\ Fault
  /\ Goto(w, "start")
  /\ held' = [held EXCEPT ![w] = NoJob]
  /\ spent' = [spent EXCEPT ![w] = 0]
  /\ todo' = [todo EXCEPT ![w] = {}]
  /\ chosen' = [chosen EXCEPT ![w] = NoKey]
  /\ stale' = [stale EXCEPT ![w] = {}]
  /\ UNCHANGED <<rowVars, returned>>

\* The transaction that records the success fails inside the try: what was
\* done is treated as a failure that may be retried.
CompleteBreaks(w) ==
  /\ Fault
  /\ pc[w] = "executed"
  /\ Goto(w, "raised")
  /\ UNCHANGED <<rowVars, held, spent, todo, chosen, stale, returned>>

\* The transaction that records the failure fails: logged, and the row stays
\* reserved with nobody behind it.
RecordBreaks(w) ==
  /\ Fault
  /\ pc[w] \in {"raised", "refused"}
  /\ Goto(w, "claim")
  /\ held' = [held EXCEPT ![w] = NoJob]
  /\ spent' = [spent EXCEPT ![w] = 0]
  /\ UNCHANGED <<rowVars, todo, chosen, stale, returned>>

-----------------------------------------------------------------------------
(***************************************************************************)
(* The clock, and retention.                                               *)
(***************************************************************************)

\* Time passes.  Unless Overrun, no worker keeps a job longer than MaxExec.
Tick ==
  /\ Overrun \/ \A w \in Worker : Busy(w) => spent[w] < MaxExec
  /\ age' = [j \in Job |-> IF status[j] = "running"
                           THEN Capped(age[j], StaleAfter + 1) ELSE age[j]]
  /\ spent' = [w \in Worker |-> IF Busy(w) THEN Capped(spent[w], MaxExec)
                                           ELSE spent[w]]
  /\ UNCHANGED <<status, key, attempts, deferred, before, pc, held, todo,
                 chosen, stale, returned, faults>>

\* The run_at that fail set has come.
BackoffExpires(j) ==
  /\ j \in deferred
  /\ deferred' = deferred \ {j}
  /\ before' = DueNow({j})
  /\ UNCHANGED <<status, key, attempts, age, workerVars, chosen, returned, faults>>

\* retencao deletes a finished row past the retention period; its id is unused.
Purge(j) ==
  /\ status[j] \in {"done", "failed"}
  /\ status' = [status EXCEPT ![j] = "absent"]
  /\ key' = [key EXCEPT ![j] = NoKey]
  /\ attempts' = [attempts EXCEPT ![j] = 0]
  /\ age' = [age EXCEPT ![j] = 0]
  /\ returned' = [returned EXCEPT ![j] = FALSE]
  /\ UNCHANGED <<deferred, before, workerVars, chosen, faults>>

-----------------------------------------------------------------------------
ClientStep(c) ==
  \/ \E k \in Key \ Periodic : EnqueueCheck(c, k)
  \/ EnqueueInsert(c)
  \/ EnqueueRollback(c)
  \/ EnqueueKeyless(c)

\* ciclo and main up to the claim, and what ciclo does after executar.
LoopStep(w) ==
  \/ BeginPeriodic(w) \/ SkipPeriodic(w)
  \/ PeriodicCheck(w) \/ PeriodicInsert(w) \/ PeriodicFails(w) \/ EndPeriodic(w)
  \/ SelectStale(w) \/ RequeueStale(w) \/ RequeueMissesRow(w)
  \/ ClaimNext(w) \/ NothingToClaim(w)
  \/ Complete(w) \/ FailForGood(w) \/ FailRetry(w) \/ RowVanished(w)

ExecuteStep(w) == ExecuteReturns(w) \/ ExecuteRaises(w)

FaultStep(w) == Crash(w) \/ CompleteBreaks(w) \/ RecordBreaks(w)

Next ==
  \/ \E c \in Client : ClientStep(c)
  \/ \E w \in Worker : LoopStep(w) \/ ExecuteStep(w) \/ FaultStep(w)
  \/ \E j \in Job : BackoffExpires(j) \/ Purge(j)
  \/ Tick

Spec == Init /\ [][Next]_vars

(***************************************************************************)
(* Fairness.  A worker process keeps running (restart: unless-stopped) and *)
(* every execution ends; the five minutes of INTERVALO_PERIODICO keep      *)
(* coming round; the clock advances, so backoffs expire.  Purge is fair    *)
(* because ids are uuids: the finite Job must not run out.  Clients and    *)
(* faults are not fair.                                                    *)
(***************************************************************************)
Fairness ==
  /\ \A w \in Worker : /\ WF_vars(LoopStep(w) \/ ExecuteStep(w))
                       /\ SF_vars(BeginPeriodic(w))
  /\ \A j \in Job : WF_vars(BackoffExpires(j)) /\ WF_vars(Purge(j))
  /\ WF_vars(Tick)

FairSpec == Spec /\ Fairness

-----------------------------------------------------------------------------
(***************************************************************************)
(* Properties.                                                             *)
(***************************************************************************)

(* A job marked done has been executed: some executar for this row returned  *)
(* normally before, whatever was requeued, retried, lost or raced meanwhile. *)
DoneWasExecuted == \A j \in Job : status[j] = "done" => returned[j]

(* Two workers side by side never have the same job in hand (jobs.py:3-5).   *)
(* It holds when no execution outlives STALE_AFTER and nothing crashes.      *)
NoDoubleExecution ==
  \A v, w \in Worker : Busy(v) /\ Busy(w) /\ held[v] = held[w] => v = w

(* A job is reserved at most max_attempts times: claims that end in a retry, *)
(* in a stale requeue or in a success all count.                             *)
AttemptsWithinMax == \A j \in Job : attempts[j] <= MaxOf(j)

(* Two jobs with the same tenant and dedupe_key are never both in the queue  *)
(* (jobs.py:11-13).  It holds when only one session enqueues a key at a time.*)
UniqueLiveKey ==
  \A i, j \in Job :
    /\ key[i] = key[j] /\ key[i] # NoKey
    /\ status[i] \in {"pending", "running"}
    /\ status[j] \in {"pending", "running"}
    => i = j

(* A job that is done or failed stays so until retention deletes the row: no *)
(* late worker takes it back into the queue.                                 *)
FinishedIsFinal ==
  [][\A j \in Job : status[j] \in {"done", "failed"} =>
                      status'[j] \in {status[j], "absent"}]_vars

(* A reservation is taken from a worker only when it is older than           *)
(* STALE_AFTER: while younger, the row leaves "running" by the hand of a     *)
(* worker that holds it.                                                     *)
YoungReservationIsKept ==
  [][\A j \in Job : status[j] = "running" /\ age[j] <= StaleAfter /\ status'[j] # "running"
       => \E w \in Worker : held[w] = j /\ held'[w] # j]_vars

(* A key is used by one row only, for as long as the row is in the table: the*)
(* dedupe key of the retention job carries the date, so that "o segundo job  *)
(* do mesmo dia nao e criado" (workers/runner.py:144-148).                   *)
KeyIsUsedOnce ==
  [][\A j \in Job : status[j] = "absent" /\ status'[j] = "pending" /\ key'[j] # NoKey
       => \A i \in Job : status[i] # "absent" => key[i] # key'[j]]_vars

Orphan(j) == status[j] = "running" /\ \A w \in Worker : held[w] # j

(* A reservation whose worker died or could not record its failure does not  *)
(* stay reserved for ever (requeue_stale, jobs.py:139-140).                  *)
OrphanIsRecovered == \A j \in Job : Orphan(j) ~> ~Orphan(j)

(* Every periodic work of every tenant is started again and again: a failed, *)
(* orphaned or slow job never blocks its own key for good.                   *)
PeriodicKeepsRunning ==
  \A k \in Periodic : []<>(\E w \in Worker : pc[w] = "exec" /\ key[held[w]] = k)

=============================================================================
