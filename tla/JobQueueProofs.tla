--------------------------- MODULE JobQueueProofs ---------------------------
(***************************************************************************)
(* Theorems about JobQueue, for every set of rows, workers, clients and    *)
(* keys and every bound.                                                   *)
(***************************************************************************)
EXTENDS JobQueue, TLAPS

-----------------------------------------------------------------------------
(***************************************************************************)
(* The order `before` and the saturated counters.                          *)
(***************************************************************************)

LEMMA CappedType ==
  ASSUME NEW cap \in Nat, NEW n \in 0 .. cap
  PROVE  /\ Capped(n, cap) \in 0 .. cap
         /\ n < cap => Capped(n, cap) = n + 1
BY DEF Capped

LEMMA WithoutType ==
  ASSUME before \subseteq Job \X Job, NEW S
  PROVE  Without(S) \subseteq Job \X Job
BY DEF Without

LEMMA DueNowType ==
  ASSUME before \subseteq Job \X Job, NEW S \in SUBSET Job
  PROVE  DueNow(S) \subseteq Job \X Job
BY WithoutType DEF DueNow, Due

-----------------------------------------------------------------------------
(***************************************************************************)
(* Type correctness.                                                       *)
(***************************************************************************)

LEMMA InitType == Init => TypeOK
BY ConstantsAssumption DEF Init, TypeOK, Status, Place

LEMMA ClientType ==
  ASSUME TypeOK, NEW c \in Client, ClientStep(c)
  PROVE  TypeOK'
<1>1. ASSUME NEW k \in Key \ Periodic, EnqueueCheck(c, k)
      PROVE  TypeOK'
  BY <1>1 DEF EnqueueCheck, TypeOK, rowVars, workerVars
<1>2. ASSUME EnqueueInsert(c)
      PROVE  TypeOK'
  <2>1. PICK j \in Job : Insert(j, chosen[c])
    BY <1>2 DEF EnqueueInsert
  <2>2. chosen[c] \in Key \cup {NoKey}
    BY DEF TypeOK
  <2>3. before' \subseteq Job \X Job
    BY <2>1, DueNowType DEF Insert, TypeOK
  <2> QED
    BY <1>2, <2>1, <2>2, <2>3
    DEF EnqueueInsert, Insert, TypeOK, Status, workerVars
<1>3. ASSUME EnqueueRollback(c)
      PROVE  TypeOK'
  BY <1>3 DEF EnqueueRollback, TypeOK, rowVars, workerVars
<1>4. ASSUME EnqueueKeyless(c)
      PROVE  TypeOK'
  <2>1. PICK j \in Job : Insert(j, NoKey)
    BY <1>4 DEF EnqueueKeyless
  <2>2. before' \subseteq Job \X Job
    BY <2>1, DueNowType DEF Insert, TypeOK
  <2> QED
    BY <1>4, <2>1, <2>2 DEF EnqueueKeyless, Insert, TypeOK, Status, workerVars
<1> QED
  BY <1>1, <1>2, <1>3, <1>4 DEF ClientStep

LEMMA PeriodicType ==
  ASSUME TypeOK, NEW w \in Worker,
         \/ BeginPeriodic(w) \/ SkipPeriodic(w) \/ PeriodicCheck(w)
         \/ PeriodicInsert(w) \/ PeriodicFails(w) \/ EndPeriodic(w)
  PROVE  TypeOK'
<1>1. CASE BeginPeriodic(w) \/ SkipPeriodic(w) \/ EndPeriodic(w)
  BY <1>1 DEF BeginPeriodic, SkipPeriodic, EndPeriodic, TypeOK, rowVars, Place
<1>2. CASE PeriodicCheck(w)
  BY <1>2, ConstantsAssumption DEF PeriodicCheck, TypeOK, rowVars
<1>3. CASE PeriodicInsert(w)
  <2>1. PICK j \in Job : Insert(j, chosen[w])
    BY <1>3 DEF PeriodicInsert
  <2>2. chosen[w] \in Key \cup {NoKey}
    BY DEF TypeOK
  <2>3. before' \subseteq Job \X Job
    BY <2>1, DueNowType DEF Insert, TypeOK
  <2> QED
    BY <1>3, <2>1, <2>2, <2>3
    DEF PeriodicInsert, Insert, TypeOK, Status, workerVars
<1>4. CASE PeriodicFails(w)
  BY <1>4, ConstantsAssumption
  DEF PeriodicFails, Fault, TypeOK, rowVars, workerVars
<1> QED
  BY <1>1, <1>2, <1>3, <1>4

LEMMA StaleType ==
  ASSUME TypeOK, NEW w \in Worker,
         SelectStale(w) \/ RequeueStale(w) \/ RequeueMissesRow(w)
  PROVE  TypeOK'
<1>1. CASE SelectStale(w)
  BY <1>1 DEF SelectStale, TypeOK, rowVars, Place
<1>2. CASE RequeueStale(w)
  <2>1. before' \subseteq Job \X Job
    BY <1>2, DueNowType DEF RequeueStale, TypeOK
  <2> QED
    BY <1>2, <2>1 DEF RequeueStale, TypeOK, Status, Place
<1>3. CASE RequeueMissesRow(w)
  BY <1>3 DEF RequeueMissesRow, TypeOK, rowVars, Place
<1> QED
  BY <1>1, <1>2, <1>3

LEMMA ClaimType ==
  ASSUME TypeOK, NEW w \in Worker, ClaimNext(w) \/ NothingToClaim(w)
  PROVE  TypeOK'
<1>1. CASE ClaimNext(w)
  <2>1. PICK j \in Due : /\ status' = [status EXCEPT ![j] = "running"]
                         /\ attempts' = [attempts EXCEPT ![j] = Reserved(@)]
                         /\ age' = [age EXCEPT ![j] = 0]
                         /\ before' = Without({j})
                         /\ held' = [held EXCEPT ![w] = j]
    BY <1>1 DEF ClaimNext
  <2>2. j \in Job
    BY DEF Due
  <2>3. Reserved(attempts[j]) \in 0 .. MaxAttempts + 1
    BY <2>2, ConstantsAssumption, CappedType DEF Reserved, TypeOK
  <2>4. status' \in [Job -> Status] /\ attempts' \in [Job -> 0 .. MaxAttempts + 1]
    BY <2>1, <2>2, <2>3 DEF TypeOK, Status
  <2>5. age' \in [Job -> 0 .. StaleAfter + 1]
    BY <2>1, <2>2, ConstantsAssumption DEF TypeOK
  <2>6. before' \subseteq Job \X Job
    BY <2>1, WithoutType DEF TypeOK
  <2>7. held' \in [Worker -> Job \cup {NoJob}]
    BY <2>1, <2>2 DEF TypeOK
  <2>8. /\ spent' \in [Worker -> 0 .. MaxExec]
        /\ pc' \in [Worker -> Place]
        /\ UNCHANGED <<key, deferred, todo, chosen, stale, returned, faults>>
    BY <1>1, ConstantsAssumption DEF ClaimNext, TypeOK, Place
  <2> QED
    BY <2>4, <2>5, <2>6, <2>7, <2>8 DEF TypeOK
<1>2. CASE NothingToClaim(w)
  BY <1>2 DEF NothingToClaim, TypeOK, rowVars, Place
<1> QED
  BY <1>1, <1>2

\* A worker that answers for a job holds one.
HoldsOne == \A w \in Worker : Busy(w) <=> held[w] # NoJob

LEMMA RecordType ==
  ASSUME TypeOK, HoldsOne, NEW w \in Worker,
         Complete(w) \/ FailForGood(w) \/ FailRetry(w) \/ RowVanished(w)
  PROVE  TypeOK'
<1>1. held[w] \in Job
  BY DEF HoldsOne, Busy, Holding, TypeOK, Complete, FailForGood, FailRetry, RowVanished
<1>2. LetGo(w)
  BY DEF Complete, FailForGood, FailRetry, RowVanished
<1>3. /\ status' \in [Job -> Status]
      /\ deferred' \subseteq Job
      /\ before' \subseteq Job \X Job
  BY <1>1, WithoutType
  DEF Complete, FailForGood, FailRetry, RowVanished, Finish, TypeOK, Status
<1> QED
  BY <1>2, <1>3, ConstantsAssumption DEF LetGo, Goto, TypeOK, Place

LEMMA ExecuteType ==
  ASSUME TypeOK, HoldsOne, NEW w \in Worker, ExecuteStep(w)
  PROVE  TypeOK'
BY DEF ExecuteStep, ExecuteReturns, ExecuteRaises, Goto, TypeOK, Place, rowVars

LEMMA FaultType ==
  ASSUME TypeOK, NEW w \in Worker, FaultStep(w)
  PROVE  TypeOK'
BY ConstantsAssumption
DEF FaultStep, Crash, CompleteBreaks, RecordBreaks, Fault, Goto, TypeOK, Place, rowVars

LEMMA ClockType ==
  ASSUME TypeOK, Tick \/ \E j \in Job : BackoffExpires(j) \/ Purge(j)
  PROVE  TypeOK'
<1>1. CASE Tick
  <2>1. \A j \in Job : Capped(age[j], StaleAfter + 1) \in 0 .. StaleAfter + 1
    BY ConstantsAssumption, CappedType DEF TypeOK
  <2>2. \A w \in Worker : Capped(spent[w], MaxExec) \in 0 .. MaxExec
    BY ConstantsAssumption, CappedType DEF TypeOK
  <2> QED
    BY <1>1, <2>1, <2>2 DEF Tick, TypeOK
<1>2. ASSUME NEW j \in Job, BackoffExpires(j)
      PROVE  TypeOK'
  <2>1. before' \subseteq Job \X Job
    BY <1>2, DueNowType DEF BackoffExpires, TypeOK
  <2> QED
    BY <1>2, <2>1 DEF BackoffExpires, TypeOK, workerVars
<1>3. ASSUME NEW j \in Job, Purge(j)
      PROVE  TypeOK'
  BY <1>3, ConstantsAssumption DEF Purge, TypeOK, workerVars, Status
<1> QED
  BY <1>1, <1>2, <1>3

\* What holds of every worker and its job at any time, faults or not.
HoldInv == TypeOK /\ HoldsOne

LEMMA HoldInit == Init => HoldInv
BY InitType, ConstantsAssumption DEF HoldInv, HoldsOne, Init, Busy, Holding

LEMMA HoldStep == HoldInv /\ [Next]_vars => HoldInv'
<1> SUFFICES ASSUME HoldInv, [Next]_vars
             PROVE  HoldInv'
  OBVIOUS
<1> USE DEF HoldInv
<1>1. ASSUME NEW c \in Client, ClientStep(c)
      PROVE  HoldInv'
  <2>1. UNCHANGED <<pc, held>>
    BY <1>1 DEF ClientStep, EnqueueCheck, EnqueueInsert, EnqueueRollback,
                EnqueueKeyless, workerVars
  <2> QED
    BY <1>1, <2>1, ClientType DEF HoldsOne, Busy
<1>2. ASSUME NEW w \in Worker, LoopStep(w)
      PROVE  HoldInv'
  <2>1. CASE \/ BeginPeriodic(w) \/ SkipPeriodic(w) \/ PeriodicCheck(w)
             \/ PeriodicInsert(w) \/ PeriodicFails(w) \/ EndPeriodic(w)
    <3>1. HoldsOne'
      BY <2>1 DEF BeginPeriodic, SkipPeriodic, PeriodicCheck, PeriodicInsert,
                  PeriodicFails, EndPeriodic, workerVars, HoldsOne, Busy, Holding,
                  TypeOK
    <3> QED
      BY <2>1, <3>1, PeriodicType
  <2>2. CASE SelectStale(w) \/ RequeueStale(w) \/ RequeueMissesRow(w)
    <3>1. HoldsOne'
      BY <2>2 DEF SelectStale, RequeueStale, RequeueMissesRow, HoldsOne, Busy,
                  Holding, TypeOK
    <3> QED
      BY <2>2, <3>1, StaleType
  <2>3. CASE ClaimNext(w) \/ NothingToClaim(w)
    <3>1. \/ \E j \in Job : held' = [held EXCEPT ![w] = j] /\ Goto(w, "exec")
          \/ UNCHANGED held /\ Goto(w, "start") /\ pc[w] = "claim"
      BY <2>3 DEF ClaimNext, NothingToClaim, Due, Goto
    <3>2. HoldsOne'
      BY <3>1, ConstantsAssumption DEF Goto, HoldsOne, Busy, Holding, TypeOK
    <3> QED
      BY <2>3, <3>2, ClaimType
  <2>4. CASE Complete(w) \/ FailForGood(w) \/ FailRetry(w) \/ RowVanished(w)
    <3>1. LetGo(w)
      BY <2>4 DEF Complete, FailForGood, FailRetry, RowVanished
    <3>2. HoldsOne'
      BY <3>1 DEF LetGo, Goto, HoldsOne, Busy, Holding, TypeOK
    <3> QED
      BY <2>4, <3>2, RecordType
  <2> QED
    BY <1>2, <2>1, <2>2, <2>3, <2>4 DEF LoopStep
<1>3. ASSUME NEW w \in Worker, ExecuteStep(w)
      PROVE  HoldInv'
  <2>1. HoldsOne'
    BY <1>3 DEF ExecuteStep, ExecuteReturns, ExecuteRaises, Goto, HoldsOne, Busy,
                Holding, TypeOK
  <2> QED
    BY <1>3, <2>1, ExecuteType
<1>4. ASSUME NEW w \in Worker, FaultStep(w)
      PROVE  HoldInv'
  <2>1. HoldsOne'
    BY <1>4 DEF FaultStep, Crash, CompleteBreaks, RecordBreaks, Goto, HoldsOne,
                Busy, Holding, TypeOK
  <2> QED
    BY <1>4, <2>1, FaultType
<1>5. ASSUME Tick \/ \E j \in Job : BackoffExpires(j) \/ Purge(j)
      PROVE  HoldInv'
  <2>1. UNCHANGED <<pc, held>>
    BY <1>5 DEF Tick, BackoffExpires, Purge, workerVars
  <2> QED
    BY <1>5, <2>1, ClockType DEF HoldsOne, Busy
<1>6. CASE UNCHANGED vars
  BY <1>6 DEF vars, TypeOK, HoldsOne, Busy
<1> QED
  BY <1>1, <1>2, <1>3, <1>4, <1>5, <1>6 DEF Next

(* Every variable keeps its type, in every behaviour: workers that crash,    *)
(* overlap and lose their transactions included.                             *)
THEOREM TypeCorrect == Spec => []TypeOK
<1>1. Spec => []HoldInv
  BY HoldInit, HoldStep, PTL DEF Spec
<1>2. HoldInv => TypeOK
  BY DEF HoldInv
<1> QED
  BY <1>1, <1>2, PTL

-----------------------------------------------------------------------------
(***************************************************************************)
(* Nothing is recorded as done that was not executed.                      *)
(***************************************************************************)

\* Between executar and complete the history already says "returned", unless
\* retention has deleted the row in the meantime.
DoneInv ==
  /\ DoneWasExecuted
  /\ \A w \in Worker : pc[w] = "executed" /\ status[held[w]] # "absent"
                        => returned[held[w]]

LEMMA DoneStep == HoldInv /\ DoneInv /\ [Next]_vars => DoneInv'
<1> SUFFICES ASSUME HoldInv, DoneInv, [Next]_vars
             PROVE  DoneInv'
  OBVIOUS
<1> USE DEF HoldInv, DoneInv
<1>1. ASSUME NEW j \in Job, NEW k, Insert(j, k), UNCHANGED <<pc, held>>
      PROVE  DoneInv'
  <2>1. \A w \in Worker : held[w] # j
    BY <1>1 DEF Insert, Unused
  <2> QED
    BY <1>1, <2>1 DEF Insert, DoneWasExecuted, TypeOK
<1>2. ASSUME NEW w \in Worker, UNCHANGED <<status, returned>>,
             \A v \in Worker : pc'[v] = "executed" => pc[v] = "executed" /\ held'[v] = held[v]
      PROVE  DoneInv'
  BY <1>2 DEF DoneWasExecuted
<1>3. ASSUME NEW c \in Client, ClientStep(c)
      PROVE  DoneInv'
  BY <1>1, <1>3
  DEF ClientStep, EnqueueCheck, EnqueueInsert, EnqueueRollback, EnqueueKeyless,
      workerVars, rowVars, DoneWasExecuted
<1>4. ASSUME NEW w \in Worker, LoopStep(w)
      PROVE  DoneInv'
  <2>1. CASE BeginPeriodic(w) \/ SkipPeriodic(w) \/ PeriodicCheck(w) \/ PeriodicFails(w)
             \/ EndPeriodic(w)
    BY <2>1, <1>2
    DEF BeginPeriodic, SkipPeriodic, PeriodicCheck, PeriodicFails, EndPeriodic,
        workerVars, rowVars, TypeOK
  <2>2. CASE PeriodicInsert(w)
    BY <2>2, <1>1 DEF PeriodicInsert, workerVars
  <2>3. CASE SelectStale(w) \/ RequeueMissesRow(w) \/ NothingToClaim(w)
    BY <2>3, <1>2
    DEF SelectStale, RequeueMissesRow, NothingToClaim, rowVars, TypeOK
  <2>4. CASE RequeueStale(w)
    BY <2>4 DEF RequeueStale, DoneWasExecuted, TypeOK, HoldsOne, Busy, Holding
  <2>5. CASE ClaimNext(w)
    <3>1. PICK j \in Job : /\ status[j] = "pending"
                           /\ status' = [status EXCEPT ![j] = "running"]
                           /\ held' = [held EXCEPT ![w] = j]
      BY <2>5 DEF ClaimNext, Due
    <3>2. pc' = [pc EXCEPT ![w] = "exec"] /\ returned' = returned
      BY <2>5 DEF ClaimNext
    <3> QED
      BY <3>1, <3>2 DEF DoneWasExecuted, TypeOK
  <2>6. CASE Complete(w) \/ FailForGood(w) \/ FailRetry(w) \/ RowVanished(w)
    <3>1. held[w] \in Job
      BY <2>6 DEF HoldsOne, Busy, Holding, TypeOK, Complete, FailForGood, FailRetry,
                  RowVanished
    <3>2. LetGo(w)
      BY <2>6 DEF Complete, FailForGood, FailRetry, RowVanished
    <3>3. \A j \in Job : status'[j] # "absent" => status[j] # "absent"
      BY <2>6, <3>1
      DEF Complete, FailForGood, FailRetry, RowVanished, Finish, TypeOK
    <3>4. \A j \in Job : status'[j] = "done" => returned[j]
      BY <2>6, <3>1
      DEF Complete, FailForGood, FailRetry, RowVanished, Finish, TypeOK, DoneWasExecuted
    <3> QED
      BY <3>2, <3>3, <3>4
      DEF LetGo, Goto, DoneWasExecuted, TypeOK, HoldsOne, Busy, Holding
  <2> QED
    BY <1>4, <2>1, <2>2, <2>3, <2>4, <2>5, <2>6 DEF LoopStep
<1>5. ASSUME NEW w \in Worker, ExecuteStep(w)
      PROVE  DoneInv'
  <2>1. held[w] \in Job
    BY <1>5 DEF ExecuteStep, ExecuteReturns, ExecuteRaises, HoldsOne, Busy, Holding,
                TypeOK
  <2>2. CASE ExecuteReturns(w)
    BY <2>1, <2>2
    DEF ExecuteReturns, Goto, rowVars, DoneWasExecuted, TypeOK, HoldsOne, Busy, Holding
  <2>3. CASE ExecuteRaises(w)
    BY <2>3, <1>2 DEF ExecuteRaises, Goto, rowVars, TypeOK
  <2> QED
    BY <1>5, <2>2, <2>3 DEF ExecuteStep
<1>6. ASSUME NEW w \in Worker, FaultStep(w)
      PROVE  DoneInv'
  BY <1>6, <1>2
  DEF FaultStep, Crash, CompleteBreaks, RecordBreaks, Goto, rowVars, TypeOK
<1>7. CASE Tick
  BY <1>7 DEF Tick, DoneWasExecuted
<1>8. ASSUME NEW j \in Job, BackoffExpires(j)
      PROVE  DoneInv'
  BY <1>8 DEF BackoffExpires, workerVars, DoneWasExecuted
<1>9. ASSUME NEW j \in Job, Purge(j)
      PROVE  DoneInv'
  BY <1>9 DEF Purge, workerVars, DoneWasExecuted, TypeOK
<1>10. CASE UNCHANGED vars
  BY <1>10 DEF vars, DoneWasExecuted
<1> QED
  BY <1>3, <1>4, <1>5, <1>6, <1>7, <1>8, <1>9, <1>10 DEF Next

(* A job is recorded as done only after an execution of it returned, however *)
(* many workers, crashes, overlapping executions and deleted rows there are. *)
THEOREM DoneOnlyAfterWork == Spec => []DoneWasExecuted
<1>1. Init => HoldInv /\ DoneInv
  BY HoldInit DEF Init, DoneInv, DoneWasExecuted
<1>2. HoldInv /\ DoneInv /\ [Next]_vars => (HoldInv /\ DoneInv)'
  BY HoldStep, DoneStep
<1>3. HoldInv /\ DoneInv => DoneWasExecuted
  BY DEF DoneInv
<1> QED
  BY <1>1, <1>2, <1>3, PTL DEF Spec

-----------------------------------------------------------------------------
(***************************************************************************)
(* The lease argument.  As long as nothing crashes and no worker keeps a   *)
(* job longer than STALE_AFTER, a reservation is never stale, so           *)
(* requeue_stale never acts and every running row has exactly one holder.  *)
(***************************************************************************)

LeaseAssumptions == MaxFaults = 0 /\ Overrun = FALSE /\ MaxExec <= StaleAfter

\* The age of a reservation is the time its holder has spent on it.
LeaseInv ==
  /\ \A w \in Worker : stale[w] = {}
  /\ \A w \in Worker : Busy(w) => /\ status[held[w]] = "running"
                                  /\ age[held[w]] = spent[w]
  /\ \A j \in Job : status[j] = "running" => \E w \in Worker : Busy(w) /\ held[w] = j
  /\ NoDoubleExecution

LEMMA NoFaultStep ==
  ASSUME LeaseAssumptions, TypeOK
  PROVE  /\ \A w \in Worker : ~FaultStep(w)
         /\ ~Fault
BY ConstantsAssumption
DEF LeaseAssumptions, TypeOK, FaultStep, Crash, CompleteBreaks, RecordBreaks, Fault

\* No reservation is old enough for requeue_stale.
LEMMA NothingStale ==
  ASSUME LeaseAssumptions, HoldInv, LeaseInv
  PROVE  \A j \in Job : ~Preso(j)
BY ConstantsAssumption DEF LeaseAssumptions, HoldInv, LeaseInv, TypeOK, Preso

LEMMA LeaseStep ==
  ASSUME LeaseAssumptions
  PROVE  HoldInv /\ LeaseInv /\ [Next]_vars => LeaseInv'
<1> SUFFICES ASSUME HoldInv, LeaseInv, [Next]_vars
             PROVE  LeaseInv'
  OBVIOUS
<1> USE DEF HoldInv
<1>1. ASSUME NEW j \in Job, NEW k, Insert(j, k), UNCHANGED <<pc, held, spent, stale>>
      PROVE  LeaseInv'
  BY <1>1 DEF Insert, Unused, LeaseInv, NoDoubleExecution, TypeOK, Busy
<1>2. ASSUME UNCHANGED <<status, age, held, spent, stale>>,
             \A v \in Worker : Busy(v)' <=> Busy(v)
      PROVE  LeaseInv'
  BY <1>2 DEF LeaseInv, NoDoubleExecution
<1>3. ASSUME NEW c \in Client, ClientStep(c)
      PROVE  LeaseInv'
  BY <1>1, <1>2, <1>3
  DEF ClientStep, EnqueueCheck, EnqueueInsert, EnqueueRollback, EnqueueKeyless,
      workerVars, rowVars, Busy
<1>4. ASSUME NEW w \in Worker, LoopStep(w)
      PROVE  LeaseInv'
  <2>1. CASE BeginPeriodic(w) \/ SkipPeriodic(w) \/ PeriodicCheck(w) \/ PeriodicFails(w)
             \/ EndPeriodic(w) \/ NothingToClaim(w)
    BY <2>1, <1>2
    DEF BeginPeriodic, SkipPeriodic, PeriodicCheck, PeriodicFails, EndPeriodic,
        NothingToClaim, workerVars, rowVars, TypeOK, Busy, Holding
  <2>2. CASE PeriodicInsert(w)
    BY <2>2, <1>1 DEF PeriodicInsert, workerVars
  <2>3. CASE SelectStale(w)
    <3>1. stale' = [stale EXCEPT ![w] = {}]
      BY <2>3, NothingStale DEF SelectStale
    <3> QED
      BY <2>3, <3>1 DEF SelectStale, LeaseInv, NoDoubleExecution, rowVars, TypeOK,
                        Busy, Holding
  <2>4. CASE RequeueStale(w)
    <3>1. stale[w] = {}
      BY DEF LeaseInv
    <3>2. status' = status /\ stale' = stale
      BY <2>4, <3>1 DEF RequeueStale, TypeOK
    <3>3. \A v \in Worker : Busy(v)' <=> Busy(v)
      BY <2>4 DEF RequeueStale, Busy, Holding, TypeOK
    <3> QED
      BY <2>4, <3>2, <3>3, <1>2 DEF RequeueStale
  <2>5. CASE RequeueMissesRow(w)
    BY <2>5 DEF RequeueMissesRow, LeaseInv
  <2>6. CASE ClaimNext(w)
    <3>1. PICK j \in Job : /\ status[j] = "pending"
                           /\ status' = [status EXCEPT ![j] = "running"]
                           /\ age' = [age EXCEPT ![j] = 0]
                           /\ held' = [held EXCEPT ![w] = j]
      BY <2>6 DEF ClaimNext, Due
    <3>2. /\ pc[w] = "claim"
          /\ pc' = [pc EXCEPT ![w] = "exec"]
          /\ spent' = [spent EXCEPT ![w] = 0]
          /\ stale' = stale
      BY <2>6 DEF ClaimNext
    <3>3. \A v \in Worker : Busy(v)' <=> Busy(v) \/ v = w
      BY <3>2 DEF Busy, Holding, TypeOK
    <3>4. \A v \in Worker \ {w} : Busy(v) => held[v] # j
      BY <3>1 DEF LeaseInv
    <3>5. \A v \in Worker : Busy(v)' => status'[held'[v]] = "running"
                                        /\ age'[held'[v]] = spent'[v]
      BY <3>1, <3>2, <3>3, <3>4 DEF LeaseInv, TypeOK
    <3>6. NoDoubleExecution'
      BY <3>1, <3>2, <3>3, <3>4 DEF LeaseInv, NoDoubleExecution, TypeOK
    <3>7. \A i \in Job : status'[i] = "running" => \E v \in Worker : Busy(v)' /\ held'[v] = i
      <4> TAKE i \in Job
      <4>1. CASE i = j
        BY <4>1, <3>1, <3>3 DEF TypeOK
      <4>2. CASE i # j /\ status[i] = "running"
        <5>1. PICK v \in Worker : Busy(v) /\ held[v] = i
          BY <4>2 DEF LeaseInv
        <5>2. v # w
          BY <5>1, <3>2 DEF Busy, Holding
        <5> QED
          BY <5>1, <5>2, <3>1, <3>3 DEF TypeOK
      <4> QED
        BY <4>1, <4>2, <3>1 DEF TypeOK
    <3> QED
      BY <3>2, <3>5, <3>6, <3>7 DEF LeaseInv
  <2>7. CASE Complete(w) \/ FailForGood(w) \/ FailRetry(w) \/ RowVanished(w)
    <3>1. Busy(w) /\ held[w] \in Job /\ status[held[w]] = "running"
      BY <2>7 DEF HoldsOne, Busy, Holding, TypeOK, Complete, FailForGood, FailRetry,
                  RowVanished, LeaseInv
    <3>2. LetGo(w)
      BY <2>7 DEF Complete, FailForGood, FailRetry, RowVanished
    <3>3. \E s \in {"done", "failed", "pending"} : status' = [status EXCEPT ![held[w]] = s]
      BY <2>7, <3>1 DEF Complete, FailForGood, FailRetry, RowVanished, Finish
    <3>4. \A v \in Worker : Busy(v)' <=> Busy(v) /\ v # w
      BY <3>2 DEF LetGo, Goto, Busy, Holding, TypeOK
    <3>5. \A v \in Worker \ {w} : Busy(v) => held[v] # held[w]
      BY <3>1 DEF LeaseInv, NoDoubleExecution
    <3>6. \A v \in Worker \ {w} : held'[v] = held[v] /\ spent'[v] = spent[v]
      BY <3>2 DEF LetGo, TypeOK
    <3>7. age' = age /\ stale' = stale
      BY <3>2 DEF LetGo
    <3> QED
      BY <3>1, <3>3, <3>4, <3>5, <3>6, <3>7 DEF LeaseInv, NoDoubleExecution, TypeOK
  <2> QED
    BY <1>4, <2>1, <2>2, <2>3, <2>4, <2>5, <2>6, <2>7 DEF LoopStep
<1>5. ASSUME NEW w \in Worker, ExecuteStep(w)
      PROVE  LeaseInv'
  BY <1>5, <1>2
  DEF ExecuteStep, ExecuteReturns, ExecuteRaises, Goto, rowVars, TypeOK, Busy, Holding
<1>6. ASSUME NEW w \in Worker, FaultStep(w)
      PROVE  LeaseInv'
  BY <1>6, NoFaultStep
<1>7. CASE Tick
  <2>1. \A w \in Worker : Busy(w) => spent[w] < MaxExec /\ spent'[w] = spent[w] + 1
    BY <1>7, CappedType, ConstantsAssumption DEF Tick, LeaseAssumptions, TypeOK
  <2>2. \A w \in Worker : Busy(w) => age'[held[w]] = age[held[w]] + 1
    <3> TAKE w \in Worker
    <3> HAVE Busy(w)
    <3>1. held[w] \in Job /\ status[held[w]] = "running" /\ age[held[w]] = spent[w]
      BY DEF LeaseInv, HoldsOne, TypeOK
    <3>2. spent[w] < StaleAfter + 1 /\ spent[w] \in 0 .. StaleAfter + 1
      BY <2>1, <3>1, ConstantsAssumption DEF LeaseAssumptions, TypeOK
    <3> QED
      BY <1>7, <3>1, <3>2, CappedType, ConstantsAssumption DEF Tick, TypeOK
  <2> QED
    BY <1>7, <2>1, <2>2 DEF Tick, LeaseInv, NoDoubleExecution, Busy
<1>8. ASSUME NEW j \in Job, BackoffExpires(j)
      PROVE  LeaseInv'
  BY <1>8, <1>2 DEF BackoffExpires, workerVars, Busy
<1>9. ASSUME NEW j \in Job, Purge(j)
      PROVE  LeaseInv'
  BY <1>9 DEF Purge, workerVars, LeaseInv, NoDoubleExecution, TypeOK, Busy, HoldsOne
<1>10. CASE UNCHANGED vars
  BY <1>10, <1>2 DEF vars, Busy
<1> QED
  BY <1>3, <1>4, <1>5, <1>6, <1>7, <1>8, <1>9, <1>10 DEF Next

LEMMA LeaseHolds ==
  ASSUME LeaseAssumptions
  PROVE  Spec => [](HoldInv /\ LeaseInv)
<1>1. Init => HoldInv /\ LeaseInv
  BY HoldInit DEF Init, LeaseInv, NoDoubleExecution, Busy, Holding
<1>2. HoldInv /\ LeaseInv /\ [Next]_vars => (HoldInv /\ LeaseInv)'
  BY HoldStep, LeaseStep
<1> QED
  BY <1>1, <1>2, PTL DEF Spec

(* Without crashes, and with every execution recorded within STALE_AFTER, no *)
(* two workers ever have the same job in hand, for any number of workers.    *)
THEOREM LeaseExcludesDoubleExecution ==
  ASSUME LeaseAssumptions
  PROVE  Spec => []NoDoubleExecution
<1>1. HoldInv /\ LeaseInv => NoDoubleExecution
  BY DEF LeaseInv
<1> QED
  BY <1>1, LeaseHolds, PTL

\* Under the lease a worker that records an outcome finds its row running, and
\* requeue_stale writes nothing.
LEMMA LeaseUse ==
  ASSUME LeaseAssumptions, HoldInv, LeaseInv, NEW w \in Worker
  PROVE  /\ RequeueStale(w) => status' = status
         /\ (Complete(w) \/ FailForGood(w) \/ FailRetry(w) \/ RowVanished(w)) =>
              /\ held[w] \in Job /\ status[held[w]] = "running"
              /\ held'[w] = NoJob
              /\ \E s \in Status : status' = [status EXCEPT ![held[w]] = s]
<1>1. RequeueStale(w) => status' = status
  BY DEF RequeueStale, LeaseInv, HoldInv, TypeOK
<1>2. Complete(w) \/ FailForGood(w) \/ FailRetry(w) \/ RowVanished(w) =>
        /\ held[w] \in Job /\ status[held[w]] = "running"
        /\ held'[w] = NoJob
        /\ \E s \in Status : status' = [status EXCEPT ![held[w]] = s]
  BY DEF HoldInv, LeaseInv, HoldsOne, Busy, Holding, TypeOK, Status, Complete, FailForGood,
         FailRetry, RowVanished, Finish, LetGo
<1> QED
  BY <1>1, <1>2

\* How one step changes the status of the rows under the lease: a row is
\* inserted, claimed, recorded by its holder, or deleted.
LEMMA LeaseStatusStep ==
  ASSUME LeaseAssumptions, HoldInv, LeaseInv, [Next]_vars
  PROVE  \/ status' = status
         \/ \E j \in Job, s \in Status :
              /\ status' = [status EXCEPT ![j] = s]
              /\ \/ status[j] = "absent" /\ s = "pending"
                 \/ status[j] = "pending" /\ s = "running"
                 \/ /\ status[j] = "running"
                    /\ \E w \in Worker : held[w] = j /\ held'[w] # j
                 \/ status[j] \in {"done", "failed"} /\ s = "absent"
<1> USE DEF Status
<1>1. ASSUME NEW c \in Client, ClientStep(c)
      PROVE  status' = status \/ \E j \in Job : /\ status[j] = "absent"
                                                /\ status' = [status EXCEPT ![j] = "pending"]
  BY <1>1 DEF ClientStep, EnqueueCheck, EnqueueInsert, EnqueueRollback, EnqueueKeyless,
              Insert, Unused, rowVars
<1>2. ASSUME NEW w \in Worker, ClaimNext(w)
      PROVE  \E j \in Job : /\ status[j] = "pending"
                            /\ status' = [status EXCEPT ![j] = "running"]
  BY <1>2 DEF ClaimNext, Due
<1>3. ASSUME NEW w \in Worker, PeriodicInsert(w)
      PROVE  \E j \in Job : /\ status[j] = "absent"
                            /\ status' = [status EXCEPT ![j] = "pending"]
  BY <1>3 DEF PeriodicInsert, Insert, Unused
<1>4. ASSUME NEW w \in Worker,
             Complete(w) \/ FailForGood(w) \/ FailRetry(w) \/ RowVanished(w)
      PROVE  \E j \in Job, s \in Status :
               /\ status' = [status EXCEPT ![j] = s]
               /\ status[j] = "running"
               /\ \E v \in Worker : held[v] = j /\ held'[v] # j
  BY <1>4, LeaseUse, ConstantsAssumption
<1>5. ASSUME NEW w \in Worker,
             LoopStep(w) \/ ExecuteStep(w) \/ FaultStep(w)
      PROVE  \/ status' = status
             \/ ClaimNext(w) \/ PeriodicInsert(w)
             \/ Complete(w) \/ FailForGood(w) \/ FailRetry(w) \/ RowVanished(w)
  BY <1>5, LeaseUse
  DEF LoopStep, ExecuteStep, FaultStep, BeginPeriodic, SkipPeriodic, PeriodicCheck,
      PeriodicFails, EndPeriodic, SelectStale, RequeueMissesRow, NothingToClaim,
      ExecuteReturns, ExecuteRaises, Crash, CompleteBreaks, RecordBreaks,
      rowVars, workerVars
<1>6. ASSUME Tick \/ \E j \in Job : BackoffExpires(j)
      PROVE  status' = status
  BY <1>6 DEF Tick, BackoffExpires
<1>7. ASSUME NEW j \in Job, Purge(j)
      PROVE  /\ status[j] \in {"done", "failed"}
             /\ status' = [status EXCEPT ![j] = "absent"]
  BY <1>7 DEF Purge
<1>8. CASE UNCHANGED vars
  BY <1>8 DEF vars
<1>9. ASSUME NEW w \in Worker, LoopStep(w) \/ ExecuteStep(w) \/ FaultStep(w)
      PROVE  \/ status' = status
             \/ \E j \in Job, s \in Status :
                  /\ status' = [status EXCEPT ![j] = s]
                  /\ \/ status[j] = "absent" /\ s = "pending"
                     \/ status[j] = "pending" /\ s = "running"
                     \/ /\ status[j] = "running"
                        /\ \E v \in Worker : held[v] = j /\ held'[v] # j
  BY <1>9, <1>2, <1>3, <1>4, <1>5
<1> QED
  BY <1>1, <1>6, <1>7, <1>8, <1>9 DEF Next

(* Under the lease a job that is done or failed never comes back.            *)
THEOREM LeaseKeepsFinished ==
  ASSUME LeaseAssumptions
  PROVE  Spec => FinishedIsFinal
<1>1. HoldInv /\ LeaseInv /\ [Next]_vars =>
        [\A j \in Job : status[j] \in {"done", "failed"} =>
                         status'[j] \in {status[j], "absent"}]_vars
  BY LeaseStatusStep DEF HoldInv, TypeOK
<1> QED
  BY <1>1, LeaseHolds, PTL DEF Spec, FinishedIsFinal

(* Under the lease a reservation leaves "running" only by its holder's hand. *)
THEOREM LeaseKeepsReservation ==
  ASSUME LeaseAssumptions
  PROVE  Spec => YoungReservationIsKept
<1>1. HoldInv /\ LeaseInv /\ [Next]_vars =>
        [\A j \in Job :
           status[j] = "running" /\ age[j] <= StaleAfter /\ status'[j] # "running"
             => \E w \in Worker : held[w] = j /\ held'[w] # j]_vars
  BY LeaseStatusStep DEF HoldInv, TypeOK
<1> QED
  BY <1>1, LeaseHolds, PTL DEF Spec, YoungReservationIsKept

-----------------------------------------------------------------------------
(***************************************************************************)
(* Attempts: what is still to be claimed has attempts left.                *)
(***************************************************************************)

AttemptsInv ==
  \A j \in Job :
    /\ status[j] = "absent" => attempts[j] = 0 /\ key[j] = NoKey
    /\ status[j] = "pending" => attempts[j] < MaxOf(j)
    /\ attempts[j] <= MaxOf(j)

LEMMA MaxOfPositive == \A j \in Job : MaxOf(j) \in 1 .. MaxAttempts
BY ConstantsAssumption DEF MaxOf

LEMMA AttemptsStep ==
  ASSUME LeaseAssumptions
  PROVE  HoldInv /\ LeaseInv /\ AttemptsInv /\ [Next]_vars => AttemptsInv'
<1> SUFFICES ASSUME HoldInv, LeaseInv, AttemptsInv, [Next]_vars
             PROVE  AttemptsInv'
  OBVIOUS
<1>1. ASSUME NEW j \in Job, NEW k \in Key \cup {NoKey}, Insert(j, k)
      PROVE  AttemptsInv'
  BY <1>1, ConstantsAssumption
  DEF Insert, Unused, AttemptsInv, MaxOf, HoldInv, TypeOK
<1>2. ASSUME UNCHANGED <<status, key, attempts>>
      PROVE  AttemptsInv'
  BY <1>2 DEF AttemptsInv, MaxOf
<1>3. ASSUME NEW c \in Client, ClientStep(c)
      PROVE  AttemptsInv'
  <2>1. chosen[c] \in Key \cup {NoKey}
    BY DEF HoldInv, TypeOK
  <2> QED
    BY <1>1, <1>2, <1>3, <2>1
    DEF ClientStep, EnqueueCheck, EnqueueInsert, EnqueueRollback, EnqueueKeyless, rowVars
<1>4. ASSUME NEW w \in Worker, LoopStep(w)
      PROVE  AttemptsInv'
  <2>1. CASE BeginPeriodic(w) \/ SkipPeriodic(w) \/ PeriodicCheck(w) \/ PeriodicFails(w)
             \/ EndPeriodic(w) \/ NothingToClaim(w) \/ SelectStale(w)
             \/ RequeueStale(w) \/ RequeueMissesRow(w)
    BY <2>1, <1>2, LeaseUse
    DEF BeginPeriodic, SkipPeriodic, PeriodicCheck, PeriodicFails, EndPeriodic,
        NothingToClaim, SelectStale, RequeueStale, RequeueMissesRow, workerVars, rowVars
  <2>2. CASE PeriodicInsert(w)
    <3>1. chosen[w] \in Key \cup {NoKey}
      BY DEF HoldInv, TypeOK
    <3> QED
      BY <2>2, <3>1, <1>1 DEF PeriodicInsert
  <2>3. CASE ClaimNext(w)
    <3>1. PICK j \in Job : /\ status[j] = "pending"
                           /\ status' = [status EXCEPT ![j] = "running"]
                           /\ attempts' = [attempts EXCEPT ![j] = Reserved(@)]
      BY <2>3 DEF ClaimNext, Due
    <3>2. key' = key
      BY <2>3 DEF ClaimNext
    <3>3. attempts[j] < MaxOf(j) /\ Reserved(attempts[j]) = attempts[j] + 1
      BY <3>1, MaxOfPositive, CappedType, ConstantsAssumption
      DEF AttemptsInv, Reserved, HoldInv, TypeOK
    <3>4. attempts[j] + 1 <= MaxOf(j)
      BY <3>3, MaxOfPositive DEF HoldInv, TypeOK
    <3> QED
      BY <3>1, <3>2, <3>3, <3>4 DEF AttemptsInv, MaxOf, HoldInv, TypeOK
  <2>4. CASE Complete(w) \/ FailForGood(w) \/ FailRetry(w) \/ RowVanished(w)
    <3>1. held[w] \in Job
      BY <2>4, LeaseUse
    <3>2. key' = key /\ attempts' = attempts
      BY <2>4 DEF Complete, FailForGood, FailRetry, RowVanished, LetGo
    <3>3. CASE Complete(w) \/ FailForGood(w)
      BY <3>1, <3>2, <3>3
      DEF Complete, FailForGood, Finish, AttemptsInv, MaxOf, HoldInv, TypeOK
    <3>4. CASE FailRetry(w)
      BY <3>1, <3>2, <3>4, MaxOfPositive
      DEF FailRetry, Esgotado, AttemptsInv, MaxOf, HoldInv, TypeOK
    <3>5. CASE RowVanished(w)
      BY <3>2, <3>5, <1>2 DEF RowVanished
    <3> QED
      BY <2>4, <3>3, <3>4, <3>5
  <2> QED
    BY <1>4, <2>1, <2>2, <2>3, <2>4 DEF LoopStep
<1>5. ASSUME NEW w \in Worker, ExecuteStep(w) \/ FaultStep(w)
      PROVE  AttemptsInv'
  BY <1>5, <1>2
  DEF ExecuteStep, ExecuteReturns, ExecuteRaises, FaultStep, Crash, CompleteBreaks,
      RecordBreaks, rowVars
<1>6. ASSUME Tick \/ \E j \in Job : BackoffExpires(j)
      PROVE  AttemptsInv'
  BY <1>6, <1>2 DEF Tick, BackoffExpires
<1>7. ASSUME NEW j \in Job, Purge(j)
      PROVE  AttemptsInv'
  BY <1>7, ConstantsAssumption DEF Purge, AttemptsInv, MaxOf, HoldInv, TypeOK
<1>8. CASE UNCHANGED vars
  BY <1>8, <1>2 DEF vars
<1> QED
  BY <1>3, <1>4, <1>5, <1>6, <1>7, <1>8 DEF Next

(* Under the lease no job is reserved more often than its max_attempts.      *)
THEOREM LeaseBoundsAttempts ==
  ASSUME LeaseAssumptions
  PROVE  Spec => []AttemptsWithinMax
<1>1. Init => AttemptsInv
  BY ConstantsAssumption, MaxOfPositive DEF Init, AttemptsInv, MaxOf
<1>2. HoldInv /\ LeaseInv /\ AttemptsInv /\ [Next]_vars => AttemptsInv'
  BY AttemptsStep
<1>3. AttemptsInv => AttemptsWithinMax
  BY DEF AttemptsInv, AttemptsWithinMax
<1> QED
  BY <1>1, <1>2, <1>3, LeaseHolds, PTL DEF Spec

-----------------------------------------------------------------------------
(***************************************************************************)
(* One worker, as deployed.  It may crash, lose its transactions and take  *)
(* as long as it likes: nobody else writes the rows it has in hand.        *)
(***************************************************************************)

OneWorker == \A v, w \in Worker : v = w

\* What the worker has claimed, or found stuck, is still reserved.
OwnInv ==
  \A w \in Worker : /\ Busy(w) => status[held[w]] = "running"
                    /\ stale[w] # {} => pc[w] = "stale"
                    /\ \A j \in stale[w] : status[j] = "running"

\* Nothing that is reserved is let go, and the worker takes nothing.
LEMMA OwnKept ==
  ASSUME HoldInv, OwnInv, \A j \in Job : status[j] = "running" => status'[j] = "running",
         held' = held,
         \A w \in Worker : /\ Busy(w)' => Busy(w)
                           /\ stale'[w] = {} \/ (stale'[w] = stale[w] /\ pc'[w] = pc[w])
  PROVE  OwnInv'
<1>1. \A w \in Worker : (Busy(w) => held[w] \in Job) /\ stale[w] \subseteq Job
  BY ConstantsAssumption DEF HoldInv, HoldsOne, TypeOK
<1> QED
  BY <1>1 DEF OwnInv

\* The worker ends up with nothing in hand.
LEMMA OwnNothing ==
  ASSUME OneWorker, NEW w \in Worker, ~Busy(w)', stale'[w] = {}
  PROVE  OwnInv'
BY DEF OneWorker, OwnInv

LEMMA OwnStep ==
  ASSUME OneWorker
  PROVE  HoldInv /\ OwnInv /\ [Next]_vars => OwnInv'
<1> SUFFICES ASSUME HoldInv, OwnInv, [Next]_vars
             PROVE  OwnInv'
  OBVIOUS
<1>0. TypeOK /\ \A v, w \in Worker : v = w
  BY DEF HoldInv, OneWorker
<1>1. ASSUME NEW j \in Job, NEW k, Insert(j, k), UNCHANGED workerVars
      PROVE  OwnInv'
  BY <1>0, <1>1, OwnKept DEF Insert, Unused, TypeOK, workerVars, Busy
<1>2. ASSUME UNCHANGED <<status, pc, held, stale>>
      PROVE  OwnInv'
  BY <1>2, OwnKept DEF Busy
<1>3. ASSUME NEW c \in Client, ClientStep(c)
      PROVE  OwnInv'
  BY <1>1, <1>2, <1>3
  DEF ClientStep, EnqueueCheck, EnqueueInsert, EnqueueRollback, EnqueueKeyless,
      workerVars, rowVars
<1>4. ASSUME NEW w \in Worker, LoopStep(w)
      PROVE  OwnInv'
  <2>1. CASE BeginPeriodic(w) \/ SkipPeriodic(w) \/ PeriodicCheck(w) \/ PeriodicFails(w)
             \/ EndPeriodic(w) \/ NothingToClaim(w)
    <3>1. ~Busy(w)' /\ stale'[w] = {}
      BY <1>0, <2>1
      DEF BeginPeriodic, SkipPeriodic, PeriodicCheck, PeriodicFails, EndPeriodic,
          NothingToClaim, workerVars, TypeOK, Busy, Holding, OwnInv
    <3> QED
      BY <3>1, OwnNothing
  <2>2. CASE PeriodicInsert(w)
    BY <1>1, <2>2 DEF PeriodicInsert
  <2>3. CASE SelectStale(w)
    <3>1. /\ ~Busy(w)' /\ pc'[w] = "stale" /\ status' = status
          /\ stale'[w] = {j \in Job : Preso(j)}
      BY <1>0, <2>3 DEF SelectStale, TypeOK, Busy, Holding, rowVars
    <3> QED
      BY <1>0, <3>1 DEF OwnInv, Preso
  <2>4. CASE RequeueStale(w) \/ RequeueMissesRow(w)
    BY <1>0, <2>4, OwnNothing DEF RequeueStale, RequeueMissesRow, TypeOK, Busy, Holding
  <2>5. CASE ClaimNext(w)
    <3>1. /\ status'[held'[w]] = "running" /\ stale' = stale /\ pc[w] = "claim"
      BY <1>0, <2>5 DEF ClaimNext, Due, TypeOK
    <3> QED
      BY <1>0, <3>1 DEF OwnInv
  <2>6. CASE Complete(w) \/ FailForGood(w) \/ FailRetry(w) \/ RowVanished(w)
    BY <1>0, <2>6, OwnNothing
    DEF Complete, FailForGood, FailRetry, RowVanished, LetGo, Goto, TypeOK, Busy, Holding,
        OwnInv
  <2> QED
    BY <1>4, <2>1, <2>2, <2>3, <2>4, <2>5, <2>6 DEF LoopStep
<1>5. ASSUME NEW w \in Worker, ExecuteStep(w) \/ CompleteBreaks(w)
      PROVE  OwnInv'
  <2>1. UNCHANGED <<status, held, stale>> /\ Busy(w) /\ stale[w] = {}
    BY <1>5 DEF ExecuteStep, ExecuteReturns, ExecuteRaises, CompleteBreaks, Busy, Holding,
                OwnInv, rowVars
  <2> QED
    BY <1>0, <2>1 DEF OwnInv
<1>6. ASSUME NEW w \in Worker, Crash(w) \/ RecordBreaks(w)
      PROVE  OwnInv'
  BY <1>0, <1>6, OwnNothing
  DEF Crash, RecordBreaks, Goto, TypeOK, Busy, Holding, OwnInv
<1>7. CASE Tick \/ (\E j \in Job : BackoffExpires(j)) \/ UNCHANGED vars
  BY <1>2, <1>7 DEF Tick, BackoffExpires, vars, workerVars
<1>8. ASSUME NEW j \in Job, Purge(j)
      PROVE  OwnInv'
  BY <1>0, <1>8, OwnKept DEF Purge, workerVars, TypeOK, Busy
<1> QED
  BY <1>3, <1>4, <1>5, <1>6, <1>7, <1>8 DEF Next, FaultStep

\* What the worker writes is a row it has claimed, or one still reserved.
LEMMA OwnWrites ==
  ASSUME OneWorker, HoldInv, OwnInv, NEW w \in Worker
  PROVE  /\ RequeueStale(w) =>
              \A j \in Job : status'[j] = status[j]
                             \/ (status[j] = "running" /\ status'[j] = "pending")
         /\ Complete(w) \/ FailForGood(w) \/ FailRetry(w) \/ RowVanished(w) =>
              \A j \in Job : status'[j] = status[j] \/ status[j] = "running"
<1>1. RequeueStale(w) =>
        \A j \in Job : status'[j] = status[j]
                       \/ (status[j] = "running" /\ status'[j] = "pending")
  BY DEF RequeueStale, OwnInv, HoldInv, TypeOK
<1>2. Complete(w) \/ FailForGood(w) \/ FailRetry(w) \/ RowVanished(w) =>
        \A j \in Job : status'[j] = status[j] \/ status[j] = "running"
  BY DEF HoldInv, OwnInv, Busy, Holding, TypeOK, Complete, FailForGood,
         FailRetry, RowVanished, Finish
<1> QED
  BY <1>1, <1>2

\* A row that is done or failed is only deleted, and what comes into the queue
\* is a new row.
LEMMA OwnStatusStep ==
  ASSUME OneWorker, HoldInv, OwnInv, [Next]_vars
  PROVE  \A j \in Job :
           /\ status[j] \in {"done", "failed"} => status'[j] \in {status[j], "absent"}
           /\ status'[j] \in {"pending", "running"} =>
                status[j] \in {"absent", "pending", "running"}
<1>0. status \in [Job -> Status]
  BY DEF HoldInv, TypeOK
<1>1. ASSUME NEW i \in Job, NEW k, Insert(i, k)
      PROVE  \A j \in Job : status'[j] = status[j] \/ status[j] = "absent"
  BY <1>0, <1>1 DEF Insert, Unused
<1>2. ASSUME NEW c \in Client, ClientStep(c)
      PROVE  \A j \in Job : status'[j] = status[j] \/ status[j] = "absent"
  BY <1>1, <1>2
  DEF ClientStep, EnqueueCheck, EnqueueInsert, EnqueueRollback, EnqueueKeyless, rowVars
<1>3. ASSUME NEW w \in Worker, ClaimNext(w)
      PROVE  \A j \in Job : status'[j] = status[j] \/ status[j] = "pending"
  BY <1>0, <1>3 DEF ClaimNext, Due
<1>4. ASSUME NEW w \in Worker, PeriodicInsert(w)
      PROVE  \A j \in Job : status'[j] = status[j] \/ status[j] = "absent"
  BY <1>1, <1>4 DEF PeriodicInsert
<1>5. ASSUME NEW w \in Worker, LoopStep(w) \/ ExecuteStep(w) \/ FaultStep(w)
      PROVE  \/ status' = status
             \/ ClaimNext(w) \/ PeriodicInsert(w) \/ RequeueStale(w)
             \/ Complete(w) \/ FailForGood(w) \/ FailRetry(w) \/ RowVanished(w)
  BY <1>5
  DEF LoopStep, ExecuteStep, FaultStep, BeginPeriodic, SkipPeriodic, PeriodicCheck,
      PeriodicFails, EndPeriodic, SelectStale, RequeueMissesRow, NothingToClaim,
      ExecuteReturns, ExecuteRaises, Crash, CompleteBreaks, RecordBreaks, rowVars
<1>6. ASSUME NEW w \in Worker, LoopStep(w) \/ ExecuteStep(w) \/ FaultStep(w)
      PROVE  \A j \in Job : status'[j] = status[j]
                            \/ status[j] \in {"absent", "pending", "running"}
  BY <1>3, <1>4, <1>5, <1>6, OwnWrites
<1>7. Tick \/ (\E j \in Job : BackoffExpires(j)) \/ UNCHANGED vars => status' = status
  BY DEF Tick, BackoffExpires, vars
<1>8. ASSUME NEW i \in Job, Purge(i)
      PROVE  \A j \in Job : status'[j] = status[j] \/ status'[j] = "absent"
  BY <1>0, <1>8 DEF Purge
<1> QED
  BY <1>0, <1>2, <1>6, <1>7, <1>8 DEF Next, Status

LEMMA OwnInit == Init => OwnInv
BY DEF Init, OwnInv, Busy, Holding

LEMMA OwnHolds ==
  ASSUME OneWorker
  PROVE  Spec => [](HoldInv /\ OwnInv)
<1>1. HoldInv /\ OwnInv /\ [Next]_vars => (HoldInv /\ OwnInv)'
  BY HoldStep, OwnStep
<1> QED
  BY <1>1, HoldInit, OwnInit, PTL DEF Spec

(* With one worker a job that is done or failed never comes back, however    *)
(* often the worker crashes and however long its executions take: nobody is  *)
(* late, because nobody else records or requeues in between.                 *)
THEOREM OneWorkerKeepsFinished ==
  ASSUME OneWorker
  PROVE  Spec => FinishedIsFinal
<1>1. HoldInv /\ OwnInv /\ [Next]_vars =>
        [\A j \in Job : status[j] \in {"done", "failed"} =>
                         status'[j] \in {status[j], "absent"}]_vars
  BY OwnStatusStep
<1> QED
  BY <1>1, OwnHolds, PTL DEF Spec, FinishedIsFinal

-----------------------------------------------------------------------------
(***************************************************************************)
(* Dedupe keys: what one session has found free stays free until it has    *)
(* inserted, when no other session enqueues the same key.                  *)
(***************************************************************************)

\* The worker enqueues the periodic keys and one session the others.
OneEnqueuer == /\ OneWorker
               /\ \A c, d \in Client : c = d
               /\ Worker \cap Client = {}

UniqueInv ==
  /\ \A w \in Worker : chosen[w] \in Periodic \cup {NoKey}
  /\ \A c \in Client : chosen[c] \notin Periodic
  /\ \A e \in Worker \cup Client : chosen[e] # NoKey => ~Live(chosen[e])
  /\ UniqueLiveKey

\* No row comes into the queue and no key is chosen.
LEMMA UniqueKept ==
  ASSUME UniqueInv,
         \A j \in Job : status'[j] \in {"pending", "running"} =>
                          status[j] \in {"pending", "running"} /\ key'[j] = key[j],
         \A e \in Worker \cup Client : chosen'[e] \in {chosen[e], NoKey}
  PROVE  UniqueInv'
<1>1. \A k : Live(k)' => Live(k)
  BY DEF Live
<1>2. UniqueLiveKey'
  BY DEF UniqueInv, UniqueLiveKey
<1> QED
  BY <1>1, <1>2, ConstantsAssumption DEF UniqueInv

\* A session inserts the key it had found free, or none.
LEMMA UniqueInsert ==
  ASSUME OneEnqueuer, TypeOK, UniqueInv, NEW e \in Worker \cup Client, NEW j \in Job,
         Insert(j, chosen[e]), chosen' = [chosen EXCEPT ![e] = NoKey]
  PROVE  UniqueInv'
<1> DEFINE k == chosen[e]
<1>1. /\ status[j] = "absent" /\ status' = [status EXCEPT ![j] = "pending"]
      /\ key' = [key EXCEPT ![j] = k]
  BY DEF Insert, Unused
<1>2. \A f \in (Worker \cup Client) \ {e} : chosen[f] # NoKey => chosen[f] # k
  BY ConstantsAssumption DEF UniqueInv, OneEnqueuer, OneWorker
<1>3. \A i \in Job \ {j} : status'[i] = status[i] /\ key'[i] = key[i]
  BY <1>1 DEF TypeOK
<1>4. status'[j] = "pending" /\ key'[j] = k
  BY <1>1 DEF TypeOK
<1>5. k # NoKey => ~Live(k)
  BY DEF UniqueInv
<1>6. \A f \in (Worker \cup Client) \ {e} : chosen'[f] = chosen[f]
  BY DEF TypeOK
<1>7. chosen'[e] = NoKey
  BY DEF TypeOK
<1> HIDE DEF k
<1>8. UniqueLiveKey'
  BY <1>3, <1>4, <1>5 DEF UniqueInv, UniqueLiveKey, Live
<1>9. \A l : l # k /\ Live(l)' => Live(l)
  BY <1>3, <1>4 DEF Live
<1> QED
  BY <1>2, <1>6, <1>7, <1>8, <1>9, ConstantsAssumption DEF UniqueInv

LEMMA UniqueStep ==
  ASSUME OneEnqueuer
  PROVE  HoldInv /\ OwnInv /\ UniqueInv /\ [Next]_vars => UniqueInv'
<1> SUFFICES ASSUME HoldInv, OwnInv, UniqueInv, [Next]_vars
             PROVE  UniqueInv'
  OBVIOUS
<1>0. OneWorker /\ TypeOK
  BY DEF OneEnqueuer, HoldInv
<1>1. CASE UNCHANGED <<status, key, chosen>>
  BY <1>1, UniqueKept
<1>2. ASSUME NEW e \in Worker \cup Client, NEW k \in Key, ~Existente(k),
             k \in Periodic <=> e \in Worker,
             chosen' = [chosen EXCEPT ![e] = k], UNCHANGED <<status, key>>
      PROVE  UniqueInv'
  <2>1. \A l : Live(l)' <=> Live(l)
    BY <1>2 DEF Live
  <2>2. UniqueLiveKey'
    BY <1>2 DEF UniqueInv, UniqueLiveKey
  <2>3. \A f \in (Worker \cup Client) \ {e} : chosen'[f] = chosen[f]
    BY <1>0, <1>2 DEF TypeOK
  <2>4. chosen'[e] = k
    BY <1>0, <1>2 DEF TypeOK
  <2> QED
    BY <1>2, <2>1, <2>2, <2>3, <2>4 DEF UniqueInv, Existente, OneEnqueuer
<1>3. ASSUME NEW c \in Client, ClientStep(c)
      PROVE  UniqueInv'
  <2>1. ASSUME NEW k \in Key \ Periodic, EnqueueCheck(c, k)
        PROVE  UniqueInv'
    BY <1>2, <2>1 DEF EnqueueCheck, OneEnqueuer, rowVars
  <2>2. CASE EnqueueInsert(c)
    BY <1>0, <2>2, UniqueInsert DEF EnqueueInsert
  <2>3. CASE EnqueueRollback(c)
    BY <1>0, <2>3, UniqueKept DEF EnqueueRollback, TypeOK, rowVars
  <2>4. CASE EnqueueKeyless(c)
    <3>1. chosen' = [chosen EXCEPT ![c] = NoKey]
      BY <1>0, <2>4 DEF EnqueueKeyless, TypeOK
    <3> QED
      BY <1>0, <2>4, <3>1, UniqueInsert DEF EnqueueKeyless
  <2> QED
    BY <1>3, <2>1, <2>2, <2>3, <2>4 DEF ClientStep
<1>4. ASSUME NEW w \in Worker, PeriodicCheck(w)
      PROVE  UniqueInv'
  <2>1. PICK k \in todo[w] :
          chosen' = [chosen EXCEPT ![w] = IF Existente(k) THEN NoKey ELSE k]
    BY <1>4 DEF PeriodicCheck
  <2>2. k \in Periodic /\ k \in Key /\ UNCHANGED <<status, key>>
    BY <1>0, <1>4, ConstantsAssumption DEF PeriodicCheck, TypeOK, rowVars
  <2>3. CASE Existente(k)
    BY <1>0, <2>1, <2>2, <2>3, UniqueKept DEF TypeOK
  <2>4. CASE ~Existente(k)
    BY <1>2, <2>1, <2>2, <2>4
  <2> QED
    BY <2>3, <2>4
<1>5. ASSUME NEW w \in Worker, PeriodicInsert(w)
      PROVE  UniqueInv'
  BY <1>0, <1>5, UniqueInsert DEF PeriodicInsert
<1>6. ASSUME NEW w \in Worker, LoopStep(w) \/ ExecuteStep(w) \/ FaultStep(w),
             ~PeriodicCheck(w), ~PeriodicInsert(w)
      PROVE  UniqueInv'
  <2>1. key' = key
    BY <1>6
    DEF LoopStep, ExecuteStep, FaultStep, BeginPeriodic, SkipPeriodic, PeriodicFails,
        EndPeriodic, SelectStale, RequeueStale, RequeueMissesRow, ClaimNext, NothingToClaim,
        Complete, FailForGood, FailRetry, RowVanished, LetGo, ExecuteReturns, ExecuteRaises,
        Crash, CompleteBreaks, RecordBreaks, rowVars
  <2>2. \A e \in Worker \cup Client : chosen'[e] \in {chosen[e], NoKey}
    BY <1>0, <1>6
    DEF LoopStep, ExecuteStep, FaultStep, BeginPeriodic, SkipPeriodic, PeriodicFails,
        EndPeriodic, SelectStale, RequeueStale, RequeueMissesRow, ClaimNext, NothingToClaim,
        Complete, FailForGood, FailRetry, RowVanished, LetGo, ExecuteReturns, ExecuteRaises,
        Crash, CompleteBreaks, RecordBreaks, TypeOK
  <2>3. status' = status \/ ClaimNext(w) \/ RequeueStale(w)
        \/ Complete(w) \/ FailForGood(w) \/ FailRetry(w) \/ RowVanished(w)
    BY <1>6
    DEF LoopStep, ExecuteStep, FaultStep, BeginPeriodic, SkipPeriodic, PeriodicFails,
        EndPeriodic, SelectStale, RequeueMissesRow, NothingToClaim, ExecuteReturns,
        ExecuteRaises, Crash, CompleteBreaks, RecordBreaks, rowVars
  <2>4. ClaimNext(w) => \A j \in Job : status'[j] = status[j] \/ status[j] = "pending"
    BY <1>0 DEF ClaimNext, Due, TypeOK
  <2>5. \A j \in Job : status'[j] \in {"pending", "running"} =>
                         status[j] \in {"pending", "running"}
    BY <1>0, <2>3, <2>4, OwnWrites
  <2> QED
    BY <2>1, <2>2, <2>5, UniqueKept
<1>7. CASE Tick \/ (\E j \in Job : BackoffExpires(j)) \/ UNCHANGED vars
  BY <1>1, <1>7 DEF Tick, BackoffExpires, vars
<1>8. ASSUME NEW j \in Job, Purge(j)
      PROVE  UniqueInv'
  BY <1>0, <1>8, UniqueKept DEF Purge, TypeOK
<1> QED
  BY <1>3, <1>4, <1>5, <1>6, <1>7, <1>8 DEF Next

(* With one worker and one other session that enqueues, two jobs with the    *)
(* same key are never both in the queue: through crashes, retries, requeues  *)
(* and the gap between the SELECT and the INSERT of enqueue.                 *)
THEOREM OneEnqueuerKeepsKeys ==
  ASSUME OneEnqueuer
  PROVE  Spec => []UniqueLiveKey
<1>1. OneWorker
  BY DEF OneEnqueuer
<1>2. Init => UniqueInv
  BY ConstantsAssumption DEF Init, UniqueInv, UniqueLiveKey, Live
<1>3. HoldInv /\ OwnInv /\ UniqueInv /\ [Next]_vars => UniqueInv'
  BY UniqueStep
<1>4. UniqueInv => UniqueLiveKey
  BY DEF UniqueInv
<1>5. Spec => [](HoldInv /\ OwnInv)
  BY <1>1, OwnHolds
<1> QED
  BY <1>2, <1>3, <1>4, <1>5, PTL DEF Spec

=============================================================================
