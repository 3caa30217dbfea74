-------------------------- MODULE JobQueueContract --------------------------
(***************************************************************************)
(* The refinement mapping from JobQueue to TaskQueue: a row is a task, the *)
(* worker that took it out of the queue is its owner, and what is pending, *)
(* deferred or not, is waiting.                                            *)
(***************************************************************************)
EXTENDS JobQueue

CONSTANT NoWorker

ASSUME NoWorkerAssumption == NoWorker \notin Worker

taskState ==
  [j \in Job |-> CASE status[j] = "absent"  -> "none"
                   [] status[j] = "pending" -> "waiting"
                   [] status[j] = "running" -> "working"
                   [] OTHER                 -> status[j]]

Holders(j) == {w \in Worker : Busy(w) /\ held[w] = j}

OneOf(H) == IF H = {} THEN NoWorker ELSE CHOOSE w \in H : TRUE

taskOwner == [j \in Job |-> OneOf(Holders(j))]

Tasks == INSTANCE TaskQueue
           WITH Task <- Job, Owner <- Worker, NoOwner <- NoWorker,
                MaxStarts <- MaxAttempts,
                state <- taskState, owner <- taskOwner, starts <- attempts

(* The queue keeps the promise of TaskQueue: one owner at a time, a bounded  *)
(* number of starts, no way back from done or failed, and every waiting task *)
(* is started and ended in the end.                                          *)
KeepsTheContract == Tasks!TQSpec

(* The safety part of the same promise.                                      *)
KeepsTheSafeContract == Tasks!TQSafety

=============================================================================
