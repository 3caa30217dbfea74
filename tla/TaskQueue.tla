----------------------------- MODULE TaskQueue ------------------------------
(***************************************************************************)
(* What the work queue promises to the code that submits work, with no     *)
(* word about rows, reservations, clocks or stale requeues: a task is in   *)
(* the hands of at most one owner, an owner has at most one task, a task   *)
(* is started a bounded number of times and then ends, and an ended task   *)
(* is never taken up again.  JobQueue implements it as long as executions  *)
(* stay within STALE_AFTER and nothing crashes (JobQueueContract).         *)
(***************************************************************************)
EXTENDS Integers

CONSTANTS
  Task,
  Owner,
  NoOwner,   \* not in Owner
  MaxStarts  \* how often a task may be started

VARIABLES
  state,   \* where each task is in its life
  owner,   \* who works on it
  starts   \* how many times it has been started

tqVars == <<state, owner, starts>>

TQInit ==
  /\ state = [t \in Task |-> "none"]
  /\ owner = [t \in Task |-> NoOwner]
  /\ starts = [t \in Task |-> 0]

Submit(t) ==
  /\ state[t] = "none"
  /\ state' = [state EXCEPT ![t] = "waiting"]
  /\ UNCHANGED <<owner, starts>>

Start(t, o) ==
  /\ state[t] = "waiting"
  /\ starts[t] < MaxStarts
  /\ \A u \in Task : owner[u] # o
  /\ state' = [state EXCEPT ![t] = "working"]
  /\ owner' = [owner EXCEPT ![t] = o]
  /\ starts' = [starts EXCEPT ![t] = @ + 1]

\* The owner finishes the task, gives it up, or leaves it for another start.
End(t) ==
  /\ state[t] = "working"
  /\ \E s \in {"done", "failed", "waiting"} :
       /\ s = "waiting" => starts[t] < MaxStarts
       /\ state' = [state EXCEPT ![t] = s]
  /\ owner' = [owner EXCEPT ![t] = NoOwner]
  /\ UNCHANGED starts

Forget(t) ==
  /\ state[t] \in {"done", "failed"}
  /\ state' = [state EXCEPT ![t] = "none"]
  /\ starts' = [starts EXCEPT ![t] = 0]
  /\ UNCHANGED owner

TQNext == \E t \in Task : \/ Submit(t) \/ End(t) \/ Forget(t)
                          \/ \E o \in Owner : Start(t, o)

TQSafety == TQInit /\ [][TQNext]_tqVars

\* A waiting task is started and a started task ends.
TQSpec == /\ TQSafety
          /\ \A t \in Task : /\ WF_tqVars(\E o \in Owner : Start(t, o))
                             /\ WF_tqVars(End(t))

=============================================================================
