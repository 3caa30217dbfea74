------------------------------ MODULE Cadences ------------------------------
(***************************************************************************)
(* Follow-up in steps: app/services/sequences.py and api/v1/sequences.py,  *)
(* on one sequence of one campaign.                                        *)
(*                                                                         *)
(* A tick reads the rows that are due, decides on each one, and commits at *)
(* the end; the worker and the desk may tick side by side.  Two ticks that *)
(* have the same row write the same values, so the row lock that orders    *)
(* their commits is left out; the locks that stop a row, delete it or      *)
(* insert a second one for its prospect are kept.                          *)
(*                                                                         *)
(* Every step waits one day, the shortest wait validar_passos accepts, and *)
(* no tick lasts a day.                                                    *)
(***************************************************************************)
EXTENDS Prospects

CONSTANT MaxSteps   \* MAX_PASSOS

ASSUME CadencesAssumption == MaxSteps \in Nat \ {0}

VARIABLES
  sequence,  \* Sequence: its steps and is_active; no steps once deleted
  list,      \* what each enrolling request has left, what it has inserted
  round,     \* what each tick has left, what it has decided
  touches    \* history: steps enqueued for a row today

cadenceVars == <<sequence, paused, list, round, touches>>

NoList == [fila |-> <<>>, new |-> {}, waits |-> FALSE]

NoRound == [due |-> {}, plan |-> {}]

DueRec == [e : Enrollment, step : Nat]

PlanRec == [e : Enrollment, step : Nat, last : BOOLEAN, fresh : BOOLEAN,
            act : {"stop", "postpone", "complete", "step"}]

CadencesTypeOK ==
  /\ sequence \in [steps : 0 .. MaxSteps, active : BOOLEAN]
  /\ paused \in BOOLEAN
  /\ \A a \in Actor : /\ list[a].new \subseteq [e : Enrollment, on : Prospect]
                      /\ round[a].due \subseteq DueRec
                      /\ round[a].plan \subseteq PlanRec
  /\ touches \in [Enrollment -> Nat]
  /\ \A e \in Enrollment : row[e].status = "active" => row[e].next # "never"

CadencesInit ==
  /\ sequence \in [steps : {MaxSteps}, active : {TRUE}]
  /\ paused = FALSE
  /\ list = [a \in Actor |-> NoList]
  /\ round = [a \in Actor |-> NoRound]
  /\ touches = [e \in Enrollment |-> 0]

Exists == sequence.steps # 0

Steady == UNCHANGED <<scenario, prospectVars, unattended>>

-----------------------------------------------------------------------------
(***************************************************************************)
(* Enrolling a list of prospects: one transaction.  The unique index on    *)
(* the active row of a prospect makes an insert wait for the insert of     *)
(* another transaction, and fail if that one commits.                      *)
(***************************************************************************)

Lists == {<<p>> : p \in scenario.on}
         \cup {<<p, q>> : p \in scenario.on, q \in scenario.on}

Unused == {e \in Enrollment : row[e].status = "absent" /\ ~Locked(e)}

EnrollBegin(a, l) ==
  /\ Starts(a, "enroll")
  /\ Exists /\ sequence.active
  /\ Hold(a, [Idle EXCEPT !.op = "enroll"])
  /\ list' = [list EXCEPT ![a].fila = l]
  /\ Steady /\ UNCHANGED <<row, jobs, faults, sequence, paused, round, touches>>

\* Another transaction has inserted a row for p and not committed it.
Holders(a, p) ==
  {b \in Actor \ {a} : \E r \in list[b].new : r.on = p}

\* Enrolled already, or not to be approached; nor beyond MaxEnrollments rows.
Skipped(a, p) ==
  \/ Active(p) # {} \/ MustStop(p) \/ \E r \in list[a].new : r.on = p
  \/ Unused = {}

EnrollVars == <<row, jobs, requests, faults, sequence, paused, round, touches>>

EnrollSkip(a) ==
  /\ tx[a].op = "enroll" /\ ~list[a].waits /\ list[a].fila # <<>> /\ Exists
  /\ Skipped(a, Head(list[a].fila))
  /\ list' = [list EXCEPT ![a].fila = Tail(@)]
  /\ Steady /\ UNCHANGED <<tx, EnrollVars>>

Insert(a, p) ==
  \E e \in Unused :
    /\ \A f \in Unused : e <= f
    /\ Hold(a, [Idle EXCEPT !.op = "enroll", !.rows = tx[a].rows \cup {e}])
    /\ list' = [list EXCEPT ![a] = [fila |-> Tail(@.fila), waits |-> FALSE,
                                    new |-> @.new \cup {[e |-> e, on |-> p]}]]

EnrollInsert(a) ==
  LET p == Head(list[a].fila) IN
  /\ tx[a].op = "enroll" /\ ~list[a].waits /\ list[a].fila # <<>> /\ Exists
  /\ ~Skipped(a, p)
  /\ IF Holders(a, p) = {} THEN Insert(a, p)
     ELSE list' = [list EXCEPT ![a].waits = TRUE] /\ UNCHANGED tx
  /\ Steady /\ UNCHANGED EnrollVars

\* Mutant: no unique index, the insert goes through.
NoIndex(p) == FALSE

Refused(p) == Active(p) # {}

\* The other transaction has ended.
EnrollWakes(a) ==
  LET p == Head(list[a].fila) IN
  /\ tx[a].op = "enroll" /\ list[a].waits /\ Exists
  /\ Holders(a, p) = {} /\ ~Refused(p)
  /\ Insert(a, p)
  /\ Steady /\ UNCHANGED EnrollVars

\* IntegrityError, a deadlock, or a sequence that is gone: the whole list is
\* rolled back.
EnrollFails(a) ==
  /\ tx[a].op = "enroll" /\ list[a].fila # <<>>
  /\ LET p == Head(list[a].fila) IN
     \/ ~Exists
     \/ list[a].waits /\ Holders(a, p) = {} /\ Refused(p)
     \/ list[a].waits /\ \E b \in Holders(a, p) :
                            list[b].waits /\ a \in Holders(b, Head(list[b].fila))
  /\ Close(a)
  /\ list' = [list EXCEPT ![a] = NoList]
  /\ Steady /\ UNCHANGED EnrollVars

EnrollCommit(a) ==
  /\ tx[a].op = "enroll" /\ list[a].fila = <<>>
  /\ row' = [e \in Enrollment |->
       IF \E r \in list[a].new : r.e = e
       THEN [on |-> (CHOOSE r \in list[a].new : r.e = e).on,
             status |-> "active", step |-> 0, next |-> "now"]
       ELSE row[e]]
  /\ Close(a)
  /\ list' = [list EXCEPT ![a] = NoList]
  /\ Steady /\ UNCHANGED <<jobs, requests, faults, sequence, paused, round, touches>>

-----------------------------------------------------------------------------
(***************************************************************************)
(* The tick.                                                               *)
(***************************************************************************)

\* Mutant: only rows that have not been touched yet.
DueOfFresh == {e \in Enrollment : /\ row[e].status = "active" /\ row[e].next = "now"
                                 /\ row[e].step = 0}

Due == {e \in Enrollment : row[e].status = "active" /\ row[e].next = "now"}

TickVars == <<row, jobs, faults, sequence, paused, list, touches>>

TickBegin(a) ==
  /\ Starts(a, "tick")
  /\ Due # {}
  /\ Hold(a, [Idle EXCEPT !.op = "tick"])
  /\ round' = [round EXCEPT ![a].due = {[e |-> e, step |-> row[e].step] : e \in Due}]
  /\ Steady /\ UNCHANGED TickVars

StepJob(a, d) == Job("outreach", row[d.e].on, <<d.e, d.step + 1>>, a)

\* The stop rules come first, at every step: days pass between two.
\* Paused and inactive postpone, they do not stop.
Act(d) ==
  IF MustStop(row[d.e].on) THEN "stop"
  ELSE IF ~sequence.active \/ paused THEN "postpone"
  ELSE IF d.step >= sequence.steps THEN "complete"
  ELSE "step"

TickOne(a) ==
  /\ tx[a].op = "tick" /\ Exists
  /\ \E d \in round[a].due :
       /\ \A c \in round[a].due : d.e <= c.e
       /\ round' = [round EXCEPT ![a] =
            [due |-> @.due \ {d},
             plan |-> @.plan \cup
               {[e |-> d.e, step |-> d.step, act |-> Act(d),
                 last |-> d.step + 1 >= sequence.steps,
                 fresh |-> Free(StepJob(a, d))]}]]
       /\ Hold(a, [tx[a] EXCEPT !.rows = @ \cup {d.e}])
  /\ Steady /\ UNCHANGED <<TickVars, requests>>

\* Mutant: the next touch is due at once.
AfterStepNow(r, d) ==
  [r EXCEPT !.step = d.step + 1,
            !.status = IF d.last THEN "completed" ELSE @,
            !.next = IF d.last THEN "never" ELSE "now"]

\* Mutant: the next touch is not scheduled.
AfterStepForgets(r, d) ==
  [r EXCEPT !.step = d.step + 1,
            !.status = IF d.last THEN "completed" ELSE @,
            !.next = "never"]

\* The row after a step: absolute values, and only what has changed.
AfterStep(r, d) ==
  [r EXCEPT !.step = d.step + 1,
            !.status = IF d.last THEN "completed" ELSE @,
            !.next = IF d.last THEN "never" ELSE "later"]

After(r, d) ==
  CASE d.act = "stop"     -> [r EXCEPT !.status = "stopped", !.next = "never"]
    [] d.act = "postpone" -> [r EXCEPT !.next = "later"]
    [] d.act = "complete" -> [r EXCEPT !.status = "completed", !.next = "never"]
    [] d.act = "step"     -> AfterStep(r, d)

TickCommit(a) ==
  LET plan == round[a].plan
      sent == {d \in plan : d.act = "step" /\ d.fresh} IN
  /\ tx[a].op = "tick" /\ round[a].due = {}
  /\ row' = [e \in Enrollment |->
       IF \E d \in plan : d.e = e THEN After(row[e], CHOOSE d \in plan : d.e = e)
       ELSE row[e]]
  /\ jobs' = jobs \cup {StepJob(a, d) : d \in sent}
  /\ touches' = [e \in Enrollment |->
       IF \E d \in sent : d.e = e THEN touches[e] + 1 ELSE touches[e]]
  /\ Close(a)
  /\ round' = [round EXCEPT ![a] = NoRound]
  /\ Steady /\ UNCHANGED <<requests, faults, sequence, paused, list>>

\* A row that is gone cannot be updated (StaleDataError): all rolled back.
TickFails(a) ==
  /\ tx[a].op = "tick" /\ ~Exists
  /\ Close(a)
  /\ round' = [round EXCEPT ![a] = NoRound]
  /\ Steady /\ UNCHANGED <<TickVars, requests>>

\* A day passes: what was put off is due.
Day ==
  /\ \A a \in Actor : tx[a].op # "tick"
  /\ \E e \in Enrollment : row[e].next = "later" \/ touches[e] # 0
  /\ row' = [e \in Enrollment |->
       IF row[e].next = "later" THEN [row[e] EXCEPT !.next = "now"] ELSE row[e]]
  /\ touches' = [e \in Enrollment |-> 0]
  /\ Steady /\ UNCHANGED <<jobs, tx, requests, faults, sequence, paused, list, round>>

-----------------------------------------------------------------------------
(***************************************************************************)
(* People.                                                                 *)
(***************************************************************************)

StopEnrollment(a, e) ==
  /\ Starts(a, "stop")
  /\ row[e].status = "active" /\ ~Locked(e)
  /\ row' = [row EXCEPT ![e].status = "stopped", ![e].next = "never"]
  /\ Steady /\ UNCHANGED <<jobs, tx, faults, cadenceVars>>

UpdateSequence(a, n, active) ==
  /\ Starts(a, "edit")
  /\ Exists
  /\ sequence' = [steps |-> n, active |-> active]
  /\ sequence' # sequence
  /\ Steady /\ UNCHANGED <<row, jobs, tx, faults, paused, list, round, touches>>

PauseCampaign(a) ==
  /\ Starts(a, "pause")
  /\ paused' = ~paused
  /\ Steady /\ UNCHANGED <<row, jobs, tx, faults, sequence, list, round, touches>>

\* Only a sequence nobody is in is deleted: counted first ...
DeleteCheck(a) ==
  /\ Starts(a, "delete")
  /\ Exists /\ \A e \in Enrollment : row[e].status # "active"
  /\ Hold(a, [Idle EXCEPT !.op = "delete"])
  /\ Steady /\ UNCHANGED <<row, jobs, faults, cadenceVars>>

\* ... then deleted, with every row it has by now (ON DELETE CASCADE).
DeleteCommit(a) ==
  /\ tx[a].op = "delete"
  /\ \A e \in Enrollment : ~Locked(e)
  /\ sequence' = [steps |-> 0, active |-> FALSE]
  /\ row' = [e \in Enrollment |-> NoRow]
  /\ touches' = [e \in Enrollment |-> 0]
  /\ Close(a)
  /\ Steady /\ UNCHANGED <<jobs, requests, faults, paused, list, round>>

CadencesNext ==
  \/ Day
  \/ \E a \in Actor :
       \/ \E l \in Lists : EnrollBegin(a, l)
       \/ EnrollSkip(a) \/ EnrollInsert(a) \/ EnrollWakes(a)
       \/ EnrollFails(a) \/ EnrollCommit(a)
       \/ TickBegin(a) \/ TickOne(a) \/ TickCommit(a) \/ TickFails(a)
       \/ \E e \in Enrollment : StopEnrollment(a, e)
       \/ \E n \in 1 .. MaxSteps, active \in BOOLEAN : UpdateSequence(a, n, active)
       \/ PauseCampaign(a) \/ DeleteCheck(a) \/ DeleteCommit(a)

=============================================================================
