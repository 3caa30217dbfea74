----------------------------- MODULE Prospects ------------------------------
(***************************************************************************)
(* The rows that the funnel, the inbox and the cadences of a tenant share  *)
(* (app/db/models/sales.py and engagement.py), and the sessions that read  *)
(* and write them.                                                         *)
(*                                                                         *)
(* A session belongs to a worker, which does one thing at a time, or to a  *)
(* request at the desk (the API).  It reads, does something slow, then     *)
(* writes what follows from what it has read: rows carry no version, and   *)
(* PostgreSQL runs at READ COMMITTED, so other sessions commit in between. *)
(* tx[a] is what the session of a has read and not yet written.            *)
(*                                                                         *)
(* A prospect has one conversation, which exists once it has messages.     *)
(* Texts, channels, owners and the status of the conversation itself,      *)
(* which no rule reads, are left out.                                      *)
(***************************************************************************)
EXTENDS Integers, Sequences, FiniteSets

CONSTANTS
  Contact, Prospect,
  ContactOf,       \* the contact of each prospect
  Actor,           \* the sessions: workers and requests
  Worker,          \* the actors that are worker processes
  Scenario,        \* instances: what each actor may do, on which prospects,
                   \* and a bound on the requests to the desk
  MaxMessages,     \* bound on the messages of a conversation
  MaxEnrollments,  \* bound on the rows of sequence_enrollments
  MaxFaults        \* bound on broken connections, crashes and dead jobs

Operation == {"score", "review", "send", "inbound", "meeting", "unsubscribe",
              "optout", "reply", "ask", "outreach", "converse", "qualify",
              "fetch", "enroll", "tick", "stop", "edit", "pause", "delete"}

Enrollment == 1 .. MaxEnrollments

ASSUME ProspectsAssumption ==
  /\ ContactOf \in [Prospect -> Contact]
  /\ Worker \subseteq Actor /\ IsFiniteSet(Actor)
  /\ \A s \in Scenario : /\ s.may \in [Actor -> SUBSET Operation]
                         /\ s.on \subseteq Prospect /\ s.requests \in Nat
  /\ {MaxMessages, MaxEnrollments, MaxFaults} \subseteq Nat

VARIABLES
  scenario,   \* the instance that runs
  status,     \* Prospect.status
  optedOut,   \* contacts with opted_out
  history,    \* the messages of each conversation, in the order of created_at
  met,        \* prospects with a row in meetings
  judged,     \* prospects with a row in qualifications
  row,        \* sequence_enrollments
  paused,     \* the campaign is paused
  jobs,       \* live jobs of kind agent_run
  tx,         \* what each session has in flight
  unattended, \* history: replies whose dispatch was lost or left to a person
  requests, faults

prospectVars == <<status, optedOut, history, met, judged>>
shared == <<scenario, prospectVars, row, jobs, tx, unattended, requests, faults>>

Status == {"new", "scored", "contacted", "engaged", "qualified",
           "meeting_booked", "disqualified", "bounced"}

\* No cadence and no cold email beyond these.
Terminal == {"qualified", "meeting_booked", "disqualified", "bounced"}

\* kind: an approach, an answer to a reply, or what the lead wrote.  mail: the
\* email a recorded reply came in (0: typed in by a person).
MessageRec == [kind   : {"cold", "answer", "reply"},
               status : {"draft", "queued", "sent", "bounced", "replied"},
               mail   : Nat]

RowRec == [on : Prospect \cup {"nobody"},
           status : {"absent", "active", "stopped", "completed"},
           step : Nat, next : {"now", "later", "never"}]

NoRow == [on |-> "nobody", status |-> "absent", step |-> 0, next |-> "never"]

\* key: the dedupe_key, <<0, 0>> for agent:prospect, <<e, k>> for a step of a
\* cadence.  by: who enqueued it, which keeps two jobs of one key apart.
JobRec == [agent : {"outreach", "conversation"}, on : Prospect,
           key : Nat \X Nat, by : Actor]

Plain == <<0, 0>>

Job(agent, p, key, a) == [agent |-> agent, on |-> p, key |-> key, by |-> a]

\* saw: the status read.  n: a number read with it.  job: the job that is run.
\* rows: enrolments flushed, so locked, and not committed.  barred: the contact
\* had opted out when the prospect was read (history).
TxRec == [op : Operation \cup {"idle", "mark"}, on : Prospect \cup {"nobody"},
          saw : Status \cup {"none", "known"}, n : Nat,
          job : SUBSET JobRec, rows : SUBSET Enrollment, barred : BOOLEAN]

Idle == [op |-> "idle", on |-> "nobody", saw |-> "none", n |-> 0,
         job |-> {}, rows |-> {}, barred |-> FALSE]

Idling(a) == tx[a].op = "idle"

May(a, op) == op \in scenario.may[a]

-----------------------------------------------------------------------------
(***************************************************************************)
(* What the sessions are built from.                                       *)
(***************************************************************************)

\* A session starts: one of a request counts against the bound.
Starts(a, op) ==
  /\ Idling(a) /\ May(a, op)
  /\ IF a \in Worker THEN UNCHANGED requests
     ELSE requests < scenario.requests /\ requests' = requests + 1

Hold(a, t) == tx' = [tx EXCEPT ![a] = t]

Close(a) == Hold(a, Idle)

Fault == /\ faults < MaxFaults
         /\ faults' = faults + 1

Indices(p, kinds) == {i \in DOMAIN history[p] : history[p][i].kind \in kinds}

Replied(p) == Indices(p, {"reply"}) # {}

\* The room kept for what sessions in flight may still write.
Room(p) ==
  Len(history[p]) + Cardinality({a \in Actor : tx[a].on = p}) < MaxMessages

Write(p, kind, st, mail) ==
  history' = [history EXCEPT ![p] =
                Append(@, [kind |-> kind, status |-> st, mail |-> mail])]

\* The ORM writes a column only if its value differs from the one it read.
Move(p, saw, to) ==
  status' = IF saw = to THEN status ELSE [status EXCEPT ![p] = to]

Family(c) == {p \in Prospect : ContactOf[p] = c}

MoveFamily(c, to) ==
  status' = [p \in Prospect |-> IF p \in Family(c) THEN to ELSE status[p]]

Active(p) == {e \in Enrollment : row[e].on = p /\ row[e].status = "active"}

\* Why a cadence must not send its next touch (motivo_de_parada).
MustStop(p) ==
  \/ status[p] \in Terminal
  \/ ContactOf[p] \in optedOut
  \/ Replied(p) \/ p \in met \/ p \in judged

\* enqueue does nothing if a live job has the key.
Free(j) == \A i \in jobs : <<i.agent, i.on, i.key>> # <<j.agent, j.on, j.key>>

Locked(e) == \E a \in Actor : e \in tx[a].rows

\* Mutant: a reply engages whoever is not a customer yet.
EngagesAll(saw) == saw \notin {"qualified", "meeting_booked"}

\* Who answers is engaged, unless further on or out.
Engages(saw) == saw \notin {"qualified", "meeting_booked", "disqualified"}

SentCold == [kind |-> "cold", status |-> "sent", mail |-> 0]

ProspectsInit ==
  /\ scenario \in Scenario
  /\ \E st \in {"new", "contacted"} :
       /\ status = [p \in Prospect |-> st]
       /\ history = [p \in Prospect |-> IF st = "new" THEN <<>> ELSE <<SentCold>>]
  /\ optedOut = {} /\ met = {} /\ judged = {}
  /\ row = [e \in Enrollment |-> NoRow]
  /\ jobs = {} /\ unattended = {}
  /\ tx = [a \in Actor |-> Idle]
  /\ requests = 0 /\ faults = 0

=============================================================================
