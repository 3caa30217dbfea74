------------------------------- MODULE Funnel -------------------------------
(***************************************************************************)
(* How a prospect moves through the funnel: the scoring of an account, the *)
(* agents that write to it and judge it (app/orchestrator/executors), the  *)
(* email that leaves (services/email_sender.py), and what people do in     *)
(* app/api/v1/prospects.py, contacts.py, conversations.py and public.py.   *)
(*                                                                         *)
(* An agent loads, asks a model, and persists: two steps here, with the    *)
(* answer of the model a choice.  The review and the sending are those of  *)
(* Outbox, reduced to what the funnel sees of them.  The daily cap, a      *)
(* missing piece of research and a model that refuses are one choice: the  *)
(* agent gives up.                                                         *)
(***************************************************************************)
EXTENDS Prospects

Here == UNCHANGED <<scenario, row, unattended>>

\* A session that writes in one step: nothing it reads can change under it.
AtOnce(a, op, p) ==
  /\ Starts(a, op) /\ p \in scenario.on
  /\ UNCHANGED <<jobs, tx, faults>> /\ Here

\* A session that has read p, and n of its messages.
Reads(a, op, p, n, job) ==
  /\ Starts(a, op)
  /\ Hold(a, [Idle EXCEPT !.op = op, !.on = p, !.saw = status[p], !.n = n, !.job = job,
                          !.barred = ContactOf[p] \in optedOut])
  /\ UNCHANGED <<prospectVars, jobs, faults>> /\ Here

\* A session that writes what it has read about p, and ends; so does its job.
Writes(a, op, p) ==
  /\ tx[a].op = op /\ tx[a].on = p
  /\ Close(a)
  /\ jobs' = jobs \ tx[a].job
  /\ UNCHANGED <<requests, faults>> /\ Here

-----------------------------------------------------------------------------
(***************************************************************************)
(* People and the public link.                                             *)
(***************************************************************************)

\* A score moves only who is not further (apply_to_prospects).
Unscored(p) == status[p] = "new"

\* The research of the account is done: the prospects are read after the model
\* has answered.  Here an account has one prospect.
Score(a, p) ==
  /\ AtOnce(a, "score", p)
  /\ Unscored(p)
  /\ status' = [status EXCEPT ![p] = "scored"]
  /\ UNCHANGED <<optedOut, history, met, judged>>

\* A person approves a draft.
Approve(a, p, i) ==
  /\ AtOnce(a, "review", p)
  /\ history[p][i].status = "draft"
  /\ history' = [history EXCEPT ![p][i].status = "queued"]
  /\ UNCHANGED <<status, optedOut, met, judged>>

\* Booking asks for nothing: a meeting is a fact.
BookMeeting(a, p) ==
  /\ AtOnce(a, "meeting", p)
  /\ met' = met \cup {p}
  /\ status' = [status EXCEPT ![p] = "meeting_booked"]
  /\ UNCHANGED <<optedOut, history, judged>>

\* The link in the email: every prospect of the contact leaves the funnel.
Unsubscribe(a, p) ==
  /\ AtOnce(a, "unsubscribe", p)
  /\ optedOut' = optedOut \cup {ContactOf[p]}
  /\ MoveFamily(ContactOf[p], "disqualified")
  /\ UNCHANGED <<history, met, judged>>

\* A person marks the contact: the prospects stay where they are.
OptOutByHand(a, p) ==
  /\ AtOnce(a, "optout", p)
  /\ optedOut' = optedOut \cup {ContactOf[p]}
  /\ UNCHANGED <<status, history, met, judged>>

\* A person writes the answer; it is a draft like any other.
WriteReply(a, p) ==
  /\ AtOnce(a, "reply", p)
  /\ history[p] # <<>> /\ Room(p)
  /\ ContactOf[p] \notin optedOut
  /\ Write(p, "answer", "draft", 0)
  /\ UNCHANGED <<status, optedOut, met, judged>>

\* A run asked for is put in the queue, once for an agent and a prospect.
AskForRun(a, agent, p) ==
  /\ Starts(a, "ask") /\ p \in scenario.on
  /\ agent = "conversation" => history[p] # <<>>
  /\ Free(Job(agent, p, Plain, a))
  /\ jobs' = jobs \cup {Job(agent, p, Plain, a)}
  /\ UNCHANGED <<prospectVars, tx, faults>> /\ Here

\* A reply typed in by hand: the prospect is read, then the session commits.
InboundBegin(a, p) ==
  /\ p \in scenario.on /\ Room(p)
  /\ Reads(a, "inbound", p, 0, {})

InboundCommit(a, p) ==
  /\ Writes(a, "inbound", p)
  /\ Write(p, "reply", "replied", 0)
  /\ IF Engages(tx[a].saw) THEN Move(p, tx[a].saw, "engaged") ELSE UNCHANGED status
  /\ UNCHANGED <<optedOut, met, judged>>

-----------------------------------------------------------------------------
(***************************************************************************)
(* An approved message leaves: check, transport, commit.                   *)
(***************************************************************************)

SendCheck(a, p, i) ==
  /\ history[p][i].status = "queued"
  /\ ContactOf[p] \notin optedOut
  /\ Reads(a, "send", p, i, {})

SendCommit(a, p) ==
  /\ Writes(a, "send", p)
  /\ history' = [history EXCEPT ![p][tx[a].n].status = "sent"]
  /\ IF tx[a].saw \in {"new", "scored"} THEN Move(p, tx[a].saw, "contacted")
     ELSE UNCHANGED status
  /\ UNCHANGED <<optedOut, met, judged>>

-----------------------------------------------------------------------------
(***************************************************************************)
(* The agents.  A worker runs those of the queue, a request (POST /runs)   *)
(* the one it names.                                                       *)
(***************************************************************************)

\* What an actor may run on p now: a job of the queue nobody runs, or, on
\* request, no job at all.
Calls(a, agent, p) ==
  IF a \in Worker
  THEN {{j} : j \in {i \in jobs : /\ i.agent = agent /\ i.on = p
                                /\ \A b \in Actor : tx[b].job # {i}}}
  ELSE IF p \in scenario.on THEN {{}} ELSE {}

\* Mutant: the lead may have replied, as the cadence has looked already.
AnyTime(p) == status[p] \notin Terminal

\* The stop rules again, at the last moment (_checar_regras_de_parada).
MayApproach(p) == status[p] \notin Terminal /\ ~Replied(p)

OutreachLoad(a, p) ==
  /\ ContactOf[p] \notin optedOut /\ ~paused
  /\ MayApproach(p)
  /\ Room(p)
  /\ \E job \in Calls(a, "outreach", p) : Reads(a, "outreach", p, Len(history[p]), job)

OutreachPersist(a, p) ==
  /\ Writes(a, "outreach", p)
  /\ Write(p, "cold", "draft", 0)
  /\ UNCHANGED <<status, optedOut, met, judged>>

\* Something of ours has left, or is about to, after the last reply.
Answered(p) ==
  \E i \in Indices(p, {"cold", "answer"}) :
    /\ history[p][i].status \in {"queued", "sent"}
    /\ \A j \in Indices(p, {"reply"}) : j < i

ConverseLoad(a, p) ==
  /\ Replied(p) /\ ~Answered(p)
  /\ Room(p)
  /\ \E job \in Calls(a, "conversation", p) :
       Reads(a, "converse", p, Len(history[p]), job)

\* The lead wants no more email: obeyed whatever the text says.
ConverseOptOut(a, p) ==
  /\ Writes(a, "converse", p)
  /\ optedOut' = optedOut \cup {ContactOf[p]}
  /\ Move(p, tx[a].saw, "disqualified")
  /\ Write(p, "answer", "draft", 0)
  /\ UNCHANGED <<met, judged>>

ConversePersist(a, p) ==
  /\ Writes(a, "converse", p)
  /\ IF tx[a].saw \in {"contacted", "scored"} THEN Move(p, tx[a].saw, "engaged")
     ELSE UNCHANGED status
  /\ Write(p, "answer", "draft", 0)
  /\ UNCHANGED <<optedOut, met, judged>>

\* No verdict undoes an opt-out: checked before the model is asked.
QualifyLoad(a, p) ==
  /\ p \in scenario.on
  /\ ContactOf[p] \notin optedOut
  /\ Reads(a, "qualify", p, 0, {})

\* What the model may say; backed by evidence for each criterion, or too thin to
\* call the lead qualified (_enforce_evidence).
Judged(says, backed) ==
  IF says = "qualified" /\ ~backed THEN "needs_more_info" ELSE says

Outcome == {Judged(says, backed) : says \in {"qualified", "disqualified", "needs_more_info"},
                                   backed \in BOOLEAN}

QualifyPersist(a, p, outcome) ==
  /\ Writes(a, "qualify", p)
  /\ judged' = judged \cup {p}
  /\ IF outcome \in {"qualified", "disqualified"} THEN Move(p, tx[a].saw, outcome)
     ELSE UNCHANGED status
  /\ UNCHANGED <<optedOut, history, met>>

\* The model refuses, the answer is cut, the cap is reached: nothing written.
\* The job waits for its next try.
AgentGivesUp(a) ==
  /\ tx[a].op \in {"outreach", "converse", "qualify"}
  /\ Close(a)
  /\ UNCHANGED <<prospectVars, jobs, requests, faults>> /\ Here

\* A job that is refused, or has failed too often, is dead.
JobDies(j) ==
  /\ j \in jobs
  /\ \A a \in Actor : tx[a].job # {j}
  /\ jobs' = jobs \ {j}
  /\ IF j.agent = "outreach" \/ Answered(j.on) THEN UNCHANGED <<unattended, faults>>
     ELSE Fault /\ unattended' = unattended \cup {j.on}
  /\ UNCHANGED <<scenario, prospectVars, row, tx, requests>>

-----------------------------------------------------------------------------

People(a, p) ==
  \/ Score(a, p) \/ BookMeeting(a, p) \/ Unsubscribe(a, p) \/ OptOutByHand(a, p)
  \/ WriteReply(a, p) \/ InboundBegin(a, p) \/ InboundCommit(a, p)
  \/ \E i \in DOMAIN history[p] : Approve(a, p, i)
  \/ \E agent \in {"outreach", "conversation"} : AskForRun(a, agent, p)

Sending(a, p) ==
  SendCommit(a, p) \/ \E i \in DOMAIN history[p] : SendCheck(a, p, i)

Agents(a, p) ==
  \/ OutreachLoad(a, p) \/ OutreachPersist(a, p)
  \/ ConverseLoad(a, p) \/ ConversePersist(a, p) \/ ConverseOptOut(a, p)
  \/ QualifyLoad(a, p)
  \/ \E outcome \in Outcome : QualifyPersist(a, p, outcome)

FunnelNext ==
  \/ \E a \in Actor, p \in Prospect : People(a, p) \/ Sending(a, p) \/ Agents(a, p)
  \/ \E a \in Actor : AgentGivesUp(a)
  \/ \E j \in jobs : JobDies(j)

=============================================================================
