------------------------------- MODULE Outbox -------------------------------
(***************************************************************************)
(* How a draft becomes an email: the human gate of app/api/v1/messages.py  *)
(* (approve, reject, requeue, send) and app/services/email_sender.py       *)
(* (send_message, send_queued, allowance_today, _record_failure).          *)
(*                                                                         *)
(* A sender is a session that sends: the send_queued job of the worker, or *)
(* a request to /send-queued or /{id}/send.  The reads of send_message,    *)
(* the SMTP transport and the commit are three steps.  Sessions keep what  *)
(* they have read (expire_on_commit=False) until they roll back: the       *)
(* status of a message of a batch is the one the batch was loaded with.    *)
(*                                                                         *)
(* Message ids are numbers in the order of created_at.  Texts, addresses   *)
(* and headers are left out, and so is the growth of the limit while the   *)
(* domain warms up: Limit is the limit of the day.                         *)
(***************************************************************************)
EXTENDS Integers, FiniteSets

CONSTANTS
  MaxMessages,  \* bound on the messages ever drafted
  Contact,
  To,           \* the contact each message goes to
  Sender,       \* sessions that send
  Desk,         \* those that send one message (/{id}/send), not a batch
  Reviewer,     \* requests that review
  Leavers,      \* contacts that may ask to receive nothing more
  Limit,        \* emails a day
  Batch,        \* `limit` of send_queued
  MaxRequeues,  \* bound on messages put back by hand
  MaxFaults     \* bound on crashes, broken commits and lost answers

Message == 1 .. MaxMessages

ASSUME OutboxAssumption ==
  /\ MaxMessages \in Nat
  /\ To \in [Message -> Contact]
  /\ Leavers \subseteq Contact
  /\ Desk \subseteq Sender /\ IsFiniteSet(Sender)
  /\ Limit \in Nat \ {0} /\ Batch \in Nat \ {0}
  /\ MaxRequeues \in Nat /\ MaxFaults \in Nat

VARIABLES
  status,      \* Message.status
  optedOut,    \* contacts with opted_out
  today,       \* messages whose sent_at is within a day
  known,       \* messages with an external_message_id
  open,        \* it is business time
  review,      \* what each reviewer is about to write, after the check
  pc,          \* where each sender is
  fila,        \* messages a sender still has to go through
  cached,      \* the sender's statuses are those of the batch SELECT
  inTime,      \* business time when the sender fixed its clock (agora)
  approved,    \* history: messages a person approved
  deliveries,  \* history: times the mail server accepted the message
  late,        \* history: emails a contact got after asking to leave
  outToday,    \* history: emails the server accepted within a day
  requeues, faults

senderVars == <<pc, fila, cached, inTime>>
history    == <<approved, deliveries, late, outToday>>
vars == <<status, optedOut, today, known, open, review, senderVars, history, requeues, faults>>

MessageStatus == {"absent", "draft", "rejected", "queued", "sent", "bounced", "failed"}

Place == {"idle", "check", "transport", "commit", "record"}

NoReview == [message |-> 0, to |-> "draft"]

\* The history counters stop here.
MaxCount == MaxMessages * (MaxRequeues + MaxFaults + Cardinality(Sender))

Up(n) == IF n < MaxCount THEN n + 1 ELSE n

OutboxTypeOK ==
  /\ status \in [Message -> MessageStatus]
  /\ optedOut \subseteq Contact
  /\ today \subseteq Message
  /\ known \subseteq Message
  /\ open \in BOOLEAN
  /\ review \in [Reviewer -> {NoReview} \cup [message : Message,
                                              to : {"queued", "rejected"}]]
  /\ pc \in [Sender -> Place]
  /\ fila \in [Sender -> SUBSET Message]
  /\ \A s \in Sender : pc[s] # "idle" => fila[s] # {}
  /\ cached \in [Sender -> BOOLEAN]
  /\ inTime \in [Sender -> BOOLEAN]
  /\ approved \subseteq Message
  /\ deliveries \in [Message -> 0 .. MaxCount]
  /\ late \in [Contact -> 0 .. MaxCount]
  /\ outToday \in 0 .. MaxCount
  /\ requeues \in 0 .. MaxRequeues
  /\ faults \in 0 .. MaxFaults

Init ==
  /\ status = [m \in Message |-> "absent"]
  /\ optedOut = {} /\ today = {} /\ known = {} /\ open = TRUE
  /\ review = [r \in Reviewer |-> NoReview]
  /\ pc = [s \in Sender |-> "idle"]
  /\ fila = [s \in Sender |-> {}]
  /\ cached = [s \in Sender |-> FALSE]
  /\ inTime = [s \in Sender |-> FALSE]
  /\ approved = {}
  /\ deliveries = [m \in Message |-> 0]
  /\ late = [c \in Contact |-> 0]
  /\ outToday = 0
  /\ requeues = 0 /\ faults = 0

Fault == /\ faults < MaxFaults
         /\ faults' = faults + 1

First(S) == CHOOSE m \in S : \A n \in S : m <= n

-----------------------------------------------------------------------------
(***************************************************************************)
(* Drafts, and the gate: each request reads the message, checks its status *)
(* and writes the new one when its session commits.                        *)
(***************************************************************************)

\* An agent or a person has written a message (_persist, write_reply).
Draft(m) ==
  /\ status[m] = "absent"
  /\ \A n \in Message : n < m => status[n] # "absent"
  /\ status' = [status EXCEPT ![m] = "draft"]
  /\ UNCHANGED <<optedOut, today, known, open, review, senderVars, history, requeues, faults>>

Review(r, m, s) ==
  /\ review[r] = NoReview
  /\ review' = [review EXCEPT ![r] = [message |-> m, to |-> s]]
  /\ UNCHANGED <<status, optedOut, today, known, open, senderVars, history, faults>>

\* Mutant: approve and reject take any message (_draft_or_404 without the check).
AnyWritten(m) == status[m] # "absent"

Reviewable(m) == status[m] = "draft"

ApproveCheck(r, m) ==
  /\ Reviewable(m)
  /\ Review(r, m, "queued")
  /\ UNCHANGED requeues

RejectCheck(r, m) ==
  /\ Reviewable(m)
  /\ Review(r, m, "rejected")
  /\ UNCHANGED requeues

RequeueCheck(r, m) ==
  /\ status[m] = "failed"
  /\ requeues < MaxRequeues
  /\ requeues' = requeues + 1
  /\ Review(r, m, "queued")

ReviewCommit(r) ==
  /\ review[r] # NoReview
  /\ LET m == review[r].message
     IN /\ status' = [status EXCEPT ![m] = review[r].to]
        /\ approved' = IF review[r].to = "queued" THEN approved \cup {m} ELSE approved
  /\ review' = [review EXCEPT ![r] = NoReview]
  /\ UNCHANGED <<optedOut, today, known, open, senderVars, deliveries, late, outToday,
                 requeues, faults>>

-----------------------------------------------------------------------------
(***************************************************************************)
(* The world: people leave, mail bounces, hours and days pass.             *)
(***************************************************************************)

\* The unsubscribe link, or any other way to set opted_out.
OptOut(c) ==
  /\ c \in Leavers \ optedOut
  /\ optedOut' = optedOut \cup {c}
  /\ UNCHANGED <<status, today, known, open, review, senderVars, history, requeues, faults>>

\* A delivery notice comes back and names the message by its Message-ID
\* (_registrar_bounce): whatever the status is, it is overwritten.
Bounce(m) ==
  /\ m \in known
  /\ status[m] # "bounced"
  /\ status' = [status EXCEPT ![m] = "bounced"]
  /\ UNCHANGED <<optedOut, today, known, open, review, senderVars, history, requeues, faults>>

HoursChange ==
  /\ open' = ~open
  /\ UNCHANGED <<status, optedOut, today, known, review, senderVars, history, requeues, faults>>

NewDay ==
  /\ today # {} \/ outToday # 0
  /\ today' = {}
  /\ outToday' = 0
  /\ UNCHANGED <<status, optedOut, known, open, review, senderVars, approved, deliveries,
                 late, requeues, faults>>

-----------------------------------------------------------------------------
(***************************************************************************)
(* A sender takes up messages.                                             *)
(***************************************************************************)

Queued == {m \in Message : status[m] = "queued"}

Take(s, S) ==
  /\ pc[s] = "idle"
  /\ S # {}
  /\ fila' = [fila EXCEPT ![s] = S]
  /\ cached' = [cached EXCEPT ![s] = s \notin Desk]
  /\ inTime' = [inTime EXCEPT ![s] = open]
  /\ pc' = [pc EXCEPT ![s] = "check"]
  /\ UNCHANGED <<status, optedOut, today, known, open, review, history, requeues, faults>>

\* send_queued: the oldest Batch approved messages.
TakeBatch(s) ==
  /\ s \notin Desk
  /\ Take(s, {m \in Queued : Cardinality({n \in Queued : n < m}) < Batch})

TakeOne(s, m) ==
  /\ s \in Desk
  /\ status[m] # "absent"
  /\ Take(s, {m})

At(s, place) == pc[s] = place

Goto(s, place) == pc' = [pc EXCEPT ![s] = place]

Current(s) == First(fila[s])

\* The sender is done with the current message: the next one, or the end.
Advance(s) ==
  /\ Goto(s, IF fila[s] = {Current(s)} THEN "idle" ELSE "check")
  /\ fila' = [fila EXCEPT ![s] = @ \ {Current(s)}]
  /\ UNCHANGED inTime

\* The sender ends whatever it has left.
Stop(s) ==
  /\ Goto(s, "idle")
  /\ fila' = [fila EXCEPT ![s] = {}]
  /\ UNCHANGED inTime

-----------------------------------------------------------------------------
(***************************************************************************)
(* send_message up to the transport.                                       *)
(***************************************************************************)

\* Mutant: send_message does not look at the status.
SeenAny(s) == TRUE

\* mensagem.status as the sender's session sees it.
SeenQueued(s) == cached[s] \/ status[Current(s)] = "queued"

\* Mutant: the contact is not asked.
NaoPergunta(s) == FALSE

Descadastrado(s) == To[Current(s)] \in optedOut

SentToday == Cardinality({m \in today : status[m] = "sent"})

\* Mutant: off by one (remaining < 0).
CotaSobrando == SentToday <= Limit

Cota == SentToday < Limit

CheckPasses(s) ==
  /\ At(s, "check")
  /\ SeenQueued(s) /\ ~Descadastrado(s) /\ inTime[s] /\ Cota
  /\ Goto(s, "transport")
  /\ UNCHANGED <<status, optedOut, today, known, open, review, fila, cached, inTime,
                 history, requeues, faults>>

\* SendBlocked for this message: it stays as it is, and the next one is tried.
Skip(s) ==
  /\ At(s, "check")
  /\ ~SeenQueued(s) \/ Descadastrado(s)
  /\ Advance(s)
  /\ UNCHANGED <<status, optedOut, today, known, open, review, cached, history, requeues, faults>>

\* SendBlocked for the hour or the limit: the whole batch ends.
Blocked(s) ==
  /\ At(s, "check")
  /\ SeenQueued(s) /\ ~Descadastrado(s) /\ ~(inTime[s] /\ Cota)
  /\ Stop(s)
  /\ UNCHANGED <<status, optedOut, today, known, open, review, cached, history, requeues, faults>>

-----------------------------------------------------------------------------
(***************************************************************************)
(* The transport and what follows.                                         *)
(***************************************************************************)

Accepted(s) ==
  LET m == Current(s)
  IN /\ deliveries' = [deliveries EXCEPT ![m] = Up(@)]
     /\ late' = IF To[m] \in optedOut THEN [late EXCEPT ![To[m]] = Up(@)] ELSE late
     /\ outToday' = Up(outToday)
     /\ UNCHANGED approved

TransportAccepts(s) ==
  /\ At(s, "transport")
  /\ Accepted(s)
  /\ Goto(s, "commit")
  /\ UNCHANGED <<status, optedOut, today, known, open, review, fila, cached, inTime,
                 requeues, faults>>

\* The session is rolled back, so that the statuses will be read again.
RollBack(s) ==
  /\ Goto(s, "record")
  /\ cached' = [cached EXCEPT ![s] = FALSE]
  /\ UNCHANGED <<status, optedOut, today, known, open, review, fila, inTime, requeues>>

\* SMTPException or OSError.
TransportFails(s) ==
  /\ At(s, "transport")
  /\ RollBack(s)
  /\ UNCHANGED <<history, faults>>

\* The server took the email, the connection dropped before it said so.
AnswerLost(s) ==
  /\ Fault
  /\ At(s, "transport")
  /\ Accepted(s)
  /\ RollBack(s)

\* An exception that is no SendFailed: the batch goes on to record a failure,
\* the request for one message just fails and records nothing.
Escapes(s) ==
  \/ s \notin Desk /\ RollBack(s)
  \/ /\ s \in Desk /\ Stop(s)
     /\ UNCHANGED <<status, optedOut, today, known, open, review, cached, requeues>>

\* A defect before the transport: no account, a text that cannot be sent.
Defect(s) ==
  /\ At(s, "transport")
  /\ Escapes(s)
  /\ UNCHANGED <<history, faults>>

\* Mutant: a failure puts the message back in the queue.
BackToQueue(s) ==
  /\ At(s, "record")
  /\ status' = [status EXCEPT ![Current(s)] = "queued"]
  /\ Advance(s)
  /\ UNCHANGED <<optedOut, today, known, open, review, cached, history, requeues, faults>>

\* _record_failure, in a session of its own.
RecordFailure(s) ==
  /\ At(s, "record")
  /\ status' = [status EXCEPT ![Current(s)] = "failed"]
  /\ Advance(s)
  /\ UNCHANGED <<optedOut, today, known, open, review, cached, history, requeues, faults>>

CommitSent(s) ==
  /\ At(s, "commit")
  /\ status' = [status EXCEPT ![Current(s)] = "sent"]
  /\ today' = today \cup {Current(s)}
  /\ known' = known \cup {Current(s)}
  /\ Advance(s)
  /\ UNCHANGED <<optedOut, open, review, cached, history, requeues, faults>>

\* The server has the email and the commit of the session fails.
CommitBreaks(s) ==
  /\ Fault
  /\ At(s, "commit")
  /\ Escapes(s)
  /\ UNCHANGED history

\* The process dies.
CrashSender(s) ==
  /\ Fault
  /\ ~At(s, "idle")
  /\ Stop(s)
  /\ UNCHANGED <<status, optedOut, today, known, open, review, cached, history, requeues>>

-----------------------------------------------------------------------------
SenderStep(s) ==
  \/ CheckPasses(s) \/ Skip(s) \/ Blocked(s)
  \/ TransportAccepts(s) \/ TransportFails(s) \/ Defect(s)
  \/ RecordFailure(s) \/ CommitSent(s)

SenderFault(s) == AnswerLost(s) \/ CommitBreaks(s) \/ CrashSender(s)

ReviewStep(r) ==
  \/ \E m \in Message : ApproveCheck(r, m) \/ RejectCheck(r, m) \/ RequeueCheck(r, m)
  \/ ReviewCommit(r)

Next ==
  \/ \E m \in Message : Draft(m) \/ Bounce(m)
  \/ \E r \in Reviewer : ReviewStep(r)
  \/ \E c \in Contact : OptOut(c)
  \/ HoursChange \/ NewDay
  \/ \E s \in Sender : \/ TakeBatch(s) \/ \E m \in Message : TakeOne(s, m)
                       \/ SenderStep(s) \/ SenderFault(s)

Spec == Init /\ [][Next]_vars

(***************************************************************************)
(* Fairness.  A sender that has begun goes on, days pass, and a request    *)
(* that has checked commits.  Business time begins again and again while   *)
(* the job that sends is not running (before it begins a batch ends at its *)
(* first message), and lasts far longer than the five minutes after which  *)
(* send_queued is scheduled, so it is also run again and again in business *)
(* time.  People are not fair: nobody has to review, requeue or leave.     *)
(***************************************************************************)
Fairness ==
  /\ \A s \in Sender : /\ WF_vars(SenderStep(s))
                       /\ SF_vars(HoursChange /\ ~open /\ At(s, "idle"))
                       /\ SF_vars(TakeBatch(s) /\ open)
  /\ WF_vars(NewDay)
  /\ \A r \in Reviewer : WF_vars(ReviewCommit(r))

FairSpec == Spec /\ Fairness

-----------------------------------------------------------------------------
(***************************************************************************)
(* Properties.                                                             *)
(***************************************************************************)

(* Nothing leaves that a person has not approved (messages.py:3, "nada sai   *)
(* daqui sem uma pessoa aprovar"), whatever raced, failed or was requeued.   *)
DeliveredWasApproved == {m \in Message : deliveries[m] > 0} \subseteq approved

(* What a reviewer barred has not left and never will.                       *)
RejectedStaysHome ==
  \A m \in Message : status[m] = "rejected" => deliveries[m] = 0

(* An email leaves a second time only after a fault: a crash or a broken     *)
(* commit after the transport, or an answer of the server that got lost.     *)
SecondDeliveryNeedsFault == \A m \in Message : deliveries[m] <= 1 + faults

(* The record of who has received stays: "uma falha mais adiante na fila nao *)
(* desfaz o registro de quem ja recebeu" (email_sender.py:483-484).          *)
SentIsNotForgotten ==
  [][\A m \in Message : status[m] = "sent" => status'[m] \in {"sent", "bounced"}]_vars

(* After a contact has asked to leave (email_sender.py:6-7), each sender may *)
(* let out the one email it had in hand, and no other.                       *)
OptOutStopsTheRest == \A c \in Contact : late[c] <= Cardinality(Sender)

(* Senders side by side overshoot the limit of the day by less than one      *)
(* email each.                                                               *)
LimitOvershootIsBounded == SentToday <= Limit + Cardinality(Sender) - 1

(* "Quantos emails esta empresa pode mandar hoje" (email_sender.py:111): one *)
(* sender lets out more than that within a day only when mail of the day has *)
(* bounced, which gives its place back (sent_today), or after a fault.       *)
ExcessNeedsBounceOrFault ==
  outToday <= Limit + Cardinality({m \in today : status[m] # "sent"}) + faults

(* What is approved and may be sent is taken out of the queue in the end; no *)
(* message stops the others (email_sender.py:496-500).                       *)
NothingStopsTheQueue ==
  \A m \in Message : status[m] = "queued" /\ To[m] \notin optedOut
                       ~> status[m] # "queued" \/ To[m] \in optedOut

=============================================================================
