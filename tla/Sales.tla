------------------------------- MODULE Sales --------------------------------
(***************************************************************************)
(* The funnel, the inbox and the cadences of a tenant together: they write *)
(* the same prospects, and each reads what the others have written.        *)
(***************************************************************************)
EXTENDS Funnel, Inbox, Cadences

vars == <<shared, boxVars, cadenceVars>>

SalesTypeOK ==
  /\ scenario \in Scenario
  /\ status \in [Prospect -> Status]
  /\ optedOut \subseteq Contact
  /\ history \in [Prospect -> Seq(MessageRec)]
  /\ met \subseteq Prospect /\ judged \subseteq Prospect
  /\ row \in [Enrollment -> RowRec]
  /\ jobs \subseteq JobRec
  /\ tx \in [Actor -> TxRec]
  /\ unattended \subseteq Prospect
  /\ requests \in 0 .. scenario.requests /\ faults \in 0 .. MaxFaults
  /\ InboxTypeOK
  /\ CadencesTypeOK

Init == ProspectsInit /\ InboxInit /\ CadencesInit

Next ==
  \/ FunnelNext /\ UNCHANGED <<boxVars, cadenceVars>>
  \/ InboxNext /\ UNCHANGED cadenceVars
  \/ CadencesNext /\ UNCHANGED boxVars

Spec == Init /\ [][Next]_vars

-----------------------------------------------------------------------------
(***************************************************************************)
(* Safety.                                                                 *)
(***************************************************************************)

\* The sessions that do op: each has at most one transaction in flight.
Doing(op) == {a \in Actor : May(a, op)}

\* Still in the funnel, or back in it.
Up == {"scored", "contacted", "engaged", "qualified"}

StaysClosed == \A p \in Prospect :
  status[p] = "disqualified" /\ ContactOf[p] \in optedOut /\ status'[p] \in Up
  => \E a \in Actor : /\ tx[a].on = p /\ tx'[a] # tx[a]
                      /\ (tx[a].saw # "disqualified" \/ ~tx[a].barred)

\* Who has asked out and is disqualified comes back to the funnel only by a
\* session that had read the prospect before it was closed, or the contact
\* before it opted out: no reply, verdict or sending that starts later reopens
\* what the link of public.py has closed.
ClosedStaysClosed == [][StaysClosed]_vars

\* A prospect is in one cadence at a time, whatever lists are enrolled side by
\* side: two would write to it on the same day along two lines of argument
\* (uq_sequence_enrollment_ativa of engagement.py).
OneCadencePerProspect == \A p \in Prospect : Cardinality(Active(p)) <= 1

\* On one day a cadence puts at most as many touches in the queue for an
\* enrolment as there are ticks that may overlap (sequences.py, tick): the key
\* of a step holds back a second tick only while the first job is live.
TouchesADayAreBounded ==
  \A e \in Enrollment : touches[e] <= Cardinality(Doing("tick"))

\* Cold approaches drafted after the lead has replied: at most one for each
\* session that had looked before (_checar_regras_de_parada of outreach.py).
LateApproaches(p) ==
  {i \in Indices(p, {"cold"}) : \E j \in Indices(p, {"reply"}) : j < i}

LateApproachesAreBounded ==
  \A p \in Prospect : Cardinality(LateApproaches(p)) <= Cardinality(Doing("outreach"))

\* The last email of a lead has an answer drafted, or one on its way (in the
\* reading that recorded it, in the queue), or an approach of ours written since
\* has been approved, unless its dispatch was lost with a broken reading or a
\* dead job, or a person read the mailbox (runner.py, _despachar_conversas).
OnItsWay(p, i) ==
  \/ \E j \in Indices(p, {"answer"}) : i < j
  \/ \E j \in Indices(p, {"cold"}) : i < j /\ history[p][j].status # "draft"
  \/ \E job \in jobs : job.agent = "conversation" /\ job.on = p
  \/ \E a \in Actor : p \in reader[a].touched

UnansweredHasCause ==
  \A p \in Prospect \ unattended :
    \A i \in Indices(p, {"reply"}) :
      history[p][i].mail # 0 /\ (\A j \in Indices(p, {"reply"}) : j <= i) => OnItsWay(p, i)

\* A reply with a Message-ID is recorded at most once by each session that
\* reads the mailbox: reading again is free, but two readings that overlap
\* both look before either commits (email_receiver.py, record_inbound).
Copies(m) == {i \in DOMAIN history[From[m]] : history[From[m]][i].mail = m}

CopiesAreBounded ==
  \A m \in Mail \ Nameless : Cardinality(Copies(m)) <= Cardinality(Doing("fetch"))

\* A reply that is marked as seen is in its conversation, wherever the reading
\* was cut: the mailbox never forgets what the database has not got
\* (email_receiver.py, _ler_caixa).
SeenIsKept == \A m \in seen : KindOf[m] = "reply" => Recorded(m)

-----------------------------------------------------------------------------
(***************************************************************************)
(* Liveness.  Sessions that have started go on, the worker ticks again and *)
(* again between its other jobs (JobQueue shows that periodic work keeps   *)
(* running), and days pass.                                                *)
(***************************************************************************)

GoesOn(a) ==
  \/ /\ \/ AgentGivesUp(a)
        \/ \E p \in Prospect : InboundCommit(a, p) \/ SendCommit(a, p)
     /\ UNCHANGED <<boxVars, cadenceVars>>
  \/ /\ \/ MailCheck(a) \/ ReplyCommit(a) \/ SoftBounceCommit(a) \/ HardBounceCommit(a)
        \/ AlreadyKnown(a) \/ MarkSeen(a) \/ FetchEnd(a)
     /\ UNCHANGED cadenceVars
  \/ /\ \/ EnrollSkip(a) \/ EnrollInsert(a) \/ EnrollWakes(a) \/ EnrollFails(a)
        \/ EnrollCommit(a) \/ TickOne(a) \/ TickCommit(a) \/ TickFails(a) \/ DeleteCommit(a)
     /\ UNCHANGED boxVars

Fairness ==
  /\ \A a \in Actor : WF_vars(GoesOn(a))
  /\ \A a \in Worker : SF_vars(TickBegin(a) /\ UNCHANGED boxVars)
  /\ WF_vars(Day /\ UNCHANGED boxVars)

FairSpec == Spec /\ Fairness

\* Every enrolment ends, by its last step or by a reason to stop, if the
\* sequence and the campaign are at last left running: no row is forgotten
\* with a step it never gets (sequences.py, tick).
Running == sequence.active /\ ~paused

EnrollmentEnds ==
  <>[]Running => \A e \in Enrollment : (row[e].status = "active") ~> (row[e].status # "active")

=============================================================================
