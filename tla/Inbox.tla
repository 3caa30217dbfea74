------------------------------- MODULE Inbox --------------------------------
(***************************************************************************)
(* How replies and non-delivery notices come in: the reading of the        *)
(* mailbox in app/services/email_receiver.py, and the dispatch of the      *)
(* conversation agent in app/workers/runner.py.                            *)
(*                                                                         *)
(* A reading takes the first Limit unseen emails.  For each one it looks   *)
(* for the Message-ID and the conversation, writes and commits, and only   *)
(* then marks the email as seen: three steps, and the connection, or the   *)
(* process, may break between any two.  The worker dispatches when the     *)
(* reading has ended; a request to /messages/fetch-inbox never does.       *)
(*                                                                         *)
(* The emails that may arrive are numbered in the order of the mailbox.    *)
(* An email finds its conversation by its references or by its sender, so  *)
(* From gives the prospect; mail that belongs to no conversation is only   *)
(* marked as seen and is left out.                                         *)
(***************************************************************************)
EXTENDS Prospects

CONSTANTS
  MaxMail,   \* bound on the emails that arrive
  From,      \* the prospect whose conversation each email belongs to
  KindOf,    \* a reply, or a notice: "reply", "soft", "hard"
  Nameless,  \* emails without a Message-ID
  Limit      \* `limit` of fetch_inbox

Mail == 1 .. MaxMail

ASSUME InboxAssumption ==
  /\ MaxMail \in Nat /\ Limit \in Nat \ {0}
  /\ From \in [Mail -> Prospect]
  /\ KindOf \in [Mail -> {"reply", "soft", "hard"}]
  /\ Nameless \subseteq Mail

VARIABLES
  arrived,   \* emails that are in the mailbox
  seen,      \* those with the flag \Seen
  reader     \* what each reading has left to do, and the prospects it touched

boxVars == <<arrived, seen, reader>>

NoMail == [todo |-> {}, touched |-> {}]

InboxTypeOK ==
  /\ seen \subseteq arrived /\ arrived \subseteq Mail
  /\ reader \in [Actor -> [todo : SUBSET Mail, touched : SUBSET Prospect]]

InboxInit == arrived = {} /\ seen = {} /\ reader = [a \in Actor |-> NoMail]

Reading(a) == tx[a].op = "fetch"

\* The email has a row in its conversation.
Recorded(m) == \E i \in DOMAIN history[From[m]] : history[From[m]][i].mail = m

Quiet == UNCHANGED <<scenario, unattended>>

-----------------------------------------------------------------------------

\* Somebody answers an email of ours, or a server returns it.
Deliver(m) ==
  /\ \E a \in Actor : May(a, "fetch")
  /\ m \notin arrived /\ \A n \in Mail : n < m => n \in arrived
  /\ \E i \in DOMAIN history[From[m]] : history[From[m]][i].status = "sent"
  /\ arrived' = arrived \cup {m}
  /\ UNCHANGED <<shared, seen, reader>>

\* The ids of a search, the oldest n.
Unseen(n) ==
  {m \in arrived \ seen : Cardinality({l \in arrived \ seen : l < m}) < n}

FetchBegin(a) ==
  /\ Starts(a, "fetch")
  /\ Hold(a, [Idle EXCEPT !.op = "fetch"])
  /\ reader' = [reader EXCEPT ![a].todo = Unseen(Limit)]
  /\ UNCHANGED <<prospectVars, row, jobs, faults, arrived, seen>> /\ Quiet

\* Mutant: the Message-ID is not looked up.
NeverKnown(m) == FALSE

\* The Message-ID has a row: read again, the email changes nothing.
Known(m) == m \notin Nameless /\ Recorded(m)

\* The next email, the oldest, is read, parsed and looked up, with its prospect.
MailCheck(a) ==
  /\ Reading(a) /\ tx[a].n = 0
  /\ \E m \in reader[a].todo :
       /\ \A n \in reader[a].todo : m <= n
       /\ Hold(a, [tx[a] EXCEPT !.n = m, !.on = From[m],
                                !.barred = ContactOf[From[m]] \in optedOut,
                                !.saw = IF Known(m) THEN "known" ELSE status[From[m]]])
  /\ UNCHANGED <<prospectVars, row, jobs, requests, faults, boxVars>> /\ Quiet

\* The email in hand is of this kind, and new.
InHand(a, kind) ==
  /\ Reading(a) /\ tx[a].n # 0
  /\ tx[a].saw # "known" /\ KindOf[tx[a].n] = kind

\* One email is committed; its flag is still to be set.
Processed(a, touched) ==
  /\ Hold(a, [tx[a] EXCEPT !.op = "mark"])
  /\ reader' = [reader EXCEPT ![a].touched = @ \cup touched]
  /\ UNCHANGED <<optedOut, met, judged, jobs, requests, faults, arrived, seen>> /\ Quiet

ReplyCommit(a) ==
  LET p == tx[a].on IN
  /\ InHand(a, "reply")
  /\ Write(p, "reply", "replied", tx[a].n)
  /\ IF Engages(tx[a].saw) THEN Move(p, tx[a].saw, "engaged") ELSE UNCHANGED status
  /\ UNCHANGED row
  /\ Processed(a, {p})

\* The email a notice refers to: the last one sent.
Returned(p) ==
  LET sent == {i \in DOMAIN history[p] : history[p][i].status = "sent"} IN
  history' = [history EXCEPT ![p] =
    [i \in DOMAIN @ |-> IF i \in sent /\ \A j \in sent : j <= i
                       THEN [@[i] EXCEPT !.status = "bounced"] ELSE @[i]]]

SoftBounceCommit(a) ==
  /\ InHand(a, "soft")
  /\ Returned(tx[a].on)
  /\ UNCHANGED <<status, row>>
  /\ Processed(a, {})

\* Every prospect of the address leaves the funnel, and its cadence stops.
HardBounceCommit(a) ==
  LET c == ContactOf[tx[a].on]
      stopped == UNION {Active(p) : p \in Family(c)} IN
  /\ InHand(a, "hard")
  /\ \A e \in stopped : ~Locked(e)
  /\ Returned(tx[a].on)
  /\ MoveFamily(c, "bounced")
  /\ row' = [e \in Enrollment |->
               IF e \in stopped THEN [row[e] EXCEPT !.status = "stopped", !.next = "never"]
               ELSE row[e]]
  /\ Processed(a, {})

AlreadyKnown(a) ==
  /\ Reading(a) /\ tx[a].saw = "known"
  /\ UNCHANGED <<status, history, row>>
  /\ Processed(a, {})

\* The reading goes on with the next email.
Onwards(a) ==
  /\ Hold(a, [Idle EXCEPT !.op = "fetch"])
  /\ reader' = [reader EXCEPT ![a].todo = @ \ {tx[a].n}]

\* Parsing or a statement fails: rolled back, left unseen, the rest goes on.
MailDefect(a) ==
  /\ Reading(a) /\ tx[a].n # 0
  /\ Fault
  /\ Onwards(a)
  /\ UNCHANGED <<prospectVars, row, jobs, requests, arrived, seen>> /\ Quiet

\* Mutant: the flag is set as soon as the email is read (RFC822, not PEEK).
MarkAtOnce(a) == tx[a].op = "mark" \/ (Reading(a) /\ tx[a].n # 0)

\* Only what is committed is marked.
MayMark(a) == tx[a].op = "mark"

MarkSeen(a) ==
  /\ MayMark(a)
  /\ seen' = seen \cup {tx[a].n}
  /\ Onwards(a)
  /\ UNCHANGED <<arrived, prospectVars, row, jobs, requests, faults>> /\ Quiet

-----------------------------------------------------------------------------

\* Mutant: a reading that touched several conversations dispatches none.
DispatchOne(a) ==
  {Job("conversation", p, Plain, a) : p \in {q \in reader[a].touched :
                                              reader[a].touched = {q}}}

\* _despachar_conversas: the conversations of this reading, each once.
Dispatch(a) == {Job("conversation", p, Plain, a) : p \in reader[a].touched}

FetchEnd(a) ==
  /\ Reading(a) /\ tx[a].n = 0 /\ reader[a].todo = {}
  /\ IF a \in Worker
     THEN jobs' = jobs \cup {j \in Dispatch(a) : Free(j)} /\ UNCHANGED unattended
     ELSE unattended' = unattended \cup reader[a].touched /\ UNCHANGED jobs
  /\ Close(a)
  /\ reader' = [reader EXCEPT ![a] = NoMail]
  /\ UNCHANGED <<scenario, prospectVars, row, requests, faults, arrived, seen>>

\* The connection breaks, or the process dies: what was touched is forgotten.
FetchBreaks(a) ==
  /\ tx[a].op \in {"fetch", "mark"}
  /\ Fault
  /\ unattended' = unattended \cup reader[a].touched
  /\ Close(a)
  /\ reader' = [reader EXCEPT ![a] = NoMail]
  /\ UNCHANGED <<scenario, prospectVars, row, jobs, requests, arrived, seen>>

InboxNext ==
  \/ \E m \in Mail : Deliver(m)
  \/ \E a \in Actor :
       \/ FetchBegin(a) \/ MailCheck(a) \/ ReplyCommit(a) \/ SoftBounceCommit(a)
       \/ HardBounceCommit(a) \/ AlreadyKnown(a) \/ MailDefect(a) \/ MarkSeen(a)
       \/ FetchEnd(a) \/ FetchBreaks(a)

=============================================================================
