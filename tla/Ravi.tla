-------------------------------- MODULE Ravi --------------------------------
(***************************************************************************)
(* The CRM synchronisation: app/services/ravi.py, run by the worker in     *)
(* every round and by hand for one prospect (api/v1/prospects.py).         *)
(*                                                                         *)
(* A prospect is sent if its revision, the latest instant at which it, its *)
(* score or its verdict changed, is not the one kept with its contact.     *)
(* An instant is when the transaction of the change began (now() of        *)
(* PostgreSQL), so a change may be committed with an instant that is past. *)
(* The marks of a round are committed at its end.  Each prospect has a     *)
(* contact of its own, with an address.                                    *)
(***************************************************************************)
EXTENDS Integers, FiniteSets

CONSTANTS
  Deal,         \* prospects
  Limit,        \* how many a round looks at
  MaxNow,       \* bound on the clock, which counts changes
  MaxOpen,      \* bound on the changes in flight
  MaxCrashes    \* bound on rounds cut short

ASSUME RaviAssumption == {Limit, MaxNow, MaxOpen, MaxCrashes} \subseteq Nat /\ IsFiniteSet(Deal)

VARIABLES
  now,
  deal,      \* the instants of each prospect
  profile,   \* which data the contact has
  change,    \* changes in flight
  mark,      \* the revision kept with the contact
  crm,       \* what RAVI has
  push,      \* what the worker and the desk have in flight
  excused,   \* history: why RAVI may be behind (see Excuses)
  crashes

raviVars == <<now, deal, profile, change, mark, crm, push, excused, crashes>>

Instant == 0 .. MaxNow

\* row: updated_at.  score, verdict: created_at of the last ones (0: none).
Stamps == [row : Instant, score : Instant, verdict : Instant]

Latest(d) == CHOOSE i \in {d.row, d.score, d.verdict} :
               \A j \in {d.row, d.score, d.verdict} : j <= i

Change == [on : Deal, kind : {"row", "score", "verdict"}, at : Instant]

Sender == {"worker", "desk"}

\* What a lead is made of (build_payload).
Content(p) == <<deal[p].score, deal[p].verdict, profile[p]>>

Nothing == <<0, 0, 0>>

\* left: prospects to look at, with the updated_at read.  on: the one whose
\* lead is being sent, with what and at which revision.  marks: not committed.
NoPush == [runs |-> FALSE, left |-> {}, row |-> [p \in Deal |-> 0],
           on |-> {}, what |-> Nothing, rev |-> 0, marks |-> {}]

Sending(s, p) == p \in push[s].on

Open == UNCHANGED <<mark, crm, push, crashes>>

-----------------------------------------------------------------------------
(***************************************************************************)
(* Changes.                                                                *)
(***************************************************************************)

ChangeBegins(p, kind) ==
  /\ now < MaxNow /\ Cardinality(change) < MaxOpen
  /\ now' = now + 1
  /\ change' = change \cup {[on |-> p, kind |-> kind, at |-> now']}
  /\ Open /\ UNCHANGED <<deal, profile, excused>>

\* Of two scores, or two verdicts, the one that began last counts.
Stamped(c) ==
  [deal EXCEPT ![c.on][c.kind] = IF c.kind = "row" \/ c.at > @ THEN c.at ELSE @]

\* history.  RAVI may be behind on p if p has changed and its revision has not,
\* until a change is noticed while nobody is sending p.
Excuses(p, old, new) ==
  excused' = IF Latest(new) = Latest(old) THEN excused \cup {p}
             ELSE IF \E s \in Sender : Sending(s, p) THEN excused
             ELSE excused \ {p}

ChangeCommits(c) ==
  /\ c \in change
  /\ change' = change \ {c}
  /\ deal' = Stamped(c)
  /\ Excuses(c.on, deal[c.on], deal'[c.on])
  /\ Open /\ UNCHANGED <<now, profile>>

\* update_contact leaves the prospect alone, and with it the revision.
ContactEdited(p) ==
  /\ profile[p] = 0 /\ now < MaxNow
  /\ now' = now + 1
  /\ profile' = [profile EXCEPT ![p] = 1]
  /\ Excuses(p, deal[p], deal[p])
  /\ Open /\ UNCHANGED <<deal, change>>

-----------------------------------------------------------------------------
(***************************************************************************)
(* Sending.                                                                *)
(***************************************************************************)

Steady == UNCHANGED <<now, deal, profile, change>>

\* The last ones that were updated.
InReach(p) == Cardinality({q \in Deal : deal[q].row > deal[p].row}) < Limit

\* sync_pending lists Limit prospects; a tie is broken one way or the other.
SyncBegin ==
  /\ ~push["worker"].runs
  /\ \E s \in SUBSET {p \in Deal : InReach(p)} :
       /\ Cardinality(s) = Limit \/ s = Deal
       /\ push' = [push EXCEPT !["worker"] =
            [NoPush EXCEPT !.runs = TRUE, !.left = s, !.row = [p \in Deal |-> deal[p].row]]]
  /\ Steady /\ UNCHANGED <<mark, crm, excused, crashes>>

HandPush(p) ==
  /\ ~push["desk"].runs
  /\ push' = [push EXCEPT !["desk"] =
       [NoPush EXCEPT !.runs = TRUE, !.left = {p}, !.row = [q \in Deal |-> deal[q].row]]]
  /\ Steady /\ UNCHANGED <<mark, crm, excused, crashes>>

\* push_prospect, up to the request: nothing without a score, nor, unless the
\* desk insists, if the revision is the one kept.
Revision(s, p) == Latest([deal[p] EXCEPT !.row = push[s].row[p]])

PushBuild(s, p, force) ==
  /\ push[s].runs /\ push[s].on = {} /\ p \in push[s].left
  /\ force => s = "desk"
  /\ LET goes == deal[p].score # 0 /\ (force \/ mark[p] # Revision(s, p)) IN
     push' = [push EXCEPT ![s].left = @ \ {p},
                          ![s].on = IF goes THEN {p} ELSE {},
                          ![s].what = IF goes THEN Content(p) ELSE Nothing,
                          ![s].rev = IF goes THEN Revision(s, p) ELSE 0]
  /\ Steady /\ UNCHANGED <<mark, crm, excused, crashes>>

Rests(s, marks) ==
  push' = [push EXCEPT ![s].on = {}, ![s].what = Nothing, ![s].rev = 0, ![s].marks = marks]

\* Mutant: the mark is set though RAVI has refused the lead.
MarksRefused(s) ==
  push[s].marks \cup {[on |-> p, rev |-> push[s].rev] : p \in push[s].on}

MarksAfterRefusal(s) == push[s].marks

\* RAVI creates the lead or updates it.  history: who sends last need not be
\* who commits its mark last.
PushSent(s, p) ==
  /\ Sending(s, p)
  /\ crm' = [crm EXCEPT ![p] = push[s].what]
  /\ Rests(s, push[s].marks \cup {[on |-> p, rev |-> push[s].rev]})
  /\ excused' = IF \E t \in Sender \ {s} : Sending(t, p) \/ \E m \in push[t].marks : m.on = p
                THEN excused \cup {p} ELSE excused
  /\ Steady /\ UNCHANGED <<mark, crashes>>

\* RAVI is out of reach, or refuses: counted, and the round goes on.
PushRefused(s, p) ==
  /\ Sending(s, p)
  /\ Rests(s, MarksAfterRefusal(s))
  /\ Steady /\ UNCHANGED <<mark, crm, excused, crashes>>

SyncCommit(s) ==
  LET marks == push[s].marks IN
  /\ push[s].runs /\ push[s].left = {} /\ push[s].on = {}
  /\ mark' = [p \in Deal |-> IF \E m \in marks : m.on = p
                             THEN (CHOOSE m \in marks : m.on = p).rev ELSE mark[p]]
  /\ push' = [push EXCEPT ![s] = NoPush]
  /\ Steady /\ UNCHANGED <<crm, excused, crashes>>

\* The process dies: what RAVI has got it keeps, the marks are lost.
Crash(s) ==
  /\ push[s].runs /\ crashes < MaxCrashes
  /\ crashes' = crashes + 1
  /\ push' = [push EXCEPT ![s] = NoPush]
  /\ Steady /\ UNCHANGED <<mark, crm, excused>>

RaviInit ==
  /\ now = 1
  /\ deal = [p \in Deal |-> [row |-> 1, score |-> 0, verdict |-> 0]]
  /\ profile = [p \in Deal |-> 0]
  /\ change = {}
  /\ mark = [p \in Deal |-> 0]
  /\ crm = [p \in Deal |-> Nothing]
  /\ push = [s \in Sender |-> NoPush]
  /\ excused = {} /\ crashes = 0

RaviNext ==
  \/ \E p \in Deal :
       \/ \E kind \in {"row", "score", "verdict"} : ChangeBegins(p, kind)
       \/ ContactEdited(p) \/ HandPush(p)
       \/ \E s \in Sender :
            \/ \E force \in BOOLEAN : PushBuild(s, p, force)
            \/ PushSent(s, p) \/ PushRefused(s, p)
  \/ \E c \in change : ChangeCommits(c)
  \/ SyncBegin
  \/ \E s \in Sender : SyncCommit(s) \/ Crash(s)

-----------------------------------------------------------------------------
\* Every round lists it, whatever the ties.
Reached(p) == Cardinality({q \in Deal \ {p} : deal[q].row >= deal[p].row}) < Limit

\* Whatever is scored and changes is at last in RAVI as it is here, though
\* requests fail and rounds are cut short, for the prospects a round reaches:
\* a mark never stands for a lead that has not been accepted.  Changes that do
\* not move the revision, and sendings that cross, are excused (ravi.py,
\* _revisao, sync_pending).
EveryLeadArrives ==
  \A p \in Deal :
    <>[](Reached(p) /\ deal[p].score # 0 /\ p \notin excused => crm[p] = Content(p))

\* The worker runs round after round, and RAVI, asked again and again, answers.
RaviGoesOn(s) ==
  SyncCommit(s) \/ \E p \in Deal : PushBuild(s, p, FALSE) \/ PushSent(s, p) \/ PushRefused(s, p)

RaviFairness ==
  /\ WF_raviVars(SyncBegin)
  /\ \A s \in Sender : WF_raviVars(RaviGoesOn(s))
  /\ \A p \in Deal : SF_raviVars(PushSent("worker", p))
  /\ WF_raviVars(\E c \in change : ChangeCommits(c))

=============================================================================
