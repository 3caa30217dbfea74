---------------------------- MODULE SalesProofs -----------------------------
(***************************************************************************)
(* OneCadencePerProspect, ClosedStaysClosed and SeenIsKept hold for any    *)
(* workers, requests, prospects, cadences and mailbox.                     *)
(***************************************************************************)
EXTENDS Sales, TLAPS, FiniteSetTheorems, SequenceTheorems

-----------------------------------------------------------------------------
(***************************************************************************)
(* One cadence per prospect.                                               *)
(*                                                                         *)
(* The unique index is not in the rows but in who waits for whom: a row    *)
(* that is inserted and not committed already keeps out every other of its *)
(* prospect (Inserted).  A row becomes active only when its list commits,  *)
(* so most actions need one lemma, FrameKeeps.                             *)
(***************************************************************************)

\* Records keep their fields; what the fields hold does not matter here.
RowShape == row = [e \in Enrollment |->
  [on |-> row[e].on, status |-> row[e].status, step |-> row[e].step, next |-> row[e].next]]

ListShape == list = [a \in Actor |->
  [fila |-> list[a].fila, new |-> list[a].new, waits |-> list[a].waits]]

TxShape == tx = [a \in Actor |-> tx[a]]

ActiveOnce == \A e, f \in Enrollment :
  row[e].status = "active" /\ row[f].status = "active" /\ row[e].on = row[f].on => e = f

Inserted == \A a \in Actor : \A r \in list[a].new :
  /\ Active(r.on) = {}
  /\ \A b \in Actor : \A s \in list[b].new : s.on = r.on => a = b /\ r = s

\* Who waits has not inserted the prospect it waits for.
Waits == \A a \in Actor : list[a].waits => \A r \in list[a].new : r.on # Head(list[a].fila)

\* Only a transaction that enrols has a list.
OnlyEnrollers == \A a \in Actor : tx[a].op # "enroll" => list[a] = NoList

OneInv == RowShape /\ ListShape /\ TxShape /\ ActiveOnce /\ Inserted /\ Waits /\ OnlyEnrollers

\* No row becomes active, and no list is forgotten.
RowsCalm == /\ RowShape'
            /\ \A e \in Enrollment : row'[e].status = "active"
                                     => row[e].status = "active" /\ row'[e].on = row[e].on

TxCalm == TxShape' /\ \A a \in Actor : tx[a].op = "enroll" => tx'[a].op = "enroll"

LEMMA FrameKeeps ==
  ASSUME OneInv, RowsCalm, TxCalm, UNCHANGED list
  PROVE  OneInv'
<1>1. ActiveOnce'
  BY DEF OneInv, RowsCalm, ActiveOnce
<1>2. \A p : Active(p)' \subseteq Active(p)
  BY DEF RowsCalm, Active
<1>3. Inserted'
  BY <1>2 DEF OneInv, Inserted
<1> QED
  BY <1>1, <1>3 DEF OneInv, RowsCalm, TxCalm, ListShape, Waits, OnlyEnrollers

LEMMA OneInitHolds ==
  Init => OneInv
BY DEF Init, ProspectsInit, CadencesInit, OneInv, RowShape, ListShape, TxShape, ActiveOnce,
       Inserted, Waits, OnlyEnrollers, NoRow, NoList, Idle

\* A session that does something else goes on, or ends, or nothing moves.
LEMMA HoldIsCalm ==
  ASSUME OneInv, NEW a \in Actor, tx[a].op # "enroll", NEW t, Hold(a, t)
  PROVE  TxCalm
BY DEF OneInv, TxShape, TxCalm, Hold

LEMMA SameIsCalm ==
  ASSUME OneInv
  PROVE  (UNCHANGED tx => TxCalm) /\ (UNCHANGED row => RowsCalm)
BY DEF OneInv, TxCalm, RowsCalm, TxShape, RowShape

\* Row by row.
Calm(new, old) ==
  /\ new = [on |-> new.on, status |-> new.status, step |-> new.step, next |-> new.next]
  /\ new.status = "active" => old.status = "active" /\ new.on = old.on

LEMMA CalmRows ==
  ASSUME OneInv, row' = [e \in Enrollment |-> row'[e]],
         \A e \in Enrollment :
           \/ row'[e] = row[e]
           \/ row'[e] = [row[e] EXCEPT !.status = "stopped", !.next = "never"]
           \/ Calm(row'[e], row[e])
  PROVE  RowsCalm
<1>1. ASSUME NEW e \in Enrollment
      PROVE  Calm(row'[e], row[e])
  <2>1. row[e] = [on |-> row[e].on, status |-> row[e].status, step |-> row[e].step,
                  next |-> row[e].next]
    BY DEF OneInv, RowShape
  <2>2. CASE row'[e] = row[e]
    BY <2>1, <2>2 DEF Calm
  <2>3. CASE row'[e] = [row[e] EXCEPT !.status = "stopped", !.next = "never"]
    BY <2>1, <2>3 DEF Calm
  <2> QED
    BY <2>2, <2>3
<1>2. RowShape'
  BY <1>1 DEF RowShape, Calm
<1> QED
  BY <1>1, <1>2 DEF RowsCalm, Calm

-----------------------------------------------------------------------------
(***************************************************************************)
(* The funnel and the inbox.                                               *)
(***************************************************************************)

LEMMA FunnelIsCalm ==
  ASSUME OneInv, FunnelNext
  PROVE  TxCalm /\ UNCHANGED row
<1>1. CASE \E a \in Actor, p \in Prospect : People(a, p)
  <2>1. PICK a \in Actor, p \in Prospect : People(a, p)
    BY <1>1
  <2>2. CASE \/ Score(a, p) \/ BookMeeting(a, p) \/ Unsubscribe(a, p) \/ OptOutByHand(a, p)
             \/ WriteReply(a, p) \/ (\E i \in DOMAIN history[p] : Approve(a, p, i))
             \/ (\E agent \in {"outreach", "conversation"} : AskForRun(a, agent, p))
    BY <2>2, SameIsCalm
       DEF Score, BookMeeting, Unsubscribe, OptOutByHand, WriteReply, Approve, AskForRun, AtOnce,
           Here
  <2>3. CASE InboundBegin(a, p)
    BY <2>3, HoldIsCalm DEF InboundBegin, Reads, Starts, Idling, Here
  <2>4. CASE InboundCommit(a, p)
    BY <2>4, HoldIsCalm DEF InboundCommit, Writes, Close, Here
  <2> QED
    BY <2>1, <2>2, <2>3, <2>4 DEF People
<1>2. CASE \E a \in Actor, p \in Prospect : Sending(a, p)
  BY <1>2, HoldIsCalm
     DEF Sending, SendCheck, SendCommit, Reads, Writes, Starts, Idling, Close, Here
<1>3. CASE \E a \in Actor, p \in Prospect : Agents(a, p)
  <2>1. PICK a \in Actor, p \in Prospect : Agents(a, p)
    BY <1>3
  <2>2. CASE OutreachLoad(a, p) \/ ConverseLoad(a, p) \/ QualifyLoad(a, p)
    BY <2>2, HoldIsCalm DEF OutreachLoad, ConverseLoad, QualifyLoad, Reads, Starts, Idling, Here
  <2>3. CASE \/ OutreachPersist(a, p) \/ ConversePersist(a, p) \/ ConverseOptOut(a, p)
             \/ \E outcome \in Outcome : QualifyPersist(a, p, outcome)
    BY <2>3, HoldIsCalm
       DEF OutreachPersist, ConversePersist, ConverseOptOut, QualifyPersist, Writes, Close, Here
  <2> QED
    BY <2>1, <2>2, <2>3 DEF Agents
<1>4. CASE \E a \in Actor : AgentGivesUp(a)
  BY <1>4, HoldIsCalm DEF AgentGivesUp, Close, Here
<1>5. CASE \E j \in jobs : JobDies(j)
  BY <1>5, SameIsCalm DEF JobDies
<1> QED
  BY <1>1, <1>2, <1>3, <1>4, <1>5 DEF FunnelNext

LEMMA InboxIsCalm ==
  ASSUME OneInv, InboxNext
  PROVE  TxCalm /\ RowsCalm
<1>1. CASE \E m \in Mail : Deliver(m)
  BY <1>1, SameIsCalm DEF Deliver, shared
<1>2. CASE \E a \in Actor : FetchBegin(a)
  BY <1>2, SameIsCalm, HoldIsCalm DEF FetchBegin, Starts, Idling
<1>3. CASE \E a \in Actor : \/ MailCheck(a) \/ ReplyCommit(a) \/ SoftBounceCommit(a)
                            \/ AlreadyKnown(a) \/ MailDefect(a)
  BY <1>3, SameIsCalm, HoldIsCalm
     DEF MailCheck, ReplyCommit, SoftBounceCommit, AlreadyKnown, MailDefect, Reading, InHand,
         Processed, Onwards
<1>4. CASE \E a \in Actor : MarkSeen(a) \/ FetchEnd(a) \/ FetchBreaks(a)
  BY <1>4, SameIsCalm, HoldIsCalm
     DEF MarkSeen, FetchEnd, FetchBreaks, MayMark, Reading, Onwards, Close
<1>5. CASE \E a \in Actor : HardBounceCommit(a)
  <2>1. PICK a \in Actor : HardBounceCommit(a)
    BY <1>5
  <2>2. TxCalm
    BY <2>1, HoldIsCalm DEF HardBounceCommit, InHand, Reading, Processed
  <2>3. \A e \in Enrollment :
          \/ row'[e] = row[e]
          \/ row'[e] = [row[e] EXCEPT !.status = "stopped", !.next = "never"]
    BY <2>1 DEF HardBounceCommit
  <2>4. row' = [e \in Enrollment |-> row'[e]]
    BY <2>1 DEF HardBounceCommit
  <2>5. RowsCalm
    BY <2>3, <2>4, CalmRows
  <2> QED
    BY <2>2, <2>5
<1> QED
  BY <1>1, <1>2, <1>3, <1>4, <1>5 DEF InboxNext

-----------------------------------------------------------------------------
(***************************************************************************)
(* The cadences.                                                           *)
(***************************************************************************)

\* A tick stops, postpones, completes or counts a step: it activates nothing.
LEMMA AfterIsCalm ==
  ASSUME OneInv, NEW e \in Enrollment, NEW d, d.act \in {"stop", "postpone", "complete", "step"}
  PROVE  Calm(After(row[e], d), row[e])
<1>1. row[e] = [on |-> row[e].on, status |-> row[e].status, step |-> row[e].step,
                next |-> row[e].next]
  BY DEF OneInv, RowShape
<1>2. CASE d.act = "stop"
  BY <1>1, <1>2 DEF After, Calm
<1>3. CASE d.act = "postpone"
  BY <1>1, <1>3 DEF After, Calm
<1>4. CASE d.act = "complete"
  BY <1>1, <1>4 DEF After, Calm
<1>5. CASE d.act = "step"
  BY <1>1, <1>5 DEF After, AfterStep, Calm
<1> QED
  BY <1>2, <1>3, <1>4, <1>5

LEMMA TickIsCalm ==
  ASSUME OneInv, NEW a \in Actor, \A d \in round[a].plan :
           d.act \in {"stop", "postpone", "complete", "step"},
         TickCommit(a)
  PROVE  TxCalm /\ RowsCalm /\ UNCHANGED list
<1> DEFINE plan == round[a].plan
<1>1. TxCalm /\ UNCHANGED list
  BY HoldIsCalm DEF TickCommit, Close
<1>2. row' = [e \in Enrollment |-> IF \E d \in plan : d.e = e
                                   THEN After(row[e], CHOOSE d \in plan : d.e = e) ELSE row[e]]
  BY DEF TickCommit
<1>3. ASSUME NEW e \in Enrollment
      PROVE  row'[e] = row[e] \/ Calm(row'[e], row[e])
  <2>1. CASE \E d \in plan : d.e = e
    <3> DEFINE d == CHOOSE d \in plan : d.e = e
    <3>1. d \in plan
      BY <2>1
    <3>2. row'[e] = After(row[e], d)
      BY <1>2, <2>1
    <3> HIDE DEF d
    <3> QED
      BY <3>1, <3>2, AfterIsCalm
  <2>2. CASE ~ \E d \in plan : d.e = e
    BY <1>2, <2>2
  <2> QED
    BY <2>1, <2>2
<1>4. row' = [e \in Enrollment |-> row'[e]]
  BY <1>2
<1> QED
  BY <1>1, <1>3, <1>4, CalmRows

\* What a tick decides is one of four things.
PlanShape == /\ round = [a \in Actor |-> [due |-> round[a].due, plan |-> round[a].plan]]
             /\ \A a \in Actor : \A d \in round[a].plan :
                  d.act \in {"stop", "postpone", "complete", "step"}

LEMMA PlanInit ==
  Init => PlanShape
BY DEF Init, CadencesInit, PlanShape, NoRound

LEMMA PlanKeeps ==
  ASSUME PlanShape, Next
  PROVE  PlanShape'
<1>1. CASE UNCHANGED round
  BY <1>1 DEF PlanShape
<1>2. CASE \E a \in Actor : TickBegin(a)
  <2>1. PICK a \in Actor : TickBegin(a)
    BY <1>2
  <2> DEFINE due == {[e |-> e, step |-> row[e].step] : e \in Due}
  <2>2. round' = [round EXCEPT ![a].due = due]
    BY <2>1 DEF TickBegin
  <2> HIDE DEF due
  <2> QED
    BY <2>2 DEF PlanShape
<1>3. CASE \E a \in Actor : TickOne(a)
  <2>1. PICK a \in Actor : TickOne(a)
    BY <1>3
  <2>2. PICK d \in round[a].due : round' = [round EXCEPT ![a] =
            [due |-> @.due \ {d},
             plan |-> @.plan \cup
               {[e |-> d.e, step |-> d.step, act |-> Act(d),
                 last |-> d.step + 1 >= sequence.steps,
                 fresh |-> Free(StepJob(a, d))]}]]
    BY <2>1 DEF TickOne
  <2> DEFINE decided == [e |-> d.e, step |-> d.step, act |-> Act(d),
                         last |-> d.step + 1 >= sequence.steps,
                         fresh |-> Free(StepJob(a, d))]
  <2>3. decided.act \in {"stop", "postpone", "complete", "step"}
    BY DEF Act
  <2>4. round' = [round EXCEPT ![a] = [due |-> @.due \ {d}, plan |-> @.plan \cup {decided}]]
    BY <2>2
  <2> HIDE DEF decided
  <2> QED
    BY <2>3, <2>4 DEF PlanShape
<1>4. CASE \E a \in Actor : TickCommit(a) \/ TickFails(a)
  BY <1>4 DEF TickCommit, TickFails, NoRound, PlanShape
<1>5. \/ UNCHANGED round
      \/ \E a \in Actor : TickBegin(a) \/ TickOne(a) \/ TickCommit(a) \/ TickFails(a)
  BY DEF Next, cadenceVars, CadencesNext, Day, EnrollBegin, EnrollSkip, EnrollInsert, EnrollWakes,
         EnrollFails, EnrollCommit, EnrollVars, StopEnrollment, UpdateSequence, PauseCampaign,
         DeleteCheck, DeleteCommit
<1> QED
  BY <1>1, <1>2, <1>3, <1>4, <1>5

LEMMA OthersAreCalm ==
  ASSUME OneInv, NEW a \in Actor,
         \/ TickBegin(a) \/ TickOne(a) \/ TickFails(a) \/ PauseCampaign(a) \/ DeleteCheck(a)
         \/ (\E e \in Enrollment : StopEnrollment(a, e)) \/ DeleteCommit(a)
         \/ \E n \in 1 .. MaxSteps, active \in BOOLEAN : UpdateSequence(a, n, active)
  PROVE  TxCalm /\ RowsCalm /\ UNCHANGED list
<1>1. CASE TickBegin(a) \/ DeleteCheck(a)
  BY <1>1, SameIsCalm, HoldIsCalm
     DEF TickBegin, DeleteCheck, Starts, Idling, TickVars, cadenceVars
<1>2. CASE TickOne(a) \/ TickFails(a)
  BY <1>2, SameIsCalm, HoldIsCalm DEF TickOne, TickFails, TickVars, Close
<1>3. CASE \/ PauseCampaign(a)
           \/ \E n \in 1 .. MaxSteps, active \in BOOLEAN : UpdateSequence(a, n, active)
  BY <1>3, SameIsCalm DEF PauseCampaign, UpdateSequence
<1>4. CASE \E e \in Enrollment : StopEnrollment(a, e)
  <2>1. PICK e \in Enrollment : StopEnrollment(a, e)
    BY <1>4
  <2>2. row' = [row EXCEPT ![e].status = "stopped", ![e].next = "never"]
    BY <2>1 DEF StopEnrollment
  <2>3. RowsCalm
    BY <2>2, CalmRows DEF OneInv, RowShape
  <2> QED
    BY <2>1, <2>3, SameIsCalm DEF StopEnrollment, cadenceVars
<1>5. CASE DeleteCommit(a)
  <2>1. TxCalm /\ UNCHANGED list
    BY <1>5, HoldIsCalm DEF DeleteCommit, Close
  <2>2. RowsCalm
    BY <1>5 DEF DeleteCommit, NoRow, RowsCalm, RowShape
  <2> QED
    BY <2>1, <2>2
<1> QED
  BY <1>1, <1>2, <1>3, <1>4, <1>5

LEMMA DayIsCalm ==
  ASSUME OneInv, Day
  PROVE  TxCalm /\ RowsCalm /\ UNCHANGED list
<1>1. row' = [e \in Enrollment |-> IF row[e].next = "later" THEN [row[e] EXCEPT !.next = "now"]
                                   ELSE row[e]]
  BY DEF Day
<1>2. ASSUME NEW e \in Enrollment
      PROVE  row'[e] = row[e] \/ Calm(row'[e], row[e])
  <2>1. row[e] = [on |-> row[e].on, status |-> row[e].status, step |-> row[e].step,
                  next |-> row[e].next]
    BY DEF OneInv, RowShape
  <2> QED
    BY <1>1, <2>1 DEF Calm
<1> QED
  BY <1>1, <1>2, CalmRows, SameIsCalm DEF Day

-----------------------------------------------------------------------------
(***************************************************************************)
(* Enrolling.                                                              *)
(***************************************************************************)

\* Only the list of a changes, to l, which inserts nothing.
LEMMA ListKeeps ==
  ASSUME OneInv, NEW a \in Actor, NEW l, UNCHANGED row, TxShape',
         \A b \in Actor \ {a} : tx[b].op = "enroll" => tx'[b].op = "enroll",
         list' = [list EXCEPT ![a] = l],
         l = [fila |-> l.fila, new |-> l.new, waits |-> l.waits], l.new \subseteq list[a].new,
         l.waits => \A r \in l.new : r.on # Head(l.fila),
         tx'[a].op # "enroll" => l = NoList
  PROVE  OneInv'
<1>1. \A b \in Actor : list'[b] = IF b = a THEN l ELSE list[b]
  BY DEF OneInv, ListShape
<1>2. ListShape' /\ Waits'
  BY <1>1 DEF OneInv, ListShape, Waits
<1>3. Inserted'
  <2>1. \A b \in Actor : list'[b].new \subseteq list[b].new
    BY <1>1
  <2>2. \A p : Active(p)' = Active(p)
    BY DEF Active
  <2> QED
    BY <2>1, <2>2 DEF OneInv, Inserted
<1>4. OnlyEnrollers'
  BY <1>1 DEF OneInv, OnlyEnrollers
<1> QED
  BY <1>2, <1>3, <1>4 DEF OneInv, RowShape, ActiveOnce

LEMMA ListRecord ==
  ASSUME OneInv, NEW a \in Actor
  PROVE  list[a] = [fila |-> list[a].fila, new |-> list[a].new, waits |-> list[a].waits]
BY DEF OneInv, ListShape

\* The three ways in which a list changes before it ends.
LEMMA ListEdits ==
  ASSUME OneInv, NEW a \in Actor
  PROVE  /\ \A l : [list EXCEPT ![a].fila = l]
                   = [list EXCEPT ![a] = [fila |-> l, new |-> list[a].new,
                                          waits |-> list[a].waits]]
         /\ [list EXCEPT ![a].waits = TRUE]
            = [list EXCEPT ![a] = [fila |-> list[a].fila, new |-> list[a].new, waits |-> TRUE]]
<1> DEFINE f == list[a].fila
           n == list[a].new
           w == list[a].waits
<1>1. list[a] = [fila |-> f, new |-> n, waits |-> w]
  BY ListRecord
<1> HIDE DEF f, n, w
<1>2. \A l : [list[a] EXCEPT !.fila = l] = [fila |-> l, new |-> n, waits |-> w]
  BY <1>1
<1>3. \A v : [list[a] EXCEPT !.waits = v] = [fila |-> f, new |-> n, waits |-> v]
  BY <1>1
<1>4. [list[a] EXCEPT !.waits = TRUE] = [fila |-> f, new |-> n, waits |-> TRUE]
  BY <1>3, Zenon
<1>5. [list EXCEPT ![a].waits = TRUE] = [list EXCEPT ![a] = [list[a] EXCEPT !.waits = TRUE]]
  OBVIOUS
<1>6. ASSUME NEW l
      PROVE  [list EXCEPT ![a].fila = l]
             = [list EXCEPT ![a] = [fila |-> l, new |-> n, waits |-> w]]
  <2>1. [list EXCEPT ![a].fila = l] = [list EXCEPT ![a] = [list[a] EXCEPT !.fila = l]]
    OBVIOUS
  <2>2. [list[a] EXCEPT !.fila = l] = [fila |-> l, new |-> n, waits |-> w]
    BY <1>2
  <2> QED
    BY <2>1, <2>2
<1>7. [list EXCEPT ![a].waits = TRUE]
      = [list EXCEPT ![a] = [fila |-> f, new |-> n, waits |-> TRUE]]
  BY <1>4, <1>5
<1> QED
  BY <1>6, <1>7 DEF f, n, w

LEMMA EnrollBeginKeeps ==
  ASSUME OneInv, NEW a \in Actor, NEW l, EnrollBegin(a, l)
  PROVE  OneInv'
<1>1. list[a] = NoList /\ UNCHANGED row
  BY DEF OneInv, OnlyEnrollers, EnrollBegin, Starts, Idling
<1> DEFINE new == [Idle EXCEPT !.op = "enroll"]
<1>2. Hold(a, new) /\ new.op = "enroll"
  BY DEF EnrollBegin, Idle
<1> HIDE DEF new
<1>3. TxCalm /\ tx'[a].op = "enroll"
  BY <1>2, HoldIsCalm DEF EnrollBegin, Starts, Idling, Hold, OneInv, TxShape
<1>4. list' = [list EXCEPT ![a] = [fila |-> l, new |-> list[a].new, waits |-> list[a].waits]]
  BY ListEdits DEF EnrollBegin
<1>5. list[a].new = {} /\ list[a].waits = FALSE
  BY <1>1 DEF NoList
<1> QED
  BY <1>1, <1>3, <1>4, <1>5, ListKeeps DEF TxCalm

LEMMA EnrollSkipKeeps ==
  ASSUME OneInv, NEW a \in Actor, EnrollSkip(a)
  PROVE  OneInv'
<1>1. list' = [list EXCEPT ![a] = [fila |-> Tail(list[a].fila), new |-> list[a].new,
                                   waits |-> list[a].waits]]
  BY ListEdits DEF EnrollSkip
<1>2. ~list[a].waits /\ UNCHANGED <<row, tx>> /\ tx[a].op = "enroll"
  BY DEF EnrollSkip, EnrollVars
<1> QED
  BY <1>1, <1>2, SameIsCalm, ListKeeps DEF TxCalm

\* It waits for a prospect that it has not inserted.
LEMMA EnrollWaitKeeps ==
  ASSUME OneInv, NEW a \in Actor, tx[a].op = "enroll", UNCHANGED <<row, tx>>,
         ~Skipped(a, Head(list[a].fila)), list' = [list EXCEPT ![a].waits = TRUE]
  PROVE  OneInv'
<1>1. list' = [list EXCEPT ![a] = [fila |-> list[a].fila, new |-> list[a].new, waits |-> TRUE]]
  BY ListEdits
<1>2. \A r \in list[a].new : r.on # Head(list[a].fila)
  BY DEF Skipped
<1> QED
  BY <1>1, <1>2, SameIsCalm, ListKeeps DEF TxCalm

\* A row of p is inserted: nobody else has one, committed or not.
LEMMA InsertKeeps ==
  ASSUME OneInv, NEW a \in Actor, NEW p, Insert(a, p), tx[a].op = "enroll", UNCHANGED row,
         Active(p) = {}, Holders(a, p) = {}, \A r \in list[a].new : r.on # p
  PROVE  OneInv'
<1>1. PICK e \in Unused :
        /\ Hold(a, [Idle EXCEPT !.op = "enroll", !.rows = tx[a].rows \cup {e}])
        /\ list' = [list EXCEPT ![a] = [fila |-> Tail(@.fila), waits |-> FALSE,
                                        new |-> @.new \cup {[e |-> e, on |-> p]}]]
  BY DEF Insert
<1> DEFINE new == [e |-> e, on |-> p]
<1>2. \A b \in Actor : list'[b] =
        IF b = a THEN [fila |-> Tail(list[a].fila), waits |-> FALSE, new |-> list[a].new \cup {new}]
        ELSE list[b]
  BY <1>1 DEF OneInv, ListShape
<1>3. new.on = p
  OBVIOUS
<1> HIDE DEF new
<1>4. \A b \in Actor : list'[b].new = IF b = a THEN list[a].new \cup {new} ELSE list[b].new
  <2> SUFFICES ASSUME NEW b \in Actor
               PROVE  list'[b].new = IF b = a THEN list[a].new \cup {new} ELSE list[b].new
    OBVIOUS
  <2>1. CASE b = a
    BY <1>2, <2>1
  <2>2. CASE b # a
    BY <1>2, <2>2
  <2> QED
    BY <2>1, <2>2
<1>5. TxShape' /\ \A b \in Actor : tx'[b].op = tx[b].op
  BY <1>1 DEF Hold, OneInv, TxShape, Idle
<1>6. \A b \in Actor : \A r \in list[b].new : r.on # p
  BY DEF Holders
<1>7. Inserted'
  <2>1. \A q : Active(q)' = Active(q)
    BY DEF Active
  <2>2. ASSUME NEW b \in Actor, NEW r \in list'[b].new
        PROVE  /\ Active(r.on) = {}
               /\ \A c \in Actor : \A s \in list'[c].new : s.on = r.on => b = c /\ r = s
    BY <1>3, <1>4, <1>6 DEF OneInv, Inserted
  <2> QED
    BY <2>1, <2>2 DEF Inserted
<1>8. Waits' /\ OnlyEnrollers'
  BY <1>2, <1>5 DEF OneInv, Waits, OnlyEnrollers
<1>9. ListShape'
  BY <1>1 DEF OneInv, ListShape
<1> QED
  BY <1>5, <1>7, <1>8, <1>9 DEF OneInv, RowShape, ActiveOnce

LEMMA EnrollInsertKeeps ==
  ASSUME OneInv, NEW a \in Actor, EnrollInsert(a)
  PROVE  OneInv'
<1> DEFINE p == Head(list[a].fila)
<1>1. tx[a].op = "enroll" /\ UNCHANGED row /\ ~Skipped(a, p)
  BY DEF EnrollInsert, EnrollVars
<1>2. CASE Holders(a, p) = {}
  <2>1. Insert(a, p) /\ Active(p) = {} /\ \A r \in list[a].new : r.on # p
    BY <1>1, <1>2 DEF EnrollInsert, Skipped
  <2> QED
    BY <1>1, <1>2, <2>1, InsertKeeps
<1>3. CASE Holders(a, p) # {}
  BY <1>1, <1>3, EnrollWaitKeeps DEF EnrollInsert
<1> QED
  BY <1>2, <1>3

LEMMA EnrollWakesKeeps ==
  ASSUME OneInv, NEW a \in Actor, EnrollWakes(a)
  PROVE  OneInv'
<1> DEFINE p == Head(list[a].fila)
<1>1. /\ tx[a].op = "enroll" /\ UNCHANGED row /\ Holders(a, p) = {} /\ Active(p) = {}
      /\ Insert(a, p)
  BY DEF EnrollWakes, EnrollVars, Refused
<1>2. \A r \in list[a].new : r.on # p
  BY DEF OneInv, Waits, EnrollWakes
<1> QED
  BY <1>1, <1>2, InsertKeeps

LEMMA EnrollFailsKeeps ==
  ASSUME OneInv, NEW a \in Actor, EnrollFails(a)
  PROVE  OneInv'
<1>1. UNCHANGED row /\ list' = [list EXCEPT ![a] = NoList] /\ Close(a)
  BY DEF EnrollFails, EnrollVars
<1>2. TxShape' /\ \A b \in Actor \ {a} : tx'[b] = tx[b]
  BY <1>1 DEF Close, Hold, OneInv, TxShape
<1>3. NoList = [fila |-> NoList.fila, new |-> NoList.new, waits |-> NoList.waits]
      /\ NoList.new = {} /\ NoList.waits = FALSE
  BY DEF NoList
<1> QED
  BY <1>1, <1>2, <1>3, ListKeeps

\* What was inserted becomes active, and nobody else had inserted it.
LEMMA EnrollCommitKeeps ==
  ASSUME OneInv, NEW a \in Actor, EnrollCommit(a)
  PROVE  OneInv'
<1> DEFINE new == list[a].new
           on(e) == (CHOOSE r \in new : r.e = e).on
<1>1. /\ row' = [e \in Enrollment |->
             IF \E r \in new : r.e = e
             THEN [on |-> on(e), status |-> "active", step |-> 0, next |-> "now"] ELSE row[e]]
      /\ Close(a) /\ list' = [list EXCEPT ![a] = NoList]
  BY DEF EnrollCommit
<1>2. \A b \in Actor : list'[b] = IF b = a THEN NoList ELSE list[b]
  BY <1>1 DEF OneInv, ListShape
<1>3. NoList.new = {} /\ NoList.waits = FALSE
      /\ NoList = [fila |-> NoList.fila, new |-> NoList.new, waits |-> NoList.waits]
  BY DEF NoList
<1>4. TxShape' /\ \A b \in Actor : b # a => tx'[b] = tx[b]
  BY <1>1 DEF Close, Hold, OneInv, TxShape
<1>5. RowShape'
  <2> HIDE DEF on
  <2> QED
    BY <1>1 DEF OneInv, RowShape
<1>6. ASSUME NEW e \in Enrollment, row'[e].status = "active"
      PROVE  \/ \E r \in new : r.e = e /\ row'[e].on = r.on
             \/ row'[e] = row[e] /\ ~ \E r \in new : r.e = e
  <2>1. CASE \E r \in new : r.e = e
    <3>1. (CHOOSE r \in new : r.e = e) \in new /\ (CHOOSE r \in new : r.e = e).e = e
      BY <2>1
    <3>2. row'[e].on = on(e)
      BY <1>1, <2>1
    <3> QED
      BY <3>1, <3>2
  <2>2. CASE ~ \E r \in new : r.e = e
    BY <1>1, <2>2
  <2> QED
    BY <2>1, <2>2
<1> HIDE DEF on
<1>7. \A r \in new : Active(r.on) = {} /\ \A b \in Actor : \A s \in list[b].new :
                                            s.on = r.on => a = b /\ r = s
  BY DEF OneInv, Inserted
<1>8. ActiveOnce'
  <2> SUFFICES ASSUME NEW e \in Enrollment, NEW f \in Enrollment, row'[e].status = "active",
                      row'[f].status = "active", row'[e].on = row'[f].on
               PROVE  e = f
    BY DEF ActiveOnce
  <2>1. ASSUME NEW x \in Enrollment, NEW y \in Enrollment, NEW r \in new, row'[x].on = r.on,
               row'[y] = row[y], row'[y].status = "active", row'[x].on = row'[y].on
        PROVE  FALSE
    <3>1. y \in Active(r.on)
      BY <2>1 DEF Active
    <3> QED
      BY <1>7, <3>1
  <2>2. CASE \E r \in new : r.e = e /\ row'[e].on = r.on
    <3>1. \E s \in new : s.e = f /\ row'[f].on = s.on
      BY <1>6, <2>1, <2>2
    <3> QED
      BY <1>7, <2>2, <3>1
  <2>3. CASE row'[e] = row[e] /\ ~ \E r \in new : r.e = e
    <3>1. row'[f] = row[f]
      BY <1>6, <2>1, <2>3
    <3> QED
      BY <2>3, <3>1 DEF OneInv, ActiveOnce
  <2> QED
    BY <1>6, <2>2, <2>3
<1>9. Inserted'
  <2> SUFFICES ASSUME NEW b \in Actor, NEW r \in list'[b].new
               PROVE  /\ Active(r.on)' = {}
                      /\ \A c \in Actor : \A s \in list'[c].new : s.on = r.on => b = c /\ r = s
    BY DEF Inserted
  <2>1. b # a /\ r \in list[b].new
    BY <1>2, <1>3
  <2>2. \A c \in Actor : \A s \in list[c].new : s.on = r.on => b = c /\ r = s
    BY <2>1 DEF OneInv, Inserted
  <2>3. Active(r.on)' = {}
    <3> SUFFICES ASSUME NEW e \in Enrollment, row'[e].status = "active", row'[e].on = r.on
                 PROVE  FALSE
      BY DEF Active
    <3>1. row'[e] # row[e]
      BY <2>1 DEF OneInv, Inserted, Active
    <3> QED
      BY <1>6, <2>1, <2>2, <3>1
  <2> QED
    BY <1>2, <1>3, <2>2, <2>3
<1>10. ListShape' /\ Waits' /\ OnlyEnrollers'
  BY <1>1, <1>2, <1>3, <1>4 DEF OneInv, ListShape, Waits, OnlyEnrollers
<1> QED
  BY <1>4, <1>5, <1>8, <1>9, <1>10 DEF OneInv

LEMMA CadencesKeep ==
  ASSUME OneInv, PlanShape, CadencesNext
  PROVE  OneInv'
<1>1. CASE Day
  BY <1>1, DayIsCalm, FrameKeeps
<1>2. CASE \E a \in Actor : TickCommit(a)
  BY <1>2, TickIsCalm, FrameKeeps DEF PlanShape
<1>3. CASE \E a \in Actor :
         \/ TickBegin(a) \/ TickOne(a) \/ TickFails(a) \/ PauseCampaign(a) \/ DeleteCheck(a)
         \/ (\E e \in Enrollment : StopEnrollment(a, e)) \/ DeleteCommit(a)
         \/ \E n \in 1 .. MaxSteps, active \in BOOLEAN : UpdateSequence(a, n, active)
  BY <1>3, OthersAreCalm, FrameKeeps
<1>4. CASE \E a \in Actor : \/ \E l \in Lists : EnrollBegin(a, l)
                            \/ EnrollSkip(a) \/ EnrollInsert(a) \/ EnrollWakes(a)
                            \/ EnrollFails(a) \/ EnrollCommit(a)
  BY <1>4, EnrollBeginKeeps, EnrollSkipKeeps, EnrollInsertKeeps, EnrollWakesKeeps,
     EnrollFailsKeeps, EnrollCommitKeeps
<1> QED
  BY <1>1, <1>2, <1>3, <1>4 DEF CadencesNext

LEMMA OneNext ==
  ASSUME OneInv, PlanShape, [Next]_vars
  PROVE  OneInv' /\ PlanShape'
<1>1. PlanShape'
  BY PlanKeeps DEF PlanShape, vars, cadenceVars
<1>2. CASE FunnelNext /\ UNCHANGED <<boxVars, cadenceVars>>
  BY <1>1, <1>2, FunnelIsCalm, SameIsCalm, FrameKeeps DEF cadenceVars
<1>3. CASE InboxNext /\ UNCHANGED cadenceVars
  BY <1>1, <1>3, InboxIsCalm, FrameKeeps DEF cadenceVars
<1>4. CASE CadencesNext /\ UNCHANGED boxVars
  BY <1>1, <1>4, CadencesKeep
<1>5. CASE UNCHANGED vars
  BY <1>1, <1>5, SameIsCalm, FrameKeeps DEF vars, shared, cadenceVars
<1> QED
  BY <1>2, <1>3, <1>4, <1>5 DEF Next

\* No two lists enrolled side by side, and no tick, stop, bounce or deletion in
\* between, leave a prospect in two cadences (uq_sequence_enrollment_ativa).
THEOREM OneCadence == Spec => []OneCadencePerProspect
<1>1. Init => OneInv /\ PlanShape
  BY OneInitHolds, PlanInit
<1>2. OneInv /\ PlanShape /\ [Next]_vars => OneInv' /\ PlanShape'
  BY OneNext
<1>3. OneInv => OneCadencePerProspect
  <2> SUFFICES ASSUME OneInv, NEW p \in Prospect PROVE Cardinality(Active(p)) <= 1
    BY DEF OneCadencePerProspect
  <2>1. CASE Active(p) = {}
    BY <2>1, FS_EmptySet
  <2>2. CASE Active(p) # {}
    <3>1. PICK e : e \in Active(p)
      BY <2>2
    <3>2. Active(p) = {e}
      BY <3>1 DEF OneInv, ActiveOnce, Active
    <3>3. Cardinality({e}) = 1
      BY FS_Singleton, Zenon
    <3> QED
      BY <3>2, <3>3
  <2> QED
    BY <2>1, <2>2
<1> QED
  BY <1>1, <1>2, <1>3, PTL DEF Spec

-----------------------------------------------------------------------------
(***************************************************************************)
(* What is closed stays closed.                                            *)
(*                                                                         *)
(* The steps that move a prospect up the funnel look at the status their   *)
(* session has read; the verdict is the one that does not, and its session *)
(* has looked at the contact instead.                                      *)
(***************************************************************************)

StatusShape == status = [p \in Prospect |-> status[p]]

\* A verdict is asked for only about who has not opted out.
VerdictsAreClear == \A a \in Actor : tx[a].op = "qualify" => ~tx[a].barred

ClosedInv == /\ StatusShape /\ TxShape
             /\ \A a \in Actor : "op" \in DOMAIN tx[a]
             /\ VerdictsAreClear

LEMMA ClosedInitHolds ==
  Init => ClosedInv
BY DEF Init, ProspectsInit, ClosedInv, StatusShape, TxShape, VerdictsAreClear, Idle

LEMMA ClosedHold ==
  ASSUME ClosedInv, NEW a \in Actor, NEW t, Hold(a, t), "op" \in DOMAIN t, StatusShape',
         t.op = "qualify" => ~t.barred
  PROVE  ClosedInv'
<1>1. TxShape' /\ \A b \in Actor : tx'[b] = IF b = a THEN t ELSE tx[b]
  BY DEF ClosedInv, TxShape, Hold
<1> QED
  BY <1>1 DEF ClosedInv, VerdictsAreClear

LEMMA ClosedClose ==
  ASSUME ClosedInv, NEW a \in Actor, Close(a), StatusShape'
  PROVE  ClosedInv'
BY ClosedHold DEF Close, Idle

LEMMA ClosedSame ==
  ASSUME ClosedInv, UNCHANGED tx, StatusShape'
  PROVE  ClosedInv'
BY DEF ClosedInv, TxShape, VerdictsAreClear

LEMMA SameStatus ==
  ASSUME ClosedInv, UNCHANGED status
  PROVE  StatusShape' /\ StaysClosed
BY DEF ClosedInv, StatusShape, StaysClosed, Up

\* The family of a contact goes to one status, which is not up.
LEMMA FamilyMoves ==
  ASSUME ClosedInv, NEW c, NEW to, to \notin Up, MoveFamily(c, to)
  PROVE  StatusShape' /\ StaysClosed
BY DEF ClosedInv, StatusShape, StaysClosed, MoveFamily, Up

LEMMA OneMoves ==
  ASSUME ClosedInv, NEW p, NEW to, status' = [status EXCEPT ![p] = to],
         \/ to \notin Up \/ status[p] # "disqualified"
         \/ \E a \in Actor : /\ tx[a].on = p /\ tx'[a] # tx[a]
                             /\ (tx[a].saw # "disqualified" \/ ~tx[a].barred)
  PROVE  StatusShape' /\ StaysClosed
<1>1. StatusShape'
  BY DEF ClosedInv, StatusShape
<1>2. \A q \in Prospect : status'[q] = IF q = p THEN to ELSE status[q]
  BY DEF ClosedInv, StatusShape
<1>3. StaysClosed
  <2> SUFFICES ASSUME NEW q \in Prospect, status[q] = "disqualified", status'[q] \in Up
               PROVE  \E a \in Actor : /\ tx[a].on = q /\ tx'[a] # tx[a]
                                       /\ (tx[a].saw # "disqualified" \/ ~tx[a].barred)
    BY DEF StaysClosed
  <2>1. q = p
    BY <1>2 DEF Up
  <2> QED
    BY <1>2, <2>1
<1> QED
  BY <1>1, <1>3

\* A session moves the prospect it has read, and ends or goes on.
LEMMA ReaderMoves ==
  ASSUME ClosedInv, NEW a \in Actor, NEW p, NEW to, tx[a].on = p, Move(p, tx[a].saw, to),
         to \notin Up \/ (tx'[a] # tx[a] /\ (tx[a].saw # "disqualified" \/ ~tx[a].barred))
  PROVE  StatusShape' /\ StaysClosed
<1>1. CASE tx[a].saw = to
  BY <1>1, SameStatus DEF Move
<1>2. CASE tx[a].saw # to
  <2>1. status' = [status EXCEPT ![p] = to]
    BY <1>2 DEF Move
  <2> QED
    BY <2>1, OneMoves
<1> QED
  BY <1>1, <1>2

LEMMA ReadsKeepsClosed ==
  ASSUME ClosedInv, NEW a \in Actor, NEW op, NEW p, NEW n, NEW job, Reads(a, op, p, n, job),
         op # "qualify" \/ ContactOf[p] \notin optedOut
  PROVE  ClosedInv' /\ StaysClosed
<1> DEFINE barred == ContactOf[p] \in optedOut
           t == [Idle EXCEPT !.op = op, !.on = p, !.saw = status[p], !.n = n, !.job = job,
                             !.barred = barred]
<1>1. Hold(a, t) /\ UNCHANGED status
  BY DEF Reads, prospectVars
<1>2. "op" \in DOMAIN t /\ t.op = op /\ t.barred = barred
  <2> HIDE DEF barred
  <2> QED
    BY DEF Idle
<1>3. op = "qualify" => ~t.barred
  BY <1>2
<1> HIDE DEF t
<1> QED
  BY <1>1, <1>2, <1>3, SameStatus, ClosedHold

LEMMA PeopleKeepClosed ==
  ASSUME ClosedInv, NEW a \in Actor, NEW p \in Prospect, People(a, p)
  PROVE  ClosedInv' /\ StaysClosed
<1>1. CASE \/ OptOutByHand(a, p) \/ WriteReply(a, p)
           \/ (\E i \in DOMAIN history[p] : Approve(a, p, i))
           \/ (\E agent \in {"outreach", "conversation"} : AskForRun(a, agent, p))
  BY <1>1, SameStatus, ClosedSame
     DEF OptOutByHand, WriteReply, Approve, AskForRun, AtOnce, prospectVars
<1>2. CASE Score(a, p)
  BY <1>2, ClosedSame, OneMoves DEF Score, Unscored, AtOnce
<1>3. CASE BookMeeting(a, p)
  BY <1>3, ClosedSame, OneMoves DEF BookMeeting, AtOnce, Up
<1>4. CASE Unsubscribe(a, p)
  BY <1>4, ClosedSame, FamilyMoves DEF Unsubscribe, AtOnce, Up
<1>5. CASE InboundBegin(a, p)
  BY <1>5, ReadsKeepsClosed DEF InboundBegin
<1>6. CASE InboundCommit(a, p)
  <2>1. /\ tx[a].op = "inbound" /\ tx[a].on = p /\ Close(a)
        /\ IF Engages(tx[a].saw) THEN Move(p, tx[a].saw, "engaged") ELSE UNCHANGED status
    BY <1>6 DEF InboundCommit, Writes
  <2>2. tx'[a] # tx[a]
    BY <2>1 DEF Close, Hold, Idle, ClosedInv, TxShape
  <2>3. StatusShape' /\ StaysClosed
    BY <2>1, <2>2, ReaderMoves, SameStatus DEF Engages
  <2> QED
    BY <2>1, <2>3, ClosedClose
<1> QED
  BY <1>1, <1>2, <1>3, <1>4, <1>5, <1>6 DEF People

LEMMA SendingKeepsClosed ==
  ASSUME ClosedInv, NEW a \in Actor, NEW p \in Prospect, Sending(a, p)
  PROVE  ClosedInv' /\ StaysClosed
<1>1. CASE \E i \in DOMAIN history[p] : SendCheck(a, p, i)
  BY <1>1, ReadsKeepsClosed DEF SendCheck
<1>2. CASE SendCommit(a, p)
  <2>1. /\ tx[a].op = "send" /\ tx[a].on = p /\ Close(a)
        /\ IF tx[a].saw \in {"new", "scored"} THEN Move(p, tx[a].saw, "contacted")
           ELSE UNCHANGED status
    BY <1>2 DEF SendCommit, Writes
  <2>2. tx'[a] # tx[a]
    BY <2>1 DEF Close, Hold, Idle, ClosedInv, TxShape
  <2>3. StatusShape' /\ StaysClosed
    BY <2>1, <2>2, ReaderMoves, SameStatus
  <2> QED
    BY <2>1, <2>3, ClosedClose
<1> QED
  BY <1>1, <1>2 DEF Sending

LEMMA AgentsKeepClosed ==
  ASSUME ClosedInv, NEW a \in Actor, NEW p \in Prospect, Agents(a, p)
  PROVE  ClosedInv' /\ StaysClosed
<1>1. CASE OutreachLoad(a, p) \/ ConverseLoad(a, p)
  BY <1>1, ReadsKeepsClosed DEF OutreachLoad, ConverseLoad
<1>2. CASE QualifyLoad(a, p)
  BY <1>2, ReadsKeepsClosed DEF QualifyLoad
<1>3. CASE OutreachPersist(a, p)
  BY <1>3, SameStatus, ClosedClose DEF OutreachPersist, Writes
<1>4. CASE ConversePersist(a, p)
  <2>1. /\ tx[a].op = "converse" /\ tx[a].on = p /\ Close(a)
        /\ IF tx[a].saw \in {"contacted", "scored"} THEN Move(p, tx[a].saw, "engaged")
           ELSE UNCHANGED status
    BY <1>4 DEF ConversePersist, Writes
  <2>2. tx'[a] # tx[a]
    BY <2>1 DEF Close, Hold, Idle, ClosedInv, TxShape
  <2>3. StatusShape' /\ StaysClosed
    BY <2>1, <2>2, ReaderMoves, SameStatus
  <2> QED
    BY <2>1, <2>3, ClosedClose
<1>5. CASE ConverseOptOut(a, p)
  <2>1. tx[a].on = p /\ Close(a) /\ Move(p, tx[a].saw, "disqualified")
    BY <1>5 DEF ConverseOptOut, Writes
  <2>2. "disqualified" \notin Up
    BY DEF Up
  <2>3. StatusShape' /\ StaysClosed
    <3>1. CASE tx[a].saw = "disqualified"
      BY <2>1, <3>1, SameStatus DEF Move
    <3>2. CASE status' = [status EXCEPT ![p] = "disqualified"]
      BY <2>2, <3>2, OneMoves
    <3> QED
      BY <2>1, <3>1, <3>2 DEF Move
  <2> QED
    BY <2>1, <2>3, ClosedClose
<1>6. CASE \E outcome \in Outcome : QualifyPersist(a, p, outcome)
  <2>1. PICK outcome \in Outcome : QualifyPersist(a, p, outcome)
    BY <1>6
  <2>2. /\ tx[a].op = "qualify" /\ tx[a].on = p /\ Close(a)
        /\ Move(p, tx[a].saw, outcome) \/ UNCHANGED status
    BY <2>1 DEF QualifyPersist, Writes
  <2>3. tx'[a] # tx[a] /\ ~tx[a].barred
    BY <2>2 DEF Close, Hold, Idle, ClosedInv, TxShape, VerdictsAreClear
  <2>4. StatusShape' /\ StaysClosed
    BY <2>2, <2>3, ReaderMoves, SameStatus
  <2> QED
    BY <2>2, <2>4, ClosedClose
<1> QED
  BY <1>1, <1>2, <1>3, <1>4, <1>5, <1>6 DEF Agents

LEMMA FunnelKeepsClosed ==
  ASSUME ClosedInv, FunnelNext
  PROVE  ClosedInv' /\ StaysClosed
<1>1. CASE \E a \in Actor : AgentGivesUp(a)
  BY <1>1, SameStatus, ClosedClose DEF AgentGivesUp, prospectVars
<1>2. CASE \E j \in jobs : JobDies(j)
  BY <1>2, SameStatus, ClosedSame DEF JobDies, prospectVars
<1> QED
  BY <1>1, <1>2, PeopleKeepClosed, SendingKeepsClosed, AgentsKeepClosed DEF FunnelNext

\* A session of something else than a verdict holds what it likes.
LEMMA OtherHolds ==
  ASSUME ClosedInv, NEW a \in Actor, tx[a].op # "qualify", StatusShape',
         \/ UNCHANGED tx
         \/ Close(a)
         \/ \E t : Hold(a, t) /\ "op" \in DOMAIN t /\ t.op # "qualify"
  PROVE  ClosedInv'
BY ClosedClose, ClosedHold, ClosedSame

\* An edit of the record in flight.
LEMMA EditHolds ==
  ASSUME ClosedInv, NEW a \in Actor
  PROVE  /\ "op" \in DOMAIN [tx[a] EXCEPT !.op = "mark"]
         /\ [tx[a] EXCEPT !.op = "mark"].op = "mark"
         /\ \A r : /\ "op" \in DOMAIN [tx[a] EXCEPT !.rows = r]
                   /\ [tx[a] EXCEPT !.rows = r].op = tx[a].op
         /\ \A n, p, b, s :
              /\ "op" \in DOMAIN [tx[a] EXCEPT !.n = n, !.on = p, !.barred = b, !.saw = s]
              /\ [tx[a] EXCEPT !.n = n, !.on = p, !.barred = b, !.saw = s].op = tx[a].op
BY DEF ClosedInv

LEMMA ProcessedKeepsClosed ==
  ASSUME ClosedInv, NEW a \in Actor, NEW touched, Processed(a, touched), StatusShape',
         tx[a].op = "fetch"
  PROVE  ClosedInv' /\ tx'[a] # tx[a]
<1> DEFINE t == [tx[a] EXCEPT !.op = "mark"]
<1>1. "op" \in DOMAIN t /\ t.op = "mark" /\ Hold(a, t)
  BY EditHolds DEF Processed
<1> HIDE DEF t
<1>2. tx'[a] = t
  BY <1>1 DEF Hold, ClosedInv, TxShape
<1> QED
  BY <1>1, <1>2, OtherHolds

LEMMA InboxKeepsClosed ==
  ASSUME ClosedInv, InboxNext
  PROVE  ClosedInv' /\ StaysClosed
<1>1. CASE \E m \in Mail : Deliver(m)
  BY <1>1, SameStatus, ClosedSame DEF Deliver, shared, prospectVars
<1>2. CASE \E a \in Actor : FetchBegin(a) \/ MailDefect(a) \/ MarkSeen(a)
  <2>1. PICK a \in Actor : FetchBegin(a) \/ MailDefect(a) \/ MarkSeen(a)
    BY <1>2
  <2>2. Hold(a, [Idle EXCEPT !.op = "fetch"]) /\ UNCHANGED status
    BY <2>1 DEF FetchBegin, MailDefect, MarkSeen, Onwards, prospectVars
  <2>3. "op" \in DOMAIN [Idle EXCEPT !.op = "fetch"] /\ [Idle EXCEPT !.op = "fetch"].op = "fetch"
    BY DEF Idle
  <2> QED
    BY <2>2, <2>3, SameStatus, ClosedHold
<1>3. CASE \E a \in Actor : MailCheck(a)
  <2>1. PICK a \in Actor : MailCheck(a)
    BY <1>3
  <2>2. tx[a].op = "fetch" /\ UNCHANGED status
    BY <2>1 DEF MailCheck, Reading, prospectVars
  <2>3. PICK n, p, b, s : Hold(a, [tx[a] EXCEPT !.n = n, !.on = p, !.barred = b, !.saw = s])
    BY <2>1, Zenon DEF MailCheck
  <2> DEFINE t == [tx[a] EXCEPT !.n = n, !.on = p, !.barred = b, !.saw = s]
  <2>4. "op" \in DOMAIN t /\ t.op = tx[a].op /\ Hold(a, t)
    BY <2>3, EditHolds
  <2> HIDE DEF t
  <2> QED
    BY <2>2, <2>4, SameStatus, OtherHolds
<1>4. CASE \E a \in Actor : FetchEnd(a) \/ FetchBreaks(a)
  BY <1>4, SameStatus, ClosedClose DEF FetchEnd, FetchBreaks, prospectVars
<1>5. CASE \E a \in Actor : SoftBounceCommit(a) \/ AlreadyKnown(a)
  BY <1>5, SameStatus, ProcessedKeepsClosed DEF SoftBounceCommit, AlreadyKnown, InHand, Reading
<1>6. CASE \E a \in Actor : HardBounceCommit(a)
  <2>1. PICK a \in Actor : HardBounceCommit(a)
    BY <1>6
  <2>2. MoveFamily(ContactOf[tx[a].on], "bounced") /\ Processed(a, {}) /\ tx[a].op = "fetch"
    BY <2>1 DEF HardBounceCommit, InHand, Reading
  <2>3. StatusShape' /\ StaysClosed
    BY <2>2, FamilyMoves DEF Up
  <2> QED
    BY <2>2, <2>3, ProcessedKeepsClosed
<1>7. CASE \E a \in Actor : ReplyCommit(a)
  <2>1. PICK a \in Actor : ReplyCommit(a)
    BY <1>7
  <2> DEFINE p == tx[a].on
  <2>2. /\ Processed(a, {p}) /\ tx[a].op = "fetch"
        /\ IF Engages(tx[a].saw) THEN Move(p, tx[a].saw, "engaged") ELSE UNCHANGED status
    BY <2>1 DEF ReplyCommit, InHand, Reading
  <2>3. tx'[a] # tx[a]
    BY <2>2, EditHolds DEF Processed, Hold, ClosedInv, TxShape
  <2>4. StatusShape' /\ StaysClosed
    BY <2>2, <2>3, ReaderMoves, SameStatus DEF Engages
  <2> QED
    BY <2>2, <2>4, ProcessedKeepsClosed
<1> QED
  BY <1>1, <1>2, <1>3, <1>4, <1>5, <1>6, <1>7 DEF InboxNext

LEMMA CadencesKeepClosed ==
  ASSUME ClosedInv, CadencesNext
  PROVE  ClosedInv' /\ StaysClosed
<1>1. UNCHANGED status
  BY DEF CadencesNext, Steady, prospectVars, Day, EnrollBegin, EnrollSkip, EnrollInsert,
         EnrollWakes, EnrollFails, EnrollCommit, TickBegin, TickOne, TickCommit, TickFails,
         StopEnrollment, UpdateSequence, PauseCampaign, DeleteCheck, DeleteCommit
<1>2. StatusShape' /\ StaysClosed
  BY <1>1, SameStatus
<1>3. \A op \in {"enroll", "tick", "delete"} :
        /\ "op" \in DOMAIN [Idle EXCEPT !.op = op] /\ [Idle EXCEPT !.op = op].op = op
        /\ \A r : /\ "op" \in DOMAIN [Idle EXCEPT !.op = op, !.rows = r]
                  /\ [Idle EXCEPT !.op = op, !.rows = r].op = op
  BY DEF Idle
<1>4. CASE \E a \in Actor : \/ \E l \in Lists : EnrollBegin(a, l)
                            \/ TickBegin(a) \/ DeleteCheck(a)
  BY <1>2, <1>3, <1>4, ClosedHold DEF EnrollBegin, TickBegin, DeleteCheck
<1>5. CASE \E a \in Actor : EnrollInsert(a) \/ EnrollWakes(a)
  BY <1>2, <1>3, <1>5, ClosedSame, ClosedHold DEF EnrollInsert, EnrollWakes, Insert
<1>6. CASE \E a \in Actor : TickOne(a)
  <2>1. PICK a \in Actor : TickOne(a)
    BY <1>6
  <2>2. tx[a].op = "tick" /\ \E r : Hold(a, [tx[a] EXCEPT !.rows = r])
    BY <2>1 DEF TickOne
  <2> QED
    BY <1>2, <2>2, EditHolds, OtherHolds
<1>7. CASE \E a \in Actor : \/ EnrollFails(a) \/ EnrollCommit(a) \/ TickCommit(a)
                            \/ TickFails(a) \/ DeleteCommit(a)
  BY <1>2, <1>7, ClosedClose DEF EnrollFails, EnrollCommit, TickCommit, TickFails, DeleteCommit
<1>8. CASE \/ Day
           \/ \E a \in Actor :
                \/ EnrollSkip(a) \/ (\E e \in Enrollment : StopEnrollment(a, e))
                \/ (\E n \in 1 .. MaxSteps, active \in BOOLEAN : UpdateSequence(a, n, active))
                \/ PauseCampaign(a)
  BY <1>2, <1>8, ClosedSame DEF Day, EnrollSkip, StopEnrollment, UpdateSequence, PauseCampaign
<1> QED
  BY <1>4, <1>5, <1>6, <1>7, <1>8 DEF CadencesNext

\* What a descadastro has closed is reopened only by a session that had read
\* the prospect, or the contact, before it (app/api/v1/public.py, unsubscribe).
THEOREM ClosedIsClosed == Spec => ClosedStaysClosed
<1>1. Init => ClosedInv
  BY ClosedInitHolds
<1>2. ClosedInv /\ [Next]_vars => ClosedInv' /\ StaysClosed
  <2> SUFFICES ASSUME ClosedInv, [Next]_vars PROVE ClosedInv' /\ StaysClosed
    OBVIOUS
  <2>1. CASE UNCHANGED vars
    BY <2>1, SameStatus, ClosedSame DEF vars, shared, prospectVars
  <2> QED
    BY <2>1, FunnelKeepsClosed, InboxKeepsClosed, CadencesKeepClosed DEF Next
<1> QED
  BY <1>1, <1>2, PTL DEF Spec, ClosedStaysClosed


-----------------------------------------------------------------------------
(***************************************************************************)
(* What is marked as seen is in its conversation.                          *)
(*                                                                         *)
(* Conversations only grow: messages change status and are never taken     *)
(* away (Grows).  An email is marked by a session that has committed it,   *)
(* or has found it recorded, and has had it in hand since (Hands).         *)
(***************************************************************************)

Has(h, m) == \E i \in DOMAIN h : h[i].mail = m

HistoryOK == history \in [Prospect -> Seq(MessageRec)]

\* No status is taken for the word that says an email is known.
StatusOK == StatusShape /\ \A p \in Prospect : status[p] # "known"

TodoOK == /\ reader = [a \in Actor |-> [todo |-> reader[a].todo, touched |-> reader[a].touched]]
          /\ \A a \in Actor : reader[a].todo \subseteq Mail
          /\ arrived \subseteq Mail

Whole(t) == {"op", "on", "saw", "n"} \subseteq DOMAIN t

\* An email whose row, if it is a reply, is there.
Filed(h, m) == m \in Mail /\ (KindOf[m] = "reply" => Has(h[From[m]], m))

Hands(h, t) ==
  /\ t.op = "fetch" => IF t.n = 0 THEN t.saw # "known"
                       ELSE /\ t.n \in Mail /\ t.on = From[t.n]
                            /\ t.saw = "known" => Filed(h, t.n)
  /\ t.op = "mark" => Filed(h, t.n)

KeptInv == /\ HistoryOK /\ StatusOK /\ TodoOK /\ TxShape
           /\ \A a \in Actor : Whole(tx[a]) /\ Hands(history, tx[a])
           /\ \A m \in seen : Filed(history, m)

Grows == \A p \in Prospect : \A m : Has(history[p], m) => Has(history'[p], m)

LEMMA IdleHands ==
  /\ Whole(Idle) /\ \A h : Hands(h, Idle)
  /\ \A op : op # "mark" => LET t == [Idle EXCEPT !.op = op]
                            IN  Whole(t) /\ t.op = op /\ \A h : Hands(h, t)
BY DEF Idle, Whole, Hands

LEMMA KeptInitHolds ==
  Init => KeptInv
<1> SUFFICES ASSUME Init PROVE KeptInv
  OBVIOUS
<1>1. <<SentCold>> \in Seq(MessageRec) /\ <<>> \in Seq(MessageRec)
  <2>1. SentCold \in MessageRec
    BY DEF SentCold, MessageRec
  <2> QED
    BY <2>1
<1>2. HistoryOK /\ StatusOK
  BY <1>1 DEF Init, ProspectsInit, HistoryOK, StatusOK, StatusShape
<1>3. TodoOK /\ seen = {}
  BY DEF Init, InboxInit, TodoOK, NoMail
<1>4. TxShape /\ \A a \in Actor : tx[a] = Idle
  BY DEF Init, ProspectsInit, TxShape
<1> QED
  BY <1>2, <1>3, <1>4, IdleHands DEF KeptInv

\* What is filed stays filed.
LEMMA FiledStays ==
  ASSUME Grows, NEW m, Filed(history, m)
  PROVE  Filed(history', m)
BY InboxAssumption DEF Grows, Filed

LEMMA HandsStay ==
  ASSUME Grows, NEW t, Hands(history, t)
  PROVE  Hands(history', t)
BY FiledStays DEF Hands

\* A step in which one session at most moves, and marks only what is filed.
LEMMA KeptStep ==
  ASSUME KeptInv, HistoryOK', StatusOK', TodoOK', Grows,
         UNCHANGED tx \/ \E a \in Actor : \E t : Hold(a, t) /\ Whole(t) /\ Hands(history', t),
         \A m \in seen' \ seen : Filed(history', m)
  PROVE  KeptInv'
<1>1. \A m \in seen' : Filed(history', m)
  BY FiledStays DEF KeptInv
<1>2. CASE UNCHANGED tx
  BY <1>1, <1>2, HandsStay DEF KeptInv, TxShape
<1>3. CASE \E a \in Actor : \E t : Hold(a, t) /\ Whole(t) /\ Hands(history', t)
  <2>0. PICK a \in Actor : \E t : Hold(a, t) /\ Whole(t) /\ Hands(history', t)
    BY <1>3
  <2>1. PICK t : Hold(a, t) /\ Whole(t) /\ Hands(history', t)
    BY <2>0
  <2>2. TxShape' /\ \A b \in Actor : tx'[b] = IF b = a THEN t ELSE tx[b]
    BY <2>1 DEF Hold, KeptInv, TxShape
  <2>3. \A b \in Actor : Whole(tx'[b]) /\ Hands(history', tx'[b])
    BY <2>1, <2>2, HandsStay DEF KeptInv
  <2> QED
    BY <1>1, <2>2, <2>3 DEF KeptInv
<1> QED
  BY <1>2, <1>3

\* Nothing of the mailbox moves, and the session that moves reads no email.
LEMMA KeptAway ==
  ASSUME KeptInv, HistoryOK', StatusOK', Grows, UNCHANGED boxVars,
         \/ UNCHANGED tx
         \/ \E a \in Actor : \/ Close(a)
                             \/ \E t : Hold(a, t) /\ Whole(t) /\ t.op \notin {"fetch", "mark"}
  PROVE  KeptInv'
<1>1. TodoOK' /\ UNCHANGED seen
  BY DEF KeptInv, TodoOK, boxVars
<1>2. \A t : t.op \notin {"fetch", "mark"} => Hands(history', t)
  BY DEF Hands
<1>3. UNCHANGED tx \/ \E a \in Actor : \E t : Hold(a, t) /\ Whole(t) /\ Hands(history', t)
  BY <1>2, IdleHands DEF Close
<1> QED
  BY <1>1, <1>3, KeptStep

-----------------------------------------------------------------------------
\* What conversations are written with.
LEMMA SameHistory ==
  ASSUME KeptInv, UNCHANGED history
  PROVE  HistoryOK' /\ Grows
BY DEF KeptInv, HistoryOK, Grows

LEMMA WriteGrows ==
  ASSUME KeptInv, NEW p, NEW kind \in {"cold", "answer", "reply"},
         NEW st \in {"draft", "queued", "sent", "bounced", "replied"}, NEW mail \in Nat,
         Write(p, kind, st, mail)
  PROVE  HistoryOK' /\ Grows /\ (p \in Prospect => Has(history'[p], mail))
<1> DEFINE r == [kind |-> kind, status |-> st, mail |-> mail]
<1>1. r \in MessageRec /\ r.mail = mail
  BY DEF MessageRec
<1>2. history' = [history EXCEPT ![p] = Append(@, r)]
  BY DEF Write
<1> HIDE DEF r
<1>3. \A h \in Seq(MessageRec) :
        /\ Append(h, r) \in Seq(MessageRec)
        /\ Has(Append(h, r), mail)
        /\ \A m : Has(h, m) => Has(Append(h, r), m)
  <2> SUFFICES ASSUME NEW h \in Seq(MessageRec)
               PROVE  /\ Append(h, r) \in Seq(MessageRec)
                      /\ Has(Append(h, r), mail)
                      /\ \A m : Has(h, m) => Has(Append(h, r), m)
    OBVIOUS
  <2>1. /\ Append(h, r) \in Seq(MessageRec)
        /\ DOMAIN h = 1 .. Len(h) /\ DOMAIN Append(h, r) = 1 .. Len(h) + 1 /\ Len(h) \in Nat
        /\ Append(h, r)[Len(h) + 1] = r
        /\ \A i \in DOMAIN h : Append(h, r)[i] = h[i]
    BY <1>1
  <2> QED
    BY <1>1, <2>1 DEF Has
<1> QED
  BY <1>2, <1>3 DEF KeptInv, HistoryOK, Grows

LEMMA FunctionIsSeq ==
  ASSUME NEW n \in Nat, NEW g, NEW S, g = [i \in 1 .. n |-> g[i]], \A i \in 1 .. n : g[i] \in S
  PROVE  g \in Seq(S)
<1>1. g \in [1 .. n -> S]
  OBVIOUS
<1> QED
  BY <1>1, SeqDef

\* Messages change status.
LEMMA MarkingGrows ==
  ASSUME KeptInv,
         history' = [p \in Prospect |-> history'[p]],
         \A p \in Prospect :
           \/ history'[p] = history[p]
           \/ /\ history'[p] \in Seq(MessageRec)
              /\ DOMAIN history'[p] = DOMAIN history[p]
              /\ \A i \in DOMAIN history[p] : history'[p][i].mail = history[p][i].mail
  PROVE  HistoryOK' /\ Grows
BY DEF KeptInv, HistoryOK, Grows, Has

LEMMA OneMarked ==
  ASSUME KeptInv, NEW p \in Prospect, NEW i,
         NEW st \in {"draft", "queued", "sent", "bounced", "replied"},
         history' = [history EXCEPT ![p][i].status = st]
  PROVE  HistoryOK' /\ Grows
<1> DEFINE h == history[p]
<1> DEFINE g == [h EXCEPT ![i].status = st]
<1>1. h \in Seq(MessageRec)
  BY DEF KeptInv, HistoryOK
<1>2. \A r \in MessageRec : /\ [r EXCEPT !.status = st] \in MessageRec
                            /\ [r EXCEPT !.status = st].mail = r.mail
  BY DEF MessageRec
<1>3. /\ DOMAIN g = DOMAIN h
      /\ \A j \in DOMAIN h : g[j] = IF j = i THEN [h[j] EXCEPT !.status = st] ELSE h[j]
  OBVIOUS
<1>4. \A j \in DOMAIN h : h[j] \in MessageRec
  BY <1>1
<1>5. g \in Seq(MessageRec) /\ \A j \in DOMAIN h : g[j].mail = h[j].mail
  <2>1. \A j \in DOMAIN h : g[j] \in MessageRec /\ g[j].mail = h[j].mail
    BY <1>2, <1>3, <1>4
  <2>2. /\ Len(h) \in Nat /\ DOMAIN h = 1 .. Len(h)
        /\ g = [j \in 1 .. Len(h) |-> g[j]]
    BY <1>1, SMTT(30)
  <2> QED
    BY <2>1, <2>2, FunctionIsSeq
<1>6. history' = [q \in Prospect |-> IF q = p THEN g ELSE history[q]]
  BY DEF KeptInv, HistoryOK
<1> HIDE DEF g
<1> QED
  BY <1>3, <1>5, <1>6, MarkingGrows

LEMMA ReturnedGrows ==
  ASSUME KeptInv, NEW p \in Prospect, Returned(p)
  PROVE  HistoryOK' /\ Grows
<1> DEFINE h == history[p]
<1>1. h \in Seq(MessageRec) /\ Len(h) \in Nat /\ DOMAIN h = 1 .. Len(h)
  BY DEF KeptInv, HistoryOK
<1>2. \A r \in MessageRec : /\ [r EXCEPT !.status = "bounced"] \in MessageRec
                            /\ [r EXCEPT !.status = "bounced"].mail = r.mail
  BY DEF MessageRec
<1>3. PICK b : history' = [history EXCEPT ![p] =
                [i \in DOMAIN h |-> IF b[i] THEN [h[i] EXCEPT !.status = "bounced"] ELSE h[i]]]
  <2> DEFINE sent == {i \in DOMAIN h : h[i].status = "sent"}
  <2> DEFINE c == [i \in DOMAIN h |-> i \in sent /\ \A j \in sent : j <= i]
  <2>1. history' = [history EXCEPT ![p] =
                [i \in DOMAIN h |-> IF c[i] THEN [h[i] EXCEPT !.status = "bounced"] ELSE h[i]]]
    BY DEF Returned, KeptInv, HistoryOK
  <2> QED
    BY <2>1
<1> DEFINE g == [i \in DOMAIN h |-> IF b[i] THEN [h[i] EXCEPT !.status = "bounced"] ELSE h[i]]
<1>4. \A i \in DOMAIN h : g[i] \in MessageRec /\ g[i].mail = h[i].mail
  BY <1>1, <1>2
<1>5. g \in Seq(MessageRec) /\ DOMAIN g = DOMAIN h
  <2>1. g = [i \in 1 .. Len(h) |-> g[i]] /\ DOMAIN g = DOMAIN h
    BY <1>1
  <2> QED
    BY <1>1, <1>4, <2>1, FunctionIsSeq
<1>6. history' = [q \in Prospect |-> IF q = p THEN g ELSE history[q]]
  BY <1>3 DEF KeptInv, HistoryOK
<1> HIDE DEF g
<1> QED
  BY <1>4, <1>5, <1>6, MarkingGrows

-----------------------------------------------------------------------------
\* What the status of a prospect becomes.
LEMMA NewStatus ==
  ASSUME KeptInv,
         \/ UNCHANGED status
         \/ \E p, saw, to : to # "known" /\ Move(p, saw, to)
         \/ \E p, to : to # "known" /\ status' = [status EXCEPT ![p] = to]
         \/ \E c, to : to # "known" /\ MoveFamily(c, to)
  PROVE  StatusOK'
<1>1. CASE UNCHANGED status
  BY <1>1 DEF KeptInv, StatusOK, StatusShape
<1>2. CASE \E p, to : to # "known" /\ status' = [status EXCEPT ![p] = to]
  BY <1>2 DEF KeptInv, StatusOK, StatusShape
<1>3. CASE \E p, saw, to : to # "known" /\ Move(p, saw, to)
  BY <1>1, <1>2, <1>3 DEF Move
<1>4. CASE \E c, to : to # "known" /\ MoveFamily(c, to)
  BY <1>4 DEF MoveFamily, KeptInv, StatusOK, StatusShape
<1> QED
  BY <1>1, <1>2, <1>3, <1>4

LEMMA ReadsKeeps ==
  ASSUME KeptInv, NEW a \in Actor, NEW op, NEW p, NEW n, NEW job, Reads(a, op, p, n, job),
         op \notin {"fetch", "mark"}, UNCHANGED boxVars
  PROVE  KeptInv'
<1>1. PICK t : /\ Hold(a, t)
               /\ t = [Idle EXCEPT !.op = op, !.on = p, !.saw = status[p], !.n = n,
                                   !.job = job, !.barred = ContactOf[p] \in optedOut]
  BY DEF Reads
<1>2. Whole(t) /\ t.op = op
  BY <1>1 DEF Whole, Idle
<1> QED
  BY <1>1, <1>2, SameHistory, NewStatus, KeptAway DEF Reads, prospectVars

LEMMA PeopleKeep ==
  ASSUME KeptInv, NEW a \in Actor, NEW p \in Prospect, People(a, p), UNCHANGED boxVars
  PROVE  KeptInv'
<1>1. CASE Score(a, p) \/ BookMeeting(a, p) \/ Unsubscribe(a, p) \/ OptOutByHand(a, p)
  BY <1>1, SameHistory, NewStatus, KeptAway
     DEF Score, BookMeeting, Unsubscribe, OptOutByHand, AtOnce
<1>2. CASE \E agent \in {"outreach", "conversation"} : AskForRun(a, agent, p)
  BY <1>2, SameHistory, NewStatus, KeptAway DEF AskForRun, prospectVars
<1>3. CASE WriteReply(a, p)
  BY <1>3, WriteGrows, NewStatus, KeptAway DEF WriteReply, AtOnce
<1>4. CASE \E i \in DOMAIN history[p] : Approve(a, p, i)
  BY <1>4, OneMarked, NewStatus, KeptAway DEF Approve, AtOnce
<1>5. CASE InboundBegin(a, p)
  BY <1>5, ReadsKeeps DEF InboundBegin
<1>6. CASE InboundCommit(a, p)
  <2>1. HistoryOK' /\ Grows
    BY <1>6, WriteGrows DEF InboundCommit
  <2> QED
    BY <1>6, <2>1, NewStatus, KeptAway DEF InboundCommit, Writes
<1> QED
  BY <1>1, <1>2, <1>3, <1>4, <1>5, <1>6 DEF People

LEMMA SendingKeeps ==
  ASSUME KeptInv, NEW a \in Actor, NEW p \in Prospect, Sending(a, p), UNCHANGED boxVars
  PROVE  KeptInv'
<1>1. CASE \E i \in DOMAIN history[p] : SendCheck(a, p, i)
  BY <1>1, ReadsKeeps DEF SendCheck
<1>2. CASE SendCommit(a, p)
  <2>1. HistoryOK' /\ Grows
    BY <1>2, OneMarked DEF SendCommit
  <2> QED
    BY <1>2, <2>1, NewStatus, KeptAway DEF SendCommit, Writes
<1> QED
  BY <1>1, <1>2 DEF Sending

LEMMA AgentsKeep ==
  ASSUME KeptInv, NEW a \in Actor, NEW p \in Prospect, Agents(a, p), UNCHANGED boxVars
  PROVE  KeptInv'
<1>1. CASE OutreachLoad(a, p) \/ ConverseLoad(a, p) \/ QualifyLoad(a, p)
  BY <1>1, ReadsKeeps DEF OutreachLoad, ConverseLoad, QualifyLoad
<1>2. CASE OutreachPersist(a, p) \/ ConversePersist(a, p) \/ ConverseOptOut(a, p)
  <2>1. HistoryOK' /\ Grows
    BY <1>2, WriteGrows DEF OutreachPersist, ConversePersist, ConverseOptOut
  <2>2. StatusOK'
    BY <1>2, NewStatus DEF OutreachPersist, ConversePersist, ConverseOptOut
  <2> QED
    BY <1>2, <2>1, <2>2, KeptAway DEF OutreachPersist, ConversePersist, ConverseOptOut, Writes
<1>3. CASE \E outcome \in Outcome : QualifyPersist(a, p, outcome)
  BY <1>3, SameHistory, NewStatus, KeptAway DEF QualifyPersist, Writes
<1> QED
  BY <1>1, <1>2, <1>3 DEF Agents

LEMMA FunnelKeeps ==
  ASSUME KeptInv, FunnelNext, UNCHANGED boxVars
  PROVE  KeptInv'
<1>1. CASE \E a \in Actor : AgentGivesUp(a)
  BY <1>1, SameHistory, NewStatus, KeptAway DEF AgentGivesUp, prospectVars
<1>2. CASE \E j \in jobs : JobDies(j)
  BY <1>2, SameHistory, NewStatus, KeptAway DEF JobDies, prospectVars
<1> QED
  BY <1>1, <1>2, PeopleKeep, SendingKeeps, AgentsKeep DEF FunnelNext

LEMMA CadencesKeepFiled ==
  ASSUME KeptInv, CadencesNext, UNCHANGED boxVars
  PROVE  KeptInv'
<1>1. UNCHANGED prospectVars
  BY DEF CadencesNext, Steady, Day, EnrollBegin, EnrollSkip, EnrollInsert,
         EnrollWakes, EnrollFails, EnrollCommit, TickBegin, TickOne, TickCommit, TickFails,
         StopEnrollment, UpdateSequence, PauseCampaign, DeleteCheck, DeleteCommit
<1>2. HistoryOK' /\ StatusOK' /\ Grows
  BY <1>1, SameHistory, NewStatus DEF prospectVars
<1>3. \A op \in {"enroll", "tick", "delete"} :
        /\ Whole([Idle EXCEPT !.op = op]) /\ [Idle EXCEPT !.op = op].op = op
        /\ \A r : /\ Whole([Idle EXCEPT !.op = op, !.rows = r])
                  /\ [Idle EXCEPT !.op = op, !.rows = r].op = op
  BY DEF Idle, Whole
<1>4. CASE \E a \in Actor : \/ \E l \in Lists : EnrollBegin(a, l)
                            \/ TickBegin(a) \/ DeleteCheck(a)
  BY <1>2, <1>3, <1>4, KeptAway DEF EnrollBegin, TickBegin, DeleteCheck
<1>5. CASE \E a \in Actor : EnrollInsert(a) \/ EnrollWakes(a)
  BY <1>2, <1>3, <1>5, KeptAway, ZenonT(60) DEF EnrollInsert, EnrollWakes, Insert
<1>6. CASE \E a \in Actor : TickOne(a)
  <2>1. PICK a \in Actor : TickOne(a)
    BY <1>6
  <2>2. tx[a].op = "tick" /\ \E r : Hold(a, [tx[a] EXCEPT !.rows = r])
    BY <2>1 DEF TickOne
  <2>3. \A r : /\ Whole([tx[a] EXCEPT !.rows = r])
               /\ [tx[a] EXCEPT !.rows = r].op = tx[a].op
    BY DEF KeptInv, Whole
  <2> QED
    BY <1>2, <2>2, <2>3, KeptAway
<1>7. CASE \E a \in Actor : \/ EnrollFails(a) \/ EnrollCommit(a) \/ TickCommit(a)
                            \/ TickFails(a) \/ DeleteCommit(a)
  BY <1>2, <1>7, KeptAway DEF EnrollFails, EnrollCommit, TickCommit, TickFails, DeleteCommit
<1>8. CASE \/ Day
           \/ \E a \in Actor :
                \/ EnrollSkip(a) \/ (\E e \in Enrollment : StopEnrollment(a, e))
                \/ (\E n \in 1 .. MaxSteps, active \in BOOLEAN : UpdateSequence(a, n, active))
                \/ PauseCampaign(a)
  BY <1>2, <1>8, KeptAway DEF Day, EnrollSkip, StopEnrollment, UpdateSequence, PauseCampaign
<1> QED
  BY <1>4, <1>5, <1>6, <1>7, <1>8 DEF CadencesNext

-----------------------------------------------------------------------------
\* A reading has left to do what has arrived.
LEMMA TodoKeeps ==
  ASSUME TodoOK, NEW a \in Actor, UNCHANGED arrived, NEW todo \in SUBSET Mail, NEW touched,
         \/ reader' = [reader EXCEPT ![a].todo = todo]
         \/ reader' = [reader EXCEPT ![a].touched = touched]
  PROVE  TodoOK'
<1>1. \A b \in Actor : /\ reader[b] = [todo |-> reader[b].todo, touched |-> reader[b].touched]
                       /\ reader[b].todo \subseteq Mail
  BY DEF TodoOK
<1>2. DOMAIN reader = Actor
  BY DEF TodoOK
<1>3. CASE reader' = [reader EXCEPT ![a].todo = todo]
  <2>1. [reader[a] EXCEPT !.todo = todo] = [todo |-> todo, touched |-> reader[a].touched]
    <3> DEFINE t == reader[a].todo
               u == reader[a].touched
    <3>1. reader[a] = [todo |-> t, touched |-> u]
      BY <1>1
    <3> HIDE DEF t, u
    <3>2. [[todo |-> t, touched |-> u] EXCEPT !.todo = todo]
          = [todo |-> todo, touched |-> u]
      OBVIOUS
    <3> QED
      BY <3>1, <3>2 DEF t, u
  <2>2. reader' = [b \in Actor |->
          IF b = a THEN [todo |-> todo, touched |-> reader[b].touched]
          ELSE [todo |-> reader[b].todo, touched |-> reader[b].touched]]
    BY <1>1, <1>2, <1>3, <2>1
  <2> QED
    BY <1>1, <2>2 DEF TodoOK
<1>4. CASE reader' = [reader EXCEPT ![a].touched = touched]
  <2>1. [reader[a] EXCEPT !.touched = touched] = [todo |-> reader[a].todo, touched |-> touched]
    <3> DEFINE t == reader[a].todo
               u == reader[a].touched
    <3>1. reader[a] = [todo |-> t, touched |-> u]
      BY <1>1
    <3> HIDE DEF t, u
    <3>2. [[todo |-> t, touched |-> u] EXCEPT !.touched = touched]
          = [todo |-> t, touched |-> touched]
      OBVIOUS
    <3> QED
      BY <3>1, <3>2 DEF t, u
  <2>2. reader' = [b \in Actor |->
          IF b = a THEN [todo |-> reader[b].todo, touched |-> touched]
          ELSE [todo |-> reader[b].todo, touched |-> reader[b].touched]]
    BY <1>1, <1>2, <1>4, <2>1
  <2> QED
    BY <1>1, <2>2 DEF TodoOK
<1> QED
  BY <1>3, <1>4

\* An email that is committed, or known, is filed when it is to be marked.
LEMMA ProcessedKeeps ==
  ASSUME KeptInv, NEW a \in Actor, NEW touched, Processed(a, touched),
         HistoryOK', StatusOK', Grows, Filed(history', tx[a].n)
  PROVE  KeptInv'
<1> DEFINE t == [tx[a] EXCEPT !.op = "mark"]
<1>1. Hold(a, t) /\ Whole(t) /\ t.op = "mark" /\ t.n = tx[a].n
  BY DEF Processed, KeptInv, Whole
<1>2. TodoOK' /\ UNCHANGED seen
  BY TodoKeeps DEF Processed, KeptInv
<1> HIDE DEF t
<1>3. Hands(history', t)
  BY <1>1 DEF Hands
<1> QED
  BY <1>1, <1>2, <1>3, KeptStep

\* The reading goes on, and has marked its email at most.
LEMMA OnwardsKeeps ==
  ASSUME KeptInv, NEW a \in Actor, Onwards(a), UNCHANGED <<prospectVars, arrived>>,
         \A m \in seen' \ seen : Filed(history, m)
  PROVE  KeptInv'
<1>1. HistoryOK' /\ StatusOK' /\ Grows
  BY SameHistory, NewStatus DEF prospectVars
<1>2. TodoOK'
  <2>1. reader[a].todo \ {tx[a].n} \in SUBSET Mail
    BY DEF KeptInv, TodoOK
  <2> QED
    BY <2>1, TodoKeeps DEF Onwards, KeptInv
<1>3. \E t : Hold(a, t) /\ Whole(t) /\ Hands(history', t)
  BY IdleHands DEF Onwards
<1>4. \A m \in seen' \ seen : Filed(history', m)
  BY <1>1, FiledStays
<1> QED
  BY <1>1, <1>2, <1>3, <1>4, KeptStep

LEMMA MailCheckKeeps ==
  ASSUME KeptInv, NEW a \in Actor, MailCheck(a)
  PROVE  KeptInv'
<1>1. PICK m \in reader[a].todo :
        Hold(a, [tx[a] EXCEPT !.n = m, !.on = From[m],
                              !.barred = ContactOf[From[m]] \in optedOut,
                              !.saw = IF Known(m) THEN "known" ELSE status[From[m]]])
  BY DEF MailCheck
<1> DEFINE t == [tx[a] EXCEPT !.n = m, !.on = From[m],
                              !.barred = ContactOf[From[m]] \in optedOut,
                              !.saw = IF Known(m) THEN "known" ELSE status[From[m]]]
<1>2. /\ Hold(a, t) /\ Whole(t) /\ t.op = "fetch" /\ t.n = m /\ t.on = From[m]
      /\ t.saw = IF Known(m) THEN "known" ELSE status[From[m]]
  BY <1>1 DEF MailCheck, Reading, KeptInv, Whole
<1> HIDE DEF t
<1>3. m \in Mail /\ m # 0 /\ From[m] \in Prospect
  BY InboxAssumption DEF KeptInv, TodoOK, Mail
<1>4. t.saw = "known" => Filed(history, m)
  BY <1>2, <1>3 DEF KeptInv, StatusOK, Known, Recorded, Filed, Has
<1>5. HistoryOK' /\ StatusOK' /\ Grows /\ TodoOK' /\ UNCHANGED <<seen, history>>
  BY SameHistory, NewStatus DEF MailCheck, prospectVars, boxVars, KeptInv, TodoOK
<1>6. Hands(history', t)
  BY <1>2, <1>3, <1>4, <1>5 DEF Hands
<1> QED
  BY <1>2, <1>5, <1>6, KeptStep

LEMMA InboxKeeps ==
  ASSUME KeptInv, InboxNext
  PROVE  KeptInv'
<1>1. CASE \E m \in Mail : Deliver(m)
  <2>1. TodoOK' /\ UNCHANGED <<seen, tx, status, history>>
    BY <1>1 DEF Deliver, KeptInv, TodoOK, shared, prospectVars
  <2> QED
    BY <2>1, SameHistory, NewStatus, KeptStep
<1>2. CASE \E a \in Actor : FetchBegin(a)
  <2>1. TodoOK' /\ UNCHANGED <<seen, status, history>>
    <3>1. PICK a \in Actor : FetchBegin(a)
      BY <1>2
    <3>2. Unseen(Limit) \subseteq Mail
      BY DEF Unseen, KeptInv, TodoOK
    <3> QED
      BY <3>1, <3>2, TodoKeeps DEF FetchBegin, prospectVars, KeptInv
  <2>2. \E a \in Actor : \E t : Hold(a, t) /\ Whole(t) /\ Hands(history', t)
    BY <1>2, IdleHands DEF FetchBegin
  <2> QED
    BY <2>1, <2>2, SameHistory, NewStatus, KeptStep
<1>3. CASE \E a \in Actor : MailDefect(a)
  BY <1>3, OnwardsKeeps DEF MailDefect
<1>4. CASE \E a \in Actor : MarkSeen(a)
  <2>1. PICK a \in Actor : MarkSeen(a)
    BY <1>4
  <2>2. Filed(history, tx[a].n) /\ seen' = seen \cup {tx[a].n}
    BY <2>1 DEF MarkSeen, MayMark, KeptInv, Hands
  <2> QED
    BY <2>1, <2>2, OnwardsKeeps DEF MarkSeen
<1>5. CASE \E a \in Actor : FetchEnd(a) \/ FetchBreaks(a)
  <2>1. PICK a \in Actor : FetchEnd(a) \/ FetchBreaks(a)
    BY <1>5
  <2>2. TodoOK' /\ UNCHANGED <<seen, status, history>> /\ Close(a)
    BY <2>1 DEF FetchEnd, FetchBreaks, KeptInv, TodoOK, NoMail, prospectVars
  <2>3. \E t : Hold(a, t) /\ Whole(t) /\ Hands(history', t)
    BY <2>2, IdleHands DEF Close
  <2> QED
    BY <2>2, <2>3, SameHistory, NewStatus, KeptStep
<1>6. CASE \E a \in Actor : MailCheck(a)
  BY <1>6, MailCheckKeeps
<1>7. ASSUME NEW a \in Actor, Reading(a), tx[a].n # 0
      PROVE  tx[a].n \in Mail /\ tx[a].on = From[tx[a].n] /\ tx[a].on \in Prospect
  BY <1>7, InboxAssumption DEF Reading, KeptInv, Hands
<1>8. CASE \E a \in Actor : ReplyCommit(a)
  <2>1. PICK a \in Actor : ReplyCommit(a)
    BY <1>8
  <2>2. /\ tx[a].n \in Mail /\ tx[a].on = From[tx[a].n] /\ tx[a].on \in Prospect
        /\ tx[a].n \in Nat
    BY <2>1, <1>7 DEF ReplyCommit, InHand, Mail
  <2>3. HistoryOK' /\ Grows /\ Has(history'[tx[a].on], tx[a].n)
    BY <2>1, <2>2, WriteGrows DEF ReplyCommit
  <2>4. StatusOK'
    BY <2>1, NewStatus DEF ReplyCommit
  <2>5. Filed(history', tx[a].n)
    BY <2>2, <2>3 DEF Filed
  <2> QED
    BY <2>1, <2>3, <2>4, <2>5, ProcessedKeeps DEF ReplyCommit
<1>9. CASE \E a \in Actor : SoftBounceCommit(a) \/ HardBounceCommit(a)
  <2>1. PICK a \in Actor : SoftBounceCommit(a) \/ HardBounceCommit(a)
    BY <1>9
  <2>2. /\ tx[a].n \in Mail /\ tx[a].on \in Prospect /\ KindOf[tx[a].n] # "reply"
        /\ Returned(tx[a].on)
    BY <2>1, <1>7 DEF SoftBounceCommit, HardBounceCommit, InHand
  <2>3. HistoryOK' /\ Grows /\ Filed(history', tx[a].n)
    BY <2>2, ReturnedGrows DEF Filed
  <2>4. StatusOK'
    BY <2>1, NewStatus DEF SoftBounceCommit, HardBounceCommit
  <2> QED
    BY <2>1, <2>3, <2>4, ProcessedKeeps DEF SoftBounceCommit, HardBounceCommit
<1>10. CASE \E a \in Actor : AlreadyKnown(a)
  <2>1. PICK a \in Actor : AlreadyKnown(a)
    BY <1>10
  <2>2. HistoryOK' /\ Grows /\ StatusOK'
    BY <2>1, SameHistory, NewStatus DEF AlreadyKnown
  <2>3. Filed(history, tx[a].n)
    BY <2>1 DEF AlreadyKnown, Reading, KeptInv, Hands
  <2> QED
    BY <2>1, <2>2, <2>3, FiledStays, ProcessedKeeps DEF AlreadyKnown
<1> QED
  BY <1>1, <1>2, <1>3, <1>4, <1>5, <1>6, <1>8, <1>9, <1>10 DEF InboxNext

LEMMA KeptNext ==
  ASSUME KeptInv, [Next]_vars
  PROVE  KeptInv'
<1>1. CASE UNCHANGED vars
  BY <1>1, SameHistory, NewStatus, KeptAway DEF vars, shared, prospectVars
<1>2. CASE FunnelNext /\ UNCHANGED <<boxVars, cadenceVars>>
  BY <1>2, FunnelKeeps
<1>3. CASE InboxNext /\ UNCHANGED cadenceVars
  BY <1>3, InboxKeeps
<1>4. CASE CadencesNext /\ UNCHANGED boxVars
  BY <1>4, CadencesKeepFiled
<1> QED
  BY <1>1, <1>2, <1>3, <1>4 DEF Next

\* An email is marked as seen only after the commit that files it, so a reading
\* that breaks, or two that overlap, lose none (app/services/email_receiver.py,
\* _ler_caixa).
THEOREM SeenAreKept == Spec => []SeenIsKept
<1>1. Init => KeptInv
  BY KeptInitHolds
<1>2. KeptInv /\ [Next]_vars => KeptInv'
  BY KeptNext
<1>3. KeptInv => SeenIsKept
  BY DEF KeptInv, Filed, Has, SeenIsKept, Recorded
<1> QED
  BY <1>1, <1>2, <1>3, PTL DEF Spec

=============================================================================
