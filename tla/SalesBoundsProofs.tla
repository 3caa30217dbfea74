------------------------- MODULE SalesBoundsProofs --------------------------
(***************************************************************************)
(* The type invariant of Sales, and what may happen at most so often: the  *)
(* copies of a reply, the approaches that come too late, the touches of a  *)
(* day.  They hold for any scenario, with any workers and requests.        *)
(***************************************************************************)
EXTENDS SalesProofs

-----------------------------------------------------------------------------
(***************************************************************************)
(* Types.  Those of the conversations, of the records and of what a        *)
(* session has in hand are in OneInv and KeptInv.                          *)
(***************************************************************************)

StateOK ==
  /\ status \in [Prospect -> Status]
  /\ optedOut \subseteq Contact
  /\ met \subseteq Prospect /\ judged \subseteq Prospect
  /\ unattended \subseteq Prospect

RowOK ==
  /\ row \in [Enrollment -> RowRec]
  /\ \A e \in Enrollment : row[e].status = "active" => row[e].next # "never"

CountOK ==
  /\ scenario \in Scenario
  /\ requests \in 0 .. scenario.requests /\ faults \in 0 .. MaxFaults

WorkOK == jobs \subseteq JobRec /\ tx \in [Actor -> TxRec]

\* What is in hand has arrived.
BoxOK ==
  /\ seen \subseteq arrived
  /\ reader \in [Actor -> [todo : SUBSET Mail, touched : SUBSET Prospect]]
  /\ \A a \in Actor : /\ reader[a].todo \subseteq arrived
                      /\ tx[a].op = "fetch" /\ tx[a].n # 0 => tx[a].n \in arrived
                      /\ tx[a].op = "mark" => tx[a].n \in arrived

ListRec == [fila : Seq(Prospect), new : SUBSET [e : Enrollment, on : Prospect], waits : BOOLEAN]

RoundRec == [due : SUBSET DueRec, plan : SUBSET PlanRec]

\* Who waits has a prospect to wait for.
CadenceOK ==
  /\ sequence \in [steps : 0 .. MaxSteps, active : BOOLEAN] /\ paused \in BOOLEAN
  /\ list \in [Actor -> ListRec]
  /\ \A a \in Actor : list[a].waits => list[a].fila # <<>>
  /\ round \in [Actor -> RoundRec]
  /\ touches \in [Enrollment -> Nat]

RestOK == StateOK /\ RowOK /\ CountOK /\ WorkOK /\ BoxOK /\ CadenceOK

SalesInv == OneInv /\ PlanShape /\ KeptInv /\ RestOK

LEMMA TypesFollow ==
  ASSUME SalesInv
  PROVE  SalesTypeOK
<1>1. InboxTypeOK
  BY DEF SalesInv, KeptInv, TodoOK, RestOK, BoxOK, InboxTypeOK
<1>2. CadencesTypeOK
  BY DEF SalesInv, RestOK, RowOK, CadenceOK, ListRec, RoundRec, CadencesTypeOK
<1> QED
  BY <1>1, <1>2 DEF SalesTypeOK, SalesInv, KeptInv, HistoryOK, RestOK, StateOK, RowOK, CountOK,
                    WorkOK

LEMMA IdleType ==
  /\ Idle \in TxRec /\ Idle.op = "idle"
  /\ \A op \in Operation : [Idle EXCEPT !.op = op] \in TxRec
  /\ \A op \in Operation, rows \in SUBSET Enrollment :
       [Idle EXCEPT !.op = op, !.rows = rows] \in TxRec
BY DEF Idle, TxRec

LEMMA ScenarioType ==
  ASSUME CountOK
  PROVE  /\ scenario.on \subseteq Prospect /\ scenario.requests \in Nat
         /\ ContactOf \in [Prospect -> Contact] /\ MaxFaults \in Nat
BY ProspectsAssumption DEF CountOK

LEMMA StartsType ==
  ASSUME CountOK, NEW a, NEW op, Starts(a, op), UNCHANGED <<scenario, faults>>
  PROVE  CountOK' /\ tx[a].op = "idle"
<1>1. scenario' = scenario /\ faults' = faults
  OBVIOUS
<1>2. scenario.requests \in Nat /\ requests \in 0 .. scenario.requests
  BY ScenarioType DEF CountOK
<1>3. requests' = requests \/ (requests < scenario.requests /\ requests' = requests + 1)
  BY DEF Starts
<1>4. requests' \in 0 .. scenario.requests
  BY <1>2, <1>3
<1> QED
  BY <1>1, <1>4 DEF CountOK, Starts, Idling

LEMMA FaultType ==
  ASSUME CountOK, Fault, UNCHANGED <<scenario, requests>>
  PROVE  CountOK'
<1>1. scenario' = scenario /\ requests' = requests
  OBVIOUS
<1>2. faults' \in 0 .. MaxFaults
  BY ScenarioType DEF CountOK, Fault
<1> QED
  BY <1>1, <1>2 DEF CountOK

LEMMA HoldType ==
  ASSUME WorkOK, NEW a \in Actor, NEW t \in TxRec, Hold(a, t)
  PROVE  tx' \in [Actor -> TxRec] /\ tx'[a] = t /\ \A b \in Actor \ {a} : tx'[b] = tx[b]
BY DEF WorkOK, Hold

LEMMA CloseType ==
  ASSUME WorkOK, NEW a \in Actor, Close(a)
  PROVE  tx' \in [Actor -> TxRec] /\ tx'[a].op = "idle" /\ \A b \in Actor \ {a} : tx'[b] = tx[b]
BY HoldType, IdleType DEF Close

\* A session that reads no email moves.
LEMMA BoxAway ==
  ASSUME BoxOK, UNCHANGED boxVars,
         \/ UNCHANGED tx
         \/ \E a \in Actor : /\ tx'[a].op \notin {"fetch", "mark"}
                             /\ \A b \in Actor \ {a} : tx'[b] = tx[b]
  PROVE  BoxOK'
BY DEF BoxOK, boxVars

LEMMA MoveType ==
  ASSUME StateOK,
         \/ UNCHANGED status
         \/ \E p, saw : \E to \in Status : Move(p, saw, to)
         \/ \E p : \E to \in Status : status' = [status EXCEPT ![p] = to]
         \/ \E c : \E to \in Status : MoveFamily(c, to)
  PROVE  status' \in [Prospect -> Status]
BY DEF StateOK, Move, MoveFamily

-----------------------------------------------------------------------------
(***************************************************************************)
(* The funnel.                                                             *)
(***************************************************************************)

\* What a step of the funnel must keep; it leaves the rest alone.
FunnelOK == StateOK /\ CountOK /\ WorkOK

LEMMA FunnelFrame ==
  ASSUME RestOK, FunnelOK', UNCHANGED <<row, boxVars, cadenceVars>>,
         \/ UNCHANGED tx
         \/ \E a \in Actor : /\ tx'[a].op \notin {"fetch", "mark"}
                             /\ \A b \in Actor \ {a} : tx'[b] = tx[b]
  PROVE  RestOK'
<1>1. BoxOK'
  BY BoxAway DEF RestOK
<1>2. RowOK' /\ CadenceOK'
  BY DEF RestOK, RowOK, CadenceOK, cadenceVars
<1> QED
  BY <1>1, <1>2 DEF RestOK, FunnelOK

LEMMA JobType ==
  ASSUME NEW agent \in {"outreach", "conversation"}, NEW p \in Prospect, NEW a \in Actor,
         NEW k \in Nat \X Nat
  PROVE  Job(agent, p, k, a) \in JobRec
BY DEF Job, JobRec

LEMMA AtOnceType ==
  ASSUME FunnelOK, NEW a \in Actor, NEW op, NEW p, AtOnce(a, op, p),
         status' \in [Prospect -> Status], optedOut' \subseteq Contact, met' \subseteq Prospect,
         judged' \subseteq Prospect
  PROVE  FunnelOK' /\ UNCHANGED <<row, tx>>
<1>1. CountOK'
  BY StartsType DEF FunnelOK, AtOnce, Here
<1> QED
  BY <1>1 DEF FunnelOK, StateOK, WorkOK, AtOnce, Here

LEMMA ReadsType ==
  ASSUME FunnelOK, NEW a \in Actor, NEW op \in Operation \ {"fetch"}, NEW p \in Prospect,
         NEW n \in Nat, NEW job \in SUBSET JobRec, Reads(a, op, p, n, job)
  PROVE  /\ FunnelOK' /\ UNCHANGED row
         /\ tx'[a].op \notin {"fetch", "mark"} /\ \A b \in Actor \ {a} : tx'[b] = tx[b]
<1> DEFINE barred == ContactOf[p] \in optedOut
           t == [Idle EXCEPT !.op = op, !.on = p, !.saw = status[p], !.n = n, !.job = job,
                             !.barred = barred]
<1>2. Hold(a, t)
  BY DEF Reads
<1>1. t \in TxRec /\ t.op = op
  <2>1. barred \in BOOLEAN /\ status[p] \in Status
    BY DEF FunnelOK, StateOK
  <2> HIDE DEF barred
  <2> QED
    BY <2>1 DEF Idle, TxRec
<1> HIDE DEF t
<1>3. tx' \in [Actor -> TxRec] /\ tx'[a] = t /\ \A b \in Actor \ {a} : tx'[b] = tx[b]
  BY <1>1, <1>2, HoldType DEF FunnelOK
<1>4. CountOK'
  BY StartsType DEF FunnelOK, Reads, Here
<1>5. UNCHANGED <<prospectVars, unattended, jobs, row>>
  BY DEF Reads, Here
<1>6. op \notin {"fetch", "mark"}
  BY DEF Operation
<1> QED
  BY <1>1, <1>3, <1>4, <1>5, <1>6 DEF FunnelOK, StateOK, WorkOK, prospectVars

LEMMA WritesType ==
  ASSUME FunnelOK, NEW a \in Actor, NEW op, NEW p, Writes(a, op, p),
         status' \in [Prospect -> Status], optedOut' \subseteq Contact, met' \subseteq Prospect,
         judged' \subseteq Prospect
  PROVE  /\ FunnelOK' /\ UNCHANGED row
         /\ tx'[a].op \notin {"fetch", "mark"} /\ \A b \in Actor \ {a} : tx'[b] = tx[b]
<1>1. /\ tx' \in [Actor -> TxRec] /\ tx'[a].op = "idle"
      /\ \A b \in Actor \ {a} : tx'[b] = tx[b]
  BY CloseType DEF FunnelOK, Writes
<1>2. UNCHANGED <<scenario, requests, faults, unattended, row>> /\ jobs' \subseteq jobs
  BY DEF Writes, Here
<1>3. CountOK'
  BY <1>2 DEF FunnelOK, CountOK
<1> QED
  BY <1>1, <1>2, <1>3 DEF FunnelOK, StateOK, WorkOK

LEMMA PeopleType ==
  ASSUME RestOK, NEW a \in Actor, NEW p \in Prospect, People(a, p),
         UNCHANGED <<boxVars, cadenceVars>>
  PROVE  RestOK'
<1>1. FunnelOK /\ ContactOf[p] \in Contact
  BY ScenarioType DEF RestOK, FunnelOK
<1>3. CASE Score(a, p) \/ BookMeeting(a, p) \/ Unsubscribe(a, p)
  <2>1. status' \in [Prospect -> Status]
    <3>1. {"scored", "meeting_booked", "disqualified"} \subseteq Status
      BY DEF Status
    <3> QED
      BY <1>1, <1>3, <3>1, MoveType DEF Score, BookMeeting, Unsubscribe, FunnelOK
  <2> QED
    BY <1>1, <1>3, <2>1, AtOnceType, FunnelFrame
       DEF Score, BookMeeting, Unsubscribe, FunnelOK, StateOK
<1>4. CASE OptOutByHand(a, p) \/ WriteReply(a, p) \/ \E i \in DOMAIN history[p] : Approve(a, p, i)
  BY <1>1, <1>4, AtOnceType, FunnelFrame DEF OptOutByHand, WriteReply, Approve, FunnelOK, StateOK
<1>5. CASE \E agent \in {"outreach", "conversation"} : AskForRun(a, agent, p)
  <2>1. PICK agent \in {"outreach", "conversation"} : AskForRun(a, agent, p)
    BY <1>5
  <2>2. jobs' \subseteq JobRec
    <3>1. Plain \in Nat \X Nat
      BY DEF Plain
    <3>2. Job(agent, p, Plain, a) \in JobRec
      BY <3>1, JobType
    <3> QED
      BY <1>1, <2>1, <3>2 DEF AskForRun, FunnelOK, WorkOK
  <2>3. UNCHANGED <<scenario, prospectVars, tx, faults, unattended, row>>
    BY <2>1 DEF AskForRun, Here
  <2>4. CountOK'
    BY <1>1, <2>1, <2>3, StartsType DEF AskForRun, FunnelOK
  <2>5. FunnelOK'
    BY <1>1, <2>2, <2>3, <2>4 DEF FunnelOK, StateOK, WorkOK, prospectVars
  <2> QED
    BY <2>3, <2>5, FunnelFrame
<1>6. CASE InboundBegin(a, p)
  <2>1. "inbound" \in Operation \ {"fetch"} /\ 0 \in Nat /\ {} \in SUBSET JobRec
    BY DEF Operation
  <2> QED
    BY <1>1, <1>6, <2>1, ReadsType, FunnelFrame DEF InboundBegin
<1>7. CASE InboundCommit(a, p)
  <2>1. status' \in [Prospect -> Status]
    <3>1. "engaged" \in Status
      BY DEF Status
    <3> QED
      BY <1>1, <1>7, <3>1, MoveType DEF InboundCommit, FunnelOK
  <2> QED
    BY <1>1, <1>7, <2>1, WritesType, FunnelFrame DEF InboundCommit, FunnelOK, StateOK
<1> QED
  BY <1>3, <1>4, <1>5, <1>6, <1>7 DEF People

LEMMA SendingType ==
  ASSUME RestOK, KeptInv, NEW a \in Actor, NEW p \in Prospect, Sending(a, p),
         UNCHANGED <<boxVars, cadenceVars>>
  PROVE  RestOK'
<1>1. FunnelOK
  BY DEF RestOK, FunnelOK
<1>2. CASE \E i \in DOMAIN history[p] : SendCheck(a, p, i)
  <2>1. PICK i \in DOMAIN history[p] : SendCheck(a, p, i)
    BY <1>2
  <2>2. "send" \in Operation \ {"fetch"} /\ {} \in SUBSET JobRec
    BY DEF Operation
  <2>3. i \in Nat
    BY DEF KeptInv, HistoryOK
  <2> QED
    BY <1>1, <2>1, <2>2, <2>3, ReadsType, FunnelFrame DEF SendCheck
<1>3. CASE SendCommit(a, p)
  <2>1. status' \in [Prospect -> Status]
    <3>1. "contacted" \in Status
      BY DEF Status
    <3> QED
      BY <1>1, <1>3, <3>1, MoveType DEF SendCommit, FunnelOK
  <2> QED
    BY <1>1, <1>3, <2>1, WritesType, FunnelFrame DEF SendCommit, FunnelOK, StateOK
<1> QED
  BY <1>2, <1>3 DEF Sending

LEMMA AgentsType ==
  ASSUME RestOK, KeptInv, NEW a \in Actor, NEW p \in Prospect, Agents(a, p),
         UNCHANGED <<boxVars, cadenceVars>>
  PROVE  RestOK'
<1>1. FunnelOK /\ ContactOf[p] \in Contact
  BY ScenarioType DEF RestOK, FunnelOK
<1>2. /\ {"outreach", "converse", "qualify"} \subseteq Operation \ {"fetch"}
      /\ {} \in SUBSET JobRec /\ 0 \in Nat
      /\ {"engaged", "qualified", "disqualified"} \subseteq Status
  BY DEF Operation, Status
<1>3. Len(history[p]) \in Nat
  BY DEF KeptInv, HistoryOK
<1>4. \A agent : \A job \in Calls(a, agent, p) : job \in SUBSET JobRec
  BY <1>1 DEF Calls, FunnelOK, WorkOK
<1>5. CASE OutreachLoad(a, p) \/ ConverseLoad(a, p) \/ QualifyLoad(a, p)
  BY <1>1, <1>2, <1>3, <1>4, <1>5, ReadsType, FunnelFrame
     DEF OutreachLoad, ConverseLoad, QualifyLoad
<1>6. CASE OutreachPersist(a, p) \/ ConversePersist(a, p) \/ ConverseOptOut(a, p)
  <2>1. status' \in [Prospect -> Status]
    BY <1>1, <1>2, <1>6, MoveType
       DEF OutreachPersist, ConversePersist, ConverseOptOut, FunnelOK, StateOK
  <2> QED
    BY <1>1, <1>6, <2>1, WritesType, FunnelFrame
       DEF OutreachPersist, ConversePersist, ConverseOptOut, FunnelOK, StateOK
<1>7. CASE \E outcome \in Outcome : QualifyPersist(a, p, outcome)
  <2>1. status' \in [Prospect -> Status]
    BY <1>1, <1>2, <1>7, MoveType DEF QualifyPersist, FunnelOK, StateOK
  <2> QED
    BY <1>1, <1>7, <2>1, WritesType, FunnelFrame DEF QualifyPersist, FunnelOK, StateOK
<1> QED
  BY <1>5, <1>6, <1>7 DEF Agents

LEMMA FunnelTypes ==
  ASSUME RestOK, KeptInv, FunnelNext, UNCHANGED <<boxVars, cadenceVars>>
  PROVE  RestOK'
<1>1. FunnelOK
  BY DEF RestOK, FunnelOK
<1>2. CASE \E a \in Actor : AgentGivesUp(a)
  <2>1. PICK a \in Actor : AgentGivesUp(a)
    BY <1>2
  <2>2. UNCHANGED <<scenario, prospectVars, jobs, requests, faults, unattended, row>>
    BY <2>1 DEF AgentGivesUp, Here
  <2>3. /\ tx' \in [Actor -> TxRec] /\ tx'[a].op = "idle"
        /\ \A b \in Actor \ {a} : tx'[b] = tx[b]
    BY <1>1, <2>1, CloseType DEF AgentGivesUp, FunnelOK
  <2>4. FunnelOK'
    BY <1>1, <2>2, <2>3 DEF FunnelOK, StateOK, CountOK, WorkOK, prospectVars
  <2> QED
    BY <2>2, <2>3, <2>4, FunnelFrame
<1>3. CASE \E j \in jobs : JobDies(j)
  <2>1. PICK j \in jobs : JobDies(j)
    BY <1>3
  <2>2. UNCHANGED <<scenario, prospectVars, tx, requests, row>> /\ jobs' \subseteq jobs
    BY <2>1 DEF JobDies
  <2>3. j.on \in Prospect
    BY <1>1 DEF FunnelOK, WorkOK, JobRec
  <2>4. unattended' \subseteq Prospect
    BY <1>1, <2>1, <2>3 DEF JobDies, FunnelOK, StateOK
  <2>5. CountOK'
    BY <1>1, <2>1, <2>2, FaultType DEF JobDies, FunnelOK, CountOK
  <2>6. FunnelOK'
    BY <1>1, <2>2, <2>4, <2>5 DEF FunnelOK, StateOK, WorkOK, prospectVars
  <2> QED
    BY <2>2, <2>6, FunnelFrame
<1> QED
  BY <1>2, <1>3, PeopleType, SendingType, AgentsType DEF FunnelNext

-----------------------------------------------------------------------------
(***************************************************************************)
(* The inbox.                                                              *)
(***************************************************************************)

ReaderRec == [todo : SUBSET Mail, touched : SUBSET Prospect]

\* A reading moves: what it has in hand, and what it has left.
LEMMA BoxStep ==
  ASSUME BoxOK, WorkOK, NEW a \in Actor, NEW t \in TxRec, Hold(a, t), UNCHANGED arrived,
         seen' \subseteq arrived, NEW r \in ReaderRec, reader' = [reader EXCEPT ![a] = r],
         r.todo \subseteq arrived,
         (t.op = "fetch" /\ t.n # 0) \/ t.op = "mark" => t.n \in arrived
  PROVE  BoxOK' /\ tx' \in [Actor -> TxRec]
<1>1. tx' \in [Actor -> TxRec] /\ \A b \in Actor : tx'[b] = IF b = a THEN t ELSE tx[b]
  BY DEF WorkOK, Hold
<1>2. reader' \in [Actor -> ReaderRec]
      /\ \A b \in Actor : reader'[b] = IF b = a THEN r ELSE reader[b]
  BY DEF BoxOK, ReaderRec
<1>3. \A b \in Actor : /\ reader'[b].todo \subseteq arrived'
                       /\ tx'[b].op = "fetch" /\ tx'[b].n # 0 => tx'[b].n \in arrived'
                       /\ tx'[b].op = "mark" => tx'[b].n \in arrived'
  BY <1>1, <1>2 DEF BoxOK
<1> QED
  BY <1>1, <1>2, <1>3 DEF BoxOK, ReaderRec

LEMMA ReaderEdits ==
  ASSUME BoxOK, NEW a \in Actor
  PROVE  /\ reader[a].todo \subseteq Mail /\ reader[a].touched \subseteq Prospect
         /\ reader[a].todo \subseteq arrived
         /\ \A s \in SUBSET Mail :
              /\ [todo |-> s, touched |-> reader[a].touched] \in ReaderRec
              /\ [reader EXCEPT ![a].todo = s]
                 = [reader EXCEPT ![a] = [todo |-> s, touched |-> reader[a].touched]]
         /\ \A s \in SUBSET Prospect :
              /\ [todo |-> reader[a].todo, touched |-> s] \in ReaderRec
              /\ [reader EXCEPT ![a].touched = s]
                 = [reader EXCEPT ![a] = [todo |-> reader[a].todo, touched |-> s]]
<1> DEFINE d == reader[a].todo
           u == reader[a].touched
<1>1. reader[a] = [todo |-> d, touched |-> u] /\ d \subseteq Mail /\ u \subseteq Prospect
      /\ d \subseteq arrived
  BY DEF BoxOK
<1> HIDE DEF d, u
<1>2. \A s : [reader[a] EXCEPT !.todo = s] = [todo |-> s, touched |-> u]
  BY <1>1
<1>3. \A s : [reader[a] EXCEPT !.touched = s] = [todo |-> d, touched |-> s]
  BY <1>1
<1>4. \A s : [reader EXCEPT ![a].todo = s] = [reader EXCEPT ![a] = [todo |-> s, touched |-> u]]
  BY <1>2, Zenon
<1>5. \A s : [reader EXCEPT ![a].touched = s]
             = [reader EXCEPT ![a] = [todo |-> d, touched |-> s]]
  BY <1>3, Zenon
<1> QED
  BY <1>1, <1>4, <1>5 DEF d, u, ReaderRec

\* What an inbox step leaves alone, and the rest of the invariant with it.
LEMMA InboxFrame ==
  ASSUME RestOK, BoxOK', CountOK', jobs' \subseteq JobRec, tx' \in [Actor -> TxRec],
         UNCHANGED <<optedOut, met, judged, cadenceVars>>,
         status' \in [Prospect -> Status], unattended' \subseteq Prospect, RowOK'
  PROVE  RestOK'
BY DEF RestOK, StateOK, CadenceOK, cadenceVars, WorkOK

LEMMA ProcessedType ==
  ASSUME RestOK, KeptInv, NEW a \in Actor, NEW touched \in SUBSET Prospect, Reading(a),
         tx[a].n # 0, Processed(a, touched), status' \in [Prospect -> Status], RowOK',
         UNCHANGED cadenceVars
  PROVE  RestOK'
<1> DEFINE t == [tx[a] EXCEPT !.op = "mark"]
           r == [todo |-> reader[a].todo, touched |-> reader[a].touched \cup touched]
<1>1. BoxOK /\ WorkOK /\ Hold(a, t) /\ UNCHANGED <<seen, arrived>> /\ seen \subseteq arrived
  BY DEF Processed, RestOK, BoxOK
<1>2. t \in TxRec /\ t.op = "mark" /\ t.n = tx[a].n
  BY DEF RestOK, WorkOK, TxRec
<1>3. t.n \in arrived
  BY <1>2 DEF RestOK, BoxOK, Reading
<1>4. reader[a].touched \cup touched \in SUBSET Prospect
  BY <1>1, ReaderEdits
<1>5. r \in ReaderRec /\ reader' = [reader EXCEPT ![a] = r] /\ r.todo \subseteq arrived
  BY <1>1, <1>4, ReaderEdits DEF Processed
<1> HIDE DEF t, r
<1>6. BoxOK' /\ tx' \in [Actor -> TxRec]
  BY <1>1, <1>2, <1>3, <1>5, BoxStep
<1>7. /\ UNCHANGED <<scenario, unattended, optedOut, met, judged, jobs, requests, faults>>
      /\ jobs' \subseteq JobRec
      /\ unattended' \subseteq Prospect
  BY DEF Processed, Quiet, RestOK, WorkOK, StateOK
<1>8. CountOK'
  BY <1>7 DEF RestOK, CountOK
<1> QED
  BY <1>6, <1>7, <1>8, InboxFrame

LEMMA OnwardsType ==
  ASSUME RestOK, NEW a \in Actor, Onwards(a), CountOK', seen' \subseteq arrived,
         UNCHANGED <<prospectVars, row, jobs, arrived, unattended, cadenceVars>>
  PROVE  RestOK'
<1> DEFINE t == [Idle EXCEPT !.op = "fetch"]
           r == [todo |-> reader[a].todo \ {tx[a].n}, touched |-> reader[a].touched]
<1>1. BoxOK /\ WorkOK /\ Hold(a, t)
  BY DEF Onwards, RestOK
<1>2. t \in TxRec /\ t.op = "fetch" /\ t.n = 0
  <2>1. "fetch" \in Operation
    BY DEF Operation
  <2> QED
    BY <2>1, IdleType DEF Idle
<1>3. reader[a].todo \ {tx[a].n} \in SUBSET Mail
  BY <1>1, ReaderEdits
<1>4. r \in ReaderRec /\ reader' = [reader EXCEPT ![a] = r] /\ r.todo \subseteq arrived
  BY <1>1, <1>3, ReaderEdits DEF Onwards
<1> HIDE DEF t, r
<1>5. BoxOK' /\ tx' \in [Actor -> TxRec]
  BY <1>1, <1>2, <1>4, BoxStep
<1>6. /\ UNCHANGED <<optedOut, met, judged, cadenceVars>>
      /\ status' \in [Prospect -> Status] /\ unattended' \subseteq Prospect /\ jobs' \subseteq JobRec
      /\ RowOK'
  BY DEF prospectVars, RestOK, StateOK, WorkOK, RowOK
<1> QED
  BY <1>5, <1>6, InboxFrame

\* A reading ends, with the jobs it dispatches.
LEMMA ReadingEnds ==
  ASSUME RestOK, NEW a \in Actor, Close(a), reader' = [reader EXCEPT ![a] = NoMail], CountOK',
         UNCHANGED <<arrived, seen, prospectVars, row, cadenceVars>>, jobs' \subseteq JobRec,
         unattended' = unattended \/ unattended' = unattended \cup reader[a].touched
  PROVE  RestOK'
<1>1. BoxOK /\ WorkOK /\ Hold(a, Idle) /\ seen' \subseteq arrived
  BY DEF Close, RestOK, BoxOK
<1>2. NoMail \in ReaderRec /\ NoMail.todo \subseteq arrived
  BY DEF NoMail, ReaderRec
<1>3. BoxOK' /\ tx' \in [Actor -> TxRec]
  BY <1>1, <1>2, IdleType, BoxStep
<1>4. unattended' \subseteq Prospect
  BY <1>1, ReaderEdits DEF RestOK, StateOK
<1>5. /\ UNCHANGED <<optedOut, met, judged, cadenceVars>>
      /\ status' \in [Prospect -> Status] /\ RowOK'
  BY DEF prospectVars, RestOK, StateOK, RowOK
<1> QED
  BY <1>3, <1>4, <1>5, InboxFrame

LEMMA FetchBeginType ==
  ASSUME RestOK, KeptInv, NEW a \in Actor, FetchBegin(a), UNCHANGED cadenceVars
  PROVE  RestOK'
<1> DEFINE t == [Idle EXCEPT !.op = "fetch"]
           r == [todo |-> Unseen(Limit), touched |-> reader[a].touched]
<1>1. BoxOK /\ WorkOK /\ Hold(a, t) /\ seen' \subseteq arrived /\ UNCHANGED arrived
  BY DEF FetchBegin, RestOK, BoxOK
<1>2. t \in TxRec /\ t.op = "fetch" /\ t.n = 0
  <2>1. "fetch" \in Operation
    BY DEF Operation
  <2> QED
    BY <2>1, IdleType DEF Idle
<1>3. Unseen(Limit) \subseteq arrived /\ arrived \subseteq Mail
  BY DEF Unseen, KeptInv, TodoOK
<1>4. r \in ReaderRec /\ reader' = [reader EXCEPT ![a] = r] /\ r.todo \subseteq arrived
  BY <1>1, <1>3, ReaderEdits DEF FetchBegin
<1> HIDE DEF t, r
<1>5. BoxOK' /\ tx' \in [Actor -> TxRec]
  BY <1>1, <1>2, <1>4, BoxStep
<1>6. /\ UNCHANGED <<optedOut, met, judged, cadenceVars, scenario, faults>>
      /\ status' \in [Prospect -> Status] /\ unattended' \subseteq Prospect /\ jobs' \subseteq JobRec
      /\ RowOK'
  BY DEF FetchBegin, Quiet, prospectVars, RestOK, StateOK, WorkOK, RowOK
<1>7. CountOK'
  BY <1>6, StartsType DEF FetchBegin, RestOK
<1> QED
  BY <1>5, <1>6, <1>7, InboxFrame

LEMMA MailCheckType ==
  ASSUME RestOK, NEW a \in Actor, MailCheck(a), UNCHANGED cadenceVars
  PROVE  RestOK'
<1>1. PICK m \in reader[a].todo :
        Hold(a, [tx[a] EXCEPT !.n = m, !.on = From[m],
                              !.barred = ContactOf[From[m]] \in optedOut,
                              !.saw = IF Known(m) THEN "known" ELSE status[From[m]]])
  BY DEF MailCheck
<1> DEFINE barred == ContactOf[From[m]] \in optedOut
           saw == IF Known(m) THEN "known" ELSE status[From[m]]
           t == [tx[a] EXCEPT !.n = m, !.on = From[m], !.barred = barred, !.saw = saw]
<1>2. m \in arrived /\ m \in Mail /\ m \in Nat /\ From[m] \in Prospect
  BY InboxAssumption DEF RestOK, BoxOK, Mail
<1>3. saw \in Status \cup {"known"} /\ barred \in BOOLEAN
  BY <1>2 DEF RestOK, StateOK
<1>4. Hold(a, t)
  BY <1>1
<1>5. t \in TxRec /\ t.n = m
  <2> HIDE DEF barred, saw
  <2> QED
    BY <1>2, <1>3 DEF RestOK, WorkOK, TxRec
<1> HIDE DEF t, barred, saw
<1>6. reader[a] \in ReaderRec /\ reader' = [reader EXCEPT ![a] = reader[a]]
      /\ reader[a].todo \subseteq arrived /\ seen' \subseteq arrived /\ UNCHANGED arrived
  BY DEF MailCheck, boxVars, RestOK, BoxOK, ReaderRec
<1>7. BoxOK' /\ tx' \in [Actor -> TxRec]
  BY <1>2, <1>4, <1>5, <1>6, BoxStep DEF RestOK
<1>8. /\ UNCHANGED <<optedOut, met, judged, cadenceVars, scenario, faults, requests>>
      /\ status' \in [Prospect -> Status] /\ unattended' \subseteq Prospect /\ jobs' \subseteq JobRec
      /\ RowOK'
  BY DEF MailCheck, Quiet, prospectVars, RestOK, StateOK, WorkOK, RowOK
<1>9. CountOK'
  BY <1>8 DEF RestOK, CountOK
<1> QED
  BY <1>7, <1>8, <1>9, InboxFrame

LEMMA RowsStop ==
  ASSUME RowOK, NEW stopped,
         row' = [e \in Enrollment |->
                   IF e \in stopped THEN [row[e] EXCEPT !.status = "stopped", !.next = "never"]
                   ELSE row[e]]
  PROVE  RowOK'
<1>1. \A e \in Enrollment : [row[e] EXCEPT !.status = "stopped", !.next = "never"] \in RowRec
                            /\ [row[e] EXCEPT !.status = "stopped", !.next = "never"].status
                               = "stopped"
  BY DEF RowOK, RowRec
<1> QED
  BY <1>1 DEF RowOK

LEMMA InboxTypes ==
  ASSUME RestOK, KeptInv, InboxNext, UNCHANGED cadenceVars
  PROVE  RestOK'
<1>1. ASSUME NEW a \in Actor, Reading(a), tx[a].n # 0
      PROVE  tx[a].on \in Prospect
  BY <1>1, InboxAssumption DEF Reading, KeptInv, Hands
<1>2. CASE \E m \in Mail : Deliver(m)
  <2>1. /\ UNCHANGED <<shared, seen, reader>> /\ arrived \subseteq arrived'
    BY <1>2 DEF Deliver
  <2>2. BoxOK'
    BY <2>1 DEF RestOK, BoxOK, shared
  <2> QED
    BY <2>1, <2>2 DEF RestOK, StateOK, RowOK, CountOK, WorkOK, CadenceOK, shared, prospectVars,
                      cadenceVars
<1>3. CASE \E a \in Actor : ReplyCommit(a)
  <2>1. PICK a \in Actor : ReplyCommit(a)
    BY <1>3
  <2>2. Reading(a) /\ tx[a].n # 0 /\ {tx[a].on} \in SUBSET Prospect
    BY <2>1, <1>1 DEF ReplyCommit, InHand
  <2>3. status' \in [Prospect -> Status] /\ RowOK'
    <3>1. "engaged" \in Status
      BY DEF Status
    <3> QED
      BY <2>1, <3>1, MoveType DEF ReplyCommit, RestOK, RowOK
  <2> QED
    BY <2>1, <2>2, <2>3, ProcessedType DEF ReplyCommit
<1>4. CASE \E a \in Actor : SoftBounceCommit(a) \/ AlreadyKnown(a)
  <2>1. PICK a \in Actor : SoftBounceCommit(a) \/ AlreadyKnown(a)
    BY <1>4
  <2>2. Reading(a) /\ tx[a].n # 0 /\ {} \in SUBSET Prospect /\ Processed(a, {})
    <3>1. tx[a].saw = "known" => ~(tx[a].op = "fetch" /\ tx[a].n = 0)
      BY DEF KeptInv, Hands
    <3> QED
      BY <2>1, <3>1 DEF SoftBounceCommit, AlreadyKnown, InHand, Reading
  <2>3. status' \in [Prospect -> Status] /\ RowOK'
    BY <2>1 DEF SoftBounceCommit, AlreadyKnown, RestOK, StateOK, RowOK
  <2> QED
    BY <2>2, <2>3, ProcessedType
<1>5. CASE \E a \in Actor : HardBounceCommit(a)
  <2>1. PICK a \in Actor : HardBounceCommit(a)
    BY <1>5
  <2>2. Reading(a) /\ tx[a].n # 0 /\ {} \in SUBSET Prospect /\ Processed(a, {})
    BY <2>1 DEF HardBounceCommit, InHand
  <2>3. status' \in [Prospect -> Status]
    <3>1. "bounced" \in Status
      BY DEF Status
    <3> QED
      BY <2>1, <3>1, MoveType DEF HardBounceCommit, RestOK
  <2>4. RowOK'
    BY <2>1, RowsStop DEF HardBounceCommit, RestOK
  <2> QED
    BY <2>2, <2>3, <2>4, ProcessedType
<1>6. CASE \E a \in Actor : MailDefect(a)
  <2>1. PICK a \in Actor : MailDefect(a)
    BY <1>6
  <2>2. CountOK' /\ seen' \subseteq arrived
    BY <2>1, FaultType DEF MailDefect, Quiet, RestOK, BoxOK
  <2> QED
    BY <2>1, <2>2, OnwardsType DEF MailDefect, Quiet
<1>7. CASE \E a \in Actor : MarkSeen(a)
  <2>1. PICK a \in Actor : MarkSeen(a)
    BY <1>7
  <2>2. CountOK' /\ seen' \subseteq arrived
    BY <2>1 DEF MarkSeen, MayMark, Quiet, RestOK, BoxOK, CountOK
  <2> QED
    BY <2>1, <2>2, OnwardsType DEF MarkSeen, Quiet
<1>8. CASE \E a \in Actor : FetchEnd(a)
  <2>1. PICK a \in Actor : FetchEnd(a)
    BY <1>8
  <2>2. CountOK'
    BY <2>1 DEF FetchEnd, RestOK, CountOK
  <2>3. jobs' \subseteq JobRec
    <3>1. Dispatch(a) \subseteq JobRec
      <4>1. Plain \in Nat \X Nat /\ reader[a].touched \subseteq Prospect
        BY ReaderEdits DEF Plain, RestOK
      <4> QED
        BY <4>1, JobType DEF Dispatch
    <3> QED
      BY <2>1, <3>1 DEF FetchEnd, RestOK, WorkOK
  <2>4. unattended' = unattended \/ unattended' = unattended \cup reader[a].touched
    BY <2>1 DEF FetchEnd
  <2> QED
    BY <2>1, <2>2, <2>3, <2>4, ReadingEnds DEF FetchEnd
<1>9. CASE \E a \in Actor : FetchBreaks(a)
  <2>1. PICK a \in Actor : FetchBreaks(a)
    BY <1>9
  <2>2. CountOK' /\ jobs' \subseteq JobRec
    BY <2>1, FaultType DEF FetchBreaks, RestOK, WorkOK
  <2> QED
    BY <2>1, <2>2, ReadingEnds DEF FetchBreaks
<1> QED
  BY <1>2, <1>3, <1>4, <1>5, <1>6, <1>7, <1>8, <1>9, FetchBeginType, MailCheckType DEF InboxNext

-----------------------------------------------------------------------------
(***************************************************************************)
(* The cadences.                                                           *)
(***************************************************************************)

LEMMA CadenceFrame ==
  ASSUME RestOK, Steady, UNCHANGED boxVars, CountOK', RowOK', WorkOK', CadenceOK',
         \/ UNCHANGED tx
         \/ \E a \in Actor : /\ tx'[a].op \notin {"fetch", "mark"}
                             /\ \A b \in Actor \ {a} : tx'[b] = tx[b]
  PROVE  RestOK'
<1>1. BoxOK'
  BY BoxAway DEF RestOK
<1>2. StateOK'
  BY DEF RestOK, StateOK, Steady, prospectVars
<1> QED
  BY <1>1, <1>2 DEF RestOK

\* A session of a cadence holds t.
LEMMA CadenceHold ==
  ASSUME WorkOK, NEW a \in Actor, NEW t \in TxRec, Hold(a, t), t.op \notin {"fetch", "mark"},
         jobs' \subseteq JobRec
  PROVE  /\ WorkOK' /\ tx'[a].op \notin {"fetch", "mark"}
         /\ \A b \in Actor \ {a} : tx'[b] = tx[b]
BY HoldType DEF WorkOK

LEMMA IdleHold ==
  /\ Idle \in TxRec /\ Idle.op \notin {"fetch", "mark"}
  /\ \A op \in {"enroll", "tick", "delete"} :
       /\ [Idle EXCEPT !.op = op] \in TxRec /\ [Idle EXCEPT !.op = op].op = op
       /\ \A rows \in SUBSET Enrollment : /\ [Idle EXCEPT !.op = op, !.rows = rows] \in TxRec
                                          /\ [Idle EXCEPT !.op = op, !.rows = rows].op = op
BY IdleType DEF Idle, Operation

LEMMA ListType ==
  ASSUME CadenceOK, NEW a \in Actor, NEW l \in ListRec, l.waits => l.fila # <<>>,
         UNCHANGED <<sequence, paused, round, touches>>, list' = [list EXCEPT ![a] = l]
  PROVE  CadenceOK'
<1>1. list' \in [Actor -> ListRec] /\ \A b \in Actor : list'[b] = IF b = a THEN l ELSE list[b]
  BY DEF CadenceOK
<1> QED
  BY <1>1 DEF CadenceOK

LEMMA RoundType ==
  ASSUME CadenceOK, NEW a \in Actor, NEW r \in RoundRec, touches' \in [Enrollment -> Nat],
         UNCHANGED <<sequence, paused, list>>, round' = [round EXCEPT ![a] = r]
  PROVE  CadenceOK'
BY DEF CadenceOK

\* Every enrolling session holds its lists within their type.
LEMMA EnrollType ==
  ASSUME RestOK, OneInv, NEW a \in Actor,
         \/ \E l \in Lists : EnrollBegin(a, l)
         \/ EnrollSkip(a) \/ EnrollInsert(a) \/ EnrollWakes(a) \/ EnrollFails(a),
         UNCHANGED boxVars
  PROVE  RestOK'
<1>1. list[a] \in ListRec /\ WorkOK /\ CadenceOK /\ RowOK /\ CountOK
  BY DEF RestOK, CadenceOK
<1> DEFINE n == list[a].new
           w == list[a].waits
<1>2. n \in SUBSET [e : Enrollment, on : Prospect] /\ w \in BOOLEAN /\ list[a].fila \in Seq(Prospect)
  BY <1>1 DEF ListRec
<1>3. RowOK' /\ Steady /\ jobs' \subseteq JobRec /\ UNCHANGED <<sequence, paused, round, touches>>
  BY <1>1 DEF EnrollBegin, EnrollSkip, EnrollInsert, EnrollWakes, EnrollFails, EnrollVars, RowOK,
              WorkOK
<1>4. CASE \E l \in Lists : EnrollBegin(a, l)
  <2>1. PICK l \in Lists : EnrollBegin(a, l)
    BY <1>4
  <2>2. l \in Seq(Prospect) /\ l # <<>>
    <3>1. scenario.on \subseteq Prospect
      BY <1>1, ScenarioType
    <3>2. CASE l \in {<<p>> : p \in scenario.on}
      <4>1. PICK p \in scenario.on : l = <<p>>
        BY <3>2
      <4> QED
        BY <3>1, <4>1
    <3>3. CASE l \in {<<p, q>> : p \in scenario.on, q \in scenario.on}
      <4>1. PICK p \in scenario.on, q \in scenario.on : l = <<p, q>>
        BY <3>3
      <4>2. p \in Prospect /\ q \in Prospect
        BY <3>1
      <4> QED
        BY <4>1, <4>2
    <3> QED
      BY <3>2, <3>3 DEF Lists
  <2>3. list' = [list EXCEPT ![a] = [fila |-> l, new |-> n, waits |-> w]]
    BY <2>1, ListEdits DEF EnrollBegin
  <2>4. [fila |-> l, new |-> n, waits |-> w] \in ListRec
    BY <1>2, <2>2 DEF ListRec
  <2>5. CadenceOK'
    <3> HIDE DEF n, w
    <3> QED
      BY <1>1, <1>3, <2>2, <2>3, <2>4, ListType
  <2>6. WorkOK' /\ tx'[a].op \notin {"fetch", "mark"} /\ \A b \in Actor \ {a} : tx'[b] = tx[b]
    BY <1>1, <1>3, <2>1, IdleHold, CadenceHold DEF EnrollBegin
  <2>7. CountOK'
    BY <1>1, <1>3, <2>1, StartsType DEF EnrollBegin, Steady
  <2> QED
    BY <1>3, <2>5, <2>6, <2>7, CadenceFrame
<1>5. CASE EnrollSkip(a)
  <2>1. list' = [list EXCEPT ![a] = [fila |-> Tail(list[a].fila), new |-> n, waits |-> w]] /\ ~w
        /\ list[a].fila # <<>>
    BY <1>5, ListEdits DEF EnrollSkip
  <2>2. [fila |-> Tail(list[a].fila), new |-> n, waits |-> w] \in ListRec
    BY <1>2, <2>1 DEF ListRec
  <2>3. CadenceOK'
    <3> HIDE DEF n, w
    <3> QED
      BY <1>1, <1>3, <2>1, <2>2, ListType
  <2>4. UNCHANGED tx /\ CountOK'
    BY <1>1, <1>5 DEF EnrollSkip, EnrollVars, Steady, CountOK
  <2> QED
    BY <1>1, <1>3, <2>3, <2>4, CadenceFrame DEF WorkOK
<1>6. ASSUME NEW p \in Prospect, Insert(a, p), list[a].fila # <<>>, CountOK'
      PROVE  RestOK'
  <2>1. PICK e \in Unused :
        /\ Hold(a, [Idle EXCEPT !.op = "enroll", !.rows = tx[a].rows \cup {e}])
        /\ list' = [list EXCEPT ![a] = [fila |-> Tail(@.fila), waits |-> FALSE,
                                        new |-> @.new \cup {[e |-> e, on |-> p]}]]
    BY <1>6 DEF Insert
  <2> DEFINE l == [fila |-> Tail(list[a].fila), waits |-> FALSE,
                   new |-> list[a].new \cup {[e |-> e, on |-> p]}]
  <2>2. list' = [list EXCEPT ![a] = l]
    BY <1>1, <2>1 DEF CadenceOK
  <2>3. e \in Enrollment /\ tx[a].rows \cup {e} \in SUBSET Enrollment
    BY <1>1 DEF Unused, WorkOK, TxRec
  <2>4. l \in ListRec /\ ~l.waits
    BY <1>2, <1>6, <2>3 DEF ListRec
  <2> HIDE DEF l
  <2>5. CadenceOK'
    BY <1>1, <1>3, <2>2, <2>4, ListType
  <2>6. WorkOK' /\ tx'[a].op \notin {"fetch", "mark"} /\ \A b \in Actor \ {a} : tx'[b] = tx[b]
    BY <1>1, <1>3, <2>1, <2>3, IdleHold, CadenceHold
  <2> QED
    BY <1>3, <1>6, <2>5, <2>6, CadenceFrame
<1>7. CASE EnrollInsert(a)
  <2>1. list[a].fila # <<>> /\ Head(list[a].fila) \in Prospect /\ CountOK'
    BY <1>1, <1>2, <1>7 DEF EnrollInsert, EnrollVars, Steady, CountOK
  <2>2. CASE Insert(a, Head(list[a].fila))
    BY <1>6, <2>1, <2>2
  <2>3. CASE list' = [list EXCEPT ![a].waits = TRUE] /\ UNCHANGED tx
    <3>1. list' = [list EXCEPT ![a] = [fila |-> list[a].fila, new |-> n, waits |-> TRUE]]
      BY <2>3, ListEdits
    <3>2. [fila |-> list[a].fila, new |-> n, waits |-> TRUE] \in ListRec
      BY <1>2 DEF ListRec
    <3>3. CadenceOK'
      <4> HIDE DEF n, w
      <4> QED
        BY <1>1, <1>3, <2>1, <3>1, <3>2, ListType
    <3> QED
      BY <1>1, <1>3, <2>1, <2>3, <3>3, CadenceFrame DEF WorkOK
  <2> QED
    BY <1>7, <2>2, <2>3 DEF EnrollInsert
<1>8. CASE EnrollWakes(a)
  <2>1. list[a].fila # <<>> /\ CountOK'
    BY <1>1, <1>8 DEF EnrollWakes, CadenceOK, EnrollVars, Steady, CountOK
  <2>2. Head(list[a].fila) \in Prospect
    BY <1>2, <2>1
  <2> QED
    BY <1>6, <1>8, <2>1, <2>2 DEF EnrollWakes
<1>9. CASE EnrollFails(a)
  <2>1. NoList \in ListRec /\ ~NoList.waits
    BY DEF NoList, ListRec
  <2>2. CadenceOK' /\ CountOK'
    BY <1>1, <1>3, <1>9, <2>1, ListType DEF EnrollFails, EnrollVars, Steady, CountOK
  <2>3. WorkOK' /\ tx'[a].op \notin {"fetch", "mark"} /\ \A b \in Actor \ {a} : tx'[b] = tx[b]
    BY <1>1, <1>3, <1>9, IdleHold, CadenceHold DEF EnrollFails, Close
  <2> QED
    BY <1>3, <2>2, <2>3, CadenceFrame
<1> QED
  BY <1>4, <1>5, <1>7, <1>8, <1>9

\* A row that was in a cadence has a prospect; a tick has decided only on such
\* rows, and holds their locks.
RowsNamed == \A e \in Enrollment : row[e].status # "absent" => row[e].on \in Prospect

PlansHeld == \A a \in Actor : \A d \in round[a].plan :
  d.e \in tx[a].rows /\ row[d.e].status # "absent"

LEMMA RowEdits ==
  ASSUME RowOK, NEW e \in Enrollment
  PROVE  /\ [row[e] EXCEPT !.next = "now"] \in RowRec
         /\ [row[e] EXCEPT !.status = "stopped", !.next = "never"] \in RowRec
         /\ [row[e] EXCEPT !.status = "stopped", !.next = "never"].status = "stopped"
         /\ [row[e] EXCEPT !.next = "now"].next = "now"
         /\ \A d \in PlanRec :
              /\ After(row[e], d) \in RowRec
              /\ After(row[e], d).status = "active" => After(row[e], d).next # "never"
              /\ After(row[e], d).on = row[e].on
              /\ row[e].status # "absent" => After(row[e], d).status # "absent"
<1>1. row[e] \in RowRec /\ (row[e].status = "active" => row[e].next # "never")
  BY DEF RowOK
<1> DEFINE r == row[e]
<1> HIDE DEF r
<1>2. ASSUME r \in RowRec, r.status = "active" => r.next # "never", NEW d \in PlanRec
      PROVE  /\ After(r, d) \in RowRec
             /\ After(r, d).status = "active" => After(r, d).next # "never"
             /\ After(r, d).on = r.on
             /\ r.status # "absent" => After(r, d).status # "absent"
  <2>1. d.step + 1 \in Nat /\ d.last \in BOOLEAN /\ d.act \in {"stop", "postpone", "complete", "step"}
    BY DEF PlanRec
  <2>2. CASE d.act = "stop"
    BY <1>2, <2>2 DEF After, RowRec
  <2>3. CASE d.act = "postpone"
    BY <1>2, <2>3 DEF After, RowRec
  <2>4. CASE d.act = "complete"
    BY <1>2, <2>4 DEF After, RowRec
  <2>5. CASE d.act = "step"
    <3>1. CASE d.last
      BY <1>2, <2>1, <2>5, <3>1 DEF After, AfterStep, RowRec
    <3>2. CASE ~d.last
      BY <1>2, <2>1, <2>5, <3>2 DEF After, AfterStep, RowRec
    <3> QED
      BY <3>1, <3>2
  <2> QED
    BY <2>1, <2>2, <2>3, <2>4, <2>5
<1>3. ASSUME r \in RowRec
      PROVE  /\ [r EXCEPT !.next = "now"] \in RowRec
             /\ [r EXCEPT !.status = "stopped", !.next = "never"] \in RowRec
             /\ [r EXCEPT !.status = "stopped", !.next = "never"].status = "stopped"
             /\ [r EXCEPT !.next = "now"].next = "now"
  BY <1>3 DEF RowRec
<1> QED
  BY <1>1, <1>2, <1>3 DEF r

LEMMA EnrollCommitType ==
  ASSUME RestOK, NEW a \in Actor, EnrollCommit(a), UNCHANGED boxVars
  PROVE  RestOK'
<1> DEFINE new == list[a].new
           on(e) == (CHOOSE r \in new : r.e = e).on
<1>1. row' = [e \in Enrollment |->
                IF \E r \in new : r.e = e
                THEN [on |-> on(e), status |-> "active", step |-> 0, next |-> "now"] ELSE row[e]]
  BY DEF EnrollCommit
<1>2. \A r \in new : r.on \in Prospect
  BY DEF RestOK, CadenceOK, ListRec
<1>3. \A e \in Enrollment : (\E r \in new : r.e = e) => on(e) \in Prospect
  BY <1>2
<1> HIDE DEF new, on
<1>4. \A e \in Enrollment : row'[e] \in RowRec
                            /\ (row'[e].status = "active" => row'[e].next # "never")
  <2> SUFFICES ASSUME NEW e \in Enrollment
               PROVE  row'[e] \in RowRec /\ (row'[e].status = "active" => row'[e].next # "never")
    OBVIOUS
  <2>1. CASE \E r \in new : r.e = e
    <3>1. row'[e] = [on |-> on(e), status |-> "active", step |-> 0, next |-> "now"]
      BY <1>1, <2>1
    <3>2. on(e) \in Prospect
      BY <1>3, <2>1
    <3> QED
      BY <3>1, <3>2 DEF RowRec
  <2>2. CASE ~ \E r \in new : r.e = e
    BY <1>1, <2>2 DEF RestOK, RowOK
  <2> QED
    BY <2>1, <2>2
<1>5. RowOK'
  BY <1>1, <1>4 DEF RowOK
<1>6. NoList \in ListRec /\ ~NoList.waits
  BY DEF NoList, ListRec
<1>7. CadenceOK' /\ CountOK' /\ Steady
  BY <1>6, ListType DEF EnrollCommit, Steady, RestOK, CountOK
<1>8. WorkOK' /\ tx'[a].op \notin {"fetch", "mark"} /\ \A b \in Actor \ {a} : tx'[b] = tx[b]
  BY IdleHold, CadenceHold DEF EnrollCommit, Close, RestOK, WorkOK
<1> QED
  BY <1>5, <1>7, <1>8, CadenceFrame

LEMMA TickBeginType ==
  ASSUME RestOK, OneInv, PlanShape, NEW a \in Actor, TickBegin(a), UNCHANGED boxVars
  PROVE  RestOK'
<1> DEFINE due == {[e |-> e, step |-> row[e].step] : e \in Due}
           r == [due |-> due, plan |-> round[a].plan]
<1>1. due \subseteq DueRec
  BY DEF Due, DueRec, RestOK, RowOK, RowRec
<1>2. round' = [round EXCEPT ![a].due = due]
  BY DEF TickBegin
<1> HIDE DEF due
<1>3. round' = [round EXCEPT ![a] = r] /\ r \in RoundRec
  <2>1. round[a] \in RoundRec /\ round \in [Actor -> RoundRec]
    BY DEF RestOK, CadenceOK
  <2>2. [round[a] EXCEPT !.due = due] = r
    BY <2>1 DEF RoundRec
  <2>3. round' = [round EXCEPT ![a] = r]
    BY <1>2, <2>2, Zenon
  <2> QED
    BY <1>1, <2>1, <2>3 DEF RoundRec
<1> HIDE DEF r
<1>4. UNCHANGED <<row, jobs, faults, sequence, paused, list, touches>> /\ Steady
  BY DEF TickBegin, TickVars
<1>5. CadenceOK'
  BY <1>3, <1>4, RoundType DEF RestOK, CadenceOK
<1>6. WorkOK' /\ tx'[a].op \notin {"fetch", "mark"} /\ \A b \in Actor \ {a} : tx'[b] = tx[b]
  BY <1>4, IdleHold, CadenceHold DEF TickBegin, RestOK, WorkOK
<1>7. RowOK' /\ CountOK'
  BY <1>4, StartsType DEF TickBegin, Steady, RestOK, RowOK
<1> QED
  BY <1>4, <1>5, <1>6, <1>7, CadenceFrame

LEMMA TickOneType ==
  ASSUME RestOK, NEW a \in Actor, TickOne(a), UNCHANGED boxVars
  PROVE  RestOK'
<1>1. PICK d \in round[a].due :
       /\ round' = [round EXCEPT ![a] =
            [due |-> @.due \ {d},
             plan |-> @.plan \cup
               {[e |-> d.e, step |-> d.step, act |-> Act(d),
                 last |-> d.step + 1 >= sequence.steps,
                 fresh |-> Free(StepJob(a, d))]}]]
       /\ Hold(a, [tx[a] EXCEPT !.rows = @ \cup {d.e}])
  BY DEF TickOne
<1> DEFINE act == Act(d)
           last == d.step + 1 >= sequence.steps
           fresh == Free(StepJob(a, d))
           decided == [e |-> d.e, step |-> d.step, act |-> act, last |-> last, fresh |-> fresh]
           r == [due |-> round[a].due \ {d}, plan |-> round[a].plan \cup {decided}]
           t == [tx[a] EXCEPT !.rows = @ \cup {d.e}]
<1>2. /\ act \in {"stop", "postpone", "complete", "step"} /\ last \in BOOLEAN /\ fresh \in BOOLEAN
      /\ d.e \in Enrollment /\ d.step \in Nat
  BY DEF Act, Free, RestOK, CadenceOK, RoundRec, DueRec
<1>3. Hold(a, t) /\ t \in TxRec /\ t.op = "tick"
  BY <1>1, <1>2 DEF TickOne, RestOK, WorkOK, TxRec
<1> HIDE DEF act, last, fresh
<1>4. decided \in PlanRec
  BY <1>2 DEF PlanRec
<1>5. round' = [round EXCEPT ![a] = r]
  <2>1. round' = [round EXCEPT ![a] = [due |-> @.due \ {d}, plan |-> @.plan \cup {decided}]]
    BY <1>1 DEF act, last, fresh
  <2> HIDE DEF decided
  <2> QED
    BY <2>1 DEF RestOK, CadenceOK
<1> HIDE DEF decided
<1>6. r \in RoundRec
  BY <1>4 DEF RestOK, CadenceOK, RoundRec
<1> HIDE DEF r, t
<1>7. UNCHANGED <<row, jobs, faults, requests, sequence, paused, list, touches>> /\ Steady
  BY DEF TickOne, TickVars
<1>8. CadenceOK'
  BY <1>5, <1>6, <1>7, RoundType DEF RestOK, CadenceOK
<1>9. WorkOK' /\ tx'[a].op \notin {"fetch", "mark"} /\ \A b \in Actor \ {a} : tx'[b] = tx[b]
  BY <1>3, <1>7, CadenceHold DEF RestOK, WorkOK
<1>10. RowOK' /\ CountOK'
  BY <1>7 DEF Steady, RestOK, RowOK, CountOK
<1> QED
  BY <1>7, <1>8, <1>9, <1>10, CadenceFrame

LEMMA TickCommitType ==
  ASSUME RestOK, RowsNamed, PlansHeld, NEW a \in Actor, TickCommit(a), UNCHANGED boxVars
  PROVE  RestOK'
<1> DEFINE plan == round[a].plan
           sent == {d \in plan : d.act = "step" /\ d.fresh}
<1>1. /\ row' = [e \in Enrollment |->
            IF \E d \in plan : d.e = e THEN After(row[e], CHOOSE d \in plan : d.e = e) ELSE row[e]]
      /\ jobs' = jobs \cup {StepJob(a, d) : d \in sent}
      /\ touches' = [e \in Enrollment |->
            IF \E d \in sent : d.e = e THEN touches[e] + 1 ELSE touches[e]]
  BY DEF TickCommit
<1>2. /\ plan \subseteq PlanRec /\ sent \subseteq plan
      /\ \A d \in plan : d.e \in Enrollment /\ d.step \in Nat /\ row[d.e].on \in Prospect
  BY DEF RestOK, CadenceOK, RoundRec, PlanRec, PlansHeld, RowsNamed
<1> HIDE DEF plan, sent
<1>3. RowOK'
  <2>1. ASSUME NEW e \in Enrollment
        PROVE  row'[e] \in RowRec /\ (row'[e].status = "active" => row'[e].next # "never")
    <3>1. CASE \E d \in plan : d.e = e
      <4> DEFINE d == CHOOSE d \in plan : d.e = e
      <4>1. d \in PlanRec /\ row'[e] = After(row[e], d)
        BY <1>1, <1>2, <3>1
      <4> HIDE DEF d
      <4> QED
        BY <4>1, RowEdits DEF RestOK
    <3>2. CASE ~ \E d \in plan : d.e = e
      BY <1>1, <3>2 DEF RestOK, RowOK
    <3> QED
      BY <3>1, <3>2
  <2> QED
    BY <1>1, <2>1 DEF RowOK
<1>4. jobs' \subseteq JobRec
  <2>1. ASSUME NEW d \in sent
        PROVE  StepJob(a, d) \in JobRec
    <3>1. <<d.e, d.step + 1>> \in Nat \X Nat
      BY <1>2 DEF Enrollment
    <3> QED
      BY <1>2, <3>1, JobType DEF StepJob
  <2> QED
    BY <1>1, <2>1 DEF RestOK, WorkOK
<1>5. touches' \in [Enrollment -> Nat]
  BY <1>1 DEF RestOK, CadenceOK
<1>6. NoRound \in RoundRec
  BY DEF NoRound, RoundRec
<1>7. CadenceOK' /\ CountOK' /\ Steady
  BY <1>5, <1>6, RoundType DEF TickCommit, Steady, RestOK, CountOK
<1>8. WorkOK' /\ tx'[a].op \notin {"fetch", "mark"} /\ \A b \in Actor \ {a} : tx'[b] = tx[b]
  BY <1>4, IdleHold, CadenceHold DEF TickCommit, Close, RestOK
<1> QED
  BY <1>3, <1>7, <1>8, CadenceFrame

LEMMA TickFailsType ==
  ASSUME RestOK, NEW a \in Actor, TickFails(a), UNCHANGED boxVars
  PROVE  RestOK'
<1>1. NoRound \in RoundRec
  BY DEF NoRound, RoundRec
<1>2. CadenceOK' /\ CountOK' /\ RowOK' /\ Steady
  BY <1>1, RoundType DEF TickFails, TickVars, Steady, RestOK, CountOK, RowOK, CadenceOK
<1>3. WorkOK' /\ tx'[a].op \notin {"fetch", "mark"} /\ \A b \in Actor \ {a} : tx'[b] = tx[b]
  BY IdleHold, CadenceHold DEF TickFails, TickVars, Close, RestOK, WorkOK
<1> QED
  BY <1>2, <1>3, CadenceFrame

LEMMA DayType ==
  ASSUME RestOK, Day, UNCHANGED boxVars
  PROVE  RestOK'
<1>1. row' = [e \in Enrollment |-> IF row[e].next = "later" THEN [row[e] EXCEPT !.next = "now"]
                                   ELSE row[e]]
  BY DEF Day
<1>2. RowOK'
  <2>1. \A e \in Enrollment : row'[e] \in RowRec
                              /\ (row'[e].status = "active" => row'[e].next # "never")
    BY <1>1, RowEdits DEF RestOK, RowOK
  <2> QED
    BY <1>1, <2>1 DEF RowOK
<1>3. touches' \in [Enrollment -> Nat]
  BY DEF Day
<1>4. CadenceOK' /\ CountOK' /\ WorkOK' /\ Steady /\ UNCHANGED tx
  BY <1>3 DEF Day, Steady, RestOK, CountOK, WorkOK, CadenceOK
<1> QED
  BY <1>2, <1>4, CadenceFrame

LEMMA PlannersType ==
  ASSUME RestOK, NEW a \in Actor,
         \/ \E e \in Enrollment : StopEnrollment(a, e)
         \/ \E n \in 1 .. MaxSteps, active \in BOOLEAN : UpdateSequence(a, n, active)
         \/ PauseCampaign(a) \/ DeleteCheck(a) \/ DeleteCommit(a),
         UNCHANGED boxVars
  PROVE  RestOK'
<1>1. CASE \E e \in Enrollment : StopEnrollment(a, e)
  <2>1. PICK e \in Enrollment : StopEnrollment(a, e)
    BY <1>1
  <2>2. RowOK'
    <3>1. row' = [row EXCEPT ![e] = [row[e] EXCEPT !.status = "stopped", !.next = "never"]]
      BY <2>1 DEF StopEnrollment, RestOK, RowOK
    <3> QED
      BY <3>1, RowEdits DEF RestOK, RowOK
  <2>3. CadenceOK' /\ CountOK' /\ WorkOK' /\ Steady /\ UNCHANGED tx
    BY <2>1, StartsType DEF StopEnrollment, Steady, cadenceVars, RestOK, WorkOK, CadenceOK
  <2> QED
    BY <2>2, <2>3, CadenceFrame
<1>2. CASE \E n \in 1 .. MaxSteps, active \in BOOLEAN : UpdateSequence(a, n, active)
  <2>1. PICK n \in 1 .. MaxSteps, active \in BOOLEAN : UpdateSequence(a, n, active)
    BY <1>2
  <2>2. sequence' \in [steps : 0 .. MaxSteps, active : BOOLEAN]
    <3>1. sequence' = [steps |-> n, active |-> active] /\ n \in 0 .. MaxSteps
      BY <2>1, CadencesAssumption DEF UpdateSequence
    <3> QED
      BY <3>1
  <2>3. CadenceOK' /\ CountOK' /\ WorkOK' /\ RowOK' /\ Steady /\ UNCHANGED tx
    BY <2>1, <2>2, StartsType DEF UpdateSequence, Steady, RestOK, WorkOK, CadenceOK, RowOK
  <2> QED
    BY <2>3, CadenceFrame
<1>3. CASE PauseCampaign(a)
  <2>1. CadenceOK' /\ CountOK' /\ WorkOK' /\ RowOK' /\ Steady /\ UNCHANGED tx
    BY <1>3, StartsType DEF PauseCampaign, Steady, RestOK, WorkOK, CadenceOK, RowOK
  <2> QED
    BY <2>1, CadenceFrame
<1>4. CASE DeleteCheck(a)
  <2>1. CadenceOK' /\ CountOK' /\ RowOK' /\ Steady
    BY <1>4, StartsType DEF DeleteCheck, Steady, cadenceVars, RestOK, CadenceOK, RowOK
  <2>2. WorkOK' /\ tx'[a].op \notin {"fetch", "mark"} /\ \A b \in Actor \ {a} : tx'[b] = tx[b]
    BY <1>4, IdleHold, CadenceHold DEF DeleteCheck, RestOK, WorkOK
  <2> QED
    BY <2>1, <2>2, CadenceFrame
<1>5. CASE DeleteCommit(a)
  <2>1. RowOK'
    <3>1. NoRow \in RowRec /\ NoRow.status = "absent"
      BY DEF NoRow, RowRec
    <3> QED
      BY <1>5, <3>1 DEF DeleteCommit, RowOK
  <2>2. sequence' \in [steps : 0 .. MaxSteps, active : BOOLEAN]
    <3>1. sequence' = [steps |-> 0, active |-> FALSE] /\ 0 \in 0 .. MaxSteps
      BY <1>5, CadencesAssumption DEF DeleteCommit
    <3> QED
      BY <3>1
  <2>3. CadenceOK' /\ CountOK' /\ Steady
    BY <1>5, <2>2 DEF DeleteCommit, Steady, RestOK, CadenceOK, CountOK
  <2>4. WorkOK' /\ tx'[a].op \notin {"fetch", "mark"} /\ \A b \in Actor \ {a} : tx'[b] = tx[b]
    BY <1>5, IdleHold, CadenceHold DEF DeleteCommit, Close, RestOK, WorkOK
  <2> QED
    BY <2>1, <2>3, <2>4, CadenceFrame
<1> QED
  BY <1>1, <1>2, <1>3, <1>4, <1>5

LEMMA CadenceTypes ==
  ASSUME RestOK, OneInv, PlanShape, RowsNamed, PlansHeld, CadencesNext, UNCHANGED boxVars
  PROVE  RestOK'
<1>1. CASE Day
  BY <1>1, DayType
<1>2. CASE \E a \in Actor : \/ \E l \in Lists : EnrollBegin(a, l)
                            \/ EnrollSkip(a) \/ EnrollInsert(a) \/ EnrollWakes(a) \/ EnrollFails(a)
  BY <1>2, EnrollType
<1>3. CASE \E a \in Actor : EnrollCommit(a) \/ TickBegin(a) \/ TickOne(a)
                            \/ TickCommit(a) \/ TickFails(a)
  BY <1>3, EnrollCommitType, TickBeginType, TickOneType, TickCommitType, TickFailsType
<1>4. CASE \E a \in Actor :
              \/ (\E e \in Enrollment : StopEnrollment(a, e))
              \/ (\E n \in 1 .. MaxSteps, active \in BOOLEAN : UpdateSequence(a, n, active))
              \/ PauseCampaign(a) \/ DeleteCheck(a) \/ DeleteCommit(a)
  BY <1>4, PlannersType
<1> QED
  BY <1>1, <1>2, <1>3, <1>4 DEF CadencesNext

-----------------------------------------------------------------------------
(***************************************************************************)
(* What a step does to the sessions and to the conversations.  The bounds  *)
(* below follow from this, without the actions.                            *)
(***************************************************************************)

\* A session begins, with nothing written; an approach begins before any reply.
Begins(a) ==
  /\ tx[a].op = "idle" /\ May(a, tx'[a].op) /\ tx'[a].op # "mark" /\ tx'[a].rows = {}
  /\ tx'[a].op = "fetch" => tx'[a].n = 0
  /\ tx'[a].op = "outreach" => ~Replied(tx'[a].on)
  /\ UNCHANGED history

\* A reading takes the next email, files the one it has, or lets it go.
ReadsOn(a) ==
  /\ tx[a].op \in {"fetch", "mark"}
  /\ \/ /\ tx'[a].op = "fetch" /\ tx[a].op = "fetch" /\ tx[a].n = 0
        /\ tx'[a].saw # "known" => ~Known(tx'[a].n)
        /\ UNCHANGED history
     \/ tx'[a].op = "mark"
     \/ tx'[a].op = "fetch" /\ tx'[a].n = 0

\* A list or a tick takes the next row.
GoesOnWithRows(a) ==
  tx[a].op \in {"enroll", "tick"} /\ tx'[a].op = tx[a].op /\ tx[a].rows \subseteq tx'[a].rows

Ends(a) == tx[a].op # "idle" /\ tx'[a].op = "idle"

Turn(a) == /\ Begins(a) \/ ReadsOn(a) \/ GoesOnWithRows(a) \/ Ends(a)
           /\ \A b \in Actor \ {a} : tx'[b] = tx[b]

Turns == UNCHANGED tx \/ \E a \in Actor : Turn(a)

LEMMA ReadsTurns ==
  ASSUME WorkOK, NEW a \in Actor, NEW op, op \notin {"fetch", "mark"}, NEW p, NEW n, NEW job,
         Reads(a, op, p, n, job), op = "outreach" => ~Replied(p)
  PROVE  Turns
<1> DEFINE barred == ContactOf[p] \in optedOut
           t == [Idle EXCEPT !.op = op, !.on = p, !.saw = status[p], !.n = n, !.job = job,
                             !.barred = barred]
<1>1. t.op = op /\ t.on = p /\ t.rows = {}
  <2> HIDE DEF barred
  <2> QED
    BY DEF Idle
<1>2. Hold(a, t) /\ tx[a].op = "idle" /\ May(a, op) /\ UNCHANGED history
  BY DEF Reads, Starts, Idling, prospectVars
<1> HIDE DEF t
<1>3. tx'[a] = t /\ \A b \in Actor \ {a} : tx'[b] = tx[b]
  BY <1>2 DEF WorkOK, Hold
<1>4. Begins(a)
  BY <1>1, <1>2, <1>3 DEF Begins
<1> QED
  BY <1>3, <1>4 DEF Turns, Turn

LEMMA CloseTurns ==
  ASSUME WorkOK, NEW a \in Actor, tx[a].op # "idle", Close(a)
  PROVE  Turns
BY CloseType DEF Turns, Turn, Ends

LEMMA FunnelTurns ==
  ASSUME WorkOK, FunnelNext
  PROVE  Turns
<1>1. CASE \E a \in Actor, p \in Prospect : People(a, p)
  <2>1. PICK a \in Actor, p \in Prospect : People(a, p)
    BY <1>1
  <2>2. CASE \/ Score(a, p) \/ BookMeeting(a, p) \/ Unsubscribe(a, p) \/ OptOutByHand(a, p)
             \/ WriteReply(a, p) \/ (\E i \in DOMAIN history[p] : Approve(a, p, i))
             \/ (\E agent \in {"outreach", "conversation"} : AskForRun(a, agent, p))
    BY <2>2 DEF Score, BookMeeting, Unsubscribe, OptOutByHand, WriteReply, Approve, AskForRun,
                AtOnce, Turns
  <2>3. CASE InboundBegin(a, p)
    BY <2>3, ReadsTurns DEF InboundBegin
  <2>4. CASE InboundCommit(a, p)
    BY <2>4, CloseTurns DEF InboundCommit, Writes
  <2> QED
    BY <2>1, <2>2, <2>3, <2>4 DEF People
<1>2. CASE \E a \in Actor, p \in Prospect : Sending(a, p)
  <2>1. CASE \E a \in Actor, p \in Prospect : SendCommit(a, p)
    BY <2>1, CloseTurns DEF SendCommit, Writes
  <2>2. CASE \E a \in Actor, p \in Prospect : \E i \in DOMAIN history[p] : SendCheck(a, p, i)
    BY <2>2, ReadsTurns DEF SendCheck
  <2> QED
    BY <1>2, <2>1, <2>2 DEF Sending
<1>3. CASE \E a \in Actor, p \in Prospect : Agents(a, p)
  <2>1. PICK a \in Actor, p \in Prospect : Agents(a, p)
    BY <1>3
  <2>2. CASE OutreachLoad(a, p) \/ ConverseLoad(a, p) \/ QualifyLoad(a, p)
    BY <2>2, ReadsTurns DEF OutreachLoad, MayApproach, ConverseLoad, QualifyLoad
  <2>3. CASE \/ OutreachPersist(a, p) \/ ConversePersist(a, p) \/ ConverseOptOut(a, p)
             \/ \E outcome \in Outcome : QualifyPersist(a, p, outcome)
    BY <2>3, CloseTurns
       DEF OutreachPersist, ConversePersist, ConverseOptOut, QualifyPersist, Writes
  <2> QED
    BY <2>1, <2>2, <2>3 DEF Agents
<1>4. CASE \E a \in Actor : AgentGivesUp(a)
  BY <1>4, CloseTurns DEF AgentGivesUp
<1>5. CASE \E j \in jobs : JobDies(j)
  BY <1>5 DEF JobDies, Turns
<1> QED
  BY <1>1, <1>2, <1>3, <1>4, <1>5 DEF FunnelNext

LEMMA InboxTurns ==
  ASSUME RestOK, KeptInv, InboxNext
  PROVE  Turns
<1>1. WorkOK /\ [Idle EXCEPT !.op = "fetch"] \in TxRec /\ [Idle EXCEPT !.op = "fetch"].op = "fetch"
      /\ [Idle EXCEPT !.op = "fetch"].n = 0 /\ [Idle EXCEPT !.op = "fetch"].rows = {}
  <2>1. "fetch" \in Operation
    BY DEF Operation
  <2> QED
    BY <2>1, IdleType DEF RestOK, Idle
<1>2. CASE \E m \in Mail : Deliver(m)
  BY <1>2 DEF Deliver, shared, Turns
<1>3. CASE \E a \in Actor : FetchBegin(a)
  <2>1. PICK a \in Actor : FetchBegin(a)
    BY <1>3
  <2>2. tx'[a] = [Idle EXCEPT !.op = "fetch"] /\ \A b \in Actor \ {a} : tx'[b] = tx[b]
    BY <1>1, <2>1, HoldType DEF FetchBegin
  <2>3. tx[a].op = "idle" /\ May(a, "fetch") /\ UNCHANGED history
    BY <2>1 DEF FetchBegin, Starts, Idling, prospectVars
  <2> QED
    BY <1>1, <2>2, <2>3, ZenonT(60) DEF Turns, Turn, Begins
<1>4. CASE \E a \in Actor : MailDefect(a) \/ MarkSeen(a)
  <2>1. PICK a \in Actor : MailDefect(a) \/ MarkSeen(a)
    BY <1>4
  <2>2. Onwards(a) /\ tx[a].op \in {"fetch", "mark"}
    BY <2>1 DEF MailDefect, MarkSeen, MayMark, Reading
  <2>3. tx'[a] = [Idle EXCEPT !.op = "fetch"] /\ \A b \in Actor \ {a} : tx'[b] = tx[b]
    BY <1>1, <2>2, HoldType DEF Onwards
  <2> QED
    BY <1>1, <2>2, <2>3 DEF Turns, Turn, ReadsOn
<1>5. CASE \E a \in Actor : MailCheck(a)
  <2>1. PICK a \in Actor : MailCheck(a)
    BY <1>5
  <2>2. PICK m \in reader[a].todo :
        Hold(a, [tx[a] EXCEPT !.n = m, !.on = From[m],
                              !.barred = ContactOf[From[m]] \in optedOut,
                              !.saw = IF Known(m) THEN "known" ELSE status[From[m]]])
    BY <2>1 DEF MailCheck
  <2> DEFINE barred == ContactOf[From[m]] \in optedOut
             saw == IF Known(m) THEN "known" ELSE status[From[m]]
             t == [tx[a] EXCEPT !.n = m, !.on = From[m], !.barred = barred, !.saw = saw]
  <2>3. Hold(a, t) /\ tx[a].op = "fetch" /\ tx[a].n = 0 /\ UNCHANGED history
    BY <2>1, <2>2 DEF MailCheck, Reading, prospectVars
  <2>4. t.op = tx[a].op /\ t.saw = saw /\ t.n = m
    <3> HIDE DEF barred, saw
    <3> QED
      BY <1>1 DEF WorkOK, TxRec
  <2>5. saw # "known" => ~Known(m)
    OBVIOUS
  <2> HIDE DEF t, saw
  <2>6. tx'[a] = t /\ \A b \in Actor \ {a} : tx'[b] = tx[b]
    BY <1>1, <2>3 DEF WorkOK, Hold
  <2>7. ReadsOn(a)
    BY <2>3, <2>4, <2>5, <2>6 DEF ReadsOn
  <2> QED
    BY <2>6, <2>7 DEF Turns, Turn
<1>6. CASE \E a \in Actor : FetchEnd(a) \/ FetchBreaks(a)
  BY <1>1, <1>6, CloseTurns DEF FetchEnd, FetchBreaks, Reading
<1>7. CASE \E a \in Actor : \/ ReplyCommit(a) \/ SoftBounceCommit(a) \/ HardBounceCommit(a)
                            \/ AlreadyKnown(a)
  <2>1. PICK a \in Actor : \/ ReplyCommit(a) \/ SoftBounceCommit(a) \/ HardBounceCommit(a)
                           \/ AlreadyKnown(a)
    BY <1>7
  <2>2. tx[a].op = "fetch" /\ Hold(a, [tx[a] EXCEPT !.op = "mark"])
    BY <2>1 DEF ReplyCommit, SoftBounceCommit, HardBounceCommit, AlreadyKnown, InHand, Reading,
                Processed
  <2>3. tx'[a].op = "mark" /\ \A b \in Actor \ {a} : tx'[b] = tx[b]
    BY <1>1, <2>2 DEF Hold, WorkOK, TxRec
  <2> QED
    BY <2>2, <2>3 DEF Turns, Turn, ReadsOn
<1> QED
  BY <1>2, <1>3, <1>4, <1>5, <1>6, <1>7 DEF InboxNext

LEMMA CadenceTurns ==
  ASSUME WorkOK, CadencesNext
  PROVE  Turns
<1>1. CASE \E a \in Actor : (\E l \in Lists : EnrollBegin(a, l)) \/ TickBegin(a) \/ DeleteCheck(a)
  <2>1. PICK a \in Actor, op \in {"enroll", "tick", "delete"} :
          Starts(a, op) /\ Hold(a, [Idle EXCEPT !.op = op]) /\ UNCHANGED history
    BY <1>1 DEF EnrollBegin, TickBegin, DeleteCheck, Steady, prospectVars
  <2> DEFINE t == [Idle EXCEPT !.op = op]
  <2>2. t \in TxRec /\ t.op = op /\ t.rows = {} /\ Hold(a, t)
    BY <2>1, IdleHold DEF Idle
  <2> HIDE DEF t
  <2>3. tx'[a] = t /\ \A b \in Actor \ {a} : tx'[b] = tx[b]
    BY <2>2, HoldType
  <2> QED
    BY <2>1, <2>2, <2>3 DEF Turns, Turn, Begins, Starts, Idling
<1>2. CASE \E a \in Actor : EnrollInsert(a) \/ EnrollWakes(a) \/ TickOne(a)
  <2>1. PICK a \in Actor : EnrollInsert(a) \/ EnrollWakes(a) \/ TickOne(a)
    BY <1>2
  <2>2. CASE UNCHANGED tx
    BY <2>2 DEF Turns
  <2>3. CASE TickOne(a)
    <3>1. PICK e : tx[a].op = "tick" /\ Hold(a, [tx[a] EXCEPT !.rows = @ \cup {e}])
      BY <2>3 DEF TickOne
    <3>2. /\ tx'[a].op = "tick" /\ tx[a].rows \subseteq tx'[a].rows
          /\ \A b \in Actor \ {a} : tx'[b] = tx[b]
      BY <3>1 DEF Hold, WorkOK, TxRec
    <3> QED
      BY <3>1, <3>2 DEF Turns, Turn, GoesOnWithRows
  <2>4. CASE ~TickOne(a) /\ \E p : Insert(a, p)
    <3>1. PICK e \in Enrollment :
            /\ tx[a].op = "enroll"
            /\ Hold(a, [Idle EXCEPT !.op = "enroll", !.rows = tx[a].rows \cup {e}])
      <4>1. tx[a].op = "enroll"
        BY <2>1, <2>4 DEF EnrollInsert, EnrollWakes
      <4>2. \E e \in Unused : Hold(a, [Idle EXCEPT !.op = "enroll", !.rows = tx[a].rows \cup {e}])
        BY <2>4 DEF Insert
      <4> QED
        BY <4>1, <4>2 DEF Unused
    <3> DEFINE t == [Idle EXCEPT !.op = "enroll", !.rows = tx[a].rows \cup {e}]
    <3>2. t.op = "enroll" /\ t.rows = tx[a].rows \cup {e}
      BY DEF Idle
    <3>3. tx'[a] = t /\ \A b \in Actor \ {a} : tx'[b] = tx[b]
      BY <3>1 DEF Hold, WorkOK
    <3> HIDE DEF t
    <3> QED
      BY <3>1, <3>2, <3>3 DEF Turns, Turn, GoesOnWithRows
  <2> QED
    BY <2>1, <2>2, <2>3, <2>4 DEF EnrollInsert, EnrollWakes
<1>3. CASE \E a \in Actor : \/ EnrollFails(a) \/ EnrollCommit(a) \/ TickCommit(a)
                            \/ TickFails(a) \/ DeleteCommit(a)
  BY <1>3, CloseTurns DEF EnrollFails, EnrollCommit, TickCommit, TickFails, DeleteCommit
<1>4. CASE \/ Day
           \/ \E a \in Actor :
                \/ EnrollSkip(a) \/ (\E e \in Enrollment : StopEnrollment(a, e))
                \/ (\E n \in 1 .. MaxSteps, active \in BOOLEAN : UpdateSequence(a, n, active))
                \/ PauseCampaign(a)
  BY <1>4 DEF Day, EnrollSkip, StopEnrollment, UpdateSequence, PauseCampaign, Turns
<1> QED
  BY <1>1, <1>2, <1>3, <1>4 DEF CadencesNext

\* Messages keep their place, kind and email; what has left the desk stays out.
AlikeIn(h, g) ==
  /\ DOMAIN g = DOMAIN h
  /\ \A i \in DOMAIN h : /\ g[i].kind = h[i].kind /\ g[i].mail = h[i].mail
                         /\ h[i].status # "draft" => g[i].status # "draft"

Alike == \A p \in Prospect : AlikeIn(history[p], history'[p])

\* One message more: r, on p.
Says(p, r) == history' = [history EXCEPT ![p] = Append(@, r)]

\* Who writes it: an approach comes from a session that ends, and what came in
\* an email from the reading that has just looked it up.
Speaks(p, r) ==
  /\ r.kind = "cold" =>
       r.mail = 0 /\ \E a \in Actor : /\ tx[a].op = "outreach" /\ tx[a].on = p
                                      /\ tx'[a].op = "idle"
  /\ r.mail # 0 =>
       /\ r.kind = "reply"
       /\ \E a \in Actor : /\ tx[a].op = "fetch" /\ tx[a].n = r.mail /\ tx[a].saw # "known"
                           /\ tx'[a].op = "mark"
                           /\ reader'[a].touched = reader[a].touched \cup {p}
  /\ r.kind = "answer" => r.mail = 0

Words == Alike \/ \E p \in Prospect, r \in MessageRec : Says(p, r) /\ Speaks(p, r)

LEMMA SameWords ==
  ASSUME UNCHANGED history
  PROVE  Words
BY DEF Words, Alike, AlikeIn

LEMMA OneMarkedWords ==
  ASSUME HistoryOK, NEW p \in Prospect, NEW i, NEW st, st # "draft",
         history' = [history EXCEPT ![p][i].status = st]
  PROVE  Words
<1> DEFINE h == history[p]
           g == [h EXCEPT ![i].status = st]
<1>1. h \in Seq(MessageRec) /\ \A j \in DOMAIN h : h[j] \in MessageRec
  BY DEF HistoryOK
<1>2. /\ DOMAIN g = DOMAIN h
      /\ \A j \in DOMAIN h : g[j] = IF j = i THEN [h[j] EXCEPT !.status = st] ELSE h[j]
  OBVIOUS
<1>3. \A r \in MessageRec : /\ [r EXCEPT !.status = st].mail = r.mail
                            /\ [r EXCEPT !.status = st].kind = r.kind
                            /\ [r EXCEPT !.status = st].status = st
  BY DEF MessageRec
<1>4. history' = [q \in Prospect |-> IF q = p THEN g ELSE history[q]]
  BY DEF HistoryOK
<1> HIDE DEF g
<1>5. AlikeIn(h, g)
  BY <1>1, <1>2, <1>3, ZenonT(60) DEF AlikeIn
<1> QED
  BY <1>4, <1>5 DEF Words, Alike, AlikeIn

LEMMA ReturnedWords ==
  ASSUME HistoryOK, NEW p \in Prospect, Returned(p)
  PROVE  Words
<1> DEFINE h == history[p]
           sent == {i \in DOMAIN h : h[i].status = "sent"}
           b(i) == i \in sent /\ \A j \in sent : j <= i
           g == [i \in DOMAIN h |-> IF b(i) THEN [h[i] EXCEPT !.status = "bounced"] ELSE h[i]]
<1>1. \A j \in DOMAIN h : h[j] \in MessageRec
  BY DEF HistoryOK
<1>2. \A r \in MessageRec : /\ [r EXCEPT !.status = "bounced"].mail = r.mail
                            /\ [r EXCEPT !.status = "bounced"].kind = r.kind
                            /\ [r EXCEPT !.status = "bounced"].status = "bounced"
  BY DEF MessageRec
<1>3. history' = [q \in Prospect |-> IF q = p THEN g ELSE history[q]]
  BY DEF HistoryOK, Returned
<1> HIDE DEF b
<1>4. /\ DOMAIN g = DOMAIN h
      /\ \A j \in DOMAIN h : g[j] = IF b(j) THEN [h[j] EXCEPT !.status = "bounced"] ELSE h[j]
  OBVIOUS
<1> HIDE DEF g
<1>5. AlikeIn(h, g)
  BY <1>1, <1>2, <1>4 DEF AlikeIn
<1> QED
  BY <1>3, <1>5 DEF Words, Alike, AlikeIn

LEMMA WriteWords ==
  ASSUME NEW p \in Prospect, NEW kind \in {"cold", "answer", "reply"},
         NEW st \in {"draft", "queued", "sent", "bounced", "replied"}, NEW mail \in Nat,
         Write(p, kind, st, mail),
         kind = "cold" => mail = 0 /\ \E a \in Actor : /\ tx[a].op = "outreach" /\ tx[a].on = p
                                                       /\ tx'[a].op = "idle",
         mail # 0 => /\ kind = "reply"
                     /\ \E a \in Actor : /\ tx[a].op = "fetch" /\ tx[a].n = mail
                                         /\ tx[a].saw # "known" /\ tx'[a].op = "mark"
                                         /\ reader'[a].touched = reader[a].touched \cup {p}
  PROVE  Words
<1> DEFINE r == [kind |-> kind, status |-> st, mail |-> mail]
<1>1. r \in MessageRec /\ r.kind = kind /\ r.mail = mail
  BY DEF MessageRec
<1>2. Says(p, r)
  BY DEF Write, Says
<1> HIDE DEF r
<1>3. Speaks(p, r)
  BY <1>1 DEF Speaks
<1> QED
  BY <1>1, <1>2, <1>3 DEF Words

LEMMA FunnelWords ==
  ASSUME HistoryOK, WorkOK, FunnelNext
  PROVE  Words
<1>1. CASE \E a \in Actor, p \in Prospect : People(a, p)
  <2>1. PICK a \in Actor, p \in Prospect : People(a, p)
    BY <1>1
  <2>2. CASE \/ Score(a, p) \/ BookMeeting(a, p) \/ Unsubscribe(a, p) \/ OptOutByHand(a, p)
             \/ (\E agent \in {"outreach", "conversation"} : AskForRun(a, agent, p))
             \/ InboundBegin(a, p)
    BY <2>2, SameWords DEF Score, BookMeeting, Unsubscribe, OptOutByHand, AskForRun, InboundBegin,
                           Reads, prospectVars
  <2>3. CASE \E i \in DOMAIN history[p] : Approve(a, p, i)
    BY <2>3, OneMarkedWords, ZenonT(60) DEF Approve
  <2>4. CASE WriteReply(a, p)
    BY <2>4, WriteWords DEF WriteReply
  <2>5. CASE InboundCommit(a, p)
    BY <2>5, WriteWords DEF InboundCommit
  <2> QED
    BY <2>1, <2>2, <2>3, <2>4, <2>5 DEF People
<1>2. CASE \E a \in Actor, p \in Prospect : Sending(a, p)
  BY <1>2, SameWords, OneMarkedWords DEF Sending, SendCheck, SendCommit, Reads, prospectVars
<1>3. CASE \E a \in Actor, p \in Prospect : Agents(a, p)
  <2>1. PICK a \in Actor, p \in Prospect : Agents(a, p)
    BY <1>3
  <2>2. CASE OutreachLoad(a, p) \/ ConverseLoad(a, p) \/ QualifyLoad(a, p)
             \/ \E outcome \in Outcome : QualifyPersist(a, p, outcome)
    BY <2>2, SameWords DEF OutreachLoad, ConverseLoad, QualifyLoad, QualifyPersist, Reads,
                           prospectVars
  <2>3. CASE OutreachPersist(a, p)
    <3>1. tx[a].op = "outreach" /\ tx[a].on = p /\ tx'[a].op = "idle"
      BY <2>3, CloseType DEF OutreachPersist, Writes
    <3> QED
      BY <2>3, <3>1, WriteWords DEF OutreachPersist
  <2>4. CASE ConversePersist(a, p) \/ ConverseOptOut(a, p)
    BY <2>4, WriteWords DEF ConversePersist, ConverseOptOut
  <2> QED
    BY <2>1, <2>2, <2>3, <2>4 DEF Agents
<1>4. CASE (\E a \in Actor : AgentGivesUp(a)) \/ \E j \in jobs : JobDies(j)
  BY <1>4, SameWords DEF AgentGivesUp, JobDies, prospectVars
<1> QED
  BY <1>1, <1>2, <1>3, <1>4 DEF FunnelNext

LEMMA InboxWords ==
  ASSUME RestOK, KeptInv, InboxNext
  PROVE  Words
<1>1. ASSUME NEW a \in Actor, Reading(a), tx[a].n # 0
      PROVE  tx[a].on \in Prospect /\ tx[a].n \in Nat
  BY <1>1, InboxAssumption DEF Reading, KeptInv, Hands, Mail
<1>2. CASE \E a \in Actor : ReplyCommit(a)
  <2>1. PICK a \in Actor : ReplyCommit(a)
    BY <1>2
  <2>2. tx[a].op = "fetch" /\ tx[a].n # 0 /\ tx[a].saw # "known"
    BY <2>1 DEF ReplyCommit, InHand, Reading
  <2>3. tx'[a].op = "mark"
    BY <2>1 DEF ReplyCommit, Processed, Hold, RestOK, WorkOK, TxRec
  <2>4. reader'[a].touched = reader[a].touched \cup {tx[a].on}
    BY <2>1 DEF ReplyCommit, Processed, RestOK, BoxOK
  <2> QED
    BY <2>1, <2>2, <2>3, <2>4, <1>1, WriteWords DEF ReplyCommit, Reading
<1>3. CASE \E a \in Actor : SoftBounceCommit(a) \/ HardBounceCommit(a)
  BY <1>1, <1>3, ReturnedWords DEF SoftBounceCommit, HardBounceCommit, InHand, KeptInv
<1>4. CASE \/ \E m \in Mail : Deliver(m)
           \/ \E a \in Actor : \/ FetchBegin(a) \/ MailCheck(a) \/ AlreadyKnown(a) \/ MailDefect(a)
                               \/ MarkSeen(a) \/ FetchEnd(a) \/ FetchBreaks(a)
  BY <1>4, SameWords DEF Deliver, shared, FetchBegin, MailCheck, AlreadyKnown, MailDefect, MarkSeen,
                         FetchEnd, FetchBreaks, prospectVars
<1> QED
  BY <1>2, <1>3, <1>4 DEF InboxNext

LEMMA CadenceWords ==
  ASSUME CadencesNext
  PROVE  Words
<1>1. UNCHANGED history
  BY DEF CadencesNext, Steady, prospectVars, Day, EnrollBegin, EnrollSkip, EnrollInsert,
         EnrollWakes, EnrollFails, EnrollCommit, TickBegin, TickOne, TickCommit, TickFails,
         StopEnrollment, UpdateSequence, PauseCampaign, DeleteCheck, DeleteCommit
<1> QED
  BY <1>1, SameWords

LEMMA TurnsNext ==
  ASSUME RestOK, KeptInv, [Next]_vars
  PROVE  Turns /\ Words /\ UNCHANGED scenario
<1>1. CASE UNCHANGED vars
  BY <1>1, SameWords DEF vars, shared, prospectVars, Turns
<1>2. CASE FunnelNext
  <2>1. UNCHANGED scenario
    <3>1. CASE \E a \in Actor, p \in Prospect : People(a, p) \/ Sending(a, p)
      <4>1. PICK a \in Actor, p \in Prospect : People(a, p) \/ Sending(a, p)
        BY <3>1
      <4>2. CASE \/ Score(a, p) \/ BookMeeting(a, p) \/ Unsubscribe(a, p) \/ OptOutByHand(a, p)
                 \/ WriteReply(a, p) \/ (\E i \in DOMAIN history[p] : Approve(a, p, i))
        BY <4>2 DEF Score, BookMeeting, Unsubscribe, OptOutByHand, WriteReply, Approve, AtOnce, Here
      <4>3. CASE \/ InboundBegin(a, p) \/ InboundCommit(a, p) \/ SendCommit(a, p)
                 \/ \E i \in DOMAIN history[p] : SendCheck(a, p, i)
        BY <4>3 DEF InboundBegin, InboundCommit, SendCommit, SendCheck, Reads, Writes, Here
      <4>4. CASE \E agent \in {"outreach", "conversation"} : AskForRun(a, agent, p)
        BY <4>4 DEF AskForRun, Here
      <4> QED
        BY <4>1, <4>2, <4>3, <4>4 DEF People, Sending
    <3>2. CASE \E a \in Actor, p \in Prospect : Agents(a, p)
      BY <3>2, ZenonT(60) DEF Agents, OutreachLoad, OutreachPersist, ConverseLoad, ConversePersist,
                  ConverseOptOut, QualifyLoad, QualifyPersist, Reads, Writes, Here
    <3>3. CASE (\E a \in Actor : AgentGivesUp(a)) \/ \E j \in jobs : JobDies(j)
      BY <3>3 DEF AgentGivesUp, JobDies, Here
    <3> QED
      BY <1>2, <3>1, <3>2, <3>3 DEF FunnelNext
  <2> QED
    BY <1>2, <2>1, FunnelTurns, FunnelWords DEF RestOK, KeptInv
<1>3. CASE InboxNext
  <2>1. UNCHANGED scenario
    BY <1>3 DEF InboxNext, Deliver, shared, FetchBegin, MailCheck, ReplyCommit, SoftBounceCommit,
                HardBounceCommit, AlreadyKnown, MailDefect, MarkSeen, FetchEnd, FetchBreaks,
                Processed, Quiet
  <2> QED
    BY <1>3, <2>1, InboxTurns, InboxWords
<1>4. CASE CadencesNext
  <2>1. UNCHANGED scenario
    BY <1>4 DEF CadencesNext, Steady, Day, EnrollBegin, EnrollSkip, EnrollInsert,
                EnrollWakes, EnrollFails, EnrollCommit, TickBegin, TickOne, TickCommit, TickFails,
                StopEnrollment, UpdateSequence, PauseCampaign, DeleteCheck, DeleteCommit
  <2> QED
    BY <1>4, <2>1, CadenceTurns, CadenceWords DEF RestOK
<1> QED
  BY <1>1, <1>2, <1>3, <1>4 DEF Next

\* A session in flight does what it may do.
Allowed == \A a \in Actor :
  /\ tx[a].op \notin {"idle", "mark"} => May(a, tx[a].op)
  /\ tx[a].op = "mark" => May(a, "fetch")

LEMMA AllowedNext ==
  ASSUME Allowed, Turns, UNCHANGED scenario
  PROVE  Allowed'
<1>1. \A a : \A op : May(a, op)' = May(a, op)
  <2>1. scenario' = scenario
    OBVIOUS
  <2> QED
    BY <2>1 DEF May
<1>2. CASE UNCHANGED tx
  BY <1>1, <1>2 DEF Allowed
<1>3. CASE \E a \in Actor : Turn(a)
  <2>1. PICK a \in Actor : Turn(a)
    BY <1>3
  <2>2. tx'[a].op \notin {"idle", "mark"} => May(a, tx'[a].op)
    BY <2>1 DEF Turn, Begins, ReadsOn, GoesOnWithRows, Ends, Allowed
  <2>3. tx'[a].op = "mark" => May(a, "fetch")
    BY <2>1 DEF Turn, Begins, ReadsOn, GoesOnWithRows, Ends, Allowed
  <2> QED
    BY <1>1, <2>1, <2>2, <2>3 DEF Turn, Allowed
<1> QED
  BY <1>2, <1>3 DEF Turns

-----------------------------------------------------------------------------
(***************************************************************************)
(* Whose row is whose.  The locks of a transaction keep what it has        *)
(* decided on: no row that a tick holds is deleted, and no row that is     *)
(* inserted and not committed is inserted again.                           *)
(***************************************************************************)

OnlyTickers == \A a \in Actor : tx[a].op # "tick" => round[a] = NoRound

DueThere == Exists => \A a \in Actor : \A d \in round[a].due : row[d.e].status # "absent"

NewHeld == \A a \in Actor : \A r \in list[a].new :
  r.e \in tx[a].rows /\ row[r.e].status = "absent"

NewApart == \A a, b \in Actor : \A r \in list[a].new, s \in list[b].new : r.e = s.e => a = b

\* A row that has had its touch today is in use, and not due again.
TouchedAreOut == \A e \in Enrollment : touches[e] # 0 => row[e].status # "absent" /\ e \notin Due

RowsInv == RowsNamed /\ PlansHeld /\ OnlyTickers /\ DueThere /\ NewHeld /\ NewApart /\ TouchedAreOut

RowsStay == \A e \in Enrollment :
  /\ row'[e].status = "absent" <=> row[e].status = "absent"
  /\ row'[e].on = row[e].on

NoneDue == \A e \in Enrollment :
  row'[e].status = "active" /\ row'[e].next = "now" => row[e].status = "active" /\ row[e].next = "now"

LEMMA RowsFrame ==
  ASSUME RestOK, RowsInv, RowsStay, Exists' => Exists, OnlyTickers', TouchedAreOut',
         \A a \in Actor :
           /\ list'[a].new \subseteq list[a].new
           /\ round'[a].due \subseteq round[a].due /\ round'[a].plan \subseteq round[a].plan
           /\ \/ tx[a].rows \subseteq tx'[a].rows
              \/ list'[a].new = {} /\ round'[a].plan = {}
  PROVE  RowsInv'
<1>1. \A a \in Actor : /\ \A r \in list[a].new : r.e \in Enrollment
                       /\ \A d \in round[a].due \cup round[a].plan : d.e \in Enrollment
  BY DEF RestOK, CadenceOK, ListRec, RoundRec, DueRec, PlanRec
<1>2. RowsNamed'
  BY DEF RowsInv, RowsNamed, RowsStay
<1>3. PlansHeld'
  BY <1>1 DEF RowsInv, PlansHeld, RowsStay
<1>4. DueThere'
  BY <1>1 DEF RowsInv, DueThere, RowsStay
<1>5. NewHeld'
  BY <1>1 DEF RowsInv, NewHeld, RowsStay
<1>6. NewApart'
  BY DEF RowsInv, NewApart
<1> QED
  BY <1>2, <1>3, <1>4, <1>5, <1>6 DEF RowsInv

LEMMA TouchedStay ==
  ASSUME RowsInv, RowsStay, NoneDue, UNCHANGED touches
  PROVE  TouchedAreOut'
BY DEF RowsInv, TouchedAreOut, RowsStay, NoneDue, Due

\* Only sessions that have no list and no plan move.
LEMMA RowsAway ==
  ASSUME RestOK, RowsInv, OneInv, RowsStay, NoneDue, Turns, UNCHANGED <<list, round, touches>>,
         Exists' => Exists,
         \A a \in Actor : tx[a].op \in {"enroll", "tick"} => tx'[a].op # "idle"
  PROVE  RowsInv'
<1>1. \A a \in Actor : tx[a].op = "tick" => tx'[a].op = "tick"
  BY DEF Turns, Turn, Begins, ReadsOn, GoesOnWithRows, Ends
<1>2. \A a \in Actor : \/ tx[a].rows \subseteq tx'[a].rows
                       \/ list[a].new = {} /\ round[a].plan = {}
  <2> SUFFICES ASSUME NEW a \in Actor
               PROVE  \/ tx[a].rows \subseteq tx'[a].rows
                      \/ list[a].new = {} /\ round[a].plan = {}
    OBVIOUS
  <2>1. CASE tx[a].op \notin {"enroll", "tick"}
    <3>1. list[a] = NoList /\ round[a] = NoRound
      BY <2>1 DEF OneInv, OnlyEnrollers, RowsInv, OnlyTickers
    <3>2. NoList.new = {} /\ NoRound.plan = {}
      BY DEF NoList, NoRound
    <3> QED
      BY <3>1, <3>2
  <2>2. CASE tx[a].op \in {"enroll", "tick"}
    BY <2>2 DEF Turns, Turn, Begins, ReadsOn, GoesOnWithRows, Ends
  <2> QED
    BY <2>1, <2>2
<1>3. OnlyTickers'
  BY <1>1 DEF RowsInv, OnlyTickers
<1>4. TouchedAreOut'
  BY TouchedStay
<1> QED
  BY <1>2, <1>3, <1>4, RowsFrame

\* The funnel and the inbox leave the sessions of the cadences alone.
Apart == \A a \in Actor : tx[a].op \in {"enroll", "tick"} => tx'[a] = tx[a]

LEMMA HoldApart ==
  ASSUME WorkOK, NEW a \in Actor, tx[a].op \notin {"enroll", "tick"}, NEW t, Hold(a, t)
  PROVE  Apart
BY DEF WorkOK, Hold, Apart

LEMMA FunnelApart ==
  ASSUME WorkOK, FunnelNext
  PROVE  Apart
<1>1. CASE \E a \in Actor, p \in Prospect : People(a, p)
  <2>1. PICK a \in Actor, p \in Prospect : People(a, p)
    BY <1>1
  <2>2. CASE \/ Score(a, p) \/ BookMeeting(a, p) \/ Unsubscribe(a, p) \/ OptOutByHand(a, p)
             \/ WriteReply(a, p) \/ (\E i \in DOMAIN history[p] : Approve(a, p, i))
             \/ (\E agent \in {"outreach", "conversation"} : AskForRun(a, agent, p))
    BY <2>2 DEF Score, BookMeeting, Unsubscribe, OptOutByHand, WriteReply, Approve, AskForRun,
                AtOnce, Apart
  <2>3. CASE InboundBegin(a, p)
    BY <2>3, HoldApart DEF InboundBegin, Reads, Starts, Idling
  <2>4. CASE InboundCommit(a, p)
    BY <2>4, HoldApart DEF InboundCommit, Writes, Close
  <2> QED
    BY <2>1, <2>2, <2>3, <2>4 DEF People
<1>2. CASE \E a \in Actor, p \in Prospect : Sending(a, p)
  BY <1>2, HoldApart DEF Sending, SendCheck, SendCommit, Reads, Writes, Starts, Idling, Close
<1>3. CASE \E a \in Actor, p \in Prospect : Agents(a, p)
  <2>1. PICK a \in Actor, p \in Prospect : Agents(a, p)
    BY <1>3
  <2>2. CASE OutreachLoad(a, p) \/ ConverseLoad(a, p) \/ QualifyLoad(a, p)
    BY <2>2, HoldApart DEF OutreachLoad, ConverseLoad, QualifyLoad, Reads, Starts, Idling
  <2>3. CASE \/ OutreachPersist(a, p) \/ ConversePersist(a, p) \/ ConverseOptOut(a, p)
             \/ \E outcome \in Outcome : QualifyPersist(a, p, outcome)
    BY <2>3, HoldApart
       DEF OutreachPersist, ConversePersist, ConverseOptOut, QualifyPersist, Writes, Close
  <2> QED
    BY <2>1, <2>2, <2>3 DEF Agents
<1>4. CASE \E a \in Actor : AgentGivesUp(a)
  BY <1>4, HoldApart DEF AgentGivesUp, Close
<1>5. CASE \E j \in jobs : JobDies(j)
  BY <1>5 DEF JobDies, Apart
<1> QED
  BY <1>1, <1>2, <1>3, <1>4, <1>5 DEF FunnelNext

LEMMA InboxApart ==
  ASSUME WorkOK, InboxNext
  PROVE  Apart
<1>1. CASE \E m \in Mail : Deliver(m)
  BY <1>1 DEF Deliver, shared, Apart
<1>2. CASE \E a \in Actor : FetchBegin(a)
  BY <1>2, HoldApart DEF FetchBegin, Starts, Idling
<1>3. CASE \E a \in Actor : MailCheck(a)
  <2>1. PICK a \in Actor : MailCheck(a)
    BY <1>3
  <2>2. tx[a].op = "fetch" /\ \E t : Hold(a, t)
    BY <2>1 DEF MailCheck, Reading
  <2> QED
    BY <2>2, HoldApart
<1>4. CASE \E a \in Actor : \/ ReplyCommit(a) \/ SoftBounceCommit(a) \/ HardBounceCommit(a)
                            \/ AlreadyKnown(a) \/ MailDefect(a)
  BY <1>4, HoldApart DEF ReplyCommit, SoftBounceCommit, HardBounceCommit, AlreadyKnown, MailDefect,
                         Reading, InHand, Processed, Onwards
<1>5. CASE \E a \in Actor : MarkSeen(a) \/ FetchEnd(a) \/ FetchBreaks(a)
  BY <1>5, HoldApart DEF MarkSeen, FetchEnd, FetchBreaks, MayMark, Reading, Onwards, Close
<1> QED
  BY <1>1, <1>2, <1>3, <1>4, <1>5 DEF InboxNext

LEMMA OthersKeepRows ==
  ASSUME SalesInv, RowsInv, UNCHANGED cadenceVars, FunnelNext \/ InboxNext
  PROVE  RowsInv'
<1>1. RestOK /\ KeptInv /\ OneInv /\ Turns /\ Apart
  BY TurnsNext, FunnelApart, InboxApart, FunnelTurns, InboxTurns DEF SalesInv, RestOK
<1>2. RowsStay /\ NoneDue
  <2>1. CASE UNCHANGED row
    BY <2>1 DEF RowsStay, NoneDue
  <2>2. CASE \E a \in Actor : HardBounceCommit(a)
    <3>1. PICK stopped : row' = [e \in Enrollment |->
            IF e \in stopped THEN [row[e] EXCEPT !.status = "stopped", !.next = "never"]
            ELSE row[e]] /\ \A e \in Enrollment \cap stopped : row[e].status = "active"
      <4>1. PICK a \in Actor : HardBounceCommit(a)
        BY <2>2
      <4> DEFINE stopped == UNION {Active(p) : p \in Family(ContactOf[tx[a].on])}
      <4>2. \A e \in stopped : row[e].status = "active"
        BY DEF Active
      <4>3. row' = [e \in Enrollment |->
            IF e \in stopped THEN [row[e] EXCEPT !.status = "stopped", !.next = "never"]
            ELSE row[e]]
        BY <4>1 DEF HardBounceCommit
      <4> HIDE DEF stopped
      <4> QED
        BY <4>2, <4>3
    <3>2. \A e \in Enrollment : row[e] \in RowRec
      BY <1>1 DEF RestOK, RowOK
    <3>3. \A r \in RowRec :
            /\ [r EXCEPT !.status = "stopped", !.next = "never"].status = "stopped"
            /\ [r EXCEPT !.status = "stopped", !.next = "never"].on = r.on
      BY DEF RowRec
    <3> QED
      BY <3>1, <3>2, <3>3 DEF RowsStay, NoneDue
  <2>3. UNCHANGED row \/ \E a \in Actor : HardBounceCommit(a)
    <3>1. CASE FunnelNext
      BY <1>1, <3>1, FunnelIsCalm, Zenon
    <3>2. CASE InboxNext
      <4>1. CASE \E m \in Mail : Deliver(m)
        BY <4>1 DEF Deliver, shared
      <4>2. CASE \E a \in Actor : \/ FetchBegin(a) \/ MailCheck(a) \/ ReplyCommit(a)
                                  \/ SoftBounceCommit(a)
        BY <4>2 DEF FetchBegin, MailCheck, ReplyCommit, SoftBounceCommit
      <4>3. CASE \E a \in Actor : \/ AlreadyKnown(a) \/ MailDefect(a) \/ MarkSeen(a)
                                  \/ FetchEnd(a) \/ FetchBreaks(a)
        BY <4>3 DEF AlreadyKnown, MailDefect, MarkSeen, FetchEnd, FetchBreaks
      <4> QED
        BY <3>2, <4>1, <4>2, <4>3 DEF InboxNext
    <3> QED
      BY <3>1, <3>2
  <2> QED
    BY <2>1, <2>2, <2>3
<1>3. \A a \in Actor : tx[a].op \in {"enroll", "tick"} => tx'[a].op # "idle"
  BY <1>1 DEF Apart
<1>4. UNCHANGED <<list, round, touches>> /\ (Exists' => Exists)
  BY DEF cadenceVars, Exists
<1> QED
  BY <1>1, <1>2, <1>3, <1>4, RowsAway

\* No row is inserted and no decision taken: lists and rounds shrink, or end.
LEMMA RowsStep ==
  ASSUME RestOK, RowsInv, OneInv, Turns, RowsStay, Exists' => Exists, TouchedAreOut',
         \A a \in Actor :
           /\ list'[a].new \subseteq list[a].new
           /\ round'[a].due \subseteq round[a].due /\ round'[a].plan \subseteq round[a].plan
           /\ tx[a].op # "tick" => round'[a] = round[a]
           /\ tx[a].op \in {"enroll", "tick"} /\ tx'[a].op = "idle" =>
                list'[a] = NoList /\ round'[a] = NoRound
  PROVE  RowsInv'
<1>1. NoList.new = {} /\ NoRound.plan = {}
  BY DEF NoList, NoRound
<1>2. ASSUME NEW a \in Actor
      PROVE  \/ tx[a].rows \subseteq tx'[a].rows
             \/ list'[a].new = {} /\ round'[a].plan = {}
  <2>1. CASE tx[a].op \notin {"enroll", "tick"}
    BY <1>1, <2>1 DEF OneInv, OnlyEnrollers, RowsInv, OnlyTickers
  <2>2. CASE tx[a].op \in {"enroll", "tick"}
    BY <1>1, <2>2 DEF Turns, Turn, Begins, ReadsOn, GoesOnWithRows, Ends
  <2> QED
    BY <2>1, <2>2
<1>3. OnlyTickers'
  BY DEF RowsInv, OnlyTickers, Turns, Turn, Begins, ReadsOn, GoesOnWithRows, Ends
<1> QED
  BY <1>2, <1>3, RowsFrame

LEMMA SameRows ==
  ASSUME RowsInv, UNCHANGED row
  PROVE  RowsStay /\ NoneDue /\ (UNCHANGED touches => TouchedAreOut')
BY TouchedStay DEF RowsStay, NoneDue

LEMMA EnrollKeepsRows ==
  ASSUME SalesInv, RowsInv, Turns, NEW a \in Actor,
         \/ (\E l \in Lists : EnrollBegin(a, l)) \/ EnrollSkip(a) \/ EnrollFails(a)
         \/ (EnrollInsert(a) /\ list' = [list EXCEPT ![a].waits = TRUE] /\ UNCHANGED tx)
  PROVE  RowsInv'
<1>1. UNCHANGED <<row, round, touches, sequence>>
  BY DEF EnrollBegin, EnrollSkip, EnrollInsert, EnrollFails, EnrollVars
<1>2. list \in [Actor -> ListRec]
  BY DEF SalesInv, RestOK, CadenceOK
<1>3. CASE EnrollFails(a)
  <2>1. /\ list' = [list EXCEPT ![a] = NoList] /\ tx[a].op = "enroll"
        /\ \A b \in Actor \ {a} : tx'[b] = tx[b]
    BY <1>3, CloseType DEF EnrollFails, SalesInv, RestOK
  <2>2. /\ \A b \in Actor : list'[b] = IF b = a THEN NoList ELSE list[b]
        /\ NoList.new = {} /\ round[a] = NoRound
    BY <1>2, <2>1 DEF NoList, RowsInv, OnlyTickers
  <2>3. \A b \in Actor : tx[b].op \in {"enroll", "tick"} /\ tx'[b].op = "idle" => b = a
    BY <2>1
  <2> QED
    BY <1>1, <2>2, <2>3, SameRows, RowsStep DEF SalesInv, Exists
<1>4. CASE ~EnrollFails(a)
  <2>1. \A b \in Actor : list'[b].new = list[b].new
    <3>1. \/ \E l : list' = [list EXCEPT ![a].fila = l]
          \/ list' = [list EXCEPT ![a].waits = TRUE]
      BY <1>4 DEF EnrollBegin, EnrollSkip
    <3> QED
      BY <1>2, <3>1, ZenonT(60) DEF ListRec
  <2>2. \A b \in Actor : tx[b].op \in {"enroll", "tick"} => tx'[b].op # "idle"
    <3>1. CASE UNCHANGED tx
      BY <3>1
    <3>2. CASE \E l \in Lists : EnrollBegin(a, l)
      <4>1. Hold(a, [Idle EXCEPT !.op = "enroll"]) /\ WorkOK
        BY <3>2 DEF EnrollBegin, SalesInv, RestOK
      <4>2. tx'[a].op = "enroll" /\ \A b \in Actor \ {a} : tx'[b] = tx[b]
        BY <4>1, HoldType, IdleHold, ZenonT(60)
      <4> QED
        BY <4>2
    <3> QED
      BY <1>4, <3>1, <3>2 DEF EnrollSkip
  <2> QED
    BY <1>1, <2>1, <2>2, SameRows, RowsStep DEF SalesInv, Exists
<1> QED
  BY <1>3, <1>4

LEMMA InsertKeepsRows ==
  ASSUME SalesInv, RowsInv, NEW a \in Actor, NEW p, Insert(a, p), tx[a].op = "enroll",
         UNCHANGED <<row, round, touches, sequence>>
  PROVE  RowsInv'
<1>1. PICK e \in Unused :
        /\ Hold(a, [Idle EXCEPT !.op = "enroll", !.rows = tx[a].rows \cup {e}])
        /\ list' = [list EXCEPT ![a] = [fila |-> Tail(@.fila), waits |-> FALSE,
                                        new |-> @.new \cup {[e |-> e, on |-> p]}]]
  BY DEF Insert
<1> DEFINE t == [Idle EXCEPT !.op = "enroll", !.rows = tx[a].rows \cup {e}]
           r == [e |-> e, on |-> p]
<1>2. t.op = "enroll" /\ t.rows = tx[a].rows \cup {e}
  BY DEF Idle
<1>3. \A b \in Actor : tx'[b] = IF b = a THEN t ELSE tx[b]
  BY <1>1 DEF Hold, SalesInv, RestOK, WorkOK
<1> HIDE DEF t
<1>4. r.e = e
  OBVIOUS
<1>5. \A b \in Actor : list'[b].new = IF b = a THEN list[a].new \cup {r} ELSE list[b].new
  BY <1>1 DEF SalesInv, RestOK, CadenceOK
<1> HIDE DEF r
<1>6. row[e].status = "absent" /\ \A b \in Actor : e \notin tx[b].rows
  BY <1>1 DEF Unused, Locked
<1>7. NewHeld'
  BY <1>2, <1>3, <1>4, <1>5, <1>6 DEF RowsInv, NewHeld
<1>8. NewApart'
  BY <1>4, <1>5, <1>6 DEF RowsInv, NewHeld, NewApart
<1>9. PlansHeld' /\ OnlyTickers'
  BY <1>2, <1>3 DEF RowsInv, PlansHeld, OnlyTickers
<1>10. RowsNamed' /\ DueThere' /\ TouchedAreOut'
  BY SameRows DEF RowsInv, RowsNamed, DueThere, Exists
<1> QED
  BY <1>7, <1>8, <1>9, <1>10 DEF RowsInv

LEMMA EnrollCommitKeepsRows ==
  ASSUME SalesInv, RowsInv, NEW a \in Actor, EnrollCommit(a)
  PROVE  RowsInv'
<1> DEFINE new == list[a].new
           on(e) == (CHOOSE r \in new : r.e = e).on
<1>1. row' = [e \in Enrollment |->
                IF \E r \in new : r.e = e
                THEN [on |-> on(e), status |-> "active", step |-> 0, next |-> "now"] ELSE row[e]]
  BY DEF EnrollCommit
<1>2. \A r \in new : r.on \in Prospect
  BY DEF SalesInv, RestOK, CadenceOK, ListRec
<1>3. \A e \in Enrollment : (\E r \in new : r.e = e) => on(e) \in Prospect
  BY <1>2
<1>4. /\ tx[a].op = "enroll" /\ list' = [list EXCEPT ![a] = NoList] /\ Close(a)
      /\ UNCHANGED <<round, touches, sequence>>
  BY DEF EnrollCommit
<1>5. \A b \in Actor : list'[b].new = IF b = a THEN {} ELSE list[b].new
  BY <1>4 DEF SalesInv, RestOK, CadenceOK, NoList
<1>6. tx'[a].op = "idle" /\ \A b \in Actor \ {a} : tx'[b] = tx[b]
  BY <1>4, CloseType DEF SalesInv, RestOK
<1>7. \A r \in new : row[r.e].status = "absent"
  BY DEF RowsInv, NewHeld
<1>8. \A b \in Actor : /\ \A r \in list[b].new : r.e \in Enrollment
                       /\ \A d \in round[b].due \cup round[b].plan : d.e \in Enrollment
  BY DEF SalesInv, RestOK, CadenceOK, ListRec, RoundRec, DueRec, PlanRec
<1>9. \A b \in Actor \ {a} : \A s \in list[b].new : ~ \E r \in new : r.e = s.e
  BY DEF RowsInv, NewApart
<1> HIDE DEF new, on
<1>10. \A e \in Enrollment :
         \/ /\ \E r \in new : r.e = e
            /\ row'[e].status = "active" /\ row'[e].on \in Prospect /\ row[e].status = "absent"
         \/ row'[e] = row[e] /\ ~ \E r \in new : r.e = e
  BY <1>1, <1>3, <1>7
<1>11. RowsNamed'
  BY <1>10 DEF RowsInv, RowsNamed
<1>12. round[a] = NoRound /\ NoRound.plan = {}
  BY <1>4 DEF RowsInv, OnlyTickers, NoRound
<1>13. PlansHeld' /\ OnlyTickers'
  BY <1>4, <1>6, <1>8, <1>10, <1>12 DEF RowsInv, PlansHeld, OnlyTickers
<1>14. DueThere'
  BY <1>4, <1>8, <1>10 DEF RowsInv, DueThere, Exists
<1>15. NewHeld' /\ NewApart'
  BY <1>5, <1>6, <1>8, <1>9, <1>10 DEF RowsInv, NewHeld, NewApart
<1>16. TouchedAreOut'
  BY <1>4, <1>10 DEF RowsInv, TouchedAreOut, Due
<1> QED
  BY <1>11, <1>13, <1>14, <1>15, <1>16 DEF RowsInv

LEMMA TickBeginKeepsRows ==
  ASSUME SalesInv, RowsInv, NEW a \in Actor, TickBegin(a)
  PROVE  RowsInv'
<1> DEFINE due == {[e |-> e, step |-> row[e].step] : e \in Due}
<1>1. \A d \in due : row[d.e].status # "absent"
  BY DEF Due
<1>2. round' = [round EXCEPT ![a].due = due]
  BY DEF TickBegin
<1> HIDE DEF due
<1>3. \A b \in Actor : /\ round'[b].plan = round[b].plan
                       /\ round'[b].due = IF b = a THEN due ELSE round[b].due
                       /\ b # a => round'[b] = round[b]
  BY <1>2 DEF SalesInv, RestOK, CadenceOK, RoundRec
<1>4. UNCHANGED <<row, sequence, list, touches>> /\ tx[a].op = "idle"
  BY DEF TickBegin, TickVars, Starts, Idling
<1>5. tx'[a].op = "tick" /\ \A b \in Actor \ {a} : tx'[b] = tx[b]
  BY HoldType, IdleHold, ZenonT(60) DEF TickBegin, SalesInv, RestOK
<1>6. list[a].new = {} /\ round[a].plan = {}
  BY <1>4 DEF SalesInv, OneInv, OnlyEnrollers, RowsInv, OnlyTickers, NoList, NoRound
<1>7. PlansHeld' /\ NewHeld' /\ NewApart' /\ OnlyTickers'
  BY <1>3, <1>4, <1>5, <1>6 DEF RowsInv, PlansHeld, NewHeld, NewApart, OnlyTickers
<1>8. DueThere'
  BY <1>1, <1>3, <1>4 DEF RowsInv, DueThere, Exists
<1>9. RowsNamed' /\ TouchedAreOut'
  BY <1>4, SameRows DEF RowsInv, RowsNamed
<1> QED
  BY <1>7, <1>8, <1>9 DEF RowsInv

LEMMA TickOneKeepsRows ==
  ASSUME SalesInv, RowsInv, NEW a \in Actor, TickOne(a)
  PROVE  /\ RowsInv'
         /\ \A b \in Actor : \A e : (\E d \in round'[b].due \cup round'[b].plan : d.e = e)
                                   => (\E d \in round[b].due \cup round[b].plan : d.e = e)
<1>1. PICK d \in round[a].due :
       /\ round' = [round EXCEPT ![a] =
            [due |-> @.due \ {d},
             plan |-> @.plan \cup
               {[e |-> d.e, step |-> d.step, act |-> Act(d),
                 last |-> d.step + 1 >= sequence.steps,
                 fresh |-> Free(StepJob(a, d))]}]]
       /\ Hold(a, [tx[a] EXCEPT !.rows = @ \cup {d.e}])
  BY DEF TickOne
<1> DEFINE decided == [e |-> d.e, step |-> d.step, act |-> Act(d),
                       last |-> d.step + 1 >= sequence.steps,
                       fresh |-> Free(StepJob(a, d))]
           r == [due |-> round[a].due \ {d}, plan |-> round[a].plan \cup {decided}]
<1>2. round' = [round EXCEPT ![a] = r]
  <2>1. round' = [round EXCEPT ![a] = [due |-> @.due \ {d}, plan |-> @.plan \cup {decided}]]
    BY <1>1
  <2> HIDE DEF decided
  <2> QED
    BY <2>1 DEF SalesInv, RestOK, CadenceOK
<1>3. decided.e = d.e
  OBVIOUS
<1> HIDE DEF decided
<1>4. \A b \in Actor :
        /\ round'[b].plan = IF b = a THEN round[a].plan \cup {decided} ELSE round[b].plan
        /\ round'[b].due \subseteq round[b].due
        /\ b # a => round'[b] = round[b]
  BY <1>2 DEF SalesInv, RestOK, CadenceOK
<1> HIDE DEF r
<1>5. UNCHANGED <<row, sequence, list, touches>> /\ tx[a].op = "tick" /\ Exists
  BY DEF TickOne, TickVars
<1>6. /\ tx'[a].op = "tick" /\ tx'[a].rows = tx[a].rows \cup {d.e}
      /\ \A b \in Actor \ {a} : tx'[b] = tx[b]
  BY <1>1, <1>5 DEF Hold, SalesInv, RestOK, WorkOK, TxRec
<1>7. row[d.e].status # "absent"
  BY <1>5 DEF RowsInv, DueThere
<1>8. PlansHeld' /\ NewHeld' /\ NewApart' /\ OnlyTickers'
  <2>1. PlansHeld'
    BY <1>3, <1>4, <1>5, <1>6, <1>7 DEF RowsInv, PlansHeld
  <2>2. NewHeld' /\ NewApart'
    BY <1>5, <1>6 DEF RowsInv, NewHeld, NewApart
  <2>3. OnlyTickers'
    BY <1>4, <1>6 DEF RowsInv, OnlyTickers
  <2> QED
    BY <2>1, <2>2, <2>3
<1>9. RowsNamed' /\ TouchedAreOut' /\ DueThere'
  BY <1>4, <1>5, SameRows DEF RowsInv, RowsNamed, DueThere, Exists
<1> QED
  BY <1>3, <1>4, <1>8, <1>9 DEF RowsInv

LEMMA AfterStays ==
  ASSUME RowOK, NEW e \in Enrollment, NEW d \in PlanRec, row[e].status # "absent"
  PROVE  /\ After(row[e], d).status # "absent" /\ After(row[e], d).on = row[e].on
         /\ After(row[e], d).status = "active" /\ After(row[e], d).next = "now" => FALSE
<1>1. row[e] \in RowRec
  BY DEF RowOK
<1>2. After(row[e], d).status # "absent" /\ After(row[e], d).on = row[e].on
  BY RowEdits
<1> DEFINE r == row[e]
<1> HIDE DEF r
<1>3. ASSUME r \in RowRec PROVE After(r, d).next # "now"
  <2>1. d.act \in {"stop", "postpone", "complete", "step"}
    BY DEF PlanRec
  <2>2. CASE d.act = "stop"
    BY <1>3, <2>2 DEF After, RowRec
  <2>3. CASE d.act = "postpone"
    BY <1>3, <2>3 DEF After, RowRec
  <2>4. CASE d.act = "complete"
    BY <1>3, <2>4 DEF After, RowRec
  <2>5. CASE d.act = "step"
    <3>1. CASE d.last
      BY <1>3, <2>5, <3>1 DEF After, AfterStep, RowRec
    <3>2. CASE ~d.last
      BY <1>3, <2>5, <3>2 DEF After, AfterStep, RowRec
    <3> QED
      BY <3>1, <3>2
  <2> QED
    BY <2>1, <2>2, <2>3, <2>4, <2>5
<1> QED
  BY <1>1, <1>2, <1>3 DEF r

LEMMA TickCommitKeepsRows ==
  ASSUME SalesInv, RowsInv, NEW a \in Actor, TickCommit(a), Turns
  PROVE  RowsInv'
<1> DEFINE plan == round[a].plan
           sent == {d \in plan : d.act = "step" /\ d.fresh}
<1>1. /\ row' = [e \in Enrollment |->
            IF \E d \in plan : d.e = e THEN After(row[e], CHOOSE d \in plan : d.e = e) ELSE row[e]]
      /\ touches' = [e \in Enrollment |->
            IF \E d \in sent : d.e = e THEN touches[e] + 1 ELSE touches[e]]
      /\ round' = [round EXCEPT ![a] = NoRound] /\ tx[a].op = "tick" /\ Close(a)
      /\ UNCHANGED <<sequence, list>>
  BY DEF TickCommit
<1>2. plan \subseteq PlanRec /\ sent \subseteq plan /\ \A d \in plan : row[d.e].status # "absent"
  BY DEF SalesInv, RestOK, CadenceOK, RoundRec, RowsInv, PlansHeld
<1> HIDE DEF plan, sent
<1>3. ASSUME NEW e \in Enrollment
      PROVE  \/ /\ \E d \in plan : d.e = e
                /\ row[e].status # "absent" /\ row'[e].status # "absent" /\ row'[e].on = row[e].on
                /\ ~(row'[e].status = "active" /\ row'[e].next = "now")
             \/ row'[e] = row[e] /\ ~ \E d \in sent : d.e = e
  <2>1. CASE \E d \in plan : d.e = e
    <3> DEFINE d == CHOOSE d \in plan : d.e = e
    <3>1. d \in plan /\ d.e = e /\ row'[e] = After(row[e], d)
      BY <1>1, <2>1
    <3> HIDE DEF d
    <3> QED
      BY <1>2, <2>1, <3>1, AfterStays DEF SalesInv, RestOK
  <2>2. CASE ~ \E d \in plan : d.e = e
    BY <1>1, <1>2, <2>2
  <2> QED
    BY <2>1, <2>2
<1>4. RowsStay
  BY <1>3 DEF RowsStay
<1>5. TouchedAreOut'
  BY <1>1, <1>3 DEF RowsInv, TouchedAreOut, Due
<1>6. /\ \A b \in Actor : round'[b] = IF b = a THEN NoRound ELSE round[b]
      /\ NoRound.due = {} /\ NoRound.plan = {}
  BY <1>1 DEF SalesInv, RestOK, CadenceOK, NoRound
<1>7. \A b \in Actor \ {a} : tx'[b] = tx[b]
  BY <1>1, CloseType DEF SalesInv, RestOK
<1>8. list[a] = NoList
  BY <1>1 DEF SalesInv, OneInv, OnlyEnrollers
<1>9. \A b \in Actor :
           /\ list'[b].new \subseteq list[b].new
           /\ round'[b].due \subseteq round[b].due /\ round'[b].plan \subseteq round[b].plan
           /\ tx[b].op # "tick" => round'[b] = round[b]
           /\ tx[b].op \in {"enroll", "tick"} /\ tx'[b].op = "idle" =>
                list'[b] = NoList /\ round'[b] = NoRound
  BY <1>1, <1>6, <1>7, <1>8
<1> QED
  BY <1>1, <1>4, <1>5, <1>9, RowsStep DEF SalesInv, Exists

LEMMA TickFailsKeepsRows ==
  ASSUME SalesInv, RowsInv, NEW a \in Actor, TickFails(a), Turns
  PROVE  RowsInv'
<1>1. /\ round' = [round EXCEPT ![a] = NoRound] /\ tx[a].op = "tick" /\ Close(a)
      /\ UNCHANGED <<row, sequence, list, touches>>
  BY DEF TickFails, TickVars
<1>2. /\ \A b \in Actor : round'[b] = IF b = a THEN NoRound ELSE round[b]
      /\ NoRound.due = {} /\ NoRound.plan = {}
  BY <1>1 DEF SalesInv, RestOK, CadenceOK, NoRound
<1>3. \A b \in Actor \ {a} : tx'[b] = tx[b]
  BY <1>1, CloseType DEF SalesInv, RestOK
<1>4. list[a] = NoList
  BY <1>1 DEF SalesInv, OneInv, OnlyEnrollers
<1>5. \A b \in Actor :
           /\ list'[b].new \subseteq list[b].new
           /\ round'[b].due \subseteq round[b].due /\ round'[b].plan \subseteq round[b].plan
           /\ tx[b].op # "tick" => round'[b] = round[b]
           /\ tx[b].op \in {"enroll", "tick"} /\ tx'[b].op = "idle" =>
                list'[b] = NoList /\ round'[b] = NoRound
  BY <1>1, <1>2, <1>3, <1>4
<1> QED
  BY <1>1, <1>5, SameRows, RowsStep DEF SalesInv, Exists

LEMMA DayKeepsRows ==
  ASSUME SalesInv, RowsInv, Day
  PROVE  RowsInv'
<1>1. row' = [e \in Enrollment |-> IF row[e].next = "later" THEN [row[e] EXCEPT !.next = "now"]
                                   ELSE row[e]]
  BY DEF Day
<1>2. UNCHANGED <<tx, list, round, sequence>> /\ \A e \in Enrollment : touches'[e] = 0
  BY DEF Day
<1>3. \A r \in RowRec : /\ [r EXCEPT !.next = "now"].status = r.status
                        /\ [r EXCEPT !.next = "now"].on = r.on
  BY DEF RowRec
<1>4. RowsStay
  BY <1>1, <1>3 DEF SalesInv, RestOK, RowOK, RowsStay
<1>5. TouchedAreOut' /\ OnlyTickers'
  BY <1>2 DEF TouchedAreOut, RowsInv, OnlyTickers
<1> QED
  BY <1>2, <1>4, <1>5, RowsFrame DEF SalesInv, Exists

LEMMA PlannersKeepRows ==
  ASSUME SalesInv, RowsInv, Turns, NEW a \in Actor,
         \/ \E e \in Enrollment : StopEnrollment(a, e)
         \/ \E n \in 1 .. MaxSteps, active \in BOOLEAN : UpdateSequence(a, n, active)
         \/ PauseCampaign(a) \/ DeleteCheck(a)
  PROVE  RowsInv'
<1>1. UNCHANGED <<list, round, touches>>
  BY DEF StopEnrollment, UpdateSequence, PauseCampaign, DeleteCheck, cadenceVars
<1>2. Exists' => Exists
  BY DEF StopEnrollment, UpdateSequence, PauseCampaign, DeleteCheck, cadenceVars, Exists
<1>3. RowsStay /\ NoneDue
  <2>1. CASE UNCHANGED row
    BY <2>1, SameRows
  <2>2. CASE \E e \in Enrollment : StopEnrollment(a, e)
    <3>1. PICK e \in Enrollment : StopEnrollment(a, e)
      BY <2>2
    <3>2. row' = [row EXCEPT ![e] = [row[e] EXCEPT !.status = "stopped", !.next = "never"]]
          /\ row[e].status = "active"
      BY <3>1 DEF StopEnrollment, SalesInv, RestOK, RowOK
    <3>3. \A r \in RowRec :
            /\ [r EXCEPT !.status = "stopped", !.next = "never"].status = "stopped"
            /\ [r EXCEPT !.status = "stopped", !.next = "never"].on = r.on
      BY DEF RowRec
    <3> QED
      BY <3>2, <3>3 DEF RowsStay, NoneDue, SalesInv, RestOK, RowOK
  <2> QED
    BY <2>1, <2>2 DEF UpdateSequence, PauseCampaign, DeleteCheck
<1>4. \A b \in Actor : tx[b].op \in {"enroll", "tick"} => tx'[b].op # "idle"
  <2>1. CASE UNCHANGED tx
    BY <2>1
  <2>2. CASE DeleteCheck(a)
    <3>1. tx[a].op = "idle" /\ \A b \in Actor \ {a} : tx'[b] = tx[b]
      BY <2>2, HoldType, IdleHold DEF DeleteCheck, Starts, Idling, SalesInv, RestOK
    <3> QED
      BY <3>1
  <2> QED
    BY <2>1, <2>2 DEF StopEnrollment, UpdateSequence, PauseCampaign
<1> QED
  BY <1>1, <1>2, <1>3, <1>4, RowsAway DEF SalesInv

LEMMA DeleteKeepsRows ==
  ASSUME SalesInv, RowsInv, NEW a \in Actor, DeleteCommit(a)
  PROVE  RowsInv'
<1>1. \A b \in Actor : \A e \in Enrollment : e \notin tx[b].rows
  BY DEF DeleteCommit, Locked
<1>2. \A b \in Actor : list[b].new = {} /\ round[b].plan = {}
  <2>1. \A b \in Actor : /\ \A r \in list[b].new : r.e \in Enrollment
                         /\ \A d \in round[b].plan : d.e \in Enrollment
    BY DEF SalesInv, RestOK, CadenceOK, ListRec, RoundRec, PlanRec
  <2> QED
    BY <1>1, <2>1 DEF RowsInv, NewHeld, PlansHeld
<1>3. UNCHANGED <<list, round>> /\ tx[a].op = "delete" /\ ~Exists'
      /\ \A e \in Enrollment : row'[e].status = "absent" /\ touches'[e] = 0
  BY DEF DeleteCommit, NoRow, Exists
<1>4. \A b \in Actor \ {a} : tx'[b] = tx[b]
  BY CloseType DEF DeleteCommit, SalesInv, RestOK
<1>5. OnlyTickers'
  BY <1>3, <1>4 DEF RowsInv, OnlyTickers
<1> QED
  BY <1>2, <1>3, <1>5 DEF RowsInv, RowsNamed, PlansHeld, DueThere, NewHeld, NewApart, TouchedAreOut

LEMMA CadencesKeepRows ==
  ASSUME SalesInv, RowsInv, Turns, CadencesNext
  PROVE  RowsInv'
<1>1. CASE Day
  BY <1>1, DayKeepsRows
<1>2. CASE \E a \in Actor : (\E l \in Lists : EnrollBegin(a, l)) \/ EnrollSkip(a) \/ EnrollFails(a)
  BY <1>2, EnrollKeepsRows
<1>3. CASE \E a \in Actor : EnrollInsert(a) \/ EnrollWakes(a)
  <2>1. PICK a \in Actor : EnrollInsert(a) \/ EnrollWakes(a)
    BY <1>3
  <2>2. tx[a].op = "enroll" /\ UNCHANGED <<row, round, touches, sequence>>
    BY <2>1 DEF EnrollInsert, EnrollWakes, EnrollVars
  <2>3. CASE \E p : Insert(a, p)
    BY <2>2, <2>3, InsertKeepsRows
  <2>4. CASE EnrollInsert(a) /\ list' = [list EXCEPT ![a].waits = TRUE] /\ UNCHANGED tx
    BY <2>4, EnrollKeepsRows
  <2> QED
    BY <2>1, <2>3, <2>4 DEF EnrollInsert, EnrollWakes
<1>4. CASE \E a \in Actor : EnrollCommit(a) \/ TickBegin(a) \/ TickOne(a)
                            \/ TickCommit(a) \/ TickFails(a) \/ DeleteCommit(a)
  BY <1>4, EnrollCommitKeepsRows, TickBeginKeepsRows, TickOneKeepsRows, TickCommitKeepsRows,
     TickFailsKeepsRows, DeleteKeepsRows
<1>5. CASE \E a \in Actor :
              \/ (\E e \in Enrollment : StopEnrollment(a, e))
              \/ (\E n \in 1 .. MaxSteps, active \in BOOLEAN : UpdateSequence(a, n, active))
              \/ PauseCampaign(a) \/ DeleteCheck(a)
  BY <1>5, PlannersKeepRows
<1> QED
  BY <1>1, <1>2, <1>3, <1>4, <1>5 DEF CadencesNext

-----------------------------------------------------------------------------
\* The invariant that the bounds rest on.
Firm == SalesInv /\ RowsInv /\ Allowed

LEMMA FirmInit ==
  Init => Firm
<1> SUFFICES ASSUME Init PROVE Firm
  OBVIOUS
<1>1. OneInv /\ PlanShape /\ KeptInv
  BY OneInitHolds, PlanInit, KeptInitHolds
<1>2. StateOK
  <2>1. PICK st \in {"new", "contacted"} : status = [p \in Prospect |-> st]
    BY DEF Init, ProspectsInit
  <2>2. st \in Status
    BY DEF Status
  <2> QED
    BY <2>1, <2>2 DEF Init, ProspectsInit, StateOK
<1>3. NoRow \in RowRec /\ NoRow.status = "absent" /\ NoRow.next = "never"
  BY DEF NoRow, RowRec
<1>4. RowOK
  BY <1>3 DEF Init, ProspectsInit, RowOK
<1>5. CountOK
  <2>1. scenario \in Scenario /\ requests = 0 /\ faults = 0
    BY DEF Init, ProspectsInit
  <2>2. scenario.requests \in Nat /\ MaxFaults \in Nat
    BY <2>1, ProspectsAssumption
  <2> QED
    BY <2>1, <2>2 DEF CountOK
<1>6. tx = [a \in Actor |-> Idle] /\ jobs = {} /\ WorkOK
  BY IdleType DEF Init, ProspectsInit, WorkOK
<1>7. BoxOK
  BY <1>6, IdleType DEF Init, InboxInit, BoxOK, NoMail
<1>8. NoList \in ListRec /\ ~NoList.waits /\ NoRound \in RoundRec
      /\ NoList.new = {} /\ NoRound.due = {} /\ NoRound.plan = {}
  BY DEF NoList, NoRound, ListRec, RoundRec
<1>9. /\ list = [a \in Actor |-> NoList] /\ round = [a \in Actor |-> NoRound]
      /\ touches = [e \in Enrollment |-> 0] /\ paused = FALSE
      /\ sequence \in [steps : {MaxSteps}, active : {TRUE}]
  BY DEF Init, CadencesInit
<1>10. sequence \in [steps : 0 .. MaxSteps, active : BOOLEAN]
  <2>1. {MaxSteps} \subseteq 0 .. MaxSteps /\ {TRUE} \subseteq BOOLEAN
    BY CadencesAssumption
  <2> QED
    BY <1>9, <2>1
<1>11. CadenceOK
  BY <1>8, <1>9, <1>10 DEF CadenceOK
<1>12. row = [e \in Enrollment |-> NoRow]
  BY DEF Init, ProspectsInit
<1>13. RowsInv
  BY <1>3, <1>8, <1>9, <1>12
     DEF RowsInv, RowsNamed, PlansHeld, OnlyTickers, DueThere, NewHeld, NewApart, TouchedAreOut
<1>14. Allowed
  BY <1>6, IdleType DEF Allowed
<1> QED
  BY <1>1, <1>2, <1>4, <1>5, <1>6, <1>7, <1>11, <1>13, <1>14 DEF Firm, SalesInv, RestOK

LEMMA FirmNext ==
  ASSUME Firm, [Next]_vars
  PROVE  Firm'
<1>1. SalesInv /\ RowsInv /\ RestOK /\ KeptInv /\ OneInv /\ PlanShape
  BY DEF Firm, SalesInv
<1>2. Turns /\ Allowed'
  BY <1>1, TurnsNext, AllowedNext DEF Firm
<1>3. OneInv' /\ PlanShape' /\ KeptInv'
  BY <1>1, OneNext, KeptNext
<1>4. CASE UNCHANGED vars
  <2>1. RestOK'
    BY <1>1, <1>4 DEF vars, shared, prospectVars, boxVars, cadenceVars, RestOK, StateOK, RowOK,
                      CountOK, WorkOK, BoxOK, CadenceOK
  <2>2. UNCHANGED <<row, list, round, touches, sequence, tx>>
    BY <1>4 DEF vars, shared, cadenceVars
  <2>3. RowsInv'
    BY <1>1, <2>2 DEF RowsInv, RowsNamed, PlansHeld, OnlyTickers, DueThere, NewHeld, NewApart,
                      TouchedAreOut, Due, Exists
  <2> QED
    BY <1>2, <1>3, <2>1, <2>3 DEF Firm, SalesInv
<1>5. CASE FunnelNext /\ UNCHANGED <<boxVars, cadenceVars>>
  <2>1. RestOK' /\ RowsInv'
    BY <1>1, <1>5, FunnelTypes, OthersKeepRows DEF cadenceVars
  <2> QED
    BY <1>2, <1>3, <2>1 DEF Firm, SalesInv
<1>6. CASE InboxNext /\ UNCHANGED cadenceVars
  <2>1. RestOK' /\ RowsInv'
    BY <1>1, <1>6, InboxTypes, OthersKeepRows
  <2> QED
    BY <1>2, <1>3, <2>1 DEF Firm, SalesInv
<1>7. CASE CadencesNext /\ UNCHANGED boxVars
  <2>1. RestOK' /\ RowsInv'
    BY <1>1, <1>2, <1>7, CadenceTypes, CadencesKeepRows DEF RowsInv
  <2> QED
    BY <1>2, <1>3, <2>1 DEF Firm, SalesInv
<1> QED
  BY <1>4, <1>5, <1>6, <1>7 DEF Next

\* Whatever people, workers and the mailbox do, the rows stay what the tables of
\* app/db/models/sales.py and engagement.py say they are.
THEOREM SalesTypeCorrect == Spec => []SalesTypeOK
<1>1. Init => Firm
  BY FirmInit
<1>2. Firm /\ [Next]_vars => Firm'
  BY FirmNext
<1>3. Firm => SalesTypeOK
  BY TypesFollow DEF Firm
<1> QED
  BY <1>1, <1>2, <1>3, PTL DEF Spec

-----------------------------------------------------------------------------
(***************************************************************************)
(* Once a thing has been done, who can still do it again are the sessions  *)
(* that looked before: none joins them, and each leaves when it does it.   *)
(***************************************************************************)

LEMMA Balance ==
  ASSUME NEW S, NEW T, NEW S2, NEW T2, NEW D, IsFiniteSet(S), IsFiniteSet(D), T \subseteq D,
         S = {} \/ Cardinality(S) + Cardinality(T) <= Cardinality(D),
         \/ S2 = {}
         \/ S2 \subseteq S /\ T2 \subseteq T
         \/ \E x, t : t \in T /\ S2 \subseteq S \cup {x} /\ T2 \subseteq T \ {t}
  PROVE  S2 = {} \/ Cardinality(S2) + Cardinality(T2) <= Cardinality(D)
<1>1. IsFiniteSet(T) /\ Cardinality(T) <= Cardinality(D)
  BY FS_Subset
<1>2. Cardinality(S) \in Nat /\ Cardinality(T) \in Nat /\ Cardinality(D) \in Nat
  BY <1>1, FS_CardinalityType
<1>3. S = {} => Cardinality(S) = 0
  BY FS_EmptySet
<1>4. Cardinality(S) + Cardinality(T) <= Cardinality(D)
  BY <1>1, <1>2, <1>3
<1>5. CASE S2 \subseteq S /\ T2 \subseteq T
  <2>1. /\ Cardinality(S2) <= Cardinality(S) /\ Cardinality(T2) <= Cardinality(T)
        /\ IsFiniteSet(S2) /\ IsFiniteSet(T2)
    BY <1>1, <1>5, FS_Subset
  <2>2. Cardinality(S2) \in Nat /\ Cardinality(T2) \in Nat
    BY <2>1, FS_CardinalityType
  <2> QED
    BY <1>2, <1>4, <2>1, <2>2
<1>6. CASE \E x, t : t \in T /\ S2 \subseteq S \cup {x} /\ T2 \subseteq T \ {t}
  <2>1. PICK x, t : t \in T /\ S2 \subseteq S \cup {x} /\ T2 \subseteq T \ {t}
    BY <1>6
  <2>2. /\ IsFiniteSet(S \cup {x})
        /\ Cardinality(S \cup {x}) = Cardinality(S) \/ Cardinality(S \cup {x}) = Cardinality(S) + 1
    BY FS_AddElement
  <2>3. IsFiniteSet(T \ {t}) /\ Cardinality(T \ {t}) = Cardinality(T) - 1
    BY <1>1, <2>1, FS_RemoveElement
  <2>4. /\ Cardinality(S2) <= Cardinality(S \cup {x}) /\ Cardinality(T2) <= Cardinality(T \ {t})
        /\ IsFiniteSet(S2) /\ IsFiniteSet(T2)
    BY <2>1, <2>2, <2>3, FS_Subset
  <2>5. Cardinality(S2) \in Nat /\ Cardinality(T2) \in Nat
    BY <2>4, FS_CardinalityType
  <2> QED
    BY <1>2, <1>4, <2>2, <2>3, <2>4, <2>5
<1> QED
  BY <1>5, <1>6

LEMMA PlacesAreFinite ==
  ASSUME NEW n \in Nat, NEW S, S \subseteq 1 .. n
  PROVE  IsFiniteSet(S) /\ Cardinality(S) \in Nat
<1>1. IsFiniteSet(1 .. n) /\ S \in SUBSET (1 .. n)
  BY FS_Interval
<1>2. IsFiniteSet(S)
  BY <1>1, FS_Subset
<1> QED
  BY <1>2, FS_CardinalityType

LEMMA DoingIsFinite ==
  ASSUME NEW op
  PROVE  IsFiniteSet(Doing(op)) /\ Cardinality(Doing(op)) \in Nat
<1>1. Doing(op) \subseteq Actor
  BY DEF Doing
<1> QED
  BY <1>1, ProspectsAssumption, FS_Subset, FS_CardinalityType

LEMMA SameDoing ==
  ASSUME UNCHANGED scenario, NEW op
  PROVE  Doing(op)' = Doing(op)
<1>1. scenario' = scenario
  OBVIOUS
<1> QED
  BY <1>1 DEF Doing, May

-----------------------------------------------------------------------------
\* The readings that have m in hand, as an email they have not seen before.
Bearing(m) == {a \in Actor : tx[a].op = "fetch" /\ tx[a].n = m /\ tx[a].saw # "known"}

CopiesInv == \A m \in Mail \ Nameless :
  Copies(m) = {} \/ Cardinality(Copies(m)) + Cardinality(Bearing(m)) <= Cardinality(Doing("fetch"))

LEMMA CopiesNext ==
  ASSUME Firm, CopiesInv, [Next]_vars
  PROVE  CopiesInv'
<1>1. Turns /\ Words /\ UNCHANGED scenario /\ HistoryOK
  BY TurnsNext DEF Firm, SalesInv, KeptInv
<1> SUFFICES ASSUME NEW m \in Mail \ Nameless
             PROVE  \/ Copies(m)' = {}
                    \/ Cardinality(Copies(m)') + Cardinality(Bearing(m)') <= Cardinality(Doing("fetch")')
  BY DEF CopiesInv
<1> DEFINE p == From[m]
<1>2. p \in Prospect /\ m # 0 /\ history[p] \in Seq(MessageRec)
  BY <1>1, InboxAssumption DEF Mail, HistoryOK
<1>3. Copies(m) \subseteq 1 .. Len(history[p]) /\ Len(history[p]) \in Nat /\ IsFiniteSet(Copies(m))
  <2>1. Copies(m) \subseteq 1 .. Len(history[p]) /\ Len(history[p]) \in Nat
    BY <1>2 DEF Copies
  <2> QED
    BY <2>1, PlacesAreFinite
<1>4. Bearing(m) \subseteq Doing("fetch")
  BY DEF Bearing, Doing, Firm, Allowed
<1>5. Bearing(m)' \subseteq Bearing(m) \/ (Copies(m) = {} /\ UNCHANGED history)
  <2> SUFFICES ASSUME NEW b \in Bearing(m)', ~(Copies(m) = {} /\ UNCHANGED history)
               PROVE  b \in Bearing(m)
    OBVIOUS
  <2>1. b \in Actor /\ tx'[b].op = "fetch" /\ tx'[b].n = m /\ tx'[b].saw # "known"
    BY DEF Bearing
  <2>2. CASE tx'[b] = tx[b]
    BY <2>1, <2>2 DEF Bearing
  <2>3. CASE tx'[b] # tx[b]
    <3>1. Turn(b)
      BY <1>1, <2>1, <2>3 DEF Turns, Turn
    <3>2. ~Known(m) /\ UNCHANGED history
      BY <1>2, <2>1, <3>1 DEF Turn, Begins, ReadsOn, GoesOnWithRows, Ends
    <3>3. Copies(m) = {}
      BY <3>2 DEF Known, Recorded, Copies
    <3> QED
      BY <3>2, <3>3
  <2> QED
    BY <2>2, <2>3
<1>6. \/ Copies(m)' = {}
      \/ Copies(m)' \subseteq Copies(m) /\ Bearing(m)' \subseteq Bearing(m)
      \/ \E x, t : /\ t \in Bearing(m) /\ Copies(m)' \subseteq Copies(m) \cup {x}
                   /\ Bearing(m)' \subseteq Bearing(m) \ {t}
  <2>1. CASE Copies(m) = {} /\ UNCHANGED history
    BY <2>1 DEF Copies
  <2>2. CASE Bearing(m)' \subseteq Bearing(m) /\ Alike
    <3>1. AlikeIn(history[p], history'[p])
      BY <1>2, <2>2 DEF Alike
    <3> QED
      BY <2>2, <3>1 DEF AlikeIn, Copies
  <2>3. CASE /\ Bearing(m)' \subseteq Bearing(m)
             /\ \E q \in Prospect, r \in MessageRec : Says(q, r) /\ Speaks(q, r)
    <3>1. PICK q \in Prospect, r \in MessageRec : Says(q, r) /\ Speaks(q, r)
      BY <2>3
    <3>2. /\ q # p => history'[p] = history[p]
          /\ q = p => history'[p] = Append(history[p], r)
      BY <1>1, <1>2, <3>1 DEF Says, HistoryOK
    <3>3. CASE q # p \/ r.mail # m
      <4>1. Copies(m)' \subseteq Copies(m)
        <5>1. CASE history'[p] = history[p]
          BY <5>1 DEF Copies
        <5>2. CASE history'[p] = Append(history[p], r) /\ r.mail # m
          <6>1. /\ DOMAIN history'[p] = 1 .. Len(history[p]) + 1 /\ DOMAIN history[p] = 1 .. Len(history[p])
                /\ history'[p][Len(history[p]) + 1] = r
                /\ \A i \in 1 .. Len(history[p]) : history'[p][i] = history[p][i]
            BY <1>2, <5>2
          <6> QED
            BY <1>3, <5>2, <6>1 DEF Copies
        <5> QED
          BY <3>2, <3>3, <5>1, <5>2
      <4> QED
        BY <2>3, <4>1
    <3>4. CASE q = p /\ r.mail = m
      <4>1. PICK a \in Actor : /\ tx[a].op = "fetch" /\ tx[a].n = m /\ tx[a].saw # "known"
                               /\ tx'[a].op = "mark"
        BY <1>2, <3>1, <3>4 DEF Speaks
      <4>2. a \in Bearing(m) /\ a \notin Bearing(m)'
        BY <4>1 DEF Bearing
      <4>3. Copies(m)' \subseteq Copies(m) \cup {Len(history[p]) + 1}
        <5>1. /\ DOMAIN history'[p] = 1 .. Len(history[p]) + 1 /\ DOMAIN history[p] = 1 .. Len(history[p])
              /\ \A i \in 1 .. Len(history[p]) : history'[p][i] = history[p][i]
          BY <1>2, <3>2, <3>4
        <5> QED
          BY <1>3, <5>1 DEF Copies
      <4> QED
        BY <2>3, <4>2, <4>3
    <3> QED
      BY <3>3, <3>4
  <2> QED
    BY <1>1, <1>5, <2>1, <2>2, <2>3 DEF Words
<1>7. Doing("fetch")' = Doing("fetch") /\ IsFiniteSet(Doing("fetch"))
  BY <1>1, SameDoing, DoingIsFinite
<1>8. Copies(m) = {} \/ Cardinality(Copies(m)) + Cardinality(Bearing(m)) <= Cardinality(Doing("fetch"))
  BY DEF CopiesInv
<1> HIDE DEF p
<1>9. Copies(m)' = {} \/ Cardinality(Copies(m)') + Cardinality(Bearing(m)') <= Cardinality(Doing("fetch"))
  BY <1>3, <1>4, <1>6, <1>7, <1>8, Balance, ZenonT(60)
<1> QED
  BY <1>7, <1>9

\* A reply with a Message-ID has at most one row for each session that may read
\* the mailbox, however readings overlap, break and are tried again
\* (email_receiver.py, record_inbound).
THEOREM CopiesHold == Spec => []CopiesAreBounded
<1>1. Init => Firm /\ CopiesInv
  <2> SUFFICES ASSUME Init PROVE CopiesInv
    BY FirmInit
  <2>1. \A m \in Mail : m # 0 /\ From[m] \in Prospect
    BY InboxAssumption DEF Mail
  <2>2. \A p \in Prospect : history[p] = <<>> \/ history[p] = <<SentCold>>
    BY DEF Init, ProspectsInit
  <2>3. \A m \in Mail : Copies(m) = {}
    BY <2>1, <2>2 DEF Copies, SentCold
  <2> QED
    BY <2>3 DEF CopiesInv
<1>2. Firm /\ CopiesInv /\ [Next]_vars => Firm' /\ CopiesInv'
  BY FirmNext, CopiesNext
<1>3. Firm /\ CopiesInv => CopiesAreBounded
  <2> SUFFICES ASSUME Firm, CopiesInv, NEW m \in Mail \ Nameless
               PROVE  Cardinality(Copies(m)) <= Cardinality(Doing("fetch"))
    BY DEF CopiesAreBounded
  <2>1. Bearing(m) \subseteq Actor /\ IsFiniteSet(Bearing(m)) /\ Cardinality(Bearing(m)) \in Nat
    <3>1. Bearing(m) \subseteq Actor
      BY DEF Bearing
    <3> QED
      BY <3>1, ProspectsAssumption, FS_Subset, FS_CardinalityType
  <2>2. Cardinality(Doing("fetch")) \in Nat /\ (Copies(m) = {} => Cardinality(Copies(m)) = 0)
    BY DoingIsFinite, FS_EmptySet
  <2>3. Cardinality(Copies(m)) \in Nat
    <3>1. From[m] \in Prospect
      BY InboxAssumption
    <3>2. Copies(m) \subseteq 1 .. Len(history[From[m]]) /\ Len(history[From[m]]) \in Nat
      BY <3>1 DEF Copies, Firm, SalesInv, KeptInv, HistoryOK
    <3> QED
      BY <3>2, PlacesAreFinite
  <2> QED
    BY <2>1, <2>2, <2>3 DEF CopiesInv
<1> QED
  BY <1>1, <1>2, <1>3, PTL DEF Spec

-----------------------------------------------------------------------------
\* The sessions that write an approach to p.
Approaching(p) == {a \in Actor : tx[a].op = "outreach" /\ tx[a].on = p}

LateInv == \A p \in Prospect :
  \/ LateApproaches(p) = {}
  \/ Cardinality(LateApproaches(p)) + Cardinality(Approaching(p)) <= Cardinality(Doing("outreach"))

LEMMA LatePlaces ==
  ASSUME HistoryOK, NEW p \in Prospect
  PROVE  /\ Len(history[p]) \in Nat /\ LateApproaches(p) \subseteq 1 .. Len(history[p])
         /\ IsFiniteSet(LateApproaches(p)) /\ Cardinality(LateApproaches(p)) \in Nat
<1>1. Len(history[p]) \in Nat /\ LateApproaches(p) \subseteq 1 .. Len(history[p])
  BY DEF HistoryOK, LateApproaches, Indices
<1> QED
  BY <1>1, PlacesAreFinite

\* A message more is one late approach more at most, and none unless it is one.
LEMMA OneLateMore ==
  ASSUME HistoryOK, NEW p \in Prospect, NEW r \in MessageRec,
         history'[p] = Append(history[p], r)
  PROVE  /\ LateApproaches(p)' \subseteq LateApproaches(p) \cup {Len(history[p]) + 1}
         /\ r.kind # "cold" => LateApproaches(p)' \subseteq LateApproaches(p)
<1> DEFINE h == history[p]
           n == Len(h)
<1>1. h \in Seq(MessageRec) /\ n \in Nat
  BY DEF HistoryOK
<1>2. /\ DOMAIN h = 1 .. n /\ DOMAIN history'[p] = 1 .. n + 1
      /\ history'[p][n + 1] = r /\ \A i \in 1 .. n : history'[p][i] = h[i]
  BY <1>1
<1> HIDE DEF h, n
<1>3. Indices(p, {"reply"})' \subseteq Indices(p, {"reply"}) \cup {n + 1}
  BY <1>1, <1>2 DEF Indices, h
<1>4. /\ Indices(p, {"cold"})' \subseteq Indices(p, {"cold"}) \cup {n + 1}
      /\ r.kind # "cold" => n + 1 \notin Indices(p, {"cold"})'
  BY <1>1, <1>2 DEF Indices, h
<1>5. \A i \in Indices(p, {"cold"}) : i \in 1 .. n /\ ~(n + 1 < i)
  BY <1>1, <1>2 DEF Indices, h
<1>6. LateApproaches(p)' = {i \in Indices(p, {"cold"})' : \E j \in Indices(p, {"reply"})' : j < i}
  BY DEF LateApproaches
<1> QED
  BY <1>3, <1>4, <1>5, <1>6 DEF LateApproaches, n, h

LEMMA LateNext ==
  ASSUME Firm, LateInv, [Next]_vars
  PROVE  LateInv'
<1>1. Turns /\ Words /\ UNCHANGED scenario /\ HistoryOK
  BY TurnsNext DEF Firm, SalesInv, KeptInv
<1> SUFFICES ASSUME NEW p \in Prospect
             PROVE  \/ LateApproaches(p)' = {}
                    \/ Cardinality(LateApproaches(p)') + Cardinality(Approaching(p)')
                         <= Cardinality(Doing("outreach")')
  BY DEF LateInv
<1>2. IsFiniteSet(LateApproaches(p)) /\ history[p] \in Seq(MessageRec)
  BY <1>1, LatePlaces DEF HistoryOK
<1>3. Approaching(p) \subseteq Doing("outreach")
  BY DEF Approaching, Doing, Firm, Allowed
<1>4. Approaching(p)' \subseteq Approaching(p) \/ (LateApproaches(p) = {} /\ UNCHANGED history)
  <2> SUFFICES ASSUME NEW b \in Approaching(p)', ~(LateApproaches(p) = {} /\ UNCHANGED history)
               PROVE  b \in Approaching(p)
    OBVIOUS
  <2>1. b \in Actor /\ tx'[b].op = "outreach" /\ tx'[b].on = p
    BY DEF Approaching
  <2>2. CASE tx'[b] = tx[b]
    BY <2>1, <2>2 DEF Approaching
  <2>3. CASE tx'[b] # tx[b]
    <3>1. Turn(b)
      BY <1>1, <2>1, <2>3 DEF Turns, Turn
    <3>2. ~Replied(p) /\ UNCHANGED history
      BY <2>1, <3>1 DEF Turn, Begins, ReadsOn, GoesOnWithRows, Ends
    <3>3. LateApproaches(p) = {}
      BY <3>2 DEF Replied, LateApproaches
    <3> QED
      BY <3>2, <3>3
  <2> QED
    BY <2>2, <2>3
<1>5. \/ LateApproaches(p)' = {}
      \/ LateApproaches(p)' \subseteq LateApproaches(p) /\ Approaching(p)' \subseteq Approaching(p)
      \/ \E x, t : /\ t \in Approaching(p)
                   /\ LateApproaches(p)' \subseteq LateApproaches(p) \cup {x}
                   /\ Approaching(p)' \subseteq Approaching(p) \ {t}
  <2>1. CASE LateApproaches(p) = {} /\ UNCHANGED history
    BY <2>1 DEF LateApproaches, Indices
  <2>2. CASE Approaching(p)' \subseteq Approaching(p) /\ Alike
    <3>1. AlikeIn(history[p], history'[p])
      BY <2>2 DEF Alike
    <3>2. Indices(p, {"cold"})' = Indices(p, {"cold"}) /\ Indices(p, {"reply"})' = Indices(p, {"reply"})
      BY <3>1 DEF AlikeIn, Indices
    <3> QED
      BY <2>2, <3>2 DEF LateApproaches
  <2>3. CASE /\ Approaching(p)' \subseteq Approaching(p)
             /\ \E q \in Prospect, r \in MessageRec : Says(q, r) /\ Speaks(q, r)
    <3>1. PICK q \in Prospect, r \in MessageRec : Says(q, r) /\ Speaks(q, r)
      BY <2>3
    <3>2. CASE q # p
      <4>1. history'[p] = history[p]
        BY <1>1, <3>1, <3>2 DEF Says, HistoryOK
      <4> QED
        BY <2>3, <4>1 DEF LateApproaches, Indices
    <3>3. CASE q = p
      <4>1. history'[p] = Append(history[p], r)
        BY <1>1, <3>1, <3>3 DEF Says, HistoryOK
      <4>2. CASE r.kind # "cold"
        BY <1>1, <2>3, <4>1, <4>2, OneLateMore
      <4>3. CASE r.kind = "cold"
        <5>1. PICK a \in Actor : tx[a].op = "outreach" /\ tx[a].on = p /\ tx'[a].op = "idle"
          BY <3>1, <3>3, <4>3 DEF Speaks
        <5>2. a \in Approaching(p) /\ a \notin Approaching(p)'
          BY <5>1 DEF Approaching
        <5>3. LateApproaches(p)' \subseteq LateApproaches(p) \cup {Len(history[p]) + 1}
          BY <1>1, <4>1, OneLateMore
        <5> QED
          BY <2>3, <5>2, <5>3
      <4> QED
        BY <4>2, <4>3
    <3> QED
      BY <3>2, <3>3
  <2> QED
    BY <1>1, <1>4, <2>1, <2>2, <2>3 DEF Words
<1>6. Doing("outreach")' = Doing("outreach") /\ IsFiniteSet(Doing("outreach"))
  BY <1>1, SameDoing, DoingIsFinite
<1>7. \/ LateApproaches(p) = {}
      \/ Cardinality(LateApproaches(p)) + Cardinality(Approaching(p)) <= Cardinality(Doing("outreach"))
  BY DEF LateInv
<1>8. \/ LateApproaches(p)' = {}
      \/ Cardinality(LateApproaches(p)') + Cardinality(Approaching(p)') <= Cardinality(Doing("outreach"))
  BY <1>2, <1>3, <1>5, <1>6, <1>7, Balance
<1> QED
  BY <1>6, <1>8

\* However replies cross the agents, a lead that has replied gets at most one
\* more cold approach for each session that may write one: those that looked
\* before (outreach.py, _checar_regras_de_parada).
THEOREM LateApproachesHold == Spec => []LateApproachesAreBounded
<1>1. Init => Firm /\ LateInv
  <2> SUFFICES ASSUME Init PROVE LateInv
    BY FirmInit
  <2>1. \A p \in Prospect : history[p] = <<>> \/ history[p] = <<SentCold>>
    BY DEF Init, ProspectsInit
  <2>2. \A p \in Prospect : LateApproaches(p) = {}
    BY <2>1 DEF LateApproaches, Indices, SentCold
  <2> QED
    BY <2>2 DEF LateInv
<1>2. Firm /\ LateInv /\ [Next]_vars => Firm' /\ LateInv'
  BY FirmNext, LateNext
<1>3. Firm /\ LateInv => LateApproachesAreBounded
  <2> SUFFICES ASSUME Firm, LateInv, NEW p \in Prospect
               PROVE  Cardinality(LateApproaches(p)) <= Cardinality(Doing("outreach"))
    BY DEF LateApproachesAreBounded
  <2>1. Cardinality(Approaching(p)) \in Nat
    <3>1. Approaching(p) \subseteq Actor
      BY DEF Approaching
    <3> QED
      BY <3>1, ProspectsAssumption, FS_Subset, FS_CardinalityType
  <2>2. /\ Cardinality(Doing("outreach")) \in Nat
        /\ LateApproaches(p) = {} => Cardinality(LateApproaches(p)) = 0
    BY DoingIsFinite, FS_EmptySet
  <2>3. Cardinality(LateApproaches(p)) \in Nat
    BY LatePlaces DEF Firm, SalesInv, KeptInv
  <2> QED
    BY <2>1, <2>2, <2>3 DEF LateInv
<1> QED
  BY <1>1, <1>2, <1>3, PTL DEF Spec

-----------------------------------------------------------------------------
\* The ticks that have the row e to decide on, or have decided.
Ticking(e) == {a \in Actor : \E d \in round[a].due \cup round[a].plan : d.e = e}

TouchInv == \A e \in Enrollment :
  touches[e] # 0 => touches[e] + Cardinality(Ticking(e)) <= Cardinality(Doing("tick"))

\* No tick joins the others for a row that has had its touch, and the tick that
\* touches it leaves them.
Touched(e) ==
  \/ touches'[e] = 0
  \/ touches'[e] = touches[e] /\ Ticking(e)' \subseteq Ticking(e)
  \/ /\ touches'[e] = touches[e] + 1
     /\ \E t \in Ticking(e) : Ticking(e)' \subseteq Ticking(e) \ {t}

LEMMA TickBeginTouches ==
  ASSUME Firm, NEW a \in Actor, TickBegin(a), NEW e \in Enrollment
  PROVE  Touched(e)
<1> DEFINE due == {[e |-> f, step |-> row[f].step] : f \in Due}
<1>1. round' = [round EXCEPT ![a].due = due] /\ UNCHANGED touches
  BY DEF TickBegin, TickVars
<1>2. \A d \in due : d.e \in Due
  OBVIOUS
<1> HIDE DEF due
<1>3. \A b \in Actor : /\ round'[b].plan = round[b].plan
                       /\ round'[b].due = IF b = a THEN due ELSE round[b].due
  BY <1>1 DEF Firm, SalesInv, RestOK, CadenceOK, RoundRec
<1>4. touches[e] # 0 => e \notin Due
  BY DEF Firm, RowsInv, TouchedAreOut
<1>5. touches[e] # 0 => Ticking(e)' \subseteq Ticking(e)
  BY <1>2, <1>3, <1>4 DEF Ticking
<1> QED
  BY <1>1, <1>5 DEF Touched

LEMMA TickLeaves ==
  ASSUME RestOK, NEW a \in Actor, round' = [round EXCEPT ![a] = NoRound], NEW e
  PROVE  Ticking(e)' \subseteq Ticking(e) \ {a}
<1>1. NoRound.due = {} /\ NoRound.plan = {}
  BY DEF NoRound
<1>2. \A b \in Actor : round'[b] = IF b = a THEN NoRound ELSE round[b]
  BY DEF RestOK, CadenceOK
<1> QED
  BY <1>1, <1>2 DEF Ticking

LEMMA TickCommitTouches ==
  ASSUME Firm, NEW a \in Actor, TickCommit(a), NEW e \in Enrollment
  PROVE  Touched(e)
<1> DEFINE sent == {d \in round[a].plan : d.act = "step" /\ d.fresh}
<1>1. /\ touches'[e] = IF \E d \in sent : d.e = e THEN touches[e] + 1 ELSE touches[e]
      /\ Ticking(e)' \subseteq Ticking(e) \ {a}
  BY TickLeaves DEF TickCommit, Firm, SalesInv
<1>2. (\E d \in sent : d.e = e) => a \in Ticking(e)
  BY DEF Ticking
<1> HIDE DEF sent
<1> QED
  BY <1>1, <1>2 DEF Touched

LEMMA TouchesGo ==
  ASSUME Firm, [Next]_vars, NEW e \in Enrollment
  PROVE  Touched(e)
<1>1. CASE UNCHANGED <<round, touches>>
  BY <1>1 DEF Touched, Ticking
<1>2. CASE CadencesNext
  <2>1. CASE Day \/ \E a \in Actor : DeleteCommit(a)
    BY <2>1 DEF Day, DeleteCommit, Touched
  <2>2. CASE \E a \in Actor : TickOne(a)
    <3>1. PICK a \in Actor : TickOne(a)
      BY <2>2
    <3>2. \A b \in Actor : (\E d \in round'[b].due \cup round'[b].plan : d.e = e)
                           => (\E d \in round[b].due \cup round[b].plan : d.e = e)
      BY <3>1, TickOneKeepsRows DEF Firm
    <3>3. Ticking(e)' \subseteq Ticking(e)
      BY <3>2 DEF Ticking
    <3> QED
      BY <3>1, <3>3 DEF TickOne, TickVars, Touched
  <2>3. CASE \E a \in Actor : TickFails(a)
    <3>1. PICK a \in Actor : TickFails(a)
      BY <2>3
    <3>2. Ticking(e)' \subseteq Ticking(e) \ {a} /\ UNCHANGED touches
      BY <3>1, TickLeaves DEF TickFails, TickVars, Firm, SalesInv
    <3> QED
      BY <3>2 DEF Touched
  <2>4. CASE \E a \in Actor : \/ (\E l \in Lists : EnrollBegin(a, l)) \/ EnrollSkip(a)
                              \/ EnrollInsert(a) \/ EnrollWakes(a) \/ EnrollFails(a)
                              \/ EnrollCommit(a) \/ (\E f \in Enrollment : StopEnrollment(a, f))
                              \/ (\E n \in 1 .. MaxSteps, active \in BOOLEAN :
                                    UpdateSequence(a, n, active))
                              \/ PauseCampaign(a) \/ DeleteCheck(a)
    BY <1>1, <2>4 DEF EnrollBegin, EnrollSkip, EnrollInsert, EnrollWakes, EnrollFails, EnrollCommit,
                      EnrollVars, StopEnrollment, UpdateSequence, PauseCampaign, DeleteCheck,
                      cadenceVars
  <2> QED
    BY <1>2, <2>1, <2>2, <2>3, <2>4, TickBeginTouches, TickCommitTouches DEF CadencesNext
<1> QED
  BY <1>1, <1>2 DEF Next, vars, cadenceVars

LEMMA TouchNext ==
  ASSUME Firm, TouchInv, [Next]_vars
  PROVE  TouchInv'
<1>1. UNCHANGED scenario
  BY TurnsNext DEF Firm, SalesInv
<1> SUFFICES ASSUME NEW e \in Enrollment
             PROVE  touches'[e] # 0 =>
                      touches'[e] + Cardinality(Ticking(e)') <= Cardinality(Doing("tick")')
  BY DEF TouchInv
<1>2. Firm'
  BY FirmNext
<1> DEFINE k == touches[e]
           l == touches'[e]
<1>3. k \in Nat /\ l \in Nat
  BY <1>2 DEF Firm, SalesInv, RestOK, CadenceOK
<1>4. Ticking(e) \subseteq Doing("tick")
  <2>1. NoRound.due = {} /\ NoRound.plan = {}
    BY DEF NoRound
  <2> QED
    BY <2>1 DEF Ticking, Doing, Firm, RowsInv, OnlyTickers, Allowed
<1>5. k = 0 \/ k + Cardinality(Ticking(e)) <= Cardinality(Doing("tick"))
  BY DEF TouchInv
<1>6. Touched(e)
  BY TouchesGo
<1>7. Doing("tick")' = Doing("tick") /\ IsFiniteSet(Doing("tick"))
  BY <1>1, SameDoing, DoingIsFinite
<1> HIDE DEF k, l
<1>8. \A n \in Nat : IsFiniteSet(1 .. n) /\ Cardinality(1 .. n) = n /\ (1 .. n = {} <=> n = 0)
  <2> TAKE n \in Nat
  <2>1. IsFiniteSet(1 .. n) /\ Cardinality(1 .. n) = n
    BY FS_Interval
  <2> QED
    BY <2>1
<1>9. 1 .. k = {} \/ Cardinality(1 .. k) + Cardinality(Ticking(e)) <= Cardinality(Doing("tick"))
  BY <1>3, <1>5, <1>8
<1>10. \/ 1 .. l = {}
       \/ 1 .. l \subseteq 1 .. k /\ Ticking(e)' \subseteq Ticking(e)
       \/ \E x, t : /\ t \in Ticking(e) /\ 1 .. l \subseteq (1 .. k) \cup {x}
                    /\ Ticking(e)' \subseteq Ticking(e) \ {t}
  <2>1. CASE l = 0
    BY <1>3, <1>8, <2>1
  <2>2. CASE l = k /\ Ticking(e)' \subseteq Ticking(e)
    BY <2>2
  <2>3. CASE l = k + 1 /\ \E t \in Ticking(e) : Ticking(e)' \subseteq Ticking(e) \ {t}
    <3>1. 1 .. l \subseteq (1 .. k) \cup {k + 1}
      BY <1>3, <2>3
    <3> QED
      BY <2>3, <3>1
  <2> QED
    BY <1>6, <2>1, <2>2, <2>3 DEF Touched, k, l
<1>11. 1 .. l = {} \/ Cardinality(1 .. l) + Cardinality(Ticking(e)') <= Cardinality(Doing("tick"))
  BY <1>3, <1>4, <1>7, <1>8, <1>9, <1>10, Balance
<1> QED
  BY <1>3, <1>7, <1>8, <1>11 DEF l

\* The queue gets at most one touch a day for an enrolment from each session
\* that may tick, whatever jobs finish, sequences change and rows are stopped in
\* between (sequences.py, tick).
THEOREM TouchesHold == Spec => []TouchesADayAreBounded
<1>1. Init => Firm /\ TouchInv
  BY FirmInit DEF Init, CadencesInit, TouchInv
<1>2. Firm /\ TouchInv /\ [Next]_vars => Firm' /\ TouchInv'
  BY FirmNext, TouchNext
<1>3. Firm /\ TouchInv => TouchesADayAreBounded
  <2> SUFFICES ASSUME Firm, TouchInv, NEW e \in Enrollment
               PROVE  touches[e] <= Cardinality(Doing("tick"))
    BY DEF TouchesADayAreBounded
  <2>1. Cardinality(Ticking(e)) \in Nat
    <3>1. Ticking(e) \subseteq Actor
      BY DEF Ticking
    <3> QED
      BY <3>1, ProspectsAssumption, FS_Subset, FS_CardinalityType
  <2>2. touches[e] \in Nat /\ Cardinality(Doing("tick")) \in Nat
    BY DoingIsFinite DEF Firm, SalesInv, RestOK, CadenceOK
  <2> QED
    BY <2>1, <2>2 DEF TouchInv
<1> QED
  BY <1>1, <1>2, <1>3, PTL DEF Spec

-----------------------------------------------------------------------------
(***************************************************************************)
(* Replies that wait.  A step takes the answer of a lead off its way only  *)
(* by writing it, or by leaving the lead to a person.                      *)
(***************************************************************************)

\* The job a session runs is about the prospect it holds.
Burden(t) == \A j \in t.job :
  /\ t.op \in {"outreach", "converse"} /\ j.on = t.on
  /\ t.op = "outreach" => j.agent = "outreach"

JobShape == \A a \in Actor : Burden(tx[a])

LEMMA HoldBurden ==
  ASSUME WorkOK, JobShape, NEW a \in Actor, NEW t, Hold(a, t), Burden(t)
  PROVE  JobShape'
<1>1. \A b \in Actor : tx'[b] = IF b = a THEN t ELSE tx[b]
  BY DEF WorkOK, Hold
<1> QED
  BY <1>1 DEF JobShape, Burden

LEMMA LightBurden ==
  /\ Burden(Idle)
  /\ \A op \in Operation : Burden([Idle EXCEPT !.op = op])
  /\ \A op \in Operation : \A rows : Burden([Idle EXCEPT !.op = op, !.rows = rows])
BY DEF Idle, Burden

LEMMA CloseBurden ==
  ASSUME WorkOK, JobShape, NEW a \in Actor, Close(a)
  PROVE  JobShape'
BY HoldBurden, LightBurden DEF Close

LEMMA ReadsBurden ==
  ASSUME WorkOK, JobShape, NEW a \in Actor, NEW op \in Operation, NEW p, NEW n, NEW job,
         Reads(a, op, p, n, job),
         \A j \in job : /\ op \in {"outreach", "converse"} /\ j.on = p
                        /\ op = "outreach" => j.agent = "outreach"
  PROVE  JobShape'
<1> DEFINE barred == ContactOf[p] \in optedOut
           t == [Idle EXCEPT !.op = op, !.on = p, !.saw = status[p], !.n = n, !.job = job,
                             !.barred = barred]
<1>1. t.op = op /\ t.on = p /\ t.job = job
  <2> HIDE DEF barred
  <2> QED
    BY DEF Idle
<1>2. Hold(a, t)
  BY DEF Reads
<1> HIDE DEF t
<1>3. Burden(t)
  BY <1>1 DEF Burden
<1> QED
  BY <1>2, <1>3, HoldBurden

LEMMA FunnelBurden ==
  ASSUME WorkOK, JobShape, FunnelNext
  PROVE  JobShape'
<1>1. CASE \E a \in Actor, p \in Prospect : People(a, p)
  <2>1. PICK a \in Actor, p \in Prospect : People(a, p)
    BY <1>1
  <2>2. CASE UNCHANGED tx
    BY <2>2 DEF JobShape
  <2>3. CASE InboundBegin(a, p)
    BY <2>3, ReadsBurden DEF InboundBegin, Operation
  <2>4. CASE InboundCommit(a, p)
    BY <2>4, CloseBurden DEF InboundCommit, Writes
  <2> QED
    BY <2>1, <2>2, <2>3, <2>4 DEF People, Score, BookMeeting, Unsubscribe, OptOutByHand, WriteReply,
                                  Approve, AskForRun, AtOnce
<1>2. CASE \E a \in Actor, p \in Prospect : Sending(a, p)
  <2>1. PICK a \in Actor, p \in Prospect : Sending(a, p)
    BY <1>2
  <2>2. CASE SendCommit(a, p)
    BY <2>2, CloseBurden DEF SendCommit, Writes
  <2>3. CASE \E i \in DOMAIN history[p] : SendCheck(a, p, i)
    BY <2>3, ReadsBurden DEF SendCheck, Operation
  <2> QED
    BY <2>1, <2>2, <2>3 DEF Sending
<1>3. CASE \E a \in Actor, p \in Prospect : Agents(a, p)
  <2>1. PICK a \in Actor, p \in Prospect : Agents(a, p)
    BY <1>3
  <2>2. \A agent : \A job \in Calls(a, agent, p) : \A j \in job : j.agent = agent /\ j.on = p
    BY DEF Calls
  <2>3. CASE OutreachLoad(a, p)
    <3>1. PICK job \in Calls(a, "outreach", p) : Reads(a, "outreach", p, Len(history[p]), job)
      BY <2>3 DEF OutreachLoad
    <3>2. "outreach" \in Operation
      BY DEF Operation
    <3> QED
      BY <2>2, <3>1, <3>2, ReadsBurden
  <2>4. CASE ConverseLoad(a, p)
    <3>1. PICK job \in Calls(a, "conversation", p) : Reads(a, "converse", p, Len(history[p]), job)
      BY <2>4 DEF ConverseLoad
    <3>2. "converse" \in Operation
      BY DEF Operation
    <3> QED
      BY <2>2, <3>1, <3>2, ReadsBurden
  <2>5. CASE QualifyLoad(a, p)
    BY <2>5, ReadsBurden DEF QualifyLoad, Operation
  <2>6. CASE \/ OutreachPersist(a, p) \/ ConversePersist(a, p) \/ ConverseOptOut(a, p)
             \/ \E outcome \in Outcome : QualifyPersist(a, p, outcome)
    BY <2>6, CloseBurden
       DEF OutreachPersist, ConversePersist, ConverseOptOut, QualifyPersist, Writes
  <2> QED
    BY <2>1, <2>3, <2>4, <2>5, <2>6 DEF Agents
<1>4. CASE \E a \in Actor : AgentGivesUp(a)
  BY <1>4, CloseBurden DEF AgentGivesUp
<1>5. CASE \E j \in jobs : JobDies(j)
  BY <1>5 DEF JobDies, JobShape
<1> QED
  BY <1>1, <1>2, <1>3, <1>4, <1>5 DEF FunnelNext

LEMMA InboxBurden ==
  ASSUME WorkOK, JobShape, InboxNext
  PROVE  JobShape'
<1>1. CASE \E m \in Mail : Deliver(m)
  BY <1>1 DEF Deliver, shared, JobShape
<1>2. CASE \E a \in Actor : FetchBegin(a) \/ MailDefect(a) \/ MarkSeen(a)
  <2>1. "fetch" \in Operation
    BY DEF Operation
  <2> QED
    BY <1>2, <2>1, LightBurden, HoldBurden DEF FetchBegin, MailDefect, MarkSeen, Onwards
<1>3. CASE \E a \in Actor : MailCheck(a)
  <2>1. PICK a \in Actor : MailCheck(a)
    BY <1>3
  <2>2. PICK m \in reader[a].todo :
        Hold(a, [tx[a] EXCEPT !.n = m, !.on = From[m],
                              !.barred = ContactOf[From[m]] \in optedOut,
                              !.saw = IF Known(m) THEN "known" ELSE status[From[m]]])
    BY <2>1 DEF MailCheck
  <2> DEFINE barred == ContactOf[From[m]] \in optedOut
             saw == IF Known(m) THEN "known" ELSE status[From[m]]
             t == [tx[a] EXCEPT !.n = m, !.on = From[m], !.barred = barred, !.saw = saw]
  <2>3. Hold(a, t) /\ tx[a].op = "fetch"
    BY <2>1, <2>2 DEF MailCheck, Reading
  <2>4. t.op = tx[a].op /\ t.job = tx[a].job
    <3> HIDE DEF barred, saw
    <3> QED
      BY DEF WorkOK, TxRec
  <2> HIDE DEF t
  <2>5. Burden(t)
    BY <2>3, <2>4 DEF JobShape, Burden
  <2> QED
    BY <2>3, <2>5, HoldBurden
<1>4. CASE \E a \in Actor : \/ ReplyCommit(a) \/ SoftBounceCommit(a) \/ HardBounceCommit(a)
                            \/ AlreadyKnown(a)
  <2>1. PICK a \in Actor : tx[a].op = "fetch" /\ Hold(a, [tx[a] EXCEPT !.op = "mark"])
    BY <1>4 DEF ReplyCommit, SoftBounceCommit, HardBounceCommit, AlreadyKnown, InHand, Reading,
                Processed
  <2> DEFINE t == [tx[a] EXCEPT !.op = "mark"]
  <2>2. t.job = tx[a].job
    BY DEF WorkOK, TxRec
  <2>3. Burden(t)
    <3> HIDE DEF t
    <3> QED
      BY <2>1, <2>2 DEF JobShape, Burden
  <2> QED
    BY <2>1, <2>3, HoldBurden
<1>5. CASE \E a \in Actor : FetchEnd(a) \/ FetchBreaks(a)
  BY <1>5, CloseBurden DEF FetchEnd, FetchBreaks
<1> QED
  BY <1>1, <1>2, <1>3, <1>4, <1>5 DEF InboxNext

LEMMA CadenceBurden ==
  ASSUME WorkOK, JobShape, CadencesNext
  PROVE  JobShape'
<1>1. {"enroll", "tick", "delete"} \subseteq Operation
  BY DEF Operation
<1>2. CASE \E a \in Actor : \/ (\E l \in Lists : EnrollBegin(a, l)) \/ TickBegin(a)
                            \/ DeleteCheck(a)
  BY <1>1, <1>2, LightBurden, HoldBurden DEF EnrollBegin, TickBegin, DeleteCheck
<1>3. CASE UNCHANGED tx
  BY <1>3 DEF JobShape
<1>4. CASE \E a \in Actor : \E p : Insert(a, p)
  <2>1. PICK a, rows : a \in Actor /\ Hold(a, [Idle EXCEPT !.op = "enroll", !.rows = rows])
    BY <1>4 DEF Insert
  <2> QED
    BY <1>1, <2>1, LightBurden, HoldBurden
<1>5. CASE \E a \in Actor : TickOne(a)
  <2>1. PICK a, e : /\ a \in Actor /\ tx[a].op = "tick"
                   /\ Hold(a, [tx[a] EXCEPT !.rows = @ \cup {e}])
    BY <1>5 DEF TickOne
  <2> DEFINE t == [tx[a] EXCEPT !.rows = @ \cup {e}]
  <2>2. t.job = tx[a].job /\ t.op = tx[a].op
    BY DEF WorkOK, TxRec
  <2>3. Burden(t)
    <3> HIDE DEF t
    <3> QED
      BY <2>1, <2>2 DEF JobShape, Burden
  <2> QED
    BY <2>1, <2>3, HoldBurden
<1>6. CASE \E a \in Actor : \/ EnrollFails(a) \/ EnrollCommit(a) \/ TickCommit(a) \/ TickFails(a)
                            \/ DeleteCommit(a)
  BY <1>6, CloseBurden DEF EnrollFails, EnrollCommit, TickCommit, TickFails, DeleteCommit
<1>7. CASE \E a \in Actor : EnrollInsert(a) \/ EnrollWakes(a)
  BY <1>3, <1>4, <1>7 DEF EnrollInsert, EnrollWakes
<1>8. CASE \/ Day
           \/ \E a \in Actor :
                \/ EnrollSkip(a) \/ (\E e \in Enrollment : StopEnrollment(a, e))
                \/ (\E n \in 1 .. MaxSteps, active \in BOOLEAN : UpdateSequence(a, n, active))
                \/ PauseCampaign(a)
  BY <1>3, <1>8 DEF Day, EnrollSkip, StopEnrollment, UpdateSequence, PauseCampaign
<1> QED
  BY <1>2, <1>5, <1>6, <1>7, <1>8 DEF CadencesNext

\* The answer to p is still to be written: a job will, or a reading will ask for
\* one.
Queued(p) == \E j \in jobs : j.agent = "conversation" /\ j.on = p

Coming(p) == Queued(p) \/ \E a \in Actor : p \in reader[a].touched

\* Something of ours comes after every reply of the history h: an answer, or an
\* approach that has been approved.
Caught(h) ==
  \E j \in DOMAIN h :
    /\ h[j].kind = "answer" \/ (h[j].kind = "cold" /\ h[j].status # "draft")
    /\ \A k \in DOMAIN h : h[k].kind = "reply" => k < j

Tended(p) == Coming(p)' \/ p \in unattended' \/ Caught(history'[p])

Tends == /\ unattended \subseteq unattended'
         /\ \A p \in Prospect : Coming(p) => Tended(p)

\* More jobs, and no reading that forgets.
LEMMA MoreTends ==
  ASSUME unattended \subseteq unattended', jobs \subseteq jobs',
         \A a \in Actor : reader[a].touched \subseteq reader'[a].touched
  PROVE  Tends
BY DEF Tends, Coming, Queued, Tended

\* A job ends that is not of a conversation.
LEMMA OtherJobTends ==
  ASSUME UNCHANGED <<unattended, reader>>, NEW S, jobs' = jobs \ S,
         \A j \in S : j.agent # "conversation"
  PROVE  Tends
<1>1. reader' = reader /\ unattended' = unattended
  OBVIOUS
<1> QED
  BY <1>1 DEF Tends, Coming, Queued, Tended

LEMMA ConverseTends ==
  ASSUME WorkOK, HistoryOK, JobShape, NEW a \in Actor, NEW p \in Prospect,
         Writes(a, "converse", p), Write(p, "answer", "draft", 0), UNCHANGED reader
  PROVE  Tends
<1>1. /\ tx[a].on = p /\ jobs' = jobs \ tx[a].job /\ unattended' = unattended /\ reader' = reader
      /\ \A j \in tx[a].job : j.on = p
  BY DEF Writes, Here, JobShape, Burden
<1> DEFINE h == history[p]
           r == [kind |-> "answer", status |-> "draft", mail |-> 0]
<1>2. history'[p] = Append(h, r) /\ h \in Seq(MessageRec) /\ r.kind = "answer"
  BY DEF Write, HistoryOK
<1> HIDE DEF r
<1>3. Caught(history'[p])
  <2>1. /\ Len(h) \in Nat /\ DOMAIN history'[p] = 1 .. Len(h) + 1
        /\ history'[p][Len(h) + 1] = r
    BY <1>2
  <2>2. \A k \in DOMAIN history'[p] : history'[p][k].kind = "reply" => k < Len(h) + 1
    BY <1>2, <2>1
  <2>3. Len(h) + 1 \in DOMAIN history'[p]
    BY <2>1
  <2> QED
    BY <1>2, <2>1, <2>2, <2>3 DEF Caught
<1>4. ASSUME NEW q \in Prospect, q # p, Coming(q)
      PROVE  Coming(q)'
  <2>1. Queued(q) => Queued(q)'
    BY <1>1, <1>4 DEF Queued
  <2> QED
    BY <1>1, <1>4, <2>1 DEF Coming
<1> QED
  BY <1>1, <1>3, <1>4 DEF Tends, Tended

LEMMA JobDiesTends ==
  ASSUME HistoryOK, NEW j \in jobs, JobDies(j), UNCHANGED reader
  PROVE  Tends
<1>1. jobs' = jobs \ {j} /\ reader' = reader /\ history' = history
  BY DEF JobDies, prospectVars
<1>2. CASE j.agent = "outreach"
  <2> DEFINE S == {j}
  <2>1. UNCHANGED <<unattended, reader>> /\ jobs' = jobs \ S
    BY <1>1, <1>2 DEF JobDies
  <2>2. \A i \in S : i.agent # "conversation"
    BY <1>2
  <2> HIDE DEF S
  <2> QED
    BY <2>1, <2>2, OtherJobTends
<1>3. CASE j.agent # "outreach"
  <2>1. unattended \subseteq unattended' /\ (j.on \in unattended' \/ Answered(j.on))
    BY <1>3 DEF JobDies
  <2>2. ASSUME NEW p \in Prospect, j.on = p, Answered(p)
        PROVE  Caught(history'[p])
    <3>1. PICK i \in DOMAIN history[p] : /\ history[p][i].kind \in {"cold", "answer"}
                                         /\ history[p][i].status \in {"queued", "sent"}
                                         /\ \A k \in Indices(p, {"reply"}) : k < i
      BY <2>2 DEF Answered, Indices
    <3> QED
      BY <1>1, <3>1 DEF Caught, Indices
  <2>3. ASSUME NEW p \in Prospect, j.on # p, Coming(p)
        PROVE  Coming(p)'
    <3>1. Queued(p) => Queued(p)'
      BY <1>1, <2>3 DEF Queued
    <3> QED
      BY <1>1, <2>3, <3>1 DEF Coming
  <2> QED
    BY <2>1, <2>2, <2>3 DEF Tends, Tended
<1> QED
  BY <1>2, <1>3

LEMMA FunnelTends ==
  ASSUME WorkOK, HistoryOK, JobShape, FunnelNext, UNCHANGED boxVars
  PROVE  Tends
<1>0. UNCHANGED reader
  BY DEF boxVars
<1>1. CASE \E a \in Actor, p \in Prospect : People(a, p)
  <2>1. PICK a \in Actor, p \in Prospect : People(a, p)
    BY <1>1
  <2>2. CASE \/ Score(a, p) \/ BookMeeting(a, p) \/ Unsubscribe(a, p) \/ OptOutByHand(a, p)
             \/ WriteReply(a, p) \/ (\E i \in DOMAIN history[p] : Approve(a, p, i))
             \/ (\E agent \in {"outreach", "conversation"} : AskForRun(a, agent, p))
             \/ InboundBegin(a, p)
    <3>1. UNCHANGED unattended /\ jobs \subseteq jobs'
      BY <2>2 DEF Score, BookMeeting, Unsubscribe, OptOutByHand, WriteReply, Approve, AskForRun,
                  InboundBegin, Reads, AtOnce, Here
    <3> QED
      BY <1>0, <3>1, MoreTends
  <2>3. CASE InboundCommit(a, p)
    <3>1. UNCHANGED unattended /\ jobs' = jobs \ tx[a].job /\ tx[a].job = {}
      BY <2>3 DEF InboundCommit, Writes, Here, JobShape, Burden
    <3> QED
      BY <1>0, <3>1, OtherJobTends
  <2> QED
    BY <2>1, <2>2, <2>3 DEF People
<1>2. CASE \E a \in Actor, p \in Prospect : Sending(a, p)
  <2>1. PICK a \in Actor, p \in Prospect : Sending(a, p)
    BY <1>2
  <2>2. CASE SendCommit(a, p)
    <3>1. UNCHANGED unattended /\ jobs' = jobs \ tx[a].job /\ tx[a].job = {}
      BY <2>2 DEF SendCommit, Writes, Here, JobShape, Burden
    <3> QED
      BY <1>0, <3>1, OtherJobTends
  <2>3. CASE \E i \in DOMAIN history[p] : SendCheck(a, p, i)
    BY <1>0, <2>3, MoreTends DEF SendCheck, Reads, Here
  <2> QED
    BY <2>1, <2>2, <2>3 DEF Sending
<1>3. CASE \E a \in Actor, p \in Prospect : Agents(a, p)
  <2>1. PICK a \in Actor, p \in Prospect : Agents(a, p)
    BY <1>3
  <2>2. CASE OutreachLoad(a, p) \/ ConverseLoad(a, p) \/ QualifyLoad(a, p)
    <3>1. UNCHANGED <<unattended, jobs>>
      BY <2>2 DEF OutreachLoad, ConverseLoad, QualifyLoad, Reads, Here
    <3> QED
      BY <1>0, <3>1, MoreTends
  <2>3. CASE OutreachPersist(a, p)
    <3>1. /\ UNCHANGED unattended /\ jobs' = jobs \ tx[a].job
          /\ \A j \in tx[a].job : j.agent # "conversation"
      BY <2>3 DEF OutreachPersist, Writes, Here, JobShape, Burden
    <3> QED
      BY <1>0, <3>1, OtherJobTends
  <2>4. CASE ConversePersist(a, p) \/ ConverseOptOut(a, p)
    BY <1>0, <2>4, ConverseTends DEF ConversePersist, ConverseOptOut
  <2>5. CASE \E outcome \in Outcome : QualifyPersist(a, p, outcome)
    <3>1. UNCHANGED unattended /\ jobs' = jobs \ tx[a].job /\ tx[a].job = {}
      BY <2>5 DEF QualifyPersist, Writes, Here, JobShape, Burden
    <3> QED
      BY <1>0, <3>1, OtherJobTends
  <2> QED
    BY <2>1, <2>2, <2>3, <2>4, <2>5 DEF Agents
<1>4. CASE \E a \in Actor : AgentGivesUp(a)
  BY <1>0, <1>4, MoreTends DEF AgentGivesUp, Here
<1>5. CASE \E j \in jobs : JobDies(j)
  BY <1>0, <1>5, JobDiesTends
<1> QED
  BY <1>1, <1>2, <1>3, <1>4, <1>5 DEF FunnelNext

\* A reading that ends asks for an answer, or finds one asked for, or leaves the
\* lead to a person.
LEMMA ReadingTends ==
  ASSUME BoxOK, NEW a \in Actor, FetchEnd(a) \/ FetchBreaks(a)
  PROVE  Tends
<1>1. /\ unattended \subseteq unattended' /\ jobs \subseteq jobs'
      /\ \A b \in Actor : reader'[b] = IF b = a THEN NoMail ELSE reader[b]
  BY DEF FetchEnd, FetchBreaks, BoxOK
<1>2. ASSUME NEW p \in reader[a].touched
      PROVE  Queued(p)' \/ p \in unattended'
  <2>1. CASE FetchEnd(a) /\ a \in Worker
    <3> DEFINE j == Job("conversation", p, Plain, a)
    <3>1. j.agent = "conversation" /\ j.on = p /\ j.key = Plain /\ j \in Dispatch(a)
      BY <1>2 DEF Job, Dispatch
    <3>2. jobs' = jobs \cup {i \in Dispatch(a) : Free(i)}
      BY <2>1 DEF FetchEnd
    <3> HIDE DEF j
    <3>3. CASE Free(j)
      BY <3>1, <3>2, <3>3 DEF Queued
    <3>4. CASE ~Free(j)
      <4>1. PICK i \in jobs : <<i.agent, i.on, i.key>> = <<j.agent, j.on, j.key>>
        BY <3>4 DEF Free
      <4> QED
        BY <3>1, <3>2, <4>1 DEF Queued
    <3> QED
      BY <3>3, <3>4
  <2>2. CASE (FetchEnd(a) /\ a \notin Worker) \/ FetchBreaks(a)
    BY <1>2, <2>2 DEF FetchEnd, FetchBreaks
  <2> QED
    BY <2>1, <2>2
<1>3. \A p : Queued(p) => Queued(p)'
  BY <1>1 DEF Queued
<1> QED
  BY <1>1, <1>2, <1>3 DEF Tends, Tended, Coming

LEMMA InboxTends ==
  ASSUME RestOK, InboxNext
  PROVE  Tends
<1>1. CASE \E m \in Mail : Deliver(m)
  BY <1>1, MoreTends DEF Deliver, shared
<1>2. CASE \E a \in Actor : FetchBegin(a) \/ MailDefect(a) \/ MarkSeen(a)
  <2>1. PICK a, s : /\ a \in Actor /\ reader' = [reader EXCEPT ![a].todo = s]
                   /\ UNCHANGED <<unattended, jobs>>
    BY <1>2 DEF FetchBegin, MailDefect, MarkSeen, Onwards, Quiet
  <2>2. \A b \in Actor : reader'[b].touched = reader[b].touched
    BY <2>1 DEF RestOK, BoxOK
  <2> QED
    BY <2>1, <2>2, MoreTends
<1>3. CASE \E a \in Actor : MailCheck(a)
  BY <1>3, MoreTends DEF MailCheck, boxVars, Quiet
<1>4. CASE \E a \in Actor : \/ ReplyCommit(a) \/ SoftBounceCommit(a) \/ HardBounceCommit(a)
                            \/ AlreadyKnown(a)
  <2>1. PICK a, s : a \in Actor /\ Processed(a, s)
    BY <1>4 DEF ReplyCommit, SoftBounceCommit, HardBounceCommit, AlreadyKnown
  <2>2. \A b \in Actor : reader[b].touched \subseteq reader'[b].touched
    BY <2>1 DEF Processed, RestOK, BoxOK
  <2> QED
    BY <2>1, <2>2, MoreTends DEF Processed, Quiet
<1>5. CASE \E a \in Actor : FetchEnd(a) \/ FetchBreaks(a)
  BY <1>5, ReadingTends DEF RestOK
<1> QED
  BY <1>1, <1>2, <1>3, <1>4, <1>5 DEF InboxNext

LEMMA CadenceTends ==
  ASSUME CadencesNext, UNCHANGED boxVars
  PROVE  Tends
<1>1. UNCHANGED <<unattended, reader>> /\ jobs \subseteq jobs'
  BY DEF boxVars, CadencesNext, Steady, Day, EnrollBegin, EnrollSkip, EnrollInsert, EnrollWakes,
         EnrollFails, EnrollCommit, EnrollVars, TickBegin, TickOne, TickCommit, TickFails, TickVars,
         StopEnrollment, UpdateSequence, PauseCampaign, DeleteCheck, DeleteCommit
<1> QED
  BY <1>1, MoreTends

LEMMA TendsNext ==
  ASSUME Firm, JobShape, [Next]_vars
  PROVE  Tends /\ JobShape'
<1>1. RestOK /\ WorkOK /\ HistoryOK
  BY DEF Firm, SalesInv, RestOK, KeptInv
<1>2. CASE UNCHANGED vars
  <2>1. UNCHANGED <<unattended, jobs, reader, tx>>
    BY <1>2 DEF vars, shared, boxVars
  <2> QED
    BY <2>1, MoreTends DEF JobShape
<1> QED
  BY <1>1, <1>2, FunnelTends, InboxTends, CadenceTends, FunnelBurden, InboxBurden, CadenceBurden
     DEF Next

\* What is on its way when p has replied last in its i-th message.
Past(h, i) ==
  \E j \in DOMAIN h : /\ i < j
                      /\ h[j].kind = "answer" \/ (h[j].kind = "cold" /\ h[j].status # "draft")

\* The last reply of the history h is its i-th message, and came in an email.
Last(h, i) == /\ i \in DOMAIN h /\ h[i].kind = "reply" /\ h[i].mail # 0
              /\ \A j \in DOMAIN h : h[j].kind = "reply" => j <= i

UnansweredInv == \A p \in Prospect \ unattended :
  \A i : Last(history[p], i) => Past(history[p], i) \/ Coming(p)

LEMMA UnansweredMeans ==
  UnansweredInv <=> UnansweredHasCause
<1>1. ASSUME NEW p \in Prospect, NEW i
      PROVE  OnItsWay(p, i) <=> Past(history[p], i) \/ Coming(p)
  BY DEF OnItsWay, Past, Coming, Queued, Indices
<1>2. ASSUME NEW p \in Prospect, NEW i
      PROVE  Last(history[p], i)
             <=> /\ i \in Indices(p, {"reply"}) /\ history[p][i].mail # 0
                 /\ \A j \in Indices(p, {"reply"}) : j <= i
  BY DEF Last, Indices
<1> QED
  BY <1>1, <1>2 DEF UnansweredInv, UnansweredHasCause

\* A step of the conversation either keeps its last reply, with what comes after,
\* or is a new reply, on the list of the reading that files it.
LEMMA LastGoes ==
  ASSUME HistoryOK, BoxOK', Words, NEW p \in Prospect, NEW i, Last(history'[p], i)
  PROVE  \/ Coming(p)'
         \/ Last(history[p], i) /\ (Past(history[p], i) => Past(history'[p], i))
<1>1. CASE AlikeIn(history[p], history'[p])
  <2>1. Last(history[p], i)
    BY <1>1 DEF AlikeIn, Last
  <2>2. Past(history[p], i) => Past(history'[p], i)
    BY <1>1 DEF AlikeIn, Past
  <2> QED
    BY <2>1, <2>2
<1>2. CASE \E q \in Prospect, r \in MessageRec : Says(q, r) /\ Speaks(q, r)
  <2>1. PICK q \in Prospect, r \in MessageRec : Says(q, r) /\ Speaks(q, r)
    BY <1>2
  <2>2. CASE q # p
    <3>1. history'[p] = history[p]
      BY <2>1, <2>2 DEF Says, HistoryOK
    <3> QED
      BY <3>1
  <2>3. CASE q = p
    <3> DEFINE h == history[p]
               g == history'[p]
               n == Len(h)
    <3>1. g = Append(h, r) /\ h \in Seq(MessageRec)
      BY <2>1, <2>3 DEF Says, HistoryOK
    <3>2. /\ n \in Nat /\ DOMAIN h = 1 .. n /\ DOMAIN g = 1 .. n + 1 /\ g[n + 1] = r
          /\ \A j \in 1 .. n : g[j] = h[j]
      BY <3>1
    <3>3. Last(g, i)
      OBVIOUS
    <3> HIDE DEF h, g, n
    <3>4. CASE i = n + 1
      <4>1. r.mail # 0
        BY <3>2, <3>3, <3>4 DEF Last
      <4>2. PICK a \in Actor : reader'[a].touched = reader[a].touched \cup {p}
        BY <2>1, <2>3, <4>1 DEF Speaks
      <4> QED
        BY <4>2 DEF Coming
    <3>5. CASE i # n + 1
      <4>1. i \in 1 .. n
        BY <3>2, <3>3, <3>5 DEF Last
      <4>2. Last(h, i)
        BY <3>2, <3>3, <4>1 DEF Last
      <4>3. Past(h, i) => Past(g, i)
        BY <3>2 DEF Past
      <4> QED
        BY <4>2, <4>3 DEF h, g
    <3> QED
      BY <3>4, <3>5
  <2> QED
    BY <2>2, <2>3
<1> QED
  BY <1>1, <1>2 DEF Words, Alike

LEMMA UnansweredNext ==
  ASSUME Firm, JobShape, UnansweredInv, [Next]_vars
  PROVE  UnansweredInv'
<1>1. Tends
  BY TendsNext
<1>2. Words /\ HistoryOK /\ BoxOK'
  BY TurnsNext, FirmNext DEF Firm, SalesInv, KeptInv, RestOK
<1> SUFFICES ASSUME NEW p \in Prospect, p \notin unattended', NEW i, Last(history'[p], i)
             PROVE  Past(history'[p], i) \/ Coming(p)'
  BY DEF UnansweredInv
<1>3. p \notin unattended
  BY <1>1 DEF Tends
<1>4. CASE Last(history[p], i) /\ (Past(history[p], i) => Past(history'[p], i))
  <2>1. Past(history[p], i) \/ Coming(p)
    BY <1>3, <1>4 DEF UnansweredInv
  <2>2. Caught(history'[p]) => Past(history'[p], i)
    BY DEF Caught, Past, Last
  <2>3. Coming(p) => Coming(p)' \/ Caught(history'[p])
    BY <1>1 DEF Tends, Tended
  <2> QED
    BY <1>4, <2>1, <2>2, <2>3
<1> QED
  BY <1>2, <1>4, LastGoes

\* A lead that has written and waits with nothing on its way has been left by a
\* broken reading, by a dead job or by a person who read the mailbox: nothing
\* that agents, people and jobs do in between loses the answer (runner.py,
\* _despachar_conversas).
THEOREM RepliesAreAttended == Spec => []UnansweredHasCause
<1>1. Init => Firm /\ JobShape /\ UnansweredInv
  <2> SUFFICES ASSUME Init PROVE JobShape /\ UnansweredInv
    BY FirmInit
  <2>1. \A p \in Prospect : history[p] = <<>> \/ history[p] = <<SentCold>>
    BY DEF Init, ProspectsInit
  <2>2. \A p \in Prospect : \A i : ~Last(history[p], i)
    BY <2>1 DEF Last, SentCold
  <2>3. \A a \in Actor : tx[a] = Idle
    BY DEF Init, ProspectsInit
  <2> QED
    BY <2>2, <2>3, LightBurden DEF JobShape, UnansweredInv
<1>2. Firm /\ JobShape /\ UnansweredInv /\ [Next]_vars => (Firm /\ JobShape /\ UnansweredInv)'
  BY FirmNext, TendsNext, UnansweredNext
<1>3. Firm /\ JobShape /\ UnansweredInv => UnansweredHasCause
  BY UnansweredMeans
<1> QED
  BY <1>1, <1>2, <1>3, PTL DEF Spec

=============================================================================
