----------------------------- MODULE OutboxProofs -----------------------------
(***************************************************************************)
(* Theorems about Outbox, for any number of messages, senders, reviewers   *)
(* and contacts, any limit and any number of faults.                       *)
(***************************************************************************)
EXTENDS Outbox, FiniteSetTheorems, WellFoundedInduction, TLAPS

-----------------------------------------------------------------------------
(***************************************************************************)
(* The current message, the counters.                                      *)
(***************************************************************************)

\* A set of messages has a first one: CHOOSE finds it.
LEMMA FirstIsIn ==
  ASSUME NEW S \in SUBSET Message, S # {}
  PROVE  First(S) \in S
<1>1. S \subseteq Nat
  BY OutboxAssumption DEF Message
<1>2. PICK t \in S : \A u \in S : <<u, t>> \notin OpToRel(<, Nat)
  BY <1>1, NatLessThanWellFounded, WFMin
<1>3. \A u \in S : t <= u
  <2> SUFFICES ASSUME NEW u \in S, ~(t <= u)
               PROVE  FALSE
    OBVIOUS
  <2>1. <<u, t>> \in Nat \X Nat /\ u < t
    BY <1>1
  <2>2. <<u, t>> \notin OpToRel(<, Nat)
    BY <1>2
  <2> QED
    BY <2>1, <2>2, Zenon DEF OpToRel
<1> QED
  BY <1>3 DEF First

LEMMA CountType == MaxCount \in Nat
<1>1. Cardinality(Sender) \in Nat
  BY FS_CardinalityType, OutboxAssumption
<1>2. MaxRequeues + MaxFaults + Cardinality(Sender) \in Nat /\ MaxMessages \in Nat
  BY <1>1, OutboxAssumption
<1>3. \A a, b \in Nat : a * b \in Nat
  OBVIOUS
<1> QED
  BY <1>2, <1>3 DEF MaxCount

LEMMA UpType ==
  ASSUME NEW n \in 0 .. MaxCount
  PROVE  Up(n) \in 0 .. MaxCount /\ Up(n) <= n + 1
BY CountType DEF Up

\* A sender that is not idle has a current message.
LEMMA CurrentType ==
  ASSUME OutboxTypeOK, NEW s \in Sender, pc[s] # "idle"
  PROVE  Current(s) \in fila[s] /\ Current(s) \in Message
BY FirstIsIn DEF Current, OutboxTypeOK

-----------------------------------------------------------------------------
(***************************************************************************)
(* Type correctness.                                                       *)
(***************************************************************************)

LEMMA OutboxInitType == Init => OutboxTypeOK
BY CountType, OutboxAssumption DEF Init, OutboxTypeOK, MessageStatus, Place, NoReview

LEMMA ReviewType ==
  ASSUME OutboxTypeOK, NEW r \in Reviewer, ReviewStep(r)
  PROVE  OutboxTypeOK'
<1>1. ASSUME NEW m \in Message, NEW t \in {"queued", "rejected"}, Review(r, m, t),
             requeues' \in 0 .. MaxRequeues
      PROVE  OutboxTypeOK'
  <2>1. [message |-> m, to |-> t] \in [message : Message, to : {"queued", "rejected"}]
    OBVIOUS
  <2> QED
    BY <1>1, <2>1 DEF Review, OutboxTypeOK, senderVars, history
<1>2. ASSUME NEW m \in Message, ApproveCheck(r, m) \/ RejectCheck(r, m) \/ RequeueCheck(r, m)
      PROVE  OutboxTypeOK'
  BY <1>1, <1>2, OutboxAssumption
  DEF ApproveCheck, RejectCheck, RequeueCheck, OutboxTypeOK
<1>3. CASE ReviewCommit(r)
  <2>1. review[r].to \in MessageStatus /\ review[r].message \in Message
    BY <1>3 DEF ReviewCommit, OutboxTypeOK, MessageStatus
  <2>2. /\ status' \in [Message -> MessageStatus]
        /\ UNCHANGED <<optedOut, today, known, open, senderVars, deliveries, late, outToday,
                       requeues, faults>>
    BY <1>3, <2>1 DEF ReviewCommit, OutboxTypeOK
  <2>3. review' \in [Reviewer -> {NoReview} \cup [message : Message,
                                                  to : {"queued", "rejected"}]]
    BY <1>3 DEF ReviewCommit, OutboxTypeOK
  <2>4. approved' \subseteq Message
    BY <1>3, <2>1 DEF ReviewCommit, OutboxTypeOK
  <2> QED
    BY <2>2, <2>3, <2>4 DEF OutboxTypeOK, senderVars
<1> QED
  BY <1>2, <1>3 DEF ReviewStep

LEMMA WorldType ==
  ASSUME OutboxTypeOK,
         \/ \E m \in Message : Draft(m) \/ Bounce(m)
         \/ \E c \in Contact : OptOut(c)
         \/ HoursChange \/ NewDay
  PROVE  OutboxTypeOK'
<1>1. ASSUME NEW m \in Message, Draft(m) \/ Bounce(m)
      PROVE  OutboxTypeOK'
  BY <1>1 DEF Draft, Bounce, OutboxTypeOK, MessageStatus, senderVars, history
<1>2. ASSUME NEW c \in Contact, OptOut(c)
      PROVE  OutboxTypeOK'
  BY <1>2 DEF OptOut, OutboxTypeOK, senderVars, history
<1>3. CASE HoursChange
  <2>1. open' \in BOOLEAN
    BY <1>3, Zenon DEF HoursChange
  <2> QED
    BY <1>3, <2>1 DEF HoursChange, OutboxTypeOK, senderVars, history
<1>4. CASE NewDay
  BY <1>4, CountType DEF NewDay, OutboxTypeOK, senderVars
<1> QED
  BY <1>1, <1>2, <1>3, <1>4

LEMMA TakeType ==
  ASSUME OutboxTypeOK, NEW s \in Sender, TakeBatch(s) \/ \E m \in Message : TakeOne(s, m)
  PROVE  OutboxTypeOK'
<1>1. PICK S \in SUBSET Message : Take(s, S)
  BY DEF TakeBatch, TakeOne, Queued
<1> QED
  BY <1>1 DEF Take, OutboxTypeOK, Place, history

\* What the three ways to go on do to the place and the list of a sender.
LEMMA MoveType ==
  ASSUME OutboxTypeOK, NEW s \in Sender,
         pc[s] # "idle",
         \/ Advance(s) \/ Stop(s)
         \/ (\E p \in Place : Goto(s, p)) /\ UNCHANGED <<fila, inTime>>
  PROVE  /\ pc' \in [Sender -> Place]
         /\ fila' \in [Sender -> SUBSET Message]
         /\ \A v \in Sender : pc'[v] # "idle" => fila'[v] # {}
         /\ inTime' \in [Sender -> BOOLEAN]
BY DEF Advance, Stop, Goto, OutboxTypeOK, Place

LEMMA SenderType ==
  ASSUME OutboxTypeOK, NEW s \in Sender, SenderStep(s) \/ SenderFault(s)
  PROVE  OutboxTypeOK'
<1> DEFINE Moves == /\ pc' \in [Sender -> Place]
                    /\ fila' \in [Sender -> SUBSET Message]
                    /\ \A v \in Sender : pc'[v] # "idle" => fila'[v] # {}
                    /\ inTime' \in [Sender -> BOOLEAN]
<1>1. Moves
  BY MoveType DEF SenderStep, SenderFault, CheckPasses, Skip, Blocked, TransportAccepts,
     TransportFails, Defect, RecordFailure, CommitSent, AnswerLost, CommitBreaks,
     CrashSender, Escapes, RollBack, At, Place
<1>2. /\ status' \in [Message -> MessageStatus]
      /\ UNCHANGED <<optedOut, open, review, approved, requeues>>
  BY DEF SenderStep, SenderFault, CheckPasses, Skip, Blocked, TransportAccepts,
     TransportFails, Defect, RecordFailure, CommitSent, AnswerLost, CommitBreaks,
     CrashSender, Escapes, RollBack, Accepted, OutboxTypeOK, MessageStatus, history
<1>3. today' \subseteq Message /\ known' \subseteq Message
  BY CurrentType DEF SenderStep, SenderFault, CheckPasses, Skip, Blocked, TransportAccepts,
     TransportFails, Defect, RecordFailure, CommitSent, AnswerLost, CommitBreaks,
     CrashSender, Escapes, RollBack, At, OutboxTypeOK
<1>4. cached' \in [Sender -> BOOLEAN]
  BY DEF SenderStep, SenderFault, CheckPasses, Skip, Blocked, TransportAccepts,
     TransportFails, Defect, RecordFailure, CommitSent, AnswerLost, CommitBreaks,
     CrashSender, Escapes, RollBack, OutboxTypeOK
<1>5. /\ deliveries' \in [Message -> 0 .. MaxCount]
      /\ late' \in [Contact -> 0 .. MaxCount]
      /\ outToday' \in 0 .. MaxCount
  <2>1. CASE Accepted(s)
    BY <2>1, UpType DEF Accepted, OutboxTypeOK
  <2>2. CASE UNCHANGED <<deliveries, late, outToday>>
    BY <2>2 DEF OutboxTypeOK
  <2> QED
    BY <2>1, <2>2 DEF SenderStep, SenderFault, CheckPasses, Skip, Blocked,
       TransportAccepts, TransportFails, Defect, RecordFailure, CommitSent, AnswerLost,
       CommitBreaks, CrashSender, history
<1>6. faults' \in 0 .. MaxFaults
  BY OutboxAssumption DEF SenderStep, SenderFault, CheckPasses, Skip, Blocked,
     TransportAccepts, TransportFails, Defect, RecordFailure, CommitSent, AnswerLost,
     CommitBreaks, CrashSender, Fault, OutboxTypeOK
<1> QED
  BY <1>1, <1>2, <1>3, <1>4, <1>5, <1>6 DEF OutboxTypeOK

LEMMA OutboxTypeStep == OutboxTypeOK /\ [Next]_vars => OutboxTypeOK'
<1>1. OutboxTypeOK /\ UNCHANGED vars => OutboxTypeOK'
  BY DEF OutboxTypeOK, vars, senderVars, history
<1> QED
  BY <1>1, ReviewType, WorldType, TakeType, SenderType DEF Next

(* Every variable of the outbox keeps its type, and a sender that is not     *)
(* idle has a message to work on: the end of a batch is always noticed.      *)
THEOREM OutboxTypeCorrect == Spec => []OutboxTypeOK
BY OutboxInitType, OutboxTypeStep, PTL DEF Spec

-----------------------------------------------------------------------------
(***************************************************************************)
(* What a step does to the senders.                                        *)
(***************************************************************************)

\* Sender v keeps its place and its message.
Stays(v) == pc'[v] = pc[v] /\ fila'[v] = fila[v]

\* A step of one sender moves no other sender.
LEMMA OthersStay ==
  ASSUME OutboxTypeOK, NEW s \in Sender, SenderStep(s) \/ SenderFault(s)
  PROVE  \A v \in Sender \ {s} : Stays(v) /\ cached'[v] = cached[v]
BY DEF SenderStep, SenderFault, CheckPasses, Skip, Blocked, TransportAccepts, TransportFails,
   Defect, RecordFailure, CommitSent, AnswerLost, CommitBreaks, CrashSender, Escapes,
   RollBack, Advance, Stop, Goto, Stays, OutboxTypeOK

\* Where a step of a sender that is neither CheckPasses nor TransportAccepts ends.
LEMMA OutOfTransport ==
  ASSUME OutboxTypeOK, NEW s \in Sender,
         \/ Skip(s) \/ Blocked(s) \/ TransportFails(s) \/ Defect(s) \/ RecordFailure(s)
         \/ CommitSent(s) \/ SenderFault(s)
  PROVE  pc'[s] \in {"idle", "check", "record"}
BY DEF SenderFault, Skip, Blocked, TransportFails, Defect, RecordFailure, CommitSent,
   AnswerLost, CommitBreaks, CrashSender, Escapes, RollBack, Advance, Stop, Goto,
   OutboxTypeOK

\* Nobody else moves a sender, except that an idle one takes up messages.
LEMMA WorldKeepsSenders ==
  ASSUME OutboxTypeOK,
         \/ \E m \in Message : Draft(m) \/ Bounce(m)
         \/ \E r \in Reviewer : ReviewStep(r)
         \/ \E c \in Contact : OptOut(c)
         \/ HoursChange \/ NewDay
  PROVE  UNCHANGED senderVars
BY DEF Draft, Bounce, ReviewStep, ApproveCheck, RejectCheck, RequeueCheck, Review,
   ReviewCommit, OptOut, HoursChange, NewDay, senderVars

LEMMA TakeMovesIdle ==
  ASSUME OutboxTypeOK, NEW s \in Sender, TakeBatch(s) \/ \E m \in Message : TakeOne(s, m)
  PROVE  /\ \A v \in Sender \ {s} : Stays(v) /\ cached'[v] = cached[v]
         /\ pc'[s] = "check"
         /\ UNCHANGED <<status, today, optedOut, history>>
BY DEF TakeBatch, TakeOne, Take, Stays, OutboxTypeOK

-----------------------------------------------------------------------------
(***************************************************************************)
(* The human gate.                                                         *)
(***************************************************************************)

\* What is queued has been approved, what a sender believes to be queued too,
\* and so has what it hands to the transport.
ApprovedInv ==
  /\ OutboxTypeOK
  /\ DeliveredWasApproved
  /\ \A m \in Message : status[m] = "queued" => m \in approved
  /\ \A s \in Sender : cached[s] => fila[s] \subseteq approved
  /\ \A s \in Sender : pc[s] = "transport" => Current(s) \in approved

LEMMA ApprovedInit == Init => ApprovedInv
BY OutboxInitType DEF Init, ApprovedInv, DeliveredWasApproved

\* Steps that leave the senders and their deliveries alone and approve what
\* they queue.
LEMMA ApprovedByOthers ==
  ASSUME ApprovedInv, OutboxTypeOK', UNCHANGED <<senderVars, deliveries>>,
         approved \subseteq approved',
         \A m \in Message : status'[m] = "queued" => status[m] = "queued" \/ m \in approved'
  PROVE  ApprovedInv'
<1>1. \A s \in Sender : Current(s)' = Current(s)
  BY DEF Current, senderVars
<1> QED
  BY <1>1 DEF ApprovedInv, DeliveredWasApproved, senderVars

LEMMA ApprovedStep == ApprovedInv /\ [Next]_vars => ApprovedInv'
<1> SUFFICES ASSUME ApprovedInv, [Next]_vars
             PROVE  ApprovedInv'
  OBVIOUS
<1>0. OutboxTypeOK /\ OutboxTypeOK'
  BY OutboxTypeStep DEF ApprovedInv
<1>1. ASSUME \/ \E m \in Message : Draft(m) \/ Bounce(m)
             \/ \E r \in Reviewer : ReviewStep(r)
             \/ \E c \in Contact : OptOut(c)
             \/ HoursChange \/ NewDay
      PROVE  ApprovedInv'
  <2>1. UNCHANGED senderVars
    BY <1>0, <1>1, WorldKeepsSenders
  <2>2. ASSUME NEW m \in Message, Draft(m) \/ Bounce(m)
        PROVE  ApprovedInv'
    BY <1>0, <2>1, <2>2, ApprovedByOthers DEF Draft, Bounce, history, OutboxTypeOK
  <2>3. ASSUME NEW r \in Reviewer, ReviewStep(r)
        PROVE  ApprovedInv'
    <3>1. CASE ReviewCommit(r)
      BY <1>0, <2>1, <3>1, ApprovedByOthers DEF ReviewCommit, OutboxTypeOK
    <3>2. CASE \E m \in Message : ApproveCheck(r, m) \/ RejectCheck(r, m) \/ RequeueCheck(r, m)
      BY <1>0, <2>1, <3>2, ApprovedByOthers
      DEF ApproveCheck, RejectCheck, RequeueCheck, Review, history
    <3> QED
      BY <2>3, <3>1, <3>2 DEF ReviewStep
  <2>4. CASE (\E c \in Contact : OptOut(c)) \/ HoursChange \/ NewDay
    BY <1>0, <2>1, <2>4, ApprovedByOthers DEF OptOut, HoursChange, NewDay, history
  <2> QED
    BY <1>1, <2>2, <2>3, <2>4
<1>2. ASSUME NEW s \in Sender, TakeBatch(s) \/ \E m \in Message : TakeOne(s, m)
      PROVE  ApprovedInv'
  <2>1. \A v \in Sender \ {s} : Current(v)' = Current(v)
    BY <1>0, <1>2, TakeMovesIdle DEF Current, Stays
  <2>2. cached'[s] => fila'[s] \subseteq approved'
    <3>1. ASSUME NEW m \in Message, TakeOne(s, m)
          PROVE  cached'[s] = FALSE
      BY <1>0, <3>1 DEF TakeOne, Take, OutboxTypeOK
    <3>2. CASE TakeBatch(s)
      <4>1. PICK S \in SUBSET Queued : Take(s, S)
        BY <3>2 DEF TakeBatch
      <4>2. S \subseteq approved
        BY <4>1 DEF Queued, ApprovedInv
      <4> QED
        BY <1>0, <4>1, <4>2 DEF Take, OutboxTypeOK, history
    <3> QED
      BY <1>2, <3>1, <3>2
  <2> QED
    BY <1>0, <1>2, <2>1, <2>2, TakeMovesIdle
    DEF ApprovedInv, DeliveredWasApproved, Stays, history
<1>3. ASSUME NEW s \in Sender, SenderStep(s) \/ SenderFault(s)
      PROVE  ApprovedInv'
  <2>1. \A v \in Sender \ {s} : Current(v)' = Current(v)
    BY <1>0, <1>3, OthersStay DEF Current, Stays
  <2>2. approved' = approved
    BY <1>3
    DEF SenderStep, SenderFault, CheckPasses, Skip, Blocked, TransportAccepts,
        TransportFails, Defect, RecordFailure, CommitSent, AnswerLost, CommitBreaks,
        CrashSender, Accepted, history
  <2>3. \A m \in Message : status'[m] = "queued" => status[m] = "queued"
    BY <1>0, <1>3
    DEF SenderStep, SenderFault, CheckPasses, Skip, Blocked, TransportAccepts,
        TransportFails, Defect, RecordFailure, CommitSent, AnswerLost, CommitBreaks,
        CrashSender, Escapes, RollBack, OutboxTypeOK
  <2>4. cached'[s] => cached[s] /\ fila'[s] \subseteq fila[s]
    BY <1>0, <1>3
    DEF SenderStep, SenderFault, CheckPasses, Skip, Blocked, TransportAccepts,
        TransportFails, Defect, RecordFailure, CommitSent, AnswerLost, CommitBreaks,
        CrashSender, Escapes, RollBack, Advance, Stop, OutboxTypeOK
  <2>5. pc'[s] = "transport" => Current(s)' \in approved
    <3>1. CASE CheckPasses(s)
      <4>1. Current(s) \in fila[s] /\ Current(s) \in Message
        BY <1>0, <3>1, CurrentType DEF CheckPasses, At
      <4>2. Current(s) \in approved
        BY <3>1, <4>1 DEF CheckPasses, SeenQueued, ApprovedInv
      <4> QED
        BY <3>1, <4>2 DEF CheckPasses, Current
    <3>2. CASE TransportAccepts(s)
      BY <1>0, <3>2 DEF TransportAccepts, Goto, OutboxTypeOK
    <3> QED
      BY <1>0, <1>3, <3>1, <3>2, OutOfTransport DEF SenderStep
  <2>6. DeliveredWasApproved'
    <3>1. CASE Accepted(s) /\ At(s, "transport")
      BY <2>2, <3>1 DEF Accepted, At, ApprovedInv, DeliveredWasApproved, OutboxTypeOK
    <3>2. CASE UNCHANGED deliveries
      BY <2>2, <3>2 DEF ApprovedInv, DeliveredWasApproved
    <3> QED
      BY <1>3, <3>1, <3>2
      DEF SenderStep, SenderFault, CheckPasses, Skip, Blocked, TransportAccepts,
          TransportFails, Defect, RecordFailure, CommitSent, AnswerLost, CommitBreaks,
          CrashSender, history
  <2> QED
    BY <1>0, <1>3, <2>1, <2>2, <2>3, <2>4, <2>5, <2>6, OthersStay DEF ApprovedInv, Stays
<1>4. CASE UNCHANGED vars
  BY <1>0, <1>4, ApprovedByOthers DEF vars, history
<1> QED
  BY <1>1, <1>2, <1>3, <1>4 DEF Next

(* Nothing leaves that a person has not approved, however many sessions      *)
(* send and review side by side and whatever fails between their steps.      *)
THEOREM NothingLeavesUnapproved == Spec => []DeliveredWasApproved
<1>1. Spec => []ApprovedInv
  BY ApprovedInit, ApprovedStep, PTL DEF Spec
<1>2. ApprovedInv => DeliveredWasApproved
  BY DEF ApprovedInv
<1> QED
  BY <1>1, <1>2, PTL

-----------------------------------------------------------------------------
(***************************************************************************)
(* The limit of the day: whoever is past the check has its place counted.  *)
(***************************************************************************)

SentOfToday == {m \in today : status[m] = "sent"}

\* Senders whose email counts as soon as they commit.
InFlight == {s \in Sender : pc[s] \in {"transport", "commit"}}

LimitInv ==
  /\ OutboxTypeOK
  /\ SentToday + Cardinality(InFlight) <= Limit + Cardinality(Sender) - 1

\* A subset of a finite set is counted no higher.
LEMMA SubsetCount ==
  ASSUME NEW S, IsFiniteSet(S), NEW T \in SUBSET S
  PROVE  IsFiniteSet(T) /\ Cardinality(T) \in Nat /\ Cardinality(S) \in Nat
         /\ Cardinality(T) <= Cardinality(S)
BY FS_Subset, FS_CardinalityType

LEMMA LimitCounts ==
  ASSUME OutboxTypeOK
  PROVE  /\ IsFiniteSet(SentOfToday) /\ Cardinality(SentOfToday) \in Nat
         /\ SentToday = Cardinality(SentOfToday)
         /\ IsFiniteSet(InFlight) /\ Cardinality(InFlight) \in Nat
         /\ Cardinality(Sender) \in Nat /\ Limit \in Nat
<1>1. IsFiniteSet(Message)
  BY FS_Interval, OutboxAssumption DEF Message
<1>2. SentOfToday \subseteq Message /\ InFlight \subseteq Sender
  BY DEF SentOfToday, InFlight, OutboxTypeOK
<1>3. SentToday = Cardinality(SentOfToday)
  BY DEF SentToday, SentOfToday
<1> QED
  BY <1>1, <1>2, <1>3, SubsetCount, OutboxAssumption

LEMMA LimitInit == Init => LimitInv
<1> SUFFICES ASSUME Init
             PROVE  LimitInv
  OBVIOUS
<1>1. OutboxTypeOK
  BY OutboxInitType
<1>2. SentOfToday = {} /\ InFlight = {}
  BY DEF Init, SentOfToday, InFlight
<1>3. SentToday = 0 /\ Cardinality(InFlight) = 0
  BY <1>1, <1>2, LimitCounts, FS_EmptySet
<1> QED
  BY <1>1, <1>3, LimitCounts, OutboxAssumption DEF LimitInv

\* Nothing new counts as sent and nobody new is in flight.
LEMMA LimitShrinks ==
  ASSUME LimitInv, OutboxTypeOK', SentOfToday' \subseteq SentOfToday,
         InFlight' \subseteq InFlight
  PROVE  LimitInv'
<1>1. /\ Cardinality(SentOfToday') <= Cardinality(SentOfToday)
      /\ Cardinality(InFlight') <= Cardinality(InFlight)
      /\ Cardinality(SentOfToday') \in Nat /\ Cardinality(InFlight') \in Nat
  BY LimitCounts, SubsetCount DEF LimitInv
<1>2. SentToday' = Cardinality(SentOfToday')
  BY DEF SentToday, SentOfToday
<1> QED
  BY <1>1, <1>2, LimitCounts DEF LimitInv

LEMMA LimitCheck ==
  ASSUME LimitInv, OutboxTypeOK', NEW s \in Sender, CheckPasses(s)
  PROVE  LimitInv'
<1>1. SentToday' = SentToday /\ SentToday < Limit
  BY DEF CheckPasses, SentToday, Cota
<1>2. InFlight' \subseteq Sender
  BY DEF InFlight
<1>3. Cardinality(InFlight') \in Nat /\ Cardinality(InFlight') <= Cardinality(Sender)
  BY <1>2, SubsetCount, OutboxAssumption
<1> QED
  BY <1>1, <1>3, LimitCounts DEF LimitInv

LEMMA LimitCommit ==
  ASSUME LimitInv, OutboxTypeOK', NEW s \in Sender, CommitSent(s)
  PROVE  LimitInv'
<1> DEFINE m == Current(s)
<1>1. SentOfToday' \subseteq SentOfToday \cup {m}
  BY DEF CommitSent, SentOfToday, LimitInv, OutboxTypeOK
<1>2. InFlight' = InFlight \ {s} /\ s \in InFlight
  BY OthersStay, OutOfTransport, ZenonT(60)
  DEF CommitSent, SenderStep, At, InFlight, Stays, LimitInv, OutboxTypeOK
<1>3. Cardinality(SentOfToday') <= Cardinality(SentOfToday) + 1
      /\ Cardinality(SentOfToday') \in Nat
  <2>1. IsFiniteSet(SentOfToday) /\ Cardinality(SentOfToday) \in Nat
    BY LimitCounts DEF LimitInv
  <2> HIDE DEF m
  <2>2. /\ IsFiniteSet(SentOfToday \cup {m})
        /\ Cardinality(SentOfToday \cup {m}) = IF m \in SentOfToday
             THEN Cardinality(SentOfToday) ELSE Cardinality(SentOfToday) + 1
    BY <2>1, FS_AddElement
  <2>3. Cardinality(SentOfToday \cup {m}) <= Cardinality(SentOfToday) + 1
    BY <2>1, <2>2
  <2> QED
    BY <1>1, <2>1, <2>2, <2>3, SubsetCount
<1>4. Cardinality(InFlight') = Cardinality(InFlight) - 1
  BY <1>2, LimitCounts, FS_RemoveElement DEF LimitInv
<1>5. SentToday' = Cardinality(SentOfToday')
  BY DEF SentToday, SentOfToday
<1> QED
  BY <1>3, <1>4, <1>5, LimitCounts DEF LimitInv

LEMMA LimitStep == LimitInv /\ [Next]_vars => LimitInv'
<1> SUFFICES ASSUME LimitInv, [Next]_vars
             PROVE  LimitInv'
  OBVIOUS
<1>0. OutboxTypeOK /\ OutboxTypeOK'
  BY OutboxTypeStep DEF LimitInv
<1>1. ASSUME \/ \E m \in Message : Draft(m) \/ Bounce(m)
             \/ \E r \in Reviewer : ReviewStep(r)
             \/ \E c \in Contact : OptOut(c)
             \/ HoursChange \/ NewDay
      PROVE  LimitInv'
  <2>1. InFlight' = InFlight
    BY <1>0, <1>1, WorldKeepsSenders DEF InFlight, senderVars
  <2>2. \A m \in Message : status'[m] = "sent" => status[m] = "sent"
    <3>1. ASSUME NEW r \in Reviewer, ReviewCommit(r)
          PROVE  \A m \in Message : status'[m] = "sent" => status[m] = "sent"
      <4>1. review[r].to # "sent"
        BY <1>0, <3>1 DEF ReviewCommit, OutboxTypeOK
      <4> QED
        BY <1>0, <3>1, <4>1 DEF ReviewCommit, OutboxTypeOK
    <3> QED
      BY <1>0, <1>1, <3>1
      DEF Draft, Bounce, ReviewStep, ApproveCheck, RejectCheck, RequeueCheck, Review, OptOut,
          HoursChange, NewDay, OutboxTypeOK
  <2>3. today' \subseteq today
    BY <1>1
    DEF Draft, Bounce, ReviewStep, ApproveCheck, RejectCheck, RequeueCheck, Review,
        ReviewCommit, OptOut, HoursChange, NewDay
  <2>4. SentOfToday' \subseteq SentOfToday
    BY <1>0, <2>2, <2>3 DEF SentOfToday, OutboxTypeOK
  <2> QED
    BY <1>0, <2>1, <2>4, LimitShrinks
<1>2. ASSUME NEW s \in Sender, TakeBatch(s) \/ \E m \in Message : TakeOne(s, m)
      PROVE  LimitInv'
  <2>1. InFlight' \subseteq InFlight /\ SentOfToday' = SentOfToday
    BY <1>0, <1>2, TakeMovesIdle DEF InFlight, SentOfToday, Stays
  <2> QED
    BY <1>0, <2>1, LimitShrinks
<1>3. ASSUME NEW s \in Sender, TransportAccepts(s)
      PROVE  LimitInv'
  <2>1. InFlight' \subseteq InFlight /\ SentOfToday' = SentOfToday
    BY <1>0, <1>3, OthersStay
    DEF TransportAccepts, SenderStep, At, Goto, InFlight, SentOfToday, Stays, OutboxTypeOK
  <2> QED
    BY <1>0, <2>1, LimitShrinks
<1>4. ASSUME NEW s \in Sender,
             \/ Skip(s) \/ Blocked(s) \/ TransportFails(s) \/ Defect(s) \/ RecordFailure(s)
             \/ SenderFault(s)
      PROVE  LimitInv'
  <2>1. InFlight' \subseteq InFlight
    BY <1>0, <1>4, OthersStay, OutOfTransport DEF SenderStep, InFlight, Stays
  <2>2. SentOfToday' \subseteq SentOfToday
    BY <1>0, <1>4
    DEF SenderFault, Skip, Blocked, TransportFails, Defect, RecordFailure, AnswerLost,
        CommitBreaks, CrashSender, Escapes, RollBack, SentOfToday, OutboxTypeOK
  <2> QED
    BY <1>0, <2>1, <2>2, LimitShrinks
<1>5. CASE UNCHANGED vars
  BY <1>0, <1>5, LimitShrinks DEF vars, senderVars, InFlight, SentOfToday
<1> QED
  BY <1>0, <1>1, <1>2, <1>3, <1>4, <1>5, LimitCheck, LimitCommit DEF Next, SenderStep

(* Any number of sessions that send side by side overshoot the limit of the  *)
(* day by less than one email each: the last place may be seen by all, but   *)
(* nobody passes the check once the limit is recorded as reached.            *)
THEOREM OvershootIsBounded == Spec => []LimitOvershootIsBounded
<1>1. Spec => []LimitInv
  BY LimitInit, LimitStep, PTL DEF Spec
<1>2. LimitInv => LimitOvershootIsBounded
  BY LimitCounts DEF LimitInv, LimitOvershootIsBounded
<1> QED
  BY <1>1, <1>2, PTL

-----------------------------------------------------------------------------
(***************************************************************************)
(* Opting out: every late email was with a sender past the check.          *)
(***************************************************************************)

\* Senders that may still let out an email to c.
Bearing(c) == {s \in Sender : pc[s] = "transport" /\ To[Current(s)] = c}

OptOutInv ==
  /\ OutboxTypeOK
  /\ \A c \in Contact : /\ late[c] + Cardinality(Bearing(c)) <= Cardinality(Sender)
                        /\ c \notin optedOut => late[c] = 0

LEMMA BearingCounts ==
  ASSUME NEW c
  PROVE  /\ IsFiniteSet(Bearing(c)) /\ Cardinality(Bearing(c)) \in Nat
         /\ Cardinality(Bearing(c)) <= Cardinality(Sender) /\ Cardinality(Sender) \in Nat
BY SubsetCount, OutboxAssumption DEF Bearing

LEMMA OptOutInit == Init => OptOutInv
<1> SUFFICES ASSUME Init
             PROVE  OptOutInv
  OBVIOUS
<1>1. \A c \in Contact : late[c] = 0
  BY DEF Init
<1> QED
  BY <1>1, OutboxInitType, BearingCounts DEF OptOutInv

\* No contact gets a late email or a new bearer.
LEMMA OptOutShrinks ==
  ASSUME OptOutInv, OutboxTypeOK', late' = late, optedOut \subseteq optedOut',
         \A c \in Contact : Bearing(c)' \subseteq Bearing(c)
  PROVE  OptOutInv'
<1> SUFFICES ASSUME NEW c \in Contact
             PROVE  /\ late[c] + Cardinality(Bearing(c)') <= Cardinality(Sender)
                    /\ c \notin optedOut' => late[c] = 0
  BY DEF OptOutInv
<1>1. Cardinality(Bearing(c)') <= Cardinality(Bearing(c)) /\ Cardinality(Bearing(c)') \in Nat
  BY BearingCounts, SubsetCount
<1>2. late[c] \in Nat
  BY CountType DEF OptOutInv, OutboxTypeOK
<1> QED
  BY <1>1, <1>2, BearingCounts DEF OptOutInv

LEMMA OptOutCheck ==
  ASSUME OptOutInv, OutboxTypeOK', NEW s \in Sender, CheckPasses(s)
  PROVE  OptOutInv'
<1> SUFFICES ASSUME NEW c \in Contact
             PROVE  /\ late'[c] + Cardinality(Bearing(c)') <= Cardinality(Sender)
                    /\ c \notin optedOut' => late'[c] = 0
  BY DEF OptOutInv
<1>1. late' = late /\ optedOut' = optedOut
  BY DEF CheckPasses, history
<1>2. Bearing(c)' \subseteq Sender
  BY DEF Bearing
<1>3. Cardinality(Bearing(c)') \in Nat /\ Cardinality(Bearing(c)') <= Cardinality(Sender)
  BY <1>2, SubsetCount, OutboxAssumption
<1>4. CASE c \notin optedOut
  BY <1>1, <1>3, <1>4 DEF OptOutInv
<1>5. CASE c \in optedOut
  <2>1. To[Current(s)] # c
    BY <1>5 DEF CheckPasses, Descadastrado
  <2>2. Bearing(c)' \subseteq Bearing(c)
    BY <2>1, OthersStay DEF CheckPasses, SenderStep, Bearing, Current, Stays, OptOutInv
  <2>3. Cardinality(Bearing(c)') <= Cardinality(Bearing(c))
    BY <2>2, BearingCounts, SubsetCount
  <2>4. late[c] \in Nat
    BY CountType DEF OptOutInv, OutboxTypeOK
  <2> QED
    BY <1>1, <1>3, <1>5, <2>3, <2>4, BearingCounts DEF OptOutInv
<1> QED
  BY <1>4, <1>5

\* The server takes an email: the sender was a bearer and is none any more.
LEMMA OptOutAccepted ==
  ASSUME OptOutInv, OutboxTypeOK', NEW s \in Sender, TransportAccepts(s) \/ AnswerLost(s)
  PROVE  OptOutInv'
<1> SUFFICES ASSUME NEW c \in Contact
             PROVE  /\ late'[c] + Cardinality(Bearing(c)') <= Cardinality(Sender)
                    /\ c \notin optedOut' => late'[c] = 0
  BY DEF OptOutInv
<1> DEFINE Bears == s \in Bearing(c)
<1>1. pc[s] = "transport" /\ Accepted(s) /\ optedOut' = optedOut
  BY DEF TransportAccepts, AnswerLost, RollBack, At
<1>2. pc'[s] # "transport"
  BY DEF TransportAccepts, AnswerLost, RollBack, Goto, OptOutInv, OutboxTypeOK
<1>3. Bearing(c)' = Bearing(c) \ {s}
  BY <1>2, OthersStay
  DEF SenderStep, SenderFault, Bearing, Current, Stays, OptOutInv
<1>4. Cardinality(Bearing(c)') = IF Bears THEN Cardinality(Bearing(c)) - 1
                                          ELSE Cardinality(Bearing(c))
  BY <1>3, BearingCounts, FS_RemoveElement
<1>5. late[c] \in 0 .. MaxCount
  BY DEF OptOutInv, OutboxTypeOK
<1>6. CASE To[Current(s)] = c /\ c \in optedOut
  <2>1. Bears
    BY <1>1, <1>6 DEF Bearing
  <2>2. late'[c] = Up(late[c])
    BY <1>1, <1>6 DEF Accepted, OptOutInv, OutboxTypeOK
  <2>3. late'[c] \in 0 .. MaxCount /\ late'[c] <= late[c] + 1
    BY <1>5, <2>2, UpType
  <2> HIDE DEF Bears
  <2> QED
    BY <1>1, <1>4, <1>5, <1>6, <2>1, <2>3, BearingCounts, CountType DEF OptOutInv
<1>7. CASE ~(To[Current(s)] = c /\ c \in optedOut)
  <2>1. late'[c] = late[c]
    BY <1>1, <1>7 DEF Accepted, OptOutInv, OutboxTypeOK
  <2> HIDE DEF Bears
  <2> QED
    BY <1>1, <1>4, <1>5, <2>1, BearingCounts, CountType DEF OptOutInv
<1> QED
  BY <1>6, <1>7

LEMMA OptOutStep == OptOutInv /\ [Next]_vars => OptOutInv'
<1> SUFFICES ASSUME OptOutInv, [Next]_vars
             PROVE  OptOutInv'
  OBVIOUS
<1>0. OutboxTypeOK /\ OutboxTypeOK'
  BY OutboxTypeStep DEF OptOutInv
<1>1. ASSUME \/ \E m \in Message : Draft(m) \/ Bounce(m)
             \/ \E r \in Reviewer : ReviewStep(r)
             \/ \E c \in Contact : OptOut(c)
             \/ HoursChange \/ NewDay
      PROVE  OptOutInv'
  <2>1. \A c \in Contact : Bearing(c)' = Bearing(c)
    BY <1>0, <1>1, WorldKeepsSenders DEF Bearing, Current, senderVars
  <2>2. late' = late /\ optedOut \subseteq optedOut'
    BY <1>1
    DEF Draft, Bounce, ReviewStep, ApproveCheck, RejectCheck, RequeueCheck, Review,
        ReviewCommit, OptOut, HoursChange, NewDay, history
  <2> QED
    BY <1>0, <2>1, <2>2, OptOutShrinks
<1>2. ASSUME NEW s \in Sender, TakeBatch(s) \/ \E m \in Message : TakeOne(s, m)
      PROVE  OptOutInv'
  <2>1. \A c \in Contact : Bearing(c)' \subseteq Bearing(c)
    BY <1>0, <1>2, TakeMovesIdle DEF Bearing, Current, Stays
  <2>2. late' = late /\ optedOut' = optedOut
    BY <1>0, <1>2, TakeMovesIdle DEF history
  <2> QED
    BY <1>0, <2>1, <2>2, OptOutShrinks
<1>3. ASSUME NEW s \in Sender,
             \/ Skip(s) \/ Blocked(s) \/ TransportFails(s) \/ Defect(s) \/ RecordFailure(s)
             \/ CommitSent(s) \/ CommitBreaks(s) \/ CrashSender(s)
      PROVE  OptOutInv'
  <2>1. \A c \in Contact : Bearing(c)' \subseteq Bearing(c)
    BY <1>0, <1>3, OthersStay, OutOfTransport
    DEF SenderStep, SenderFault, Bearing, Current, Stays
  <2>2. late' = late /\ optedOut' = optedOut
    BY <1>3
    DEF Skip, Blocked, TransportFails, Defect, RecordFailure, CommitSent, CommitBreaks,
        CrashSender, Escapes, RollBack, history
  <2> QED
    BY <1>0, <2>1, <2>2, OptOutShrinks
<1>4. CASE UNCHANGED vars
  BY <1>0, <1>4, OptOutShrinks DEF vars, senderVars, history, Bearing, Current
<1> QED
  BY <1>0, <1>1, <1>2, <1>3, <1>4, OptOutCheck, OptOutAccepted
  DEF Next, SenderStep, SenderFault

(* A contact that has asked to leave gets at most one more email from each   *)
(* session that sends: the one it had in hand past the check.                *)
THEOREM OptOutIsHonoured == Spec => []OptOutStopsTheRest
<1>1. Spec => []OptOutInv
  BY OptOutInit, OptOutStep, PTL DEF Spec
<1>2. OptOutInv => OptOutStopsTheRest
  <2> SUFFICES ASSUME OptOutInv, NEW c \in Contact
               PROVE  late[c] <= Cardinality(Sender)
    BY DEF OptOutStopsTheRest
  <2>1. late[c] \in Nat
    BY CountType DEF OptOutInv, OutboxTypeOK
  <2> QED
    BY <2>1, BearingCounts DEF OptOutInv
<1> QED
  BY <1>1, <1>2, PTL

-----------------------------------------------------------------------------
(***************************************************************************)
(* The gate the other way round: with one request that reviews, what was   *)
(* rejected has not left.                                                  *)
(***************************************************************************)

\* Nothing lies between the check of a reviewer and its commit.
OneReviewer == \A q, r \in Reviewer : q = r

\* Whatever still waits for the gate, or has been barred, was never approved,
\* and what is on its way was.
BarredInv ==
  /\ ApprovedInv
  /\ known \subseteq approved
  /\ \A m \in Message : status[m] \in {"absent", "draft", "rejected"} => m \notin approved
  /\ \A r \in Reviewer : review[r] # NoReview /\ review[r].to = "rejected"
                           => status[review[r].message] = "draft"
  /\ \A s \in Sender : pc[s] \in {"commit", "record"} => Current(s) \in approved

LEMMA BarredInit == Init => BarredInv
BY ApprovedInit DEF Init, BarredInv

\* Steps that leave the senders, the reviews and the gate alone.
LEMMA BarredByOthers ==
  ASSUME BarredInv, ApprovedInv', UNCHANGED <<senderVars, review, approved, known>>,
         \A m \in Message : \/ status'[m] = status[m]
                            \/ status[m] = "absent" /\ status'[m] = "draft"
                            \/ m \in approved /\ status'[m] = "bounced"
  PROVE  BarredInv'
<1>1. \A s \in Sender : Current(s)' = Current(s)
  BY DEF Current, senderVars
<1>2. OutboxTypeOK
  BY DEF BarredInv, ApprovedInv
<1>3. \A m \in Message : status'[m] \in {"absent", "draft", "rejected"} => m \notin approved
  BY DEF BarredInv
<1>4. ASSUME NEW r \in Reviewer, review[r] # NoReview, review[r].to = "rejected"
      PROVE  status'[review[r].message] = "draft"
  <2>1. review[r].message \in Message /\ status[review[r].message] = "draft"
    BY <1>2, <1>4 DEF BarredInv, OutboxTypeOK
  <2> QED
    BY <2>1 DEF BarredInv
<1> QED
  BY <1>1, <1>3, <1>4 DEF BarredInv, senderVars

LEMMA BarredReview ==
  ASSUME OneReviewer, BarredInv, ApprovedInv', NEW r \in Reviewer, ReviewStep(r)
  PROVE  BarredInv'
<1>0. OutboxTypeOK /\ OutboxTypeOK'
  BY DEF BarredInv, ApprovedInv
<1>1. UNCHANGED senderVars /\ \A s \in Sender : Current(s)' = Current(s)
  BY <1>0, WorldKeepsSenders DEF Current, senderVars
<1>2. ASSUME NEW m \in Message, NEW t, Review(r, m, t), t = "rejected" => status[m] = "draft"
      PROVE  BarredInv'
  <2>1. UNCHANGED <<status, approved, known, pc>>
    BY <1>2 DEF Review, senderVars, history
  <2>2. review'[r] = [message |-> m, to |-> t] /\ \A q \in Reviewer : q # r => review'[q] = review[q]
    BY <1>0, <1>2 DEF Review, OutboxTypeOK
  <2> QED
    BY <1>1, <1>2, <2>1, <2>2 DEF BarredInv
<1>3. CASE ReviewCommit(r)
  <2> DEFINE m == review[r].message
  <2>1. review[r] # NoReview /\ m \in Message /\ review[r].to \in {"queued", "rejected"}
    BY <1>0, <1>3 DEF ReviewCommit, OutboxTypeOK
  <2>2. /\ status' = [status EXCEPT ![m] = review[r].to]
        /\ approved' = IF review[r].to = "queued" THEN approved \cup {m} ELSE approved
        /\ review' = [review EXCEPT ![r] = NoReview]
        /\ UNCHANGED known
    BY <1>3 DEF ReviewCommit
  <2>3. \A q \in Reviewer : review'[q] = NoReview
    BY <1>0, <2>2 DEF OneReviewer, OutboxTypeOK
  <2>4. ASSUME NEW n \in Message, status'[n] \in {"absent", "draft", "rejected"}
        PROVE  n \notin approved'
    <3>1. CASE n = m
      <4>1. review[r].to = "rejected" /\ approved' = approved
        BY <1>0, <2>1, <2>2, <2>4, <3>1 DEF OutboxTypeOK
      <4> QED
        BY <2>1, <3>1, <4>1 DEF BarredInv
    <3>2. CASE n # m
      BY <1>0, <2>1, <2>2, <2>4, <3>2 DEF BarredInv, OutboxTypeOK
    <3> QED
      BY <3>1, <3>2
  <2> HIDE DEF m
  <2> QED
    BY <1>1, <2>2, <2>3, <2>4 DEF BarredInv, senderVars
<1> QED
  BY <1>2, <1>3 DEF ReviewStep, ApproveCheck, RejectCheck, RequeueCheck, Reviewable

\* A sender writes the status of its current message, past the transport.
LEMMA SenderWrites ==
  ASSUME NEW s \in Sender, SenderStep(s) \/ SenderFault(s)
  PROVE  \/ UNCHANGED <<status, today, known>>
         \/ /\ CommitSent(s) /\ pc[s] = "commit"
            /\ status' = [status EXCEPT ![Current(s)] = "sent"]
         \/ /\ RecordFailure(s) /\ pc[s] = "record"
            /\ status' = [status EXCEPT ![Current(s)] = "failed"]
            /\ UNCHANGED <<today, known>>
BY DEF SenderStep, SenderFault, CheckPasses, Skip, Blocked, TransportAccepts,
   TransportFails, Defect, RecordFailure, CommitSent, AnswerLost, CommitBreaks,
   CrashSender, Escapes, RollBack, At

\* A sender writes what it has taken through the gate, and nothing else.
LEMMA BarredSender ==
  ASSUME BarredInv, ApprovedInv', NEW s \in Sender, SenderStep(s) \/ SenderFault(s)
  PROVE  BarredInv'
<1>0. OutboxTypeOK /\ OutboxTypeOK'
  BY DEF BarredInv, ApprovedInv
<1>1. \A v \in Sender \ {s} : pc'[v] = pc[v] /\ Current(v)' = Current(v)
  BY <1>0, OthersStay DEF Current, Stays
<1>2. UNCHANGED <<approved, review>>
  BY DEF SenderStep, SenderFault, CheckPasses, Skip, Blocked, TransportAccepts,
     TransportFails, Defect, RecordFailure, CommitSent, AnswerLost, CommitBreaks,
     CrashSender, Escapes, RollBack, Accepted, history
<1>3. pc[s] \in {"transport", "commit", "record"} => Current(s) \in approved /\ Current(s) \in Message
  BY <1>0, CurrentType DEF BarredInv, ApprovedInv
<1>4. pc'[s] \in {"commit", "record"} => Current(s)' \in approved
  BY <1>0, <1>3
  DEF SenderStep, SenderFault, CheckPasses, Skip, Blocked, TransportAccepts,
      TransportFails, Defect, RecordFailure, CommitSent, AnswerLost, CommitBreaks,
      CrashSender, Escapes, RollBack, Advance, Stop, Goto, At, Current, OutboxTypeOK
<1>5. \A m \in Message : \/ status'[m] = status[m]
                         \/ m \in approved /\ status'[m] \in {"sent", "failed"}
  <2>1. ASSUME NEW x \in {"sent", "failed"}, pc[s] \in {"commit", "record"},
               status' = [status EXCEPT ![Current(s)] = x]
        PROVE  \A m \in Message : \/ status'[m] = status[m]
                                  \/ m \in approved /\ status'[m] \in {"sent", "failed"}
    BY <1>0, <1>3, <2>1 DEF OutboxTypeOK
  <2>2. CASE UNCHANGED status
    BY <2>2
  <2> QED
    BY <2>1, <2>2, SenderWrites
<1>6. known' \subseteq approved
  BY <1>3, SenderWrites DEF CommitSent, BarredInv
<1>7. ASSUME NEW r \in Reviewer, review[r] # NoReview, review[r].to = "rejected"
      PROVE  status'[review[r].message] = "draft"
  <2>1. review[r].message \in Message /\ status[review[r].message] = "draft"
    BY <1>0, <1>7 DEF BarredInv, OutboxTypeOK
  <2> QED
    BY <1>5, <2>1 DEF BarredInv
<1>8. \A m \in Message : status'[m] \in {"absent", "draft", "rejected"} => m \notin approved
  BY <1>5 DEF BarredInv
<1> QED
  BY <1>1, <1>2, <1>4, <1>6, <1>7, <1>8 DEF BarredInv

LEMMA BarredStep == OneReviewer /\ BarredInv /\ [Next]_vars => BarredInv'
<1> SUFFICES ASSUME OneReviewer, BarredInv, [Next]_vars
             PROVE  BarredInv'
  OBVIOUS
<1>0. OutboxTypeOK /\ OutboxTypeOK' /\ ApprovedInv'
  BY ApprovedStep DEF BarredInv, ApprovedInv
<1>1. ASSUME \/ \E m \in Message : Draft(m) \/ Bounce(m)
             \/ \E c \in Contact : OptOut(c)
             \/ HoursChange \/ NewDay
      PROVE  BarredInv'
  <2>1. UNCHANGED senderVars
    BY <1>0, <1>1, WorldKeepsSenders
  <2>2. CASE \E m \in Message : Draft(m) \/ Bounce(m)
    BY <1>0, <2>1, <2>2, BarredByOthers DEF Draft, Bounce, BarredInv, history, OutboxTypeOK
  <2>3. CASE (\E c \in Contact : OptOut(c)) \/ HoursChange \/ NewDay
    BY <1>0, <2>1, <2>3, BarredByOthers DEF OptOut, HoursChange, NewDay, history
  <2> QED
    BY <1>1, <2>2, <2>3
<1>2. ASSUME NEW s \in Sender, TakeBatch(s) \/ \E m \in Message : TakeOne(s, m)
      PROVE  BarredInv'
  <2>1. \A v \in Sender \ {s} : pc'[v] = pc[v] /\ Current(v)' = Current(v)
    BY <1>0, <1>2, TakeMovesIdle DEF Current, Stays
  <2>2. pc'[s] = "check" /\ UNCHANGED <<status, approved, review, known>>
    BY <1>0, <1>2, TakeMovesIdle DEF TakeBatch, TakeOne, Take, history
  <2> QED
    BY <1>0, <2>1, <2>2 DEF BarredInv
<1>3. CASE UNCHANGED vars
  BY <1>0, <1>3, BarredByOthers DEF vars, history
<1> QED
  BY <1>0, <1>1, <1>2, <1>3, BarredReview, BarredSender DEF Next

(* With one request that reviews, a message a person has barred was never    *)
(* delivered and will not be, however many senders are at work. *)
THEOREM BarredStaysHome ==
  ASSUME OneReviewer
  PROVE  Spec => []RejectedStaysHome
<1>1. BarredInv => RejectedStaysHome
  BY CountType DEF BarredInv, ApprovedInv, DeliveredWasApproved, RejectedStaysHome, OutboxTypeOK
<1>2. BarredInv /\ [Next]_vars => BarredInv'
  BY BarredStep
<1> QED
  BY <1>1, <1>2, BarredInit, PTL DEF Spec

-----------------------------------------------------------------------------
(***************************************************************************)
(* One sender and one request that reviews: what each has read is still    *)
(* true when it writes.                                                    *)
(***************************************************************************)

OneSender == \A s, v \in Sender : s = v

Alone == OneSender /\ OneReviewer

\* A message with a Message-ID has been sent, and may have bounced; nobody
\* reviews it.  What a sender is at work on is still queued, and so is what is
\* left of a batch whose statuses it holds to be current.
AloneInv ==
  /\ OutboxTypeOK
  /\ \A m \in known : status[m] \in {"sent", "bounced"}
  /\ today \subseteq known
  /\ \A r \in Reviewer : review[r] # NoReview
                           => status[review[r].message] \in {"draft", "failed"}
  /\ \A s \in Sender : cached[s] => \A m \in fila[s] : status[m] = "queued"
  /\ \A s \in Sender : pc[s] \in {"transport", "commit", "record"}
                         => status[Current(s)] = "queued"

LEMMA AloneInit == Init => AloneInv
BY OutboxInitType DEF Init, AloneInv

\* Statuses that nobody has at hand may change, and so may the clock.
LEMMA AloneByOthers ==
  ASSUME AloneInv, OutboxTypeOK', UNCHANGED <<senderVars, review, known>>,
         today' \subseteq today,
         \A m \in Message : \/ status'[m] = status[m]
                            \/ status[m] = "absent"
                            \/ m \in known /\ status'[m] = "bounced"
  PROVE  AloneInv'
<1>1. \A s \in Sender : Current(s)' = Current(s)
  BY DEF Current, senderVars
<1>2. \A m \in Message : status[m] = "queued" \/ status[m] \in {"draft", "failed"}
                           => status'[m] = status[m]
  BY DEF AloneInv
<1>3. \A s \in Sender : pc[s] # "idle" => Current(s) \in Message
  BY CurrentType DEF AloneInv
<1>4. \A s \in Sender : cached'[s] => \A m \in fila'[s] : status'[m] = "queued"
  BY <1>2 DEF AloneInv, OutboxTypeOK, senderVars
<1>5. \A s \in Sender : pc'[s] \in {"transport", "commit", "record"}
                          => status'[Current(s)'] = "queued"
  BY <1>1, <1>2, <1>3 DEF AloneInv, senderVars
<1>6. \A r \in Reviewer : review'[r] # NoReview
                            => status'[review'[r].message] \in {"draft", "failed"}
  <2> SUFFICES ASSUME NEW r \in Reviewer, review[r] # NoReview
               PROVE  status'[review[r].message] \in {"draft", "failed"}
    OBVIOUS
  <2>1. review[r].message \in Message /\ status[review[r].message] \in {"draft", "failed"}
    BY DEF AloneInv, OutboxTypeOK
  <2> QED
    BY <1>2, <2>1
<1>7. \A m \in known' : status'[m] \in {"sent", "bounced"}
  BY DEF AloneInv, OutboxTypeOK
<1> QED
  BY <1>4, <1>5, <1>6, <1>7 DEF AloneInv

\* The only reviewer writes what it has read to be a draft, or to have failed.
LEMMA ReviewWrites ==
  ASSUME OneReviewer, AloneInv, OutboxTypeOK', NEW r \in Reviewer, ReviewCommit(r)
  PROVE  /\ \E m \in Message, t \in {"queued", "rejected"} :
              /\ status[m] \in {"draft", "failed"}
              /\ status' = [status EXCEPT ![m] = t]
         /\ \A q \in Reviewer : review'[q] = NoReview
         /\ UNCHANGED <<senderVars, known, today, faults, deliveries, outToday>>
<1>1. review[r] # NoReview /\ review[r].message \in Message /\ review[r].to \in {"queued", "rejected"}
  BY DEF ReviewCommit, AloneInv, OutboxTypeOK
<1>2. status[review[r].message] \in {"draft", "failed"}
  BY <1>1 DEF AloneInv
<1>3. status' = [status EXCEPT ![review[r].message] = review[r].to]
  BY DEF ReviewCommit
<1>4. \A q \in Reviewer : review'[q] = NoReview
  BY DEF ReviewCommit, OneReviewer, AloneInv, OutboxTypeOK
<1>5. UNCHANGED <<senderVars, known, today, faults, deliveries, outToday>>
  BY DEF ReviewCommit
<1> QED
  BY <1>1, <1>2, <1>3, <1>4, <1>5

LEMMA AloneReview ==
  ASSUME OneReviewer, AloneInv, OutboxTypeOK', NEW r \in Reviewer, ReviewStep(r)
  PROVE  AloneInv'
<1>1. CASE ReviewCommit(r)
  <2>1. PICK m \in Message, t \in {"queued", "rejected"} :
          /\ status[m] \in {"draft", "failed"}
          /\ status' = [status EXCEPT ![m] = t]
    BY <1>1, ReviewWrites
  <2>2. /\ \A q \in Reviewer : review'[q] = NoReview
        /\ UNCHANGED <<senderVars, known, today>>
    BY <1>1, ReviewWrites
  <2>3. \A n \in Message : status[n] \in {"queued", "sent", "bounced"} => status'[n] = status[n]
    BY <2>1 DEF AloneInv, OutboxTypeOK
  <2>4. \A s \in Sender : Current(s)' = Current(s)
    BY <2>2 DEF Current, senderVars
  <2>5. \A s \in Sender : pc[s] # "idle" => Current(s) \in Message
    BY CurrentType DEF AloneInv
  <2>6. \A s \in Sender : cached'[s] => \A n \in fila'[s] : status'[n] = "queued"
    BY <2>2, <2>3 DEF AloneInv, OutboxTypeOK, senderVars
  <2>7. \A s \in Sender : pc'[s] \in {"transport", "commit", "record"}
                            => status'[Current(s)'] = "queued"
    BY <2>2, <2>3, <2>4, <2>5 DEF AloneInv, senderVars
  <2>8. \A n \in known' : status'[n] \in {"sent", "bounced"}
    BY <2>2, <2>3 DEF AloneInv, OutboxTypeOK
  <2> QED
    BY <2>2, <2>6, <2>7, <2>8 DEF AloneInv
<1>2. ASSUME NEW m \in Message, NEW t, Review(r, m, t), status[m] \in {"draft", "failed"}
      PROVE  AloneInv'
  <2>1. UNCHANGED <<status, known, today, senderVars>>
    BY <1>2 DEF Review
  <2>2. review'[r] = [message |-> m, to |-> t] /\ \A q \in Reviewer : q # r => review'[q] = review[q]
    BY <1>2 DEF Review, AloneInv, OutboxTypeOK
  <2>3. \A s \in Sender : Current(s)' = Current(s)
    BY <2>1 DEF Current, senderVars
  <2>4. \A q \in Reviewer : review'[q] # NoReview
                              => status'[review'[q].message] \in {"draft", "failed"}
    BY <1>2, <2>1, <2>2 DEF AloneInv
  <2> QED
    BY <2>1, <2>3, <2>4 DEF AloneInv, senderVars
<1> QED
  BY <1>1, <1>2 DEF ReviewStep, ApproveCheck, RejectCheck, RequeueCheck, Reviewable

LEMMA AloneTake ==
  ASSUME OneSender, AloneInv, OutboxTypeOK', NEW s \in Sender,
         TakeBatch(s) \/ \E m \in Message : TakeOne(s, m)
  PROVE  AloneInv'
<1>1. PICK S \in SUBSET Message : Take(s, S) /\ (s \notin Desk => S \subseteq Queued)
  BY DEF TakeBatch, TakeOne, Queued
<1>2. /\ UNCHANGED <<status, known, today, review>>
      /\ pc'[s] = "check" /\ fila'[s] = S /\ cached'[s] = (s \notin Desk)
  BY <1>1 DEF Take, AloneInv, OutboxTypeOK
<1>3. cached'[s] => \A m \in fila'[s] : status[m] = "queued"
  BY <1>1, <1>2 DEF Queued
<1> QED
  BY <1>2, <1>3 DEF AloneInv, OneSender

\* What is left of a list does not hold the current message.
LEMMA AdvanceKeeps ==
  ASSUME OutboxTypeOK, NEW s \in Sender, Advance(s)
  PROVE  /\ fila'[s] = fila[s] \ {Current(s)}
         /\ pc'[s] \in {"idle", "check"}
BY DEF Advance, Goto, OutboxTypeOK

LEMMA AloneSender ==
  ASSUME OneSender, AloneInv, OutboxTypeOK', NEW s \in Sender, SenderStep(s) \/ SenderFault(s)
  PROVE  AloneInv'
<1>0. OutboxTypeOK /\ \A v \in Sender : v = s
  BY DEF AloneInv, OneSender
<1>1. review' = review
  BY DEF SenderStep, SenderFault, CheckPasses, Skip, Blocked, TransportAccepts,
     TransportFails, Defect, RecordFailure, CommitSent, AnswerLost, CommitBreaks,
     CrashSender, Escapes, RollBack
\* A message is written, and is done with.
<1>2. ASSUME NEW x \in {"sent", "failed"}, pc[s] \in {"commit", "record"}, Advance(s),
             cached' = cached,
             status' = [status EXCEPT ![Current(s)] = x],
             \/ UNCHANGED <<known, today>>
             \/ x = "sent" /\ known' = known \cup {Current(s)} /\ today' = today \cup {Current(s)}
      PROVE  AloneInv'
  <2> DEFINE m == Current(s)
  <2>1. m \in Message /\ m \in fila[s] /\ status[m] = "queued"
    BY <1>0, <1>2, CurrentType DEF AloneInv
  <2>2. status' = [status EXCEPT ![m] = x] /\ fila'[s] = fila[s] \ {m}
        /\ pc'[s] \in {"idle", "check"}
    BY <1>0, <1>2, AdvanceKeeps
  <2>3. \/ UNCHANGED <<known, today>>
        \/ x = "sent" /\ known' = known \cup {m} /\ today' = today \cup {m}
    BY <1>2
  <2> HIDE DEF m
  <2>4. \A n \in Message : status'[n] = IF n = m THEN x ELSE status[n]
    BY <1>0, <2>2 DEF OutboxTypeOK
  <2>5. \A n \in known' : status'[n] \in {"sent", "bounced"}
    BY <1>0, <2>1, <2>3, <2>4 DEF AloneInv, OutboxTypeOK
  <2>6. today' \subseteq known'
    BY <2>3 DEF AloneInv
  <2>7. cached'[s] => \A n \in fila'[s] : status'[n] = "queued"
    BY <1>0, <1>2, <2>2, <2>4 DEF AloneInv, OutboxTypeOK
  <2>8. \A r \in Reviewer : review'[r] # NoReview
                              => status'[review'[r].message] \in {"draft", "failed"}
    <3> SUFFICES ASSUME NEW r \in Reviewer, review[r] # NoReview
                 PROVE  status'[review[r].message] \in {"draft", "failed"}
      BY <1>1
    <3>1. review[r].message \in Message /\ status[review[r].message] \in {"draft", "failed"}
      BY <1>0 DEF AloneInv, OutboxTypeOK
    <3>2. review[r].message # m
      BY <2>1, <3>1
    <3> QED
      BY <2>4, <3>1, <3>2
  <2> QED
    BY <1>0, <2>2, <2>5, <2>6, <2>7, <2>8 DEF AloneInv
\* Nothing is written.
<1>3. ASSUME UNCHANGED <<status, known, today>>,
             fila'[s] \subseteq fila[s], cached'[s] => cached[s],
             \/ pc'[s] \notin {"transport", "commit", "record"}
             \/ fila' = fila /\ status[Current(s)] = "queued"
      PROVE  AloneInv'
  <2>1. fila' = fila => Current(s)' = Current(s)
    BY DEF Current
  <2> QED
    BY <1>0, <1>1, <1>3, <2>1 DEF AloneInv
<1>4. CASE CommitSent(s) \/ RecordFailure(s)
  BY <1>2, <1>4 DEF CommitSent, RecordFailure, At
<1>5. CASE CheckPasses(s)
  <2>1. status[Current(s)] = "queued"
    BY <1>0, <1>5, CurrentType DEF CheckPasses, SeenQueued, At, AloneInv
  <2> QED
    BY <1>3, <1>5, <2>1 DEF CheckPasses
<1>6. CASE TransportAccepts(s) \/ TransportFails(s) \/ AnswerLost(s)
  BY <1>0, <1>3, <1>6
  DEF TransportAccepts, TransportFails, AnswerLost, RollBack, At, AloneInv, OutboxTypeOK
<1>7. CASE Defect(s) \/ CommitBreaks(s)
  <2>1. CASE RollBack(s)
    BY <1>0, <1>3, <1>7, <2>1 DEF Defect, CommitBreaks, RollBack, At, AloneInv, OutboxTypeOK
  <2>2. CASE Stop(s) /\ UNCHANGED <<status, known, today, cached>>
    BY <1>0, <1>3, <2>2 DEF Stop, Goto, OutboxTypeOK
  <2> QED
    BY <1>7, <2>1, <2>2 DEF Defect, CommitBreaks, Escapes
<1>8. CASE Skip(s) \/ Blocked(s) \/ CrashSender(s)
  <2>1. CASE Advance(s) /\ UNCHANGED <<status, known, today, cached>>
    BY <1>0, <1>3, <2>1, AdvanceKeeps
  <2>2. CASE Stop(s) /\ UNCHANGED <<status, known, today, cached>>
    BY <1>0, <1>3, <2>2 DEF Stop, Goto, OutboxTypeOK
  <2> QED
    BY <1>8, <2>1, <2>2 DEF Skip, Blocked, CrashSender
<1> QED
  BY <1>4, <1>5, <1>6, <1>7, <1>8 DEF SenderStep, SenderFault

LEMMA AloneStep == Alone /\ AloneInv /\ [Next]_vars => AloneInv'
<1> SUFFICES ASSUME Alone, AloneInv, [Next]_vars
             PROVE  AloneInv'
  OBVIOUS
<1>0. OutboxTypeOK /\ OutboxTypeOK' /\ OneSender /\ OneReviewer
  BY OutboxTypeStep DEF AloneInv, Alone
<1>1. ASSUME \/ \E m \in Message : Draft(m) \/ Bounce(m)
             \/ \E c \in Contact : OptOut(c)
             \/ HoursChange \/ NewDay
      PROVE  AloneInv'
  BY <1>0, <1>1, AloneByOthers DEF Draft, Bounce, OptOut, HoursChange, NewDay, OutboxTypeOK
<1>2. CASE UNCHANGED vars
  BY <1>0, <1>2, AloneByOthers DEF vars
<1> QED
  BY <1>0, <1>1, <1>2, AloneReview, AloneTake, AloneSender DEF Next

(* With one sender and one reviewer, an email recorded as sent stays so      *)
(* until a notice of the mail server says that it bounced; no later failure  *)
(* of the batch and no review takes the record back.                         *)
THEOREM SentIsRemembered ==
  ASSUME Alone
  PROVE  Spec => SentIsNotForgotten
<1>1. AloneInv /\ [Next]_vars => AloneInv'
  BY AloneStep
<1>2. ASSUME AloneInv, [Next]_vars, NEW m \in Message, status[m] = "sent"
      PROVE  status'[m] \in {"sent", "bounced"}
  <2>0. OutboxTypeOK /\ OutboxTypeOK' /\ OneReviewer
    BY <1>2, OutboxTypeStep DEF AloneInv, Alone
  <2>1. CASE \E r \in Reviewer : ReviewStep(r)
    <3>1. PICK r \in Reviewer : ReviewStep(r)
      BY <2>1
    <3>2. CASE ReviewCommit(r)
      BY <1>2, <2>0, <3>2, ReviewWrites DEF OutboxTypeOK
    <3>3. CASE UNCHANGED status
      BY <1>2, <3>3
    <3> QED
      BY <3>1, <3>2, <3>3 DEF ReviewStep, ApproveCheck, RejectCheck, RequeueCheck, Review
  <2>2. CASE \E s \in Sender : SenderStep(s) \/ SenderFault(s)
    <3>1. PICK s \in Sender : SenderStep(s) \/ SenderFault(s)
      BY <2>2
    <3>2. pc[s] \in {"commit", "record"} => status[Current(s)] = "queued"
      BY <1>2 DEF AloneInv
    <3> QED
      BY <1>2, <2>0, <3>1, <3>2, SenderWrites DEF OutboxTypeOK
  <2>3. CASE \/ \E n \in Message : Draft(n) \/ Bounce(n)
             \/ \E c \in Contact : OptOut(c)
             \/ HoursChange \/ NewDay
             \/ \E s \in Sender : TakeBatch(s) \/ \E n \in Message : TakeOne(s, n)
             \/ UNCHANGED vars
    BY <1>2, <2>0, <2>3
    DEF Draft, Bounce, OptOut, HoursChange, NewDay, TakeBatch, TakeOne, Take, vars, OutboxTypeOK
  <2> QED
    BY <1>2, <2>1, <2>2, <2>3 DEF Next
<1>3. AloneInv /\ [Next]_vars =>
        [\A m \in Message : status[m] = "sent" => status'[m] \in {"sent", "bounced"}]_vars
  BY <1>2
<1> QED
  BY <1>1, <1>3, AloneInit, PTL DEF Spec, SentIsNotForgotten

-----------------------------------------------------------------------------
(***************************************************************************)
(* One sender and one reviewer: what is delivered beyond the record.       *)
(***************************************************************************)

\* A message is at the commit: the server has it, the record does not say so.
Landing(m) == \E s \in Sender : pc[s] = "commit" /\ Current(s) = m

\* The one delivery of a message that needs no fault.
Due(m) == IF status[m] \in {"sent", "bounced"} \/ Landing(m) THEN 1 ELSE 0

DeliveryInv ==
  /\ AloneInv
  /\ \A m \in Message : deliveries[m] <= faults + Due(m)

LEMMA DeliveryTypes ==
  ASSUME OutboxTypeOK
  PROVE  /\ \A m \in Message : deliveries[m] \in Nat /\ Due(m) \in {0, 1}
         /\ faults \in Nat /\ outToday \in Nat
BY CountType, OutboxAssumption DEF OutboxTypeOK, Due

LEMMA DeliveryInit == Init => DeliveryInv
<1> SUFFICES ASSUME Init
             PROVE  DeliveryInv
  OBVIOUS
<1>1. AloneInv
  BY AloneInit
<1>2. \A m \in Message : Due(m) \in {0, 1}
  BY DEF Due
<1> QED
  BY <1>1, <1>2 DEF Init, DeliveryInv

\* What was due is still due, or a fault has made up for it.
LEMMA DeliveryKept ==
  ASSUME DeliveryInv, AloneInv', UNCHANGED deliveries, faults' >= faults,
         \A m \in Message : Due(m) = 1 => Due(m)' = 1 \/ faults' > faults
  PROVE  DeliveryInv'
<1> SUFFICES ASSUME NEW m \in Message
             PROVE  deliveries[m] <= faults' + Due(m)'
  BY DEF DeliveryInv
<1>1. OutboxTypeOK /\ OutboxTypeOK'
  BY DEF DeliveryInv, AloneInv
<1>2. deliveries[m] \in Nat /\ Due(m) \in {0, 1} /\ faults \in Nat
  BY <1>1, DeliveryTypes
<1>3. Due(m)' \in {0, 1} /\ faults' \in Nat
  BY <1>1, OutboxAssumption DEF Due, OutboxTypeOK
<1>4. deliveries[m] <= faults + Due(m)
  BY DEF DeliveryInv
<1> QED
  BY <1>2, <1>3, <1>4

\* A step that moves no sender and takes back no record.
LEMMA DeliveryByOthers ==
  ASSUME DeliveryInv, AloneInv', UNCHANGED <<senderVars, deliveries, faults>>,
         \A m \in Message : status[m] \in {"sent", "bounced"} => status'[m] \in {"sent", "bounced"}
  PROVE  DeliveryInv'
<1>1. \A m \in Message : Landing(m)' = Landing(m)
  BY DEF Landing, Current, senderVars
<1>2. \A m \in Message : Due(m) = 1 => Due(m)' = 1
  BY <1>1 DEF Due
<1>3. faults' >= faults
  BY DeliveryTypes DEF DeliveryInv, AloneInv
<1> QED
  BY <1>2, <1>3, DeliveryKept

\* The server takes an email of the only sender.
LEMMA DeliveryAccepted ==
  ASSUME OneSender, DeliveryInv, AloneInv', NEW s \in Sender,
         TransportAccepts(s) \/ AnswerLost(s)
  PROVE  DeliveryInv'
<1> DEFINE m == Current(s)
<1>0. OutboxTypeOK /\ OutboxTypeOK' /\ AloneInv
  BY DEF DeliveryInv, AloneInv
<1>1. pc[s] = "transport" /\ deliveries' = [deliveries EXCEPT ![m] = Up(@)]
      /\ UNCHANGED <<status, fila>>
  BY DEF TransportAccepts, AnswerLost, RollBack, Accepted, At
<1>2. m \in Message /\ status[m] = "queued"
  BY <1>0, <1>1, CurrentType DEF AloneInv
<1>3. m' = m
  BY <1>1 DEF Current
<1>4. \A n \in Message : ~Landing(n)
  BY <1>1 DEF Landing, OneSender
<1>5. (pc'[s] = "commit" /\ faults' = faults) \/ faults' = faults + 1
  BY <1>0 DEF TransportAccepts, AnswerLost, Goto, Fault, OutboxTypeOK
<1>6. deliveries[m] \in 0 .. MaxCount
  BY <1>0, <1>2 DEF OutboxTypeOK
<1>7. deliveries'[m] <= deliveries[m] + 1 /\ deliveries'[m] \in Nat
  BY <1>0, <1>1, <1>2, <1>6, UpType, CountType DEF OutboxTypeOK
<1>8. Due(m) = 0
  BY <1>2, <1>4 DEF Due
<1>9. deliveries'[m] <= faults' + Due(m)'
  <2>1. faults \in Nat /\ faults' \in Nat /\ Due(m)' \in {0, 1}
    BY <1>0, OutboxAssumption DEF OutboxTypeOK, Due
  <2>2. deliveries[m] <= faults /\ deliveries[m] \in Nat
    BY <1>0, <1>2, <1>8, DeliveryTypes DEF DeliveryInv
  <2>3. pc'[s] = "commit" => Due(m)' = 1
    BY <1>3 DEF Due, Landing
  <2> HIDE DEF m
  <2> QED
    BY <1>5, <1>7, <2>1, <2>2, <2>3
<1>10. ASSUME NEW n \in Message, n # m
       PROVE  deliveries'[n] <= faults' + Due(n)'
  <2>1. deliveries'[n] = deliveries[n]
    BY <1>0, <1>1, <1>10 DEF OutboxTypeOK
  <2>2. Due(n)' \in {0, 1} /\ (Due(n) = 1 => Due(n)' = 1)
    BY <1>1, <1>4 DEF Due
  <2>3. deliveries[n] <= faults + Due(n) /\ deliveries[n] \in Nat
        /\ Due(n) \in {0, 1} /\ faults \in Nat
    BY <1>0, DeliveryTypes DEF DeliveryInv
  <2> QED
    BY <1>5, <2>1, <2>2, <2>3
<1> QED
  BY <1>3, <1>9, <1>10 DEF DeliveryInv

\* A sender leaves the commit by a fault, or by the record.
LEMMA DeliverySender ==
  ASSUME OneSender, DeliveryInv, AloneInv', NEW s \in Sender,
         SenderStep(s) \/ SenderFault(s)
  PROVE  DeliveryInv'
<1>0. OutboxTypeOK /\ OutboxTypeOK' /\ AloneInv /\ faults \in Nat /\ \A v \in Sender : v = s
  BY DeliveryTypes DEF DeliveryInv, AloneInv, OneSender
<1>1. CASE CommitSent(s)
  <2>1. Current(s) \in Message /\ status' = [status EXCEPT ![Current(s)] = "sent"]
        /\ UNCHANGED <<deliveries, faults>>
    BY <1>0, <1>1, CurrentType DEF CommitSent, At, history
  <2>2. \A m \in Message : Landing(m) => m = Current(s)
    BY <1>0 DEF Landing
  <2>3. \A m \in Message : Due(m) = 1 => status'[m] \in {"sent", "bounced"}
    BY <1>0, <2>1, <2>2 DEF Due, OutboxTypeOK
  <2> QED
    BY <1>0, <2>1, <2>3, DeliveryKept DEF Due
<1>2. CASE RecordFailure(s)
  <2>1. pc[s] = "record" /\ status' = [status EXCEPT ![Current(s)] = "failed"]
        /\ UNCHANGED <<deliveries, faults>>
    BY <1>2 DEF RecordFailure, At, history
  <2>2. Current(s) \in Message /\ status[Current(s)] = "queued"
    BY <1>0, <2>1, CurrentType DEF AloneInv
  <2>3. \A m \in Message : ~Landing(m)
    BY <1>0, <2>1 DEF Landing
  <2>4. \A m \in Message : Due(m) = 1 => status'[m] \in {"sent", "bounced"}
    BY <1>0, <2>1, <2>2, <2>3 DEF Due, OutboxTypeOK
  <2> QED
    BY <1>0, <2>1, <2>4, DeliveryKept DEF Due
<1>3. ASSUME UNCHANGED <<status, deliveries>>, faults' >= faults,
             pc[s] # "commit" \/ faults' > faults
      PROVE  DeliveryInv'
  <2>1. pc[s] # "commit" => \A m \in Message : ~Landing(m)
    BY <1>0 DEF Landing
  <2>2. \A m \in Message : Due(m) = 1 => Due(m)' = 1 \/ faults' > faults
    BY <1>3, <2>1 DEF Due
  <2> QED
    BY <1>3, <2>2, DeliveryKept
<1>4. CASE CheckPasses(s) \/ Skip(s) \/ Blocked(s) \/ TransportFails(s) \/ Defect(s)
  BY <1>0, <1>3, <1>4
  DEF CheckPasses, Skip, Blocked, TransportFails, Defect, Escapes, RollBack, At, history
<1>5. CASE CommitBreaks(s) \/ CrashSender(s)
  BY <1>0, <1>3, <1>5 DEF CommitBreaks, CrashSender, Escapes, RollBack, Fault, history
<1> QED
  BY <1>1, <1>2, <1>4, <1>5, DeliveryAccepted DEF SenderStep, SenderFault

\* Nobody but a sender takes back the record of a message.
LEMMA RecordKept ==
  ASSUME Alone, AloneInv, OutboxTypeOK',
         \/ \E m \in Message : Draft(m) \/ Bounce(m)
         \/ \E r \in Reviewer : ReviewStep(r)
         \/ \E c \in Contact : OptOut(c)
         \/ HoursChange \/ NewDay
         \/ \E s \in Sender : TakeBatch(s) \/ \E m \in Message : TakeOne(s, m)
         \/ UNCHANGED vars
  PROVE  /\ \A m \in Message : status[m] \in {"sent", "bounced"}
                                 => status'[m] \in {"sent", "bounced"}
         /\ UNCHANGED <<deliveries, faults>>
<1>0. OutboxTypeOK /\ OneReviewer
  BY DEF AloneInv, Alone
<1>1. CASE \E r \in Reviewer : ReviewCommit(r)
  BY <1>0, <1>1, ReviewWrites DEF OutboxTypeOK
<1>2. CASE \/ \E m \in Message : Draft(m) \/ Bounce(m)
           \/ \E r \in Reviewer, m \in Message :
                ApproveCheck(r, m) \/ RejectCheck(r, m) \/ RequeueCheck(r, m)
           \/ \E c \in Contact : OptOut(c)
           \/ HoursChange \/ NewDay
           \/ \E s \in Sender : TakeBatch(s) \/ \E m \in Message : TakeOne(s, m)
           \/ UNCHANGED vars
  BY <1>0, <1>2
  DEF Draft, Bounce, ApproveCheck, RejectCheck, RequeueCheck, Review, OptOut, HoursChange,
      NewDay, TakeBatch, TakeOne, Take, vars, history, OutboxTypeOK
<1> QED
  BY <1>1, <1>2 DEF ReviewStep

LEMMA DeliveryStep == Alone /\ DeliveryInv /\ [Next]_vars => DeliveryInv'
<1> SUFFICES ASSUME Alone, DeliveryInv, [Next]_vars
             PROVE  DeliveryInv'
  OBVIOUS
<1>0. AloneInv /\ AloneInv' /\ OutboxTypeOK /\ OutboxTypeOK' /\ OneSender
  BY AloneStep DEF DeliveryInv, AloneInv, Alone
<1>1. ASSUME \/ \E m \in Message : Draft(m) \/ Bounce(m)
             \/ \E r \in Reviewer : ReviewStep(r)
             \/ \E c \in Contact : OptOut(c)
             \/ HoursChange \/ NewDay
             \/ UNCHANGED vars
      PROVE  DeliveryInv'
  <2>1. UNCHANGED senderVars
    BY <1>0, <1>1, WorldKeepsSenders DEF vars
  <2> QED
    BY <1>0, <1>1, <2>1, RecordKept, DeliveryByOthers
<1>2. ASSUME NEW s \in Sender, TakeBatch(s) \/ \E m \in Message : TakeOne(s, m)
      PROVE  DeliveryInv'
  <2>1. pc[s] = "idle" /\ \A v \in Sender : v = s
    BY <1>0, <1>2 DEF TakeBatch, TakeOne, Take, OneSender
  <2>2. \A m \in Message : ~Landing(m)
    BY <2>1 DEF Landing
  <2>3. /\ \A m \in Message : status[m] \in {"sent", "bounced"}
                                => status'[m] \in {"sent", "bounced"}
        /\ UNCHANGED <<deliveries, faults>>
    BY <1>0, <1>2, RecordKept
  <2>4. \A m \in Message : Due(m) = 1 => Due(m)' = 1
    BY <2>2, <2>3 DEF Due
  <2> QED
    BY <1>0, <2>3, <2>4, DeliveryKept, DeliveryTypes
<1> QED
  BY <1>0, <1>1, <1>2, DeliverySender DEF Next

(* With one sender and one reviewer, each delivery of a message beyond the   *)
(* first has a fault of its own: a crash, a commit that broke or an answer   *)
(* that was lost after the server had taken the email.                       *)
THEOREM SecondNeedsFault ==
  ASSUME Alone
  PROVE  Spec => []SecondDeliveryNeedsFault
<1>1. DeliveryInv /\ [Next]_vars => DeliveryInv'
  BY DeliveryStep
<1>2. DeliveryInv => SecondDeliveryNeedsFault
  <2> SUFFICES ASSUME DeliveryInv, NEW m \in Message
               PROVE  deliveries[m] <= 1 + faults
    BY DEF SecondDeliveryNeedsFault
  <2>1. deliveries[m] <= faults + Due(m) /\ Due(m) \in {0, 1}
        /\ deliveries[m] \in Nat /\ faults \in Nat
    BY DeliveryTypes DEF DeliveryInv, AloneInv
  <2> QED
    BY <2>1
<1> QED
  BY <1>1, <1>2, DeliveryInit, PTL DEF Spec

-----------------------------------------------------------------------------
(***************************************************************************)
(* One sender and one reviewer: the emails of a day.                       *)
(***************************************************************************)

\* The server has an email that the record of the day lacks.
OneLanding == IF \E s \in Sender : pc[s] = "commit" THEN 1 ELSE 0

DayInv ==
  /\ AloneInv /\ LimitInv
  /\ outToday <= Cardinality(today) + faults + OneLanding

LEMMA DayTypes ==
  ASSUME OutboxTypeOK
  PROVE  /\ IsFiniteSet(today) /\ Cardinality(today) \in Nat
         /\ OneLanding \in {0, 1} /\ outToday \in Nat /\ faults \in Nat
<1>1. IsFiniteSet(Message) /\ today \subseteq Message
  BY FS_Interval, OutboxAssumption DEF Message, OutboxTypeOK
<1> QED
  BY <1>1, SubsetCount, DeliveryTypes DEF OneLanding

LEMMA DayInit == Init => DayInv
<1> SUFFICES ASSUME Init
             PROVE  DayInv
  OBVIOUS
<1>1. AloneInv /\ LimitInv /\ OutboxTypeOK
  BY AloneInit, LimitInit, OutboxInitType
<1>2. Cardinality(today) \in Nat /\ faults \in Nat /\ OneLanding \in {0, 1} /\ outToday = 0
  BY <1>1, DayTypes DEF Init
<1> QED
  BY <1>1, <1>2 DEF DayInv

\* Counters as they were, or a fault for what has landed.
LEMMA DayKept ==
  ASSUME DayInv, AloneInv', LimitInv', UNCHANGED <<today, outToday>>, faults' >= faults,
         OneLanding = 1 => OneLanding' = 1 \/ faults' > faults
  PROVE  DayInv'
<1>1. /\ Cardinality(today) \in Nat /\ OneLanding \in {0, 1}
      /\ outToday \in Nat /\ faults \in Nat
  BY DayTypes DEF DayInv, AloneInv
<1>2. OneLanding' \in {0, 1} /\ faults' \in Nat
  BY OutboxAssumption DEF OneLanding, AloneInv, OutboxTypeOK
<1>3. outToday <= Cardinality(today) + faults + OneLanding
  BY DEF DayInv
<1>4. outToday <= Cardinality(today) + faults' + OneLanding'
  BY <1>1, <1>2, <1>3
<1> QED
  BY <1>4 DEF DayInv

LEMMA DayAccepted ==
  ASSUME OneSender, DayInv, AloneInv', LimitInv', NEW s \in Sender,
         TransportAccepts(s) \/ AnswerLost(s)
  PROVE  DayInv'
<1>0. OutboxTypeOK /\ OutboxTypeOK'
  BY DEF DayInv, AloneInv
<1>1. pc[s] = "transport" /\ outToday' = Up(outToday) /\ UNCHANGED today
  BY DEF TransportAccepts, AnswerLost, RollBack, Accepted, At
<1>2. OneLanding = 0
  BY <1>1 DEF OneLanding, OneSender
<1>3. (OneLanding' = 1 /\ faults' = faults) \/ faults' = faults + 1
  <2>1. (pc'[s] = "commit" /\ faults' = faults) \/ faults' = faults + 1
    BY <1>0 DEF TransportAccepts, AnswerLost, Goto, Fault, OutboxTypeOK
  <2> QED
    BY <2>1 DEF OneLanding
<1>4. outToday' <= outToday + 1 /\ outToday' \in Nat
  BY <1>0, <1>1, UpType, CountType DEF OutboxTypeOK
<1>5. Cardinality(today) \in Nat /\ outToday \in Nat /\ faults \in Nat /\ OneLanding' \in {0, 1}
  BY <1>0, DayTypes DEF OneLanding
<1>6. outToday <= Cardinality(today) + faults
  BY <1>2, <1>5 DEF DayInv
<1>7. outToday' <= Cardinality(today) + faults' + OneLanding'
  BY <1>3, <1>4, <1>5, <1>6
<1> QED
  BY <1>1, <1>7 DEF DayInv

\* The record takes the place of the email that had landed.
LEMMA DayCommit ==
  ASSUME OneSender, DayInv, AloneInv', LimitInv', NEW s \in Sender, CommitSent(s)
  PROVE  DayInv'
<1> DEFINE m == Current(s)
<1>0. OutboxTypeOK /\ OutboxTypeOK' /\ AloneInv
  BY DEF DayInv, AloneInv
<1>1. pc[s] = "commit" /\ today' = today \cup {m} /\ UNCHANGED <<outToday, faults>>
  BY DEF CommitSent, At, history
<1>2. status[m] = "queued"
  BY <1>0, <1>1 DEF AloneInv
<1>3. m \notin today
  BY <1>0, <1>2 DEF AloneInv, OutboxTypeOK
<1> HIDE DEF m
<1>4. Cardinality(today') = Cardinality(today) + 1
  BY <1>0, <1>1, <1>3, DayTypes, FS_AddElement
<1>5. OneLanding = 1 /\ OneLanding' \in {0, 1}
  BY <1>1 DEF OneLanding
<1>6. Cardinality(today) \in Nat /\ outToday \in Nat /\ faults \in Nat
  BY <1>0, DayTypes
<1>7. outToday <= Cardinality(today) + faults + OneLanding
  BY DEF DayInv
<1>8. outToday' <= Cardinality(today') + faults' + OneLanding'
  BY <1>1, <1>4, <1>5, <1>6, <1>7
<1> QED
  BY <1>8 DEF DayInv

LEMMA DaySender ==
  ASSUME OneSender, DayInv, AloneInv', LimitInv', NEW s \in Sender,
         SenderStep(s) \/ SenderFault(s)
  PROVE  DayInv'
<1>0. faults \in Nat /\ \A v \in Sender : v = s
  BY DayTypes DEF DayInv, AloneInv, OneSender
<1>1. ASSUME UNCHANGED <<today, outToday>>, faults' >= faults,
             pc[s] # "commit" \/ faults' > faults
      PROVE  DayInv'
  BY <1>0, <1>1, DayKept DEF OneLanding
<1>2. CASE CheckPasses(s) \/ Skip(s) \/ Blocked(s) \/ TransportFails(s) \/ Defect(s)
           \/ RecordFailure(s)
  BY <1>0, <1>1, <1>2
  DEF CheckPasses, Skip, Blocked, TransportFails, Defect, RecordFailure, Escapes, RollBack,
      At, history
<1>3. CASE CommitBreaks(s) \/ CrashSender(s)
  BY <1>0, <1>1, <1>3 DEF CommitBreaks, CrashSender, Escapes, RollBack, Fault, history
<1> QED
  BY <1>2, <1>3, DayAccepted, DayCommit DEF SenderStep, SenderFault

LEMMA DayStep == Alone /\ DayInv /\ [Next]_vars => DayInv'
<1> SUFFICES ASSUME Alone, DayInv, [Next]_vars
             PROVE  DayInv'
  OBVIOUS
<1>0. /\ AloneInv /\ AloneInv' /\ LimitInv' /\ OutboxTypeOK /\ OutboxTypeOK'
      /\ OneSender /\ faults \in Nat
  BY AloneStep, LimitStep, DayTypes DEF DayInv, AloneInv, Alone
<1>1. CASE NewDay
  <2>1. today' = {} /\ outToday' = 0 /\ UNCHANGED <<pc, faults>>
    BY <1>1 DEF NewDay, senderVars
  <2>2. Cardinality(today') \in Nat /\ OneLanding' \in {0, 1}
    BY <2>1, FS_EmptySet DEF OneLanding
  <2> QED
    BY <1>0, <2>1, <2>2 DEF DayInv
<1>2. CASE \/ \E m \in Message : Draft(m) \/ Bounce(m)
           \/ \E r \in Reviewer : ReviewStep(r)
           \/ \E c \in Contact : OptOut(c)
           \/ HoursChange \/ UNCHANGED vars
  <2>1. UNCHANGED <<pc, today, outToday, faults>>
    BY <1>2
    DEF Draft, Bounce, ReviewStep, ApproveCheck, RejectCheck, RequeueCheck, Review, ReviewCommit,
        OptOut, HoursChange, vars, senderVars, history
  <2> QED
    BY <1>0, <2>1, DayKept DEF OneLanding
<1>3. ASSUME NEW s \in Sender, TakeBatch(s) \/ \E m \in Message : TakeOne(s, m)
      PROVE  DayInv'
  <2>1. pc[s] = "idle" /\ UNCHANGED <<today, outToday, faults>>
    BY <1>3 DEF TakeBatch, TakeOne, Take, history
  <2>2. OneLanding = 0
    BY <1>0, <2>1 DEF OneLanding, OneSender
  <2> QED
    BY <1>0, <2>1, <2>2, DayKept
<1> QED
  BY <1>0, <1>1, <1>2, <1>3, DaySender DEF Next

(* With one sender and one reviewer, a day has more emails than its limit    *)
(* only by as many as bounced, which gave their places back, and as there    *)
(* were faults that kept a delivery out of the record.                       *)
THEOREM ExcessHasCause ==
  ASSUME Alone
  PROVE  Spec => []ExcessNeedsBounceOrFault
<1>1. DayInv /\ [Next]_vars => DayInv'
  BY DayStep
<1>2. DayInv => ExcessNeedsBounceOrFault
  <2> SUFFICES ASSUME DayInv
               PROVE  ExcessNeedsBounceOrFault
    OBVIOUS
  <2> DEFINE Bounced == {m \in today : status[m] # "sent"}
  <2>0. OutboxTypeOK
    BY DEF DayInv, AloneInv
  <2>1. IsFiniteSet(today) /\ Bounced = today \ SentOfToday /\ SentOfToday \subseteq today
    BY <2>0, DayTypes DEF SentOfToday
  <2>2. Cardinality(Bounced) = Cardinality(today) - Cardinality(SentOfToday)
    <3>1. today \cap SentOfToday = SentOfToday
      BY <2>1
    <3> QED
      BY <2>1, <3>1, FS_Difference
  <2>3. Cardinality(Sender) <= 1
    <3>1. CASE Sender = {}
      BY <3>1, FS_EmptySet
    <3>2. CASE \E s \in Sender : Sender = {s}
      BY <3>2, FS_Singleton
    <3> QED
      BY <3>1, <3>2 DEF Alone, OneSender
  <2>4. OneLanding <= Cardinality(InFlight)
    <3>1. CASE \E s \in Sender : pc[s] = "commit"
      <4>1. InFlight # {}
        BY <3>1 DEF InFlight
      <4>2. Cardinality(InFlight) # 0
        BY <2>0, <4>1, LimitCounts, FS_EmptySet
      <4> QED
        BY <2>0, <3>1, <4>2, LimitCounts DEF OneLanding
    <3>2. CASE ~\E s \in Sender : pc[s] = "commit"
      BY <2>0, <3>2, LimitCounts DEF OneLanding
    <3> QED
      BY <3>1, <3>2
  <2>5. SentToday + Cardinality(InFlight) <= Limit + Cardinality(Sender) - 1
        /\ outToday <= Cardinality(today) + faults + OneLanding
    BY DEF DayInv, LimitInv
  <2>6. outToday <= Limit + Cardinality(Bounced) + faults
    <3>1. /\ Cardinality(today) \in Nat /\ OneLanding \in {0, 1}
          /\ outToday \in Nat /\ faults \in Nat
      BY <2>0, DayTypes
    <3>2. /\ Cardinality(SentOfToday) \in Nat /\ SentToday = Cardinality(SentOfToday)
          /\ Cardinality(InFlight) \in Nat /\ Cardinality(Sender) \in Nat /\ Limit \in Nat
      BY <2>0, LimitCounts
    <3> HIDE DEF Bounced
    <3> QED
      BY <2>2, <2>3, <2>4, <2>5, <3>1, <3>2
  <2> QED
    BY <2>6 DEF ExcessNeedsBounceOrFault
<1> QED
  BY <1>1, <1>2, DayInit, PTL DEF Spec

=============================================================================
