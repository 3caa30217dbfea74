---------------------------- MODULE AccessProofs ----------------------------
(***************************************************************************)
(* Who is let in, and how often: the codes of the second factor, the seats *)
(* of the plan and the requests of a client, for any number of sign-ins,   *)
(* people, seats, replicas and requests.                                   *)
(***************************************************************************)
EXTENDS Office, FiniteSetTheorems, WellFoundedInduction, TLAPS

-----------------------------------------------------------------------------
(***************************************************************************)
(* SpentCodeStaysSpent holds for any pool, any number of sign-ins and any  *)
(* clock.                                                                  *)
(*                                                                         *)
(* Nothing forbids a code that was spent, but the columns of the account:  *)
(* Dead says they do.  The argument is that a session that writes keeps    *)
(* dead what the row it read had dead, adds its own code, and either finds *)
(* the row as it read it or makes the history forget.                      *)
(***************************************************************************)

SignInTypeOK ==
  /\ account \in Account
  /\ visit \in [Visitor -> Visit]
  /\ spent \subseteq Code
  /\ step \in Int

\* The columns a do not let the code c in, at any time.
Dead(a, c) == a.secret => (c \in Int => c <= a.last) /\ c \notin a.recovery

SpentAreDead == \A c \in spent : Dead(account, c)

\* A session that has read the account in order to decide on a code.
WornAreDead == \A v \in Visitor :
  visit[v].at = "verify" /\ visit[v].worn => Dead(visit[v].saw, visit[v].code)

\* desativar has checked its code by the time it reads the account; confirmar is
\* given one of the application.
Edits == \A v \in Visitor :
  visit[v].at = "edit"
  => IF visit[v].saw.enabled THEN ~visit[v].worn ELSE visit[v].code \in Int \cup {missing}

SignInInv == SignInTypeOK /\ SpentAreDead /\ WornAreDead /\ Edits /\ ~reused

-----------------------------------------------------------------------------
LEMMA NothingTyped == NoFactor \in Account /\ Away \in Visit
BY SignInAssumption DEF NoFactor, Account, Away, Visit, Code

LEMMA SignInInitHolds ==
  SignInInit => SignInInv
<1> SUFFICES ASSUME SignInInit PROVE SignInInv
  OBVIOUS
<1>1. account \in Account
  BY NothingTyped DEF SignInInit, Account
<1>2. \A v \in Visitor : visit[v] = Away
  BY DEF SignInInit
<1>3. WornAreDead /\ Edits
  BY <1>2 DEF WornAreDead, Edits, Away
<1> QED
  BY <1>1, <1>3, NothingTyped DEF SignInInit, SignInInv, SignInTypeOK, SpentAreDead

LEMMA HoldsIsAlive ==
  ASSUME SignInTypeOK, NEW a \in Account, NEW c, Holds(a, c)
  PROVE  ~Dead(a, c)
BY DEF Holds, Dead, SignInTypeOK, Account

LEMMA AppCodes ==
  ASSUME NEW c \in Code, c \in Int
  PROVE  c \in 1 .. MaxStep /\ c \notin Recovery
BY SignInAssumption DEF Code

\* Each column is the new one where it differs from the one read.
LEMMA StoreGives ==
  ASSUME SignInTypeOK, NEW saw \in Account, NEW new \in Account, Store(saw, new)
  PROVE  /\ account' \in Account
         /\ account'.secret = IF new.secret # saw.secret THEN new.secret ELSE account.secret
         /\ account'.last = IF new.last # saw.last THEN new.last ELSE account.last
         /\ account'.recovery = IF new.recovery # saw.recovery THEN new.recovery
                                ELSE account.recovery
BY DEF Store, Account, SignInTypeOK

\* The row as it was read becomes the row as it was meant.
LEMMA FreshStore ==
  ASSUME SignInTypeOK, NEW saw \in Account, NEW new \in Account, Store(saw, new), Fresh(saw)
  PROVE  /\ account'.secret = new.secret /\ account'.last = new.last
         /\ account'.recovery = new.recovery
         /\ saw.secret = account.secret /\ saw.last = account.last
         /\ saw.recovery = account.recovery
BY StoreGives DEF Fresh

-----------------------------------------------------------------------------
(***************************************************************************)
(* Requests that write nothing.                                            *)
(***************************************************************************)

LEMMA LeaveKeeps ==
  ASSUME SignInInv, NEW v \in Visitor, Leave(v),
         account' \in Account, step' \in Int, spent' \subseteq Code,
         \A c \in spent' : Dead(account, c)', ~reused'
  PROVE  SignInInv'
<1>1. \A u \in Visitor : visit'[u] = IF u = v THEN Away ELSE visit[u]
  BY DEF Leave, SignInInv, SignInTypeOK
<1>2. Away.at = "away"
  BY DEF Away
<1>3. SignInTypeOK'
  BY NothingTyped DEF Leave, SignInInv, SignInTypeOK
<1>4. WornAreDead' /\ Edits'
  BY <1>1, <1>2 DEF SignInInv, WornAreDead, Edits, Dead
<1> QED
  BY <1>3, <1>4 DEF SignInInv, SpentAreDead

\* v goes on at a place where nothing is to be decided.
LEMMA MovesKeeps ==
  ASSUME SignInInv, NEW v \in Visitor, NEW at \in {"login", "in"},
         visit' = [visit EXCEPT ![v] = [Away EXCEPT !.at = at]],
         account' \in Account, UNCHANGED step, spent' \subseteq Code,
         \A c \in spent' : Dead(account, c)', ~reused'
  PROVE  SignInInv'
<1> DEFINE new == [Away EXCEPT !.at = at]
<1>1. new \in Visit /\ new.at = at
  BY NothingTyped DEF Away, Visit
<1> HIDE DEF new
<1>2. \A u \in Visitor : visit'[u] = IF u = v THEN new ELSE visit[u]
  BY DEF SignInInv, SignInTypeOK, new
<1>3. SignInTypeOK'
  BY <1>1 DEF SignInInv, SignInTypeOK, new
<1>4. WornAreDead' /\ Edits'
  BY <1>1, <1>2 DEF SignInInv, WornAreDead, Edits, Dead
<1> QED
  BY <1>3, <1>4 DEF SignInInv, SpentAreDead

LEMMA OpensKeeps ==
  ASSUME SignInInv, NEW v \in Visitor, NEW at \in {"verify", "edit"}, NEW code \in Code,
         Opens(v, at, code), UNCHANGED <<step, account, spent, reused>>,
         at = "edit" => IF account.enabled THEN code \notin spent ELSE code \in Int \cup {missing}
  PROVE  SignInInv'
<1> DEFINE worn == code \in spent
           new == [at |-> at, code |-> code, saw |-> account, worn |-> worn]
<1>1. new \in Visit /\ new.at = at /\ new.code = code /\ new.saw = account /\ new.worn = worn
  <2>1. worn \in BOOLEAN
    OBVIOUS
  <2> HIDE DEF worn
  <2> QED
    BY <2>1 DEF Visit, SignInInv, SignInTypeOK
<1>2. visit' = [visit EXCEPT ![v] = new]
  BY DEF Opens
<1> HIDE DEF new
<1>3. \A u \in Visitor : visit'[u] = IF u = v THEN new ELSE visit[u]
  BY <1>2 DEF SignInInv, SignInTypeOK
<1>4. SignInTypeOK'
  BY <1>1, <1>2 DEF SignInInv, SignInTypeOK
<1>5. WornAreDead' /\ Edits'
  BY <1>1, <1>3, Zenon DEF SignInInv, WornAreDead, Edits, SpentAreDead
<1> QED
  BY <1>4, <1>5 DEF SignInInv, SpentAreDead, Dead

-----------------------------------------------------------------------------
(***************************************************************************)
(* Sessions that write.                                                    *)
(***************************************************************************)

LEMMA CountsAfresh ==
  ASSUME NEW a \in Account
  PROVE  LET new == [a EXCEPT !.failed = 0]
         IN  new \in Account /\ new.secret = a.secret /\ new.last = a.last
             /\ new.recovery = a.recovery
BY SignInAssumption DEF Account

\* Spend leaves dead what was dead, and its own code too.
LEMMA SpendKills ==
  ASSUME SignInTypeOK, NEW saw \in Account, NEW code \in Code, Holds(saw, code)
  PROVE  LET new == [Spend(saw, code) EXCEPT !.failed = 0]
         IN  /\ new \in Account
             /\ Dead(new, code)
             /\ \A c : Dead(saw, c) => Dead(new, c)
<1>1. CASE code \in Recovery
  <2>1. code \notin Int
    BY <1>1, SignInAssumption
  <2>2. Spend(saw, code) = [saw EXCEPT !.recovery = @ \ {code}]
    BY <1>1 DEF Spend
  <2>3. Spend(saw, code) \in Account /\ Spend(saw, code).secret = saw.secret
        /\ Spend(saw, code).last = saw.last
        /\ Spend(saw, code).recovery = saw.recovery \ {code}
    BY <2>2 DEF Account
  <2> DEFINE new == [Spend(saw, code) EXCEPT !.failed = 0]
  <2>4. new \in Account /\ new.secret = saw.secret /\ new.last = saw.last
        /\ new.recovery = saw.recovery \ {code}
    BY <2>3, CountsAfresh
  <2> HIDE DEF new
  <2>5. Dead(new, code) /\ \A c : Dead(saw, c) => Dead(new, c)
    BY <2>1, <2>4 DEF Dead
  <2> QED
    BY <2>4, <2>5 DEF new
<1>2. CASE code \notin Recovery
  <2>1. code \in Int /\ saw.last < code
    BY <1>2 DEF Holds, SignInTypeOK, Account
  <2>2. Spend(saw, code) = [saw EXCEPT !.last = code]
    BY <1>2 DEF Spend
  <2>3. code \in 1 .. MaxStep
    BY <2>1, AppCodes
  <2>4. Spend(saw, code) \in Account /\ Spend(saw, code).secret = saw.secret
        /\ Spend(saw, code).last = code /\ Spend(saw, code).recovery = saw.recovery
    BY <2>2, <2>3 DEF Account
  <2> DEFINE new == [Spend(saw, code) EXCEPT !.failed = 0]
  <2>5. new \in Account /\ new.secret = saw.secret /\ new.last = code
        /\ new.recovery = saw.recovery
    BY <2>4, CountsAfresh
  <2> HIDE DEF new
  <2>6. code \notin saw.recovery /\ saw.last \in Int
    BY <1>2, SignInAssumption DEF Account
  <2>7. Dead(new, code) /\ \A c : Dead(saw, c) => Dead(new, c)
    BY <2>1, <2>5, <2>6 DEF Dead
  <2> QED
    BY <2>5, <2>7 DEF new
<1> QED
  BY <1>1, <1>2

LEMMA AcceptKeeps ==
  ASSUME SignInInv, NEW v \in Visitor, VerifyAccepts(v)
  PROVE  SignInInv'
<1> DEFINE saw == visit[v].saw
           code == visit[v].code
           new == [Spend(saw, code) EXCEPT !.failed = 0]
<1>1. saw \in Account /\ code \in Code
  BY DEF SignInInv, SignInTypeOK, Visit
<1>2. Holds(saw, code) /\ Store(saw, new) /\ Knows(v, spent \cup {code})
      /\ reused' = (reused \/ visit[v].worn) /\ Enters(v) /\ UNCHANGED step
  BY DEF VerifyAccepts, Record
<1>3. new \in Account /\ Dead(new, code) /\ \A c : Dead(saw, c) => Dead(new, c)
  BY <1>1, <1>2, SpendKills DEF SignInInv
<1> HIDE DEF new
<1>4. ~reused'
  BY <1>1, <1>2, HoldsIsAlive DEF SignInInv, WornAreDead, VerifyAccepts
<1>5. account' \in Account
  BY <1>1, <1>2, <1>3, StoreGives DEF SignInInv
<1>6. spent' \subseteq Code /\ \A c \in spent' : Dead(account, c)'
  <2>1. CASE Fresh(saw)
    <3>1. spent' = spent \cup {code}
      BY <1>2, <2>1 DEF Knows
    <3>2. \A c : Dead(account, c) => Dead(saw, c)
      BY <1>1, <1>2, <1>3, <2>1, FreshStore DEF SignInInv, Dead
    <3>3. \A c : Dead(new, c) => Dead(account, c)'
      BY <1>1, <1>2, <1>3, <2>1, FreshStore DEF SignInInv, Dead
    <3> QED
      BY <1>1, <1>3, <3>1, <3>2, <3>3 DEF SignInInv, SignInTypeOK, SpentAreDead
  <2>2. CASE ~Fresh(saw)
    BY <1>2, <2>2 DEF Knows
  <2> QED
    BY <2>1, <2>2
<1> QED
  BY <1>2, <1>4, <1>5, <1>6, MovesKeeps DEF Enters

LEMMA RefuseKeeps ==
  ASSUME SignInInv, NEW v \in Visitor, VerifyRefuses(v)
  PROVE  SignInInv'
<1> DEFINE saw == visit[v].saw
           last == saw.failed + 1 >= TENTATIVAS
           new == [saw EXCEPT !.failed = IF last THEN 0 ELSE @ + 1, !.resting = last]
<1>1. saw \in Account /\ last \in BOOLEAN
  BY DEF SignInInv, SignInTypeOK, Visit
<1>2. (IF last THEN 0 ELSE saw.failed + 1) \in 0 .. TENTATIVAS
  BY <1>1, SignInAssumption DEF Account
<1>3. Store(saw, new) /\ Leave(v) /\ UNCHANGED <<step, spent, reused>>
  BY DEF VerifyRefuses
<1>4. new \in Account /\ new.secret = saw.secret /\ new.last = saw.last
      /\ new.recovery = saw.recovery
  <2> DEFINE failed == IF last THEN 0 ELSE saw.failed + 1
  <2>1. failed \in 0 .. TENTATIVAS /\ new = [saw EXCEPT !.failed = failed, !.resting = last]
    BY <1>1, <1>2
  <2> HIDE DEF failed, last, new
  <2> QED
    BY <1>1, <2>1 DEF Account
<1> HIDE DEF new
<1>5. account' \in Account /\ account'.secret = account.secret /\ account'.last = account.last
      /\ account'.recovery = account.recovery
  BY <1>1, <1>3, <1>4, StoreGives DEF SignInInv
<1> QED
  BY <1>3, <1>5, LeaveKeeps DEF SignInInv, SignInTypeOK, SpentAreDead, Dead

\* A new secret, or none: the history forgets, or the row has nothing to check.
LEMMA IniciarKeeps ==
  ASSUME SignInInv, NEW v \in Visitor, Iniciar(v)
  PROVE  SignInInv'
<1> DEFINE saw == visit[v].saw
           new == [saw EXCEPT !.secret = TRUE, !.last = 0, !.failed = 0, !.resting = FALSE]
<1>1. saw \in Account
  BY DEF SignInInv, SignInTypeOK, Visit
<1>2. new \in Account
  <2>1. \A s \in BOOLEAN, l \in 0 .. MaxStep, f \in 0 .. TENTATIVAS, r \in BOOLEAN :
          [saw EXCEPT !.secret = s, !.last = l, !.failed = f, !.resting = r] \in Account
    BY <1>1 DEF Account
  <2>2. 0 \in 0 .. MaxStep /\ 0 \in 0 .. TENTATIVAS
    BY SignInAssumption
  <2> QED
    BY <2>1, <2>2, Zenon
<1>3. Store(saw, new) /\ Leave(v) /\ spent' = {} /\ UNCHANGED <<step, reused>>
  BY DEF Iniciar, Knows
<1> HIDE DEF new
<1>4. account' \in Account
  BY <1>1, <1>2, <1>3, StoreGives DEF SignInInv
<1> QED
  BY <1>3, <1>4, LeaveKeeps DEF SignInInv, SignInTypeOK

LEMMA ConfirmarKeeps ==
  ASSUME SignInInv, NEW v \in Visitor, Confirmar(v)
  PROVE  SignInInv'
<1> DEFINE saw == visit[v].saw
           code == visit[v].code
           new == [saw EXCEPT !.enabled = TRUE, !.last = code, !.recovery = Recovery,
                              !.failed = 0, !.resting = FALSE]
<1>1. saw \in Account /\ code \in Code
  BY DEF SignInInv, SignInTypeOK, Visit
<1>2. code \in Int /\ code \in 1 .. MaxStep /\ code \notin Recovery
  BY <1>1, AppCodes DEF SignInInv, Edits, Confirmar
<1>3. new \in Account /\ new.last = code /\ new.recovery = Recovery
  <2>1. ASSUME NEW e \in BOOLEAN, NEW l \in 0 .. MaxStep, NEW c \in SUBSET Recovery,
               NEW f \in 0 .. TENTATIVAS, NEW r \in BOOLEAN
        PROVE  [saw EXCEPT !.enabled = e, !.last = l, !.recovery = c, !.failed = f,
                           !.resting = r] \in Account
    BY <1>1 DEF Account
  <2>2. code \in 0 .. MaxStep /\ 0 \in 0 .. TENTATIVAS
    BY <1>2, SignInAssumption
  <2>3. Recovery \in SUBSET Recovery
    OBVIOUS
  <2>4. new \in Account
    BY <2>1, <2>2, <2>3, Zenon
  <2>5. new.last = code /\ new.recovery = Recovery
    BY <1>1 DEF Account
  <2> QED
    BY <2>4, <2>5
<1>4. Store(saw, new) /\ Leave(v) /\ Knows(v, {code}) /\ UNCHANGED <<step, reused>>
  BY DEF Confirmar
<1> HIDE DEF new
<1>5. account' \in Account
  BY <1>1, <1>3, <1>4, StoreGives DEF SignInInv
<1>6. spent' \subseteq Code /\ \A c \in spent' : Dead(account, c)'
  <2>1. CASE Fresh(saw)
    BY <1>1, <1>2, <1>3, <1>4, <2>1, FreshStore DEF SignInInv, Dead, Knows
  <2>2. CASE ~Fresh(saw)
    BY <1>4, <2>2 DEF Knows
  <2> QED
    BY <2>1, <2>2
<1> QED
  BY <1>4, <1>5, <1>6, LeaveKeeps DEF SignInInv, SignInTypeOK

LEMMA DesativarKeeps ==
  ASSUME SignInInv, NEW v \in Visitor, Desativar(v)
  PROVE  SignInInv'
<1> DEFINE saw == visit[v].saw
           code == visit[v].code
<1>1. saw \in Account /\ code \in Code /\ NoFactor \in Account
  BY NothingTyped DEF SignInInv, SignInTypeOK, Visit
<1>2. Store(saw, NoFactor) /\ Leave(v) /\ Knows(v, spent \cup {code}) /\ UNCHANGED step
      /\ reused' = (reused \/ visit[v].worn)
  BY DEF Desativar, Record
<1>3. ~reused'
  BY <1>2 DEF SignInInv, Edits, Desativar
<1>4. account' \in Account
  BY <1>1, <1>2, StoreGives DEF SignInInv
<1>5. spent' \subseteq Code /\ \A c \in spent' : Dead(account, c)'
  <2>1. CASE Fresh(saw)
    <3>1. account'.secret = FALSE
      BY <1>1, <1>2, <2>1, FreshStore DEF SignInInv, NoFactor
    <3> QED
      BY <1>1, <1>2, <2>1, <3>1 DEF SignInInv, SignInTypeOK, Knows, Dead
  <2>2. CASE ~Fresh(saw)
    BY <1>2, <2>2 DEF Knows
  <2> QED
    BY <2>1, <2>2
<1> QED
  BY <1>2, <1>3, <1>4, <1>5, LeaveKeeps DEF SignInInv, SignInTypeOK

-----------------------------------------------------------------------------
(***************************************************************************)
(* The theorem.                                                            *)
(***************************************************************************)

LEMMA EditReadsKeeps ==
  ASSUME SignInInv, NEW v \in Visitor, NEW code \in Code, EditReads(v, code)
  PROVE  SignInInv'
<1>1. account.enabled => code \notin spent
  BY HoldsIsAlive DEF EditReads, SignInInv, SignInTypeOK, SpentAreDead
<1>2. ~account.enabled => code \in Int \cup {missing}
  BY DEF EditReads, SignInInv, SignInTypeOK
<1> QED
  BY <1>1, <1>2, OpensKeeps DEF EditReads, Untouched

LEMMA SignInNextKeeps ==
  ASSUME SignInInv, SignInNext
  PROVE  SignInInv'
<1>1. CASE \E v \in Visitor : LoginReads(v) \/ VerifySkips(v)
  BY <1>1, MovesKeeps DEF LoginReads, VerifySkips, Enters, Untouched, SignInInv, SignInTypeOK,
                          SpentAreDead
<1>2. CASE \E v \in Visitor, code \in Code : VerifyReads(v, code)
  BY <1>2, OpensKeeps DEF VerifyReads, Untouched
<1>3. CASE \E v \in Visitor, code \in Code : EditReads(v, code)
  BY <1>3, EditReadsKeeps
<1>4. CASE \E v \in Visitor : \/ \E code \in Code : VerifyTurnsAway(v, code)
                              \/ PoolTimesOut(v) \/ LoginEnds(v)
  BY <1>4, LeaveKeeps DEF VerifyTurnsAway, PoolTimesOut, LoginEnds, Untouched, SignInInv,
                          SignInTypeOK, SpentAreDead
<1>5. CASE \E v \in Visitor : \/ VerifyAccepts(v) \/ VerifyRefuses(v)
                              \/ Iniciar(v) \/ Confirmar(v) \/ Desativar(v)
  BY <1>5, AcceptKeeps, RefuseKeeps, IniciarKeeps, ConfirmarKeeps, DesativarKeeps
<1>6. CASE Later
  BY <1>6 DEF Later, SignInInv, SignInTypeOK, SpentAreDead, WornAreDead, Edits, Dead
<1>7. CASE Rested
  <2>1. account' \in Account /\ account'.secret = account.secret /\ account'.last = account.last
        /\ account'.recovery = account.recovery
    BY <1>7 DEF Rested, SignInInv, SignInTypeOK, Account
  <2> QED
    BY <1>7, <2>1 DEF Rested, SignInInv, SignInTypeOK, SpentAreDead, WornAreDead, Edits, Dead
<1> QED
  BY <1>1, <1>2, <1>3, <1>4, <1>5, <1>6, <1>7 DEF SignInNext

\* A code lets nobody in twice, whatever requests cross, except after a session
\* has written over a row that had changed (app/services/mfa.py, _aceita).
THEOREM CodesAreSpentOnce == OfficeSpec => []SpentCodeStaysSpent
<1>1. OfficeInit => SignInInv
  BY SignInInitHolds DEF OfficeInit
<1>2. SignInInv /\ [OfficeNext]_officeVars => SignInInv'
  <2> SUFFICES ASSUME SignInInv, [OfficeNext]_officeVars PROVE SignInInv'
    OBVIOUS
  <2>1. SignInNext \/ UNCHANGED signInVars
    BY DEF OfficeNext, officeVars, NotSignIn, NotRavi
  <2>2. CASE UNCHANGED signInVars
    BY <2>2 DEF signInVars, SignInInv, SignInTypeOK, SpentAreDead, WornAreDead, Edits, Dead
  <2> QED
    BY <2>1, <2>2, SignInNextKeeps
<1>3. SignInInv => SpentCodeStaysSpent
  BY DEF SignInInv, SpentCodeStaysSpent
<1> QED
  BY <1>1, <1>2, <1>3, PTL DEF OfficeSpec

-----------------------------------------------------------------------------
(***************************************************************************)
(* SeatsOvershootIsBounded holds for any plan, any number of people and    *)
(* invitations, and any number of requests in flight.                      *)
(*                                                                         *)
(* By itself it is not inductive: an invitation is committed long after    *)
(* its request counted the seats, and it then replaces invitations and     *)
(* members that were counted. SeatsInv charges each request in flight with *)
(* the seat it is about to take, and credits it with the invitations it    *)
(* holds and will clear, for every set of requests that may still commit:  *)
(* the last of them to count was within the plan by itself, so the set     *)
(* oversteps it by the others, of which there are fewer than desks; and a  *)
(* seat taken behind the back of a request is an extra one.                *)
(***************************************************************************)

InvitationRec == [to : Person, role : Role \cup {"none"},
                  status : {"absent", "pending", "expired", "accepted"}]

\* The facts about types that the argument needs.
MembersTypeOK ==
  /\ member \in [Person -> Membership]
  /\ invite \in [Invite -> InvitationRec]
  /\ desk \in [Desk -> Request]
  /\ extra \in Nat

Inviting == {d \in Desk : desk[d].op = "invite"}

\* The invitations that the requests of D replace when they commit.
Clears(D) == UNION {desk[d].held : d \in D}

\* The people whose seat a request of D will find taken behind its back, and
\* count as extra.
Overtakes(D) == {p \in Person : \E d \in D : desk[d].on = p /\ Overtaken(desk[d])}

Seated(D) == ActiveMembers \ Overtakes(D)

Unreplaced(D) == Pending \ Clears(D)

\* Whichever of the requests in flight commit: what they leave, and one seat
\* for each of them, is within the plan.
SeatsWithin(D) ==
  Cardinality(Seated(D)) + Cardinality(Unreplaced(D)) + Cardinality(D)
    <= Seats + Cardinality(Desk) - 1 + extra

\* An invitation in the hands of a request is to the person it is about.
ApartInv ==
  \A d \in Desk : \A j \in desk[d].held :
    /\ invite[j].status \in {"pending", "expired"} => invite[j].to = desk[d].on
    /\ \A e \in Desk : j \in desk[e].held => desk[e].on = desk[d].on

SeatsInv == \A D \in SUBSET Inviting : SeatsWithin(D)

MembersInv == MembersTypeOK /\ ApartInv /\ SeatsInv

-----------------------------------------------------------------------------
(***************************************************************************)
(* Types.                                                                  *)
(***************************************************************************)

LEMMA PlainRecords ==
  /\ Stranger \in Membership /\ NoInvite \in InvitationRec /\ NoRequest \in Request
  /\ Stranger.active = FALSE
BY MembersAssumption DEF Stranger, NoInvite, NoRequest, Membership, InvitationRec, Request

LEMMA UpsertType ==
  ASSUME MembersTypeOK, NEW p \in Person, NEW saw \in Membership, NEW new \in Membership,
         Upsert(p, saw, new)
  PROVE  /\ member' \in [Person -> Membership]
         /\ \A q \in Person \ {p} : member'[q] = member[q]
         /\ member'[p].active => member[p].active \/ (new.active /\ ~saw.active)
<1> DEFINE m == [f \in {"role", "active"} |->
                   IF f \in Changed(saw, new) THEN new[f] ELSE member[p][f]]
<1>1. member' = [member EXCEPT ![p] = m]
  BY DEF Upsert, MembersTypeOK
<1>2. m \in Membership
  BY DEF MembersTypeOK, Membership
<1>3. m.active => member[p].active \/ (new.active /\ ~saw.active)
  BY DEF Changed, MembersTypeOK, Membership
<1> QED
  BY <1>1, <1>2, <1>3 DEF MembersTypeOK

LEMMA MembersTypeStep ==
  ASSUME MembersTypeOK, MembersNext
  PROVE  MembersTypeOK'
<1> USE PlainRecords
<1>0. /\ extra + 1 \in Nat
      /\ \A d \in Desk : /\ desk[d].on \in Person /\ desk[d].saw \in Membership
                         /\ desk[d].new \in Membership /\ desk[d].held \subseteq Invite
                         /\ desk[d].new.role \in Role \cup {"none"}
      /\ \A i \in Invite : /\ invite[i].to \in Person /\ invite[i].role \in Role \cup {"none"}
                           /\ invite[i].status \in {"absent", "pending", "expired", "accepted"}
  BY DEF MembersTypeOK, Request, Membership, InvitationRec
<1>1. ASSUME NEW d \in Desk, Answer(d)
      PROVE  desk' \in [Desk -> Request]
  BY <1>1 DEF Answer, MembersTypeOK
<1>2. ASSUME NEW d \in Desk, NEW r \in Request, Ask(d, r)
      PROVE  desk' \in [Desk -> Request]
  BY <1>2 DEF Ask, MembersTypeOK
<1>3. ASSUME NEW d \in Desk, NEW p \in Person, NEW role \in Role, InviteCheck(d, p, role)
      PROVE  MembersTypeOK'
  BY <1>2, <1>3 DEF InviteCheck, NoRequest, Request, Membership, MembersTypeOK
<1>4. ASSUME NEW d \in Desk, NEW i \in Invite, AcceptRead(d, i)
      PROVE  MembersTypeOK'
  BY <1>0, <1>2, <1>4 DEF AcceptRead, Request, Membership, MembersTypeOK
<1>5. ASSUME NEW d \in Desk, NEW p \in Person,
             (\E new \in Membership : new.role # "none" /\ UpdateRead(d, p, new)) \/ RemoveRead(d, p)
      PROVE  MembersTypeOK'
  BY <1>2, <1>5 DEF UpdateRead, RemoveRead, NoRequest, Request, MembersTypeOK
<1>6. ASSUME NEW d \in Desk, InviteCommit(d)
      PROVE  MembersTypeOK'
  <2>1. PICK i \in Invite :
          invite' = [j \in Invite |->
            IF j = i THEN [to |-> desk[d].on, role |-> desk[d].new.role, status |-> "pending"]
            ELSE IF j \in desk[d].held THEN NoInvite ELSE invite[j]]
    BY <1>6 DEF InviteCommit, Unused
  <2> QED
    BY <1>0, <1>1, <1>6, <2>1 DEF InviteCommit, InvitationRec, MembersTypeOK
<1>7. ASSUME NEW d \in Desk, AcceptCommit(d)
      PROVE  MembersTypeOK'
  BY <1>0, <1>1, <1>7, UpsertType DEF AcceptCommit, InvitationRec, NoInvite, MembersTypeOK
<1>8. ASSUME NEW d \in Desk, UpdateCommit(d)
      PROVE  MembersTypeOK'
  BY <1>0, <1>1, <1>8, UpsertType DEF UpdateCommit, MembersTypeOK
<1>9. ASSUME NEW d \in Desk,
             InviteDropped(d) \/ AcceptFails(d) \/ UpdateFails(d) \/ RemoveCommit(d)
      PROVE  MembersTypeOK'
  BY <1>0, <1>1, <1>9
  DEF InviteDropped, AcceptFails, UpdateFails, RemoveCommit, MembersTypeOK
<1>10. ASSUME NEW i \in Invite, Revogar(i) \/ Expire(i)
       PROVE  MembersTypeOK'
  BY <1>0, <1>10 DEF Revogar, Expire, InvitationRec, MembersTypeOK
<1> QED
  BY <1>3, <1>4, <1>5, <1>6, <1>7, <1>8, <1>9, <1>10 DEF MembersNext

-----------------------------------------------------------------------------
(***************************************************************************)
(* An invitation two requests hold is to one person.                       *)
(***************************************************************************)

\* No request comes to hold an invitation, and no invitation that is held
\* changes hands.
LEMMA ApartKept ==
  ASSUME MembersTypeOK, ApartInv,
         \A d \in Desk : /\ desk'[d].held \subseteq desk[d].held
                         /\ desk'[d].held # {} => desk'[d].on = desk[d].on,
         \A d \in Desk : \A j \in desk'[d].held :
           invite'[j].status \in {"pending", "expired"} =>
             invite[j].status \in {"pending", "expired"} /\ invite'[j].to = invite[j].to
  PROVE  ApartInv'
BY DEF ApartInv

\* A request takes the invitations to p.
LEMMA ApartAsk ==
  ASSUME MembersTypeOK, ApartInv, invite' = invite, NEW d \in Desk, NEW r \in Request,
         Ask(d, r),
         \A j \in r.held : invite[j].status \in {"pending", "expired"} /\ invite[j].to = r.on
  PROVE  ApartInv'
<1>1. desk'[d] = r /\ \A e \in Desk \ {d} : desk'[e] = desk[e]
  BY DEF Ask, MembersTypeOK
<1> QED
  BY <1>1 DEF ApartInv

LEMMA ApartStep ==
  ASSUME MembersTypeOK, ApartInv, MembersNext
  PROVE  ApartInv'
<1> USE PlainRecords
<1>0. /\ \A d \in Desk : desk[d] \in Request /\ desk[d].held \subseteq Invite
      /\ NoRequest.held = {}
  BY DEF MembersTypeOK, Request, NoRequest
<1>1. ASSUME NEW d \in Desk, Answer(d)
      PROVE  /\ desk'[d].held = {} /\ \A e \in Desk \ {d} : desk'[e] = desk[e]
  BY <1>0, <1>1 DEF Answer, MembersTypeOK
<1>2. ASSUME NEW d \in Desk, Answer(d), invite' = invite
      PROVE  ApartInv'
  BY <1>1, <1>2, ApartKept
<1>3. ASSUME NEW d \in Desk, NEW p \in Person, NEW role \in Role, InviteCheck(d, p, role)
      PROVE  ApartInv'
  <2> DEFINE r == [NoRequest EXCEPT !.op = "invite", !.on = p,
                     !.new = [role |-> role, active |-> TRUE],
                     !.held = {i \in Invite : /\ invite[i].status \in {"pending", "expired"}
                                              /\ invite[i].to = p}]
  <2>1. Ask(d, r) /\ invite' = invite
    BY <1>3 DEF InviteCheck
  <2>2. r \in Request /\ r.on = p
        /\ r.held = {i \in Invite : /\ invite[i].status \in {"pending", "expired"}
                                    /\ invite[i].to = p}
    BY DEF NoRequest, Request, Membership
  <2> HIDE DEF r
  <2> QED
    BY <2>1, <2>2, ApartAsk
<1>4. ASSUME NEW d \in Desk, NEW i \in Invite, AcceptRead(d, i)
      PROVE  ApartInv'
  <2> DEFINE p == invite[i].to
             r == [op |-> "accept", on |-> p, saw |-> member[p],
                   new |-> [role |-> invite[i].role, active |-> TRUE], held |-> {i}]
  <2>1. Ask(d, r) /\ invite' = invite /\ invite[i].status = "pending"
    BY <1>4 DEF AcceptRead
  <2>2. r \in Request /\ r.on = p /\ r.held = {i}
    BY DEF Request, Membership, MembersTypeOK, InvitationRec
  <2> HIDE DEF r
  <2> QED
    BY <2>1, <2>2, ApartAsk
<1>5. ASSUME NEW d \in Desk, NEW p \in Person,
             (\E new \in Membership : new.role # "none" /\ UpdateRead(d, p, new)) \/ RemoveRead(d, p)
      PROVE  ApartInv'
  <2>1. PICK r \in Request : Ask(d, r) /\ r.held = {} /\ invite' = invite
    BY <1>5 DEF UpdateRead, RemoveRead, NoRequest, Request, MembersTypeOK
  <2> QED
    BY <2>1, ApartAsk
<1>6. ASSUME NEW d \in Desk, InviteCommit(d)
      PROVE  ApartInv'
  <2>1. PICK i \in Unused(d) :
          invite' = [j \in Invite |->
            IF j = i THEN [to |-> desk[d].on, role |-> desk[d].new.role, status |-> "pending"]
            ELSE IF j \in desk[d].held THEN NoInvite ELSE invite[j]]
    BY <1>6 DEF InviteCommit
  <2>2. desk'[d].held = {} /\ \A e \in Desk \ {d} : desk'[e] = desk[e]
    BY <1>1, <1>6 DEF InviteCommit
  <2>3. \A e \in Desk \ {d} : i \notin desk[e].held
    BY <2>1 DEF Unused, Held
  <2>4. NoInvite.status = "absent"
    BY DEF NoInvite
  <2>5. \A e \in Desk : \A j \in desk'[e].held :
          invite'[j] = NoInvite \/ invite'[j] = invite[j]
    BY <1>0, <2>1, <2>2, <2>3
  <2> QED
    BY <2>2, <2>4, <2>5, ApartKept
<1>7. ASSUME NEW d \in Desk, AcceptCommit(d)
      PROVE  ApartInv'
  <2>1. desk'[d].held = {} /\ \A e \in Desk \ {d} : desk'[e] = desk[e]
    BY <1>1, <1>7 DEF AcceptCommit
  <2>2. \A j \in Invite : invite'[j] = invite[j] \/ invite'[j].status \in {"accepted", "absent"}
    BY <1>7 DEF AcceptCommit, NoInvite
  <2> QED
    BY <1>0, <2>1, <2>2, ApartKept
<1>8. ASSUME NEW d \in Desk,
             \/ UpdateCommit(d) \/ InviteDropped(d) \/ AcceptFails(d)
             \/ UpdateFails(d) \/ RemoveCommit(d)
      PROVE  ApartInv'
  BY <1>2, <1>8 DEF UpdateCommit, InviteDropped, AcceptFails, UpdateFails, RemoveCommit
<1>9. ASSUME NEW i \in Invite, Revogar(i) \/ Expire(i)
      PROVE  ApartInv'
  <2>1. /\ desk' = desk
        /\ \A j \in Invite : \/ invite'[j] = invite[j] \/ invite'[j].status = "absent"
                             \/ /\ invite[j].status = "pending"
                                /\ invite'[j].to = invite[j].to
    BY <1>9 DEF Revogar, Expire, NoInvite, MembersTypeOK, InvitationRec
  <2> QED
    BY <1>0, <2>1, ApartKept
<1> QED
  BY <1>3, <1>4, <1>5, <1>6, <1>7, <1>8, <1>9 DEF MembersNext

-----------------------------------------------------------------------------
(***************************************************************************)
(* Counting seats.                                                         *)
(***************************************************************************)

LEMMA PartCount ==
  ASSUME NEW S, IsFiniteSet(S), NEW T \in SUBSET S
  PROVE  IsFiniteSet(T) /\ Cardinality(T) \in Nat /\ Cardinality(T) <= Cardinality(S)
BY FS_Subset, FS_CardinalityType

\* One element more is one more at most.
LEMMA OneMore ==
  ASSUME NEW S, IsFiniteSet(S), NEW x, NEW T \in SUBSET (S \cup {x})
  PROVE  Cardinality(T) \in Nat /\ Cardinality(T) <= Cardinality(S) + 1
<1>1. /\ IsFiniteSet(S \cup {x}) /\ Cardinality(S) \in Nat
      /\ Cardinality(S \cup {x}) \in {Cardinality(S), Cardinality(S) + 1}
  BY FS_AddElement, FS_CardinalityType
<1>2. Cardinality(T) \in Nat /\ Cardinality(T) <= Cardinality(S \cup {x})
  BY <1>1, PartCount
<1> QED
  BY <1>1, <1>2

LEMMA SeatsCount ==
  ASSUME NEW D \in SUBSET Desk
  PROVE  /\ IsFiniteSet(Seated(D)) /\ Cardinality(Seated(D)) \in Nat
         /\ IsFiniteSet(Unreplaced(D)) /\ Cardinality(Unreplaced(D)) \in Nat
         /\ IsFiniteSet(D) /\ Cardinality(D) \in Nat
         /\ Cardinality(Desk) \in Nat /\ Cardinality(D) <= Cardinality(Desk)
<1>1. IsFiniteSet(Invite)
  BY MembersAssumption, FS_Interval DEF Invite
<1>2. Seated(D) \subseteq Person /\ Unreplaced(D) \subseteq Invite
  BY DEF Seated, ActiveMembers, Unreplaced, Pending
<1> QED
  BY <1>1, <1>2, PartCount, FS_CardinalityType, MembersAssumption

\* What D may come to is compared with what E might have come to, with m in
\* its place for the seats that are new.
LEMMA SeatsCompared ==
  ASSUME MembersTypeOK, MembersTypeOK',
         NEW D \in SUBSET Desk, NEW E \in SUBSET Desk, SeatsWithin(E),
         NEW a \in Nat, NEW b \in Int,
         Cardinality(Seated(D)') <= Cardinality(Seated(E)) + a,
         Cardinality(Unreplaced(D)') + Cardinality(D)
           <= Cardinality(Unreplaced(E)) + Cardinality(E) + b,
         Cardinality(Seated(D)') \in Nat, Cardinality(Unreplaced(D)') \in Nat,
         extra + a + b <= extra'
  PROVE  SeatsWithin(D)'
<1>1. extra \in Nat /\ extra' \in Nat /\ Seats \in Nat
  BY MembersAssumption DEF MembersTypeOK
<1>2. Cardinality(Desk) \in Nat /\ Cardinality(D) \in Nat /\ Cardinality(E) \in Nat
      /\ Cardinality(Seated(E)) \in Nat /\ Cardinality(Unreplaced(E)) \in Nat
  BY SeatsCount
<1>3. Cardinality(Seated(D)') + Cardinality(Unreplaced(D)') + Cardinality(D)
        <= Seats + Cardinality(Desk) - 1 + extra'
  BY <1>1, <1>2 DEF SeatsWithin
<1> QED
  BY <1>3 DEF SeatsWithin

\* Nothing is taken.
LEMMA SeatsKept ==
  ASSUME MembersTypeOK, MembersTypeOK', NEW D \in SUBSET Desk, SeatsWithin(D),
         Seated(D)' \subseteq Seated(D), Unreplaced(D)' \subseteq Unreplaced(D),
         extra' = extra
  PROVE  SeatsWithin(D)'
<1>1. /\ Cardinality(Seated(D)') \in Nat /\ Cardinality(Unreplaced(D)') \in Nat
      /\ Cardinality(Seated(D)') <= Cardinality(Seated(D))
      /\ Cardinality(Unreplaced(D)') <= Cardinality(Unreplaced(D))
  BY SeatsCount, PartCount
<1>2. Cardinality(D) \in Nat /\ Cardinality(Seated(D)) \in Nat
      /\ Cardinality(Unreplaced(D)) \in Nat /\ extra \in Nat
  BY SeatsCount DEF MembersTypeOK
<1> QED
  BY <1>1, <1>2, SeatsCompared

\* A seat is taken that is charged to extra.
LEMMA SeatsCharged ==
  ASSUME MembersTypeOK, MembersTypeOK', NEW D \in SUBSET Desk, SeatsWithin(D), NEW p,
         Seated(D)' \subseteq Seated(D) \cup {p}, Unreplaced(D)' \subseteq Unreplaced(D),
         extra' = extra + 1
  PROVE  SeatsWithin(D)'
<1>1. /\ Cardinality(Seated(D)') \in Nat /\ Cardinality(Unreplaced(D)') \in Nat
      /\ Cardinality(Seated(D)') <= Cardinality(Seated(D)) + 1
      /\ Cardinality(Unreplaced(D)') <= Cardinality(Unreplaced(D))
  BY SeatsCount, PartCount, OneMore
<1>2. Cardinality(D) \in Nat /\ Cardinality(Seated(D)) \in Nat
      /\ Cardinality(Unreplaced(D)) \in Nat /\ extra \in Nat
  BY SeatsCount DEF MembersTypeOK
<1> QED
  BY <1>1, <1>2, SeatsCompared

\* A seat is taken in exchange for an invitation.
LEMMA SeatsExchanged ==
  ASSUME MembersTypeOK, MembersTypeOK', NEW D \in SUBSET Desk, SeatsWithin(D), NEW p,
         NEW i \in Unreplaced(D),
         Seated(D)' \subseteq Seated(D) \cup {p}, Unreplaced(D)' \subseteq Unreplaced(D) \ {i},
         extra' = extra
  PROVE  SeatsWithin(D)'
<1>1. Cardinality(Unreplaced(D) \ {i}) = Cardinality(Unreplaced(D)) - 1
      /\ IsFiniteSet(Unreplaced(D) \ {i})
  BY SeatsCount, FS_RemoveElement
<1>2. /\ Cardinality(Seated(D)') \in Nat /\ Cardinality(Unreplaced(D)') \in Nat
      /\ Cardinality(Seated(D)') <= Cardinality(Seated(D)) + 1
      /\ Cardinality(Unreplaced(D)') <= Cardinality(Unreplaced(D)) - 1
  BY <1>1, SeatsCount, PartCount, OneMore
<1>3. Cardinality(D) \in Nat /\ Cardinality(Seated(D)) \in Nat
      /\ Cardinality(Unreplaced(D)) \in Nat /\ extra \in Nat
  BY SeatsCount DEF MembersTypeOK
<1>4. Cardinality(Unreplaced(D)') + Cardinality(D)
        <= Cardinality(Unreplaced(D)) + Cardinality(D) + (-1)
      /\ extra + 1 + (-1) <= extra' /\ 1 \in Nat /\ -1 \in Int
  BY <1>2, <1>3
<1> QED
  BY <1>2, <1>4, SeatsCompared

-----------------------------------------------------------------------------
(***************************************************************************)
(* The requests.                                                           *)
(***************************************************************************)

LEMMA RequestType ==
  ASSUME MembersTypeOK, NEW d \in Desk
  PROVE  /\ desk[d].on \in Person /\ desk[d].saw \in Membership
         /\ desk[d].new \in Membership /\ desk[d].held \subseteq Invite
BY DEF MembersTypeOK, Request

\* The requests of D are as they were, and so is what they hold.
LEMMA SameRequests ==
  ASSUME NEW D \in SUBSET Desk, \A e \in D : desk'[e] = desk[e], invite' = invite
  PROVE  Overtakes(D)' = Overtakes(D) /\ Unreplaced(D)' = Unreplaced(D)
BY DEF Overtakes, Overtaken, Unreplaced, Clears, Pending

\* Request d comes or goes without being one that invites; who is a member stays.
LEMMA SeatsOther ==
  ASSUME MembersTypeOK, MembersTypeOK', SeatsInv, NEW d \in Desk,
         UNCHANGED <<member, invite, extra>>,
         \A e \in Desk \ {d} : desk'[e] = desk[e], desk'[d].op # "invite"
  PROVE  SeatsInv'
<1> SUFFICES ASSUME NEW D \in SUBSET Inviting'
             PROVE  SeatsWithin(D)'
  BY DEF SeatsInv
<1>1. D \subseteq Inviting /\ D \subseteq Desk /\ \A e \in D : desk'[e] = desk[e]
  BY DEF Inviting
<1>2. Seated(D)' \subseteq Seated(D) /\ Unreplaced(D)' \subseteq Unreplaced(D)
  BY <1>1, SameRequests DEF Seated, ActiveMembers
<1>3. SeatsWithin(D)
  BY <1>1 DEF SeatsInv
<1> QED
  BY <1>1, <1>2, <1>3, SeatsKept

LEMMA SeatsInviteCheck ==
  ASSUME MembersTypeOK, MembersTypeOK', SeatsInv,
         NEW d \in Desk, NEW p \in Person, NEW role \in Role, InviteCheck(d, p, role)
  PROVE  SeatsInv'
<1> SUFFICES ASSUME NEW D \in SUBSET Inviting'
             PROVE  SeatsWithin(D)'
  BY DEF SeatsInv
<1>1. D \subseteq Desk
  BY DEF Inviting
<1>2. /\ UNCHANGED <<member, invite, extra>>
      /\ \A e \in Desk \ {d} : desk'[e] = desk[e]
      /\ desk'[d].held = {i \in Invite : /\ invite[i].status \in {"pending", "expired"}
                                         /\ invite[i].to = p}
  BY PlainRecords DEF InviteCheck, Ask, MembersTypeOK, Request
<1>3. CASE d \notin D
  <2>1. D \subseteq Inviting /\ \A e \in D : desk'[e] = desk[e]
    BY <1>1, <1>2, <1>3 DEF Inviting
  <2>2. Seated(D)' \subseteq Seated(D) /\ Unreplaced(D)' \subseteq Unreplaced(D)
    BY <1>1, <1>2, <2>1, SameRequests DEF Seated, ActiveMembers
  <2>3. SeatsWithin(D)
    BY <2>1 DEF SeatsInv
  <2> QED
    BY <1>1, <1>2, <2>2, <2>3, SeatsKept
<1>4. CASE d \in D
  <2> DEFINE Others == {i \in Pending : invite[i].to # p}
  <2>1. Seated(D)' \subseteq ActiveMembers
    BY <1>2 DEF Seated, ActiveMembers
  <2>2. Unreplaced(D)' \subseteq Others
    BY <1>2, <1>4 DEF Unreplaced, Clears, Pending
  <2>3. IsFiniteSet(ActiveMembers) /\ IsFiniteSet(Others)
    <3>1. IsFiniteSet(Invite)
      BY MembersAssumption, FS_Interval DEF Invite
    <3>2. ActiveMembers \subseteq Person /\ Others \subseteq Invite
      BY DEF ActiveMembers, Pending
    <3> QED
      BY <3>1, <3>2, PartCount, MembersAssumption
  <2>4. Cardinality(ActiveMembers) + Cardinality(Others) < Seats
    BY DEF InviteCheck, SeatsTaken
  <2>5. /\ Cardinality(Seated(D)') <= Cardinality(ActiveMembers)
        /\ Cardinality(Unreplaced(D)') <= Cardinality(Others)
        /\ Cardinality(Seated(D)') \in Nat /\ Cardinality(Unreplaced(D)') \in Nat
    BY <2>1, <2>2, <2>3, PartCount
  <2>6. Cardinality(ActiveMembers) \in Nat /\ Cardinality(Others) \in Nat
    BY <2>3, FS_CardinalityType
  <2>7. extra \in Nat /\ extra' = extra /\ Seats \in Nat
    BY <1>2, MembersAssumption DEF MembersTypeOK
  <2>8. Cardinality(D) \in Nat /\ Cardinality(Desk) \in Nat
        /\ Cardinality(D) <= Cardinality(Desk)
    BY <1>1, SeatsCount
  <2> HIDE DEF Others
  <2>9. Cardinality(Seated(D)') + Cardinality(Unreplaced(D)') + Cardinality(D)
          <= Seats + Cardinality(Desk) - 1 + extra'
    BY <2>4, <2>5, <2>6, <2>7, <2>8
  <2> QED
    BY <2>9 DEF SeatsWithin
<1> QED
  BY <1>3, <1>4

LEMMA SeatsInviteCommit ==
  ASSUME MembersTypeOK, MembersTypeOK', ApartInv, SeatsInv, NEW d \in Desk, InviteCommit(d)
  PROVE  SeatsInv'
<1> SUFFICES ASSUME NEW D \in SUBSET Inviting'
             PROVE  SeatsWithin(D)'
  BY DEF SeatsInv
<1> DEFINE r == desk[d]
           E == D \cup {d}
<1>1. PICK i \in Unused(d) :
        invite' = [j \in Invite |->
          IF j = i THEN [to |-> r.on, role |-> r.new.role, status |-> "pending"]
          ELSE IF j \in r.held THEN NoInvite ELSE invite[j]]
  BY DEF InviteCommit
<1>2. /\ r.op = "invite" /\ member' = member
      /\ extra' = IF Overtaken(r) THEN extra + 1 ELSE extra
      /\ \A e \in Desk \ {d} : desk'[e] = desk[e]
      /\ desk'[d].op = "none"
  BY DEF InviteCommit, Answer, MembersTypeOK, NoRequest
<1>3. d \notin D /\ D \subseteq Desk /\ E \subseteq Inviting /\ E \subseteq Desk
      /\ \A e \in D : desk'[e] = desk[e] /\ i \notin desk[e].held
  BY <1>1, <1>2 DEF Inviting, Unused, Held
<1>4. SeatsWithin(E)
  BY <1>3 DEF SeatsInv
<1>5. Unreplaced(D)' \subseteq Unreplaced(E) \cup {i}
  <2>1. \A j \in Pending' : j = i \/ (j \in Pending /\ j \notin r.held)
    BY <1>1 DEF Pending, NoInvite
  <2>2. Clears(D)' = Clears(D) /\ Clears(E) = Clears(D) \cup r.held
    BY <1>3 DEF Clears
  <2> QED
    BY <2>1, <2>2 DEF Unreplaced
<1>6. \A e \in D : Overtaken(desk[e]) /\ ~Overtaken(desk[e])' =>
                     Overtaken(r) /\ desk[e].on = r.on
  <2> SUFFICES ASSUME NEW e \in D, Overtaken(desk[e]), ~Overtaken(desk[e])'
               PROVE  Overtaken(r) /\ desk[e].on = r.on
    OBVIOUS
  <2>1. PICK j \in desk[e].held : invite[j].status = "accepted"
    BY DEF Overtaken
  <2>2. invite'[j].status # "accepted"
    BY <1>3 DEF Overtaken
  <2>3. j \in Invite /\ j # i
    BY <1>3, RequestType
  <2>4. j \in r.held
    BY <1>1, <2>1, <2>2, <2>3
  <2> QED
    BY <1>3, <2>1, <2>4 DEF Overtaken, ApartInv
<1>7. Overtakes(D) \subseteq Overtakes(D)' \cup (IF Overtaken(r) THEN {r.on} ELSE {})
  BY <1>3, <1>6 DEF Overtakes
<1>8. Overtakes(E) = Overtakes(D) \cup (IF Overtaken(r) THEN {r.on} ELSE {})
  BY RequestType DEF Overtakes
<1>9. Seated(D)' \subseteq Seated(E) \cup (IF Overtaken(r) THEN {r.on} ELSE {})
  BY <1>2, <1>7, <1>8 DEF Seated, ActiveMembers
<1>10. Cardinality(E) = Cardinality(D) + 1 /\ Cardinality(D) \in Nat
  BY <1>3, SeatsCount, FS_AddElement
<1> HIDE DEF E
<1>11. /\ Cardinality(Unreplaced(D)') <= Cardinality(Unreplaced(E)) + 1
       /\ Cardinality(Unreplaced(D)') \in Nat
       /\ Cardinality(Unreplaced(E)) \in Nat /\ Cardinality(Seated(E)) \in Nat
       /\ IsFiniteSet(Seated(E))
  BY <1>3, <1>5, SeatsCount, OneMore
<1>12. Cardinality(Unreplaced(D)') + Cardinality(D)
         <= Cardinality(Unreplaced(E)) + Cardinality(E) + 0
  BY <1>10, <1>11
<1>13. CASE Overtaken(r)
  <2>1. Cardinality(Seated(D)') \in Nat /\ Cardinality(Seated(D)') <= Cardinality(Seated(E)) + 1
    BY <1>9, <1>11, <1>13, OneMore
  <2>2. extra + 1 + 0 <= extra'
    BY <1>2, <1>13 DEF MembersTypeOK
  <2> QED
    BY <1>3, <1>4, <1>11, <1>12, <2>1, <2>2, SeatsCompared
<1>14. CASE ~Overtaken(r)
  <2>1. Cardinality(Seated(D)') \in Nat /\ Cardinality(Seated(D)') <= Cardinality(Seated(E)) + 0
    BY <1>9, <1>11, <1>14, PartCount
  <2>2. extra + 0 + 0 <= extra'
    BY <1>2, <1>14 DEF MembersTypeOK
  <2> QED
    BY <1>3, <1>4, <1>11, <1>12, <2>1, <2>2, SeatsCompared
<1> QED
  BY <1>13, <1>14

LEMMA SeatsAcceptCommit ==
  ASSUME MembersTypeOK, MembersTypeOK', ApartInv, SeatsInv, NEW d \in Desk, AcceptCommit(d)
  PROVE  SeatsInv'
<1> SUFFICES ASSUME NEW D \in SUBSET Inviting'
             PROVE  SeatsWithin(D)'
  BY DEF SeatsInv
<1> DEFINE r == desk[d]
           p == r.on
<1>1. /\ r.op = "accept" /\ extra' = IF Unchecked(r) THEN extra + 1 ELSE extra
      /\ \A e \in Desk \ {d} : desk'[e] = desk[e]
      /\ desk'[d].op = "none"
  BY DEF AcceptCommit, Answer, MembersTypeOK, NoRequest
<1>2. \A j \in Invite : /\ j \notin r.held => invite'[j] = invite[j]
                        /\ j \in r.held /\ Held(d, j) => invite'[j].status = "accepted"
                        /\ j \in r.held => invite'[j].status # "pending"
  BY DEF AcceptCommit, NoInvite
<1>3. D \subseteq Inviting /\ D \subseteq Desk /\ d \notin D
      /\ \A e \in D : desk'[e] = desk[e]
  BY <1>1 DEF Inviting
<1>4. SeatsWithin(D)
  BY <1>3 DEF SeatsInv
<1>5. p \in Person /\ r.held \subseteq Invite
      /\ \A q \in Person \ {p} : member'[q] = member[q]
  BY RequestType, UpsertType DEF AcceptCommit
<1>6. \A e \in D : \A j \in desk[e].held \cap r.held : invite'[j].status = "accepted"
  BY <1>2, <1>3, <1>5 DEF Held
<1>7. Overtakes(D) \subseteq Overtakes(D)'
  <2>1. \A e \in D : Overtaken(desk[e]) => Overtaken(desk[e])'
    BY <1>2, <1>3, <1>6, RequestType DEF Overtaken
  <2> QED
    BY <1>3, <2>1 DEF Overtakes
<1>8. Pending' = Pending \ r.held /\ Unreplaced(D)' = Unreplaced(D) \ r.held
  BY <1>2, <1>3 DEF Pending, Unreplaced, Clears
<1>9. Seated(D)' \subseteq Seated(D) \cup {p}
  BY <1>5, <1>7 DEF Seated, ActiveMembers
<1>10. CASE Unchecked(r)
  BY <1>1, <1>3, <1>4, <1>8, <1>9, <1>10, SeatsCharged
<1>11. CASE member[p].active
  <2>1. Seated(D)' \subseteq Seated(D)
    BY <1>5, <1>7, <1>11 DEF Seated, ActiveMembers
  <2> QED
    BY <1>1, <1>3, <1>4, <1>8, <1>11, <2>1, SeatsKept DEF Unchecked
<1>12. CASE \E i \in r.held : invite[i].status = "pending"
  <2>1. PICK i \in r.held : invite[i].status = "pending"
    BY <1>12
  <2>2. extra' = extra
    BY <1>1, <2>1 DEF Unchecked
  <2>3. CASE i \in Clears(D)
    <3>1. PICK e \in D : i \in desk[e].held
      BY <2>3 DEF Clears
    <3>2. desk'[e].on = p /\ Overtaken(desk[e])'
      BY <1>3, <1>6, <3>1, <2>1 DEF Overtaken, ApartInv
    <3>3. p \in Overtakes(D)'
      BY <1>5, <3>2 DEF Overtakes
    <3>4. Seated(D)' \subseteq Seated(D)
      BY <1>9, <3>3 DEF Seated
    <3> QED
      BY <1>3, <1>4, <1>8, <2>2, <3>4, SeatsKept
  <2>4. CASE i \notin Clears(D)
    <3>1. i \in Unreplaced(D)
      BY <1>5, <2>1, <2>4 DEF Unreplaced, Pending
    <3>2. Unreplaced(D)' \subseteq Unreplaced(D) \ {i}
      BY <1>8, <2>1
    <3> QED
      BY <1>3, <1>4, <1>9, <2>2, <3>1, <3>2, SeatsExchanged
  <2> QED
    BY <2>3, <2>4
<1> QED
  BY <1>10, <1>11, <1>12 DEF Unchecked

LEMMA SeatsUpdateCommit ==
  ASSUME MembersTypeOK, MembersTypeOK', SeatsInv, NEW d \in Desk, UpdateCommit(d)
  PROVE  SeatsInv'
<1> SUFFICES ASSUME NEW D \in SUBSET Inviting'
             PROVE  SeatsWithin(D)'
  BY DEF SeatsInv
<1> DEFINE r == desk[d]
<1>1. /\ r.op = "update" /\ extra' = IF Activates(r) THEN extra + 1 ELSE extra
      /\ \A e \in Desk \ {d} : desk'[e] = desk[e]
      /\ desk'[d].op = "none" /\ invite' = invite
  BY DEF UpdateCommit, Answer, MembersTypeOK, NoRequest
<1>2. D \subseteq Inviting /\ D \subseteq Desk /\ \A e \in D : desk'[e] = desk[e]
  BY <1>1 DEF Inviting
<1>3. SeatsWithin(D)
  BY <1>2 DEF SeatsInv
<1>4. /\ r.on \in Person /\ \A q \in Person \ {r.on} : member'[q] = member[q]
      /\ member'[r.on].active => member[r.on].active \/ (r.new.active /\ ~r.saw.active)
  BY RequestType, UpsertType DEF UpdateCommit
<1>5. Overtakes(D)' = Overtakes(D) /\ Unreplaced(D)' = Unreplaced(D)
  BY <1>1, <1>2, SameRequests
<1>6. CASE Activates(r)
  <2>1. Seated(D)' \subseteq Seated(D) \cup {r.on}
    BY <1>4, <1>5 DEF Seated, ActiveMembers
  <2> QED
    BY <1>1, <1>2, <1>3, <1>5, <1>6, <2>1, SeatsCharged
<1>7. CASE ~Activates(r)
  <2>1. Seated(D)' \subseteq Seated(D)
    BY <1>4, <1>5, <1>7 DEF Seated, ActiveMembers, Activates
  <2> QED
    BY <1>1, <1>2, <1>3, <1>5, <1>7, <2>1, SeatsKept
<1> QED
  BY <1>6, <1>7

LEMMA SeatsRemoveCommit ==
  ASSUME MembersTypeOK, MembersTypeOK', SeatsInv, NEW d \in Desk, RemoveCommit(d)
  PROVE  SeatsInv'
<1> SUFFICES ASSUME NEW D \in SUBSET Inviting'
             PROVE  SeatsWithin(D)'
  BY DEF SeatsInv
<1>1. /\ extra' = extra /\ invite' = invite
      /\ \A e \in Desk \ {d} : desk'[e] = desk[e]
      /\ desk'[d].op = "none"
  BY DEF RemoveCommit, Answer, MembersTypeOK, NoRequest
<1>2. D \subseteq Inviting /\ D \subseteq Desk /\ \A e \in D : desk'[e] = desk[e]
  BY <1>1 DEF Inviting
<1>3. SeatsWithin(D)
  BY <1>2 DEF SeatsInv
<1>4. ActiveMembers' \subseteq ActiveMembers
  BY RequestType, PlainRecords DEF RemoveCommit, ActiveMembers, MembersTypeOK
<1>5. Seated(D)' \subseteq Seated(D) /\ Unreplaced(D)' \subseteq Unreplaced(D)
  BY <1>1, <1>2, <1>4, SameRequests DEF Seated
<1> QED
  BY <1>1, <1>2, <1>3, <1>5, SeatsKept

\* An invitation is withdrawn or expires.
LEMMA SeatsWithdrawn ==
  ASSUME MembersTypeOK, MembersTypeOK', SeatsInv, NEW i \in Invite, Revogar(i) \/ Expire(i)
  PROVE  SeatsInv'
<1> SUFFICES ASSUME NEW D \in SUBSET Inviting'
             PROVE  SeatsWithin(D)'
  BY DEF SeatsInv
<1>1. UNCHANGED <<member, desk, extra>>
  BY DEF Revogar, Expire
<1>2. D \subseteq Inviting /\ D \subseteq Desk
  BY <1>1 DEF Inviting
<1>3. SeatsWithin(D)
  BY <1>2 DEF SeatsInv
<1>4. /\ \A j \in Invite : (invite'[j].status = "accepted") <=> (invite[j].status = "accepted")
      /\ \A j \in Invite : invite'[j].status = "pending" => invite[j].status = "pending"
  BY DEF Revogar, Expire, NoInvite, MembersTypeOK, InvitationRec
<1>5. Overtakes(D)' = Overtakes(D)
  BY <1>1, <1>2, <1>4, RequestType DEF Overtakes, Overtaken
<1>6. Unreplaced(D)' \subseteq Unreplaced(D)
  BY <1>1, <1>4 DEF Unreplaced, Clears, Pending
<1>7. Seated(D)' \subseteq Seated(D)
  BY <1>1, <1>5 DEF Seated, ActiveMembers
<1> QED
  BY <1>1, <1>2, <1>3, <1>6, <1>7, SeatsKept

LEMMA SeatsStep == MembersInv /\ MembersNext => MembersInv'
<1> SUFFICES ASSUME MembersTypeOK, ApartInv, SeatsInv, MembersNext
             PROVE  MembersInv'
  BY DEF MembersInv
<1>1. MembersTypeOK' /\ ApartInv'
  BY MembersTypeStep, ApartStep
<1>2. ASSUME NEW d \in Desk, NEW r \in Request, Ask(d, r), r.op # "invite",
             UNCHANGED <<member, invite, extra>>
      PROVE  SeatsInv'
  BY <1>1, <1>2, SeatsOther DEF Ask, MembersTypeOK
<1>3. ASSUME NEW d \in Desk, NEW i \in Invite, AcceptRead(d, i)
      PROVE  SeatsInv'
  <2> DEFINE p == invite[i].to
             r == [op |-> "accept", on |-> p, saw |-> member[p],
                   new |-> [role |-> invite[i].role, active |-> TRUE], held |-> {i}]
  <2>1. Ask(d, r) /\ UNCHANGED <<member, invite, extra>>
    BY <1>3 DEF AcceptRead
  <2>2. r \in Request /\ r.op # "invite"
    BY DEF Request, Membership, MembersTypeOK, InvitationRec
  <2> HIDE DEF r
  <2> QED
    BY <1>2, <2>1, <2>2
<1>4. ASSUME NEW d \in Desk, NEW p \in Person,
             (\E new \in Membership : new.role # "none" /\ UpdateRead(d, p, new)) \/ RemoveRead(d, p)
      PROVE  SeatsInv'
  <2>1. ASSUME NEW new \in Membership, UpdateRead(d, p, new)
        PROVE  SeatsInv'
    <3> DEFINE r == [op |-> "update", on |-> p, saw |-> member[p], new |-> new, held |-> {}]
    <3>1. Ask(d, r) /\ UNCHANGED <<member, invite, extra>>
      BY <2>1 DEF UpdateRead
    <3>2. r \in Request /\ r.op # "invite"
      BY DEF Request, MembersTypeOK
    <3> HIDE DEF r
    <3> QED
      BY <1>2, <3>1, <3>2
  <2>2. CASE RemoveRead(d, p)
    <3> DEFINE r == [NoRequest EXCEPT !.op = "remove", !.on = p]
    <3>1. Ask(d, r) /\ UNCHANGED <<member, invite, extra>>
      BY <2>2 DEF RemoveRead
    <3>2. r \in Request /\ r.op # "invite"
      BY PlainRecords DEF NoRequest, Request
    <3> HIDE DEF r
    <3> QED
      BY <1>2, <3>1, <3>2
  <2> QED
    BY <1>4, <2>1, <2>2
<1>5. ASSUME NEW d \in Desk, InviteDropped(d) \/ AcceptFails(d) \/ UpdateFails(d)
      PROVE  SeatsInv'
  BY <1>1, <1>5, SeatsOther
  DEF InviteDropped, AcceptFails, UpdateFails, Answer, MembersTypeOK, NoRequest
<1>6. SeatsInv'
  BY <1>1, <1>3, <1>4, <1>5, SeatsInviteCheck, SeatsInviteCommit, SeatsAcceptCommit,
     SeatsUpdateCommit, SeatsRemoveCommit, SeatsWithdrawn DEF MembersNext
<1> QED
  BY <1>1, <1>6 DEF MembersInv

LEMMA SeatsInit == MembersInit => MembersInv
<1> SUFFICES ASSUME MembersInit
             PROVE  MembersInv
  OBVIOUS
<1>1. MembersTypeOK
  BY PlainRecords, MembersAssumption DEF MembersInit, MembersTypeOK, Membership
<1>2. Inviting = {} /\ Pending = {} /\ ActiveMembers = {Founder} /\ extra = 0
  BY MembersAssumption
  DEF MembersInit, Inviting, Pending, ActiveMembers, NoRequest, NoInvite, Stranger
<1>3. ApartInv
  BY DEF MembersInit, ApartInv, NoRequest
<1>4. SeatsWithin({})
  <2>1. Seated({}) \subseteq {Founder} /\ Unreplaced({}) = {}
    BY <1>2 DEF Seated, Unreplaced
  <2>2. Cardinality(Seated({})) <= 1 /\ Cardinality(Seated({})) \in Nat
    <3>1. IsFiniteSet({Founder}) /\ Cardinality({Founder}) = 1
      BY FS_Singleton
    <3> QED
      BY <2>1, <3>1, PartCount
  <2>3. Cardinality(Unreplaced({})) = 0 /\ Cardinality({}) = 0
    BY <2>1, FS_EmptySet
  <2>4. Cardinality(Desk) \in Nat \ {0} /\ Seats \in Nat \ {0}
    BY MembersAssumption, FS_EmptySet, FS_CardinalityType
  <2> QED
    BY <1>2, <2>2, <2>3, <2>4 DEF SeatsWithin
<1>5. SeatsInv
  BY <1>2, <1>4 DEF SeatsInv
<1> QED
  BY <1>1, <1>3, <1>5 DEF MembersInv

(* The plan is exceeded by fewer seats than there are requests side by side, *)
(* and by the seats counted as extra, for any number of people, invitations  *)
(* and requests, and any way they cross.                                     *)
THEOREM SeatsAreBounded == OfficeSpec => []SeatsOvershootIsBounded
<1>1. OfficeInit => MembersInv
  BY SeatsInit DEF OfficeInit
<1>2. MembersInv /\ [OfficeNext]_officeVars => MembersInv'
  <2> SUFFICES ASSUME MembersInv, [OfficeNext]_officeVars
               PROVE  MembersInv'
    OBVIOUS
  <2>1. CASE UNCHANGED membersVars
    <3>1. UNCHANGED <<member, invite, desk, extra>>
      BY <2>1 DEF membersVars
    <3> QED
      BY <3>1 DEF MembersInv, MembersTypeOK, ApartInv, SeatsInv, SeatsWithin, Inviting, Seated,
                  Unreplaced, Overtakes, Overtaken, Clears, Pending, ActiveMembers
  <2>2. CASE MembersNext
    BY <2>2, SeatsStep
  <2> QED
    BY <2>1, <2>2 DEF OfficeNext, NotSignIn, NotRavi, officeVars
<1>3. MembersInv => SeatsOvershootIsBounded
  <2> SUFFICES ASSUME MembersInv
               PROVE  SeatsOvershootIsBounded
    OBVIOUS
  <2>1. SeatsWithin({})
    BY DEF MembersInv, SeatsInv
  <2>2. Seated({}) = ActiveMembers /\ Unreplaced({}) = Pending
    BY DEF Seated, Overtakes, Unreplaced, Clears
  <2>3. Cardinality({}) = 0
    BY FS_EmptySet
  <2>4. /\ Cardinality(ActiveMembers) \in Nat /\ Cardinality(Pending) \in Nat
        /\ Cardinality(Desk) \in Nat /\ extra \in Nat /\ Seats \in Nat
    BY <2>2, SeatsCount, MembersAssumption DEF MembersInv, MembersTypeOK
  <2> QED
    BY <2>1, <2>2, <2>3, <2>4 DEF SeatsWithin, SeatsOvershootIsBounded
<1> QED
  BY <1>1, <1>2, <1>3, PTL DEF OfficeSpec

-----------------------------------------------------------------------------
(***************************************************************************)
(* WindowIsBounded holds for any number of replicas, any limit and window, *)
(* and any outages and restarts.                                           *)
(*                                                                         *)
(* By itself it is not inductive: as requests age, what the buckets have   *)
(* forgotten must be forgotten by the client's window as well.  Covered    *)
(* compares them age by age: the requests younger than k that passed are   *)
(* no more than the requests younger than k in the buckets, and a limit    *)
(* for each bucket lost since.                                             *)
(***************************************************************************)

\* A bucket, whose requests of age 0 are numbered in order.
Bucket(b) ==
  /\ b \in SUBSET (Nat \X Nat) /\ IsFiniteSet(b)
  /\ \A s \in b : s[1] = 0 => s[2] < Cardinality(Newest(b))

Younger(b, k) == {s \in b : s[1] < k}

\* What the replicas have in memory that is younger than k.
InMemory(R, k) == {x \in Replica \X (Nat \X Nat) : x[2] \in R[x[1]] /\ x[2][1] < k}

\* The memories of the replicas.
Memory(R) ==
  /\ R = [r \in Replica |-> R[r]]
  /\ \A r \in Replica : Bucket(R[r]) /\ Cardinality(R[r]) <= Teto

LimiterTypeOK ==
  /\ Bucket(shared) /\ Cardinality(shared) <= Teto
  /\ Memory(reserva)
  /\ Bucket(passed) /\ Bucket(restarts)
  /\ \A s \in passed : s[1] < Janela

Covered == \A k \in 0 .. Janela :
  Cardinality(Younger(passed, k))
    <= Cardinality(Younger(shared, k)) + Cardinality(InMemory(reserva, k))
         + Teto * Cardinality(Younger(restarts, k))

LimiterInv == LimiterTypeOK /\ Covered

-----------------------------------------------------------------------------
(***************************************************************************)
(* Counting the requests of a bucket.                                      *)
(***************************************************************************)

LEMMA BucketCount ==
  ASSUME NEW b, Bucket(b), NEW k
  PROVE  /\ IsFiniteSet(Younger(b, k)) /\ Cardinality(Younger(b, k)) \in Nat
         /\ Cardinality(b) \in Nat /\ Cardinality(Younger(b, k)) <= Cardinality(b)
         /\ IsFiniteSet(Newest(b)) /\ Cardinality(Newest(b)) \in Nat
<1>1. Younger(b, k) \in SUBSET b /\ Newest(b) \in SUBSET b
  BY DEF Younger, Newest
<1> QED
  BY <1>1, FS_Subset, FS_CardinalityType DEF Bucket

LEMMA NoneYounger ==
  ASSUME NEW b, Bucket(b)
  PROVE  Younger(b, 0) = {}
BY DEF Bucket, Younger

\* One request more, and of age 0.
LEMMA AddCounts ==
  ASSUME NEW b, Bucket(b)
  PROVE  /\ Bucket(Add(b)) /\ Cardinality(Add(b)) = Cardinality(b) + 1
         /\ <<0, Cardinality(Newest(b))>> \notin b
         /\ \A k \in Nat \ {0} :
              Cardinality(Younger(Add(b), k)) = Cardinality(Younger(b, k)) + 1
<1> DEFINE c == Cardinality(Newest(b))
           s == <<0, c>>
<1>1. c \in Nat /\ IsFiniteSet(Newest(b)) /\ IsFiniteSet(b) /\ b \in SUBSET (Nat \X Nat)
  BY BucketCount DEF Bucket
<1>2. s \notin b
  <2> SUFFICES ASSUME s \in b
               PROVE  FALSE
    OBVIOUS
  <2>1. s[2] < c
    BY DEF Bucket
  <2>2. s[2] = c
    OBVIOUS
  <2> HIDE DEF c, s
  <2> QED
    BY <1>1, <2>1, <2>2
<1>3. Add(b) = b \cup {s}
  BY DEF Add
<1>4. IsFiniteSet(Add(b)) /\ Cardinality(Add(b)) = Cardinality(b) + 1
  <2> HIDE DEF c, s
  <2> QED
    BY <1>1, <1>2, <1>3, FS_AddElement
<1>5. Newest(Add(b)) = Newest(b) \cup {s} /\ s \notin Newest(b)
  BY <1>2, <1>3 DEF Newest
<1>6. Cardinality(Newest(Add(b))) = c + 1
  BY <1>1, <1>5, FS_AddElement
<1>7. \A t \in Add(b) : t[1] = 0 => t[2] < c + 1
  <2> SUFFICES ASSUME NEW t \in Add(b), t[1] = 0
               PROVE  t[2] < c + 1
    OBVIOUS
  <2>1. CASE t = s
    BY <1>1, <2>1
  <2>2. CASE t \in b
    <3>1. t[2] < c
      BY <2>2 DEF Bucket
    <3>2. t[2] \in Nat
      BY <1>1, <2>2
    <3> HIDE DEF c
    <3> QED
      BY <1>1, <3>1, <3>2
  <2> QED
    BY <1>3, <2>1, <2>2
<1>8. Bucket(Add(b))
  BY <1>1, <1>3, <1>4, <1>6, <1>7 DEF Bucket
<1>9. ASSUME NEW k \in Nat \ {0}
      PROVE  Cardinality(Younger(Add(b), k)) = Cardinality(Younger(b, k)) + 1
  <2>1. Younger(Add(b), k) = Younger(b, k) \cup {s} /\ s \notin Younger(b, k)
    BY <1>2, <1>3 DEF Younger
  <2> QED
    BY <2>1, BucketCount, FS_AddElement
<1> QED
  BY <1>2, <1>4, <1>8, <1>9

\* Sets that are in step, element by element, have as many elements.
LEMMA SameCount ==
  ASSUME NEW S, IsFiniteSet(S), NEW T, NEW f \in Bijection(S, T)
  PROVE  IsFiniteSet(T) /\ Cardinality(T) = Cardinality(S)
BY FS_Bijection DEF ExistsBijection

\* A tick forgets what is older than last, and nothing else.
LEMMA OlderCounts ==
  ASSUME NEW b, Bucket(b), NEW last \in Nat
  PROVE  /\ Bucket(Older(b, last)) /\ Cardinality(Older(b, last)) <= Cardinality(b)
         /\ \A s \in Older(b, last) : s[1] <= last
         /\ \A k \in 0 .. last :
              Cardinality(Younger(Older(b, last), k + 1)) = Cardinality(Younger(b, k))
<1> DEFINE kept == {s \in b : s[1] < last}
           o == Older(b, last)
<1>0. o = {<<s[1] + 1, s[2]>> : s \in kept}
  BY DEF Older
<1>1. b \in SUBSET (Nat \X Nat) /\ IsFiniteSet(b) /\ kept \in SUBSET b
  BY DEF Bucket
<1>2. IsFiniteSet(kept) /\ Cardinality(kept) <= Cardinality(b)
  BY <1>1, FS_Subset
<1> DEFINE f == [s \in kept |-> <<s[1] + 1, s[2]>>]
<1>3. f \in Bijection(kept, o)
  <2>1. f \in [kept -> o]
    BY <1>0
  <2>2. \A t \in o : \E s \in kept : f[s] = t
    BY <1>0
  <2>3. \A s, t \in kept : f[s] = f[t] => s = t
    <3> SUFFICES ASSUME NEW s \in kept, NEW t \in kept, f[s] = f[t]
                 PROVE  s = t
      OBVIOUS
    <3>1. s[1] \in Nat /\ t[1] \in Nat /\ s = <<s[1], s[2]>> /\ t = <<t[1], t[2]>>
      BY <1>1
    <3>2. s[1] + 1 = t[1] + 1 /\ s[2] = t[2]
      OBVIOUS
    <3> QED
      BY <3>1, <3>2
  <2> QED
    BY <2>1, <2>2, <2>3 DEF Bijection, Injection, Surjection, IsInjective
<1>4. IsFiniteSet(o) /\ Cardinality(o) = Cardinality(kept)
  BY <1>2, <1>3, SameCount
<1>5. o \in SUBSET (Nat \X Nat) /\ \A s \in o : s[1] # 0 /\ s[1] <= last
  BY <1>0, <1>1
<1>6. Bucket(o)
  BY <1>4, <1>5 DEF Bucket
<1>7. ASSUME NEW k \in 0 .. last
      PROVE  Cardinality(Younger(o, k + 1)) = Cardinality(Younger(b, k))
  <2> DEFINE S == Younger(b, k)
             T == Younger(o, k + 1)
             g == [s \in S |-> <<s[1] + 1, s[2]>>]
  <2>1. S \in SUBSET kept
    BY <1>1 DEF Younger
  <2>2. g \in [S -> T]
    BY <1>0, <1>1, <2>1 DEF Younger
  <2>3. \A t \in T : \E s \in S : g[s] = t
    BY <1>0, <1>1 DEF Younger
  <2>4. \A s, t \in S : g[s] = g[t] => s = t
    <3> SUFFICES ASSUME NEW s \in S, NEW t \in S, g[s] = g[t]
                 PROVE  s = t
      OBVIOUS
    <3>1. s[1] \in Nat /\ t[1] \in Nat /\ s = <<s[1], s[2]>> /\ t = <<t[1], t[2]>>
      BY <1>1, <2>1
    <3>2. s[1] + 1 = t[1] + 1 /\ s[2] = t[2]
      OBVIOUS
    <3> QED
      BY <3>1, <3>2
  <2>5. g \in Bijection(S, T)
    BY <2>2, <2>3, <2>4 DEF Bijection, Injection, Surjection, IsInjective
  <2> QED
    BY <2>5, BucketCount, SameCount
<1> QED
  BY <1>2, <1>4, <1>5, <1>6, <1>7

-----------------------------------------------------------------------------
(***************************************************************************)
(* Counting the requests in the memories of the replicas.                  *)
(***************************************************************************)

LEMMA LeastOf ==
  ASSUME NEW T \in SUBSET Nat, T # {}
  PROVE  \E n \in T : \A m \in T : n <= m
<1>1. PICK n \in T : \A m \in T : <<m, n>> \notin OpToRel(<, Nat)
  BY NatLessThanWellFounded, WFMin
<1>2. ASSUME NEW m \in T
      PROVE  n <= m
  <2>1. ~(m < n)
    BY <1>1 DEF OpToRel
  <2> QED
    BY <2>1
<1> QED
  BY <1>2

\* The part of one replica.
LEMMA OneMemory ==
  ASSUME NEW R, Memory(R), NEW r \in Replica, NEW k
  PROVE  /\ IsFiniteSet({r} \X Younger(R[r], k))
         /\ Cardinality({r} \X Younger(R[r], k)) \in Nat
         /\ Cardinality({r} \X Younger(R[r], k)) <= Teto
<1>1. /\ IsFiniteSet(Younger(R[r], k)) /\ Cardinality(Younger(R[r], k)) \in Nat
      /\ Cardinality(Younger(R[r], k)) <= Cardinality(R[r]) /\ Cardinality(R[r]) \in Nat
      /\ Cardinality(R[r]) <= Teto /\ Teto \in Nat
  BY BucketCount, LimiterAssumption DEF Memory
<1>2. IsFiniteSet({r}) /\ Cardinality({r}) = 1
  BY FS_Singleton
<1>3. /\ IsFiniteSet({r} \X Younger(R[r], k))
      /\ Cardinality({r} \X Younger(R[r], k)) = 1 * Cardinality(Younger(R[r], k))
  BY <1>1, <1>2, FS_Product
<1> QED
  BY <1>1, <1>3

LEMMA ProductType ==
  ASSUME NEW a \in Nat, NEW n \in Nat
  PROVE  a * n \in Nat
OBVIOUS

LEMMA OneTimesMore ==
  ASSUME NEW a \in Nat, NEW n \in Nat \ {0}
  PROVE  a * (n - 1) + a = a * n
OBVIOUS

\* Each has no more than the limit.
LEMMA MemoryCount ==
  ASSUME NEW R, Memory(R), NEW k
  PROVE  /\ IsFiniteSet(InMemory(R, k)) /\ Cardinality(InMemory(R, k)) \in Nat
         /\ Cardinality(InMemory(R, k)) <= Teto * Cardinality(Replica)
<1> DEFINE Of(X) == {x \in InMemory(R, k) : x[1] \in X}
           Good(X) == IsFiniteSet(Of(X)) /\ Cardinality(Of(X)) <= Teto * Cardinality(X)
           T == {n \in Nat : \E X \in SUBSET Replica : Cardinality(X) = n /\ ~Good(X)}
<1>1. Teto \in Nat /\ IsFiniteSet(Replica)
  BY LimiterAssumption
<1>2. T = {}
  <2> SUFFICES ASSUME T # {}
               PROVE  FALSE
    OBVIOUS
  <2>1. PICK n \in T : \A m \in T : n <= m
    BY LeastOf
  <2>2. PICK X \in SUBSET Replica : Cardinality(X) = n /\ ~Good(X)
    BY <2>1
  <2>3. IsFiniteSet(X) /\ n \in Nat
    BY <1>1, <2>1, FS_Subset
  <2>4. CASE X = {}
    <3>1. Of(X) = {}
      BY <2>4
    <3>2. IsFiniteSet(Of(X)) /\ Cardinality(Of(X)) = 0 /\ Cardinality(X) = 0
      BY <2>4, <3>1, FS_EmptySet
    <3>3. Cardinality(Of(X)) <= Teto * Cardinality(X)
      <4> HIDE DEF Of
      <4> QED
        BY <1>1, <3>2
    <3> QED
      BY <2>2, <3>2, <3>3
  <2>5. CASE X # {}
    <3>1. PICK r \in X : TRUE
      BY <2>5
    <3> DEFINE Y == X \ {r}
               M == {r} \X Younger(R[r], k)
    <3>2. Cardinality(Y) = n - 1 /\ n - 1 \in Nat
      <4>1. Cardinality(Y) = n - 1 /\ IsFiniteSet(Y)
        BY <2>2, <2>3, <3>1, FS_RemoveElement
      <4> QED
        BY <4>1, FS_CardinalityType
    <3>3. n - 1 \notin T
      <4> HIDE DEF T
      <4>1. ASSUME n - 1 \in T
            PROVE  FALSE
        BY <2>1, <2>3, <4>1
      <4> QED
        BY <4>1
    <3>4. Good(Y)
      <4>1. Y \in SUBSET Replica
        OBVIOUS
      <4> HIDE DEF Good, Y
      <4> QED
        BY <3>2, <3>3, <4>1
    <3>5. Of(X) = Of(Y) \cup M
      <4>1. R[r] \in SUBSET (Nat \X Nat)
        BY <2>2, <3>1 DEF Memory, Bucket
      <4> QED
        BY <2>2, <3>1, <4>1 DEF InMemory, Younger
    <3>6. IsFiniteSet(M) /\ Cardinality(M) \in Nat /\ Cardinality(M) <= Teto
      BY <2>2, <3>1, OneMemory
    <3>7. IsFiniteSet(Of(X)) /\ Cardinality(Of(X)) <= Cardinality(Of(Y)) + Teto
      <4>1. IsFiniteSet(Of(Y)) /\ Cardinality(Of(Y)) \in Nat
        BY <3>4, FS_CardinalityType
      <4> HIDE DEF Of, M
      <4>2. /\ IsFiniteSet(Of(X))
            /\ Cardinality(Of(X)) = Cardinality(Of(Y)) + Cardinality(M)
                                      - Cardinality(Of(Y) \cap M)
        BY <3>5, <3>6, <4>1, FS_Union, ZenonT(60)
      <4>3. Cardinality(Of(Y) \cap M) \in Nat
        BY <3>6, FS_Intersection, FS_CardinalityType
      <4> QED
        BY <1>1, <3>6, <4>1, <4>2, <4>3
    <3>8. Cardinality(Of(Y)) <= Teto * (n - 1) /\ Cardinality(Of(Y)) \in Nat
      BY <3>2, <3>4, FS_CardinalityType, Zenon
    <3>9. Teto * (n - 1) + Teto = Teto * n /\ Teto * n \in Nat /\ Teto * (n - 1) \in Nat
      <4>1. n \in Nat \ {0}
        BY <2>3, <3>2
      <4> QED
        BY <1>1, <3>2, <4>1, OneTimesMore, ProductType, Zenon
    <3>10. Cardinality(Of(X)) \in Nat
      BY <3>7, FS_CardinalityType
    <3>11. Cardinality(Of(X)) <= Teto * n
      <4> HIDE DEF Of, Y
      <4> QED
        BY <1>1, <3>7, <3>8, <3>9, <3>10
    <3> QED
      BY <2>2, <3>7, <3>11
  <2> QED
    BY <2>4, <2>5
<1>3. Cardinality(Replica) \in Nat
  BY <1>1, FS_CardinalityType
<1>4. Good(Replica)
  <2> HIDE DEF Good
  <2> QED
    BY <1>2, <1>3
<1>5. Of(Replica) = InMemory(R, k)
  BY DEF InMemory
<1> QED
  BY <1>4, <1>5, FS_CardinalityType

\* A replica lets a request through.
LEMMA MemoryAdd ==
  ASSUME NEW R, Memory(R), NEW r \in Replica, Cardinality(R[r]) < Teto,
         NEW Q, Q = [R EXCEPT ![r] = Add(R[r])]
  PROVE  /\ Memory(Q)
         /\ \A k \in Nat \ {0} : Cardinality(InMemory(Q, k)) = Cardinality(InMemory(R, k)) + 1
<1> DEFINE s == <<0, Cardinality(Newest(R[r]))>>
<1>1. /\ Bucket(R[r]) /\ Bucket(Add(R[r])) /\ s \notin R[r]
      /\ Cardinality(Add(R[r])) = Cardinality(R[r]) + 1 /\ Cardinality(R[r]) \in Nat
  BY AddCounts, BucketCount DEF Memory
<1>2. /\ DOMAIN R = Replica /\ DOMAIN Q = Replica /\ Q[r] = R[r] \cup {s}
      /\ \A x \in Replica \ {r} : Q[x] = R[x]
  BY DEF Memory, Add
<1>3. Q = [x \in Replica |-> Q[x]]
  BY DEF Memory
<1>4. Memory(Q)
  BY <1>1, <1>2, <1>3, LimiterAssumption DEF Memory, Add
<1>5. s \in Nat \X Nat
  BY <1>1, BucketCount
<1>6. ASSUME NEW k \in Nat \ {0}
      PROVE  Cardinality(InMemory(Q, k)) = Cardinality(InMemory(R, k)) + 1
  <2>1. <<r, s>> \notin InMemory(R, k)
    BY <1>1 DEF InMemory
  <2>2. InMemory(Q, k) = InMemory(R, k) \cup {<<r, s>>}
    <3>1. s[1] < k
      OBVIOUS
    <3> HIDE DEF s
    <3>2. ASSUME NEW x \in InMemory(Q, k)
          PROVE  x \in InMemory(R, k) \cup {<<r, s>>}
      <4>1. x \in Replica \X (Nat \X Nat) /\ x[2] \in Q[x[1]] /\ x[2][1] < k
        BY DEF InMemory
      <4>2. CASE x[1] = r /\ x[2] = s
        BY <4>1, <4>2
      <4>3. CASE ~(x[1] = r /\ x[2] = s)
        <5>1. x[2] \in R[x[1]]
          BY <1>2, <4>1, <4>3
        <5> QED
          BY <4>1, <5>1 DEF InMemory
      <4> QED
        BY <4>2, <4>3
    <3>3. <<r, s>> \in InMemory(Q, k)
      BY <1>2, <1>5, <3>1 DEF InMemory
    <3>4. InMemory(R, k) \subseteq InMemory(Q, k)
      <4> SUFFICES ASSUME NEW x \in InMemory(R, k)
                   PROVE  x \in InMemory(Q, k)
        OBVIOUS
      <4>1. x \in Replica \X (Nat \X Nat) /\ x[2] \in R[x[1]] /\ x[2][1] < k
        BY DEF InMemory
      <4>2. x[2] \in Q[x[1]]
        BY <1>2, <4>1
      <4> QED
        BY <4>1, <4>2 DEF InMemory
    <3> QED
      BY <3>2, <3>3, <3>4
  <2> HIDE DEF s
  <2> QED
    BY <2>1, <2>2, MemoryCount, FS_AddElement
<1> QED
  BY <1>4, <1>6

\* A replica restarts.
LEMMA MemoryLost ==
  ASSUME NEW R, Memory(R), NEW r \in Replica, NEW Q, Q = [R EXCEPT ![r] = {}]
  PROVE  /\ Memory(Q)
         /\ \A k : Cardinality(InMemory(R, k)) <= Cardinality(InMemory(Q, k)) + Teto
<1>1. /\ DOMAIN R = Replica /\ DOMAIN Q = Replica /\ Q[r] = {}
      /\ \A x \in Replica \ {r} : Q[x] = R[x]
  BY DEF Memory
<1>2. Bucket({}) /\ Cardinality({}) <= Teto
  BY FS_EmptySet, LimiterAssumption DEF Bucket
<1>3. Q = [x \in Replica |-> Q[x]]
  BY DEF Memory
<1>4. Memory(Q)
  BY <1>1, <1>2, <1>3 DEF Memory
<1>5. ASSUME NEW k
      PROVE  Cardinality(InMemory(R, k)) <= Cardinality(InMemory(Q, k)) + Teto
  <2> DEFINE M == {r} \X Younger(R[r], k)
             A == InMemory(Q, k)
             B == InMemory(R, k)
  <2>1. B \subseteq A \cup M
    <3> SUFFICES ASSUME NEW x \in B, x \notin A
                 PROVE  x \in M
      OBVIOUS
    <3>1. x \in Replica \X (Nat \X Nat) /\ x[2] \in R[x[1]] /\ x[2][1] < k
      BY DEF InMemory
    <3>2. x[1] = r
      BY <1>1, <3>1 DEF InMemory
    <3> QED
      BY <3>1, <3>2 DEF Younger
  <2>2. IsFiniteSet(M) /\ Cardinality(M) \in Nat /\ Cardinality(M) <= Teto
    BY OneMemory
  <2>3. IsFiniteSet(A) /\ Cardinality(A) \in Nat /\ IsFiniteSet(B) /\ Cardinality(B) \in Nat
    BY <1>4, MemoryCount
  <2> HIDE DEF A, B, M
  <2>4. /\ IsFiniteSet(A \cup M)
        /\ Cardinality(A \cup M) = Cardinality(A) + Cardinality(M) - Cardinality(A \cap M)
    BY <2>2, <2>3, FS_Union
  <2>5. Cardinality(A \cap M) \in Nat /\ Cardinality(B) <= Cardinality(A \cup M)
    BY <2>1, <2>3, <2>4, FS_Intersection, FS_Subset, FS_CardinalityType
  <2>6. Cardinality(B) <= Cardinality(A) + Teto
    BY <2>2, <2>3, <2>4, <2>5, LimiterAssumption
  <2> QED
    BY <2>6 DEF A, B
<1> QED
  BY <1>4, <1>5

\* A tick.
LEMMA MemoryOlder ==
  ASSUME NEW R, Memory(R), NEW last \in Nat, NEW Q, Q = [r \in Replica |-> Older(R[r], last)]
  PROVE  /\ Memory(Q)
         /\ \A k \in 0 .. last :
              Cardinality(InMemory(Q, k + 1)) = Cardinality(InMemory(R, k))
<1>1. ASSUME NEW r \in Replica
      PROVE  Bucket(Q[r]) /\ Cardinality(Q[r]) <= Teto
  <2>1. /\ Bucket(Q[r]) /\ Cardinality(Q[r]) <= Cardinality(R[r]) /\ Cardinality(R[r]) <= Teto
        /\ Cardinality(R[r]) \in Nat
    BY OlderCounts, BucketCount DEF Memory
  <2> QED
    BY <2>1, BucketCount, LimiterAssumption
<1>2. Memory(Q)
  BY <1>1 DEF Memory
<1>3. ASSUME NEW k \in 0 .. last
      PROVE  Cardinality(InMemory(Q, k + 1)) = Cardinality(InMemory(R, k))
  <2> DEFINE S == InMemory(R, k)
             T == InMemory(Q, k + 1)
             f == [x \in S |-> <<x[1], <<x[2][1] + 1, x[2][2]>>>>]
  <2>0. \A r \in Replica : R[r] \in SUBSET (Nat \X Nat)
    BY DEF Memory, Bucket
  <2>1. ASSUME NEW x \in S
        PROVE  f[x] \in T
    <3>1. x \in Replica \X (Nat \X Nat) /\ x[2] \in R[x[1]] /\ x[2][1] < k
      BY DEF InMemory
    <3>2. <<x[2][1] + 1, x[2][2]>> \in Q[x[1]]
      BY <3>1 DEF Older
    <3> QED
      BY <3>1, <3>2, SMTT(30) DEF InMemory
  <2>2. ASSUME NEW y \in T
        PROVE  \E x \in S : f[x] = y
    <3>1. y \in Replica \X (Nat \X Nat) /\ y[2] \in Q[y[1]] /\ y[2][1] < k + 1
      BY DEF InMemory
    <3>2. PICK s \in R[y[1]] : s[1] < last /\ y[2] = <<s[1] + 1, s[2]>>
      BY <3>1 DEF Older
    <3>3. s \in Nat \X Nat /\ s[1] < k
      BY <2>0, <3>1, <3>2
    <3>4. <<y[1], s>> \in S
      BY <3>1, <3>2, <3>3 DEF InMemory
    <3>5. f[<<y[1], s>>] = <<y[1], <<s[1] + 1, s[2]>>>>
      BY <3>4
    <3>6. f[<<y[1], s>>] = y
      BY <3>1, <3>2, <3>5
    <3> QED
      BY <3>4, <3>6
  <2>3. ASSUME NEW x \in S, NEW y \in S, f[x] = f[y]
        PROVE  x = y
    <3>1. /\ x = <<x[1], <<x[2][1], x[2][2]>>>> /\ x[2][1] \in Nat
          /\ y = <<y[1], <<y[2][1], y[2][2]>>>> /\ y[2][1] \in Nat
      BY DEF InMemory
    <3>2. x[1] = y[1] /\ x[2][1] + 1 = y[2][1] + 1 /\ x[2][2] = y[2][2]
      BY <2>3
    <3>3. x[2][1] = y[2][1]
      BY <3>1, <3>2
    <3> QED
      BY <3>1, <3>2, <3>3
  <2>4. f \in [S -> T]
    BY <2>1
  <2>5. f \in Bijection(S, T)
    <3> HIDE DEF S, T, f
    <3> QED
      BY <2>2, <2>3, <2>4 DEF Bijection, Injection, Surjection, IsInjective
  <2> QED
    BY <2>5, MemoryCount, SameCount
<1> QED
  BY <1>2, <1>3

-----------------------------------------------------------------------------
(***************************************************************************)
(* The steps.                                                              *)
(***************************************************************************)

LEMMA Counts ==
  ASSUME LimiterTypeOK, NEW k
  PROVE  /\ Cardinality(Younger(passed, k)) \in Nat
         /\ Cardinality(Younger(shared, k)) \in Nat
         /\ Cardinality(Younger(shared, k)) <= Teto
         /\ Cardinality(InMemory(reserva, k)) \in Nat
         /\ Cardinality(Younger(restarts, k)) \in Nat
         /\ Teto * Cardinality(Younger(restarts, k)) \in Nat
         /\ Teto \in Nat
<1>1. /\ Cardinality(shared) \in Nat /\ Cardinality(Younger(shared, k)) \in Nat
      /\ Cardinality(Younger(shared, k)) <= Cardinality(shared) /\ Cardinality(shared) <= Teto
  BY BucketCount DEF LimiterTypeOK
<1>2. /\ Cardinality(Younger(passed, k)) \in Nat /\ Cardinality(Younger(restarts, k)) \in Nat
      /\ Cardinality(InMemory(reserva, k)) \in Nat /\ Teto \in Nat
  BY BucketCount, MemoryCount, LimiterAssumption DEF LimiterTypeOK
<1> QED
  BY <1>1, <1>2, ProductType

\* Nothing is younger than the present.
LEMMA FromOne ==
  ASSUME LimiterTypeOK',
         \A k \in 1 .. Janela :
           Cardinality(Younger(passed', k))
             <= Cardinality(Younger(shared', k)) + Cardinality(InMemory(reserva', k))
                  + Teto * Cardinality(Younger(restarts', k))
  PROVE  Covered'
<1>1. /\ Cardinality(Younger(passed', 0)) = 0
      /\ Cardinality(Younger(shared', 0)) = 0
      /\ Cardinality(Younger(restarts', 0)) = 0
  BY NoneYounger, FS_EmptySet DEF LimiterTypeOK
<1>2. Cardinality(InMemory(reserva', 0)) \in Nat
  BY MemoryCount DEF LimiterTypeOK
<1>3. Cardinality(Younger(passed', 0))
        <= Cardinality(Younger(shared', 0)) + Cardinality(InMemory(reserva', 0))
             + Teto * Cardinality(Younger(restarts', 0))
  BY <1>1, <1>2, LimiterAssumption
<1>4. \A k \in 0 .. Janela : k = 0 \/ k \in 1 .. Janela
  BY LimiterAssumption
<1> QED
  BY <1>3, <1>4 DEF Covered

\* Whatever becomes of a request to Redis, its bucket loses nothing.
LEMMA SharedAsked ==
  ASSUME LimiterTypeOK, shared' = shared \/ shared' = Consumed(shared)
  PROVE  /\ Bucket(shared') /\ Cardinality(shared') <= Teto
         /\ \A k \in 1 .. Janela : /\ Cardinality(Younger(shared', k)) \in Nat
                                   /\ Cardinality(Younger(shared, k)) \in Nat
                                   /\ Cardinality(Younger(shared, k))
                                        <= Cardinality(Younger(shared', k))
<1>1. Bucket(shared) /\ Cardinality(shared) <= Teto /\ Cardinality(shared) \in Nat
  BY BucketCount DEF LimiterTypeOK
<1>2. CASE shared' = shared
  BY <1>1, <1>2, BucketCount
<1>3. CASE shared' = Add(shared) /\ Cardinality(shared) < Teto
  <2>1. Bucket(shared') /\ Cardinality(shared') = Cardinality(shared) + 1
    BY <1>1, <1>3, AddCounts
  <2>2. \A k \in 1 .. Janela : /\ Cardinality(Younger(shared, k)) \in Nat
                               /\ Cardinality(Younger(shared', k))
                                    = Cardinality(Younger(shared, k)) + 1
    <3>1. \A k \in 1 .. Janela : k \in Nat \ {0}
      BY LimiterAssumption
    <3> QED
      BY <1>1, <1>3, <3>1, AddCounts, BucketCount
  <2>3. Cardinality(shared') <= Teto
    BY <1>1, <1>3, <2>1, LimiterAssumption
  <2> QED
    BY <2>1, <2>2, <2>3
<1> QED
  BY <1>2, <1>3 DEF Consumed, Room

\* A request more has passed.
LEMMA PassedMore ==
  ASSUME LimiterTypeOK, passed' = Add(passed)
  PROVE  /\ Bucket(passed') /\ \A s \in passed' : s[1] < Janela
         /\ \A k \in 1 .. Janela :
              Cardinality(Younger(passed', k)) = Cardinality(Younger(passed, k)) + 1
<1>1. Bucket(passed) /\ \A s \in passed : s[1] < Janela
  BY DEF LimiterTypeOK
<1>2. \A k \in 1 .. Janela : k \in Nat \ {0}
  BY LimiterAssumption
<1>3. \A s \in passed' : s \in passed \/ s[1] = 0
  BY DEF Add
<1>4. \A s \in passed' : s[1] < Janela
  BY <1>1, <1>3, LimiterAssumption
<1> QED
  BY <1>1, <1>2, <1>4, AddCounts

\* A bucket more is lost.
LEMMA LostMore ==
  ASSUME LimiterTypeOK, restarts' = Add(restarts)
  PROVE  /\ Bucket(restarts')
         /\ \A k \in 1 .. Janela :
              Teto * Cardinality(Younger(restarts', k))
                = Teto * Cardinality(Younger(restarts, k)) + Teto
<1>1. Bucket(restarts)
  BY DEF LimiterTypeOK
<1>2. \A k \in 1 .. Janela : k \in Nat \ {0}
  BY LimiterAssumption
<1>3. Bucket(restarts')
  BY <1>1, AddCounts
<1>4. ASSUME NEW k \in 1 .. Janela
      PROVE  Teto * Cardinality(Younger(restarts', k))
               = Teto * Cardinality(Younger(restarts, k)) + Teto
  <2> DEFINE m == Cardinality(Younger(restarts, k))
             n == Cardinality(Younger(restarts', k))
  <2>1. m \in Nat /\ n = m + 1
    BY <1>1, <1>2, AddCounts, BucketCount
  <2> HIDE DEF m, n
  <2>2. n \in Nat \ {0} /\ n - 1 = m
    BY <2>1
  <2>3. Teto * (n - 1) + Teto = Teto * n
    BY <2>2, LimiterAssumption, OneTimesMore
  <2>4. Teto * n = Teto * m + Teto
    BY <2>2, <2>3
  <2> QED
    BY <2>4 DEF m, n
<1> QED
  BY <1>3, <1>4

LEMMA ConsumirRedisKeeps ==
  ASSUME LimiterInv, NEW r \in Replica, ConsumirRedis(r)
  PROVE  LimiterInv'
<1>1. /\ LimiterTypeOK /\ reserva' = reserva /\ passed' = Add(passed) /\ restarts' = restarts
      /\ shared' = Add(shared) /\ shared' = Consumed(shared)
  BY DEF LimiterInv, ConsumirRedis, AfterAnswer, Consumed
<1>2. LimiterTypeOK'
  BY <1>1, SharedAsked, PassedMore DEF LimiterTypeOK
<1>3. ASSUME NEW k \in 1 .. Janela
      PROVE  Cardinality(Younger(passed', k))
               <= Cardinality(Younger(shared', k)) + Cardinality(InMemory(reserva', k))
                    + Teto * Cardinality(Younger(restarts', k))
  <2>1. k \in Nat \ {0} /\ k \in 0 .. Janela
    BY LimiterAssumption
  <2>2. Cardinality(Younger(passed', k)) = Cardinality(Younger(passed, k)) + 1
    BY <1>1, PassedMore
  <2>3. Cardinality(Younger(shared', k)) = Cardinality(Younger(shared, k)) + 1
    BY <1>1, <2>1, AddCounts, ZenonT(60) DEF LimiterTypeOK
  <2>4. Cardinality(Younger(passed, k))
          <= Cardinality(Younger(shared, k)) + Cardinality(InMemory(reserva, k))
               + Teto * Cardinality(Younger(restarts, k))
    BY <2>1 DEF LimiterInv, Covered
  <2> QED
    BY <1>1, <2>2, <2>3, <2>4, Counts
<1> QED
  BY <1>2, <1>3, FromOne DEF LimiterInv

LEMMA ConsumirReservaKeeps ==
  ASSUME LimiterInv, NEW r \in Replica, ConsumirReserva(r)
  PROVE  LimiterInv'
<1>1. /\ LimiterTypeOK /\ passed' = Add(passed) /\ restarts' = restarts
      /\ reserva' = [reserva EXCEPT ![r] = Add(reserva[r])]
      /\ Memory(reserva) /\ Cardinality(reserva[r]) < Teto
      /\ shared' = shared \/ shared' = Consumed(shared)
  BY DEF LimiterInv, LimiterTypeOK, ConsumirReserva, NoAnswer, Room
<1>2. /\ Memory(reserva')
      /\ \A k \in Nat \ {0} :
           Cardinality(InMemory(reserva', k)) = Cardinality(InMemory(reserva, k)) + 1
  BY <1>1, MemoryAdd
<1>3. LimiterTypeOK'
  BY <1>1, <1>2, SharedAsked, PassedMore DEF LimiterTypeOK
<1>4. ASSUME NEW k \in 1 .. Janela
      PROVE  Cardinality(Younger(passed', k))
               <= Cardinality(Younger(shared', k)) + Cardinality(InMemory(reserva', k))
                    + Teto * Cardinality(Younger(restarts', k))
  <2>1. k \in Nat \ {0} /\ k \in 0 .. Janela
    BY LimiterAssumption
  <2>2. Cardinality(Younger(passed', k)) = Cardinality(Younger(passed, k)) + 1
    BY <1>1, PassedMore
  <2>3. /\ Cardinality(Younger(shared', k)) \in Nat
        /\ Cardinality(Younger(shared, k)) <= Cardinality(Younger(shared', k))
    BY <1>1, SharedAsked
  <2>4. Cardinality(Younger(passed, k))
          <= Cardinality(Younger(shared, k)) + Cardinality(InMemory(reserva, k))
               + Teto * Cardinality(Younger(restarts, k))
    BY <2>1 DEF LimiterInv, Covered
  <2>5. Cardinality(InMemory(reserva', k)) = Cardinality(InMemory(reserva, k)) + 1
    BY <1>2, <2>1
  <2> QED
    BY <1>1, <2>2, <2>3, <2>4, <2>5, Counts
<1> QED
  BY <1>3, <1>4, FromOne DEF LimiterInv

\* A request that is refused, whatever Redis has done with it.
LEMMA RecusarKeeps ==
  ASSUME LimiterInv, shared' = shared \/ shared' = Consumed(shared),
         UNCHANGED <<reserva, passed, restarts>>
  PROVE  LimiterInv'
<1>1. LimiterTypeOK
  BY DEF LimiterInv
<1>2. LimiterTypeOK'
  BY <1>1, SharedAsked DEF LimiterTypeOK
<1>3. ASSUME NEW k \in 1 .. Janela
      PROVE  Cardinality(Younger(passed', k))
               <= Cardinality(Younger(shared', k)) + Cardinality(InMemory(reserva', k))
                    + Teto * Cardinality(Younger(restarts', k))
  <2>1. k \in 0 .. Janela
    BY LimiterAssumption
  <2>2. /\ Cardinality(Younger(shared', k)) \in Nat
        /\ Cardinality(Younger(shared, k)) <= Cardinality(Younger(shared', k))
    BY <1>1, SharedAsked
  <2>3. Cardinality(Younger(passed, k))
          <= Cardinality(Younger(shared, k)) + Cardinality(InMemory(reserva, k))
               + Teto * Cardinality(Younger(restarts, k))
    BY <2>1 DEF LimiterInv, Covered
  <2> QED
    BY <1>1, <2>2, <2>3, Counts
<1> QED
  BY <1>2, <1>3, FromOne DEF LimiterInv

LEMMA RedisRestartsKeeps ==
  ASSUME LimiterInv, RedisRestarts
  PROVE  LimiterInv'
<1>1. /\ LimiterTypeOK /\ restarts' = Add(restarts) /\ shared' = {}
      /\ UNCHANGED <<reserva, passed>>
  BY DEF LimiterInv, RedisRestarts, Lost
<1>2. Bucket({}) /\ Cardinality({}) <= Teto
  BY FS_EmptySet, LimiterAssumption DEF Bucket
<1>3. LimiterTypeOK'
  BY <1>1, <1>2, LostMore DEF LimiterTypeOK
<1>4. ASSUME NEW k \in 1 .. Janela
      PROVE  Cardinality(Younger(passed', k))
               <= Cardinality(Younger(shared', k)) + Cardinality(InMemory(reserva', k))
                    + Teto * Cardinality(Younger(restarts', k))
  <2>1. k \in 0 .. Janela
    BY LimiterAssumption
  <2>2. Cardinality(Younger(shared', k)) = 0
    BY <1>1, FS_EmptySet DEF Younger
  <2>3. Teto * Cardinality(Younger(restarts', k))
          = Teto * Cardinality(Younger(restarts, k)) + Teto
    BY <1>1, LostMore
  <2>4. Cardinality(Younger(passed, k))
          <= Cardinality(Younger(shared, k)) + Cardinality(InMemory(reserva, k))
               + Teto * Cardinality(Younger(restarts, k))
    BY <2>1 DEF LimiterInv, Covered
  <2> QED
    BY <1>1, <2>2, <2>3, <2>4, Counts
<1> QED
  BY <1>3, <1>4, FromOne DEF LimiterInv

LEMMA ReplicaRestartsKeeps ==
  ASSUME LimiterInv, NEW r \in Replica, ReplicaRestarts(r)
  PROVE  LimiterInv'
<1>1. /\ LimiterTypeOK /\ restarts' = Add(restarts) /\ reserva' = [reserva EXCEPT ![r] = {}]
      /\ UNCHANGED <<shared, passed>> /\ Memory(reserva)
  BY DEF LimiterInv, LimiterTypeOK, ReplicaRestarts, Lost
<1>2. /\ Memory(reserva')
      /\ \A k : Cardinality(InMemory(reserva, k)) <= Cardinality(InMemory(reserva', k)) + Teto
  BY <1>1, MemoryLost
<1>3. LimiterTypeOK'
  BY <1>1, <1>2, LostMore DEF LimiterTypeOK
<1>4. ASSUME NEW k \in 1 .. Janela
      PROVE  Cardinality(Younger(passed', k))
               <= Cardinality(Younger(shared', k)) + Cardinality(InMemory(reserva', k))
                    + Teto * Cardinality(Younger(restarts', k))
  <2>1. k \in 0 .. Janela
    BY LimiterAssumption
  <2>2. /\ Cardinality(InMemory(reserva', k)) \in Nat
        /\ Cardinality(InMemory(reserva, k)) <= Cardinality(InMemory(reserva', k)) + Teto
    BY <1>2, MemoryCount
  <2>3. Teto * Cardinality(Younger(restarts', k))
          = Teto * Cardinality(Younger(restarts, k)) + Teto
    BY <1>1, LostMore
  <2>4. Cardinality(Younger(passed, k))
          <= Cardinality(Younger(shared, k)) + Cardinality(InMemory(reserva, k))
               + Teto * Cardinality(Younger(restarts, k))
    BY <2>1 DEF LimiterInv, Covered
  <2> QED
    BY <1>1, <2>2, <2>3, <2>4, Counts
<1> QED
  BY <1>3, <1>4, FromOne DEF LimiterInv

LEMMA TickKeeps ==
  ASSUME LimiterInv, Tick
  PROVE  LimiterInv'
<1>1. /\ LimiterTypeOK /\ Janela \in Nat \ {0} /\ Janela - 1 \in Nat
      /\ Bucket(shared) /\ Bucket(passed) /\ Bucket(restarts) /\ Memory(reserva)
      /\ Cardinality(shared) <= Teto /\ Teto \in Nat
  BY LimiterAssumption DEF LimiterInv, LimiterTypeOK
<1>2. /\ shared' = Older(shared, Janela - 1) /\ passed' = Older(passed, Janela - 1)
      /\ restarts' = Older(restarts, Janela - 1)
      /\ reserva' = [r \in Replica |-> Older(reserva[r], Janela)]
  BY DEF Tick
<1>3. /\ Bucket(shared') /\ Bucket(passed') /\ Bucket(restarts') /\ Memory(reserva')
      /\ Cardinality(shared') <= Cardinality(shared)
      /\ \A s \in passed' : s[1] <= Janela - 1
  BY <1>1, <1>2, OlderCounts, MemoryOlder
<1>4. LimiterTypeOK'
  <2>1. Cardinality(shared') <= Teto
    BY <1>1, <1>3, BucketCount
  <2>2. \A s \in passed' : s[1] < Janela
    <3>1. passed' \in SUBSET (Nat \X Nat)
      BY <1>3 DEF Bucket
    <3> QED
      BY <1>1, <1>3, <3>1
  <2> QED
    BY <1>3, <2>1, <2>2 DEF LimiterTypeOK
<1>5. ASSUME NEW k \in 1 .. Janela
      PROVE  Cardinality(Younger(passed', k))
               <= Cardinality(Younger(shared', k)) + Cardinality(InMemory(reserva', k))
                    + Teto * Cardinality(Younger(restarts', k))
  <2>1. PICK i \in 0 .. Janela - 1 : k = i + 1 /\ i \in 0 .. Janela
    <3>1. k - 1 \in 0 .. Janela - 1 /\ k = (k - 1) + 1 /\ k - 1 \in 0 .. Janela
      BY <1>1
    <3> QED
      BY <3>1
  <2>2. /\ Cardinality(Younger(passed', k)) = Cardinality(Younger(passed, i))
        /\ Cardinality(Younger(shared', k)) = Cardinality(Younger(shared, i))
        /\ Cardinality(Younger(restarts', k)) = Cardinality(Younger(restarts, i))
    BY <1>1, <1>2, <2>1, OlderCounts
  <2>3. Cardinality(InMemory(reserva', k)) = Cardinality(InMemory(reserva, i))
    BY <1>1, <1>2, <2>1, MemoryOlder
  <2>4. Cardinality(Younger(passed, i))
          <= Cardinality(Younger(shared, i)) + Cardinality(InMemory(reserva, i))
               + Teto * Cardinality(Younger(restarts, i))
    BY <2>1 DEF LimiterInv, Covered
  <2> QED
    BY <2>2, <2>3, <2>4
<1> QED
  BY <1>4, <1>5, FromOne DEF LimiterInv

LEMMA LimiterNextKeeps ==
  ASSUME LimiterInv, LimiterNext
  PROVE  LimiterInv'
<1>1. ASSUME NEW r \in Replica,
             ConsumirRedis(r) \/ ConsumirReserva(r) \/ Recusar(r) \/ ReplicaRestarts(r)
      PROVE  LimiterInv'
  <2>1. CASE Recusar(r)
    BY <2>1, RecusarKeeps DEF Recusar, NoAnswer
  <2> QED
    BY <1>1, <2>1, ConsumirRedisKeeps, ConsumirReservaKeeps, ReplicaRestartsKeeps
<1>2. CASE RedisFails \/ RedisReturns
  BY <1>2, RecusarKeeps DEF RedisFails, RedisReturns
<1> QED
  BY <1>1, <1>2, RedisRestartsKeeps, TickKeeps DEF LimiterNext

LEMMA LimiterInitHolds ==
  ASSUME LimiterInit
  PROVE  LimiterInv
<1>1. Bucket({}) /\ Cardinality({}) = 0 /\ Teto \in Nat
  BY FS_EmptySet, LimiterAssumption DEF Bucket
<1>2. Memory(reserva)
  BY <1>1 DEF LimiterInit, Memory
<1>3. LimiterTypeOK
  BY <1>1, <1>2 DEF LimiterInit, LimiterTypeOK
<1>4. ASSUME NEW k \in 0 .. Janela
      PROVE  Cardinality(Younger(passed, k))
               <= Cardinality(Younger(shared, k)) + Cardinality(InMemory(reserva, k))
                    + Teto * Cardinality(Younger(restarts, k))
  <2>1. Cardinality(Younger(passed, k)) = 0
    BY <1>1 DEF LimiterInit, Younger
  <2> QED
    BY <1>3, <2>1, Counts
<1> QED
  BY <1>3, <1>4 DEF LimiterInv, Covered

(* In any window of any length a client gets through at most the limit, once *)
(* for the bucket in Redis, once for each replica, and once for each bucket  *)
(* lost in that window: for any number of replicas, any limit, any outages   *)
(* of Redis, and any answers that come too late.                             *)
THEOREM WindowsAreBounded == OfficeSpec => []WindowIsBounded
<1>1. OfficeInit => LimiterInv
  BY LimiterInitHolds DEF OfficeInit
<1>2. LimiterInv /\ [OfficeNext]_officeVars => LimiterInv'
  <2> SUFFICES ASSUME LimiterInv, [OfficeNext]_officeVars
               PROVE  LimiterInv'
    OBVIOUS
  <2>1. CASE UNCHANGED limiterVars
    BY <2>1, RecusarKeeps DEF limiterVars
  <2>2. CASE LimiterNext
    BY <2>2, LimiterNextKeeps
  <2> QED
    BY <2>1, <2>2 DEF OfficeNext, NotSignIn, NotRavi, officeVars
<1>3. LimiterInv => WindowIsBounded
  <2> SUFFICES ASSUME LimiterInv
               PROVE  WindowIsBounded
    OBVIOUS
  <2>1. Janela \in 0 .. Janela /\ Teto \in Nat /\ LimiterTypeOK
    BY LimiterAssumption DEF LimiterInv
  <2>2. Younger(passed, Janela) = passed
    BY <2>1 DEF LimiterTypeOK, Younger
  <2>3. Cardinality(passed)
          <= Cardinality(Younger(shared, Janela)) + Cardinality(InMemory(reserva, Janela))
               + Teto * Cardinality(Younger(restarts, Janela))
    BY <2>1, <2>2 DEF LimiterInv, Covered
  <2> DEFINE n == Cardinality(Replica)
             l == Cardinality(restarts)
             y == Cardinality(Younger(restarts, Janela))
  <2>4. Cardinality(InMemory(reserva, Janela)) <= Teto * n
    BY <2>1, MemoryCount DEF LimiterTypeOK
  <2>5. n \in Nat /\ l \in Nat /\ y \in Nat /\ y <= l
    BY <2>1, BucketCount, FS_CardinalityType, LimiterAssumption DEF LimiterTypeOK
  <2>6. Teto * y <= Teto * l /\ Teto * (1 + n + l) = Teto + Teto * n + Teto * l
        /\ Teto * y \in Nat /\ Teto * n \in Nat /\ Teto * l \in Nat
    <3> HIDE DEF n, l, y
    <3> QED
      BY <2>1, <2>5, ProductType
  <2>7. Cardinality(passed) \in Nat
    BY <2>1, BucketCount DEF LimiterTypeOK
  <2> HIDE DEF n, l, y
  <2>8. Cardinality(passed) <= Teto * (1 + n + l)
    BY <2>1, <2>3, <2>4, <2>6, <2>7, Counts DEF y
  <2> QED
    BY <2>8 DEF WindowIsBounded, n, l
<1> QED
  BY <1>1, <1>2, <1>3, PTL DEF OfficeSpec

=============================================================================
