--------------------------- MODULE RecordsProofs ----------------------------
(***************************************************************************)
(* What must be kept of a tenant, for any number of requests and of rounds *)
(* of retention: the opt-outs of its contacts, and the usage its invoices  *)
(* have billed.                                                            *)
(***************************************************************************)
EXTENDS Office, TLAPS

-----------------------------------------------------------------------------
(***************************************************************************)
(* OptOutSurvives holds in every office, for any spelling of addresses and *)
(* any number of requests, contacts and rounds of retention.               *)
(*                                                                         *)
(* It is inductive.  A new row takes the place of one that is gone, so it  *)
(* hides no other; retention removes rows without opted_out only; and what *)
(* a person changes on a row with opted_out is taken back with it.         *)
(***************************************************************************)

\* The facts about types that the argument needs.
ContactsTypeOK == contact \in [Row -> ContactRec]

HandTypeOK == hand \in [Hand -> Task]

OptOutInv == ContactsTypeOK /\ HandTypeOK /\ OptOutSurvives

LEMMA RowType ==
  ASSUME ContactsTypeOK, NEW c \in Row
  PROVE  contact[c] = [there |-> contact[c].there, email |-> contact[c].email,
                       out |-> contact[c].out] /\ contact[c].email \in Address
BY DEF ContactsTypeOK, ContactRec

-----------------------------------------------------------------------------
(***************************************************************************)
(* The requests.                                                           *)
(***************************************************************************)

\* A row is added in a place that was free.
LEMMA AddsKeeps ==
  ASSUME OptOutInv, NEW c \in Row, Gone(c), NEW e \in Address, NEW l, Adds(c, e, l),
         UNCHANGED asked, HandTypeOK'
  PROVE  OptOutInv'
<1>1. contact' \in [Row -> ContactRec]
  BY DEF OptOutInv, ContactsTypeOK, ContactRec, Adds
<1>2. ASSUME NEW x \in asked
      PROVE  \E d \in Row : contact'[d].there /\ contact'[d].email = x /\ contact'[d].out
  <2>1. PICK d \in Row : contact[d].there /\ contact[d].email = x /\ contact[d].out
    BY <1>2 DEF OptOutInv, OptOutSurvives, Named
  <2>2. d # c
    BY <2>1 DEF Gone
  <2>3. contact'[d] = contact[d]
    BY <2>2 DEF Adds, OptOutInv, ContactsTypeOK
  <2> QED
    BY <2>1, <2>3
<1> QED
  BY <1>1, <1>2 DEF OptOutInv, ContactsTypeOK, OptOutSurvives, Named

\* The part is alone in writing its variables.
LEMMA NothingHasType ==
  NoContact \in ContactRec /\ NoTask \in Task
<1>1. NoContact.email \in Address
  BY ContactsAssumption DEF NoContact
<1> QED
  BY <1>1, ContactsAssumption DEF NoContact, NoTask, ContactRec, Task

LEMMA EndsHasType ==
  ASSUME HandTypeOK, NEW h \in Hand, Ends(h)
  PROVE  HandTypeOK'
BY NothingHasType DEF HandTypeOK, Ends

LEMMA ContactInitKeeps ==
  ContactsInit => OptOutInv
BY NothingHasType DEF ContactsInit, OptOutInv, ContactsTypeOK, HandTypeOK, OptOutSurvives

\* Two ways in, one lemma.
LEMMA NewRowKeeps ==
  ASSUME OptOutInv, NEW h \in Hand, ImportNew(h) \/ CreateCommit(h)
  PROVE  OptOutInv'
<1>1. PICK c \in Row, l \in {"cold", "none"} : NextRow(c) /\ Adds(c, hand[h].email, l)
  BY DEF ImportNew, CreateCommit
<1>2. Gone(c) /\ UNCHANGED asked
  BY <1>1 DEF NextRow, FreeRows, ImportNew, CreateCommit
<1>3. hand[h].email \in Address /\ HandTypeOK'
  BY EndsHasType DEF OptOutInv, HandTypeOK, Task, ImportNew, CreateCommit
<1> QED
  BY <1>1, <1>2, <1>3, AddsKeeps DEF OptOutInv

\* A row keeps what makes it answer for an address, unless it is c, whose
\* address is taken back.
LEMMA OptOutKeeps ==
  ASSUME OptOutInv, NEW c \in Row, OptOut(c)
  PROVE  OptOutInv'
<1>1. contact' = [contact EXCEPT ![c].out = TRUE] /\ ContactsTypeOK' /\ HandTypeOK'
  BY DEF OptOut, OptOutInv, ContactsTypeOK, ContactRec, HandTypeOK
<1>2. ASSUME NEW x \in asked'
      PROVE  \E d \in Row : contact'[d].there /\ contact'[d].email = x /\ contact'[d].out
  <2>1. PICK d \in Row : contact[d].there /\ contact[d].email = x
                         /\ (contact[d].out \/ d = c)
    BY <1>2 DEF OptOut, OptOutInv, OptOutSurvives, Named, Gone
  <2> QED
    BY <1>1, <2>1 DEF OptOutInv, ContactsTypeOK, ContactRec
<1> QED
  BY <1>1, <1>2 DEF OptOutInv, OptOutSurvives, Named

LEMMA UpdateKeeps ==
  ASSUME OptOutInv, NEW c \in Row, NEW e \in Address, NEW out \in BOOLEAN,
         UpdateContact(c, e, out)
  PROVE  OptOutInv'
<1>1. contact' = [contact EXCEPT ![c].email = e, ![c].out = out] /\ ContactsTypeOK'
      /\ HandTypeOK'
  BY DEF UpdateContact, OptOutInv, ContactsTypeOK, ContactRec, HandTypeOK
<1>2. contact'[c].there /\ contact'[c].email = e /\ contact'[c].out = out
  BY <1>1, RowType DEF UpdateContact, OptOutInv, ContactsTypeOK, ContactRec, Gone
<1>3. ASSUME NEW x \in TakenBack(c)
      PROVE  \E d \in Row : contact'[d].there /\ contact'[d].email = x /\ contact'[d].out
  <2>1. x \in asked /\ (contact[c].out => x # contact[c].email)
    BY <1>3 DEF TakenBack
  <2>2. PICK d \in Row : contact[d].there /\ contact[d].email = x /\ contact[d].out
    BY <2>1 DEF OptOutInv, OptOutSurvives, Named
  <2>3. d # c
    BY <2>1, <2>2
  <2> QED
    BY <1>1, <2>2, <2>3 DEF OptOutInv, ContactsTypeOK
<1>4. asked' = TakenBack(c) \cup (IF out THEN {e} ELSE {})
  BY DEF UpdateContact
<1> QED
  BY <1>1, <1>2, <1>3, <1>4 DEF OptOutInv, OptOutSurvives, Named

\* The row may not be there any more: a request finds 0, which is no row.
LEMMA DeleteKeeps ==
  ASSUME OptOutInv, NEW h \in Hand, DeleteCommit(h)
  PROVE  OptOutInv'
<1> DEFINE c == hand[h].row
<1>1. contact' = [contact EXCEPT ![c] = NoContact] /\ asked' = TakenBack(c)
      /\ ContactsTypeOK' /\ HandTypeOK'
  BY NothingHasType, EndsHasType DEF DeleteCommit, OptOutInv, ContactsTypeOK
<1>2. ASSUME NEW x \in TakenBack(c)
      PROVE  \E d \in Row : contact'[d].there /\ contact'[d].email = x /\ contact'[d].out
  <2>1. x \in asked /\ (contact[c].out => x # contact[c].email)
    BY <1>2 DEF TakenBack
  <2>2. PICK d \in Row : contact[d].there /\ contact[d].email = x /\ contact[d].out
    BY <2>1 DEF OptOutInv, OptOutSurvives, Named
  <2>3. d # c
    BY <2>1, <2>2
  <2> QED
    BY <1>1, <2>2, <2>3 DEF OptOutInv, ContactsTypeOK
<1> QED
  BY <1>1, <1>2 DEF OptOutInv, OptOutSurvives, Named

\* Retention spares whoever has asked out.
LEMMA RetentionKeepsOptOut ==
  ASSUME OptOutInv, NEW old \in SUBSET Row, RetentionCommit(old)
  PROVE  OptOutInv'
<1>1. ContactsTypeOK' /\ HandTypeOK' /\ UNCHANGED asked
  BY NothingHasType DEF RetentionCommit, OptOutInv, ContactsTypeOK, HandTypeOK
<1>2. ASSUME NEW d \in Row, contact[d].out
      PROVE  contact'[d] = contact[d]
  BY <1>2 DEF RetentionCommit, Orphan
<1> QED
  BY <1>1, <1>2 DEF OptOutInv, OptOutSurvives, Named

\* What neither adds nor removes nor changes a row.
LEMMA OthersKeep ==
  ASSUME OptOutInv, UNCHANGED <<contact, asked>>, HandTypeOK'
  PROVE  OptOutInv'
BY DEF OptOutInv, ContactsTypeOK, OptOutSurvives, Named

LEMMA ContactsNextKeeps ==
  ASSUME OptOutInv, ContactsNext
  PROVE  OptOutInv'
<1>1. CASE \E h \in Hand, e \in Address : ImportRead(h, e) \/ CreateRead(h, e)
  <2>1. PICK h \in Hand, e \in Address : ImportRead(h, e) \/ CreateRead(h, e)
    BY <1>1
  <2>2. \E t \in Task : Starts(h, t)
    <3>1. CASE ImportRead(h, e)
      <4>1. PICK c \in {0} \cup Named(e) :
              Starts(h, [op |-> "import", email |-> e, row |-> c,
                         had |-> c # 0 /\ lead[c] # "none"])
        BY <3>1 DEF ImportRead
      <4>2. c \in 0 .. MaxContacts
        BY ContactsAssumption DEF Named, Row
      <4>3. ASSUME NEW b \in BOOLEAN
            PROVE  [op |-> "import", email |-> e, row |-> c, had |-> b] \in Task
        BY <4>2 DEF Task
      <4>4. (c # 0 /\ lead[c] # "none") \in BOOLEAN
        OBVIOUS
      <4> QED
        BY <4>1, <4>3, <4>4, Zenon
    <3>2. CASE CreateRead(h, e)
      <4>1. [op |-> "create", email |-> e, row |-> 0, had |-> FALSE] \in Task
        BY ContactsAssumption DEF Task
      <4> QED
        BY <3>2, <4>1, Zenon DEF CreateRead
    <3> QED
      BY <2>1, <3>1, <3>2
  <2>3. HandTypeOK' /\ UNCHANGED <<contact, asked>>
    BY <2>1, <2>2 DEF ImportRead, CreateRead, Starts, OptOutInv, HandTypeOK
  <2> QED
    BY <2>3, OthersKeep
<1>2. CASE \E h \in Hand, c \in Row : DeleteRead(h, c)
  <2>1. HandTypeOK' /\ UNCHANGED <<contact, asked>>
    BY <1>2 DEF DeleteRead, Starts, OptOutInv, HandTypeOK, Task, Row, ContactsTypeOK, ContactRec
  <2> QED
    BY <2>1, OthersKeep
<1>3. CASE \E h \in Hand : ImportNew(h) \/ CreateCommit(h)
  BY <1>3, NewRowKeeps
<1>4. CASE \E h \in Hand : ImportKnown(h) \/ RequestFails(h)
  <2>1. HandTypeOK' /\ UNCHANGED <<contact, asked>>
    BY <1>4, EndsHasType DEF ImportKnown, RequestFails, OptOutInv
  <2> QED
    BY <2>1, OthersKeep
<1>5. CASE \E h \in Hand : DeleteCommit(h)
  BY <1>5, DeleteKeeps
<1>6. CASE \E c \in Row : OptOut(c)
  BY <1>6, OptOutKeeps
<1>7. CASE \E c \in Row : Reply(c)
  BY <1>7, OthersKeep DEF Reply, OptOutInv, HandTypeOK
<1>8. CASE \E c \in Row : \E e \in {contact[c].email} \cup {Lower[x] : x \in Address},
              out \in BOOLEAN : UpdateContact(c, e, out)
  <2>1. PICK c \in Row : \E e \in {contact[c].email} \cup {Lower[x] : x \in Address},
                            out \in BOOLEAN : UpdateContact(c, e, out)
    BY <1>8
  <2>2. PICK e \in {contact[c].email} \cup {Lower[x] : x \in Address},
             out \in BOOLEAN : UpdateContact(c, e, out)
    BY <2>1
  <2>3. e \in Address
    BY <2>2, ContactsAssumption DEF OptOutInv, ContactsTypeOK, ContactRec
  <2> QED
    BY <2>2, <2>3, UpdateKeeps
<1>9. CASE \E s \in SUBSET Row : RetentionRead(s)
  BY <1>9, OthersKeep DEF RetentionRead, OptOutInv, HandTypeOK
<1>10. CASE \E s \in SUBSET Row : RetentionCommit(s)
  BY <1>10, RetentionKeepsOptOut
<1> QED
  BY <1>1, <1>2, <1>3, <1>4, <1>5, <1>6, <1>7, <1>8, <1>9, <1>10 DEF ContactsNext

-----------------------------------------------------------------------------
(***************************************************************************)
(* The theorem.                                                            *)
(***************************************************************************)

\* No import, edit, deletion or round of retention makes the tenant forget who
\* has asked out, until a person takes it back (app/services/retencao.py, _rodar).
THEOREM OptOutIsKept == OfficeSpec => []OptOutSurvives
<1>1. OfficeInit => OptOutInv
  BY ContactInitKeeps DEF OfficeInit
<1>2. OptOutInv /\ [OfficeNext]_officeVars => OptOutInv'
  <2> SUFFICES ASSUME OptOutInv, [OfficeNext]_officeVars PROVE OptOutInv'
    OBVIOUS
  <2>1. ContactsNext \/ UNCHANGED contactVars
    BY DEF OfficeNext, officeVars, NotSignIn, NotRavi
  <2>2. CASE UNCHANGED contactVars
    BY <2>2, OthersKeep DEF contactVars, OptOutInv, HandTypeOK
  <2> QED
    BY <2>1, <2>2, ContactsNextKeeps
<1>3. OptOutInv => OptOutSurvives
  BY DEF OptOutInv
<1> QED
  BY <1>1, <1>2, <1>3, PTL DEF OfficeSpec

-----------------------------------------------------------------------------
(***************************************************************************)
(* InvoiceCoversUsage holds for any calendar, any usage and any number of  *)
(* administrators.                                                         *)
(*                                                                         *)
(* By itself it is not inductive.  It is the sum of what is left and what  *)
(* retention took that stays the same, once the month is over and its last *)
(* usage committed (Settled); fechar reads only what is left, which is the *)
(* sum as long as the invoice was a draft when it was read (Drafts); and a *)
(* closing that nobody crossed still holds what it read (Reads, Sums).     *)
(***************************************************************************)

Used(m) == usage[m] + gone[m]

\* Nothing more is recorded in m.
Over(m) == m < month /\ m \notin metering

\* Retention has taken nothing of a month that is not billed.
Drafts == \A m \in Month : invoice[m].status \in {"none", "draft"} => gone[m] = 0

Settled == \A m \in Month : invoice[m].final => Over(m) /\ invoice[m].units = Used(m)

Reads == \A k \in Clerk :
  clerk[k].op \in {"read", "sum"} /\ clerk[k].clear
  => /\ invoice[clerk[k].on].status = clerk[k].was
     /\ invoice[clerk[k].on].units = clerk[k].had

Sums == \A k \in Clerk :
  clerk[k].op = "sum" /\ clerk[k].clear /\ clerk[k].final
  => Over(clerk[k].on) /\ clerk[k].units = Used(clerk[k].on)

\* A change of status never leads back to a draft.
Changes == \A k \in Clerk : clerk[k].op = "change" => clerk[k].to # "none"

InvoiceInv == InvoicesTypeOK /\ Drafts /\ Settled /\ Reads /\ Sums /\ Changes

-----------------------------------------------------------------------------
LEMMA NothingWritten ==
  NoFatura \in Fatura /\ (Clerk # {} => NoErrand \in Errand) /\ 1 \in Month
BY InvoicesAssumption DEF NoFatura, Fatura, NoErrand, Errand, Month

LEMMA InvoiceInitHolds ==
  InvoicesInit => InvoiceInv
BY NothingWritten
   DEF InvoicesInit, InvoiceInv, InvoicesTypeOK, Drafts, Settled, Reads, Sums, Changes, NoFatura, NoErrand,
       Month

\* What touches neither the invoices nor what is in flight, changes the sums of
\* open months only, and takes nothing of a month that is not billed.
LEMMA UsageKeeps ==
  ASSUME InvoiceInv, InvoicesTypeOK', UNCHANGED <<invoice, clerk>>,
         \A m \in Month : Over(m) => Over(m)' /\ Used(m)' = Used(m),
         \A m \in Month : gone'[m] = gone[m] \/ PeriodosFaturados(m)
  PROVE  InvoiceInv'
<1>1. Drafts'
  BY DEF InvoiceInv, Drafts, PeriodosFaturados
<1>2. Settled'
  BY DEF InvoiceInv, Settled
<1>3. Reads'
  BY DEF InvoiceInv, Reads
<1>4. Sums'
  <2>1. \A k \in Clerk : clerk[k].on \in Month
    BY DEF InvoiceInv, InvoicesTypeOK, Errand
  <2> QED
    BY <2>1 DEF InvoiceInv, Sums
<1> QED
  BY <1>1, <1>2, <1>3, <1>4 DEF InvoiceInv, Changes

LEMMA UseBeginsKeeps ==
  ASSUME InvoiceInv, UseBegins
  PROVE  InvoiceInv'
<1>1. InvoicesTypeOK'
  BY DEF InvoiceInv, InvoicesTypeOK, UseBegins
<1>2. \A m \in Month : Over(m) => Over(m)'
  BY DEF UseBegins, Over, Month, InvoiceInv, InvoicesTypeOK
<1> QED
  BY <1>1, <1>2, UsageKeeps DEF UseBegins, Used

LEMMA UseCommitsKeeps ==
  ASSUME InvoiceInv, UseCommits
  PROVE  InvoiceInv'
<1>1. InvoicesTypeOK'
  BY DEF InvoiceInv, InvoicesTypeOK, UseCommits
<1>2. \A m \in Month : Over(m) => Over(m)' /\ Used(m)' = Used(m)
  BY DEF UseCommits, Over, Used, InvoiceInv, InvoicesTypeOK
<1> QED
  BY <1>1, <1>2, UsageKeeps DEF UseCommits

LEMMA MonthEndsKeeps ==
  ASSUME InvoiceInv, MonthEnds
  PROVE  InvoiceInv'
<1>1. InvoicesTypeOK'
  BY InvoicesAssumption DEF InvoiceInv, InvoicesTypeOK, MonthEnds, Month
<1>2. \A m \in Month : Over(m) => Over(m)'
  BY InvoicesAssumption DEF MonthEnds, Over, Month, InvoiceInv, InvoicesTypeOK
<1> QED
  BY <1>1, <1>2, UsageKeeps DEF MonthEnds, Used

LEMMA RetentionKeepsInvoices ==
  ASSUME InvoiceInv, Retention
  PROVE  InvoiceInv'
<1>1. PICK n \in [Month -> 0 .. MaxUnits] :
        /\ \A m \in Month : n[m] <= usage[m] /\ (n[m] > 0 => PeriodosFaturados(m))
        /\ usage' = [m \in Month |-> usage[m] - n[m]]
        /\ gone' = [m \in Month |-> gone[m] + n[m]]
        /\ UNCHANGED <<month, metering, invoice, clerk>>
  BY DEF Retention
<1>2. \A m \in Month : n[m] \in Nat /\ usage[m] \in Nat /\ gone[m] \in Nat
  BY InvoicesAssumption DEF InvoiceInv, InvoicesTypeOK
<1>3. InvoicesTypeOK'
  BY <1>1, <1>2 DEF InvoiceInv, InvoicesTypeOK
<1>4. \A m \in Month : Over(m) => Over(m)' /\ Used(m)' = Used(m)
  BY <1>1, <1>2 DEF Over, Used
<1>5. \A m \in Month : gone'[m] = gone[m] \/ PeriodosFaturados(m)
  BY <1>1, <1>2
<1> QED
  BY <1>1, <1>3, <1>4, <1>5, UsageKeeps

-----------------------------------------------------------------------------
(***************************************************************************)
(* Requests that have written nothing yet.                                 *)
(***************************************************************************)

\* Only the errand of k changes: it is enough that the new one is sound.
LEMMA ErrandKeeps ==
  ASSUME InvoiceInv, NEW k \in Clerk, NEW r \in Errand, Books, UNCHANGED invoice,
         clerk' = [clerk EXCEPT ![k] = r],
         r.op \in {"read", "sum"} /\ r.clear
           => invoice[r.on].status = r.was /\ invoice[r.on].units = r.had,
         r.op = "sum" /\ r.clear /\ r.final => Over(r.on) /\ r.units = Used(r.on),
         r.op = "change" => r.to # "none"
  PROVE  InvoiceInv'
<1>1. InvoicesTypeOK' /\ Drafts' /\ Settled'
  BY DEF InvoiceInv, InvoicesTypeOK, Drafts, Settled, Books, Over, Used
<1>2. \A j \in Clerk : clerk'[j] = IF j = k THEN r ELSE clerk[j]
  BY DEF InvoiceInv, InvoicesTypeOK
<1>3. Reads'
  BY <1>2 DEF InvoiceInv, Reads
<1>4. Sums'
  BY <1>2 DEF InvoiceInv, Sums, Books, Over, Used
<1>5. Changes'
  BY <1>2 DEF InvoiceInv, Changes
<1> QED
  BY <1>1, <1>3, <1>4, <1>5 DEF InvoiceInv

LEMMA CloseReadKeeps ==
  ASSUME InvoiceInv, NEW k \in Clerk, NEW m \in Month, CloseRead(k, m)
  PROVE  InvoiceInv'
<1> DEFINE r == [NoErrand EXCEPT !.op = "read", !.on = m, !.clear = TRUE,
                                 !.was = invoice[m].status, !.had = invoice[m].units]
<1>1. r \in Errand /\ r.op = "read" /\ r.on = m /\ r.was = invoice[m].status
      /\ r.had = invoice[m].units
  BY NothingWritten DEF CloseRead, InvoiceInv, InvoicesTypeOK, Fatura, NoErrand, Errand
<1>2. clerk' = [clerk EXCEPT ![k] = r] /\ Books /\ UNCHANGED invoice
  BY DEF CloseRead, Takes
<1> HIDE DEF r
<1> QED
  BY <1>1, <1>2, ErrandKeeps

\* The usage that is left is all of it: the invoice is a draft still.
LEMMA CloseSumKeeps ==
  ASSUME InvoiceInv, NEW k \in Clerk, CloseSum(k)
  PROVE  InvoiceInv'
<1> DEFINE m == clerk[k].on
           over == m < month /\ m \notin metering
           r == [clerk[k] EXCEPT !.op = "sum", !.units = usage[m], !.final = over]
<1>1. clerk[k] \in Errand /\ m \in Month /\ usage[m] \in Nat /\ over \in BOOLEAN
  BY DEF InvoiceInv, InvoicesTypeOK, Errand
<1>2. r \in Errand /\ r.op = "sum" /\ r.on = m /\ r.units = usage[m] /\ r.final = over
      /\ r.clear = clerk[k].clear /\ r.was = clerk[k].was /\ r.had = clerk[k].had
  <2> HIDE DEF over
  <2> QED
    BY <1>1 DEF Errand
<1>3. clerk' = [clerk EXCEPT ![k] = r] /\ Books /\ UNCHANGED invoice
  BY <1>1 DEF CloseSum, InvoiceInv, InvoicesTypeOK
<1>4. r.clear => invoice[m].status = r.was /\ invoice[m].units = r.had
  BY <1>2 DEF CloseSum, InvoiceInv, Reads
<1>5. r.clear => gone[m] = 0
  BY <1>1, <1>2, <1>4 DEF InvoiceInv, Drafts, Errand
<1>6. r.clear /\ r.final => Over(m) /\ r.units = Used(m)
  <2>1. r.final => Over(m)
    BY <1>2, Zenon DEF Over
  <2>2. r.clear => r.units = Used(m)
    BY <1>1, <1>2, <1>5 DEF Used
  <2> QED
    BY <2>1, <2>2
<1> HIDE DEF r
<1> QED
  BY <1>2, <1>3, <1>4, <1>6, ErrandKeeps

LEMMA CloseFailsKeeps ==
  ASSUME InvoiceInv, NEW k \in Clerk, CloseFails(k)
  PROVE  InvoiceInv'
BY NothingWritten, ErrandKeeps DEF CloseFails, NoErrand

LEMMA ChangeReadKeeps ==
  ASSUME InvoiceInv, NEW k \in Clerk, NEW m \in Month, NEW to \in {"issued", "paid", "void"},
         ChangeRead(k, m, to)
  PROVE  InvoiceInv'
<1> DEFINE r == [NoErrand EXCEPT !.op = "change", !.on = m, !.to = to]
<1>1. r \in Errand /\ r.op = "change" /\ r.to = to
  BY NothingWritten DEF NoErrand, Errand
<1>2. clerk' = [clerk EXCEPT ![k] = r] /\ Books /\ UNCHANGED invoice
  BY DEF ChangeRead, Takes
<1> HIDE DEF r
<1> QED
  BY <1>1, <1>2, ErrandKeeps

-----------------------------------------------------------------------------
(***************************************************************************)
(* Requests that write an invoice.                                         *)
(***************************************************************************)

\* k writes the invoice of its month as i: whoever has read it is crossed.
LEMMA WriteKeeps ==
  ASSUME InvoiceInv, NEW k \in Clerk, NEW i \in Fatura, Books, Done(k),
         invoice' = [invoice EXCEPT ![clerk[k].on] = i],
         i.status \in {"none", "draft"} => invoice[clerk[k].on].status \in {"none", "draft"},
         i.final => Over(clerk[k].on) /\ i.units = Used(clerk[k].on)
  PROVE  InvoiceInv'
<1>1. \A j \in Clerk : clerk[j] \in Errand /\ clerk[j].on \in Month
  BY DEF InvoiceInv, InvoicesTypeOK, Errand
<1>2. \A j \in Clerk : clerk'[j] = IF j = k THEN NoErrand
        ELSE IF clerk[j].on = clerk[k].on THEN [clerk[j] EXCEPT !.clear = FALSE] ELSE clerk[j]
  BY DEF Done
<1>free. clerk'[k].op = "none"
  <2>1. clerk'[k] = NoErrand
    BY <1>2, Zenon
  <2> QED
    BY <2>1 DEF NoErrand
<1>3. InvoicesTypeOK'
  <2>1. \A j \in Clerk : clerk'[j] \in Errand
    BY <1>1, <1>2, NothingWritten, ZenonT(60) DEF Errand
  <2>2. clerk' \in [Clerk -> Errand]
    BY <2>1 DEF Done
  <2> QED
    BY <2>2 DEF InvoiceInv, InvoicesTypeOK, Books
<1>4. \A m \in Month : invoice'[m] = IF m = clerk[k].on THEN i ELSE invoice[m]
  BY DEF InvoiceInv, InvoicesTypeOK
<1>5. Drafts' /\ Settled'
  BY <1>4 DEF InvoiceInv, Drafts, Settled, Books, Over, Used
<1>6. \A j \in Clerk : clerk'[j].op \in {"read", "sum"} /\ clerk'[j].clear
        => clerk'[j] = clerk[j] /\ clerk[j].on # clerk[k].on
  <2> SUFFICES ASSUME NEW j \in Clerk, clerk'[j].op \in {"read", "sum"}, clerk'[j].clear
               PROVE  clerk'[j] = clerk[j] /\ clerk[j].on # clerk[k].on
    OBVIOUS
  <2>1. j # k
    BY <1>2, <1>free
  <2>2. [clerk[j] EXCEPT !.clear = FALSE].clear = FALSE
    BY <1>1 DEF Errand
  <2> QED
    BY <1>2, <2>1, <2>2
<1>7. Reads' /\ Sums'
  BY <1>1, <1>4, <1>6 DEF InvoiceInv, Reads, Sums, Books, Over, Used
<1>8. Changes'
  <2>1. \A j \in Clerk : clerk'[j].op = "change" => clerk'[j].to = clerk[j].to
                                                   /\ clerk'[j].op = clerk[j].op
    BY <1>1, <1>2, <1>free DEF Errand
  <2> QED
    BY <2>1 DEF InvoiceInv, Changes
<1> QED
  BY <1>3, <1>5, <1>7, <1>8 DEF InvoiceInv

LEMMA CloseWriteKeeps ==
  ASSUME InvoiceInv, NEW k \in Clerk, CloseWrite(k)
  PROVE  InvoiceInv'
<1> DEFINE r == clerk[k]
           was == invoice[r.on]
           both == r.final /\ r.clear
           i == [status |-> IF was.status = "none" THEN "draft" ELSE was.status,
                 units |-> IF r.units # r.had THEN r.units ELSE was.units, final |-> both]
<1>1. r \in Errand /\ r.on \in Month /\ was \in Fatura /\ both \in BOOLEAN
  BY DEF InvoiceInv, InvoicesTypeOK, Errand
<1>2. i \in Fatura /\ i.final = both
  <2> HIDE DEF both
  <2> QED
    BY <1>1 DEF Fatura, Errand
<1>3. i.status \in {"none", "draft"} => was.status \in {"none", "draft"}
  BY <1>1
<1>4. both => Over(r.on) /\ r.units = Used(r.on) /\ was.units = r.had
  BY DEF CloseWrite, InvoiceInv, Reads, Sums
<1>5. i.final => Over(r.on) /\ i.units = Used(r.on)
  BY <1>2, <1>4
<1>6. invoice' = [invoice EXCEPT ![r.on] = i] /\ Books /\ Done(k)
  BY <1>1 DEF CloseWrite, InvoiceInv, InvoicesTypeOK
<1> HIDE DEF i
<1> QED
  BY <1>2, <1>3, <1>5, <1>6, WriteKeeps

LEMMA ChangeCommitKeeps ==
  ASSUME InvoiceInv, NEW k \in Clerk, ChangeCommit(k)
  PROVE  InvoiceInv'
<1> DEFINE m == clerk[k].on
           i == [invoice[m] EXCEPT !.status = clerk[k].to]
<1>1. clerk[k] \in Errand /\ m \in Month /\ invoice[m] \in Fatura
  BY DEF InvoiceInv, InvoicesTypeOK, Errand
<1>2. i \in Fatura /\ i.status \notin {"none", "draft"}
      /\ i.final = invoice[m].final /\ i.units = invoice[m].units
  BY <1>1 DEF Fatura, Errand, ChangeCommit, InvoiceInv, Changes
<1>3. i.final => Over(m) /\ i.units = Used(m)
  BY <1>1, <1>2 DEF InvoiceInv, Settled
<1>4. invoice' = [invoice EXCEPT ![m] = i] /\ Books /\ Done(k)
  BY <1>1 DEF ChangeCommit, InvoiceInv, InvoicesTypeOK
<1> HIDE DEF i
<1> QED
  BY <1>2, <1>3, <1>4, WriteKeeps

-----------------------------------------------------------------------------
(***************************************************************************)
(* The theorem.                                                            *)
(***************************************************************************)

LEMMA InvoicesNextKeeps ==
  ASSUME InvoiceInv, InvoicesNext
  PROVE  InvoiceInv'
BY UseBeginsKeeps, UseCommitsKeeps, MonthEndsKeeps, RetentionKeepsInvoices, CloseReadKeeps,
   ChangeReadKeeps, CloseSumKeeps, CloseWriteKeeps, CloseFailsKeeps, ChangeCommitKeeps
   DEF InvoicesNext

\* What a closed invoice says is what was used: no closing, change of status or
\* round of retention makes a month that was closed in peace bill less, or more
\* (app/services/faturamento.py, fechar; retencao.py, _rodar).
THEOREM InvoicesCoverUsage == OfficeSpec => []InvoiceCoversUsage
<1>1. OfficeInit => InvoiceInv
  BY InvoiceInitHolds DEF OfficeInit
<1>2. InvoiceInv /\ [OfficeNext]_officeVars => InvoiceInv'
  <2> SUFFICES ASSUME InvoiceInv, [OfficeNext]_officeVars PROVE InvoiceInv'
    OBVIOUS
  <2>1. InvoicesNext \/ UNCHANGED invoiceVars
    BY DEF OfficeNext, officeVars, NotSignIn, NotRavi
  <2>2. CASE UNCHANGED invoiceVars
    BY <2>2 DEF invoiceVars, InvoiceInv, InvoicesTypeOK, Drafts, Settled, Reads, Sums, Changes,
                Over, Used
  <2> QED
    BY <2>1, <2>2, InvoicesNextKeeps
<1>3. InvoiceInv => InvoiceCoversUsage
  BY DEF InvoiceInv, Settled, Used, InvoiceCoversUsage
<1> QED
  BY <1>1, <1>2, <1>3, PTL DEF OfficeSpec

=============================================================================
