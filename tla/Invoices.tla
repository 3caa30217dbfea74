------------------------------- MODULE Invoices -----------------------------
(***************************************************************************)
(* The monthly closing of one tenant (app/services/faturamento.py and      *)
(* api/v1/admin.py), with the usage it bills and the retention that        *)
(* deletes usage once it is billed (app/services/retencao.py).             *)
(*                                                                         *)
(* fechar finds the invoice of the month, adds up the usage and writes the *)
(* figures; mudar_estado writes the status.  Both write only the columns   *)
(* they set and whose value differs from the one read, and lock nothing.   *)
(* Prices, and the part of the units that the plan includes, follow from   *)
(* the units and are left out.                                             *)
(***************************************************************************)
EXTENDS Integers, FiniteSets

CONSTANTS
  Clerk,       \* requests of the platform's administrators in flight
  LastMonth,   \* bound on the calendar
  MaxUnits     \* bound on the usage of a month

ASSUME InvoicesAssumption == LastMonth \in Nat \ {0} /\ MaxUnits \in Nat

VARIABLES
  month,      \* the current one
  metering,   \* months of the usage that is recorded and not committed
  usage,      \* units in usage_events, by month
  gone,       \* history: units that retention has deleted
  invoice,    \* the invoice of each month
  clerk       \* what each request has in flight

invoiceVars == <<month, metering, usage, gone, invoice, clerk>>

Month == 1 .. LastMonth

\* final: the figures were taken when the usage of the month was complete, by a
\* request that nobody crossed (history).
Fatura == [status : {"none", "draft", "issued", "paid", "void"},
           units : Nat, final : BOOLEAN]

NoFatura == [status |-> "none", units |-> 0, final |-> FALSE]

\* read: fechar has found the invoice.  sum: it has added up the usage.  was,
\* had: the status and the units read.  clear: nobody has written the invoice
\* since (history).
Errand == [op : {"none", "read", "sum", "change"}, on : Month,
           was : {"none", "draft"}, had : Nat, units : Nat,
           final : BOOLEAN, clear : BOOLEAN, to : {"none", "issued", "paid", "void"}]

NoErrand == [op |-> "none", on |-> 1, was |-> "none", had |-> 0, units |-> 0,
             final |-> FALSE, clear |-> FALSE, to |-> "none"]

TRANSICOES == [none |-> {}, draft |-> {"issued", "void"}, issued |-> {"paid", "void"},
               paid |-> {"void"}, void |-> {}]

InvoicesTypeOK ==
  /\ month \in Month /\ metering \subseteq Month
  /\ usage \in [Month -> Nat] /\ gone \in [Month -> Nat]
  /\ invoice \in [Month -> Fatura]
  /\ clerk \in [Clerk -> Errand]

Books == UNCHANGED <<month, metering, usage, gone>>

-----------------------------------------------------------------------------
(***************************************************************************)
(* Usage, the calendar, and retention.                                     *)
(***************************************************************************)

\* An event carries the time its transaction began.
UseBegins ==
  /\ usage[month] + gone[month] < MaxUnits
  /\ metering = {}
  /\ metering' = {month}
  /\ UNCHANGED <<month, usage, gone, invoice, clerk>>

UseCommits ==
  /\ metering # {}
  /\ usage' = [m \in Month |-> IF m \in metering THEN usage[m] + 1 ELSE usage[m]]
  /\ metering' = {}
  /\ UNCHANGED <<month, gone, invoice, clerk>>

MonthEnds ==
  /\ month < LastMonth
  /\ month' = month + 1
  /\ UNCHANGED <<metering, usage, gone, invoice, clerk>>

\* Mutant: any invoice will do.
Faturados(m) == invoice[m].status # "none"

PeriodosFaturados(m) == invoice[m].status \in {"issued", "paid"}

\* A round deletes what is old enough of the months that are billed.  Nothing
\* leads from issued back to draft: that the months are read first is no matter.
Retention ==
  \E n \in [Month -> 0 .. MaxUnits] :
    /\ \A m \in Month : n[m] <= usage[m] /\ (n[m] > 0 => PeriodosFaturados(m))
    /\ \E m \in Month : n[m] > 0
    /\ usage' = [m \in Month |-> usage[m] - n[m]]
    /\ gone' = [m \in Month |-> gone[m] + n[m]]
    /\ UNCHANGED <<month, metering, invoice, clerk>>

-----------------------------------------------------------------------------
(***************************************************************************)
(* fechar and mudar_estado.                                                *)
(***************************************************************************)

Takes(k, r) ==
  /\ clerk[k].op = "none"
  /\ clerk' = [clerk EXCEPT ![k] = r]

\* k has written the invoice of its month.
Done(k) ==
  clerk' = [j \in Clerk |->
    IF j = k THEN NoErrand
    ELSE IF clerk[j].on = clerk[k].on THEN [clerk[j] EXCEPT !.clear = FALSE]
    ELSE clerk[j]]

\* What is no draft any more is given back as it is.  The current month may be
\* closed too.
CloseRead(k, m) ==
  /\ invoice[m].status \in {"none", "draft"}
  /\ m <= month
  /\ Takes(k, [NoErrand EXCEPT !.op = "read", !.on = m, !.clear = TRUE,
                          !.was = invoice[m].status, !.had = invoice[m].units])
  /\ Books /\ UNCHANGED invoice

CloseSum(k) ==
  LET m == clerk[k].on IN
  /\ clerk[k].op = "read"
  /\ clerk' = [clerk EXCEPT ![k].op = "sum", ![k].units = usage[m],
                            ![k].final = (m < month /\ m \notin metering)]
  /\ Books /\ UNCHANGED invoice

\* The status is not among the columns written: an invoice that has been issued
\* since it was read gets the new figures.
CloseWrite(k) ==
  LET r == clerk[k] IN
  /\ r.op = "sum"
  /\ r.was = "none" => invoice[r.on].status = "none"
  /\ invoice' = [invoice EXCEPT ![r.on] =
       [status |-> IF @.status = "none" THEN "draft" ELSE @.status,
        units |-> IF r.units # r.had THEN r.units ELSE @.units,
        final |-> r.final /\ r.clear]]
  /\ Done(k)
  /\ Books

\* Another request has inserted the invoice (uq_invoices_periodo): everything
\* this one has closed is rolled back.
CloseFails(k) ==
  LET r == clerk[k] IN
  /\ r.op = "sum" /\ r.was = "none" /\ invoice[r.on].status # "none"
  /\ clerk' = [clerk EXCEPT ![k] = NoErrand]
  /\ Books /\ UNCHANGED invoice

ChangeRead(k, m, to) ==
  /\ to \in TRANSICOES[invoice[m].status]
  /\ Takes(k, [NoErrand EXCEPT !.op = "change", !.on = m, !.to = to])
  /\ Books /\ UNCHANGED invoice

ChangeCommit(k) ==
  /\ clerk[k].op = "change"
  /\ invoice' = [invoice EXCEPT ![clerk[k].on].status = clerk[k].to]
  /\ Done(k)
  /\ Books

InvoicesInit ==
  /\ month = 1 /\ metering = {}
  /\ usage = [m \in Month |-> 0] /\ gone = [m \in Month |-> 0]
  /\ invoice = [m \in Month |-> NoFatura]
  /\ clerk = [k \in Clerk |-> NoErrand]

InvoicesNext ==
  \/ UseBegins \/ UseCommits \/ MonthEnds \/ Retention
  \/ \E k \in Clerk :
       \/ \E m \in Month : \/ CloseRead(k, m)
                           \/ \E to \in {"issued", "paid", "void"} : ChangeRead(k, m, to)
       \/ CloseSum(k) \/ CloseWrite(k) \/ CloseFails(k) \/ ChangeCommit(k)

-----------------------------------------------------------------------------
\* An invoice that has gone out bills what was used in its month, all of it and
\* once, if it was closed after the month and nobody wrote the invoice between
\* the reading and the writing of that closing: retention takes nothing before
\* it is billed, and what it takes afterwards never comes back to the figures
\* (retencao.py, _periodos_faturados; faturamento.py, fechar).
InvoiceCoversUsage ==
  \A m \in Month :
    invoice[m].status \in {"issued", "paid"} /\ invoice[m].final
    => usage[m] + gone[m] = invoice[m].units

=============================================================================
