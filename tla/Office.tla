------------------------------- MODULE Office -------------------------------
(***************************************************************************)
(* What surrounds the sales floor of a tenant: signing in, its members,    *)
(* its invoices, its contacts, the CRM, and the brake on requests.  These  *)
(* share no state with one another, so an instance runs one of them, and   *)
(* leaves the others as they begin.                                        *)
(***************************************************************************)
EXTENDS SignIn, Members, Invoices, Contacts, Ravi, Limiter

CONSTANT Part   \* the parts that are run

VARIABLE part   \* the one this instance runs

officeVars == <<part, signInVars, membersVars, invoiceVars, contactVars, raviVars, limiterVars>>

OfficeInit ==
  /\ part \in Part
  /\ SignInInit /\ MembersInit /\ InvoicesInit /\ ContactsInit /\ RaviInit /\ LimiterInit
  /\ part # "signin" => \A n \in PoolSizes : n <= pool
  /\ part # "limiter" => up

NotSignIn == UNCHANGED <<part, membersVars, invoiceVars, contactVars, raviVars, limiterVars>>
NotRavi == UNCHANGED <<part, signInVars, membersVars, invoiceVars, contactVars, limiterVars>>

OfficeNext ==
  \/ part = "signin" /\ SignInNext /\ NotSignIn
  \/ part = "ravi" /\ RaviNext /\ NotRavi
  \/ part = "members" /\ MembersNext
     /\ UNCHANGED <<part, signInVars, invoiceVars, contactVars, raviVars, limiterVars>>
  \/ part = "invoices" /\ InvoicesNext
     /\ UNCHANGED <<part, signInVars, membersVars, contactVars, raviVars, limiterVars>>
  \/ part = "contacts" /\ ContactsNext
     /\ UNCHANGED <<part, signInVars, membersVars, invoiceVars, raviVars, limiterVars>>
  \/ part = "limiter" /\ LimiterNext
     /\ UNCHANGED <<part, signInVars, membersVars, invoiceVars, contactVars, raviVars>>

OfficeSpec == OfficeInit /\ [][OfficeNext]_officeVars

\* Each part has the fairness of its own module; in an instance that runs
\* another part it asks for nothing.
OfficeFairness ==
  /\ \A v \in Visitor : WF_officeVars(part = "signin" /\ SignInGoesOn(v) /\ NotSignIn)
  /\ WF_officeVars(part = "ravi" /\ SyncBegin /\ NotRavi)
  /\ \A s \in Sender : WF_officeVars(part = "ravi" /\ RaviGoesOn(s) /\ NotRavi)
  /\ \A p \in Deal : SF_officeVars(part = "ravi" /\ PushSent("worker", p) /\ NotRavi)
  /\ WF_officeVars(part = "ravi" /\ (\E c \in change : ChangeCommits(c)) /\ NotRavi)

FairOfficeSpec == OfficeSpec /\ OfficeFairness

=============================================================================
