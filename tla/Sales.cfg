\* A worker and two requests: cadence, enrolling side by side, mailbox, funnel.
SPECIFICATION FairSpec
CONSTANTS
  ana = ana
  bruno = bruno
  p1 = p1
  p2 = p2
  p3 = p3
  w = w
  d1 = d1
  d2 = d2
  Contact <- TwoPeople
  Prospect <- Leads
  ContactOf <- OwnedBy
  Actor <- Actors
  Worker = {w}
  Scenario <- Scenarios
  MaxMessages = 4
  MaxEnrollments = 2
  MaxFaults = 1
  MaxMail = 4
  From <- MailFrom
  KindOf <- MailKind
  Nameless = {2}
  Limit = 2
  MaxSteps = 2
INVARIANTS SalesTypeOK OneCadencePerProspect TouchesADayAreBounded LateApproachesAreBounded UnansweredHasCause CopiesAreBounded SeenIsKept
PROPERTIES ClosedStaysClosed EnrollmentEnds
CHECK_DEADLOCK FALSE
