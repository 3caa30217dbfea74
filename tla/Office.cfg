\* Each part of the office on an instance of its own.
SPECIFICATION FairOfficeSpec
CONSTANTS
  Part = {"signin", "members", "invoices", "contacts", "ravi", "limiter"}
  Visitor = {v1, v2}
  PoolSizes = {2, 4}
  Recovery = {r1}
  wrong = wrong
  missing = missing
  TENTATIVAS = 1
  MaxStep = 2
  Person = {bia, caio}
  Founder = bia
  Role = {"owner"}
  Desk = {d1, d2}
  Seats = 2
  MaxInvites = 2
  MaxExtra = 1
  Clerk = {k1, k2}
  LastMonth = 2
  MaxUnits = 1
  ana = ana
  Ana = Ana
  Address = {ana, Ana}
  Lower <- InLowerCase
  Hand = {h1, h2}
  MaxContacts = 2
  Deal = {p1, p2}
  Limit = 1
  MaxNow = 3
  MaxOpen = 2
  MaxCrashes = 1
  Replica = {s1, s2}
  Teto = 2
  Janela = 2
  MaxRestarts = 1
INVARIANTS SpentCodeStaysSpent SeatsOvershootIsBounded InvoiceCoversUsage  WindowIsBounded
PROPERTIES EverySignInEnds EveryLeadArrives
CHECK_DEADLOCK FALSE
