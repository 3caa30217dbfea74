\* One worker, one broken transaction, no crash: is anything done without delivery?
SPECIFICATION RunsSpec
CONSTANTS
  Job = {j1}
  Worker = {w1}
  Client = {c1}
  pesquisa = pesquisa
  Key <- NonePeriodic
  Periodic <- NonePeriodic
  NoKey = NoKey
  NoJob = NoJob
  MaxAttempts = 2
  StaleAfter = 1
  MaxExec = 1
  Overrun = FALSE
  MaxFaults = 0
  StableId = TRUE
  MaxRuns = 4
  MaxBreaks = 1
  UnitsLimit = 4
SYMMETRY Symmetry
INVARIANTS DoneWasDelivered
