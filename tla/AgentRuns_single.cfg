\* One worker that crashes and loses transactions, executions of any length, stable ids.
SPECIFICATION RunsFairSpec
CONSTANTS
  Job = {j1}
  Worker = {w1}
  Client = {c1}
  pesquisa = pesquisa
  Key <- NonePeriodic
  Periodic <- NonePeriodic
  NoKey = NoKey
  NoJob = NoJob
  MaxAttempts = 3
  StaleAfter = 1
  MaxExec = 0
  Overrun = TRUE
  MaxFaults = 2
  StableId = TRUE
  MaxRuns = 6
  MaxBreaks = 2
  UnitsLimit = 4
INVARIANTS  DeliveredWasBilled BilledForNothingNeedsFault
PROPERTIES JobSettles
