\* No fault, every execution within STALE_AFTER, three jobs, two workers, a quota of one unit.
SPECIFICATION RunsSpec
CONSTANTS
  Job = {j1, j2, j3}
  Worker = {w1, w2}
  Client = {c1}
  pesquisa = pesquisa
  Key <- NonePeriodic
  Periodic <- NonePeriodic
  NoKey = NoKey
  NoJob = NoJob
  MaxAttempts = 2
  StaleAfter = 0
  MaxExec = 0
  Overrun = FALSE
  MaxFaults = 0
  StableId = TRUE
  MaxRuns = 6
  MaxBreaks = 0
  UnitsLimit = 1
SYMMETRY Symmetry
INVARIANTS DoneExactlyOnce 
 
