\* The deployed shape: one worker, periodic work, two faults, executions of any length.
SPECIFICATION FairSpec
CONSTANTS
  Job = {j1, j2}
  Worker = {w1}
  Client = {}
  leitura = leitura
  pesquisa = pesquisa
  retencaoHoje = retencaoHoje
  Key <- OnePeriodic
  Periodic <- OnePeriodic
  NoKey = NoKey
  NoJob = NoJob
  MaxAttempts = 2
  StaleAfter = 1
  MaxExec = 0
  Overrun = TRUE
  MaxFaults = 2
 
PROPERTIES FinishedIsFinal OrphanIsRecovered PeriodicKeepsRunning
