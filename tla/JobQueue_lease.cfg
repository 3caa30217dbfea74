\* No fault, every execution within STALE_AFTER, two workers, a client.
SPECIFICATION FairSpec
CONSTANTS
  Job = {j1, j2}
  Worker = {w1, w2}
  Client = {c1}
  leitura = leitura
  pesquisa = pesquisa
  Key <- OneOfEach
  Periodic <- OnePeriodic
  NoKey = NoKey
  NoJob = NoJob
  NoWorker = NoWorker
  MaxAttempts = 2
  StaleAfter = 1
  MaxExec = 1
  Overrun = FALSE
  MaxFaults = 0
INVARIANTS NoDoubleExecution AttemptsWithinMax
PROPERTIES YoungReservationIsKept KeepsTheContract
