\* Two workers, one crash or failed transaction, executions of any length.
SPECIFICATION Spec
CONSTANTS
  Job = {j1, j2}
  Worker = {w1, w2}
  Client = {c1}
  leitura = leitura
  pesquisa = pesquisa
  retencaoHoje = retencaoHoje
  Key <- OneOfEach
  Periodic <- OnePeriodic
  NoKey = NoKey
  NoJob = NoJob
  MaxAttempts = 2
  StaleAfter = 1
  MaxExec = 0
  Overrun = TRUE
  MaxFaults = 1
SYMMETRY Symmetry
INVARIANTS DoneWasExecuted
