\* One worker: is the retention job of a day created once?
SPECIFICATION Spec
CONSTANTS
  Job = {j1, j2}
  Worker = {w1}
  Client = {}
  leitura = leitura
  pesquisa = pesquisa
  retencaoHoje = retencaoHoje
  Key <- OneDaily
  Periodic <- OneDaily
  NoKey = NoKey
  NoJob = NoJob
  MaxAttempts = 2
  StaleAfter = 1
  MaxExec = 1
  Overrun = FALSE
  MaxFaults = 0
SYMMETRY Symmetry
PROPERTIES KeyIsUsedOnce
