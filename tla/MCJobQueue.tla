----------------------------- MODULE MCJobQueue -----------------------------
(***************************************************************************)
(* Instances of JobQueue for TLC.  Rows, workers and clients only differ   *)
(* by name, so their permutations are symmetries (safety runs only).       *)
(***************************************************************************)
EXTENDS JobQueue, TLC

CONSTANTS
  leitura,      \* the fetch_inbox job of a tenant
  pesquisa,     \* an agent_run with a dedupe key
  retencaoHoje  \* the retention job of a tenant and a day

NonePeriodic == {}
OnePeriodic == {leitura}
OneOfEach   == {leitura, pesquisa}
OneDaily    == {retencaoHoje}

Symmetry == Permutations(Job) \cup Permutations(Worker)

=============================================================================
