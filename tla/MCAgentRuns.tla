---------------------------- MODULE MCAgentRuns -----------------------------
(***************************************************************************)
(* Instances of AgentRuns for TLC.  No periodic work: the rows of the      *)
(* instance are agent_run jobs, put in the queue by one client.            *)
(***************************************************************************)
EXTENDS AgentRuns, TLC

CONSTANT pesquisa

NonePeriodic == {}
AgentKeys == {pesquisa}

Symmetry == Permutations(Job) \cup Permutations(Worker)

=============================================================================
