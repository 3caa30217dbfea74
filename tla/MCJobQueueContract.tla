------------------------- MODULE MCJobQueueContract -------------------------
(***************************************************************************)
(* Instances of JobQueueContract for TLC: a periodic key and a client's.   *)
(***************************************************************************)
EXTENDS JobQueueContract

CONSTANTS leitura, pesquisa

OneOfEach   == {leitura, pesquisa}
OnePeriodic == {leitura}

=============================================================================
