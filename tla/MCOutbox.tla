------------------------------ MODULE MCOutbox -------------------------------
(***************************************************************************)
(* Instances of Outbox for TLC: one person, or two of whom the first gets  *)
(* the oldest message.                                                     *)
(***************************************************************************)
EXTENDS Outbox, TLC

CONSTANTS ana, bruno

Nobody == {}
People == {ana, bruno}
OnlyAna == {ana}
FirstToAna == [m \in Message |-> IF m = 1 THEN ana ELSE bruno]
AllToAna == [m \in Message |-> ana]

Symmetry == Permutations(Reviewer)

=============================================================================
