---------------------------- MODULE MCInspections ----------------------------
(* Small instances of Inspections for TLC. *)
EXTENDS Inspections, TLC

CONSTANTS MostEvents

MCEventBatch == [e \in LabEvents |-> CHOOSE b \in Batches : TRUE]

MCMaxEvents == [c \in Certs |-> MostEvents]

Symmetry == Permutations(Visits) \cup Permutations(Visitors) \cup Permutations(LabEvents)
=============================================================================
