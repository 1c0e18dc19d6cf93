------------------------------- MODULE MCChain -------------------------------
(* Small instances of CertificationChain for TLC. *)
EXTENDS CertificationChain, TLC

CONSTANTS c1, FullChain, RestOfChain

MCEventBatch == [e \in LabEvents |-> CHOOSE b \in Batches : TRUE]

\* c1 may go through FullChain events and race on the way; the other rows go
\* as far as RestOfChain (0: they exist only as requests and successors).
MCMaxEvents == [c \in Certs |-> IF c = c1 THEN FullChain ELSE RestOfChain]

Symmetry == Permutations(Requests)
=============================================================================
