---------------------------------- MODULE MCQr ----------------------------------
(* Small instances of QrVerification for TLC.  Where a run has a liveness     *)
(* property it makes no use of the symmetry, and leaves out the operations by *)
(* which a certification gets from an inspection back to its final review.    *)
EXTENDS QrVerification, TLC

MCDecisions == {"startFinalReview", "grantCertification", "denyCertification",
                "revokeCertification", "renewCertification"}

Symmetry == Permutations(Tokens) \cup Permutations(Scanners)
=============================================================================
