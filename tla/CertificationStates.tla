------------------------- MODULE CertificationStates -------------------------
(***************************************************************************)
(* The statuses of a certification and the transitions the operations of   *)
(* CertificationService are meant to make: the vocabulary that every       *)
(* module about the certification chain shares.                            *)
(***************************************************************************)

Statuses ==
    {"DRAFT", "SUBMITTED", "DOCUMENT_REVIEW", "INSPECTION_SCHEDULED",
     "INSPECTION_IN_PROGRESS", "INSPECTION_COMPLETE", "LAB_TESTING",
     "LAB_RESULTS_RECEIVED", "UNDER_REVIEW", "GRANTED", "DENIED", "REVOKED",
     "RENEWED"}

\* Per operation, the status its assertStatus (or its WHERE clause) asks for
\* and the status its applyTransition writes.
Edge ==
    [submitRequest           |-> [from |-> "DRAFT", to |-> "SUBMITTED"],
     startReview             |-> [from |-> "SUBMITTED", to |-> "DOCUMENT_REVIEW"],
     scheduleInspectionChain |-> [from |-> "DOCUMENT_REVIEW",
                                  to |-> "INSPECTION_SCHEDULED"],
     startInspection         |-> [from |-> "INSPECTION_SCHEDULED",
                                  to |-> "INSPECTION_IN_PROGRESS"],
     completeInspectionChain |-> [from |-> "INSPECTION_IN_PROGRESS",
                                  to |-> "INSPECTION_COMPLETE"],
     requestLab              |-> [from |-> "INSPECTION_COMPLETE",
                                  to |-> "LAB_TESTING"],
     receiveLabResults       |-> [from |-> "LAB_TESTING",
                                  to |-> "LAB_RESULTS_RECEIVED"],
     startFinalReview        |-> [from |-> "LAB_RESULTS_RECEIVED",
                                  to |-> "UNDER_REVIEW"],
     grantCertification      |-> [from |-> "UNDER_REVIEW", to |-> "GRANTED"],
     denyCertification       |-> [from |-> "UNDER_REVIEW", to |-> "DENIED"],
     revokeCertification     |-> [from |-> "GRANTED", to |-> "REVOKED"],
     renewCertification      |-> [from |-> "GRANTED", to |-> "RENEWED"]]

Ops == DOMAIN Edge

From(op) == Edge[op].from
To(op)   == Edge[op].to

\* The pairs <<from, to>> a ledger entry may carry.
Transitions == {<<From(op), To(op)>> : op \in Ops}

\* What a certification has been through before it can be granted.
ChainBeforeGrant ==
    {"SUBMITTED", "DOCUMENT_REVIEW", "INSPECTION_SCHEDULED",
     "INSPECTION_IN_PROGRESS", "INSPECTION_COMPLETE", "LAB_TESTING",
     "LAB_RESULTS_RECEIVED", "UNDER_REVIEW"}
=============================================================================
