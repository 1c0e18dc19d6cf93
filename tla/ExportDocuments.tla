---------------------------- MODULE ExportDocuments ----------------------------
(***************************************************************************)
(* ExportDocumentService beside one certification.  A document is asked    *)
(* for by a call that finds the certification GRANTED and then inserts the *)
(* row; customs approve it by a call that finds the row and then updates   *)
(* it, and that never looks at the certification again.                    *)
(***************************************************************************)
EXTENDS CertificationStates

CONSTANTS ExportCalls  \* the calls; a document is named by the call that made it

VARIABLES
    certificate,  \* the current_status of the certification
    exportDoc,    \* per document "none", "submitted" or "approved"
    exportCall,   \* per call: op, step, the document validated
    lost          \* history: the certification left GRANTED while the call ran

exportVars == <<certificate, exportDoc, exportCall, lost>>

ExportCall ==
    [op : {"request", "validate"}, doc : ExportCalls,
     step : {"idle", "find", "insert", "update", "done", "failed"}]

ExportInit ==
    /\ certificate = "DRAFT"
    /\ exportDoc = [c \in ExportCalls |-> "none"]
    /\ exportCall = [c \in ExportCalls |-> [op |-> "request", step |-> "idle", doc |-> c]]
    /\ lost = [c \in ExportCalls |-> FALSE]

\* The chain moves on, or an inspection is scheduled, in whatever status.
CertificateMoves ==
    /\ \/ \E t \in Transitions : t[1] = certificate /\ certificate' = t[2]
       \/ certificate' = "INSPECTION_SCHEDULED"
    /\ lost' = [c \in ExportCalls |->
           lost[c] \/ (certificate = "GRANTED" /\ exportCall[c].step = "insert")]
    /\ UNCHANGED <<exportDoc, exportCall>>

ExportGoes(c, step) == exportCall' = [exportCall EXCEPT ![c].step = step]

StartExport(c) ==
    /\ exportCall[c].step = "idle"
    /\ \E op \in {"request", "validate"}, d \in ExportCalls :
           /\ op = "request" => d = c
           /\ exportCall' = [exportCall EXCEPT ![c] = [op |-> op, doc |-> d, step |-> "find"]]
    /\ UNCHANGED <<certificate, exportDoc, lost>>

\* Mutant: any certification will do.
FindGranted_Any(c) ==
    /\ exportCall[c].op = "request" /\ exportCall[c].step = "find"
    /\ ExportGoes(c, "insert")
    /\ UNCHANGED <<certificate, exportDoc, lost>>

FindGranted(c) ==
    /\ exportCall[c].op = "request" /\ exportCall[c].step = "find"
    /\ ExportGoes(c, IF certificate = "GRANTED" THEN "insert" ELSE "failed")
    /\ UNCHANGED <<certificate, exportDoc, lost>>

InsertExport(c) ==
    /\ exportCall[c].step = "insert"
    /\ exportDoc' = [exportDoc EXCEPT ![c] = "submitted"]
    /\ ExportGoes(c, "done")
    /\ UNCHANGED <<certificate, lost>>

\* validateDocument finds the document by its id, and nothing else.
FindExport(c) ==
    /\ exportCall[c].op = "validate" /\ exportCall[c].step = "find"
    /\ ExportGoes(c, IF exportDoc[exportCall[c].doc] = "none" THEN "failed" ELSE "update")
    /\ UNCHANGED <<certificate, exportDoc, lost>>

ApproveExport(c) ==
    /\ exportCall[c].step = "update"
    /\ exportDoc' = [exportDoc EXCEPT ![exportCall[c].doc] = "approved"]
    /\ ExportGoes(c, "done")
    /\ UNCHANGED <<certificate, lost>>

FailExport(c) ==
    /\ exportCall[c].step \in {"find", "insert", "update"}
    /\ ExportGoes(c, "failed")
    /\ UNCHANGED <<certificate, exportDoc, lost>>

ExportNext ==
    \/ CertificateMoves
    \/ \E c \in ExportCalls :
           \/ StartExport(c) \/ FindGranted(c) \/ InsertExport(c)
           \/ FindExport(c) \/ ApproveExport(c) \/ FailExport(c)

-----------------------------------------------------------------------------

\* Type invariant.
ExportTypeOK ==
    /\ certificate \in Statuses
    /\ exportDoc \in [ExportCalls -> {"none", "submitted", "approved"}]
    /\ exportCall \in [ExportCalls -> ExportCall]
    /\ lost \in [ExportCalls -> BOOLEAN]

\* A document comes into being while the certification is GRANTED, or by a call
\* during which it ceased to be; and a document is approved only after that
\* (requestExportDocument, validateDocument).
ExportsFollowGrant ==
    [][\A c \in ExportCalls : exportDoc'[c] # exportDoc[c] =>
           IF exportDoc[c] = "none"
           THEN exportDoc'[c] = "submitted" /\ (certificate = "GRANTED" \/ lost[c])
           ELSE exportDoc'[c] = "approved"]_exportVars
=============================================================================
