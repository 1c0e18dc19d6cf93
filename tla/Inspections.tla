----------------------------- MODULE Inspections -----------------------------
(***************************************************************************)
(* InspectionService beside CertificationService: the rows of              *)
(* certification.inspection and certification.inspection_report, and the   *)
(* calls on the inspection endpoints.                                      *)
(*                                                                         *)
(* Two of these calls write certification.current_status themselves, by an *)
(* UPDATE of that one column: without asking for the status the row is in, *)
(* outside applyTransition, and without a ledger entry.  What module       *)
(* CertificationChain shows of rows and ledger therefore holds of          *)
(* CertificationService alone; this module says what is left of it when    *)
(* both services run.                                                      *)
(*                                                                         *)
(* Every statement is awaited and none of them shares a transaction with   *)
(* another, so each is an action.  Inspector, dates, farms and findings    *)
(* are left out, and with them assignInspector, which writes nothing else. *)
(***************************************************************************)
EXTENDS CertificationChain

CONSTANTS
    Visits,   \* ids an inspection row can have
    Visitors  \* inspection calls that can be in flight at once (re-used)

ASSUME InspectionAssumption ==
    /\ None \notin Visits \cup BOOLEAN
    /\ None \notin {"INSPECTION_SCHEDULED", "INSPECTION_COMPLETE"}
    /\ None \notin [cert : Certs, passed : BOOLEAN]

VARIABLES
    inspection,        \* the inspection rows, by id
    inspectionReport,  \* the report row of each inspection, if it is filed
    visitorCall        \* what each inspection call is doing

inspectionVars == <<inspection, inspectionReport, visitorCall>>
allVars == <<vars, inspectionVars>>

\* Nothing ever writes 'in_progress' or 'cancelled'.
Inspection == [status : {"absent", "scheduled", "completed"},
               cert : Certs \cup {None}, passed : BOOLEAN \cup {None}]

VisitorStages == {"idle", "completing", "filing", "marking"}

VisitorCall == [at : VisitorStages, visit : Visits \cup {None},
                passed : BOOLEAN \cup {None},
                mark : {"INSPECTION_SCHEDULED", "INSPECTION_COMPLETE", None}]

VisitorIdle == [at |-> "idle", visit |-> None, passed |-> None, mark |-> None]

InspectionInit ==
    /\ Init
    /\ inspection = [i \in Visits |-> [status |-> "absent", cert |-> None,
                                       passed |-> None]]
    /\ inspectionReport = [i \in Visits |-> None]
    /\ visitorCall = [v \in Visitors |-> VisitorIdle]

-----------------------------------------------------------------------------

\* POST /inspections: the certification exists, whatever its status.
ScheduleInspection(v, i, c) ==
    /\ visitorCall[v].at = "idle"
    /\ certification[c].exists
    /\ inspection[i].status = "absent"
    /\ inspection' = [inspection EXCEPT ![i] = [status |-> "scheduled", cert |-> c,
                                                passed |-> None]]
    /\ visitorCall' = [visitorCall EXCEPT ![v] =
                         [at |-> "marking", visit |-> i, passed |-> None,
                          mark |-> "INSPECTION_SCHEDULED"]]
    /\ UNCHANGED <<vars, inspectionReport>>

\* PATCH /inspections/:id/report, which is completeInspection: the status read.
CompleteInspection(v, i, p) ==
    /\ visitorCall[v].at = "idle"
    /\ inspection[i].status = "scheduled"
    /\ visitorCall' = [visitorCall EXCEPT ![v] =
                         [at |-> "completing", visit |-> i, passed |-> p,
                          mark |-> "INSPECTION_COMPLETE"]]
    /\ UNCHANGED <<vars, inspection, inspectionReport>>

\* Mutant: the report is never filed.
UpdateInspection_NotFiled(v) ==
    LET k == visitorCall[v]
    IN /\ k.at = "completing"
       /\ inspection' = [inspection EXCEPT ![k.visit].status = "completed",
                                           ![k.visit].passed = k.passed]
       /\ visitorCall' = [visitorCall EXCEPT ![v].at = "marking"]
       /\ UNCHANGED <<vars, inspectionReport>>

\* Mutant: completing goes through the status nothing else uses.
UpdateInspection_InProgress(v) ==
    LET k == visitorCall[v]
    IN /\ k.at = "completing"
       /\ inspection' = [inspection EXCEPT ![k.visit].status = "in_progress",
                                           ![k.visit].passed = k.passed]
       /\ visitorCall' = [visitorCall EXCEPT ![v].at = "filing"]
       /\ UNCHANGED <<vars, inspectionReport>>

\* Mutant: a failed inspection stays open.
UpdateInspection_OnlyIfPassed(v) ==
    LET k == visitorCall[v]
    IN /\ k.at = "completing"
       /\ inspection' = [inspection EXCEPT ![k.visit].status = IF k.passed THEN "completed" ELSE @,
                                           ![k.visit].passed = k.passed]
       /\ visitorCall' = [visitorCall EXCEPT ![v].at = "filing"]
       /\ UNCHANGED <<vars, inspectionReport>>

\* The inspection is closed; a second call may close it again.
UpdateInspection(v) ==
    LET k == visitorCall[v]
    IN /\ k.at = "completing"
       /\ inspection' = [inspection EXCEPT ![k.visit].status = "completed",
                                           ![k.visit].passed = k.passed]
       /\ visitorCall' = [visitorCall EXCEPT ![v].at = "filing"]
       /\ UNCHANGED <<vars, inspectionReport>>

\* The insert of the report; inspection_id is UNIQUE, so a second one fails
\* and ends the call (AbortVisitor).
SaveReport(v) ==
    LET k == visitorCall[v]
    IN /\ k.at = "filing"
       /\ inspectionReport[k.visit] = None
       /\ inspectionReport' = [inspectionReport EXCEPT ![k.visit] =
                                 [cert |-> inspection[k.visit].cert,
                                  passed |-> k.passed]]
       /\ visitorCall' = [visitorCall EXCEPT ![v].at = "marking"]
       /\ UNCHANGED <<vars, inspection>>

\* Mutant: an entry is added, from whatever status the row is in.
MarkCertification_Recorded(v) ==
    LET k == visitorCall[v]
        c == inspection[k.visit].cert
    IN /\ k.at = "marking"
       /\ certification' = [certification EXCEPT ![c].status = k.mark]
       /\ certificationEvents' =
            [certificationEvents EXCEPT ![c] =
               Append(@, [from |-> certification[c].status, to |-> k.mark,
                          number |-> None, cause |-> None])]
       /\ visitorCall' = [visitorCall EXCEPT ![v] = VisitorIdle]
       /\ UNCHANGED <<lastSeq, call, inspection, inspectionReport>>

\* certRepo.update({ id }, { currentStatus }); publishing never fails.
MarkCertification(v) ==
    LET k == visitorCall[v]
    IN /\ k.at = "marking"
       /\ certification' = [certification EXCEPT
                              ![inspection[k.visit].cert].status = k.mark]
       /\ visitorCall' = [visitorCall EXCEPT ![v] = VisitorIdle]
       /\ UNCHANGED <<certificationEvents, lastSeq, call, inspection,
                      inspectionReport>>

\* A database error, or the end of the process: the statements made stay.
AbortVisitor(v) ==
    /\ visitorCall[v].at # "idle"
    /\ visitorCall' = [visitorCall EXCEPT ![v] = VisitorIdle]
    /\ UNCHANGED <<vars, inspection, inspectionReport>>

VisitorNext ==
    \/ \E v \in Visitors, i \in Visits, c \in Certs : ScheduleInspection(v, i, c)
    \/ \E v \in Visitors, i \in Visits, p \in BOOLEAN : CompleteInspection(v, i, p)
    \/ \E v \in Visitors : UpdateInspection(v) \/ SaveReport(v)
    \/ \E v \in Visitors : MarkCertification(v) \/ AbortVisitor(v)

InspectionNext ==
    \/ Next /\ UNCHANGED inspectionVars
    \/ VisitorNext

InspectionSpec == InspectionInit /\ [][InspectionNext]_allVars

-----------------------------------------------------------------------------
(* Properties *)

InspectionTypeOK ==
    /\ TypeOK
    /\ inspection \in [Visits -> Inspection]
    /\ inspectionReport \in [Visits -> [cert : Certs, passed : BOOLEAN] \cup {None}]
    /\ visitorCall \in [Visitors -> VisitorCall]

\* The statuses the inspection rows say certification c was put in.
Inspected(c) ==
    {"INSPECTION_SCHEDULED" : i \in {j \in Visits : inspection[j].cert = c}}
      \cup {"INSPECTION_COMPLETE" :
              i \in {j \in Visits : /\ inspectionReport[j] # None
                                    /\ inspectionReport[j].cert = c}}

\* scheduleInspection and completeInspection beside applyTransition: a status
\* the ledger does not account for is the doing of an inspection on record,
\* and INSPECTION_COMPLETE that of a filed report, whatever calls interleave
\* and wherever they die.
StatusAccounted ==
    \A c \in Certs :
        certification[c].status \in
            Reached(certificationEvents[c]) \cup Inspected(c)

\* grantCertification when inspections can put any certification back in the
\* middle of the chain: a certificate still rests on laboratory results on
\* record, and on an inspection finished in the chain or by a filed report.
GrantedAfterInspectionAndLab ==
    \A c \in Certs :
        certification[c].status = "GRANTED" =>
            /\ {"LAB_TESTING", "LAB_RESULTS_RECEIVED", "UNDER_REVIEW"}
                 \subseteq Reached(certificationEvents[c])
            /\ "INSPECTION_COMPLETE" \in
                 Reached(certificationEvents[c]) \cup Inspected(c)

\* completeInspection: a report closes its inspection for good, so no
\* inspection that still looks open has a report.
ReportedIsCompleted ==
    \A i \in Visits :
        inspectionReport[i] # None => inspection[i].status = "completed"

\* What the ledger still promises when rows move without it.
BypassedLedgerSpec == Ledger!BypassedSpec
=============================================================================
