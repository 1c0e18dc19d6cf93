--------------------------- MODULE InspectionProofs ---------------------------
(***************************************************************************)
(* What is left of the chain's guarantees when InspectionService writes    *)
(* statuses beside applyTransition, for every number of inspections and of *)
(* calls on either service.                                                *)
(***************************************************************************)
EXTENDS Inspections, CertificationLedgerProofs

\* A row that exists is about a certification, and a report is filed on a
\* completed inspection only, for the certification of that inspection.
VisitsSound ==
    \A i \in Visits :
        /\ inspection[i].status = "absent" <=> inspection[i].cert = None
        /\ inspectionReport[i] # None =>
              /\ inspection[i].status = "completed"
              /\ inspectionReport[i].cert = inspection[i].cert

\* An inspection call works on an inspection that exists; the one that is
\* about to write INSPECTION_COMPLETE has filed its report, or found one.
VisitorsSound ==
    \A v \in Visitors :
        LET k == visitorCall[v]
        IN /\ k.at # "idle" =>
                 k.visit \in Visits /\ inspection[k.visit].status # "absent"
           /\ k.at \in {"completing", "filing"} =>
                 k.passed \in BOOLEAN /\ k.mark = "INSPECTION_COMPLETE"
           /\ k.at = "filing" => inspection[k.visit].status = "completed"
           /\ k.at = "marking" =>
                 \/ k.mark = "INSPECTION_SCHEDULED"
                 \/ /\ k.mark = "INSPECTION_COMPLETE"
                    /\ inspectionReport[k.visit] # None

VisitInv == InspectionTypeOK /\ CallsWellFormed /\ VisitsSound /\ VisitorsSound

-----------------------------------------------------------------------------
(* Types, inspections and reports *)

\* The initial state has no inspection and no call.
LEMMA VisitInit == InspectionInit => VisitInv
BY InitTypes, InspectionAssumption, ChainAssumption
DEF InspectionInit, VisitInv, InspectionTypeOK, VisitsSound, VisitorsSound,
    Inspection, VisitorCall, VisitorStages, VisitorIdle

\* The steps of CertificationService do not touch inspections.
LEMMA ChainKeepsVisits ==
    ASSUME VisitInv, [Next]_vars, UNCHANGED inspectionVars
    PROVE  VisitInv'
<1>1. TypeOK' /\ CallsWellFormed'
  BY NextTypes DEF VisitInv, InspectionTypeOK
<1> QED
  BY <1>1 DEF VisitInv, InspectionTypeOK, VisitsSound, VisitorsSound, inspectionVars

\* The steps of InspectionService that leave certification rows alone.
LEMMA VisitStepTypes ==
    ASSUME VisitInv, UNCHANGED vars,
           inspection' \in [Visits -> Inspection],
           inspectionReport' \in
              [Visits -> [cert : Certs, passed : BOOLEAN] \cup {None}],
           visitorCall' \in [Visitors -> VisitorCall]
    PROVE  InspectionTypeOK' /\ CallsWellFormed'
BY DEF VisitInv, InspectionTypeOK, TypeOK, CallsWellFormed, vars

\* Every step of InspectionService preserves what is said of it.
LEMMA VisitorKeepsVisits ==
    ASSUME VisitInv, VisitorNext
    PROVE  VisitInv'
<1> USE InspectionAssumption, ChainAssumption
<1>0. /\ inspection \in [Visits -> Inspection]
      /\ inspectionReport \in [Visits -> [cert : Certs, passed : BOOLEAN] \cup {None}]
      /\ visitorCall \in [Visitors -> VisitorCall]
  BY DEF VisitInv, InspectionTypeOK
<1>1. ASSUME NEW v \in Visitors, NEW i \in Visits, NEW c \in Certs,
             ScheduleInspection(v, i, c)
      PROVE  VisitInv'
  <2>1. InspectionTypeOK' /\ CallsWellFormed'
    BY <1>0, <1>1, VisitStepTypes
    DEF ScheduleInspection, Inspection, VisitorCall, VisitorStages
  <2>2. VisitsSound'
    BY <1>0, <1>1 DEF ScheduleInspection, VisitInv, VisitsSound
  <2>3. VisitorsSound'
    BY <1>0, <1>1 DEF ScheduleInspection, VisitInv, VisitorsSound
  <2> QED BY <2>1, <2>2, <2>3 DEF VisitInv
<1>2. ASSUME NEW v \in Visitors, NEW i \in Visits, NEW p \in BOOLEAN,
             CompleteInspection(v, i, p)
      PROVE  VisitInv'
  <2>1. InspectionTypeOK' /\ CallsWellFormed'
    BY <1>0, <1>2, VisitStepTypes
    DEF CompleteInspection, VisitorCall, VisitorStages
  <2>2. VisitsSound'
    BY <1>2 DEF CompleteInspection, VisitInv, VisitsSound
  <2>3. VisitorsSound'
    BY <1>0, <1>2 DEF CompleteInspection, VisitInv, VisitorsSound
  <2> QED BY <2>1, <2>2, <2>3 DEF VisitInv
<1>3. ASSUME NEW v \in Visitors, UpdateInspection(v)
      PROVE  VisitInv'
  <2>1. /\ visitorCall[v].visit \in Visits /\ visitorCall[v].passed \in BOOLEAN
        /\ inspection[visitorCall[v].visit].status # "absent"
    BY <1>3 DEF UpdateInspection, VisitInv, VisitorsSound
  <2>2. inspection' \in [Visits -> Inspection]
    BY <1>0, <1>3, <2>1 DEF UpdateInspection, Inspection
  <2>3. visitorCall' \in [Visitors -> VisitorCall]
    BY <1>0, <1>3 DEF UpdateInspection, VisitorCall, VisitorStages
  <2>4. InspectionTypeOK' /\ CallsWellFormed'
    BY <1>0, <1>3, <2>2, <2>3, VisitStepTypes DEF UpdateInspection
  <2>5. \A i \in Visits : /\ inspection'[i].cert = inspection[i].cert
                          /\ inspection'[i].status \in {inspection[i].status, "completed"}
                          /\ inspection[i].status = "absent"
                                => inspection'[i].status = "absent"
    BY <1>0, <1>3, <2>1 DEF UpdateInspection, Inspection
  <2>6. inspection'[visitorCall[v].visit].status = "completed"
    BY <1>0, <1>3, <2>1 DEF UpdateInspection, Inspection
  <2>7. VisitsSound'
    BY <1>0, <1>3, <2>5 DEF UpdateInspection, VisitInv, VisitsSound
  <2>8. VisitorsSound'
    BY <1>0, <1>3, <2>1, <2>5, <2>6
    DEF UpdateInspection, VisitInv, VisitorsSound, VisitorCall
  <2> QED BY <2>4, <2>7, <2>8 DEF VisitInv
<1>4. ASSUME NEW v \in Visitors, SaveReport(v)
      PROVE  VisitInv'
  <2>1. /\ visitorCall[v].visit \in Visits /\ visitorCall[v].passed \in BOOLEAN
        /\ inspection[visitorCall[v].visit].status = "completed"
        /\ visitorCall[v].mark = "INSPECTION_COMPLETE"
    BY <1>4 DEF SaveReport, VisitInv, VisitorsSound
  <2>2. inspection[visitorCall[v].visit].cert \in Certs
    BY <1>0, <2>1 DEF VisitInv, VisitsSound, Inspection
  <2>3. inspectionReport' \in [Visits -> [cert : Certs, passed : BOOLEAN] \cup {None}]
    BY <1>0, <1>4, <2>1, <2>2 DEF SaveReport
  <2>4. visitorCall' \in [Visitors -> VisitorCall]
    BY <1>0, <1>4 DEF SaveReport, VisitorCall, VisitorStages
  <2>5. InspectionTypeOK' /\ CallsWellFormed'
    BY <1>0, <1>4, <2>3, <2>4, VisitStepTypes DEF SaveReport
  <2>6. /\ \A i \in Visits \ {visitorCall[v].visit} :
               inspectionReport'[i] = inspectionReport[i]
        /\ inspectionReport'[visitorCall[v].visit] =
               [cert |-> inspection[visitorCall[v].visit].cert,
                passed |-> visitorCall[v].passed]
        /\ inspectionReport'[visitorCall[v].visit] # None
    BY <1>0, <1>4, <2>1, <2>2 DEF SaveReport
  <2>7. VisitsSound'
    BY <1>4, <2>1, <2>6 DEF SaveReport, VisitInv, VisitsSound
  <2>8. VisitorsSound'
    BY <1>0, <1>4, <2>1, <2>6 DEF SaveReport, VisitInv, VisitorsSound, VisitorCall
  <2> QED BY <2>5, <2>7, <2>8 DEF VisitInv
<1>5. ASSUME NEW v \in Visitors, MarkCertification(v)
      PROVE  VisitInv'
  <2>1. /\ visitorCall[v].visit \in Visits
        /\ visitorCall[v].mark \in {"INSPECTION_SCHEDULED", "INSPECTION_COMPLETE"}
        /\ inspection[visitorCall[v].visit].status # "absent"
    BY <1>5 DEF MarkCertification, VisitInv, VisitorsSound
  <2>2. inspection[visitorCall[v].visit].cert \in Certs
    BY <1>0, <2>1 DEF VisitInv, VisitsSound, Inspection
  <2> DEFINE c == inspection[visitorCall[v].visit].cert
             marked == [certification[c] EXCEPT !.status = visitorCall[v].mark]
  <2>a. certification \in [Certs -> Row]
    BY DEF VisitInv, InspectionTypeOK, TypeOK
  <2>b. marked \in Row
    BY <2>1, <2>2, <2>a DEF Row, Statuses
  <2>c. certification' = [certification EXCEPT ![c] = marked]
    BY <1>5, <2>2, <2>a DEF MarkCertification
  <2>3. certification' \in [Certs -> Row]
    BY <2>2, <2>a, <2>b, <2>c
  <2>4. visitorCall' \in [Visitors -> VisitorCall]
    BY <1>0, <1>5 DEF MarkCertification, VisitorCall, VisitorStages, VisitorIdle
  <2>5. InspectionTypeOK' /\ CallsWellFormed'
    BY <1>5, <2>3, <2>4
    DEF MarkCertification, VisitInv, InspectionTypeOK, TypeOK, CallsWellFormed
  <2>6. VisitsSound' /\ VisitorsSound'
    BY <1>0, <1>5 DEF MarkCertification, VisitInv, VisitsSound, VisitorsSound, VisitorIdle
  <2> QED BY <2>5, <2>6 DEF VisitInv
<1>6. ASSUME NEW v \in Visitors, AbortVisitor(v)
      PROVE  VisitInv'
  <2>1. InspectionTypeOK' /\ CallsWellFormed'
    BY <1>0, <1>6, VisitStepTypes
    DEF AbortVisitor, VisitorCall, VisitorStages, VisitorIdle
  <2>2. VisitsSound' /\ VisitorsSound'
    BY <1>0, <1>6 DEF AbortVisitor, VisitInv, VisitsSound, VisitorsSound, VisitorIdle
  <2> QED BY <2>1, <2>2 DEF VisitInv
<1> QED BY <1>1, <1>2, <1>3, <1>4, <1>5, <1>6 DEF VisitorNext

\* Every step of the two services together.
LEMMA VisitNext == VisitInv /\ [InspectionNext]_allVars => VisitInv'
<1>1. UNCHANGED allVars => [Next]_vars /\ UNCHANGED inspectionVars
  BY DEF allVars
<1>2. InspectionNext => \/ [Next]_vars /\ UNCHANGED inspectionVars
                        \/ VisitorNext
  BY DEF InspectionNext
<1> QED BY <1>1, <1>2, ChainKeepsVisits, VisitorKeepsVisits

\* Rows, ledger, inspections, reports and calls keep their shapes, and reports
\* and inspections agree.
THEOREM VisitsCorrect == InspectionSpec => []VisitInv
BY VisitInit, VisitNext, PTL DEF InspectionSpec

\* The type invariant of the composition.
THEOREM InspectionTypes == InspectionSpec => []InspectionTypeOK
<1>1. VisitInv => InspectionTypeOK
  BY DEF VisitInv
<1> QED BY <1>1, VisitsCorrect, PTL

\* completeInspection: no inspection that still looks open has a report.
THEOREM ReportsCloseInspections == InspectionSpec => []ReportedIsCompleted
<1>1. VisitInv => ReportedIsCompleted
  BY DEF VisitInv, VisitsSound, ReportedIsCompleted
<1> QED BY <1>1, VisitsCorrect, PTL

-----------------------------------------------------------------------------
(* Ledger and inspections together account for what rows and calls are in *)

Accounted(c) == Reached(certificationEvents[c]) \cup Inspected(c)

\* A call that passed its status check acts on a status that is accounted for.
CallsAccounted ==
    \A a \in Callers : \A c \in Certs :
        call[a].at \in {"numbering", "saving", "loaded"} /\ call[a].cert = c =>
            From(call[a].op) \in Accounted(c)

\* An entry is a transition of the chain, from a status that is accounted for.
EntriesAccounted ==
    \A c \in Certs : \A i \in 1..Len(certificationEvents[c]) :
        /\ <<certificationEvents[c][i].from, certificationEvents[c][i].to>>
             \in Transitions
        /\ certificationEvents[c][i].from \in Accounted(c)

AccountInv == StatusAccounted /\ CallsAccounted /\ EntriesAccounted

\* The steps of CertificationService leave the inspections' account as it is.
LEMMA InspectedKept ==
    ASSUME UNCHANGED inspectionVars
    PROVE  \A c : Inspected(c)' = Inspected(c)
BY DEF inspectionVars, Inspected

\* Steps that leave ledger and inspections alone: a row has the status it had
\* or is a new draft, and a call that starts has just read its row.
LEMMA AccountKept ==
    ASSUME AccountInv, certificationEvents' = certificationEvents,
           UNCHANGED inspectionVars,
           \A c \in Certs : certification'[c].status \in {"DRAFT", certification[c].status},
           \A a \in Callers : call'[a].at \in {"numbering", "saving", "loaded"} =>
              \/ call'[a].op = call[a].op /\ call'[a].cert = call[a].cert
                 /\ call[a].at \in {"numbering", "saving", "loaded"}
              \/ call'[a].cert \in Certs
                 /\ From(call'[a].op) = certification[call'[a].cert].status
    PROVE  AccountInv'
<1>1. \A c : Accounted(c)' = Accounted(c)
  BY InspectedKept DEF Accounted
<1>2. \A c : "DRAFT" \in Accounted(c)
  BY DEF Accounted, Reached
<1>3. StatusAccounted <=> \A c \in Certs : certification[c].status \in Accounted(c)
  BY DEF StatusAccounted, Accounted
<1>4. StatusAccounted' <=> \A c \in Certs : certification'[c].status \in Accounted(c)'
  BY DEF StatusAccounted, Accounted
<1>5. StatusAccounted'
  BY <1>1, <1>2, <1>3, <1>4 DEF AccountInv
<1>6. CallsAccounted'
  BY <1>1, <1>3 DEF AccountInv, CallsAccounted
<1>7. EntriesAccounted'
  BY <1>1 DEF AccountInv, EntriesAccounted
<1> QED BY <1>5, <1>6, <1>7 DEF AccountInv

\* The transaction of applyTransition: its entry starts from a status that was
\* accounted for when the call checked it, and still is.
LEMMA CommitAccounts ==
    ASSUME TypeOK, CallsWellFormed, AccountInv, NEW a \in Callers,
           CommitTransition(a), UNCHANGED inspectionVars
    PROVE  AccountInv'
<1>1. PICK c, op, e, n : /\ c = call[a].cert /\ op = call[a].op
                         /\ e = EventOf(call[a])
                         /\ n = Len(certificationEvents[c])
  OBVIOUS
<1>2. /\ op \in Ops /\ c \in Certs
      /\ e.from = From(op) /\ e.to = To(op)
  BY <1>1, CommitAppends
<1>3. /\ To(op) \in Accounted(c)'
      /\ \A d \in Certs : Accounted(d) \subseteq Accounted(d)'
  BY <1>1, CommitReaches, InspectedKept DEF Accounted
<1>4. From(op) \in Accounted(c)
  BY <1>1, <1>2 DEF AccountInv, CallsAccounted, CommitTransition
<1>5. EntriesAccounted'
  <2> SUFFICES ASSUME NEW d \in Certs, NEW i \in 1..Len(certificationEvents'[d])
               PROVE  /\ <<certificationEvents'[d][i].from,
                           certificationEvents'[d][i].to>> \in Transitions
                      /\ certificationEvents'[d][i].from \in Accounted(d)'
    BY DEF EntriesAccounted
  <2>1. \/ /\ i \in 1..Len(certificationEvents[d])
           /\ certificationEvents'[d][i] = certificationEvents[d][i]
        \/ d = c /\ certificationEvents'[d][i] = e
    BY <1>1, OldOrNew
  <2>2. CASE /\ i \in 1..Len(certificationEvents[d])
             /\ certificationEvents'[d][i] = certificationEvents[d][i]
    BY <2>2, <1>3 DEF AccountInv, EntriesAccounted
  <2>3. CASE d = c /\ certificationEvents'[d][i] = e
    BY <2>3, <1>2, <1>3, <1>4 DEF Transitions
  <2> QED BY <2>1, <2>2, <2>3
<1>6. StatusAccounted'
  <2>1. certification' = [certification EXCEPT ![c] =
           Merged(certification[c], SavedImage(call[a]), call[a].loaded)]
    BY <1>1 DEF CommitTransition
  <2>2. certification'[c].status \in {To(op), certification[c].status}
    BY <1>1, <1>2, <2>1 DEF Merged, SavedImage, TypeOK
  <2>3. \A d \in Certs \ {c} : certification'[d] = certification[d]
    BY <2>1 DEF TypeOK
  <2>4. \A d \in Certs : certification[d].status \in Accounted(d)
    BY DEF AccountInv, StatusAccounted, Accounted
  <2>5. \A d \in Certs : certification'[d].status \in Accounted(d)'
    BY <1>2, <1>3, <2>2, <2>3, <2>4
  <2> QED BY <2>5 DEF StatusAccounted, Accounted
<1>7. CallsAccounted'
  <2>1. /\ call' = [call EXCEPT ![a] = Committed(call[a])]
        /\ Committed(call[a]).at \notin {"numbering", "saving", "loaded"}
    BY DEF CommitTransition, Committed, NextStage, Idle
  <2>2. \A b \in Callers : call'[b].at \in {"numbering", "saving", "loaded"} =>
                             call'[b] = call[b]
    BY <2>1 DEF TypeOK
  <2> QED BY <1>3, <2>2 DEF AccountInv, CallsAccounted
<1> QED BY <1>5, <1>6, <1>7 DEF AccountInv

\* The steps of CertificationService preserve the account.
LEMMA ChainKeepsAccount ==
    ASSUME TypeOK, CallsWellFormed, AccountInv, [Next]_vars, UNCHANGED inspectionVars
    PROVE  AccountInv'
<1>1. CASE UNCHANGED vars
  BY <1>1, AccountKept DEF vars
<1>2. ASSUME NEW c \in Certs, NEW b \in Batches, RequestCertification(c, b)
      PROVE  AccountInv'
  BY <1>2, AccountKept DEF RequestCertification, NewDraft, TypeOK
<1>3. ASSUME NEW r \in Requests, NEW c \in Certs, StartCall(r, c)
      PROVE  AccountInv'
  <2>1. PICK op \in Ops, stage \in {"numbering", "saving"} : Start(r, c, op, stage)
    BY <1>3, StartCallIsStart
  <2> QED BY <2>1, AccountKept DEF Start, TypeOK
<1>4. ASSUME NEW r \in Requests, NEW k \in Counters, GenerateCertificationNumber(r, k)
      PROVE  AccountInv'
  BY <1>4, AccountKept DEF GenerateCertificationNumber, TypeOK, Call
<1>5. ASSUME NEW e \in LabEvents, HandleLabTestCompleted(e)
      PROVE  AccountInv'
  BY <1>5, AccountKept DEF HandleLabTestCompleted, TypeOK, Call
<1>6. ASSUME NEW c \in Certs, ReceiveLabResults(c)
      PROVE  AccountInv'
  BY <1>6, AccountKept DEF ReceiveLabResults, AwaitsLab, TypeOK
<1>7. CASE SkipLabResults
  BY <1>7, AccountKept DEF SkipLabResults, TypeOK, Idle
<1>8. ASSUME NEW a \in Callers, LoadForSave(a)
      PROVE  AccountInv'
  BY <1>8, AccountKept DEF LoadForSave, TypeOK, Call
<1>9. ASSUME NEW a \in Callers, CommitTransition(a)
      PROVE  AccountInv'
  BY <1>9, CommitAccounts
<1>10. ASSUME NEW a \in Callers, Abort(a)
       PROVE  AccountInv'
  BY <1>10, AccountKept DEF Abort, TypeOK, Idle
<1>11. ASSUME NEW r \in Requests, CallQrService(r)
       PROVE  AccountInv'
  BY <1>11, AccountKept DEF CallQrService, TypeOK, Call
<1>12. ASSUME NEW r \in Requests, Announce(r)
       PROVE  AccountInv'
  BY <1>12, AccountKept DEF Announce, TypeOK, Idle
<1>13. ASSUME NEW r \in Requests, NEW d \in Certs, CreateSuccessor(r, d)
       PROVE  AccountInv'
  BY <1>13, AccountKept DEF CreateSuccessor, NewDraft, TypeOK, Call
<1> QED
  BY <1>1, <1>2, <1>3, <1>4, <1>5, <1>6, <1>7, <1>8, <1>9, <1>10, <1>11, <1>12, <1>13
  DEF Next

\* The steps of InspectionService leave ledger, counters and calls of
\* CertificationService alone, and of the rows all but the status.
LEMMA VisitorFrame ==
    ASSUME VisitInv, VisitorNext
    PROVE  /\ UNCHANGED <<certificationEvents, lastSeq, call>>
           /\ \A c \in Certs :
                 /\ certification'[c].number = certification[c].number
                 /\ certification'[c].renewedFrom = certification[c].renewedFrom
<1>1. ASSUME NEW v \in Visitors, MarkCertification(v)
      PROVE  /\ UNCHANGED <<certificationEvents, lastSeq, call>>
             /\ \A c \in Certs :
                   /\ certification'[c].number = certification[c].number
                   /\ certification'[c].renewedFrom = certification[c].renewedFrom
  BY <1>1 DEF MarkCertification, VisitInv, InspectionTypeOK, TypeOK, Row
<1> QED
  BY <1>1 DEF VisitorNext, ScheduleInspection, CompleteInspection, UpdateInspection,
     SaveReport, AbortVisitor, vars

\* No inspection and no report is ever taken back.
LEMMA InspectedGrows ==
    ASSUME VisitInv, VisitorNext
    PROVE  \A c \in Certs : Inspected(c) \subseteq Inspected(c)'
<1> USE InspectionAssumption, ChainAssumption
<1>1. /\ inspection \in [Visits -> Inspection]
      /\ inspectionReport \in [Visits -> [cert : Certs, passed : BOOLEAN] \cup {None}]
      /\ \A i \in Visits : inspection[i].status = "absent" => inspection[i].cert = None
  BY DEF VisitInv, InspectionTypeOK, VisitsSound
<1>2. /\ \A i \in Visits : \A c \in Certs : inspection[i].cert = c => inspection'[i].cert = c
      /\ \A i \in Visits : inspectionReport[i] # None =>
                             inspectionReport'[i] = inspectionReport[i]
  <2>1. ASSUME NEW v \in Visitors, NEW i \in Visits, NEW c \in Certs,
               ScheduleInspection(v, i, c)
        PROVE  <1>2!:
    BY <1>1, <2>1 DEF ScheduleInspection
  <2>2. ASSUME NEW v \in Visitors, UpdateInspection(v)
        PROVE  <1>2!:
    BY <1>1, <2>2 DEF UpdateInspection, Inspection
  <2>3. ASSUME NEW v \in Visitors, SaveReport(v)
        PROVE  <1>2!:
    BY <1>1, <2>3 DEF SaveReport
  <2>4. ASSUME inspection' = inspection, inspectionReport' = inspectionReport
        PROVE  <1>2!:
    BY <2>4
  <2> QED
    BY <2>1, <2>2, <2>3, <2>4
    DEF VisitorNext, CompleteInspection, MarkCertification, AbortVisitor
<1> SUFFICES ASSUME NEW c \in Certs, NEW s \in Inspected(c)
             PROVE  s \in Inspected(c)'
  OBVIOUS
<1>3. CASE s = "INSPECTION_SCHEDULED" /\ \E i \in Visits : inspection[i].cert = c
  BY <1>2, <1>3 DEF Inspected
<1>4. CASE /\ s = "INSPECTION_COMPLETE"
           /\ \E i \in Visits : inspectionReport[i] # None /\ inspectionReport[i].cert = c
  BY <1>2, <1>4 DEF Inspected
<1> QED BY <1>3, <1>4 DEF Inspected

\* A status an inspection call writes is one its inspection or report
\* accounts for.
LEMMA MarksAreAccounted ==
    ASSUME VisitInv, NEW v \in Visitors, MarkCertification(v)
    PROVE  \A c \in Certs :
              certification'[c].status \in {certification[c].status} \cup Inspected(c)
<1>1. PICK i, c : i = visitorCall[v].visit /\ c = inspection[i].cert
  OBVIOUS
<1>2. /\ i \in Visits /\ inspection[i].status # "absent"
      /\ \/ visitorCall[v].mark = "INSPECTION_SCHEDULED"
         \/ visitorCall[v].mark = "INSPECTION_COMPLETE" /\ inspectionReport[i] # None
  BY <1>1 DEF MarkCertification, VisitInv, VisitorsSound
<1>3. inspectionReport[i] # None => inspectionReport[i].cert = c
  BY <1>1, <1>2 DEF VisitInv, VisitsSound
<1>4. visitorCall[v].mark \in Inspected(c)
  BY <1>1, <1>2, <1>3 DEF Inspected
<1>5. certification' = [certification EXCEPT ![c].status = visitorCall[v].mark]
  BY <1>1 DEF MarkCertification
<1> QED
  BY <1>4, <1>5 DEF VisitInv, InspectionTypeOK, TypeOK, Row

\* The steps of InspectionService preserve the account.
LEMMA VisitorKeepsAccount ==
    ASSUME VisitInv, AccountInv, VisitorNext
    PROVE  AccountInv'
<1>1. certificationEvents' = certificationEvents /\ call' = call
  BY VisitorFrame
<1>2. \A c \in Certs : Inspected(c) \subseteq Inspected(c)'
  BY InspectedGrows
<1>3. \A c \in Certs : Accounted(c) \subseteq Accounted(c)'
  BY <1>1, <1>2 DEF Accounted
<1>4. \A c \in Certs :
        certification'[c].status \in {certification[c].status} \cup Inspected(c)
  BY MarksAreAccounted
  DEF VisitorNext, ScheduleInspection, CompleteInspection, UpdateInspection,
      SaveReport, AbortVisitor, vars
<1>5. StatusAccounted'
  BY <1>1, <1>2, <1>4 DEF AccountInv, StatusAccounted
<1>6. CallsAccounted'
  BY <1>1, <1>3 DEF AccountInv, CallsAccounted
<1>7. EntriesAccounted'
  BY <1>1, <1>3 DEF AccountInv, EntriesAccounted
<1> QED BY <1>5, <1>6, <1>7 DEF AccountInv

\* Every step of the two services together preserves the account.
LEMMA AccountNext == VisitInv /\ AccountInv /\ [InspectionNext]_allVars => AccountInv'
<1>1. UNCHANGED allVars => [Next]_vars /\ UNCHANGED inspectionVars
  BY DEF allVars
<1>2. InspectionNext => \/ [Next]_vars /\ UNCHANGED inspectionVars
                        \/ VisitorNext
  BY DEF InspectionNext
<1>3. VisitInv => TypeOK /\ CallsWellFormed
  BY DEF VisitInv, InspectionTypeOK
<1> QED BY <1>1, <1>2, <1>3, ChainKeepsAccount, VisitorKeepsAccount

\* Ledger and inspections account for rows, calls and entries.
LEMMA AccountSound == InspectionSpec => []AccountInv
<1>1. InspectionInit => AccountInv
  BY DEF InspectionInit, Init, AccountInv, StatusAccounted, CallsAccounted,
     EntriesAccounted, Reached, NoRow, Idle
<1> QED BY <1>1, AccountNext, VisitsCorrect, PTL DEF InspectionSpec

\* scheduleInspection and completeInspection beside applyTransition: a status
\* the ledger does not account for is the doing of an inspection on record.
THEOREM StatusesAreAccounted == InspectionSpec => []StatusAccounted
<1>1. AccountInv => StatusAccounted
  BY DEF AccountInv
<1> QED BY <1>1, AccountSound, PTL

\* A status on record that is not DRAFT comes from one that is accounted for.
LEMMA PredecessorAccounted ==
    ASSUME AccountInv, NEW c \in Certs,
           NEW s \in Reached(certificationEvents[c]), s # "DRAFT"
    PROVE  \E op \in Ops : s = To(op) /\ From(op) \in Accounted(c)
<1>1. PICK i \in 1..Len(certificationEvents[c]) : certificationEvents[c][i].to = s
  BY DEF Reached
<1>2. /\ <<certificationEvents[c][i].from, certificationEvents[c][i].to>> \in Transitions
      /\ certificationEvents[c][i].from \in Accounted(c)
  BY DEF AccountInv, EntriesAccounted
<1>3. PICK op \in Ops :
        <<certificationEvents[c][i].from, certificationEvents[c][i].to>>
          = <<From(op), To(op)>>
  BY <1>2 DEF Transitions
<1> QED BY <1>1, <1>2, <1>3

\* Inspections only put a certification in two statuses, neither of which is
\* after the laboratory; going back from GRANTED along the chain, each entry
\* is therefore on record until the inspection.
LEMMA GrantNeedsLab == AccountInv => GrantedAfterInspectionAndLab
<1> SUFFICES ASSUME AccountInv, NEW c \in Certs, certification[c].status = "GRANTED"
             PROVE  /\ {"LAB_TESTING", "LAB_RESULTS_RECEIVED", "UNDER_REVIEW"}
                          \subseteq Reached(certificationEvents[c])
                    /\ "INSPECTION_COMPLETE" \in Accounted(c)
  BY DEF GrantedAfterInspectionAndLab, Accounted
<1>1. PICK R, V : R = Reached(certificationEvents[c]) /\ V = Accounted(c)
  OBVIOUS
<1>2. \A s \in V : s \in R \/ s \in {"INSPECTION_SCHEDULED", "INSPECTION_COMPLETE"}
  BY <1>1 DEF Accounted, Inspected
<1>3. \A s \in R \ {"DRAFT"} : \E op \in Ops : s = To(op) /\ From(op) \in V
  BY <1>1, PredecessorAccounted
<1>4. "GRANTED" \in V
  BY <1>1 DEF AccountInv, StatusAccounted, Accounted
<1>5. "UNDER_REVIEW" \in V
  BY <1>2, <1>3, <1>4, ChainIsALine
<1>6. "LAB_RESULTS_RECEIVED" \in V
  BY <1>2, <1>3, <1>5, ChainIsALine
<1>7. "LAB_TESTING" \in V
  BY <1>2, <1>3, <1>6, ChainIsALine
<1>8. "INSPECTION_COMPLETE" \in V
  BY <1>2, <1>3, <1>7, ChainIsALine
<1> QED BY <1>1, <1>2, <1>5, <1>6, <1>7, <1>8

\* grantCertification: a certificate rests on laboratory results on record,
\* and on an inspection finished in the chain or by a filed report.
THEOREM GrantsRestOnInspectionAndLab == InspectionSpec => []GrantedAfterInspectionAndLab
BY GrantNeedsLab, AccountSound, PTL

-----------------------------------------------------------------------------
(* Numbers, messages and the ledger do not depend on the status of rows *)

LedgerSideInv ==
    LabInv /\ NumberInv /\ NumbersNeverReused /\ LabEventOnce /\ RowInv /\ SuccessorInv

\* The steps of InspectionService change nothing the invariants on numbers,
\* laboratory messages and announcements look at.
LEMMA VisitorKeepsLedgerSide ==
    ASSUME VisitInv, LedgerSideInv, VisitorNext
    PROVE  LedgerSideInv'
<1>1. /\ certificationEvents' = certificationEvents /\ lastSeq' = lastSeq /\ call' = call
      /\ \A c \in Certs : /\ certification'[c].number = certification[c].number
                          /\ certification'[c].renewedFrom = certification[c].renewedFrom
  BY VisitorFrame
<1>2. LabInv'
  BY <1>1 DEF LedgerSideInv, LabInv, IsEventProcessed
<1>3. NumberInv'
  BY <1>1, NumbersKept DEF LedgerSideInv, PendingGrant
<1>4. NumbersNeverReused' /\ LabEventOnce'
  BY <1>1 DEF LedgerSideInv, NumbersNeverReused, LabEventOnce
<1>5. RowInv'
  BY <1>1, RowsKept DEF LedgerSideInv, PendingGrant
<1>6. SuccessorInv'
  <2>1. TypeOK /\ TypeOK'
    BY VisitorKeepsVisits DEF VisitInv, InspectionTypeOK
  <2>2. \A r \in Requests : call[r].at = "successor" => call[r].op = "renewCertification"
    BY DEF LedgerSideInv, SuccessorInv
  <2> QED BY <1>1, <2>1, <2>2, SuccessorsKept DEF LedgerSideInv
<1> QED BY <1>2, <1>3, <1>4, <1>5, <1>6 DEF LedgerSideInv

\* Every step of the two services together preserves these invariants.
LEMMA LedgerSideNext ==
    VisitInv /\ LedgerSideInv /\ [InspectionNext]_allVars => LedgerSideInv'
<1>1. [InspectionNext]_allVars => [Next]_vars \/ VisitorNext
  BY DEF InspectionNext, allVars
<1>2. VisitInv /\ LedgerSideInv /\ [Next]_vars => LedgerSideInv'
  BY LabNext, NumberNext, NumbersUniqueNext, LabUniqueNext, RowsNext, SuccessorsNext
  DEF VisitInv, InspectionTypeOK, LedgerSideInv
<1> QED BY <1>1, <1>2, VisitorKeepsLedgerSide

\* The invariants on numbers, messages and announcements hold of the composition.
LEMMA LedgerSideSound == InspectionSpec => []LedgerSideInv
<1>1. InspectionInit => LedgerSideInv
  BY LabInit, SuccessorsInit, ChainAssumption
  DEF InspectionInit, Init, LedgerSideInv, NumberInv, Recorded, RecordedFor,
      PendingGrant, Idle, Number, NumbersNeverReused, LabEventOnce, RowInv,
      RowNumberExplained, SnapshotsExplained, AnnouncedIsCommitted, NoRow, Callers
<1> QED BY <1>1, LedgerSideNext, VisitsCorrect, PTL DEF InspectionSpec

\* Numbers, laboratory messages and announcements beside inspections: each
\* number and each message still counts once, the number on a row is on record
\* for it, what is announced is on record, and so are as many renewals as there
\* are successors.
THEOREM KeptBesideInspections ==
    InspectionSpec => [](/\ NumbersNeverReused /\ LabEventOnce
                         /\ RowNumberExplained /\ AnnouncedIsCommitted
                         /\ SuccessorsExplained)
<1>1. VisitInv /\ LedgerSideInv =>
         /\ NumbersNeverReused /\ LabEventOnce
         /\ RowNumberExplained /\ AnnouncedIsCommitted
         /\ SuccessorsExplained
  BY SuccessorsBounded DEF LedgerSideInv, RowInv, VisitInv, InspectionTypeOK
<1> QED BY <1>1, LedgerSideSound, VisitsCorrect, PTL

\* Whatever inspections write on the rows, the ledger keeps what is left of
\* its promise: append-only, transitions of the chain only, each number and
\* each laboratory message once.
THEOREM BypassedLedgerRefines == InspectionSpec => BypassedLedgerSpec
<1>1. InspectionInit => Ledger!Init
  BY DEF InspectionInit, Init, Ledger!Init
<1>2. ASSUME VisitInv, LedgerSideInv, NEW a \in Callers, CommitTransition(a)
      PROVE  Ledger!BypassedNext
  <2>1. PICK c \in Certs, op \in Ops : \E n, m : Appended(c, op, n, m)
    BY <1>2, CommitEntry DEF VisitInv, InspectionTypeOK, LedgerSideInv
  <2>2. PICK n, m : Appended(c, op, n, m)
    BY <2>1
  <2>3. op \in Ledger!Ops
    BY SameVocabulary
  <2> QED BY <2>2, <2>3 DEF Appended, Ledger!BypassedNext
<1>3. VisitInv /\ LedgerSideInv /\ [InspectionNext]_allVars
        => [Ledger!BypassedNext]_certificationEvents
  <2>1. [InspectionNext]_allVars => [Next]_vars \/ VisitorNext
    BY DEF InspectionNext, allVars
  <2> QED BY <2>1, <1>2, OnlyCommitsWriteLedger, VisitorFrame
<1> QED
  BY <1>1, <1>3, VisitsCorrect, LedgerSideSound, PTL
  DEF InspectionSpec, BypassedLedgerSpec, Ledger!BypassedSpec
=============================================================================
