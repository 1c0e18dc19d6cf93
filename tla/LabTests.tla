------------------------------- MODULE LabTests -------------------------------
(***************************************************************************)
(* LabTestService: the rows of product.lab_test and                        *)
(* product.lab_test_result, the status of product.production_batch, and    *)
(* the calls that submit a test, record its result and upload its report.  *)
(*                                                                         *)
(* No call has a transaction and none asks what status a test or a batch   *)
(* is in: each statement is an action, calls overlap, and the process can  *)
(* end between any two of them.                                            *)
(*                                                                         *)
(* The values of a test are abstracted to the verdict validation reaches   *)
(* on them.  lab.test.submitted has no subscriber: its publication, the    *)
(* last thing a submission does, is left out.                              *)
(***************************************************************************)
EXTENDS EventBus

CONSTANTS
    Batches,   \* production batches
    Tests,     \* ids a lab test can have
    LabCalls,  \* calls on the laboratory endpoints, each made at most once
    Nothing    \* no batch, no test, no verdict

ASSUME LabAssumption ==
    /\ Nothing \notin Batches \cup Tests \cup BOOLEAN
    /\ "listener" \notin LabCalls

VARIABLES
    batchStatus,  \* production_batch.status
    test,         \* the lab_test rows
    results,      \* the lab_test_result rows, each with the call that wrote it
    reports,      \* the objects in the bucket under lab-reports/
    labCall       \* what each call is doing

labVars == <<batchStatus, test, results, reports, labCall>>

BatchStatuses == {"created", "lab_testing", "lab_passed", "lab_failed"}

Test == [status : {"absent", "submitted", "completed"}, batch : Batches \cup {Nothing},
         report : LabCalls \cup {Nothing}]

NoTest == [status |-> "absent", batch |-> Nothing, report |-> Nothing]

Result == [test : Tests, batch : Batches, passed : BOOLEAN,
           by : LabCalls \cup {"listener"}]

LabCall == [at : {"new", "markingBatch", "validated", "completing", "judging",
                  "publishing", "uploading", "linking", "over"},
            test : Tests \cup {Nothing}, passed : BOOLEAN \cup {Nothing}]

NewLabCall == [at |-> "new", test |-> Nothing, passed |-> Nothing]

\* Some tests have been submitted before, and nothing else has happened to them.
LabInit ==
    /\ test \in [Tests -> {NoTest} \cup [status : {"submitted"}, batch : Batches,
                                        report : {Nothing}]]
    /\ batchStatus = [b \in Batches |-> IF \E t \in Tests : test[t].batch = b
                                        THEN "lab_testing" ELSE "created"]
    /\ results = {}
    /\ reports = {}
    /\ labCall = [c \in LabCalls |-> NewLabCall]

Exists(t) == test[t].status # "absent"

\* Mutant: the batch gets the word of the result.
Verdict_OfResult(passed) == IF passed THEN "passed" ELSE "failed"

\* The verdict of a result; a test's batch is read with the test, once.
Verdict(passed) == IF passed THEN "lab_passed" ELSE "lab_failed"

Advance(c, stage) == labCall' = [labCall EXCEPT ![c].at = stage]

Finished == [NewLabCall EXCEPT !.at = "over"]

End(c) == labCall' = [labCall EXCEPT ![c] = Finished]

-----------------------------------------------------------------------------
(* submitLabTest *)

\* The batch is found, the test saved.
SubmitLabTest(c, t, b) ==
    /\ Serving
    /\ labCall[c].at = "new"
    /\ ~Exists(t)
    /\ test' = [test EXCEPT ![t] = [status |-> "submitted", batch |-> b,
                                    report |-> Nothing]]
    /\ labCall' = [labCall EXCEPT ![c] = [at |-> "markingBatch", test |-> t,
                                          passed |-> Nothing]]
    /\ UNCHANGED <<busVars, batchStatus, results, reports>>

MarkBatchTesting(c) ==
    /\ labCall[c].at = "markingBatch"
    /\ batchStatus' = [batchStatus EXCEPT ![test[labCall[c].test].batch] = "lab_testing"]
    /\ End(c)
    /\ UNCHANGED <<busVars, test, results, reports>>

-----------------------------------------------------------------------------
(* recordResult *)

\* The test is found and the values are validated: every declared parameter
\* present and within its bounds.  A product type that is not found has no
\* parameters, and everything passes.
Validate(c, t, passed) ==
    /\ Serving
    /\ labCall[c].at = "new"
    /\ Exists(t)
    /\ labCall' = [labCall EXCEPT ![c] = [at |-> "validated", test |-> t,
                                          passed |-> passed]]
    /\ UNCHANGED <<busVars, batchStatus, test, results, reports>>

ResultOf(c) == [test |-> labCall[c].test, batch |-> test[labCall[c].test].batch,
                passed |-> labCall[c].passed, by |-> c]

\* Mutant: the event is sent with the result, before the rows are updated.
InsertResult_AnnouncedFirst(c) ==
    /\ labCall[c].at = "validated"
    /\ results' = results \cup {ResultOf(c)}
    /\ Send("lab.test.completed",
            [event |-> c, test |-> labCall[c].test,
             batch |-> test[labCall[c].test].batch, passed |-> labCall[c].passed])
    /\ Advance(c, "completing")
    /\ UNCHANGED <<phase, handlers, committed, start, position, handled, job,
                   interruptions, batchStatus, test, reports>>

InsertResult(c) ==
    /\ labCall[c].at = "validated"
    /\ results' = results \cup {ResultOf(c)}
    /\ Advance(c, "completing")
    /\ UNCHANGED <<busVars, batchStatus, test, reports>>

CompleteTest(c) ==
    /\ labCall[c].at = "completing"
    /\ test' = [test EXCEPT ![labCall[c].test].status = "completed"]
    /\ Advance(c, "judging")
    /\ UNCHANGED <<busVars, batchStatus, results, reports>>

JudgeBatch(c) ==
    /\ labCall[c].at = "judging"
    /\ batchStatus' = [batchStatus EXCEPT
                         ![test[labCall[c].test].batch] = Verdict(labCall[c].passed)]
    /\ Advance(c, "publishing")
    /\ UNCHANGED <<busVars, test, results, reports>>

\* The event carries the test as it was found and the result as it was saved.
PublishLabTestCompleted(c) ==
    /\ labCall[c].at = "publishing"
    /\ Send("lab.test.completed",
            [event |-> c, test |-> labCall[c].test,
             batch |-> test[labCall[c].test].batch, passed |-> labCall[c].passed])
    /\ End(c)
    /\ UNCHANGED <<phase, handlers, committed, start, position, handled, job,
                   interruptions, batchStatus, test, results, reports>>

-----------------------------------------------------------------------------
(* uploadReport *)

FindTest(c, t) ==
    /\ Serving
    /\ labCall[c].at = "new"
    /\ Exists(t)
    /\ labCall' = [labCall EXCEPT ![c] = [at |-> "uploading", test |-> t,
                                          passed |-> Nothing]]
    /\ UNCHANGED <<busVars, batchStatus, test, results, reports>>

\* Mutant: the row gets the key of an object that is yet to be uploaded.
UploadReport_RowFirst(c) ==
    /\ labCall[c].at = "uploading"
    /\ test' = [test EXCEPT ![labCall[c].test].report = c]
    /\ Advance(c, "linking")
    /\ UNCHANGED <<busVars, batchStatus, results, reports>>

\* The key has a fresh uuid: an upload never writes over another one's object.
UploadReport(c) ==
    /\ labCall[c].at = "uploading"
    /\ reports' = reports \cup {c}
    /\ Advance(c, "linking")
    /\ UNCHANGED <<busVars, batchStatus, test, results>>

LinkReport(c) ==
    /\ labCall[c].at = "linking"
    /\ test' = [test EXCEPT ![labCall[c].test].report = c]
    /\ End(c)
    /\ UNCHANGED <<busVars, batchStatus, results, reports>>

-----------------------------------------------------------------------------

\* The end of the process takes the calls in flight with it.
LabCallsLost ==
    labCall' = [c \in LabCalls |-> IF labCall[c].at = "new" THEN labCall[c]
                                   ELSE Finished]

\* A statement fails, or MinIO does: the call ends where it is.
AbortLabCall(c) ==
    /\ labCall[c].at \notin {"new", "over"}
    /\ End(c)
    /\ UNCHANGED <<busVars, batchStatus, test, results, reports>>

LabNext ==
    \E c \in LabCalls :
        \/ \E t \in Tests, b \in Batches : SubmitLabTest(c, t, b)
        \/ MarkBatchTesting(c)
        \/ \E t \in Tests, passed \in BOOLEAN : Validate(c, t, passed)
        \/ InsertResult(c) \/ CompleteTest(c) \/ JudgeBatch(c)
        \/ PublishLabTestCompleted(c)
        \/ \E t \in Tests : FindTest(c, t)
        \/ UploadReport(c) \/ LinkReport(c) \/ AbortLabCall(c)

-----------------------------------------------------------------------------
(* Properties *)

\* Type invariant: rows and calls have the shape of their entities.
LabTypeOK ==
    /\ batchStatus \in [Batches -> BatchStatuses]
    /\ test \in [Tests -> Test]
    /\ results \subseteq Result
    /\ reports \subseteq LabCalls
    /\ labCall \in [LabCalls -> LabCall]

\* A completed test has a result, a batch with a verdict has a result of a test of
\* its own that says so, and a report that is linked can be streamed.
RowsSupported ==
    /\ \A t \in Tests : test[t].status = "completed" => \E r \in results : r.test = t
    /\ \A b \in Batches, passed \in BOOLEAN :
          batchStatus[b] = Verdict(passed) =>
             \E r \in results : /\ r.batch = b /\ r.passed = passed
                                /\ test[r.test].status = "completed"
    /\ \A t \in Tests : test[t].report \in reports \cup {Nothing}

\* Every message on lab.test.completed is about a result that is in the table and
\* a test that is completed: what a consumer reads there, it finds in the rows.
AnnouncedIsRecorded ==
    \A i \in DOMAIN log["lab.test.completed"] :
        LET m == log["lab.test.completed"][i]
        IN /\ test[m.test].status = "completed"
           /\ [test |-> m.test, batch |-> m.batch, passed |-> m.passed, by |-> m.event]
                 \in results

\* However calls overlap and wherever they end, what rows and messages say of the
\* outcome of a test is borne out by other rows (recordResult, uploadReport,
\* ProductProducer.publishLabTestCompleted).
OutcomesSupported == RowsSupported /\ AnnouncedIsRecorded

\* Each result is the work of one call to the endpoint, and no call leaves two:
\* the product listener, which would add one for every completed test it hears
\* of, never hears of one. (KafkaConsumerService.subscribe, ProductListener)
OneResultPerCall ==
    /\ \A r \in results : r.by \in LabCalls
    /\ \A r, s \in results : r.by = s.by => r = s
=============================================================================
