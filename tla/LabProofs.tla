------------------------------- MODULE LabProofs -------------------------------
(***************************************************************************)
(* Laboratory tests and the bus, for any number of calls, tests, batches,  *)
(* messages and interruptions: rows and verdicts are supported by results, *)
(* a message says what is in the rows, the offsets of the group never pass *)
(* a message that it had to handle, and an event is notified again only    *)
(* for another copy of its message or another round of reading.  Last, the *)
(* consumer implements ConsumerGroup.                                      *)
(***************************************************************************)
EXTENDS EventProofs, FiniteSetTheorems

-----------------------------------------------------------------------------
(* What the steps are *)

LEMMA StepsOfTheLaboratory ==
    ASSUME ListenersInv, [Next]_vars
    PROVE  \/ LabNext
           \/ UNCHANGED labVars
           \/ LabCallsLost /\ UNCHANGED <<batchStatus, test, results, reports>>
<1> USE DEF labVars
<1>1. CASE UNCHANGED vars
  BY <1>1 DEF vars
<1>2. CASE Handle
  <2>1. handlers[job.topic] # "product"
    BY <1>2 DEF Handle, ListenersInv
  <2>2. QED
    BY <1>2, <2>1 DEF Handle, ProductListener, HandledBy
<1>3. CASE EndOfProcess
  BY <1>3 DEF EndOfProcess
<1>4. CASE LabStep
  BY <1>4 DEF LabStep, RequestLab
<1>5. CASE CoopStep
  BY <1>5 DEF CoopStep
<1>6. QED
  BY <1>1, <1>2, <1>3, <1>4, <1>5 DEF Next, Consumer

-----------------------------------------------------------------------------
(* Tests and their results *)

\* What a call in flight carries, and what it has behind it.
LabCarries(c) ==
    LET call == labCall[c]
    IN /\ call.at \notin {"new", "over"} => call.test \in Tests /\ Exists(call.test)
       /\ call.at \in {"validated", "completing", "judging", "publishing"} =>
              call.passed \in BOOLEAN
       /\ call.at \in {"completing", "judging", "publishing"} => ResultOf(c) \in results
       /\ call.at \in {"judging", "publishing"} => test[call.test].status = "completed"
       /\ call.at = "linking" => c \in reports
       /\ call.at \in {"new", "validated"} => \A r \in results : r.by # c

\* A test that exists has a batch and keeps it, and a result has both.
RowsFit ==
    /\ \A t \in Tests : Exists(t) => test[t].batch \in Batches
    /\ \A r \in results : /\ Exists(r.test) /\ r.batch = test[r.test].batch
                          /\ r.by \in LabCalls

LabInv ==
    /\ LabTypeOK /\ RowsFit /\ RowsSupported /\ OneResultPerCall
    /\ \A c \in LabCalls : LabCarries(c)

\* Tests keep their batch and, once completed, their status.
TestsKept ==
    \A t \in Tests : Exists(t) =>
        /\ Exists(t)' /\ test'[t].batch = test[t].batch
        /\ test[t].status = "completed" => test'[t].status = "completed"

LEMMA VerdictsDiffer ==
    /\ \A p, q \in BOOLEAN : Verdict(p) = Verdict(q) => p = q
    /\ \A p \in BOOLEAN : Verdict(p) \in {"lab_passed", "lab_failed"}
BY DEF Verdict

\* A step of the call c keeps what the other calls carry.
LEMMA OneLabCall ==
    ASSUME LabInv, NEW c \in LabCalls, TestsKept, results \subseteq results',
           \A r \in results' : r \in results \/ r.by = c,
           reports \subseteq reports',
           \A d \in LabCalls : d # c => labCall'[d] = labCall[d],
           NEW d \in LabCalls, d # c
    PROVE  LabCarries(d)'
<1>1. labCall'[d] = labCall[d] /\ LabCarries(d)
  BY DEF LabInv
<1>2. labCall[d].at \notin {"new", "over"} => ResultOf(d)' = ResultOf(d)
  BY <1>1 DEF LabCarries, ResultOf, TestsKept
<1>3. QED
  BY <1>1, <1>2 DEF LabCarries, TestsKept

\* A step of the call c that only moves it, or ends it.
LEMMA StagedLabCall ==
    ASSUME LabInv, NEW c \in LabCalls,
           NEW stage \in {"completing", "judging", "publishing", "linking"},
           Advance(c, stage)
    PROVE  /\ labCall' \in [LabCalls -> LabCall]
           /\ \A d \in LabCalls : d # c => labCall'[d] = labCall[d]
           /\ labCall'[c].at = stage /\ labCall'[c].test = labCall[c].test
           /\ labCall'[c].passed = labCall[c].passed
BY DEF LabInv, LabTypeOK, LabCall, Advance

LEMMA EndedLabCall ==
    ASSUME LabInv, NEW c \in LabCalls, End(c)
    PROVE  /\ labCall' \in [LabCalls -> LabCall]
           /\ \A d \in LabCalls : d # c => labCall'[d] = labCall[d]
           /\ labCall'[c].at = "over" /\ LabCarries(c)'
<1>1. Finished = [at |-> "over", test |-> Nothing, passed |-> Nothing]
  BY DEF Finished, NewLabCall
<1>2. Finished \in LabCall
  BY <1>1 DEF LabCall
<1>3. QED
  BY <1>1, <1>2 DEF End, LabInv, LabTypeOK, LabCarries

\* Results stay supported where only rows of other tests and batches change.
LEMMA SameOutcomes ==
    ASSUME LabInv, TestsKept, UNCHANGED <<batchStatus, results>>, reports \subseteq reports',
           \A t \in Tests : /\ test'[t].status = "completed" => test[t].status = "completed"
                            /\ test'[t].report \in {test[t].report} \cup reports' \cup {Nothing},
           \A t \in Tests : Exists(t)' => test'[t].batch \in Batches
    PROVE  RowsFit' /\ RowsSupported' /\ OneResultPerCall'
<1>1. RowsFit'
  BY DEF LabInv, LabTypeOK, RowsFit, TestsKept, Result
<1>2. \A t \in Tests : test[t].status = "completed" => test'[t].status = "completed"
  BY DEF TestsKept, Exists
<1>3. RowsSupported'
  <2>1. \A t \in Tests : test'[t].status = "completed" => \E r \in results' : r.test = t
    BY DEF LabInv, RowsSupported
  <2>2. ASSUME NEW b \in Batches, NEW passed \in BOOLEAN, batchStatus'[b] = Verdict(passed)
        PROVE  \E r \in results' : /\ r.batch = b /\ r.passed = passed
                                    /\ test'[r.test].status = "completed"
    <3>1. PICK r \in results : /\ r.batch = b /\ r.passed = passed
                                /\ test[r.test].status = "completed"
      BY <2>2 DEF LabInv, RowsSupported
    <3>2. r.test \in Tests
      BY <3>1 DEF LabInv, LabTypeOK, Result
    <3>3. QED
      BY <3>1, <3>2, <1>2
  <2>3. \A t \in Tests : test'[t].report \in reports' \cup {Nothing}
    BY DEF LabInv, RowsSupported
  <2>4. QED
    BY <2>1, <2>2, <2>3 DEF RowsSupported
<1>4. QED
  BY <1>1, <1>3 DEF LabInv, OneResultPerCall

\* A step that leaves the rows of the tests as they are.
LEMMA SameTests ==
    ASSUME LabInv, UNCHANGED test
    PROVE  TestsKept
BY DEF TestsKept, Exists

\* A call begins: on a test that is there, or with one it has just saved.
LEMMA BegunLabCall ==
    ASSUME LabInv, NEW c \in LabCalls, NEW t \in Tests,
           NEW stage \in {"markingBatch", "validated", "uploading"},
           NEW passed \in BOOLEAN \cup {Nothing},
           labCall[c].at = "new",
           labCall' = [labCall EXCEPT ![c] = [at |-> stage, test |-> t, passed |-> passed]],
           stage = "validated" => passed \in BOOLEAN,
           Exists(t)', UNCHANGED results
    PROVE  /\ labCall' \in [LabCalls -> LabCall]
           /\ \A d \in LabCalls : d # c => labCall'[d] = labCall[d]
           /\ LabCarries(c)'
<1>1. [at |-> stage, test |-> t, passed |-> passed] \in LabCall
  BY DEF LabCall
<1>2. labCall'[c] = [at |-> stage, test |-> t, passed |-> passed]
  BY DEF LabInv, LabTypeOK
<1>3. \A r \in results' : r.by # c
  BY DEF LabInv, LabCarries
<1>4. QED
  BY <1>1, <1>2, <1>3 DEF LabInv, LabTypeOK, LabCarries

LEMMA LabStepKeeps ==
    ASSUME LabInv, LabNext
    PROVE  LabInv' /\ TestsKept
<1> USE DEF LabTypeOK
<1>1. ASSUME NEW c \in LabCalls, NEW t \in Tests, NEW b \in Batches, SubmitLabTest(c, t, b)
      PROVE  LabInv' /\ TestsKept
  <2> DEFINE row == [status |-> "submitted", batch |-> b, report |-> Nothing]
  <2>1. /\ labCall[c].at = "new" /\ ~Exists(t)
        /\ test' = [test EXCEPT ![t] = row]
        /\ labCall' = [labCall EXCEPT ![c] = [at |-> "markingBatch", test |-> t,
                                              passed |-> Nothing]]
        /\ UNCHANGED <<batchStatus, results, reports>>
    BY <1>1 DEF SubmitLabTest
  <2>2. row \in Test
    BY DEF Test
  <2>3. /\ test' \in [Tests -> Test] /\ test'[t] = row
        /\ \A u \in Tests : u # t => test'[u] = test[u]
    BY <2>1, <2>2 DEF LabInv
  <2>4. TestsKept /\ Exists(t)'
    BY <2>1, <2>3 DEF TestsKept, Exists
  <2>5. \A u \in Tests : Exists(u)' => test'[u].batch \in Batches
    BY <2>3 DEF Exists, LabInv, RowsFit
  <2>6. RowsFit' /\ RowsSupported' /\ OneResultPerCall'
    BY <2>1, <2>3, <2>4, <2>5, SameOutcomes
  <2>7. /\ labCall' \in [LabCalls -> LabCall] /\ LabCarries(c)'
        /\ \A d \in LabCalls : d # c => labCall'[d] = labCall[d]
    BY <2>1, <2>4, BegunLabCall
  <2>8. \A d \in LabCalls : LabCarries(d)'
    BY <2>1, <2>4, <2>7, OneLabCall
  <2>9. QED
    BY <2>1, <2>3, <2>4, <2>6, <2>7, <2>8 DEF LabInv
<1>2. ASSUME NEW c \in LabCalls, MarkBatchTesting(c)
      PROVE  LabInv' /\ TestsKept
  <2> DEFINE b == test[labCall[c].test].batch
  <2>1. /\ labCall[c].at = "markingBatch" /\ End(c)
        /\ batchStatus' = [batchStatus EXCEPT ![b] = "lab_testing"]
        /\ UNCHANGED <<test, results, reports>>
    BY <1>2 DEF MarkBatchTesting
  <2>2. b \in Batches
    BY <2>1 DEF LabInv, LabCarries, RowsFit
  <2>3. batchStatus' \in [Batches -> BatchStatuses]
    BY <2>1 DEF LabInv, BatchStatuses
  <2>4. \A a \in Batches, passed \in BOOLEAN :
           batchStatus'[a] = Verdict(passed) => batchStatus[a] = Verdict(passed)
    BY <2>1, <2>2, VerdictsDiffer DEF LabInv
  <2>5. TestsKept
    BY <2>1, SameTests
  <2>6. RowsFit' /\ RowsSupported' /\ OneResultPerCall'
    BY <2>1, <2>4 DEF LabInv, RowsFit, RowsSupported, OneResultPerCall, Exists
  <2>7. /\ labCall' \in [LabCalls -> LabCall] /\ LabCarries(c)'
        /\ \A d \in LabCalls : d # c => labCall'[d] = labCall[d]
    BY <2>1, EndedLabCall
  <2>8. \A d \in LabCalls : LabCarries(d)'
    BY <2>1, <2>5, <2>7, OneLabCall
  <2>9. QED
    BY <2>1, <2>3, <2>5, <2>6, <2>7, <2>8 DEF LabInv
<1>3. ASSUME NEW c \in LabCalls, NEW t \in Tests, NEW passed \in BOOLEAN \cup {Nothing},
             NEW stage \in {"validated", "uploading"},
             labCall[c].at = "new", Exists(t),
             labCall' = [labCall EXCEPT ![c] = [at |-> stage, test |-> t, passed |-> passed]],
             stage = "validated" => passed \in BOOLEAN,
             UNCHANGED <<batchStatus, test, results, reports>>
      PROVE  LabInv' /\ TestsKept
  <2>1. TestsKept /\ Exists(t)'
    BY <1>3, SameTests DEF Exists
  <2>2. RowsFit' /\ RowsSupported' /\ OneResultPerCall'
    BY <1>3 DEF LabInv, RowsFit, RowsSupported, OneResultPerCall, Exists
  <2>3. /\ labCall' \in [LabCalls -> LabCall] /\ LabCarries(c)'
        /\ \A d \in LabCalls : d # c => labCall'[d] = labCall[d]
    BY <1>3, <2>1, BegunLabCall
  <2>4. \A d \in LabCalls : LabCarries(d)'
    BY <1>3, <2>1, <2>3, OneLabCall
  <2>5. QED
    BY <1>3, <2>1, <2>2, <2>3, <2>4 DEF LabInv
<1>4. ASSUME NEW c \in LabCalls, NEW t \in Tests, NEW passed \in BOOLEAN, Validate(c, t, passed)
      PROVE  LabInv' /\ TestsKept
  BY <1>3, <1>4 DEF Validate
<1>5. ASSUME NEW c \in LabCalls, NEW t \in Tests, FindTest(c, t)
      PROVE  LabInv' /\ TestsKept
  BY <1>3, <1>5 DEF FindTest
<1>6. ASSUME NEW c \in LabCalls, InsertResult(c)
      PROVE  LabInv' /\ TestsKept
  <2>1. /\ labCall[c].at = "validated" /\ Advance(c, "completing")
        /\ results' = results \cup {ResultOf(c)}
        /\ UNCHANGED <<batchStatus, test, reports>>
    BY <1>6 DEF InsertResult
  <2>2. /\ labCall[c].test \in Tests /\ Exists(labCall[c].test)
        /\ labCall[c].passed \in BOOLEAN /\ \A r \in results : r.by # c
        /\ test[labCall[c].test].batch \in Batches
    BY <2>1 DEF LabInv, LabCarries, RowsFit
  <2>3. /\ ResultOf(c) \in Result /\ ResultOf(c).by = c
        /\ ResultOf(c).test = labCall[c].test
        /\ ResultOf(c).batch = test[labCall[c].test].batch
    BY <2>2 DEF ResultOf, Result
  <2>4. TestsKept
    BY <2>1, SameTests
  <2>5. RowsFit'
    BY <2>1, <2>2, <2>3 DEF LabInv, RowsFit, Exists
  <2>6. OneResultPerCall'
    BY <2>1, <2>2, <2>3 DEF LabInv, OneResultPerCall
  <2>7. RowsSupported'
    BY <2>1 DEF LabInv, RowsSupported
  <2>8. /\ labCall' \in [LabCalls -> LabCall]
        /\ \A d \in LabCalls : d # c => labCall'[d] = labCall[d]
        /\ labCall'[c].at = "completing" /\ labCall'[c].test = labCall[c].test
        /\ labCall'[c].passed = labCall[c].passed
    BY <2>1, StagedLabCall
  <2>9. ResultOf(c)' = ResultOf(c)
    BY <2>1, <2>8 DEF ResultOf
  <2>10. LabCarries(c)'
    BY <2>1, <2>2, <2>8, <2>9 DEF LabCarries, Exists
  <2>11. \A d \in LabCalls : LabCarries(d)'
    BY <2>1, <2>3, <2>4, <2>8, <2>10, OneLabCall
  <2>12. QED
    BY <2>1, <2>3, <2>4, <2>5, <2>6, <2>7, <2>8, <2>11 DEF LabInv
<1>7. ASSUME NEW c \in LabCalls, CompleteTest(c)
      PROVE  LabInv' /\ TestsKept
  <2> DEFINE t == labCall[c].test
  <2>1. /\ labCall[c].at = "completing" /\ Advance(c, "judging")
        /\ test' = [test EXCEPT ![t].status = "completed"]
        /\ UNCHANGED <<batchStatus, results, reports>>
    BY <1>7 DEF CompleteTest
  <2>2. /\ t \in Tests /\ Exists(t) /\ labCall[c].passed \in BOOLEAN /\ ResultOf(c) \in results
        /\ test[t].batch \in Batches /\ test[t] \in Test
    BY <2>1 DEF LabInv, LabCarries, RowsFit
  <2>3. /\ test' \in [Tests -> Test] /\ test'[t].status = "completed"
        /\ test'[t].batch = test[t].batch /\ test'[t].report = test[t].report
        /\ \A u \in Tests : u # t => test'[u] = test[u]
    BY <2>1, <2>2 DEF LabInv, Test
  <2>4. TestsKept
    BY <2>3 DEF TestsKept, Exists
  <2>5. RowsFit' /\ OneResultPerCall'
    BY <2>1, <2>2, <2>3, <2>4 DEF LabInv, RowsFit, OneResultPerCall, Exists, Result, TestsKept
  <2>6. RowsSupported'
    <3>1. ResultOf(c).test = t
      BY DEF ResultOf
    <3>2. \A u \in Tests : test'[u].status = "completed" => \E r \in results' : r.test = u
      BY <2>1, <2>2, <2>3, <3>1 DEF LabInv, RowsSupported
    <3>3. \A u \in Tests : test[u].status = "completed" => test'[u].status = "completed"
      BY <2>3
    <3>4. \A r \in results : r.test \in Tests
      BY DEF LabInv, Result
    <3>5. \A b \in Batches, passed \in BOOLEAN :
             batchStatus'[b] = Verdict(passed) =>
                \E r \in results' : /\ r.batch = b /\ r.passed = passed
                                    /\ test'[r.test].status = "completed"
      BY <2>1, <3>3, <3>4 DEF LabInv, RowsSupported
    <3>6. \A u \in Tests : test'[u].report \in reports' \cup {Nothing}
      BY <2>1, <2>3 DEF LabInv, RowsSupported
    <3>7. QED
      BY <3>2, <3>5, <3>6 DEF RowsSupported
  <2>7. /\ labCall' \in [LabCalls -> LabCall]
        /\ \A d \in LabCalls : d # c => labCall'[d] = labCall[d]
        /\ labCall'[c].at = "judging" /\ labCall'[c].test = t
        /\ labCall'[c].passed = labCall[c].passed
    BY <2>1, StagedLabCall
  <2>8. ResultOf(c)' = ResultOf(c)
    BY <2>3, <2>7 DEF ResultOf
  <2>9. LabCarries(c)'
    BY <2>1, <2>2, <2>3, <2>7, <2>8 DEF LabCarries, Exists
  <2>10. \A d \in LabCalls : LabCarries(d)'
    BY <2>1, <2>4, <2>7, <2>9, OneLabCall
  <2>11. QED
    BY <2>1, <2>3, <2>4, <2>5, <2>6, <2>7, <2>10 DEF LabInv
<1>8. ASSUME NEW c \in LabCalls, JudgeBatch(c)
      PROVE  LabInv' /\ TestsKept
  <2> DEFINE b == test[labCall[c].test].batch
  <2>1. /\ labCall[c].at = "judging" /\ Advance(c, "publishing")
        /\ batchStatus' = [batchStatus EXCEPT ![b] = Verdict(labCall[c].passed)]
        /\ UNCHANGED <<test, results, reports>>
    BY <1>8 DEF JudgeBatch
  <2>2. /\ labCall[c].test \in Tests /\ Exists(labCall[c].test)
        /\ labCall[c].passed \in BOOLEAN /\ ResultOf(c) \in results
        /\ test[labCall[c].test].status = "completed" /\ b \in Batches
    BY <2>1 DEF LabInv, LabCarries, RowsFit
  <2>3. /\ ResultOf(c).test = labCall[c].test /\ ResultOf(c).batch = b
        /\ ResultOf(c).passed = labCall[c].passed
    BY DEF ResultOf
  <2>4. batchStatus' \in [Batches -> BatchStatuses]
    BY <2>1, <2>2, VerdictsDiffer DEF LabInv, BatchStatuses
  <2>5. \A a \in Batches, passed \in BOOLEAN :
           batchStatus'[a] = Verdict(passed) =>
              \/ batchStatus[a] = Verdict(passed)
              \/ a = b /\ passed = labCall[c].passed
    BY <2>1, <2>2, VerdictsDiffer DEF LabInv
  <2>6. TestsKept
    BY <2>1, SameTests
  <2>7. RowsFit' /\ OneResultPerCall'
    BY <2>1 DEF LabInv, RowsFit, OneResultPerCall, Exists
  <2>8. RowsSupported'
    BY <2>1, <2>2, <2>3, <2>5 DEF LabInv, RowsSupported
  <2>9. /\ labCall' \in [LabCalls -> LabCall]
        /\ \A d \in LabCalls : d # c => labCall'[d] = labCall[d]
        /\ labCall'[c].at = "publishing" /\ labCall'[c].test = labCall[c].test
        /\ labCall'[c].passed = labCall[c].passed
    BY <2>1, StagedLabCall
  <2>10. ResultOf(c)' = ResultOf(c)
    BY <2>1, <2>9 DEF ResultOf
  <2>11. LabCarries(c)'
    BY <2>1, <2>2, <2>9, <2>10 DEF LabCarries, Exists
  <2>12. \A d \in LabCalls : LabCarries(d)'
    BY <2>1, <2>6, <2>9, <2>11, OneLabCall
  <2>13. QED
    BY <2>1, <2>4, <2>6, <2>7, <2>8, <2>9, <2>12 DEF LabInv
<1>9. ASSUME NEW c \in LabCalls, UploadReport(c)
      PROVE  LabInv' /\ TestsKept
  <2>1. /\ labCall[c].at = "uploading" /\ Advance(c, "linking")
        /\ reports' = reports \cup {c}
        /\ UNCHANGED <<batchStatus, test, results>>
    BY <1>9 DEF UploadReport
  <2>2. TestsKept
    BY <2>1, SameTests
  <2>3. RowsFit' /\ RowsSupported' /\ OneResultPerCall'
    BY <2>1 DEF LabInv, RowsFit, RowsSupported, OneResultPerCall, Exists
  <2>4. /\ labCall' \in [LabCalls -> LabCall]
        /\ \A d \in LabCalls : d # c => labCall'[d] = labCall[d]
        /\ labCall'[c].at = "linking" /\ labCall'[c].test = labCall[c].test
    BY <2>1, StagedLabCall
  <2>5. LabCarries(c)'
    BY <2>1, <2>4 DEF LabInv, LabCarries, Exists
  <2>6. \A d \in LabCalls : LabCarries(d)'
    BY <2>1, <2>2, <2>4, <2>5, OneLabCall
  <2>7. QED
    BY <2>1, <2>2, <2>3, <2>4, <2>6 DEF LabInv
<1>10. ASSUME NEW c \in LabCalls, LinkReport(c)
       PROVE  LabInv' /\ TestsKept
  <2> DEFINE t == labCall[c].test
  <2>1. /\ labCall[c].at = "linking" /\ End(c)
        /\ test' = [test EXCEPT ![t].report = c]
        /\ UNCHANGED <<batchStatus, results, reports>>
    BY <1>10 DEF LinkReport
  <2>2. /\ t \in Tests /\ Exists(t) /\ c \in reports /\ test[t] \in Test
    BY <2>1 DEF LabInv, LabCarries
  <2>3. /\ test' \in [Tests -> Test] /\ test'[t].status = test[t].status
        /\ test'[t].batch = test[t].batch /\ test'[t].report = c
        /\ \A u \in Tests : u # t => test'[u] = test[u]
    BY <2>1, <2>2 DEF LabInv, Test
  <2>4. TestsKept
    BY <2>3 DEF TestsKept, Exists
  <2>5. \A u \in Tests : Exists(u)' => test'[u].batch \in Batches
    BY <2>3 DEF Exists, LabInv, RowsFit
  <2>6. RowsFit' /\ RowsSupported' /\ OneResultPerCall'
    BY <2>1, <2>2, <2>3, <2>4, <2>5, SameOutcomes
  <2>7. /\ labCall' \in [LabCalls -> LabCall] /\ LabCarries(c)'
        /\ \A d \in LabCalls : d # c => labCall'[d] = labCall[d]
    BY <2>1, EndedLabCall
  <2>8. \A d \in LabCalls : LabCarries(d)'
    BY <2>1, <2>4, <2>7, OneLabCall
  <2>9. QED
    BY <2>1, <2>3, <2>4, <2>6, <2>7, <2>8 DEF LabInv
<1>11. ASSUME NEW c \in LabCalls, PublishLabTestCompleted(c) \/ AbortLabCall(c)
       PROVE  LabInv' /\ TestsKept
  <2>1. End(c) /\ UNCHANGED <<batchStatus, test, results, reports>>
    BY <1>11 DEF PublishLabTestCompleted, AbortLabCall
  <2>2. TestsKept
    BY <2>1, SameTests
  <2>3. RowsFit' /\ RowsSupported' /\ OneResultPerCall'
    BY <2>1 DEF LabInv, RowsFit, RowsSupported, OneResultPerCall, Exists
  <2>4. /\ labCall' \in [LabCalls -> LabCall] /\ LabCarries(c)'
        /\ \A d \in LabCalls : d # c => labCall'[d] = labCall[d]
    BY <2>1, EndedLabCall
  <2>5. \A d \in LabCalls : LabCarries(d)'
    BY <2>1, <2>2, <2>4, OneLabCall
  <2>6. QED
    BY <2>1, <2>2, <2>3, <2>4, <2>5 DEF LabInv
<1>12. QED
  BY <1>1, <1>2, <1>4, <1>5, <1>6, <1>7, <1>8, <1>9, <1>10, <1>11 DEF LabNext

LEMMA LabStays ==
    ASSUME LabInv, ListenersInv, [Next]_vars
    PROVE  LabInv' /\ TestsKept
<1>1. CASE LabNext
  BY <1>1, LabStepKeeps
<1>2. CASE UNCHANGED labVars
  <2>1. LabTypeOK' /\ RowsFit' /\ RowsSupported' /\ OneResultPerCall' /\ TestsKept
    BY <1>2, SameTests DEF labVars, LabInv, LabTypeOK, RowsFit, RowsSupported,
       OneResultPerCall, Exists
  <2>2. \A c \in LabCalls : LabCarries(c)'
    BY <1>2 DEF labVars, LabInv, LabCarries, ResultOf, Exists
  <2>3. QED
    BY <2>1, <2>2 DEF LabInv
<1>3. CASE LabCallsLost /\ UNCHANGED <<batchStatus, test, results, reports>>
  <2>1. Finished = [at |-> "over", test |-> Nothing, passed |-> Nothing]
    BY DEF Finished, NewLabCall
  <2>2. Finished \in LabCall
    BY <2>1 DEF LabCall
  <2>3. LabTypeOK' /\ RowsFit' /\ RowsSupported' /\ OneResultPerCall' /\ TestsKept
    BY <1>3, <2>2, SameTests DEF LabInv, LabTypeOK, RowsFit, RowsSupported,
       OneResultPerCall, Exists, LabCallsLost
  <2>4. ASSUME NEW c \in LabCalls
        PROVE  LabCarries(c)'
    <3>1. CASE labCall[c].at = "new"
      BY <1>3, <3>1 DEF LabCallsLost, LabInv, LabCarries
    <3>2. CASE labCall[c].at # "new"
      BY <1>3, <2>1, <3>2 DEF LabCallsLost, LabCarries
    <3>3. QED
      BY <3>1, <3>2
  <2>5. QED
    BY <2>3, <2>4 DEF LabInv
<1>4. QED
  BY <1>1, <1>2, <1>3, StepsOfTheLaboratory

LEMMA LabStarts == Init => LabInv
<1> SUFFICES ASSUME Init PROVE LabInv
  OBVIOUS
<1>1. /\ test \in [Tests -> {NoTest} \cup [status : {"submitted"}, batch : Batches,
                                          report : {Nothing}]]
      /\ batchStatus = [b \in Batches |-> IF \E t \in Tests : test[t].batch = b
                                          THEN "lab_testing" ELSE "created"]
      /\ results = {} /\ reports = {} /\ labCall = [c \in LabCalls |-> NewLabCall]
  BY DEF Init, LabInit
<1>2. ASSUME NEW t \in Tests
      PROVE  /\ test[t] \in Test /\ test[t].report = Nothing
             /\ Exists(t) => test[t].batch \in Batches
             /\ test[t].status # "completed"
  BY <1>1 DEF NoTest, Test, Exists
<1>3. batchStatus \in [Batches -> BatchStatuses]
      /\ \A b \in Batches : batchStatus[b] \notin {"lab_passed", "lab_failed"}
  BY <1>1 DEF BatchStatuses
<1>4. NewLabCall \in LabCall /\ NewLabCall.at = "new"
  BY DEF NewLabCall, LabCall
<1>5. LabTypeOK
  BY <1>1, <1>2, <1>3, <1>4 DEF LabTypeOK
<1>6. RowsFit /\ RowsSupported /\ OneResultPerCall
  BY <1>1, <1>2, <1>3, VerdictsDiffer DEF RowsFit, RowsSupported, OneResultPerCall
<1>7. QED
  BY <1>1, <1>4, <1>5, <1>6 DEF LabInv, LabCarries

LEMMA LabHolds == Spec => [](LabInv /\ ListenersInv)
<1>1. LabInv /\ ListenersInv /\ [Next]_vars => LabInv'
  BY LabStays
<1>2. QED
  BY <1>1, LabStarts, ListenersHold, PTL DEF Spec

\* No call leaves two results, and no listener any: ProductListener never has
\* the topic (KafkaConsumerService.subscribe, recordResult).
THEOREM ResultsAreOnePerCall == Spec => []OneResultPerCall
<1>1. LabInv => OneResultPerCall
  BY DEF LabInv
<1>2. QED
  BY <1>1, LabHolds, PTL

-----------------------------------------------------------------------------
(* The messages *)

\* What a message on a topic looks like.
MessageOn(t) == IF t = LabTopic THEN LabMessage ELSE CoopMessage

LogTyped ==
    /\ DOMAIN log = Topics
    /\ \A t \in Topics : log[t] \in Seq(MessageOn(t))

\* What AnnouncedIsRecorded says of one message.
Recorded(m) ==
    /\ test[m.test].status = "completed"
    /\ [test |-> m.test, batch |-> m.batch, passed |-> m.passed, by |-> m.event] \in results

LogInv == LogTyped /\ AnnouncedIsRecorded

\* What Send adds to a topic are copies of the message, if anything.
LEMMA SendAdds ==
    ASSUME LogTyped, NEW t \in Topics, NEW m \in MessageOn(t), Send(t, m)
    PROVE  /\ LogTyped'
           /\ \A u \in Topics : u # t => log'[u] = log[u]
           /\ \A i \in DOMAIN log'[t] : \/ i \in DOMAIN log[t] /\ log'[t][i] = log[t][i]
                                       \/ log'[t][i] = m
           /\ Len(log'[t]) >= Len(log[t])
<1>1. PICK copies \in {<<>>, <<m>>, <<m, m>>} : log' = [log EXCEPT ![t] = @ \o copies]
  BY DEF Send
<1>2. copies \in Seq(MessageOn(t)) /\ \A i \in 1..Len(copies) : copies[i] = m
  <2> DEFINE S == MessageOn(t)
  <2>1. m \in S
    OBVIOUS
  <2> HIDE DEF S
  <2>2. ASSUME copies = <<>>
        PROVE  copies \in Seq(S) /\ \A i \in 1..Len(copies) : copies[i] = m
    BY <2>2
  <2>3. ASSUME copies = <<m>>
        PROVE  copies \in Seq(S) /\ \A i \in 1..Len(copies) : copies[i] = m
    BY <2>1, <2>3
  <2>4. ASSUME copies = <<m, m>>
        PROVE  copies \in Seq(S) /\ \A i \in 1..Len(copies) : copies[i] = m
    BY <2>1, <2>4
  <2>5. copies = <<>> \/ copies = <<m>> \/ copies = <<m, m>>
    BY <1>1, Zenon
  <2>6. copies \in Seq(S) /\ \A i \in 1..Len(copies) : copies[i] = m
    BY <2>2, <2>3, <2>4, <2>5, Zenon
  <2>7. QED
    BY <2>6 DEF S
<1>3. log[t] \in Seq(MessageOn(t))
  BY DEF LogTyped
<1>4. log'[t] = log[t] \o copies /\ DOMAIN log' = Topics
      /\ \A u \in Topics : u # t => log'[u] = log[u]
  BY <1>1 DEF LogTyped
<1>5. /\ log'[t] \in Seq(MessageOn(t))
      /\ Len(log'[t]) = Len(log[t]) + Len(copies)
      /\ DOMAIN log'[t] = 1..(Len(log[t]) + Len(copies))
      /\ \A i \in 1..(Len(log[t]) + Len(copies)) :
            log'[t][i] = IF i <= Len(log[t]) THEN log[t][i] ELSE copies[i - Len(log[t])]
  BY <1>2, <1>3, <1>4
<1>6. Len(log[t]) \in Nat /\ Len(copies) \in Nat /\ DOMAIN log[t] = 1..Len(log[t])
  BY <1>2, <1>3
<1>7. ASSUME NEW i \in DOMAIN log'[t]
      PROVE  \/ i \in DOMAIN log[t] /\ log'[t][i] = log[t][i]
             \/ log'[t][i] = m
  <2>1. CASE i <= Len(log[t])
    BY <1>5, <1>6, <1>7, <2>1
  <2>2. CASE ~(i <= Len(log[t]))
    <3>1. i - Len(log[t]) \in 1..Len(copies)
      BY <1>5, <1>6, <1>7, <2>2
    <3>2. QED
      BY <1>2, <1>5, <1>7, <2>2, <3>1
  <2>3. QED
    BY <2>1, <2>2
<1>8. LogTyped'
  BY <1>4, <1>5 DEF LogTyped
<1>9. Len(log'[t]) >= Len(log[t])
  BY <1>5, <1>6
<1>10. QED
  BY <1>4, <1>7, <1>8, <1>9

LEMMA LogStays ==
    ASSUME LogInv, LabInv, CoopInv, ListenersInv, [Next]_vars
    PROVE  LogInv' /\ \A t \in Topics : Len(log'[t]) >= Len(log[t])
<1> USE DEF LogInv
<1>1. ASSUME NEW m \in LabMessage, Recorded(m)
      PROVE  Recorded(m)'
  <2>1. /\ m.test \in Tests
        /\ [test |-> m.test, batch |-> m.batch, passed |-> m.passed, by |-> m.event] \in results
    BY <1>1 DEF Recorded, LabMessage
  <2>2. results \subseteq results'
    <3>1. CASE LabNext
      BY <3>1 DEF LabNext, SubmitLabTest, MarkBatchTesting, Validate, InsertResult,
         CompleteTest, JudgeBatch, PublishLabTestCompleted, FindTest, UploadReport,
         LinkReport, AbortLabCall
    <3>2. QED
      BY <3>1, StepsOfTheLaboratory DEF labVars
  <2>3. TestsKept
    BY LabStays
  <2>4. test'[m.test].status = "completed"
    BY <1>1, <2>1, <2>3 DEF Recorded, TestsKept, Exists
  <2>5. QED
    BY <2>1, <2>2, <2>4 DEF Recorded
<1>2. AnnouncedIsRecorded <=> \A i \in DOMAIN log[LabTopic] : Recorded(log[LabTopic][i])
  BY DEF AnnouncedIsRecorded, Recorded, LabTopic
<1>3. AnnouncedIsRecorded' <=> \A i \in DOMAIN log'[LabTopic] : Recorded(log[LabTopic][i])'
  BY DEF AnnouncedIsRecorded, Recorded, LabTopic
<1>4. LabTopic \in Topics /\ CoopTopics \subseteq Topics /\ LabTopic \notin CoopTopics
  BY DEF LabTopic, CoopTopics, Topics
<1>5. \A i \in DOMAIN log[LabTopic] : log[LabTopic][i] \in LabMessage
  BY <1>4 DEF LogTyped, MessageOn
<1>6. CASE UNCHANGED log
  <2>1. LogTyped'
    BY <1>6 DEF LogTyped
  <2>2. AnnouncedIsRecorded'
    BY <1>1, <1>2, <1>3, <1>5, <1>6
  <2>3. \A t \in Topics : Len(log[t]) \in Nat
    BY DEF LogTyped
  <2>4. QED
    BY <1>6, <2>1, <2>2, <2>3
<1>7. ASSUME NEW c \in LabCalls, PublishLabTestCompleted(c)
      PROVE  LogInv' /\ \A t \in Topics : Len(log'[t]) >= Len(log[t])
  <2> DEFINE m == [event |-> c, test |-> labCall[c].test,
                   batch |-> test[labCall[c].test].batch, passed |-> labCall[c].passed]
  <2>1. /\ labCall[c].test \in Tests /\ Exists(labCall[c].test)
        /\ labCall[c].passed \in BOOLEAN /\ ResultOf(c) \in results
        /\ test[labCall[c].test].status = "completed"
    BY <1>7 DEF PublishLabTestCompleted, LabInv, LabCarries
  <2>2. m \in LabMessage /\ Recorded(m)
    BY <2>1 DEF LabInv, RowsFit, LabMessage, Recorded, ResultOf
  <2>3. m \in MessageOn(LabTopic) /\ Send(LabTopic, m)
    BY <1>7, <2>2 DEF MessageOn, PublishLabTestCompleted, LabTopic
  <2>4. /\ LogTyped'
        /\ \A t \in Topics : t # LabTopic => log'[t] = log[t]
        /\ \A i \in DOMAIN log'[LabTopic] :
              \/ i \in DOMAIN log[LabTopic] /\ log'[LabTopic][i] = log[LabTopic][i]
              \/ log'[LabTopic][i] = m
        /\ Len(log'[LabTopic]) >= Len(log[LabTopic])
    <3> HIDE DEF m
    <3>1. QED
      BY <1>4, <2>3, SendAdds
  <2>5. \A i \in DOMAIN log'[LabTopic] :
           log'[LabTopic][i] \in LabMessage /\ Recorded(log'[LabTopic][i])
    <3> HIDE DEF m
    <3>1. QED
      BY <1>2, <1>5, <2>2, <2>4
  <2>6. ASSUME NEW i \in DOMAIN log'[LabTopic]
        PROVE  Recorded(log[LabTopic][i])'
    <3>1. log'[LabTopic][i] \in LabMessage /\ Recorded(log'[LabTopic][i])
      BY <2>5
    <3>2. UNCHANGED <<test, results>>
      BY <1>7 DEF PublishLabTestCompleted
    <3>3. QED
      BY <3>1, <3>2 DEF Recorded
  <2>7. \A t \in Topics : Len(log[t]) \in Nat
    BY DEF LogTyped
  <2>8. QED
    BY <1>3, <2>4, <2>6, <2>7
<1>8. ASSUME NEW k \in CoopCalls, PublishCooperative(k)
      PROVE  LogInv' /\ \A t \in Topics : Len(log'[t]) >= Len(log[t])
  <2>1. CASE coopCall[k].op \in {"register", "mapFarm"}
    BY <1>6, <1>8, <2>1 DEF PublishCooperative
  <2>2. CASE coopCall[k].op \notin {"register", "mapFarm"}
    <3> DEFINE t == TopicOf(coopCall[k].op)
               m == [event |-> k, coop |-> coopCall[k].coop]
    <3>1. coopCall[k].op \in {"verify", "deactivate"} /\ coopCall[k].coop \in Coops
      BY <1>8, <2>2 DEF PublishCooperative, CoopInv, CallCarries
    <3>2. t \in CoopTopics
      BY <3>1 DEF TopicOf, CoopTopics
    <3>3. m \in MessageOn(t)
      BY <1>4, <3>1, <3>2 DEF MessageOn, CoopMessage
    <3>4. Send(t, m)
      BY <1>8, <2>2 DEF PublishCooperative
    <3> HIDE DEF t, m
    <3>5. /\ LogTyped' /\ \A u \in Topics : u # t => log'[u] = log[u]
          /\ Len(log'[t]) >= Len(log[t])
      BY <1>4, <3>2, <3>3, <3>4, SendAdds
    <3>6. log'[LabTopic] = log[LabTopic]
      BY <1>4, <3>2, <3>5
    <3>7. AnnouncedIsRecorded'
      BY <1>1, <1>2, <1>3, <1>5, <3>6
    <3>8. \A u \in Topics : Len(log[u]) \in Nat
      BY DEF LogTyped
    <3>9. QED
      BY <3>5, <3>7, <3>8
  <2>3. QED
    BY <2>1, <2>2
<1>9. BusNext \/ Crash \/ JobMoves => UNCHANGED log
  BY DEF BusNext, Boot, Join, Resolve, Rebalance, Fetch, Commit, Crash, JobMoves
<1>10. QED
  BY <1>6, <1>7, <1>8, <1>9, StepsOfTheBus DEF BusStep, Publishing

LEMMA LogHolds == Spec => [](LogInv /\ LabInv /\ CoopInv /\ ListenersInv)
<1>1. Init => LogInv
  BY DEF Init, BusInit, LogInv, LogTyped, AnnouncedIsRecorded, Topics
<1>2. LogInv /\ LabInv /\ CoopInv /\ ListenersInv /\ [Next]_vars => LogInv'
  BY LogStays
<1>3. QED
  BY <1>1, <1>2, LabHolds, CoopHolds, PTL DEF Spec

\* Completed tests and verdicts on batches have a result of their own behind them,
\* linked reports an object, and messages on lab.test.completed a completed test
\* and a result, wherever a call ends (recordResult, which inserts, updates and then
\* publishes, and uploadReport).
THEOREM OutcomesAreSupported == Spec => []OutcomesSupported
<1>1. LabInv /\ LogInv => OutcomesSupported
  BY DEF LabInv, LogInv, OutcomesSupported
<1>2. QED
  BY <1>1, LabHolds, LogHolds, PTL

-----------------------------------------------------------------------------
(* The offsets *)

\* Between the offset the group began at and the one it reads next, every message
\* has been handled; the process has work in hand only while it consumes.
OffsetInv ==
    /\ committed \in [Topics -> Nat]
    /\ start \in [Topics -> Nat]
    /\ position \in [Topics -> Nat]
    /\ handled \in [Topics -> SUBSET Nat]
    /\ phase = "consuming" =>
           \A t \in Topics : start[t]..(position[t] - 1) \subseteq handled[t]
    /\ CommittedMeansHandled

LEMMA OffsetsStay ==
    ASSUME OffsetInv, LogInv, ListenersInv, [Next]_vars
    PROVE  OffsetInv'
<1> USE DEF OffsetInv, CommittedMeansHandled
<1>1. \A t \in Topics : Len(log[t]) \in Nat
  BY DEF LogInv, LogTyped
<1>2. CASE UNCHANGED <<phase, committed, start, position, handled>>
  BY <1>2
<1>3. CASE Boot \/ Crash \/ Rebalance
  <2>1. /\ UNCHANGED <<committed, start, handled>> /\ phase' # "consuming"
        /\ position' \in [Topics -> Nat]
    BY <1>3 DEF Boot, Crash, Rebalance
  <2>2. QED
    BY <2>1
<1>4. CASE Join
  <2>1. /\ start' \in [Topics -> Nat] /\ position' \in [Topics -> Nat]
        /\ UNCHANGED <<committed, handled>>
    BY <1>1, <1>4 DEF Join
  <2>2. ASSUME NEW t \in Topics
        PROVE  /\ start'[t]..(position'[t] - 1) \subseteq handled[t]
               /\ start'[t]..(committed[t] - 1) \subseteq handled[t]
    <3>1. CASE committed[t] = 0
      <4>1. start'[t] = Len(log[t]) + 1 /\ position'[t] = Len(log[t]) + 1
        BY <1>4, <3>1 DEF Join
      <4>2. QED
        BY <1>1, <3>1, <4>1
    <3>2. CASE committed[t] # 0
      <4>1. start'[t] = start[t] /\ position'[t] = committed[t]
        BY <1>4, <3>2 DEF Join
      <4>2. QED
        BY <4>1
    <3>3. QED
      BY <3>1, <3>2
  <2>3. QED
    BY <2>1, <2>2
<1>5. CASE Resolve
  <2> DEFINE t == job.topic
  <2>1. t \in Topics /\ phase = "consuming"
    BY <1>5 DEF Resolve, ListenersInv
  <2>2. /\ position' = [position EXCEPT ![t] = position[t] + 1]
        /\ handled' = [handled EXCEPT ![t] = handled[t] \cup {position[t]}]
        /\ UNCHANGED <<phase, committed, start>>
    BY <1>5 DEF Resolve
  <2> HIDE DEF t
  <2>3. position' \in [Topics -> Nat] /\ handled' \in [Topics -> SUBSET Nat]
    BY <2>1, <2>2
  <2>4. \A u \in Topics : handled[u] \subseteq handled'[u]
    BY <2>1, <2>2
  <2>5. ASSUME NEW u \in Topics, NEW i \in start'[u]..(position'[u] - 1)
        PROVE  i \in handled'[u]
    <3>1. CASE u # t
      BY <2>1, <2>2, <2>5, <3>1
    <3>2. CASE u = t
      <4>1. i = position[t] \/ i \in start[t]..(position[t] - 1)
        BY <2>1, <2>2, <2>5, <3>2
      <4>2. QED
        BY <2>1, <2>2, <2>4, <3>2, <4>1
    <3>3. QED
      BY <3>1, <3>2
  <2>6. QED
    BY <2>2, <2>3, <2>4, <2>5
<1>6. ASSUME NEW t \in Topics, Commit(t)
      PROVE  OffsetInv'
  <2>1. /\ committed' = [committed EXCEPT ![t] = position[t]]
        /\ UNCHANGED <<phase, start, position, handled>> /\ phase = "consuming"
    BY <1>6 DEF Commit
  <2>2. committed' \in [Topics -> Nat]
    BY <2>1
  <2>3. \A u \in Topics : start'[u]..(committed'[u] - 1) \subseteq handled'[u]
    BY <2>1
  <2>4. QED
    BY <2>1, <2>2, <2>3
<1>7. CASE \E t \in Topics : Fetch(t)
  BY <1>2, <1>7 DEF Fetch
<1>8. BusStep
  BY StepsOfTheBus
<1>9. QED
  BY <1>2, <1>3, <1>4, <1>5, <1>6, <1>7, <1>8
     DEF BusStep, BusNext, JobMoves, Publishing, RestOfBus, PublishLabTestCompleted,
         PublishCooperative

LEMMA OffsetsHold == Spec => []OffsetInv
<1>1. Init => OffsetInv
  BY DEF Init, BusInit, OffsetInv, CommittedMeansHandled
<1>2. OffsetInv /\ (LogInv /\ LabInv /\ CoopInv /\ ListenersInv) /\ [Next]_vars => OffsetInv'
  BY OffsetsStay
<1>3. QED
  BY <1>1, <1>2, LogHolds, PTL DEF Spec

\* At least once: every message from the offset the group began at has been handled
\* before the group commits past it, through ends of the process and rebalances
\* (KafkaConsumerService: offsets are resolved only when eachMessage has returned).
THEOREM CommitsFollowHandling == Spec => []CommittedMeansHandled
<1>1. OffsetInv => CommittedMeansHandled
  BY DEF OffsetInv
<1>2. QED
  BY <1>1, OffsetsHold, PTL

-----------------------------------------------------------------------------
(* Notifications *)

\* What is in hand was fetched where the consumer reads.
FetchInv ==
    /\ interruptions \in 0..MaxInterruptions
    /\ \A t \in Topics : Len(log[t]) <= MaxMessages
    /\ phase = "consuming" => \A t \in Topics : position[t] >= 1
    /\ job.at # "idle" => /\ phase = "consuming" /\ job.topic \in Topics
                          /\ position[job.topic] \in 1..Len(log[job.topic])

\* The copies of the message of e.
Places(e) == {p \in Topics \X (1..MaxMessages) :
                 p[2] <= Len(log[p[1]]) /\ log[p[1]][p[2]].event = e}

\* Those the consumer has read since it joined the group, the one in hand included
\* once its handler has been called.
Tried(e) == {p \in Places(e) :
                /\ phase = "consuming"
                /\ \/ p[2] < position[p[1]]
                   \/ /\ job.at \in {"inserting", "delivering", "done"}
                      /\ p = <<job.topic, position[job.topic]>>}

\* A handler that is called inserts one row at most.
NotifiedInv ==
    /\ NotificationTypeOK
    /\ \A e \in Events : Len(notification[e]) <= trials[e]
    /\ job.at = "inserting" => Len(notification[Current.event]) < trials[Current.event]

\* Between two interruptions a copy is handed to its handler once.
TrialInv ==
    \A e \in Events :
       trials[e] <= Cardinality(Places(e)) * interruptions + Cardinality(Tried(e))

\* What a step of any kind does to the notifications and to the bus.
LEMMA StepsOfTheNotifications ==
    ASSUME [Next]_vars
    PROVE  \/ Handle
           \/ InsertNotification \/ MarkNotification \/ AbortNotification
           \/ UNCHANGED notificationVars /\ (BusNext \/ Crash \/ Publishing)
<1>1. CASE UNCHANGED vars
  BY <1>1 DEF vars, busVars, Publishing, RestOfBus
<1>2. CASE BusNext /\ UNCHANGED <<labVars, coopVars, notificationVars, certification>>
  BY <1>2
<1>3. CASE EndOfProcess
  BY <1>3 DEF EndOfProcess
<1>4. CASE LabStep \/ CoopStep
  <2>1. UNCHANGED notificationVars
    BY <1>4 DEF LabStep, CoopStep, RequestLab
  <2>2. QED
    BY <1>4, <2>1, RequestsOnTheBus
<1>5. QED
  BY <1>1, <1>2, <1>3, <1>4 DEF Next, Consumer

\* Appending to a sequence keeps what it has.
LEMMA AppendKeeps ==
    ASSUME NEW S, NEW s \in Seq(S), NEW x \in Seq(S)
    PROVE  /\ Len(s \o x) = Len(s) + Len(x)
           /\ Len(s) \in Nat /\ Len(x) \in Nat
           /\ \A i \in 1..Len(s) : (s \o x)[i] = s[i]
OBVIOUS

\* Send keeps the messages a topic has, and its bound.
LEMMA SendKeeps ==
    ASSUME LogTyped, NEW t \in Topics, NEW m \in MessageOn(t), Send(t, m),
           NEW u \in Topics, Len(log[u]) <= MaxMessages
    PROVE  /\ Len(log'[u]) \in Nat /\ Len(log[u]) \in Nat
           /\ Len(log[u]) <= Len(log'[u]) /\ Len(log'[u]) <= MaxMessages
           /\ \A i \in 1..Len(log[u]) : log'[u][i] = log[u][i]
<1>1. PICK copies \in {<<>>, <<m>>, <<m, m>>} :
         /\ log' = [log EXCEPT ![t] = @ \o copies]
         /\ copies # <<>> => Len(log[t]) + Len(copies) <= MaxMessages
  BY DEF Send
<1>2. copies \in Seq(MessageOn(t))
  <2> DEFINE S == MessageOn(t)
  <2>1. m \in S
    OBVIOUS
  <2> HIDE DEF S
  <2>2. <<>> \in Seq(S) /\ <<m>> \in Seq(S) /\ <<m, m>> \in Seq(S)
    BY <2>1
  <2>3. QED
    BY <1>1, <2>2, Zenon DEF S
<1>3. log[t] \in Seq(MessageOn(t)) /\ log[u] \in Seq(MessageOn(u)) /\ DOMAIN log = Topics
  BY DEF LogTyped
<1>4. CASE u # t
  BY <1>1, <1>3, <1>4
<1>5. CASE u = t
  <2>1. log'[u] = log[u] \o copies
    BY <1>1, <1>3, <1>5
  <2>2. /\ Len(log'[u]) = Len(log[u]) + Len(copies)
        /\ Len(log[u]) \in Nat /\ Len(copies) \in Nat
        /\ \A i \in 1..Len(log[u]) : log'[u][i] = log[u][i]
    BY <1>2, <1>3, <1>5, <2>1, AppendKeeps
  <2>3. copies = <<>> => Len(copies) = 0
    OBVIOUS
  <2>4. QED
    BY <1>1, <1>5, <2>2, <2>3
<1>6. QED
  BY <1>4, <1>5

\* No step takes a message away, and no topic outgrows its bound.
LEMMA LogGrows ==
    ASSUME LogInv, LabInv, CoopInv, FetchInv, Publishing \/ UNCHANGED log, NEW u \in Topics
    PROVE  /\ Len(log'[u]) \in Nat /\ Len(log[u]) \in Nat
           /\ Len(log[u]) <= Len(log'[u]) /\ Len(log'[u]) <= MaxMessages
           /\ \A i \in 1..Len(log[u]) : log'[u][i] = log[u][i]
<1>0. LogTyped /\ Len(log[u]) <= MaxMessages /\ Len(log[u]) \in Nat
  BY DEF LogInv, LogTyped, FetchInv
<1>1. CASE UNCHANGED log
  BY <1>0, <1>1
<1>2. ASSUME NEW c \in LabCalls, PublishLabTestCompleted(c)
      PROVE  \E t \in Topics : \E m \in MessageOn(t) : Send(t, m)
  <2> DEFINE m == [event |-> c, test |-> labCall[c].test,
                   batch |-> test[labCall[c].test].batch, passed |-> labCall[c].passed]
  <2>1. /\ labCall[c].test \in Tests /\ Exists(labCall[c].test)
        /\ labCall[c].passed \in BOOLEAN
    BY <1>2 DEF PublishLabTestCompleted, LabInv, LabCarries
  <2>2. m \in LabMessage
    BY <2>1 DEF LabInv, RowsFit, LabMessage
  <2>3. m \in MessageOn(LabTopic) /\ Send(LabTopic, m)
    BY <1>2, <2>2 DEF MessageOn, PublishLabTestCompleted, LabTopic
  <2>4. LabTopic \in Topics
    BY DEF LabTopic, Topics
  <2> HIDE DEF m
  <2>5. QED
    BY <2>3, <2>4
<1>3. ASSUME NEW k \in CoopCalls, PublishCooperative(k)
      PROVE  UNCHANGED log \/ \E t \in Topics : \E m \in MessageOn(t) : Send(t, m)
  <2>1. CASE coopCall[k].op \in {"register", "mapFarm"}
    BY <1>3, <2>1 DEF PublishCooperative
  <2>2. CASE coopCall[k].op \notin {"register", "mapFarm"}
    <3> DEFINE t == TopicOf(coopCall[k].op)
               m == [event |-> k, coop |-> coopCall[k].coop]
    <3>1. coopCall[k].op \in {"verify", "deactivate"} /\ coopCall[k].coop \in Coops
      BY <1>3, <2>2 DEF PublishCooperative, CoopInv, CallCarries
    <3>2. t \in CoopTopics
      BY <3>1 DEF TopicOf, CoopTopics
    <3>3. m \in MessageOn(t) /\ t \in Topics
      BY <3>1, <3>2 DEF MessageOn, CoopMessage, CoopTopics, LabTopic, Topics
    <3>4. Send(t, m)
      BY <1>3, <2>2 DEF PublishCooperative
    <3> HIDE DEF t, m
    <3>5. QED
      BY <3>3, <3>4
  <2>3. QED
    BY <2>1, <2>2
<1>4. UNCHANGED log \/ \E t \in Topics : \E m \in MessageOn(t) : Send(t, m)
  BY <1>2, <1>3 DEF Publishing
<1>5. QED
  BY <1>0, <1>1, <1>4, SendKeeps

\* The event of the message in hand is one the notifications know.
LEMMA CurrentIsEvent ==
    ASSUME LogInv, FetchInv, job.at # "idle"
    PROVE  Current.event \in Events
<1>1. PICK t, i : t = job.topic /\ i = position[job.topic]
  OBVIOUS
<1>2. t \in Topics /\ i \in 1..Len(log[t]) /\ log[t] \in Seq(MessageOn(t))
  BY <1>1 DEF FetchInv, LogInv, LogTyped
<1>3. log[t][i] \in MessageOn(t)
  BY <1>2
<1>4. log[t][i].event \in LabCalls \cup CoopCalls
  BY <1>3 DEF MessageOn, LabMessage, CoopMessage
<1>5. QED
  BY <1>1, <1>4, EventsAssumption DEF Current

-----------------------------------------------------------------------------
(* What is in hand *)

LEMMA FetchStays ==
    ASSUME FetchInv, OffsetInv, LogInv, LabInv, CoopInv, ListenersInv, [Next]_vars
    PROVE  FetchInv'
<1> USE BusAssumption
<1>1. MaxInterruptions \in Nat /\ interruptions \in Nat
  BY DEF FetchInv
<1>2. CASE Boot \/ Join
  <2>1. \A t \in Topics : Len(log[t]) \in Nat /\ committed[t] \in Nat
    BY DEF LogInv, LogTyped, OffsetInv
  <2>2. /\ job.at = "idle" /\ job' = job /\ UNCHANGED <<log, interruptions>>
    BY <1>2 DEF Boot, Join, FetchInv
  <2>3. phase' = "consuming" => \A t \in Topics : position'[t] >= 1
    BY <1>2, <2>1 DEF Boot, Join
  <2>4. QED
    BY <2>2, <2>3 DEF FetchInv
<1>3. CASE Resolve
  <2>1. \A t \in Topics : position[t] \in Nat
    BY DEF OffsetInv
  <2>2. /\ job'.at = "idle" /\ UNCHANGED <<log, interruptions, phase>>
        /\ position' = [position EXCEPT ![job.topic] = @ + 1]
        /\ position \in [Topics -> Nat]
    BY <1>3 DEF Resolve, NoJob, OffsetInv
  <2>3. \A t \in Topics : position'[t] >= position[t]
    BY <2>1, <2>2
  <2>4. phase' = "consuming" => \A t \in Topics : position'[t] >= 1
    BY <2>1, <2>2, <2>3 DEF FetchInv
  <2>5. QED
    BY <2>2, <2>4 DEF FetchInv
<1>4. CASE Crash \/ Rebalance
  <2>1. /\ job'.at = "idle" /\ phase' # "consuming" /\ UNCHANGED log
        /\ interruptions' = interruptions + 1 /\ interruptions < MaxInterruptions
    BY <1>4 DEF Crash, Rebalance, NoJob
  <2>2. QED
    BY <1>1, <2>1 DEF FetchInv
<1>5. ASSUME NEW t \in Topics, Fetch(t) \/ Commit(t)
      PROVE  FetchInv'
  <2>1. CASE Commit(t)
    BY <2>1 DEF Commit, FetchInv
  <2>2. CASE Fetch(t)
    <3>1. /\ job' = [at |-> "handling", topic |-> t] /\ phase = "consuming"
          /\ position[t] <= Len(log[t])
          /\ UNCHANGED <<phase, log, position, interruptions>>
      BY <2>2 DEF Fetch
    <3>2. position[t] \in 1..Len(log[t])
      BY <3>1 DEF FetchInv, OffsetInv, LogInv, LogTyped
    <3>3. QED
      BY <3>1, <3>2 DEF FetchInv
  <2>3. QED
    BY <1>5, <2>1, <2>2
<1>6. CASE JobMoves
  <2>1. PICK stage \in Stages : job' = [job EXCEPT !.at = stage]
    BY <1>6 DEF JobMoves
  <2>2. job.at # "idle" /\ job'.topic = job.topic
    BY <1>6, <2>1 DEF JobMoves, Stages, ListenersInv
  <2>3. QED
    BY <1>6, <2>2 DEF JobMoves, FetchInv
<1>7. CASE Publishing
  <2>1. \A u \in Topics : /\ Len(log'[u]) \in Nat /\ Len(log[u]) \in Nat
                          /\ Len(log[u]) <= Len(log'[u]) /\ Len(log'[u]) <= MaxMessages
    BY <1>7, LogGrows
  <2>2. UNCHANGED <<phase, position, job, interruptions>>
    BY <1>7 DEF Publishing, RestOfBus
  <2>3. job.at # "idle" => position[job.topic] \in 1..Len(log'[job.topic])
    BY <2>1 DEF FetchInv
  <2>4. QED
    BY <2>1, <2>2, <2>3 DEF FetchInv
<1>8. QED
  BY <1>2, <1>3, <1>4, <1>5, <1>6, <1>7, StepsOfTheBus DEF BusStep, BusNext

LEMMA FetchStarts == Init => FetchInv
BY BusAssumption DEF Init, BusInit, FetchInv, NoJob

-----------------------------------------------------------------------------
(* Rows *)

\* Writing to a place of a sequence, or beside it, keeps its length.
LEMMA RowMarked ==
    ASSUME NEW S, NEW s \in Seq(S), NEW x \in S, NEW i
    PROVE  [s EXCEPT ![i] = x] \in Seq(S) /\ Len([s EXCEPT ![i] = x]) = Len(s)
<1> DEFINE marked == [s EXCEPT ![i] = x]
<1>1. Len(s) \in Nat /\ DOMAIN s = 1..Len(s) /\ \A j \in 1..Len(s) : s[j] \in S
  OBVIOUS
<1>2. DOMAIN marked = 1..Len(s)
  BY <1>1
<1>3. \A j \in 1..Len(s) : marked[j] = IF j = i THEN x ELSE s[j]
  BY <1>1
<1>4. marked = [j \in 1..Len(s) |-> marked[j]] /\ \A j \in 1..Len(s) : marked[j] \in S
  BY <1>1, <1>2, <1>3
<1> HIDE DEF marked
<1>5. marked \in [1..Len(s) -> S]
  BY <1>4
<1>6. marked \in Seq(S) /\ Len(marked) = Len(s)
  BY <1>1, <1>5
<1>7. QED
  BY <1>6 DEF marked

LEMMA NotifiedStays ==
    ASSUME NotifiedInv, FetchInv, OffsetInv, LogInv, LabInv, CoopInv, ListenersInv, [Next]_vars
    PROVE  NotifiedInv'
<1> USE DEF NotifiedInv
<1>0. /\ notification \in [Events -> Seq({"pending", "sent"})] /\ trials \in [Events -> Nat]
      /\ \A e \in Events : Len(notification[e]) \in Nat
  BY DEF NotificationTypeOK
<1>1. CASE Handle
  <2>1. PICK e, stage : /\ e = Current.event /\ stage \in {"inserting", "done"}
                        /\ job' = [job EXCEPT !.at = stage]
    BY <1>1 DEF Handle, NotificationListener, Stage
  <2>2. /\ e \in Events /\ trials' = [trials EXCEPT ![e] = @ + 1]
        /\ UNCHANGED <<log, position, notification>>
    BY <1>1, <2>1, CurrentIsEvent DEF Handle
  <2>3. job'.topic = job.topic
    BY <2>1 DEF ListenersInv
  <2>4. Current' = Current
    BY <2>2, <2>3 DEF Current
  <2>5. /\ trials' \in [Events -> Nat] /\ trials'[e] = trials[e] + 1
        /\ \A f \in Events : trials'[f] >= trials[f]
    BY <1>0, <2>2
  <2>6. \A f \in Events : Len(notification'[f]) <= trials'[f]
    BY <1>0, <2>2, <2>5
  <2>7. Len(notification'[e]) < trials'[e]
    BY <1>0, <2>2, <2>5
  <2>8. QED
    BY <1>0, <2>1, <2>2, <2>4, <2>5, <2>6, <2>7 DEF NotificationTypeOK
<1>2. CASE InsertNotification
  <2>1. PICK e : e = Current.event
    OBVIOUS
  <2>2. /\ e \in Events /\ job.at = "inserting" /\ job'.at = "delivering"
        /\ notification' = [notification EXCEPT ![e] = Append(@, "pending")]
        /\ UNCHANGED trials
    BY <1>2, <2>1, CurrentIsEvent DEF InsertNotification, Stage, ListenersInv
  <2>3. /\ notification' \in [Events -> Seq({"pending", "sent"})]
        /\ Len(notification'[e]) = Len(notification[e]) + 1
        /\ \A f \in Events : f # e => notification'[f] = notification[f]
    BY <1>0, <2>2
  <2>4. Len(notification'[e]) <= trials'[e]
    BY <1>0, <2>1, <2>2, <2>3
  <2>5. QED
    BY <2>2, <2>3, <2>4 DEF NotificationTypeOK
<1>3. CASE MarkNotification
  <2>1. PICK e, s : e = Current.event /\ s = notification[e]
    OBVIOUS
  <2>2. /\ e \in Events /\ job'.at = "done"
        /\ notification' = [notification EXCEPT ![e] = [s EXCEPT ![Len(s)] = "sent"]]
        /\ UNCHANGED trials
    BY <1>3, <2>1, CurrentIsEvent DEF MarkNotification, Stage, ListenersInv
  <2>3. /\ [s EXCEPT ![Len(s)] = "sent"] \in Seq({"pending", "sent"})
        /\ Len([s EXCEPT ![Len(s)] = "sent"]) = Len(s)
    <3> DEFINE S == {"pending", "sent"}
    <3>1. s \in Seq(S) /\ "sent" \in S
      BY <1>0, <2>1, <2>2
    <3> HIDE DEF S
    <3>2. [s EXCEPT ![Len(s)] = "sent"] \in Seq(S) /\ Len([s EXCEPT ![Len(s)] = "sent"]) = Len(s)
      BY <3>1, RowMarked
    <3>3. QED
      BY <3>2 DEF S
  <2> DEFINE marked == [s EXCEPT ![Len(s)] = "sent"]
  <2> HIDE DEF marked
  <2>4. /\ notification' \in [Events -> Seq({"pending", "sent"})]
        /\ \A f \in Events : Len(notification'[f]) = Len(notification[f])
    BY <1>0, <2>1, <2>2, <2>3 DEF marked
  <2>5. QED
    BY <2>2, <2>4 DEF NotificationTypeOK
<1>4. CASE AbortNotification
  BY <1>4 DEF AbortNotification, Stage, ListenersInv, notificationVars, NotificationTypeOK
<1>5. CASE UNCHANGED notificationVars /\ (BusNext \/ Crash \/ Publishing)
  <2>1. UNCHANGED <<notification, trials>>
    BY <1>5 DEF notificationVars
  <2>2. ASSUME job'.at = "inserting"
        PROVE  job.at = "inserting" /\ Current' = Current
    <3>1. CASE Publishing
      <4>1. UNCHANGED <<job, position>>
        BY <3>1 DEF Publishing, RestOfBus
      <4>2. job.topic \in Topics /\ position[job.topic] \in 1..Len(log[job.topic])
        BY <2>2, <4>1 DEF FetchInv
      <4>3. log'[job.topic][position[job.topic]] = log[job.topic][position[job.topic]]
        BY <3>1, <4>2, LogGrows
      <4>4. QED
        BY <2>2, <4>1, <4>3 DEF Current
    <3>2. CASE Crash \/ Resolve \/ \E t \in Topics : Fetch(t)
      BY <2>2, <3>2 DEF Crash, Resolve, Fetch, NoJob
    <3>3. CASE Boot \/ Join \/ Rebalance \/ \E t \in Topics : Commit(t)
      <4>1. job' = job
        BY <3>3 DEF Boot, Join, Rebalance, Commit
      <4>2. phase = "consuming"
        BY <2>2, <4>1 DEF FetchInv
      <4>3. UNCHANGED <<log, position>>
        BY <2>2, <3>3, <4>1, <4>2 DEF Boot, Join, Rebalance, Commit
      <4>4. QED
        BY <2>2, <4>1, <4>3 DEF Current
    <3>4. QED
      BY <1>5, <3>1, <3>2, <3>3 DEF BusNext
  <2>3. QED
    BY <2>1, <2>2 DEF NotificationTypeOK
<1>6. QED
  BY <1>1, <1>2, <1>3, <1>4, <1>5, StepsOfTheNotifications

LEMMA NotifiedStarts == Init => NotifiedInv
BY DEF Init, NotificationInit, BusInit, NoJob, NotifiedInv, NotificationTypeOK

-----------------------------------------------------------------------------
(* Trials *)

\* Copies and trials are finitely many.
LEMMA PlacesAreFinite ==
    ASSUME NEW S, S \subseteq Topics \X (1..MaxMessages)
    PROVE  IsFiniteSet(S) /\ Cardinality(S) \in Nat
<1>1. IsFiniteSet(Topics)
  <2>1. ASSUME NEW T, IsFiniteSet(T), NEW x
        PROVE  IsFiniteSet(T \cup {x})
    BY <2>1, FS_AddElement
  <2>2. IsFiniteSet({})
    BY FS_EmptySet
  <2> DEFINE T1 == {} \cup {"cooperative.registration.verified"}
             T2 == T1 \cup {"lab.test.completed"}
             T3 == T2 \cup {"cooperative.cooperative.deactivated"}
             T4 == T3 \cup {"certification.review.final-started"}
             T5 == T4 \cup {"certification.renewed"}
             T6 == T5 \cup {"certification.decision.granted"}
             T7 == T6 \cup {"certification.inspection.scheduled"}
             T8 == T7 \cup {"certification.inspection.inspector-assigned"}
  <2>3. Topics = T8
    BY DEF Topics
  <2>4. IsFiniteSet(T1)
    BY <2>1, <2>2
  <2> HIDE DEF T1
  <2>5. IsFiniteSet(T2)
    BY <2>1, <2>4
  <2> HIDE DEF T2
  <2>6. IsFiniteSet(T3)
    BY <2>1, <2>5
  <2> HIDE DEF T3
  <2>7. IsFiniteSet(T4)
    BY <2>1, <2>6
  <2> HIDE DEF T4
  <2>8. IsFiniteSet(T5)
    BY <2>1, <2>7
  <2> HIDE DEF T5
  <2>9. IsFiniteSet(T6)
    BY <2>1, <2>8
  <2> HIDE DEF T6
  <2>10. IsFiniteSet(T7)
    BY <2>1, <2>9
  <2> HIDE DEF T7
  <2>11. IsFiniteSet(T8)
    BY <2>1, <2>10
  <2>12. QED
    BY <2>3, <2>11
<1>2. IsFiniteSet(1..MaxMessages)
  BY BusAssumption, FS_Interval
<1>3. IsFiniteSet(Topics \X (1..MaxMessages))
  BY <1>1, <1>2, FS_Product
<1>4. QED
  BY <1>3, FS_Subset, FS_CardinalityType

\* What was tried of more copies, in as many rounds, is not less.
LEMMA MoreCopies ==
    ASSUME NEW a \in Nat, NEW b \in Nat, a <= b, NEW n \in Nat
    PROVE  a * n <= b * n /\ a * n \in Nat /\ b * n \in Nat
<1>1. PICK d \in Nat : b = a + d
  <2>1. b - a \in Nat /\ b = a + (b - a)
    OBVIOUS
  <2>2. QED
    BY <2>1
<1>2. b * n = a * n + d * n
  BY <1>1
<1>3. a * n \in Nat /\ d * n \in Nat /\ b * n \in Nat
  OBVIOUS
<1>4. QED
  BY <1>2, <1>3

\* Steps that call no handler and interrupt nothing.
LEMMA TrialsKept ==
    ASSUME TrialInv, FetchInv, NEW e \in Events, trials'[e] = trials[e], trials[e] \in Nat,
           interruptions' = interruptions,
           Places(e) \subseteq Places(e)', Tried(e) \subseteq Tried(e)'
    PROVE  trials'[e] <= Cardinality(Places(e)') * interruptions' + Cardinality(Tried(e)')
<1>1. PICK P, Q, T, U : P = Places(e) /\ Q = Places(e)' /\ T = Tried(e) /\ U = Tried(e)'
  OBVIOUS
<1>2. /\ P \subseteq Topics \X (1..MaxMessages) /\ Q \subseteq Topics \X (1..MaxMessages)
      /\ T \subseteq Topics \X (1..MaxMessages) /\ U \subseteq Topics \X (1..MaxMessages)
  BY <1>1 DEF Places, Tried
<1>3. /\ IsFiniteSet(Q) /\ IsFiniteSet(U)
      /\ Cardinality(P) \in Nat /\ Cardinality(Q) \in Nat
      /\ Cardinality(T) \in Nat /\ Cardinality(U) \in Nat
  BY <1>2, PlacesAreFinite
<1>4. Cardinality(P) <= Cardinality(Q) /\ Cardinality(T) <= Cardinality(U)
  BY <1>1, <1>3, FS_Subset
<1>5. PICK n \in Nat : n = interruptions
  BY BusAssumption DEF FetchInv
<1>6. /\ Cardinality(P) * n <= Cardinality(Q) * n
      /\ Cardinality(P) * n \in Nat /\ Cardinality(Q) * n \in Nat
  BY <1>3, <1>4, MoreCopies
<1>7. trials[e] <= Cardinality(P) * n + Cardinality(T)
  BY <1>1, <1>5 DEF TrialInv
<1>8. trials[e] <= Cardinality(Q) * n + Cardinality(U)
  BY <1>3, <1>4, <1>6, <1>7
<1>9. QED
  BY <1>1, <1>5, <1>8

\* An interruption begins a new round: what was tried is at most what there is.
LEMMA RoundEnds ==
    ASSUME TrialInv, FetchInv, NEW e \in Events, trials'[e] = trials[e], trials[e] \in Nat,
           interruptions' = interruptions + 1, Places(e)' = Places(e)
    PROVE  trials'[e] <= Cardinality(Places(e)') * interruptions' + Cardinality(Tried(e)')
<1>1. PICK P, T, U : P = Places(e) /\ T = Tried(e) /\ U = Tried(e)'
  OBVIOUS
<1>2. /\ P \subseteq Topics \X (1..MaxMessages) /\ U \subseteq Topics \X (1..MaxMessages)
      /\ T \subseteq P
  BY <1>1 DEF Places, Tried
<1>3. /\ IsFiniteSet(P) /\ Cardinality(P) \in Nat /\ Cardinality(U) \in Nat
  BY <1>2, PlacesAreFinite
<1>4. Cardinality(T) <= Cardinality(P) /\ Cardinality(T) \in Nat
  BY <1>2, <1>3, FS_Subset, FS_CardinalityType
<1>5. PICK n \in Nat : n = interruptions
  BY BusAssumption DEF FetchInv
<1>6. trials[e] <= Cardinality(P) * n + Cardinality(T)
  BY <1>1, <1>5 DEF TrialInv
<1>7. Cardinality(P) * (n + 1) = Cardinality(P) * n + Cardinality(P)
      /\ Cardinality(P) * n \in Nat
  BY <1>3, MoreCopies
<1>8. trials[e] <= Cardinality(P) * (n + 1) + Cardinality(U)
  BY <1>3, <1>4, <1>6, <1>7
<1>9. QED
  BY <1>1, <1>5, <1>8

\* A handler is called: one more copy has been tried.
LEMMA OneMoreTried ==
    ASSUME TrialInv, FetchInv, NEW e \in Events, trials'[e] = trials[e] + 1, trials[e] \in Nat,
           interruptions' = interruptions, Places(e)' = Places(e),
           NEW p, p \notin Tried(e), Tried(e)' = Tried(e) \cup {p}
    PROVE  trials'[e] <= Cardinality(Places(e)') * interruptions' + Cardinality(Tried(e)')
<1>1. PICK P, T, U : P = Places(e) /\ T = Tried(e) /\ U = Tried(e)'
  OBVIOUS
<1>2. P \subseteq Topics \X (1..MaxMessages) /\ T \subseteq Topics \X (1..MaxMessages)
  BY <1>1 DEF Places, Tried
<1>3. /\ IsFiniteSet(T) /\ Cardinality(P) \in Nat /\ Cardinality(T) \in Nat
  BY <1>2, PlacesAreFinite
<1>4. Cardinality(U) = Cardinality(T) + 1
  BY <1>1, <1>3, FS_AddElement
<1>5. PICK n \in Nat : n = interruptions
  BY BusAssumption DEF FetchInv
<1>6. trials[e] <= Cardinality(P) * n + Cardinality(T) /\ Cardinality(P) * n \in Nat
  BY <1>1, <1>3, <1>5, MoreCopies DEF TrialInv
<1>7. trials'[e] <= Cardinality(P) * n + Cardinality(U)
  BY <1>3, <1>4, <1>6
<1>8. QED
  BY <1>1, <1>5, <1>7

\* Messages stay where they are.
LEMMA CopiesStay ==
    ASSUME LogInv, LabInv, CoopInv, FetchInv, Publishing \/ UNCHANGED log, NEW e \in Events
    PROVE  Places(e) \subseteq Places(e)' /\ (UNCHANGED log => Places(e)' = Places(e))
<1>1. ASSUME NEW p \in Places(e)
      PROVE  p \in Places(e)'
  <2>1. /\ p \in Topics \X (1..MaxMessages) /\ p[1] \in Topics /\ p[2] \in 1..MaxMessages
        /\ p[2] <= Len(log[p[1]]) /\ log[p[1]][p[2]].event = e
    BY DEF Places
  <2>2. /\ Len(log'[p[1]]) \in Nat /\ Len(log[p[1]]) \in Nat
        /\ Len(log[p[1]]) <= Len(log'[p[1]])
        /\ \A i \in 1..Len(log[p[1]]) : log'[p[1]][i] = log[p[1]][i]
    BY <2>1, LogGrows
  <2>3. p[2] <= Len(log'[p[1]]) /\ log'[p[1]][p[2]] = log[p[1]][p[2]]
    BY <2>1, <2>2, BusAssumption
  <2>4. QED
    BY <2>1, <2>3 DEF Places
<1>2. QED
  BY <1>1 DEF Places

LEMMA TrialStays ==
    ASSUME TrialInv, NotifiedInv, FetchInv, OffsetInv, LogInv, LabInv, CoopInv, ListenersInv,
           [Next]_vars
    PROVE  TrialInv'
<1>0. /\ trials \in [Events -> Nat] /\ \A e \in Events : trials[e] \in Nat
      /\ position \in [Topics -> Nat]
  BY DEF NotifiedInv, NotificationTypeOK, OffsetInv
<1>1. CASE Handle
  <2>1. PICK e, stage : /\ e = Current.event /\ stage \in {"inserting", "done"}
                        /\ job' = [job EXCEPT !.at = stage]
    BY <1>1 DEF Handle, NotificationListener, Stage
  <2>2. /\ e \in Events /\ trials' = [trials EXCEPT ![e] = @ + 1] /\ job.at = "handling"
        /\ UNCHANGED <<phase, log, position, interruptions>>
    BY <1>1, <2>1, CurrentIsEvent DEF Handle
  <2>3. job'.topic = job.topic /\ job'.at \in {"inserting", "done"}
    BY <2>1 DEF ListenersInv
  <2>4. PICK p : p = <<job.topic, position[job.topic]>>
    OBVIOUS
  <2>5. /\ p \in Topics \X (1..MaxMessages) /\ p[1] = job.topic /\ p[2] = position[job.topic]
        /\ p[2] <= Len(log[p[1]]) /\ log[p[1]][p[2]].event = e /\ phase = "consuming"
        /\ p[2] \in Nat
    <3>1. /\ job.topic \in Topics /\ position[job.topic] \in 1..Len(log[job.topic])
          /\ Len(log[job.topic]) <= MaxMessages /\ phase = "consuming"
          /\ Len(log[job.topic]) \in Nat
      BY <2>2 DEF FetchInv, LogInv, LogTyped
    <3>2. position[job.topic] \in 1..MaxMessages
      BY <3>1, BusAssumption
    <3>3. QED
      BY <2>1, <2>4, <3>1, <3>2 DEF Current
  <2>6. \A f \in Events : Places(f)' = Places(f)
    BY <2>2 DEF Places
  <2>7. \A f \in Events : Tried(f) \subseteq Tried(f)'
    BY <2>2, <2>6 DEF Tried
  <2>8. p \notin Tried(e)
    BY <2>2, <2>5 DEF Tried
  <2>9. Tried(e)' = Tried(e) \cup {p}
    <3>1. p \in Tried(e)'
      <4>1. p \in Places(e)
        BY <2>5 DEF Places
      <4>2. p = <<job'.topic, position'[job'.topic]>>
        BY <2>2, <2>3, <2>4
      <4>3. QED
        BY <2>2, <2>3, <2>5, <2>6, <4>1, <4>2 DEF Tried
    <3>2. Tried(e)' \subseteq Tried(e) \cup {p}
      BY <2>2, <2>3, <2>4, <2>6 DEF Tried
    <3>3. QED
      BY <2>2, <2>7, <3>1, <3>2
  <2>10. trials'[e] = trials[e] + 1 /\ \A f \in Events : f # e => trials'[f] = trials[f]
    BY <1>0, <2>2
  <2>11. trials'[e] <= Cardinality(Places(e)') * interruptions' + Cardinality(Tried(e)')
    BY <1>0, <2>2, <2>6, <2>8, <2>9, <2>10, OneMoreTried
  <2>12. ASSUME NEW f \in Events, f # e
         PROVE  trials'[f] <= Cardinality(Places(f)') * interruptions' + Cardinality(Tried(f)')
    BY <1>0, <2>2, <2>6, <2>7, <2>10, <2>12, TrialsKept
  <2>13. QED
    BY <2>11, <2>12 DEF TrialInv
<1>2. CASE InsertNotification \/ MarkNotification \/ AbortNotification
  <2>1. PICK stage \in {"delivering", "done"} : job' = [job EXCEPT !.at = stage]
    BY <1>2 DEF InsertNotification, MarkNotification, AbortNotification, Stage
  <2>2. /\ UNCHANGED <<trials, phase, log, position, interruptions>>
    BY <1>2 DEF InsertNotification, MarkNotification, AbortNotification,
       NotificationUnchangedBus, notificationVars
  <2>3. job'.topic = job.topic /\ job'.at \in {"delivering", "done"}
    BY <2>1 DEF ListenersInv
  <2>4. \A f \in Events : Places(f)' = Places(f)
    BY <2>2 DEF Places
  <2>5. \A f \in Events : Tried(f) \subseteq Tried(f)'
    BY <2>2, <2>3, <2>4 DEF Tried
  <2>6. ASSUME NEW f \in Events
        PROVE  trials'[f] <= Cardinality(Places(f)') * interruptions' + Cardinality(Tried(f)')
    BY <1>0, <2>2, <2>4, <2>5, TrialsKept
  <2>7. QED
    BY <2>6 DEF TrialInv
<1>3. CASE UNCHANGED notificationVars /\ Publishing
  <2>1. UNCHANGED <<trials, phase, position, job, interruptions>>
    BY <1>3 DEF notificationVars, Publishing, RestOfBus
  <2>2. \A f \in Events : Places(f) \subseteq Places(f)'
    BY <1>3, CopiesStay
  <2>3. \A f \in Events : Tried(f) \subseteq Tried(f)'
    BY <2>1, <2>2 DEF Tried
  <2>4. ASSUME NEW f \in Events
        PROVE  trials'[f] <= Cardinality(Places(f)') * interruptions' + Cardinality(Tried(f)')
    BY <1>0, <2>1, <2>2, <2>3, TrialsKept
  <2>5. QED
    BY <2>4 DEF TrialInv
<1>4. CASE UNCHANGED notificationVars /\ (Crash \/ Rebalance)
  <2>1. UNCHANGED <<trials, log>> /\ interruptions' = interruptions + 1
    BY <1>4 DEF notificationVars, Crash, Rebalance
  <2>2. \A f \in Events : Places(f)' = Places(f)
    BY <2>1 DEF Places
  <2>3. ASSUME NEW f \in Events
        PROVE  trials'[f] <= Cardinality(Places(f)') * interruptions' + Cardinality(Tried(f)')
    BY <1>0, <2>1, <2>2, RoundEnds
  <2>4. QED
    BY <2>3 DEF TrialInv
<1>5. CASE UNCHANGED notificationVars
           /\ (Boot \/ Join \/ Resolve \/ \E t \in Topics : Fetch(t) \/ Commit(t))
  <2>1. UNCHANGED <<trials, log, interruptions>>
    BY <1>5 DEF notificationVars, Boot, Join, Resolve, Fetch, Commit
  <2>2. \A f \in Events : Places(f)' = Places(f)
    BY <2>1 DEF Places
  <2>3. CASE Boot \/ Join
    <3>1. \A f \in Events : Tried(f) = {}
      BY <2>3 DEF Tried, Boot, Join
    <3>2. QED
      BY <1>0, <2>1, <2>2, <3>1, TrialsKept DEF TrialInv
  <2>4. CASE Resolve
    <3>1. /\ position' = [position EXCEPT ![job.topic] = @ + 1] /\ phase' = phase
          /\ phase = "consuming" /\ job.topic \in Topics
      BY <2>4 DEF Resolve, FetchInv
    <3>2. /\ \A t \in Topics : position[t] \in Nat /\ position'[t] \in Nat
                               /\ position[t] <= position'[t]
          /\ position[job.topic] < position'[job.topic]
      BY <1>0, <3>1
    <3>3. ASSUME NEW f \in Events, NEW p \in Tried(f)
          PROVE  p \in Tried(f)'
      <4>1. p \in Places(f) /\ p[1] \in Topics /\ p[2] \in Nat
        BY BusAssumption DEF Tried, Places
      <4>2. p[2] < position'[p[1]]
        <5>1. CASE p[2] < position[p[1]]
          BY <3>2, <4>1, <5>1
        <5>2. CASE p = <<job.topic, position[job.topic]>>
          BY <3>2, <5>2
        <5>3. QED
          BY <5>1, <5>2 DEF Tried
      <4>3. QED
        BY <2>2, <3>1, <4>1, <4>2 DEF Tried
    <3>4. \A f \in Events : Tried(f) \subseteq Tried(f)'
      BY <3>3
    <3>5. QED
      BY <1>0, <2>1, <2>2, <3>4, TrialsKept DEF TrialInv
  <2>5. CASE \E t \in Topics : Fetch(t) \/ Commit(t)
    <3>1. UNCHANGED <<phase, position>> /\ job.at = "idle"
      BY <2>5 DEF Fetch, Commit
    <3>2. \A f \in Events : Tried(f) \subseteq Tried(f)'
      BY <2>2, <3>1 DEF Tried
    <3>3. QED
      BY <1>0, <2>1, <2>2, <3>2, TrialsKept DEF TrialInv
  <2>6. QED
    BY <1>5, <2>3, <2>4, <2>5
<1>6. QED
  BY <1>1, <1>2, <1>3, <1>4, <1>5, StepsOfTheNotifications DEF BusNext

LEMMA TrialStarts == Init => TrialInv
<1> SUFFICES ASSUME Init, NEW e \in Events
             PROVE  trials[e] <= Cardinality(Places(e)) * interruptions + Cardinality(Tried(e))
  BY DEF TrialInv
<1>1. trials[e] = 0 /\ interruptions = 0
  BY DEF Init, NotificationInit, BusInit
<1>2. Places(e) \subseteq Topics \X (1..MaxMessages) /\ Tried(e) \subseteq Topics \X (1..MaxMessages)
  BY DEF Places, Tried
<1>3. Cardinality(Places(e)) \in Nat /\ Cardinality(Tried(e)) \in Nat
  BY <1>2, PlacesAreFinite
<1>4. QED
  BY <1>1, <1>3

LEMMA TrialsHold ==
    Spec => [](TrialInv /\ NotifiedInv /\ FetchInv /\ OffsetInv /\ LogInv)
<1>1. TrialInv /\ NotifiedInv /\ FetchInv /\ OffsetInv
      /\ (LogInv /\ LabInv /\ CoopInv /\ ListenersInv) /\ [Next]_vars
      => TrialInv' /\ NotifiedInv' /\ FetchInv'
  BY TrialStays, NotifiedStays, FetchStays
<1>2. QED
  BY <1>1, TrialStarts, NotifiedStarts, FetchStarts, OffsetsHold, LogHolds, PTL DEF Spec

\* An event leads to at most as many rows as its handler was called, and to as many
\* calls as its message has copies, in every round that an end of the process or a
\* rebalance begins (NotificationService.send asks for no earlier row).
THEOREM RepeatsAreExplained == Spec => []RepeatsExplained
<1>1. ASSUME TrialInv, NotifiedInv, FetchInv
      PROVE  RepeatsExplained
  <2>1. ASSUME NEW e \in Events
        PROVE  trials[e] <= Copies(e) * (1 + interruptions)
    <3>1. PICK P, T, n, m : P = Places(e) /\ T = Tried(e) /\ n = interruptions /\ m = trials[e]
      OBVIOUS
    <3>2. P \subseteq Topics \X (1..MaxMessages) /\ T \subseteq P
      BY <3>1 DEF Places, Tried
    <3>3. /\ Cardinality(P) \in Nat /\ Cardinality(T) \in Nat
          /\ Cardinality(T) <= Cardinality(P)
      BY <3>2, PlacesAreFinite, FS_Subset
    <3>4. n \in Nat /\ m \in Nat
      BY <1>1, <3>1, BusAssumption DEF FetchInv, NotifiedInv, NotificationTypeOK
    <3>5. m <= Cardinality(P) * n + Cardinality(T)
      BY <1>1, <3>1 DEF TrialInv
    <3>6. /\ Cardinality(P) * (1 + n) = Cardinality(P) + Cardinality(P) * n
          /\ Cardinality(P) * n \in Nat
      BY <3>3, <3>4, MoreCopies
    <3>7. m <= Cardinality(P) * (1 + n)
      BY <3>3, <3>4, <3>5, <3>6
    <3>8. Copies(e) = Cardinality(P)
      BY <3>1 DEF Copies, Places
    <3>9. QED
      BY <3>1, <3>7, <3>8
  <2>2. QED
    BY <1>1, <2>1 DEF RepeatsExplained, NotifiedInv
<1>2. QED
  BY <1>1, TrialsHold, PTL

-----------------------------------------------------------------------------
(* Types *)

CertificationsFit ==
    certification \in [Batches -> {"INSPECTION_COMPLETE", "LAB_TESTING", "LAB_RESULTS_RECEIVED"}]

LEMMA CertificationsStay ==
    ASSUME CertificationsFit, [Next]_vars
    PROVE  CertificationsFit'
<1> USE DEF CertificationsFit
<1>1. CASE UNCHANGED certification
  BY <1>1
<1>2. CASE Handle
  BY <1>2 DEF Handle, CertificationListener
<1>3. ASSUME NEW b \in Batches, RequestLab(b)
      PROVE  CertificationsFit'
  BY <1>3 DEF RequestLab
<1>4. QED
  BY <1>1, <1>2, <1>3 DEF Next, Consumer, LabStep, CoopStep, EndOfProcess, vars

\* Every module's state keeps its type, whichever of them takes the step.
THEOREM PlatformTypes == Spec => []TypeOK
<1>1. Init => CertificationsFit
  BY DEF Init, CertificationsFit
<1>2. ASSUME NotifiedInv, FetchInv, OffsetInv, LogInv, LabInv, CoopInv, ListenersInv,
             CertificationsFit
      PROVE  TypeOK
  <2>1. BusTypeOK
    BY <1>2 DEF BusTypeOK, FetchInv, OffsetInv, LogInv, LogTyped, ListenersInv, Stages
  <2>2. QED
    BY <1>2, <2>1 DEF TypeOK, LabInv, CoopInv, NotifiedInv, CertificationsFit
<1>3. QED
  BY <1>1, <1>2, CertificationsStay, TrialsHold, LogHolds, PTL DEF Spec

-----------------------------------------------------------------------------
(* The consumer group *)

\* A group that has committed has gone on from where it began; the consumer reads
\* before neither of the two offsets, and never past the next message to come.
GroupInv ==
    /\ \A t \in Topics : committed[t] # 0 =>
           1 <= start[t] /\ start[t] < committed[t] /\ committed[t] <= Len(log[t]) + 1
    /\ phase = "consuming" => \A t \in Topics :
           /\ 1 <= start[t] /\ start[t] <= position[t] /\ committed[t] <= position[t]
           /\ position[t] <= Len(log[t]) + 1

LEMMA BusNumbers ==
    ASSUME OffsetInv, LogInv, NEW t \in Topics
    PROVE  committed[t] \in Nat /\ start[t] \in Nat /\ position[t] \in Nat /\ Len(log[t]) \in Nat
BY DEF OffsetInv, LogInv, LogTyped

LEMMA GroupStays ==
    ASSUME GroupInv, FetchInv, OffsetInv, LogInv, LabInv, CoopInv, ListenersInv, [Next]_vars
    PROVE  GroupInv'
<1>0. /\ committed \in [Topics -> Nat] /\ start \in [Topics -> Nat]
      /\ position \in [Topics -> Nat]
  BY DEF OffsetInv
<1>1. CASE Boot \/ Crash \/ Rebalance
  <2>1. UNCHANGED <<committed, start, log>> /\ phase' # "consuming"
    BY <1>1 DEF Boot, Crash, Rebalance
  <2>2. QED
    BY <2>1 DEF GroupInv
<1>2. CASE Join
  <2>1. /\ UNCHANGED <<committed, log>>
        /\ \A t \in Topics :
              /\ start'[t] = IF committed[t] = 0 THEN Len(log[t]) + 1 ELSE start[t]
              /\ position'[t] = IF committed[t] = 0 THEN Len(log[t]) + 1 ELSE committed[t]
    BY <1>2 DEF Join
  <2>2. ASSUME NEW t \in Topics
        PROVE  /\ committed[t] # 0 => /\ 1 <= start'[t] /\ start'[t] < committed[t]
                                      /\ committed[t] <= Len(log[t]) + 1
               /\ 1 <= start'[t] /\ start'[t] <= position'[t] /\ committed[t] <= position'[t]
               /\ position'[t] <= Len(log[t]) + 1
    <3>1. CASE committed[t] = 0
      BY <2>1, <3>1, BusNumbers
    <3>2. CASE committed[t] # 0
      BY <2>1, <3>2, BusNumbers DEF GroupInv
    <3>3. QED
      BY <3>1, <3>2
  <2>3. QED
    BY <2>1, <2>2 DEF GroupInv
<1>3. CASE Resolve
  <2>1. /\ phase = "consuming" /\ job.topic \in Topics
        /\ position[job.topic] <= Len(log[job.topic])
        /\ position' = [position EXCEPT ![job.topic] = @ + 1]
        /\ UNCHANGED <<committed, start, log, phase>>
    BY <1>3 DEF Resolve, FetchInv, LogInv, LogTyped
  <2>2. ASSUME NEW t \in Topics
        PROVE  /\ start[t] <= position'[t] /\ committed[t] <= position'[t]
               /\ position'[t] <= Len(log[t]) + 1
    <3>1. CASE t = job.topic
      <4>1. position'[t] = position[t] + 1
        BY <1>0, <2>1, <3>1
      <4>2. QED
        BY <2>1, <3>1, <4>1, BusNumbers DEF GroupInv
    <3>2. CASE t # job.topic
      <4>1. position'[t] = position[t]
        BY <1>0, <2>1, <3>2
      <4>2. QED
        BY <2>1, <4>1 DEF GroupInv
    <3>3. QED
      BY <3>1, <3>2
  <2>3. QED
    BY <2>1, <2>2 DEF GroupInv
<1>4. ASSUME NEW u \in Topics, Commit(u)
      PROVE  GroupInv'
  <2>1. /\ phase = "consuming" /\ position[u] > start[u]
        /\ committed' = [committed EXCEPT ![u] = position[u]]
        /\ UNCHANGED <<start, position, log, phase>>
    BY <1>4 DEF Commit
  <2>2. ASSUME NEW t \in Topics
        PROVE  /\ committed'[t] # 0 => /\ 1 <= start[t] /\ start[t] < committed'[t]
                                       /\ committed'[t] <= Len(log[t]) + 1
               /\ committed'[t] <= position[t]
    <3>1. CASE t = u
      <4>1. committed'[t] = position[t]
        BY <1>0, <2>1, <3>1
      <4>2. QED
        BY <2>1, <3>1, <4>1, BusNumbers DEF GroupInv
    <3>2. CASE t # u
      <4>1. committed'[t] = committed[t]
        BY <1>0, <2>1, <3>2
      <4>2. QED
        BY <2>1, <4>1 DEF GroupInv
    <3>3. QED
      BY <3>1, <3>2
  <2>3. QED
    BY <2>1, <2>2 DEF GroupInv
<1>5. CASE JobMoves \/ \E t \in Topics : Fetch(t)
  <2>1. UNCHANGED <<committed, start, position, log, phase>>
    BY <1>5 DEF JobMoves, Fetch
  <2>2. QED
    BY <2>1 DEF GroupInv
<1>6. CASE Publishing
  <2>1. UNCHANGED <<committed, start, position, phase>>
    BY <1>6 DEF Publishing, RestOfBus
  <2>2. \A t \in Topics : /\ Len(log'[t]) \in Nat /\ Len(log[t]) \in Nat
                          /\ Len(log[t]) <= Len(log'[t])
    BY <1>6, LogGrows
  <2>3. ASSUME NEW t \in Topics, NEW n \in Nat, n <= Len(log[t]) + 1
        PROVE  n <= Len(log'[t]) + 1
    BY <2>2, <2>3
  <2>4. QED
    BY <1>0, <2>1, <2>3 DEF GroupInv
<1>7. QED
  BY <1>1, <1>2, <1>3, <1>4, <1>5, <1>6, StepsOfTheBus DEF BusStep, BusNext

LEMMA GroupStarts == Init => GroupInv /\ Group!Init
BY DEF Init, BusInit, NoJob, GroupInv, Group!Init, InHand

\* What each step of the bus is to the group.
LEMMA GroupSteps ==
    ASSUME GroupInv, FetchInv, OffsetInv, LogInv, LabInv, CoopInv, ListenersInv, [Next]_vars
    PROVE  Group!Next \/ UNCHANGED Group!vars
<1> USE DEF Group!vars
<1>1. CASE Boot \/ Rebalance
  <2>1. /\ job.at = "idle" /\ job' = job
        /\ UNCHANGED <<log, committed, start, handled>>
    BY <1>1 DEF Boot, Rebalance, FetchInv
  <2>2. QED
    BY <2>1 DEF InHand
<1>2. CASE Join
  <2>1. /\ job.at = "idle" /\ job' = job
        /\ UNCHANGED <<log, committed, handled>>
    BY <1>2 DEF Join, FetchInv
  <2>2. InHand = {} /\ InHand' = {}
    BY <2>1 DEF InHand
  <2>3. Group!Begin
    BY <1>2, <2>1, <2>2 DEF Join, Group!Begin
  <2>4. QED
    BY <2>3 DEF Group!Next
<1>3. CASE Crash
  <2>1. InHand' = {} /\ UNCHANGED <<log, committed, start, handled>>
    BY <1>3 DEF Crash, InHand, NoJob
  <2>2. QED
    BY <2>1 DEF Group!Drop, Group!Next
<1>4. CASE Resolve
  <2>1. PICK t, i : t = job.topic /\ i = position[job.topic]
    OBVIOUS
  <2>2. /\ t \in Topics /\ i \in 1..Len(log[t]) /\ job.at # "idle"
        /\ handled' = [handled EXCEPT ![t] = @ \cup {i}]
        /\ UNCHANGED <<log, committed, start>>
    BY <1>4, <2>1 DEF Resolve, FetchInv
  <2>3. InHand = {<<t, i>>} /\ InHand' = {}
    BY <1>4, <2>1, <2>2 DEF Resolve, InHand, NoJob
  <2>4. Group!Finish(t, i)
    BY <2>2, <2>3 DEF Group!Finish
  <2>5. QED
    BY <2>2, <2>4 DEF Group!Next
<1>5. ASSUME NEW t \in Topics, Fetch(t)
      PROVE  Group!Next \/ UNCHANGED Group!vars
  <2>1. PICK i : i = position[t]
    OBVIOUS
  <2>2. /\ phase = "consuming" /\ job.at = "idle" /\ i <= Len(log[t])
        /\ job' = [at |-> "handling", topic |-> t]
        /\ UNCHANGED <<log, committed, start, handled, position>>
    BY <1>5, <2>1 DEF Fetch
  <2>3. InHand = {} /\ InHand' = {<<t, i>>}
    BY <2>1, <2>2 DEF InHand
  <2>4. /\ i \in 1..Len(log[t]) /\ i >= start[t] /\ i >= committed[t]
    BY <2>1, <2>2, BusNumbers DEF GroupInv
  <2>5. start[t]..(i - 1) \subseteq handled[t]
    BY <2>1, <2>2 DEF OffsetInv
  <2>6. Group!Take(t, i)
    BY <2>2, <2>3, <2>4, <2>5 DEF Group!Take, Group!HandledUpTo
  <2>7. QED
    BY <2>4, <2>6 DEF Group!Next
<1>6. ASSUME NEW t \in Topics, Commit(t)
      PROVE  Group!Next \/ UNCHANGED Group!vars
  <2>1. PICK i \in Int : position[t] = i + 1
    <3>1. position[t] - 1 \in Int /\ position[t] = (position[t] - 1) + 1
      BY BusNumbers
    <3>2. QED
      BY <3>1
  <2>2. /\ phase = "consuming" /\ job.at = "idle"
        /\ position[t] > committed[t] /\ position[t] > start[t]
        /\ committed' = [committed EXCEPT ![t] = i + 1]
        /\ UNCHANGED <<log, start, handled, job>>
    BY <1>6, <2>1 DEF Commit
  <2>3. InHand = {} /\ InHand' = {}
    BY <2>2 DEF InHand
  <2>4. i \in 1..Len(log[t]) /\ i >= start[t] /\ i >= committed[t]
    BY <2>1, <2>2, BusNumbers DEF GroupInv
  <2>5. start[t]..i \subseteq handled[t]
    <3>1. start[t]..(position[t] - 1) \subseteq handled[t] /\ position[t] - 1 = i
      BY <2>1, <2>2 DEF OffsetInv
    <3>2. QED
      BY <3>1
  <2>6. Group!CommitUpTo(t, i)
    BY <2>2, <2>3, <2>4, <2>5 DEF Group!CommitUpTo, Group!HandledUpTo
  <2>7. QED
    BY <2>4, <2>6 DEF Group!Next
<1>7. CASE JobMoves
  <2>1. /\ job.at # "idle" /\ job'.at # "idle" /\ job'.topic = job.topic
        /\ UNCHANGED <<log, committed, start, handled, position>>
    BY <1>7 DEF JobMoves, Stages, ListenersInv
  <2>2. QED
    BY <2>1 DEF InHand
<1>8. CASE Publishing
  <2>1. UNCHANGED <<committed, start, handled, job, position>>
    BY <1>8 DEF Publishing, RestOfBus
  <2>2. \A t \in Topics : Group!Extends(log'[t], log[t])
    BY <1>8, LogGrows DEF Group!Extends
  <2>3. Group!Publish
    BY <2>1, <2>2 DEF Group!Publish, InHand
  <2>4. QED
    BY <2>3 DEF Group!Next
<1>9. QED
  BY <1>1, <1>2, <1>3, <1>4, <1>5, <1>6, <1>7, <1>8, StepsOfTheBus DEF BusStep, BusNext

\* KafkaConsumerService and kafkajs implement ConsumerGroup: whoever publishes, crashes
\* or rebalances, messages are taken one by one and in order, from what is committed on,
\* and committed forwards once they are handled.
THEOREM GroupKeepsItsPromise == Spec => GroupSpec
<1>1. GroupInv /\ FetchInv /\ OffsetInv /\ (LogInv /\ LabInv /\ CoopInv /\ ListenersInv)
      /\ [Next]_vars => GroupInv' /\ [Group!Next]_(Group!vars)
  BY GroupStays, GroupSteps
<1>2. Init => GroupInv /\ Group!Init
  BY GroupStarts
<1>3. QED
  BY <1>1, <1>2, TrialsHold, LogHolds, PTL DEF Spec, GroupSpec, Group!Spec
=============================================================================
