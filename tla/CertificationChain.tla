-------------------------- MODULE CertificationChain --------------------------
(***************************************************************************)
(* CertificationService: the rows of certification.certification, the      *)
(* append-only ledger certification_events, the number counter             *)
(* certification_seq, and the calls in flight.                             *)
(*                                                                         *)
(* Every operation reads the row, checks its status, and only then opens   *)
(* the transaction of applyTransition; nothing locks the row in between.   *)
(* The transaction inserts the ledger event and saves the entity: TypeORM  *)
(* selects the row again and updates the columns in which the entity read  *)
(* at the start of the call differs from it.  Under READ COMMITTED another *)
(* call may commit between any two of these steps, so each is an action.   *)
(*                                                                         *)
(* The lab.test.completed handler of CertificationListener runs in the one *)
(* Kafka consumer of the process; its messages may be delivered again.     *)
(* Columns no property tells apart (who, when, why, validity dates) are    *)
(* left out; the number stands for the columns a grant writes.             *)
(***************************************************************************)
EXTENDS Naturals, Sequences, FiniteSets, CertificationStates

CONSTANTS
    Certs,       \* ids a certification row can have
    Batches,     \* production batches
    Requests,    \* HTTP requests that can be in flight at once (re-used)
    Consumer,    \* the Kafka consumer, one message at a time
    LabEvents,   \* eventIds of lab.test.completed messages
    EventBatch,  \* the batch a lab event is about
    Counters,    \* keys of certification_seq: type, region, calendar year
    MaxEvents,   \* bound: no call starts on a row with so many ledger events
    MaxSeq,      \* bound on each counter
    None         \* SQL NULL, and "nothing" in a call record

ASSUME ChainAssumption ==
    /\ Consumer \notin Requests
    /\ EventBatch \in [LabEvents -> Batches]
    /\ MaxEvents \in [Certs -> Nat] /\ MaxSeq \in Nat
    /\ None \notin Certs \cup Batches \cup LabEvents \cup Ops \cup Statuses
    /\ None \notin [counter : Counters, seq : Nat]
    /\ None \notin [status : Statuses,
                    number : [counter : Counters, seq : Nat] \cup {None}]

VARIABLES
    certification,        \* the table, by id
    certificationEvents,  \* the ledger, by certification, in commit order
    lastSeq,              \* certification_seq.last_seq
    call                  \* what each request and the consumer is doing

vars == <<certification, certificationEvents, lastSeq, call>>

Callers == Requests \cup {Consumer}

Number == [counter : Counters, seq : Nat]

\* The columns an entity in memory and its row can differ in.
Image == [status : Statuses, number : Number \cup {None}]

Row == [exists : BOOLEAN, status : Statuses, number : Number \cup {None},
        batch : Batches \cup {None}, renewedFrom : Certs \cup {None}]

Event == [from : Statuses, to : Statuses, number : Number \cup {None},
          cause : LabEvents \cup {None}]

Stages == {"idle", "finding", "numbering", "saving", "loaded", "qr",
           "successor", "announcing"}

Call == [at : Stages, op : Ops \cup {None}, cert : Certs \cup {None},
         entity : Image \cup {None}, loaded : Image \cup {None},
         cause : LabEvents \cup {None}]

NoRow == [exists |-> FALSE, status |-> "DRAFT", number |-> None,
          batch |-> None, renewedFrom |-> None]

Idle == [at |-> "idle", op |-> None, cert |-> None, entity |-> None,
         loaded |-> None, cause |-> None]

ImageOf(row) == [status |-> row.status, number |-> row.number]

Init ==
    /\ certification = [c \in Certs |-> NoRow]
    /\ certificationEvents = [c \in Certs |-> <<>>]
    /\ lastSeq = [k \in Counters |-> 0]
    /\ call = [a \in Callers |-> Idle]

-----------------------------------------------------------------------------
(* Creating rows *)

\* Mutant: a status that the status enumeration does not have.
NewDraft_UnknownStatus(batch, renewedFrom) ==
    [exists |-> TRUE, status |-> "REQUESTED", number |-> None,
     batch |-> batch, renewedFrom |-> renewedFrom]

NewDraft(batch, renewedFrom) ==
    [exists |-> TRUE, status |-> "DRAFT", number |-> None,
     batch |-> batch, renewedFrom |-> renewedFrom]

\* POST /certifications/request: one insert.
RequestCertification(c, b) ==
    /\ ~certification[c].exists
    /\ certification' = [certification EXCEPT ![c] = NewDraft(b, None)]
    /\ UNCHANGED <<certificationEvents, lastSeq, call>>

-----------------------------------------------------------------------------
(* Starting a call: findById, assertStatus, and the audit columns set on   *)
(* the entity in memory.                                                   *)

\* Mutant: assertStatus is forgotten.
Start_Unchecked(r, c, op, stage) ==
    /\ call[r].at = "idle"
    /\ certification[c].exists
    /\ Len(certificationEvents[c]) < MaxEvents[c]
    /\ call' = [call EXCEPT ![r] =
                  [at |-> stage, op |-> op, cert |-> c,
                   entity |-> ImageOf(certification[c]), loaded |-> None,
                   cause |-> None]]
    /\ UNCHANGED <<certification, certificationEvents, lastSeq>>

Start(r, c, op, stage) ==
    /\ call[r].at = "idle"
    /\ certification[c].exists
    /\ certification[c].status = From(op)
    /\ Len(certificationEvents[c]) < MaxEvents[c]
    /\ call' = [call EXCEPT ![r] =
                  [at |-> stage, op |-> op, cert |-> c,
                   entity |-> ImageOf(certification[c]), loaded |-> None,
                   cause |-> None]]
    /\ UNCHANGED <<certification, certificationEvents, lastSeq>>

\* Mutant: the Kafka message goes out instead of waiting for the transaction.
DenyCertification_AnnouncedFirst(r, c) ==
    Start(r, c, "denyCertification", "announcing")

SubmitRequest(r, c)           == Start(r, c, "submitRequest", "saving")
StartReview(r, c)             == Start(r, c, "startReview", "saving")
ScheduleInspectionChain(r, c) == Start(r, c, "scheduleInspectionChain", "saving")
StartInspection(r, c)         == Start(r, c, "startInspection", "saving")
CompleteInspectionChain(r, c) == Start(r, c, "completeInspectionChain", "saving")
RequestLab(r, c)              == Start(r, c, "requestLab", "saving")
StartFinalReview(r, c)        == Start(r, c, "startFinalReview", "saving")
GrantCertification(r, c)      == Start(r, c, "grantCertification", "numbering")
DenyCertification(r, c)       == Start(r, c, "denyCertification", "saving")
RevokeCertification(r, c)     == Start(r, c, "revokeCertification", "saving")
RenewCertification(r, c)      == Start(r, c, "renewCertification", "saving")

\* Mutant: the sequence row is read but not advanced.
GenerateCertificationNumber_NotAdvanced(r, k) ==
    /\ call[r].at = "numbering"
    /\ lastSeq[k] < MaxSeq
    /\ call' = [call EXCEPT
                  ![r].at = "saving",
                  ![r].entity = [status |-> @.status,
                                 number |-> [counter |-> k,
                                             seq |-> lastSeq[k] + 1]]]
    /\ UNCHANGED <<certification, certificationEvents, lastSeq>>

\* Mutant: the number is put on the row as soon as it is known.
GenerateCertificationNumber_SavedEarly(r, k) ==
    /\ call[r].at = "numbering"
    /\ lastSeq[k] < MaxSeq
    /\ lastSeq' = [lastSeq EXCEPT ![k] = @ + 1]
    /\ LET n == [counter |-> k, seq |-> lastSeq[k] + 1]
       IN /\ certification' = [certification EXCEPT ![call[r].cert].number = n]
          /\ call' = [call EXCEPT ![r].at = "saving",
                                  ![r].entity = [status |-> @.status,
                                                 number |-> n]]
    /\ UNCHANGED certificationEvents

\* generateCertificationNumber: its own transaction, committed before the
\* grant's.  Which counter depends on the certification and on today's year.
GenerateCertificationNumber(r, k) ==
    /\ call[r].at = "numbering"
    /\ lastSeq[k] < MaxSeq
    /\ lastSeq' = [lastSeq EXCEPT ![k] = @ + 1]
    /\ call' = [call EXCEPT
                  ![r].at = "saving",
                  ![r].entity = [status |-> @.status,
                                 number |-> [counter |-> k,
                                             seq |-> lastSeq[k] + 1]]]
    /\ UNCHANGED <<certification, certificationEvents>>

-----------------------------------------------------------------------------
(* The lab.test.completed handler *)

\* Mutant: a redelivered message is not recognised.
IsEventProcessed_Never(e) == FALSE

IsEventProcessed(e) ==
    \E c \in Certs : \E i \in 1..Len(certificationEvents[c]) :
        certificationEvents[c][i].cause = e

\* A delivery, the first or a repeated one; a processed event is skipped.
HandleLabTestCompleted(e) ==
    /\ call[Consumer].at = "idle"
    /\ ~IsEventProcessed(e)
    /\ call' = [call EXCEPT ![Consumer].at = "finding", ![Consumer].cause = e]
    /\ UNCHANGED <<certification, certificationEvents, lastSeq>>

\* Mutant: the query asks for the batch only, not for the status.
AwaitsLab_AnyStatus(c, e) ==
    /\ certification[c].exists
    /\ certification[c].batch = EventBatch[e]

AwaitsLab(c, e) ==
    /\ certification[c].exists
    /\ certification[c].status = From("receiveLabResults")
    /\ certification[c].batch = EventBatch[e]

\* receiveLabResults: any row the query returns first.
ReceiveLabResults(c) ==
    /\ call[Consumer].at = "finding"
    /\ AwaitsLab(c, call[Consumer].cause)
    /\ call' = [call EXCEPT ![Consumer] =
                  [at |-> "saving", op |-> "receiveLabResults", cert |-> c,
                   entity |-> ImageOf(certification[c]), loaded |-> None,
                   cause |-> @.cause]]
    /\ UNCHANGED <<certification, certificationEvents, lastSeq>>

\* No LAB_TESTING certification for the batch: warn and drop the message.
SkipLabResults ==
    /\ call[Consumer].at = "finding"
    /\ \A c \in Certs : ~AwaitsLab(c, call[Consumer].cause)
    /\ call' = [call EXCEPT ![Consumer] = Idle]
    /\ UNCHANGED <<certification, certificationEvents, lastSeq>>

-----------------------------------------------------------------------------
(* applyTransition *)

\* The event is inserted (invisible until the commit) and the save selects
\* the row it will compare the entity with.
LoadForSave(a) ==
    /\ call[a].at = "saving"
    /\ call' = [call EXCEPT ![a].at = "loaded",
                            ![a].loaded = ImageOf(certification[call[a].cert])]
    /\ UNCHANGED <<certification, certificationEvents, lastSeq>>

\* Mutant: a transition other than the grant erases the number.
SavedImage_NumberErased(k) ==
    [status |-> To(k.op),
     number |-> IF k.op = "grantCertification" THEN k.entity.number ELSE None]

\* The entity as saved: the snapshot with the new status.
SavedImage(k) == [status |-> To(k.op), number |-> k.entity.number]

\* UPDATE ... SET the columns that differed, WHERE id = ...
Merged(row, saved, loaded) ==
    [exists |-> row.exists,
     status |-> IF saved.status # loaded.status THEN saved.status ELSE row.status,
     number |-> IF saved.number # loaded.number THEN saved.number ELSE row.number,
     batch |-> row.batch, renewedFrom |-> row.renewedFrom]

\* The UNIQUE constraint on certification_number.
NumberFree(c, row) ==
    row.number # None =>
        \A d \in Certs \ {c} : certification[d].number # row.number

\* Mutant: the event starts from the row selected by the save, not from the
\* status that was checked.
EventOf_FromLoaded(k) ==
    [from |-> k.loaded.status, to |-> To(k.op),
     number |-> IF k.op = "grantCertification" THEN k.entity.number ELSE None,
     cause |-> k.cause]

EventOf(k) ==
    [from |-> k.entity.status, to |-> To(k.op),
     number |-> IF k.op = "grantCertification" THEN k.entity.number ELSE None,
     cause |-> k.cause]

\* What a call still does after its commit: QR service, successor row, Kafka.
NextStage(op) ==
    CASE op \in {"grantCertification", "revokeCertification",
                 "renewCertification"} -> "qr"
      [] op \in {"submitRequest", "startFinalReview", "denyCertification"} ->
             "announcing"
      [] OTHER -> "idle"

\* The call once its entity is no longer used.
Committed(k) ==
    IF NextStage(k.op) = "idle" THEN Idle
    ELSE [at |-> NextStage(k.op), op |-> k.op, cert |-> k.cert,
          entity |-> None, loaded |-> None, cause |-> None]

\* Mutant: the row is saved, the event is not.
CommitTransition_NoEvent(a) ==
    /\ call[a].at = "loaded"
    /\ LET k   == call[a]
           row == Merged(certification[k.cert], SavedImage(k), k.loaded)
       IN /\ NumberFree(k.cert, row)
          /\ certification' = [certification EXCEPT ![k.cert] = row]
          /\ call' = [call EXCEPT ![a] = Committed(k)]
    /\ UNCHANGED <<certificationEvents, lastSeq>>

CommitTransition(a) ==
    /\ call[a].at = "loaded"
    /\ LET k   == call[a]
           row == Merged(certification[k.cert], SavedImage(k), k.loaded)
       IN /\ NumberFree(k.cert, row)
          /\ certification' = [certification EXCEPT ![k.cert] = row]
          /\ certificationEvents' =
               [certificationEvents EXCEPT ![k.cert] = Append(@, EventOf(k))]
          /\ call' = [call EXCEPT ![a] = Committed(k)]
    /\ UNCHANGED lastSeq

-----------------------------------------------------------------------------
(* After the commit *)

\* generateQrCode, deactivateByCertificationId or evictQrCache: they touch
\* only QR rows and the cache, which module QrVerification models.
CallQrService(r) ==
    /\ call[r].at = "qr"
    /\ call' = [call EXCEPT ![r].at = IF call[r].op = "renewCertification"
                                        THEN "successor" ELSE "announcing"]
    /\ UNCHANGED <<certification, certificationEvents, lastSeq>>

\* Mutant: the insert is repeated, as if it had failed.
CreateSuccessor_Repeated(r, d) ==
    /\ call[r].at = "successor"
    /\ ~certification[d].exists
    /\ certification' =
         [certification EXCEPT ![d] =
            NewDraft(certification[call[r].cert].batch, call[r].cert)]
    /\ UNCHANGED <<certificationEvents, lastSeq, call>>

\* renewCertification inserts the new draft, outside the transaction.
CreateSuccessor(r, d) ==
    /\ call[r].at = "successor"
    /\ ~certification[d].exists
    /\ certification' =
         [certification EXCEPT ![d] =
            NewDraft(certification[call[r].cert].batch, call[r].cert)]
    /\ call' = [call EXCEPT ![r].at = "announcing"]
    /\ UNCHANGED <<certificationEvents, lastSeq>>

\* Publish to Kafka; a failure is logged and swallowed, so the call ends.
Announce(r) ==
    /\ call[r].at = "announcing"
    /\ call' = [call EXCEPT ![r] = Idle]
    /\ UNCHANGED <<certification, certificationEvents, lastSeq>>

\* A database or Redis error, or the end of the process: the open
\* transaction rolls back, what was committed stays, nothing resumes.
Abort(a) ==
    /\ call[a].at # "idle"
    /\ call' = [call EXCEPT ![a] = Idle]
    /\ UNCHANGED <<certification, certificationEvents, lastSeq>>

-----------------------------------------------------------------------------

StartCall(r, c) ==
    \/ SubmitRequest(r, c)
    \/ StartReview(r, c)
    \/ ScheduleInspectionChain(r, c)
    \/ StartInspection(r, c)
    \/ CompleteInspectionChain(r, c)
    \/ RequestLab(r, c)
    \/ StartFinalReview(r, c)
    \/ GrantCertification(r, c)
    \/ DenyCertification(r, c)
    \/ RevokeCertification(r, c)
    \/ RenewCertification(r, c)

Next ==
    \/ \E c \in Certs, b \in Batches : RequestCertification(c, b)
    \/ \E r \in Requests, c \in Certs : StartCall(r, c)
    \/ \E r \in Requests, k \in Counters : GenerateCertificationNumber(r, k)
    \/ \E e \in LabEvents : HandleLabTestCompleted(e)
    \/ \E c \in Certs : ReceiveLabResults(c)
    \/ SkipLabResults
    \/ \E a \in Callers : LoadForSave(a) \/ CommitTransition(a) \/ Abort(a)
    \/ \E r \in Requests : CallQrService(r) \/ Announce(r)
    \/ \E r \in Requests, d \in Certs : CreateSuccessor(r, d)

Spec == Init /\ [][Next]_vars

-----------------------------------------------------------------------------
(* Properties *)

TypeOK ==
    /\ certification \in [Certs -> Row]
    /\ certificationEvents \in [Certs -> Seq(Event)]
    /\ lastSeq \in [Counters -> Nat]
    /\ call \in [Callers -> Call]

\* The statuses a ledger says its certification has reached.
Reached(events) ==
    {"DRAFT"} \cup {events[i].to : i \in 1..Len(events)}

\* "Append-only ledger of every state transition": each entry is one of the
\* twelve transitions and starts where an earlier entry of the same
\* certification ended, although calls act on rows read long before.
LedgerCausal ==
    \A c \in Certs : \A i \in 1..Len(certificationEvents[c]) :
        LET e == certificationEvents[c][i]
        IN /\ <<e.from, e.to>> \in Transitions
           /\ \/ e.from = "DRAFT"
              \/ \E j \in 1..(i - 1) : certificationEvents[c][j].to = e.from

\* applyTransition writes event and row in one transaction: no row is in a
\* status its ledger does not account for, whatever call wrote last.
StatusExplained ==
    \A c \in Certs : certification[c].status \in Reached(certificationEvents[c])

\* A certificate counts as granted only if every step of the chain, the
\* inspection and the laboratory among them, is on record for it.
GrantedAfterFullChain ==
    \A c \in Certs :
        certification[c].status = "GRANTED" =>
            ChainBeforeGrant \subseteq Reached(certificationEvents[c])

\* generateCertificationNumber: a number is decided upon once, also when the
\* grant that took it is lost and others race with it.
NumbersNeverReused ==
    \A c, d \in Certs :
        \A i \in 1..Len(certificationEvents[c]), j \in 1..Len(certificationEvents[d]) :
            /\ certificationEvents[c][i].number # None
            /\ certificationEvents[c][i].number = certificationEvents[d][j].number
            => c = d /\ i = j

\* A number on a row is the number of a grant on record for that very row.
RowNumberExplained ==
    \A c \in Certs :
        certification[c].number # None =>
            \E i \in 1..Len(certificationEvents[c]) :
                certificationEvents[c][i].number = certification[c].number

\* isEventProcessed: however often Kafka delivers a lab result, it moves one
\* certification, once.
LabEventOnce ==
    \A c, d \in Certs :
        \A i \in 1..Len(certificationEvents[c]), j \in 1..Len(certificationEvents[d]) :
            /\ certificationEvents[c][i].cause # None
            /\ certificationEvents[c][i].cause = certificationEvents[d][j].cause
            => c = d /\ i = j

\* renewCertification: a certification has at most as many successors as
\* renewals on record; a crash may leave a renewal without its successor.
SuccessorsExplained ==
    \A c \in Certs :
        Cardinality({d \in Certs : certification[d].renewedFrom = c})
          + Cardinality({r \in Requests : /\ call[r].at = "successor"
                                          /\ call[r].cert = c})
        <= Cardinality({i \in 1..Len(certificationEvents[c]) :
                          certificationEvents[c][i].to = "RENEWED"})

\* "Kafka publishing happens AFTER the transaction succeeds": what is
\* announced is on record.
AnnouncedIsCommitted ==
    \A r \in Requests :
        call[r].at \in {"qr", "successor", "announcing"} =>
            To(call[r].op) \in Reached(certificationEvents[call[r].cert])

-----------------------------------------------------------------------------
(* Refinement *)

\* The numbers the counters can give within the bound.
Numbers == [counter : Counters, seq : 1..MaxSeq]

\* However calls interleave and wherever they die, the ledger keeps what
\* DecisionLedger promises of it.
Ledger == INSTANCE DecisionLedger
            WITH ledger <- certificationEvents, Causes <- LabEvents

LedgerSpec == Ledger!Spec

StatusView == [c \in Certs |-> IF certification[c].exists
                                 THEN certification[c].status ELSE "ABSENT"]
NumberView == [c \in Certs |-> certification[c].number]

\* As long as the calls on the service come one at a time, the rows follow
\* the state machine of the chain.
Lifecycle == INSTANCE CertificationLifecycle
               WITH status <- StatusView, number <- NumberView

LifecycleSpec == Lifecycle!Spec

\* "denied --> [*]", "revoked --> [*]": nothing leaves these statuses.
DecisionIsFinal ==
    [][\A c \in Certs :
         certification[c].status \in {"DENIED", "REVOKED"} =>
             certification'[c].status = certification[c].status]_vars
=============================================================================
