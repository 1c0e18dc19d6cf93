---------------------------- MODULE QrVerification ----------------------------
(***************************************************************************)
(* QrCodeService: the rows of certification.qr_code, the Redis cache of    *)
(* verification answers, the scans in flight, and the calls of             *)
(* CertificationService that issue, deactivate or evict.                   *)
(*                                                                         *)
(* A scan looks in the cache, finds the active QR row, checks its expiry,  *)
(* reads the certification, counts, and stores the answer for five         *)
(* minutes; every one of these is awaited, so calls run in between.        *)
(*                                                                         *)
(* Of a certification only the status is kept, from the end of its first   *)
(* laboratory on.  applyTransition's select and update are one step here:  *)
(* what a save does to this one column it also does in one step (module    *)
(* CertificationChain has both steps and all columns).                     *)
(*                                                                         *)
(* InspectionService moves the status too, of a certification in any       *)
(* status, and evicts nothing: what is stored then outlives the status it  *)
(* was read from, and the chain goes on from the inspection (module        *)
(* Inspections has the calls that do this; here it is one UPDATE).         *)
(***************************************************************************)
EXTENDS Naturals, FiniteSets, CertificationStates

CONSTANTS
    Certs,     \* certifications
    Tokens,    \* HMAC signatures, each identifying the QR row that has it
    Requests,  \* operator calls that can be in flight at once
    Scanners,  \* GET /verify requests that can be in flight at once
    OpsCalled, \* bound: the operations on a certification that are called
    None       \* no certification, no token, nothing cached

VARIABLES
    status,  \* certification.current_status
    qrCode,  \* the QR row of each signature
    cache,   \* qr:verify:<signature>
    call,    \* what each operator call is doing
    scan,    \* what each scan is doing
    received, \* the certification the consumer is about to move on, if any
    reopened \* history: per certification, the answers an inspection overtook

vars == <<status, qrCode, cache, call, scan, received, reopened>>
statusVars == <<status, received, reopened>>

\* The operations that lead to, or away from, a granted certification, the part
\* of the chain included that an inspection makes it go through again.
StatusOps == {"startInspection", "completeInspectionChain", "requestLab",
              "startFinalReview", "grantCertification", "denyCertification",
              "revokeCertification", "renewCertification"}

ASSUME QrAssumption ==
    /\ None \notin Certs \cup Tokens \cup {"valid", "renewed"}
    /\ OpsCalled \subseteq StatusOps

\* The statuses InspectionService writes.
Marks == {"INSPECTION_SCHEDULED", "INSPECTION_COMPLETE"}

\* The answers that are stored.
Answers == {"valid", "renewed"}

QrRow == [cert : Certs \cup {None}, isActive : BOOLEAN, expired : BOOLEAN]

NotIssued == [cert |-> None, isActive |-> FALSE, expired |-> FALSE]

Call == [at : {"idle", "saving", "finding", "evicting", "deactivating", "inserting"},
         op : StatusOps \cup {"generateQrCode", None},
         cert : Certs \cup {None}, token : Tokens \cup {None}]

IdleCall == [at |-> "idle", op |-> None, cert |-> None, token |-> None]

Scan == [at : {"idle", "finding", "reading", "storing"},
         token : Tokens \cup {None}, answer : Answers \cup {None}]

IdleScan == [at |-> "idle", token |-> None, answer |-> None]

Init ==
    /\ status = [c \in Certs |-> "LAB_RESULTS_RECEIVED"]
    /\ qrCode = [t \in Tokens |-> NotIssued]
    /\ cache = [t \in Tokens |-> None]
    /\ call = [r \in Requests |-> IdleCall]
    /\ scan = [s \in Scanners |-> IdleScan]
    /\ received = None
    /\ reopened = [c \in Certs |-> {}]

\* The statuses of a certification after the one that is answered with a, as far
\* as CertificationService goes: those in which a stored a is merely late.
After(a) == IF a = "renewed" THEN {"RENEWED"} ELSE {"GRANTED", "REVOKED", "RENEWED"}

TokensOf(c) == {t \in Tokens : qrCode[t].cert = c}
ActiveTokensOf(c) == {t \in TokensOf(c) : qrCode[t].isActive}

-----------------------------------------------------------------------------
(* Operator calls *)

\* findById and assertStatus.
Start(r, c, op) ==
    /\ call[r].at = "idle"
    /\ status[c] = From(op)
    /\ call' = [call EXCEPT ![r] = [at |-> "saving", op |-> op, cert |-> c,
                                    token |-> None]]
    /\ UNCHANGED <<statusVars, qrCode, cache, scan>>

\* Mutant: the grant issues a QR code and leaves earlier ones active.
AfterCommit_NoDeactivation(k) ==
    CASE k.op = "grantCertification" -> [k EXCEPT !.at = "inserting"]
      [] k.op \in {"revokeCertification", "renewCertification"} ->
             [k EXCEPT !.at = "finding"]
      [] OTHER -> IdleCall

\* What the operation has left to do here once its transaction is committed.
AfterCommit(k) ==
    CASE k.op = "grantCertification" -> [k EXCEPT !.at = "deactivating"]
      [] k.op \in {"revokeCertification", "renewCertification"} ->
             [k EXCEPT !.at = "finding"]
      [] OTHER -> IdleCall

\* The status read by Start may be long gone: the save does not look.
Commit(r) ==
    /\ call[r].at = "saving"
    /\ status' = [status EXCEPT ![call[r].cert] = To(call[r].op)]
    /\ reopened' = [reopened EXCEPT ![call[r].cert] =
                       {a \in @ : To(call[r].op) \notin After(a)}]
    /\ call' = [call EXCEPT ![r] = AfterCommit(@)]
    /\ UNCHANGED <<qrCode, cache, scan, received>>

\* The endpoint asks nothing of the status of the certification.
GenerateQrCode(r, c) ==
    /\ call[r].at = "idle"
    /\ call' = [call EXCEPT ![r] = [at |-> "deactivating", op |-> "generateQrCode",
                                    cert |-> c, token |-> None]]
    /\ UNCHANGED <<statusVars, qrCode, cache, scan>>

\* deactivateByCertificationId and evictQrCache: any one active row.
FindActive(r, t) ==
    /\ call[r].at = "finding"
    /\ t \in ActiveTokensOf(call[r].cert)
    /\ call' = [call EXCEPT ![r] = [@ EXCEPT !.at = "evicting", !.token = t]]
    /\ UNCHANGED <<statusVars, qrCode, cache, scan>>

\* A revocation goes on to the rows, a renewal is done with its QR work.
AfterEviction(k) ==
    IF k.op = "revokeCertification"
    THEN [k EXCEPT !.at = "deactivating", !.token = None]
    ELSE IdleCall

FindNoActive(r) ==
    /\ call[r].at = "finding"
    /\ ActiveTokensOf(call[r].cert) = {}
    /\ call' = [call EXCEPT ![r] = AfterEviction(@)]
    /\ UNCHANGED <<statusVars, qrCode, cache, scan>>

Evict(r) ==
    /\ call[r].at = "evicting"
    /\ cache' = [cache EXCEPT ![call[r].token] = None]
    /\ call' = [call EXCEPT ![r] = AfterEviction(@)]
    /\ UNCHANGED <<statusVars, qrCode, scan>>

\* UPDATE qr_code SET is_active = false WHERE certification_id = ...
Deactivate(r) ==
    /\ call[r].at = "deactivating"
    /\ qrCode' = [t \in Tokens |->
                    IF qrCode[t].cert = call[r].cert
                    THEN [qrCode[t] EXCEPT !.isActive = FALSE] ELSE qrCode[t]]
    /\ call' = [call EXCEPT ![r] = IF @.op = "revokeCertification" THEN IdleCall
                                   ELSE [@ EXCEPT !.at = "inserting"]]
    /\ UNCHANGED <<statusVars, cache, scan>>

\* A new signature: it covers the certification and the time of issue.
InsertQrCode(r, t) ==
    /\ call[r].at = "inserting"
    /\ qrCode[t].cert = None
    /\ qrCode' = [qrCode EXCEPT ![t] = [cert |-> call[r].cert, isActive |-> TRUE,
                                        expired |-> FALSE]]
    /\ call' = [call EXCEPT ![r] = IdleCall]
    /\ UNCHANGED <<statusVars, cache, scan>>

-----------------------------------------------------------------------------
(* Who else moves the status *)

\* receiveLabResults: a certification in LAB_TESTING, and the save, which does
\* not look either.  There is one consumer, and it does nothing with QR codes.
FindWaiting(c) ==
    /\ received = None
    /\ status[c] = From("receiveLabResults")
    /\ received' = c
    /\ UNCHANGED <<status, reopened, qrCode, cache, call, scan>>

ReceiveLabResults ==
    /\ received # None
    /\ status' = [status EXCEPT ![received] = To("receiveLabResults")]
    /\ received' = None
    /\ UNCHANGED <<reopened, qrCode, cache, call, scan>>

\* scheduleInspection and completeInspection: certRepo.update, from any status.
\* An open inspection of an earlier round is enough for either mark.
MarkCertification(c, mark) ==
    /\ status' = [status EXCEPT ![c] = mark]
    /\ reopened' = [reopened EXCEPT ![c] =
                       @ \cup {a \in Answers : status[c] \in After(a)}]
    /\ UNCHANGED <<received, qrCode, cache, call, scan>>

-----------------------------------------------------------------------------
(* verifyQrCode; a scan answered from the cache changes nothing *)

MissCache(s, t) ==
    /\ scan[s].at = "idle"
    /\ qrCode[t].cert # None
    /\ cache[t] = None
    /\ scan' = [scan EXCEPT ![s] = [at |-> "finding", token |-> t, answer |-> None]]
    /\ UNCHANGED <<statusVars, qrCode, cache, call>>

\* Mutant: the row is found by its signature, active or not.
FindQrCode_AnyRow(s) ==
    /\ scan[s].at = "finding"
    /\ scan' = [scan EXCEPT ![s] = IF ~qrCode[scan[s].token].expired
                                   THEN [@ EXCEPT !.at = "reading"]
                                   ELSE IdleScan]
    /\ UNCHANGED <<statusVars, qrCode, cache, call>>

\* The active row, and its expiry date against the clock.
FindQrCode(s) ==
    /\ scan[s].at = "finding"
    /\ LET row == qrCode[scan[s].token]
       IN scan' = [scan EXCEPT ![s] = IF row.isActive /\ ~row.expired
                                      THEN [@ EXCEPT !.at = "reading"]
                                      ELSE IdleScan]
    /\ UNCHANGED <<statusVars, qrCode, cache, call>>

\* Mutant: whatever is neither renewed nor revoked counts as valid.
AnswerFor_NotRevoked(st) ==
    CASE st = "REVOKED" -> None
      [] st = "RENEWED" -> "renewed"
      [] OTHER -> "valid"

\* Mutant: refusals are stored as well.
AnswerFor_Refusals(st) ==
    CASE st = "GRANTED" -> "valid"
      [] st = "RENEWED" -> "renewed"
      [] OTHER -> "refused"

\* What is answered and stored for a certification in status st, if anything.
AnswerFor(st) ==
    CASE st = "GRANTED" -> "valid"
      [] st = "RENEWED" -> "renewed"
      [] OTHER -> None

\* A refusal ends the scan; anything else goes on to be stored.
AfterReading(k, answer) ==
    IF answer = None THEN IdleScan
    ELSE [k EXCEPT !.at = "storing", !.answer = answer]

ReadCertification(s) ==
    /\ scan[s].at = "reading"
    /\ scan' = [scan EXCEPT ![s] =
                   AfterReading(@, AnswerFor(status[qrCode[scan[s].token].cert]))]
    /\ UNCHANGED <<statusVars, qrCode, cache, call>>

\* After the scan counter, the answer is stored, whatever happened since.
StoreAnswer(s) ==
    /\ scan[s].at = "storing"
    /\ cache' = [cache EXCEPT ![scan[s].token] = scan[s].answer]
    /\ scan' = [scan EXCEPT ![s] = IdleScan]
    /\ UNCHANGED <<statusVars, qrCode, call>>

-----------------------------------------------------------------------------
(* Time and failures *)

\* The five minutes of a stored answer are over.
ExpireEntry(t) ==
    /\ cache[t] # None
    /\ cache' = [cache EXCEPT ![t] = None]
    /\ UNCHANGED <<statusVars, qrCode, call, scan>>

\* The expires_at of the row is past.
ExpireQrCode(t) ==
    /\ qrCode[t].cert # None
    /\ ~qrCode[t].expired
    /\ qrCode' = [qrCode EXCEPT ![t].expired = TRUE]
    /\ UNCHANGED <<statusVars, cache, call, scan>>

\* A call or a scan ends with a database or Redis error, or its process dies.
AbortCall(r) ==
    /\ call[r].at # "idle"
    /\ call' = [call EXCEPT ![r] = IdleCall]
    /\ UNCHANGED <<statusVars, qrCode, cache, scan>>

AbortConsumer ==
    /\ received # None
    /\ received' = None
    /\ UNCHANGED <<status, reopened, qrCode, cache, call, scan>>

AbortScan(s) ==
    /\ scan[s].at # "idle"
    /\ scan' = [scan EXCEPT ![s] = IdleScan]
    /\ UNCHANGED <<statusVars, qrCode, cache, call>>

-----------------------------------------------------------------------------

Work ==
    \/ \E r \in Requests, c \in Certs :
          GenerateQrCode(r, c) \/ \E op \in OpsCalled : Start(r, c, op)
    \/ \E r \in Requests : Commit(r) \/ FindNoActive(r) \/ Evict(r) \/ Deactivate(r)
    \/ \E r \in Requests, t \in Tokens : FindActive(r, t) \/ InsertQrCode(r, t)
    \/ ReceiveLabResults \/ AbortConsumer
    \/ \E c \in Certs : FindWaiting(c) \/ \E mark \in Marks : MarkCertification(c, mark)
    \/ \E s \in Scanners, t \in Tokens : MissCache(s, t)
    \/ \E s \in Scanners : FindQrCode(s) \/ ReadCertification(s) \/ StoreAnswer(s)
    \/ \E t \in Tokens : ExpireEntry(t) \/ ExpireQrCode(t)

Fail ==
    \/ \E r \in Requests : AbortCall(r)
    \/ \E s \in Scanners : AbortScan(s)

\* Redis drops a stored answer when its time is over, whatever the service does.
Fairness == \A t \in Tokens : WF_vars(ExpireEntry(t))

Spec == Init /\ [][Work \/ Fail]_vars /\ Fairness

\* No call and no scan fails; the consumer, which has nothing to do with QR codes,
\* may at any time.
QuietSpec == Init /\ [][Work]_vars /\ Fairness

-----------------------------------------------------------------------------
(* Properties *)

\* In particular only positive and "renewed" answers are ever stored:
\* "REVOKED, not-found, expired are never cached".
TypeOK ==
    /\ status \in [Certs -> Statuses]
    /\ qrCode \in [Tokens -> QrRow]
    /\ cache \in [Tokens -> Answers \cup {None}]
    /\ call \in [Requests -> Call]
    /\ scan \in [Scanners -> Scan]
    /\ received \in Certs \cup {None}
    /\ reopened \in [Certs -> SUBSET Answers]

\* What a scan of t would have to be told now.
Refused(t) ==
    /\ qrCode[t].cert # None
    /\ \/ ~qrCode[t].isActive
       \/ qrCode[t].expired
       \/ status[qrCode[t].cert] # "GRANTED"

\* verifyQrCode against the calls and the cache: once a QR code is to be
\* refused for good, be it revoked, denied by a racing call, superseded or
\* expired, scanners are in the end no longer told that it is valid, although
\* scans may store old answers late and some evictions never happen.
RefusalReachesScanners ==
    \A t \in Tokens : <>[]Refused(t) => <>[](cache[t] # "valid")

AboutToInsert(c) == {r \in Requests : call[r].at = "inserting" /\ call[r].cert = c}

\* generateQrCode against calls that overlap and calls that die: a certification
\* never has more active QR codes, those about to be inserted included, than
\* calls can be in flight at once, however often codes are issued again.
ActiveWithinCalls ==
    \A c \in Certs :
        Cardinality(ActiveTokensOf(c)) + Cardinality(AboutToInsert(c))
            <= Cardinality(Requests)

NoCallOn(c) == \A r \in Requests : call[r].cert # c

\* generateQrCode, deactivateByCertificationId, evictQrCache: calls made one
\* at a time leave a granted or renewed certification with one active QR code.
OneActiveQr ==
    \A c \in Certs :
        status[c] \in {"GRANTED", "RENEWED"} /\ NoCallOn(c) =>
            Cardinality(ActiveTokensOf(c)) = 1

\* The answers that are stored of t, or about to be.
Told(t) == {cache[t]} \cup {scan[s].answer : s \in {u \in Scanners : scan[u].token = t}}

\* verifyQrCode against operator calls made one at a time, the consumer and any
\* inspections: however late a scan stores its answer, none says "valid" of a
\* certification that was not granted yet and none says "renewed" of one that is
\* not, unless an inspection has moved it on since, which evicts nothing, and
\* no later decision has made the answer true again.
AnswersFollowDecisions ==
    \A t \in Tokens :
        LET c == qrCode[t].cert
        IN c # None =>
             \A a \in Answers \cap Told(t) : status[c] \in After(a) \/ a \in reopened[c]

\* "Deactivate all QR codes for a certification.  Called when a certification
\* is revoked so QR scans immediately return an error."
RevocationIsImmediate ==
    \A c \in Certs :
        status[c] = "REVOKED" /\ NoCallOn(c) /\ ActiveTokensOf(c) = {} =>
            \A t \in TokensOf(c) : cache[t] # "valid"
=============================================================================
