------------------------------- MODULE QrProofs -------------------------------
(***************************************************************************)
(* QR codes and their verification: types, and how many codes can be       *)
(* active, for any number of calls and scans that may fail; and, for       *)
(* operator calls made one at a time, what they leave behind and what      *)
(* scanners are told.                                                      *)
(***************************************************************************)
EXTENDS QrVerification, FiniteSetTheorems, TLAPS

USE DEF statusVars

\* What the operations ask for and write.
LEMMA StatusOpsEdges ==
    /\ \A op \in StatusOps : From(op) \in Statuses /\ To(op) \in Statuses
    /\ From("receiveLabResults") = "LAB_TESTING" /\ To("receiveLabResults") = "LAB_RESULTS_RECEIVED"
    /\ From("startFinalReview") = "LAB_RESULTS_RECEIVED" /\ To("startFinalReview") = "UNDER_REVIEW"
    /\ From("grantCertification") = "UNDER_REVIEW" /\ To("grantCertification") = "GRANTED"
    /\ From("denyCertification") = "UNDER_REVIEW" /\ To("denyCertification") = "DENIED"
    /\ From("revokeCertification") = "GRANTED" /\ To("revokeCertification") = "REVOKED"
    /\ From("renewCertification") = "GRANTED" /\ To("renewCertification") = "RENEWED"
BY DEF StatusOps, From, To, Edge, Statuses

-----------------------------------------------------------------------------
(* Types *)

\* A call has a certification, and what its step works with.
CallFits(r) ==
    /\ call[r].at # "idle" => call[r].cert \in Certs
    /\ call[r].at = "saving" => call[r].op \in StatusOps
    /\ call[r].at = "evicting" => call[r].token \in Tokens

\* A scan has a token that has been issued, and an answer to store.
ScanFits(s) ==
    /\ scan[s].at # "idle" => scan[s].token \in Tokens
    /\ scan[s].token \in Tokens => qrCode[scan[s].token].cert \in Certs
    /\ scan[s].at = "storing" => scan[s].answer \in Answers

TypeInv ==
    /\ TypeOK
    /\ \A r \in Requests : CallFits(r)
    /\ \A s \in Scanners : ScanFits(s)

\* A step that gives one call a new record.
LEMMA OneCallFits ==
    ASSUME TypeInv, NEW r \in Requests, NEW k \in Call,
           call' = [call EXCEPT ![r] = k],
           k.at # "idle" => k.cert \in Certs,
           k.at = "saving" => k.op \in StatusOps,
           k.at = "evicting" => k.token \in Tokens
    PROVE  call' \in [Requests -> Call] /\ \A q \in Requests : CallFits(q)'
BY DEF TypeInv, TypeOK, CallFits

\* A step that gives one scan a new record.
LEMMA OneScanFits ==
    ASSUME TypeInv, NEW s \in Scanners, NEW k \in Scan, UNCHANGED qrCode,
           scan' = [scan EXCEPT ![s] = k],
           k.at # "idle" => k.token \in Tokens,
           k.token \in Tokens => qrCode[k.token].cert \in Certs,
           k.at = "storing" => k.answer \in Answers
    PROVE  scan' \in [Scanners -> Scan] /\ \A q \in Scanners : ScanFits(q)'
BY DEF TypeInv, TypeOK, ScanFits

\* What a step of the call r makes of its record.
CallMoves(r) ==
    \E k \in Call :
        /\ call' = [call EXCEPT ![r] = k]
        /\ k.at # "idle" => k.cert \in Certs
        /\ k.at = "saving" => k.op \in StatusOps
        /\ k.at = "evicting" => k.token \in Tokens

LEMMA IdleTypes ==
    /\ IdleCall \in Call /\ IdleCall.at = "idle"
    /\ IdleScan \in Scan /\ IdleScan.at = "idle"
    /\ IdleScan.token = None /\ IdleScan.answer = None
BY DEF IdleCall, Call, IdleScan, Scan

\* A call that goes on to another step.
LEMMA NextStepOfCall ==
    ASSUME NEW k \in Call, NEW at \in {"finding", "deactivating", "inserting"},
           NEW m, m = [k EXCEPT !.at = at]
    PROVE  /\ m \in Call
           /\ m.at = at /\ m.op = k.op /\ m.cert = k.cert /\ m.token = k.token
BY DEF Call

\* A call that is done with the cache.
LEMMA CacheDone ==
    ASSUME NEW k \in Call, NEW m, m = AfterEviction(k)
    PROVE  /\ m \in Call
           /\ k.op = "revokeCertification" =>
                m.at = "deactivating" /\ m.op = k.op /\ m.cert = k.cert
           /\ k.op # "revokeCertification" => m = IdleCall
<1>1. CASE k.op = "revokeCertification"
  <2>1. m = [k EXCEPT !.at = "deactivating", !.token = None]
    BY <1>1 DEF AfterEviction
  <2>2. QED
    BY <1>1, <2>1 DEF Call
<1>2. CASE k.op # "revokeCertification"
  BY <1>2, IdleTypes DEF AfterEviction
<1>3. QED
  BY <1>1, <1>2

\* A call whose transaction is committed.
LEMMA Committed ==
    ASSUME NEW k \in Call, NEW m, m = AfterCommit(k)
    PROVE  /\ m \in Call
           /\ \/ /\ k.op = "grantCertification" /\ m.at = "deactivating"
                 /\ m.op = k.op /\ m.cert = k.cert
              \/ /\ k.op \in {"revokeCertification", "renewCertification"}
                 /\ m.at = "finding" /\ m.op = k.op /\ m.cert = k.cert
              \/ /\ k.op \notin {"grantCertification", "revokeCertification",
                                 "renewCertification"}
                 /\ m = IdleCall
<1>1. CASE k.op = "grantCertification"
  <2>1. m = [k EXCEPT !.at = "deactivating"]
    BY <1>1 DEF AfterCommit
  <2>2. QED
    BY <1>1, <2>1, NextStepOfCall
<1>2. CASE k.op \in {"revokeCertification", "renewCertification"}
  <2>1. m = [k EXCEPT !.at = "finding"]
    BY <1>2 DEF AfterCommit
  <2>2. QED
    BY <1>2, <2>1, NextStepOfCall
<1>3. CASE k.op \notin {"grantCertification", "revokeCertification", "renewCertification"}
  <2>1. m = IdleCall
    BY <1>3 DEF AfterCommit
  <2>2. QED
    BY <1>3, <2>1, IdleTypes
<1>4. QED
  BY <1>1, <1>2, <1>3

LEMMA CallsMove ==
    ASSUME TypeInv, NEW r \in Requests,
           \/ \E c \in Certs : GenerateQrCode(r, c) \/ \E op \in StatusOps : Start(r, c, op)
           \/ Commit(r) \/ FindNoActive(r) \/ Evict(r) \/ Deactivate(r)
           \/ \E t \in Tokens : FindActive(r, t) \/ InsertQrCode(r, t)
           \/ AbortCall(r)
    PROVE  CallMoves(r)
<1>0. call[r] \in Call /\ CallFits(r)
  BY DEF TypeInv, TypeOK
<1>1. ASSUME call' = [call EXCEPT ![r] = IdleCall] PROVE CallMoves(r)
  BY <1>1, IdleTypes DEF CallMoves
<1>2. ASSUME NEW c \in Certs, NEW op \in StatusOps, Start(r, c, op) PROVE CallMoves(r)
  <2>1. [at |-> "saving", op |-> op, cert |-> c, token |-> None] \in Call
    BY DEF Call
  <2>2. QED
    BY <1>2, <2>1 DEF Start, CallMoves
<1>3. ASSUME NEW c \in Certs, GenerateQrCode(r, c) PROVE CallMoves(r)
  <2>1. [at |-> "deactivating", op |-> "generateQrCode", cert |-> c, token |-> None] \in Call
    BY DEF Call
  <2>2. QED
    BY <1>3, <2>1 DEF GenerateQrCode, CallMoves
<1>4. ASSUME NEW t \in Tokens, FindActive(r, t) PROVE CallMoves(r)
  <2>0. PICK m : m = [call[r] EXCEPT !.at = "evicting", !.token = t]
    OBVIOUS
  <2>1. call' = [call EXCEPT ![r] = m] /\ call[r].at = "finding"
    BY <1>4, <2>0 DEF FindActive
  <2>2. /\ m \in Call
        /\ m.at = "evicting" /\ m.op = call[r].op /\ m.cert = call[r].cert /\ m.token = t
    BY <1>0, <2>0 DEF Call
  <2>3. QED
    BY <1>0, <2>1, <2>2 DEF CallMoves, CallFits
<1>5. CASE FindNoActive(r) \/ Evict(r)
  <2>0. PICK m : m = AfterEviction(call[r])
    OBVIOUS
  <2>1. call' = [call EXCEPT ![r] = m] /\ call[r].at # "idle"
    BY <1>5, <2>0 DEF FindNoActive, Evict
  <2>2. /\ m \in Call
        /\ call[r].op = "revokeCertification" =>
             m.at = "deactivating" /\ m.op = call[r].op /\ m.cert = call[r].cert
        /\ call[r].op # "revokeCertification" => m = IdleCall
    BY <1>0, <2>0, CacheDone
  <2>3. QED
    BY <1>0, <1>1, <2>1, <2>2 DEF CallMoves, CallFits
<1>6. CASE Commit(r)
  <2>0. PICK m : m = AfterCommit(call[r])
    OBVIOUS
  <2>1. call' = [call EXCEPT ![r] = m] /\ call[r].at # "idle"
    BY <1>6, <2>0 DEF Commit
  <2>2. /\ m \in Call
        /\ \/ m.at \in {"deactivating", "finding"} /\ m.cert = call[r].cert
           \/ m = IdleCall
    BY <1>0, <2>0, Committed
  <2>3. QED
    BY <1>0, <1>1, <2>1, <2>2 DEF CallMoves, CallFits
<1>7. CASE Deactivate(r)
  <2>1. CASE call[r].op = "revokeCertification"
    BY <1>1, <1>7, <2>1 DEF Deactivate
  <2>2. CASE call[r].op # "revokeCertification"
    <3>0. PICK m : m = [call[r] EXCEPT !.at = "inserting"]
      OBVIOUS
    <3>1. call' = [call EXCEPT ![r] = m] /\ call[r].at # "idle"
      BY <1>7, <2>2, <3>0 DEF Deactivate
    <3>2. m \in Call /\ m.at = "inserting" /\ m.cert = call[r].cert
      BY <1>0, <3>0, NextStepOfCall
    <3>3. QED
      BY <1>0, <3>1, <3>2 DEF CallMoves, CallFits
  <2>3. QED
    BY <2>1, <2>2
<1>8. CASE AbortCall(r) \/ \E t \in Tokens : InsertQrCode(r, t)
  BY <1>1, <1>8 DEF AbortCall, InsertQrCode
<1>9. QED
  BY <1>2, <1>3, <1>4, <1>5, <1>6, <1>7, <1>8

\* What a step of the scan s makes of its record.
ScanMoves(s) ==
    \E k \in Scan :
        /\ scan' = [scan EXCEPT ![s] = k]
        /\ k.at # "idle" => k.token \in Tokens
        /\ k.token \in Tokens => qrCode[k.token].cert \in Certs
        /\ k.at = "storing" => k.answer \in Answers

\* What is read is an answer, or nothing.
LEMMA AnswerTypes == \A st : AnswerFor(st) \in Answers \cup {None}
BY DEF AnswerFor, Answers

\* A scan that has read the certification.
LEMMA ReadingDone ==
    ASSUME NEW k \in Scan, NEW a \in Answers \cup {None}, NEW m, m = AfterReading(k, a)
    PROVE  /\ m \in Scan
           /\ \/ m.at = "storing" /\ m.token = k.token /\ m.answer = a /\ a \in Answers
              \/ m = IdleScan
<1>1. CASE a = None
  BY <1>1, IdleTypes DEF AfterReading
<1>2. CASE a # None
  <2>1. m = [k EXCEPT !.at = "storing", !.answer = a] /\ a \in Answers
    BY <1>2 DEF AfterReading
  <2>2. QED
    BY <2>1 DEF Scan
<1>3. QED
  BY <1>1, <1>2

LEMMA ScansMove ==
    ASSUME TypeInv, NEW s \in Scanners,
           \/ \E t \in Tokens : MissCache(s, t)
           \/ FindQrCode(s) \/ ReadCertification(s) \/ StoreAnswer(s) \/ AbortScan(s)
    PROVE  ScanMoves(s)
<1>0. scan[s] \in Scan /\ ScanFits(s)
  BY DEF TypeInv, TypeOK
<1>1. ASSUME scan' = [scan EXCEPT ![s] = IdleScan] PROVE ScanMoves(s)
  BY <1>1, IdleTypes, QrAssumption DEF ScanMoves
<1>2. ASSUME NEW t \in Tokens, MissCache(s, t) PROVE ScanMoves(s)
  <2>1. [at |-> "finding", token |-> t, answer |-> None] \in Scan
    BY DEF Scan
  <2>2. qrCode[t].cert \in Certs
    BY <1>2 DEF MissCache, TypeInv, TypeOK, QrRow
  <2>3. QED
    BY <1>2, <2>1, <2>2 DEF MissCache, ScanMoves
<1>3. CASE FindQrCode(s)
  <2>0. PICK m : m = [scan[s] EXCEPT !.at = "reading"]
    OBVIOUS
  <2>1. scan[s].at = "finding"
    BY <1>3 DEF FindQrCode
  <2>2. scan' = [scan EXCEPT ![s] = m] \/ scan' = [scan EXCEPT ![s] = IdleScan]
    BY <1>3, <2>0 DEF FindQrCode
  <2>3. m \in Scan /\ m.at = "reading" /\ m.token = scan[s].token
    BY <1>0, <2>0 DEF Scan
  <2>4. QED
    BY <1>0, <1>1, <2>1, <2>2, <2>3 DEF ScanMoves, ScanFits
<1>4. CASE ReadCertification(s)
  <2> DEFINE a == AnswerFor(status[qrCode[scan[s].token].cert])
  <2>1. PICK m : m = AfterReading(scan[s], a)
    OBVIOUS
  <2>2. scan[s].at = "reading"
    BY <1>4 DEF ReadCertification
  <2>3. scan' = [scan EXCEPT ![s] = m]
    BY <1>4, <2>1 DEF ReadCertification
  <2>4. a \in Answers \cup {None}
    BY AnswerTypes
  <2> HIDE DEF a
  <2>5. /\ m \in Scan
        /\ \/ m.at = "storing" /\ m.token = scan[s].token /\ m.answer = a /\ a \in Answers
           \/ m = IdleScan
    BY <1>0, <2>1, <2>4, ReadingDone
  <2>6. QED
    BY <1>0, <1>1, <2>2, <2>3, <2>4, <2>5 DEF ScanMoves, ScanFits
<1>5. CASE StoreAnswer(s) \/ AbortScan(s)
  BY <1>1, <1>5 DEF StoreAnswer, AbortScan
<1>6. QED
  BY <1>2, <1>3, <1>4, <1>5

\* QR rows stay rows, and none is ever given to another certification.
RowsKept ==
    /\ qrCode' \in [Tokens -> QrRow]
    /\ \A t \in Tokens : qrCode[t].cert # None => qrCode'[t].cert = qrCode[t].cert

\* The steps of one call, of one scan, and of time.
CallStep(r) ==
    \/ \E c \in Certs : GenerateQrCode(r, c) \/ \E op \in StatusOps : Start(r, c, op)
    \/ Commit(r) \/ FindNoActive(r) \/ Evict(r) \/ Deactivate(r)
    \/ \E t \in Tokens : FindActive(r, t) \/ InsertQrCode(r, t)

ScanStep(s) ==
    \/ \E t \in Tokens : MissCache(s, t)
    \/ FindQrCode(s) \/ ReadCertification(s) \/ StoreAnswer(s)

\* The steps of those who move a status and know nothing of QR codes.
OutsideStep ==
    \/ ReceiveLabResults \/ AbortConsumer
    \/ \E c \in Certs : FindWaiting(c) \/ \E mark \in Marks : MarkCertification(c, mark)

\* Every step is one of them.
LEMMA StepsSorted ==
    ASSUME Work
    PROVE  \/ \E r \in Requests : CallStep(r)
           \/ OutsideStep
           \/ \E s \in Scanners : ScanStep(s)
           \/ \E t \in Tokens : ExpireEntry(t) \/ ExpireQrCode(t)
BY QrAssumption DEF Work, CallStep, OutsideStep, ScanStep

\* What they write is of its type, and not a status that is answered.
LEMMA OutsideWrites ==
    ASSUME TypeInv, OutsideStep
    PROVE  /\ UNCHANGED <<qrCode, cache, call, scan>> /\ TypeInv'
           /\ \A c \in Certs : status'[c] # status[c] =>
                status'[c] \notin {"GRANTED", "REVOKED", "RENEWED"}
<1>0. /\ status \in [Certs -> Statuses] /\ received \in Certs \cup {None}
      /\ reopened \in [Certs -> SUBSET Answers]
  BY DEF TypeInv, TypeOK
<1>1. UNCHANGED <<qrCode, cache, call, scan>>
  BY DEF OutsideStep, ReceiveLabResults, FindWaiting, MarkCertification, AbortConsumer
<1>2. /\ status' \in [Certs -> Statuses] /\ received' \in Certs \cup {None}
      /\ reopened' \in [Certs -> SUBSET Answers]
      /\ \A c \in Certs : status'[c] # status[c] =>
           status'[c] \notin {"GRANTED", "REVOKED", "RENEWED"}
  <2>1. CASE ReceiveLabResults
    BY <1>0, <2>1, StatusOpsEdges DEF ReceiveLabResults, Statuses
  <2>2. CASE AbortConsumer \/ \E c \in Certs : FindWaiting(c)
    BY <1>0, <2>2 DEF AbortConsumer, FindWaiting
  <2>3. ASSUME NEW c \in Certs, NEW mark \in Marks, MarkCertification(c, mark)
        PROVE  /\ status' \in [Certs -> Statuses] /\ received' \in Certs \cup {None}
               /\ reopened' \in [Certs -> SUBSET Answers]
               /\ \A d \in Certs : status'[d] # status[d] =>
                    status'[d] \notin {"GRANTED", "REVOKED", "RENEWED"}
    BY <1>0, <2>3 DEF MarkCertification, Marks, Statuses
  <2>4. QED
    BY <2>1, <2>2, <2>3 DEF OutsideStep
<1>3. QED
  BY <1>1, <1>2 DEF TypeInv, TypeOK, CallFits, ScanFits

\* What else the calls write is of its type.
LEMMA CallsWriteTypes ==
    ASSUME TypeInv, NEW r \in Requests, CallStep(r) \/ AbortCall(r)
    PROVE  /\ status' \in [Certs -> Statuses] /\ RowsKept
           /\ cache' \in [Tokens -> Answers \cup {None}] /\ scan' = scan
           /\ received' = received /\ reopened' \in [Certs -> SUBSET Answers]
<1>0. call[r] \in Call /\ CallFits(r)
  BY DEF TypeInv, TypeOK
<1>1. CASE Commit(r)
  <2>1. To(call[r].op) \in Statuses
    BY <1>0, <1>1, StatusOpsEdges DEF Commit, CallFits
  <2>2. QED
    BY <1>1, <2>1 DEF Commit, TypeInv, TypeOK, RowsKept
<1>2. CASE Evict(r)
  BY <1>2 DEF Evict, TypeInv, TypeOK, RowsKept
<1>3. CASE Deactivate(r)
  BY <1>3 DEF Deactivate, TypeInv, TypeOK, RowsKept, QrRow
<1>4. ASSUME NEW t \in Tokens, InsertQrCode(r, t)
      PROVE  RowsKept /\ UNCHANGED <<statusVars, cache, scan>>
  <2>1. [cert |-> call[r].cert, isActive |-> TRUE, expired |-> FALSE] \in QrRow
    BY <1>0, <1>4 DEF InsertQrCode, CallFits, QrRow
  <2>2. QED
    BY <1>4, <2>1 DEF InsertQrCode, TypeInv, TypeOK, RowsKept
<1>5. ASSUME \/ \E c \in Certs : GenerateQrCode(r, c) \/ \E op \in StatusOps : Start(r, c, op)
             \/ FindNoActive(r) \/ AbortCall(r) \/ \E t \in Tokens : FindActive(r, t)
      PROVE  UNCHANGED <<statusVars, qrCode, cache, scan>>
  BY <1>5 DEF GenerateQrCode, Start, FindNoActive, AbortCall, FindActive
<1>6. QED
  BY <1>1, <1>2, <1>3, <1>4, <1>5 DEF CallStep, TypeInv, TypeOK, RowsKept

\* A certificate's rows and scans go on fitting while rows are kept.
LEMMA ScansStillFit ==
    ASSUME TypeInv, RowsKept, scan' = scan
    PROVE  \A s \in Scanners : ScanFits(s)'
BY QrAssumption DEF TypeInv, TypeOK, ScanFits, RowsKept, Scan

LEMMA TypeStep == TypeInv /\ [Work \/ Fail]_vars => TypeInv'
<1> SUFFICES ASSUME TypeInv, [Work \/ Fail]_vars PROVE TypeInv'
  OBVIOUS
<1>1. ASSUME NEW r \in Requests, CallStep(r) \/ AbortCall(r) PROVE TypeInv'
  <2>1. PICK k \in Call :
           /\ call' = [call EXCEPT ![r] = k]
           /\ k.at # "idle" => k.cert \in Certs
           /\ k.at = "saving" => k.op \in StatusOps
           /\ k.at = "evicting" => k.token \in Tokens
    BY <1>1, CallsMove DEF CallMoves, CallStep
  <2>2. call' \in [Requests -> Call] /\ \A q \in Requests : CallFits(q)'
    BY <2>1, OneCallFits
  <2>3. /\ status' \in [Certs -> Statuses] /\ RowsKept
        /\ cache' \in [Tokens -> Answers \cup {None}] /\ scan' = scan
        /\ received' = received /\ reopened' \in [Certs -> SUBSET Answers]
    BY <1>1, CallsWriteTypes
  <2>4. \A s \in Scanners : ScanFits(s)'
    BY <2>3, ScansStillFit
  <2>5. QED
    BY <2>2, <2>3, <2>4 DEF TypeInv, TypeOK, RowsKept
<1>2. ASSUME NEW s \in Scanners, ScanStep(s) \/ AbortScan(s) PROVE TypeInv'
  <2>1. PICK k \in Scan :
           /\ scan' = [scan EXCEPT ![s] = k]
           /\ k.at # "idle" => k.token \in Tokens
           /\ k.token \in Tokens => qrCode[k.token].cert \in Certs
           /\ k.at = "storing" => k.answer \in Answers
    BY <1>2, ScansMove DEF ScanMoves, ScanStep
  <2>2. UNCHANGED <<statusVars, qrCode, call>>
    BY <1>2 DEF ScanStep, MissCache, FindQrCode, ReadCertification, StoreAnswer, AbortScan
  <2>3. scan' \in [Scanners -> Scan] /\ \A q \in Scanners : ScanFits(q)'
    BY <2>1, <2>2, OneScanFits
  <2>4. CASE StoreAnswer(s)
    <3>1. scan[s].token \in Tokens /\ scan[s].answer \in Answers
      BY <2>4 DEF StoreAnswer, TypeInv, ScanFits
    <3>2. cache' \in [Tokens -> Answers \cup {None}]
      BY <2>4, <3>1 DEF StoreAnswer, TypeInv, TypeOK
    <3>3. QED
      BY <2>2, <2>3, <3>2 DEF TypeInv, TypeOK, CallFits
  <2>5. CASE ~StoreAnswer(s)
    <3>1. UNCHANGED cache
      BY <1>2, <2>5 DEF ScanStep, MissCache, FindQrCode, ReadCertification, AbortScan
    <3>2. QED
      BY <2>2, <2>3, <3>1 DEF TypeInv, TypeOK, CallFits
  <2>6. QED
    BY <2>4, <2>5
<1>3. ASSUME NEW t \in Tokens, ExpireEntry(t) PROVE TypeInv'
  BY <1>3 DEF ExpireEntry, TypeInv, TypeOK, CallFits, ScanFits
<1>4. ASSUME NEW t \in Tokens, ExpireQrCode(t) PROVE TypeInv'
  <2>1. RowsKept
    BY <1>4 DEF ExpireQrCode, TypeInv, TypeOK, RowsKept, QrRow
  <2>2. \A s \in Scanners : ScanFits(s)'
    BY <1>4, <2>1, ScansStillFit DEF ExpireQrCode
  <2>3. QED
    BY <1>4, <2>1, <2>2 DEF ExpireQrCode, TypeInv, TypeOK, CallFits, RowsKept
<1>5. CASE OutsideStep
  BY <1>5, OutsideWrites
<1>6. CASE UNCHANGED vars
  BY <1>6 DEF vars, TypeInv, TypeOK, CallFits, ScanFits
<1>7. QED
  BY <1>1, <1>2, <1>3, <1>4, <1>5, <1>6, StepsSorted DEF Fail

LEMMA TypeStart == Init => TypeInv
<1> SUFFICES ASSUME Init PROVE TypeInv
  OBVIOUS
<1>1. NotIssued \in QrRow
  BY DEF NotIssued, QrRow
<1>2. TypeOK
  BY <1>1, IdleTypes DEF Init, TypeOK, Statuses
<1>3. \A r \in Requests : CallFits(r)
  BY IdleTypes DEF Init, CallFits
<1>4. \A s \in Scanners : ScanFits(s)
  BY IdleTypes, QrAssumption DEF Init, ScanFits
<1>5. QED
  BY <1>2, <1>3, <1>4 DEF TypeInv

\* For any number of operator calls and scans, whichever of them fail, only positive
\* and "renewed" answers are ever stored, and rows, calls and scans keep their shapes.
\* (QrCodeService.verifyQrCode: "REVOKED, not-found, expired are never cached")
THEOREM QrTypes == Spec => []TypeOK
<1>1. TypeInv => TypeOK
  BY DEF TypeInv
<1>2. QED
  BY <1>1, TypeStart, TypeStep, PTL DEF Spec

-----------------------------------------------------------------------------
(* Calls that overlap *)

\* An active code of a certification, and a call about to give it another.
Counted(c) ==
    /\ IsFiniteSet(ActiveTokensOf(c))
    /\ Cardinality(ActiveTokensOf(c)) + Cardinality(AboutToInsert(c)) <= Cardinality(Requests)

CountInv == TypeInv /\ \A c \in Certs : Counted(c)

\* Rows that keep their certification and their flag.
LEMMA SameActive ==
    ASSUME NEW c, \A t \in Tokens : /\ (qrCode'[t].cert = c) = (qrCode[t].cert = c)
                                    /\ qrCode[t].cert = c =>
                                         qrCode'[t].isActive = qrCode[t].isActive
    PROVE  ActiveTokensOf(c)' = ActiveTokensOf(c)
BY DEF ActiveTokensOf, TokensOf

\* The calls about to insert are some of the calls.
LEMMA InsertingFinite ==
    ASSUME IsFiniteSet(Requests), NEW c
    PROVE  /\ IsFiniteSet(AboutToInsert(c)) /\ IsFiniteSet(AboutToInsert(c)')
           /\ Cardinality(AboutToInsert(c)) \in Nat
           /\ Cardinality(AboutToInsert(c)') \in Nat /\ Cardinality(Requests) \in Nat
           /\ Cardinality(AboutToInsert(c)') <= Cardinality(Requests)
<1>1. /\ AboutToInsert(c) \in SUBSET Requests /\ AboutToInsert(c)' \in SUBSET Requests
  BY DEF AboutToInsert
<1>2. QED
  BY <1>1, FS_Subset, FS_CardinalityType

\* Nothing new is active and no call has come closer to its insert.
LEMMA NoMoreActive ==
    ASSUME IsFiniteSet(Requests), NEW c, Counted(c),
           ActiveTokensOf(c)' \subseteq ActiveTokensOf(c),
           AboutToInsert(c)' \subseteq AboutToInsert(c)
    PROVE  Counted(c)'
<1>1. /\ IsFiniteSet(ActiveTokensOf(c)')
      /\ Cardinality(ActiveTokensOf(c)') <= Cardinality(ActiveTokensOf(c))
      /\ Cardinality(AboutToInsert(c)') <= Cardinality(AboutToInsert(c))
      /\ Cardinality(ActiveTokensOf(c)) \in Nat /\ Cardinality(ActiveTokensOf(c)') \in Nat
  BY InsertingFinite, FS_Subset, FS_CardinalityType DEF Counted
<1>2. QED
  BY <1>1, InsertingFinite DEF Counted

\* A call that does not come from deactivating is not about to insert.
LEMMA InsertsAfterDeactivating ==
    ASSUME TypeInv, NEW r \in Requests, CallStep(r) \/ AbortCall(r), ~Deactivate(r)
    PROVE  \A c : AboutToInsert(c)' \subseteq AboutToInsert(c)
<1>0. call \in [Requests -> Call] /\ call[r] \in Call
  BY DEF TypeInv, TypeOK
<1>1. ASSUME NEW m, call' = [call EXCEPT ![r] = m], m.at # "inserting"
      PROVE  \A c : AboutToInsert(c)' \subseteq AboutToInsert(c)
  BY <1>0, <1>1 DEF AboutToInsert
<1>2. CASE AbortCall(r) \/ \E t \in Tokens : InsertQrCode(r, t)
  BY <1>1, <1>2, IdleTypes DEF AbortCall, InsertQrCode
<1>3. CASE \E c \in Certs : GenerateQrCode(r, c) \/ \E op \in StatusOps : Start(r, c, op)
  BY <1>1, <1>3 DEF GenerateQrCode, Start
<1>4. CASE Commit(r)
  <2>1. PICK m : m = AfterCommit(call[r])
    OBVIOUS
  <2>2. m.at # "inserting"
    BY <1>0, <2>1, Committed, IdleTypes
  <2>3. QED
    BY <1>1, <1>4, <2>1, <2>2 DEF Commit
<1>5. CASE FindNoActive(r) \/ Evict(r)
  <2>1. PICK m : m = AfterEviction(call[r])
    OBVIOUS
  <2>2. m.at # "inserting"
    BY <1>0, <2>1, CacheDone, IdleTypes
  <2>3. QED
    BY <1>1, <1>5, <2>1, <2>2 DEF FindNoActive, Evict
<1>6. CASE \E t \in Tokens : FindActive(r, t)
  <2>1. PICK t \in Tokens : FindActive(r, t)
    BY <1>6
  <2>2. PICK m : m = [call[r] EXCEPT !.at = "evicting", !.token = t]
    OBVIOUS
  <2>3. m.at = "evicting"
    BY <1>0, <2>2 DEF Call
  <2>4. QED
    BY <1>1, <2>1, <2>2, <2>3 DEF FindActive
<1>7. QED
  BY <1>2, <1>3, <1>4, <1>5, <1>6 DEF CallStep

\* The rows of the certification are inactive, however many calls are about to insert.
LEMMA DeactivateKeepsCount ==
    ASSUME IsFiniteSet(Requests), CountInv, NEW r \in Requests, Deactivate(r), NEW c \in Certs
    PROVE  Counted(c)'
<1>0. /\ call \in [Requests -> Call] /\ call[r] \in Call
      /\ qrCode \in [Tokens -> QrRow] /\ Counted(c)
  BY DEF CountInv, TypeInv, TypeOK
<1>1. \A t \in Tokens :
        /\ qrCode'[t].cert = qrCode[t].cert
        /\ IF qrCode[t].cert = call[r].cert THEN ~qrCode'[t].isActive
           ELSE qrCode'[t].isActive = qrCode[t].isActive
  BY <1>0 DEF Deactivate, QrRow
<1>2. CASE c = call[r].cert
  <2>1. ActiveTokensOf(c)' = {}
    BY <1>1, <1>2 DEF ActiveTokensOf, TokensOf
  <2>2. QED
    BY <2>1, InsertingFinite, FS_EmptySet DEF Counted
<1>3. CASE c # call[r].cert
  <2>1. ActiveTokensOf(c)' = ActiveTokensOf(c)
    BY <1>1, <1>3, SameActive
  <2>2. PICK m : m = [call[r] EXCEPT !.at = "inserting"]
    OBVIOUS
  <2>3. m.cert = call[r].cert
    BY <1>0, <2>2 DEF Call
  <2>4. call' = [call EXCEPT ![r] = m] \/ call' = [call EXCEPT ![r] = IdleCall]
    BY <2>2 DEF Deactivate
  <2>5. AboutToInsert(c)' \subseteq AboutToInsert(c)
    BY <1>0, <1>3, <2>3, <2>4, IdleTypes DEF AboutToInsert
  <2>6. QED
    BY <1>0, <2>1, <2>5, NoMoreActive
<1>4. QED
  BY <1>2, <1>3

\* A call that inserts is then no longer about to.
LEMMA InsertKeepsCount ==
    ASSUME IsFiniteSet(Requests), CountInv, NEW r \in Requests, NEW t \in Tokens,
           InsertQrCode(r, t), NEW c \in Certs
    PROVE  Counted(c)'
<1>0. /\ call \in [Requests -> Call] /\ call[r].cert \in Certs
      /\ qrCode \in [Tokens -> QrRow] /\ Counted(c)
  BY DEF CountInv, TypeInv, TypeOK, CallFits, InsertQrCode
<1>1. /\ qrCode[t].cert = None /\ qrCode'[t].cert = call[r].cert /\ qrCode'[t].isActive
      /\ \A u \in Tokens : u # t => qrCode'[u] = qrCode[u]
  BY <1>0 DEF InsertQrCode
<1>2. CASE c = call[r].cert
  <2>1. t \notin ActiveTokensOf(c) /\ ActiveTokensOf(c)' = ActiveTokensOf(c) \cup {t}
    BY <1>1, <1>2, QrAssumption DEF ActiveTokensOf, TokensOf
  <2>2. r \in AboutToInsert(c) /\ AboutToInsert(c)' = AboutToInsert(c) \ {r}
    BY <1>0, <1>2, IdleTypes DEF AboutToInsert, InsertQrCode
  <2>3. /\ IsFiniteSet(ActiveTokensOf(c)')
        /\ Cardinality(ActiveTokensOf(c)') = Cardinality(ActiveTokensOf(c)) + 1
        /\ Cardinality(ActiveTokensOf(c)) \in Nat
    BY <1>0, <2>1, FS_AddElement, FS_CardinalityType DEF Counted
  <2>4. Cardinality(AboutToInsert(c)') = Cardinality(AboutToInsert(c)) - 1
    BY <2>2, InsertingFinite, FS_RemoveElement
  <2>5. QED
    BY <1>0, <2>3, <2>4, InsertingFinite DEF Counted
<1>3. CASE c # call[r].cert
  <2>1. ActiveTokensOf(c)' = ActiveTokensOf(c)
    BY <1>1, <1>3, SameActive, QrAssumption
  <2>2. AboutToInsert(c)' \subseteq AboutToInsert(c)
    BY <1>0, <1>3, IdleTypes DEF AboutToInsert, InsertQrCode
  <2>3. QED
    BY <1>0, <2>1, <2>2, NoMoreActive
<1>4. QED
  BY <1>2, <1>3

LEMMA CountStep ==
    ASSUME IsFiniteSet(Requests), CountInv, [Work \/ Fail]_vars
    PROVE  CountInv'
<1>0. TypeInv /\ TypeInv'
  BY TypeStep DEF CountInv
<1> SUFFICES ASSUME NEW c \in Certs PROVE Counted(c)'
  BY <1>0 DEF CountInv
<1>1. Counted(c)
  BY DEF CountInv
<1>2. ASSUME NEW r \in Requests, CallStep(r) \/ AbortCall(r) PROVE Counted(c)'
  <2>1. CASE Deactivate(r)
    BY <2>1, DeactivateKeepsCount
  <2>2. CASE \E t \in Tokens : InsertQrCode(r, t)
    BY <2>2, InsertKeepsCount
  <2>3. CASE ~Deactivate(r) /\ ~\E t \in Tokens : InsertQrCode(r, t)
    <3>1. UNCHANGED qrCode
      BY <1>2, <2>3 DEF CallStep, AbortCall, GenerateQrCode, Start, Commit, FindNoActive,
                        Evict, FindActive
    <3>2. ActiveTokensOf(c)' = ActiveTokensOf(c)
      BY <3>1 DEF ActiveTokensOf, TokensOf
    <3>3. QED
      BY <1>0, <1>1, <1>2, <2>3, <3>2, InsertsAfterDeactivating, NoMoreActive
  <2>4. QED
    BY <2>1, <2>2, <2>3
<1>3. ASSUME UNCHANGED call,
             \A t \in Tokens : /\ qrCode'[t].cert = qrCode[t].cert
                               /\ qrCode'[t].isActive = qrCode[t].isActive
      PROVE  Counted(c)'
  <2>1. ActiveTokensOf(c)' = ActiveTokensOf(c) /\ AboutToInsert(c)' = AboutToInsert(c)
    BY <1>3 DEF ActiveTokensOf, TokensOf, AboutToInsert
  <2>2. QED
    BY <1>1, <2>1, NoMoreActive
<1>4. ASSUME NEW s \in Scanners, ScanStep(s) \/ AbortScan(s) PROVE Counted(c)'
  BY <1>3, <1>4 DEF ScanStep, MissCache, FindQrCode, ReadCertification, StoreAnswer, AbortScan
<1>5. ASSUME NEW t \in Tokens, ExpireEntry(t) \/ ExpireQrCode(t) PROVE Counted(c)'
  <2>1. /\ UNCHANGED call
        /\ \A u \in Tokens : /\ qrCode'[u].cert = qrCode[u].cert
                             /\ qrCode'[u].isActive = qrCode[u].isActive
    BY <1>0, <1>5 DEF ExpireEntry, ExpireQrCode, TypeInv, TypeOK, QrRow
  <2>2. QED
    BY <1>3, <2>1
<1>6. CASE OutsideStep \/ UNCHANGED vars
  <2>1. UNCHANGED <<call, qrCode>>
    BY <1>0, <1>6, OutsideWrites DEF vars
  <2>2. QED
    BY <1>3, <2>1
<1>7. QED
  BY <1>2, <1>4, <1>5, <1>6, StepsSorted DEF Fail

\* However operator calls overlap and wherever they die: the active QR codes of a
\* certification and the calls about to give it another are never more than the calls
\* that can be in flight at once.
\* (QrCodeService.generateQrCode: deactivate, then insert, in two statements)
THEOREM ActiveCodesBounded ==
    ASSUME IsFiniteSet(Requests)
    PROVE  Spec => []ActiveWithinCalls
<1>1. Init => CountInv
  <2> SUFFICES ASSUME Init, NEW c \in Certs PROVE Counted(c)
    BY TypeStart DEF CountInv
  <2>1. ActiveTokensOf(c) = {} /\ AboutToInsert(c) = {}
    BY QrAssumption DEF Init, ActiveTokensOf, TokensOf, NotIssued, AboutToInsert, IdleCall
  <2>2. QED
    BY <2>1, FS_EmptySet, InsertingFinite DEF Counted
<1>2. CountInv /\ [Work \/ Fail]_vars => CountInv'
  BY CountStep
<1>3. CountInv => ActiveWithinCalls
  BY DEF CountInv, Counted, ActiveWithinCalls
<1>4. QED
  BY <1>1, <1>2, <1>3, PTL DEF Spec

-----------------------------------------------------------------------------
(* Calls made one at a time *)

\* The statuses of a certification that has been granted, and those of one whose
\* laboratory results are still to come.
Decided == {"GRANTED", "REVOKED", "RENEWED"}
BeforeResults == {"INSPECTION_SCHEDULED", "INSPECTION_IN_PROGRESS", "INSPECTION_COMPLETE",
                  "LAB_TESTING"}

\* The operations on either side of the results.
EarlyOps == {"startInspection", "completeInspectionChain", "requestLab"}
FinalOps == {"startFinalReview", "grantCertification", "denyCertification",
             "revokeCertification", "renewCertification"}

LEMMA OpsSplit ==
    /\ StatusOps = EarlyOps \cup FinalOps
    /\ \A op \in EarlyOps : From(op) \in BeforeResults /\ To(op) \in BeforeResults
                            /\ op \notin FinalOps
    /\ \A op \in FinalOps : From(op) \notin BeforeResults
    /\ \A op \in FinalOps : From(op) \in Decided =>
         /\ From(op) = "GRANTED" /\ To(op) \in Decided
    /\ \A st \in BeforeResults : st \notin Decided
    /\ Marks \subseteq BeforeResults /\ "LAB_TESTING" \notin Marks
    /\ "LAB_TESTING" \in BeforeResults /\ "LAB_RESULTS_RECEIVED" \notin Decided
BY DEF StatusOps, EarlyOps, FinalOps, BeforeResults, Decided, Marks, From, To, Edge

\* A call made on its own that is about to save finds the certification as it was, or
\* moved by others to where it has not been granted.  What the consumer is about to
\* move on is still without results, whatever has happened to it, and no call on it
\* is one that comes after them.
Undisturbed(r) ==
    LET k == call[r]
    IN /\ k.at = "saving" /\ k.op \in FinalOps =>
            /\ status[k.cert] = From(k.op) \/ status[k.cert] \in Marks
            /\ received # k.cert
       /\ k.at = "saving" /\ k.op \in EarlyOps => status[k.cert] \notin Decided
       /\ received # None => status[received] \in BeforeResults

\* A scan is told a of the certification of t, now or as soon as it stores.
Says(t, a) == cache[t] = a \/ \E s \in Scanners : scan[s].token = t /\ scan[s].answer = a

\* The answer a about c is late, or an inspection has overtaken it.
Follows(c, a) == status[c] \in After(a) \/ a \in reopened[c]

\* What one token is told, and that nothing is told of a token nobody has issued.
ToldFits(t) ==
    /\ qrCode[t].cert = None => cache[t] = None
    /\ qrCode[t].cert # None => \A a \in Answers : Says(t, a) => Follows(qrCode[t].cert, a)

AnswerInv(r) == TypeInv /\ Undisturbed(r) /\ \A t \in Tokens : ToldFits(t)

\* The one active QR code, except while the call is about to replace it; and what
\* the call knows of the certification it works on.
OneActive(c) == \E t \in Tokens : ActiveTokensOf(c) = {t}

Replacing(r, c) == call[r].at \in {"deactivating", "inserting"} /\ call[r].cert = c

CallKnows(r) ==
    LET k == call[r]
    IN /\ k.at = "saving" /\ k.op = "renewCertification" => OneActive(k.cert)
       /\ k.at \in {"finding", "evicting"} =>
            k.op \in {"revokeCertification", "renewCertification"}
       /\ k.at \in {"finding", "evicting", "deactivating"} /\ k.op = "revokeCertification" =>
            status[k.cert] \notin {"GRANTED", "RENEWED"}
       /\ k.at = "inserting" => ActiveTokensOf(k.cert) = {}

ActiveInv(r) ==
    /\ TypeInv
    /\ CallKnows(r)
    /\ \A c \in Certs : status[c] \in {"GRANTED", "RENEWED"} /\ ~Replacing(r, c) => OneActive(c)

\* What one call does to the status of its certification.
LEMMA StatusMoves ==
    ASSUME TypeInv, NEW r \in Requests, CallStep(r) \/ AbortCall(r)
    PROVE  /\ received' = received
           /\ \/ status' = status /\ reopened' = reopened
              \/ /\ Commit(r) /\ call[r].at = "saving"
                 /\ call[r].op \in StatusOps /\ call[r].cert \in Certs
                 /\ status' = [status EXCEPT ![call[r].cert] = To(call[r].op)]
                 /\ reopened' = [reopened EXCEPT ![call[r].cert] =
                                   {a \in @ : To(call[r].op) \notin After(a)}]
<1>1. CASE Commit(r)
  BY <1>1 DEF Commit, TypeInv, CallFits
<1>2. CASE ~Commit(r)
  BY <1>2 DEF CallStep, GenerateQrCode, Start, FindNoActive, Evict, Deactivate, FindActive,
              InsertQrCode, AbortCall
<1>3. QED
  BY <1>1, <1>2

\* A call is only ever about to save what it has just found, or found before.
LEMMA SavesWhatItFound ==
    ASSUME TypeInv, NEW r \in Requests, CallStep(r) \/ AbortCall(r), call'[r].at = "saving"
    PROVE  \E c \in Certs, op \in StatusOps :
              /\ call'[r].op = op /\ call'[r].cert = c
              /\ status[c] = From(op) /\ UNCHANGED statusVars
<1>0. call[r] \in Call /\ call \in [Requests -> Call]
  BY DEF TypeInv, TypeOK
<1>1. ASSUME NEW c \in Certs, NEW op \in StatusOps, Start(r, c, op)
      PROVE  call'[r].op = op /\ call'[r].cert = c /\ status[c] = From(op)
             /\ UNCHANGED statusVars
  BY <1>0, <1>1 DEF Start
<1>2. ~\E c \in Certs : GenerateQrCode(r, c)
  BY <1>0 DEF GenerateQrCode
<1>3. ~Commit(r)
  <2> SUFFICES ASSUME Commit(r) PROVE FALSE
    OBVIOUS
  <2>0. PICK m : m = AfterCommit(call[r])
    OBVIOUS
  <2>1. call'[r] = m
    BY <1>0, <2>0 DEF Commit
  <2>2. m.at # "saving"
    BY <1>0, <2>0, Committed, IdleTypes
  <2>3. QED
    BY <2>1, <2>2
<1>4. ~(FindNoActive(r) \/ Evict(r))
  <2> SUFFICES ASSUME FindNoActive(r) \/ Evict(r) PROVE FALSE
    OBVIOUS
  <2>0. PICK m : m = AfterEviction(call[r])
    OBVIOUS
  <2>1. call'[r] = m
    BY <1>0, <2>0 DEF FindNoActive, Evict
  <2>2. m.at # "saving"
    BY <1>0, <2>0, CacheDone, IdleTypes
  <2>3. QED
    BY <2>1, <2>2
<1>5. ~Deactivate(r)
  <2> SUFFICES ASSUME Deactivate(r) PROVE FALSE
    OBVIOUS
  <2>1. call'[r] = IdleCall \/ call'[r] = [call[r] EXCEPT !.at = "inserting"]
    BY <1>0 DEF Deactivate
  <2>2. QED
    BY <1>0, <2>1, IdleTypes, NextStepOfCall
<1>6. ~\E t \in Tokens : FindActive(r, t)
  <2> SUFFICES ASSUME NEW t \in Tokens, FindActive(r, t) PROVE FALSE
    OBVIOUS
  <2>1. call'[r] = [call[r] EXCEPT !.at = "evicting", !.token = t]
    BY <1>0 DEF FindActive
  <2>2. call'[r].at = "evicting"
    BY <1>0, <2>1 DEF Call
  <2>3. QED
    BY <2>2
<1>7. ~(AbortCall(r) \/ \E t \in Tokens : InsertQrCode(r, t))
  BY <1>0, IdleTypes DEF AbortCall, InsertQrCode
<1>8. QED
  BY <1>1, <1>2, <1>3, <1>4, <1>5, <1>6, <1>7 DEF CallStep

LEMMA StillUndisturbed ==
    ASSUME TypeInv, NEW r \in Requests, Undisturbed(r), CallStep(r) \/ AbortCall(r)
    PROVE  Undisturbed(r)'
<1>0. /\ status \in [Certs -> Statuses] /\ received \in Certs \cup {None}
      /\ received' = received
  BY StatusMoves DEF TypeInv, TypeOK
<1>1. received' # None => status'[received'] \in BeforeResults
  <2>1. CASE status' = status
    BY <1>0, <2>1 DEF Undisturbed
  <2>2. CASE /\ call[r].at = "saving" /\ call[r].op \in StatusOps /\ call[r].cert \in Certs
             /\ status' = [status EXCEPT ![call[r].cert] = To(call[r].op)]
    <3>1. CASE received = call[r].cert
      BY <1>0, <2>2, <3>1, OpsSplit DEF Undisturbed
    <3>2. CASE received # call[r].cert
      BY <1>0, <2>2, <3>2 DEF Undisturbed
    <3>3. QED
      BY <3>1, <3>2
  <2>3. QED
    BY <2>1, <2>2, StatusMoves
<1>2. CASE call'[r].at # "saving"
  BY <1>1, <1>2 DEF Undisturbed
<1>3. CASE call'[r].at = "saving"
  <2>1. PICK c \in Certs, op \in StatusOps :
           /\ call'[r].op = op /\ call'[r].cert = c
           /\ status[c] = From(op) /\ UNCHANGED statusVars
    BY <1>3, SavesWhatItFound
  <2>2. op \in FinalOps => received # c
    BY <1>0, <2>1, OpsSplit, QrAssumption DEF Undisturbed
  <2>3. op \in EarlyOps => status[c] \notin Decided
    BY <2>1, OpsSplit
  <2>4. QED
    BY <1>1, <2>1, <2>2, <2>3 DEF Undisturbed
<1>4. QED
  BY <1>2, <1>3

\* The consumer and the inspections leave a call on its own as undisturbed.
LEMMA UndisturbedOutside ==
    ASSUME TypeInv, NEW r \in Requests, Undisturbed(r), OutsideStep
    PROVE  Undisturbed(r)'
<1>0. /\ status \in [Certs -> Statuses] /\ received \in Certs \cup {None}
      /\ call[r].at = "saving" => call[r].cert \in Certs
      /\ None \notin Certs
  BY QrAssumption DEF TypeInv, TypeOK, CallFits
<1>1. UNCHANGED call
  BY OutsideWrites
<1>2. CASE ReceiveLabResults
  BY <1>0, <1>1, <1>2, StatusOpsEdges, OpsSplit DEF ReceiveLabResults, Undisturbed
<1>3. CASE AbortConsumer
  BY <1>0, <1>1, <1>3 DEF AbortConsumer, Undisturbed
<1>4. ASSUME NEW c \in Certs, FindWaiting(c) PROVE Undisturbed(r)'
  BY <1>0, <1>1, <1>4, StatusOpsEdges, OpsSplit DEF FindWaiting, Undisturbed
<1>5. ASSUME NEW c \in Certs, NEW mark \in Marks, MarkCertification(c, mark)
      PROVE  Undisturbed(r)'
  BY <1>0, <1>1, <1>5, OpsSplit DEF MarkCertification, Undisturbed
<1>6. QED
  BY <1>2, <1>3, <1>4, <1>5 DEF OutsideStep

\* After an answer come decided statuses only, and all of them after "valid".
LEMMA AfterAnswers ==
    /\ \A a : After(a) \subseteq Decided
    /\ \A a : "GRANTED" \in After(a) => After(a) = Decided
BY DEF After, Decided

\* An answer that follows goes on following: the call moves a certification that is
\* past an answer only to where that answer is still late.
LEMMA FollowsBesideCall ==
    ASSUME TypeInv, NEW r \in Requests, Undisturbed(r), CallStep(r) \/ AbortCall(r),
           NEW c \in Certs, NEW a, Follows(c, a)
    PROVE  Follows(c, a)'
<1>0. status \in [Certs -> Statuses] /\ reopened \in [Certs -> SUBSET Answers]
  BY DEF TypeInv, TypeOK
<1>1. CASE status' = status /\ reopened' = reopened
  BY <1>1 DEF Follows
<1>2. CASE /\ call[r].at = "saving" /\ call[r].op \in StatusOps /\ call[r].cert \in Certs
           /\ status' = [status EXCEPT ![call[r].cert] = To(call[r].op)]
           /\ reopened' = [reopened EXCEPT ![call[r].cert] =
                             {b \in @ : To(call[r].op) \notin After(b)}]
  <2>1. CASE c # call[r].cert
    BY <1>0, <1>2, <2>1 DEF Follows
  <2>2. CASE c = call[r].cert /\ status[c] \in After(a)
    <3>1. status[c] \in Decided
      BY <2>2, AfterAnswers
    <3>2. call[r].op \in FinalOps /\ status[c] = From(call[r].op)
      BY <1>2, <2>2, <3>1, OpsSplit DEF Undisturbed
    <3>3. To(call[r].op) \in After(a)
      BY <2>2, <3>1, <3>2, OpsSplit, AfterAnswers
    <3>4. QED
      BY <1>0, <1>2, <2>2, <3>3 DEF Follows
  <2>3. CASE c = call[r].cert /\ a \in reopened[c]
    BY <1>0, <1>2, <2>3 DEF Follows
  <2>4. QED
    BY <2>1, <2>2, <2>3 DEF Follows
<1>3. QED
  BY <1>1, <1>2, StatusMoves

\* An inspection that moves a certification past an answer overtakes it.
LEMMA FollowsOutside ==
    ASSUME TypeInv, NEW r \in Requests, Undisturbed(r), OutsideStep,
           NEW c \in Certs, NEW a \in Answers, Follows(c, a)
    PROVE  Follows(c, a)'
<1>0. /\ status \in [Certs -> Statuses] /\ reopened \in [Certs -> SUBSET Answers]
      /\ received \in Certs \cup {None}
  BY DEF TypeInv, TypeOK
<1>1. CASE ReceiveLabResults
  <2>1. status[received] \notin After(a)
    BY <1>1, OpsSplit, AfterAnswers DEF ReceiveLabResults, Undisturbed
  <2>2. QED
    BY <1>0, <1>1, <2>1 DEF ReceiveLabResults, Follows
<1>2. CASE AbortConsumer \/ \E d \in Certs : FindWaiting(d)
  BY <1>2 DEF AbortConsumer, FindWaiting, Follows
<1>3. ASSUME NEW d \in Certs, NEW mark \in Marks, MarkCertification(d, mark)
      PROVE  Follows(c, a)'
  BY <1>0, <1>3 DEF MarkCertification, Follows
<1>4. QED
  BY <1>1, <1>2, <1>3 DEF OutsideStep

\* Who says nothing to scanners leaves what is said as it is, or takes it back.
LEMMA ToldBeside ==
    ASSUME TypeInv, \A t \in Tokens : ToldFits(t), scan' = scan, RowsKept,
           \A t \in Tokens : cache'[t] = cache[t] \/ cache'[t] = None,
           \A c \in Certs, a \in Answers : Follows(c, a) => Follows(c, a)'
    PROVE  \A t \in Tokens : ToldFits(t)'
<1>0. TypeOK /\ \A a \in Answers : a # None
  BY QrAssumption DEF TypeInv, Answers
<1>1. SUFFICES ASSUME NEW t \in Tokens PROVE ToldFits(t)'
  OBVIOUS
<1>2. qrCode[t].cert \in Certs \cup {None}
  BY <1>0 DEF TypeOK, QrRow
<1>3. \A a \in Answers : Says(t, a)' => Says(t, a)
  BY <1>0 DEF Says
<1>4. CASE qrCode[t].cert # None
  <2>1. qrCode'[t].cert = qrCode[t].cert /\ qrCode[t].cert \in Certs
    BY <1>2, <1>4 DEF RowsKept
  <2>2. \A a \in Answers : Says(t, a)' => Follows(qrCode[t].cert, a)'
    BY <1>3, <1>4, <2>1 DEF ToldFits
  <2>3. QED
    BY <1>4, <2>1, <2>2, QrAssumption DEF ToldFits, Follows
<1>5. CASE qrCode[t].cert = None
  <2>1. cache'[t] = None /\ \A s \in Scanners : scan[s].token # t
    BY <1>0, <1>5, QrAssumption DEF ToldFits, TypeInv, ScanFits
  <2>2. \A a \in Answers : ~Says(t, a)'
    BY <1>0, <2>1 DEF Says
  <2>3. QED
    BY <2>1, <2>2 DEF ToldFits
<1>6. QED
  BY <1>4, <1>5

LEMMA ToldBesideCall ==
    ASSUME NEW r \in Requests, AnswerInv(r), CallStep(r) \/ AbortCall(r)
    PROVE  \A t \in Tokens : ToldFits(t)'
<1>0. TypeInv /\ TypeOK
  BY DEF AnswerInv, TypeInv
<1>1. scan' = scan /\ RowsKept
  BY <1>0, CallsWriteTypes
<1>2. \A t \in Tokens : cache'[t] = cache[t] \/ cache'[t] = None
  BY <1>0 DEF TypeOK, CallStep, GenerateQrCode, Start, Commit, FindNoActive, Evict, Deactivate,
              FindActive, InsertQrCode, AbortCall
<1>3. \A c \in Certs, a \in Answers : Follows(c, a) => Follows(c, a)'
  BY FollowsBesideCall DEF AnswerInv
<1>4. QED
  BY <1>0, <1>1, <1>2, <1>3, ToldBeside DEF AnswerInv

LEMMA ToldOutside ==
    ASSUME NEW r \in Requests, AnswerInv(r), OutsideStep
    PROVE  \A t \in Tokens : ToldFits(t)'
<1>0. TypeInv
  BY DEF AnswerInv
<1>1. UNCHANGED <<qrCode, cache, scan>> /\ RowsKept
  BY <1>0, OutsideWrites DEF RowsKept, TypeInv, TypeOK
<1>2. \A c \in Certs, a \in Answers : Follows(c, a) => Follows(c, a)'
  BY FollowsOutside DEF AnswerInv
<1>3. QED
  BY <1>0, <1>1, <1>2, ToldBeside DEF AnswerInv

\* A scan only says of a certification what it has read there.
LEMMA ToldByScan ==
    ASSUME NEW s \in Scanners, TypeInv, \A t \in Tokens : ToldFits(t),
           ScanStep(s) \/ AbortScan(s)
    PROVE  \A t \in Tokens : ToldFits(t)'
<1>0. /\ scan \in [Scanners -> Scan] /\ ScanFits(s)
      /\ cache \in [Tokens -> Answers \cup {None}] /\ qrCode \in [Tokens -> QrRow]
      /\ scan[s] \in Scan
  BY DEF TypeInv, TypeOK
<1>1. UNCHANGED <<statusVars, qrCode>>
  BY DEF ScanStep, MissCache, FindQrCode, ReadCertification, StoreAnswer, AbortScan
<1> SUFFICES ASSUME NEW t \in Tokens PROVE ToldFits(t)'
  OBVIOUS
<1>2. CASE StoreAnswer(s)
  <2>1. scan[s].token \in Tokens /\ qrCode[scan[s].token].cert \in Certs
    BY <1>0, <1>2 DEF StoreAnswer, ScanFits
  <2>2. \A a \in Answers : Says(t, a)' => Says(t, a)
    BY <1>0, <1>2, IdleTypes, QrAssumption DEF StoreAnswer, Says, Answers
  <2>3. qrCode[t].cert = None => cache'[t] = None
    BY <1>0, <1>2, <2>1, QrAssumption DEF StoreAnswer, ToldFits
  <2>4. QED
    BY <1>1, <2>2, <2>3 DEF ToldFits, Follows
<1>3. CASE ReadCertification(s)
  <2> DEFINE c == qrCode[scan[s].token].cert
             a == AnswerFor(status[c])
  <2>0. PICK m : m = AfterReading(scan[s], a)
    OBVIOUS
  <2>1. UNCHANGED cache /\ scan' = [scan EXCEPT ![s] = m]
    BY <1>3, <2>0 DEF ReadCertification
  <2>2. a \in Answers => status[c] \in After(a)
    BY QrAssumption DEF AnswerFor, After, Answers
  <2>4. a \in Answers \cup {None}
    BY AnswerTypes
  <2>5. c = qrCode[scan[s].token].cert
    OBVIOUS
  <2> HIDE DEF a, c
  <2>6. \/ m.at = "storing" /\ m.token = scan[s].token /\ m.answer = a /\ a \in Answers
        \/ m = IdleScan
    BY <1>0, <2>0, <2>4, ReadingDone
  <2>7. ASSUME NEW b \in Answers, Says(t, b)', ~Says(t, b)
        PROVE  t = scan[s].token /\ b = a
    <3>1. (m.token = scan[s].token /\ m.answer = a) \/ m.answer = None
      BY <2>6, IdleTypes
    <3>2. \A q \in Scanners : scan'[q] = IF q = s THEN m ELSE scan[q]
      BY <1>0, <2>1
    <3>4. PICK q \in Scanners : scan'[q].token = t /\ scan'[q].answer = b
      BY <2>1, <2>7 DEF Says
    <3>5. q = s
      BY <2>7, <3>2, <3>4 DEF Says
    <3>6. QED
      BY <3>1, <3>2, <3>4, <3>5, QrAssumption DEF Answers
  <2>8. QED
    BY <1>1, <2>1, <2>2, <2>5, <2>7 DEF ToldFits, Follows
<1>4. CASE FindQrCode(s)
  <2>0. PICK m : m = [scan[s] EXCEPT !.at = "reading"]
    OBVIOUS
  <2>1. scan' = [scan EXCEPT ![s] = m] \/ scan' = [scan EXCEPT ![s] = IdleScan]
    BY <1>4, <2>0 DEF FindQrCode
  <2>2. m.token = scan[s].token /\ m.answer = scan[s].answer
    BY <1>0, <2>0 DEF Scan
  <2>3. UNCHANGED cache
    BY <1>4 DEF FindQrCode
  <2>4. \A a \in Answers : Says(t, a)' => Says(t, a)
    BY <1>0, <2>1, <2>2, <2>3, IdleTypes, QrAssumption DEF Says, Answers
  <2>5. QED
    BY <1>1, <2>3, <2>4 DEF ToldFits, Follows
<1>5. CASE AbortScan(s) \/ \E u \in Tokens : MissCache(s, u)
  <2>1. /\ UNCHANGED cache
        /\ \E k : k.answer = None /\ scan' = [scan EXCEPT ![s] = k]
    BY <1>5, IdleTypes DEF AbortScan, MissCache
  <2>2. \A a \in Answers : Says(t, a)' => Says(t, a)
    BY <1>0, <2>1, QrAssumption DEF Says, Answers
  <2>3. QED
    BY <1>1, <2>1, <2>2 DEF ToldFits, Follows
<1>6. QED
  BY <1>2, <1>3, <1>4, <1>5 DEF ScanStep

\* Forgetting a stored answer, and the end of a row's time, say nothing new.
LEMMA ToldInTime ==
    ASSUME TypeInv, \A t \in Tokens : ToldFits(t), NEW u \in Tokens,
           ExpireEntry(u) \/ ExpireQrCode(u)
    PROVE  \A t \in Tokens : ToldFits(t)'
<1>0. cache \in [Tokens -> Answers \cup {None}] /\ qrCode \in [Tokens -> QrRow]
  BY DEF TypeInv, TypeOK
<1>1. UNCHANGED <<statusVars, scan>> /\ \A t \in Tokens : qrCode'[t].cert = qrCode[t].cert
  BY <1>0 DEF ExpireEntry, ExpireQrCode, QrRow
<1>2. \A t \in Tokens : cache'[t] = cache[t] \/ cache'[t] = None
  BY <1>0 DEF ExpireEntry, ExpireQrCode
<1> SUFFICES ASSUME NEW t \in Tokens PROVE ToldFits(t)'
  OBVIOUS
<1>3. \A a \in Answers : Says(t, a)' => Says(t, a)
  BY <1>1, <1>2, QrAssumption DEF Says, Answers
<1>4. QED
  BY <1>1, <1>2, <1>3 DEF ToldFits, Follows

LEMMA AnswerStep ==
    ASSUME NEW r, Requests = {r}, AnswerInv(r), [Work \/ Fail]_vars
    PROVE  AnswerInv(r)'
<1>0. r \in Requests /\ TypeInv /\ TypeInv' /\ Undisturbed(r) /\ \A t \in Tokens : ToldFits(t)
  BY TypeStep DEF AnswerInv
<1>1. CASE CallStep(r) \/ AbortCall(r)
  BY <1>0, <1>1, StillUndisturbed, ToldBesideCall DEF AnswerInv
<1>2. CASE OutsideStep
  BY <1>0, <1>2, UndisturbedOutside, ToldOutside DEF AnswerInv
<1>3. ASSUME NEW s \in Scanners, ScanStep(s) \/ AbortScan(s) PROVE AnswerInv(r)'
  <2>1. UNCHANGED <<statusVars, call>>
    BY <1>3 DEF ScanStep, MissCache, FindQrCode, ReadCertification, StoreAnswer, AbortScan
  <2>2. QED
    BY <1>0, <1>3, <2>1, ToldByScan DEF AnswerInv, Undisturbed
<1>4. ASSUME NEW u \in Tokens, ExpireEntry(u) \/ ExpireQrCode(u) PROVE AnswerInv(r)'
  <2>1. UNCHANGED <<statusVars, call>>
    BY <1>4 DEF ExpireEntry, ExpireQrCode
  <2>2. QED
    BY <1>0, <1>4, <2>1, ToldInTime DEF AnswerInv, Undisturbed
<1>5. CASE UNCHANGED vars
  BY <1>0, <1>5 DEF vars, AnswerInv, Undisturbed, ToldFits, Says, Follows
<1>6. QED
  BY <1>1, <1>2, <1>3, <1>4, <1>5, StepsSorted DEF Fail

LEMMA AnswerStart ==
    ASSUME NEW r, Requests = {r}, Init
    PROVE  AnswerInv(r)
BY TypeStart, IdleTypes, QrAssumption DEF Init, AnswerInv, Undisturbed, ToldFits, NotIssued

\* With operator calls made one at a time, each of which may fail anywhere, beside the
\* consumer, any number of inspections and any number of scans: however late a scan
\* stores its answer, none says "valid" of a certification that was not granted yet and
\* none says "renewed" of one that is not, unless an inspection has moved it on since.
\* (QrCodeService.verifyQrCode; InspectionService.scheduleInspection, completeInspection)
THEOREM AnswersFollow ==
    ASSUME NEW r, Requests = {r}
    PROVE  /\ Spec => []AnswersFollowDecisions
           /\ QuietSpec => []AnswersFollowDecisions
<1>1. Init => AnswerInv(r)
  BY AnswerStart
<1>2. AnswerInv(r) /\ [Work \/ Fail]_vars => AnswerInv(r)'
  BY AnswerStep
<1>3. AnswerInv(r) => AnswersFollowDecisions
  BY DEF AnswerInv, ToldFits, Says, Told, Follows, AnswersFollowDecisions
<1>4. [Work]_vars => [Work \/ Fail]_vars
  OBVIOUS
<1>5. QED
  BY <1>1, <1>2, <1>3, <1>4, PTL DEF Spec, QuietSpec

-----------------------------------------------------------------------------
(* One active QR code *)

\* Steps beside the call that leave certifications, flags and the call as they are.
LEMMA ActiveBeside ==
    ASSUME NEW r \in Requests, ActiveInv(r), TypeInv', UNCHANGED call,
           \A c \in Certs : status'[c] # status[c] => status'[c] \notin {"GRANTED", "RENEWED"},
           \A t \in Tokens : /\ qrCode'[t].cert = qrCode[t].cert
                             /\ qrCode'[t].isActive = qrCode[t].isActive
    PROVE  ActiveInv(r)'
<1>1. \A c : ActiveTokensOf(c)' = ActiveTokensOf(c)
  BY SameActive
<1>2. QED
  BY <1>1 DEF ActiveInv, TypeInv, CallFits, CallKnows, OneActive, Replacing

\* A step of the call that touches no QR row and no status.
LEMMA CallGoesOn ==
    ASSUME NEW r \in Requests, ActiveInv(r), TypeInv',
           UNCHANGED <<status, qrCode>>, CallKnows(r)',
           \A c \in Certs : Replacing(r, c) =>
               Replacing(r, c)' \/ status[c] \notin {"GRANTED", "RENEWED"}
    PROVE  ActiveInv(r)'
<1>1. \A c : ActiveTokensOf(c)' = ActiveTokensOf(c)
  BY SameActive
<1>2. QED
  BY <1>1 DEF ActiveInv, OneActive

LEMMA ActiveCallStep ==
    ASSUME NEW r \in Requests, ActiveInv(r), CallStep(r), TypeInv'
    PROVE  ActiveInv(r)'
<1>0. /\ call \in [Requests -> Call] /\ call[r] \in Call /\ CallFits(r)
      /\ status \in [Certs -> Statuses] /\ qrCode \in [Tokens -> QrRow] /\ TypeInv
  BY DEF ActiveInv, TypeInv, TypeOK
<1>1. ASSUME NEW c \in Certs, NEW op \in StatusOps, Start(r, c, op) PROVE ActiveInv(r)'
  <2>1. call[r].at = "idle" /\ call'[r].at = "saving" /\ UNCHANGED <<status, qrCode>>
    BY <1>0, <1>1 DEF Start
  <2>2. CallKnows(r)'
    <3>1. call'[r].op = op /\ call'[r].cert = c /\ status[c] = From(op)
      BY <1>0, <1>1 DEF Start
    <3>2. op = "renewCertification" => OneActive(c)
      BY <2>1, <3>1, StatusOpsEdges DEF ActiveInv, Replacing
    <3>3. OneActive(c) => OneActive(c)'
      BY <2>1 DEF OneActive, ActiveTokensOf, TokensOf
    <3>4. QED
      BY <2>1, <3>1, <3>2, <3>3 DEF CallKnows
  <2>3. QED
    BY <1>0, <2>1, <2>2, CallGoesOn DEF Replacing
<1>2. ASSUME NEW c \in Certs, GenerateQrCode(r, c) PROVE ActiveInv(r)'
  <2>1. /\ call[r].at = "idle" /\ UNCHANGED <<status, qrCode>>
        /\ call'[r].at = "deactivating" /\ call'[r].op = "generateQrCode"
    BY <1>0, <1>2 DEF GenerateQrCode
  <2>2. QED
    BY <2>1, CallGoesOn DEF CallKnows, Replacing
<1>3. CASE Commit(r)
  <2>0. PICK m : m = AfterCommit(call[r])
    OBVIOUS
  <2> DEFINE op == call[r].op
             c  == call[r].cert
  <2>1. /\ call'[r] = m /\ call[r].at = "saving" /\ UNCHANGED qrCode
        /\ op \in StatusOps /\ c \in Certs
        /\ status' = [status EXCEPT ![c] = To(op)]
    BY <1>0, <1>3, <2>0 DEF Commit, CallFits
  <2>2. \A d : ActiveTokensOf(d)' = ActiveTokensOf(d)
    BY <2>1, SameActive
  <2>3. \/ /\ op = "grantCertification" /\ m.at = "deactivating"
           /\ m.op = op /\ m.cert = c
        \/ /\ op \in {"revokeCertification", "renewCertification"}
           /\ m.at = "finding" /\ m.op = op /\ m.cert = c
        \/ /\ op \notin {"grantCertification", "revokeCertification",
                         "renewCertification"}
           /\ m = IdleCall
    BY <1>0, <2>0, Committed
  <2>4. \A d \in Certs : status'[d] = IF d = c THEN To(op) ELSE status[d]
    BY <1>0, <2>1
  <2>5. \A d \in Certs : ~Replacing(r, d)
    BY <2>1 DEF Replacing
  <2>11. op = "renewCertification" => OneActive(c)
    BY <2>1 DEF ActiveInv, CallKnows
  <2> HIDE DEF op, c
  <2>6. CASE op = "grantCertification"
    BY <2>1, <2>2, <2>3, <2>4, <2>5, <2>6
       DEF ActiveInv, CallKnows, Replacing, OneActive
  <2>7. CASE op = "revokeCertification"
    BY <2>1, <2>2, <2>3, <2>4, <2>5, <2>7, StatusOpsEdges
       DEF ActiveInv, CallKnows, Replacing, OneActive
  <2>8. CASE op = "renewCertification"
    <3>1. \A d : OneActive(d) => OneActive(d)'
      BY <2>2 DEF OneActive
    <3>2. CallKnows(r)'
      BY <2>1, <2>3, <2>8, <2>11, <3>1 DEF CallKnows
    <3>3. \A d \in Certs : status'[d] \in {"GRANTED", "RENEWED"} => OneActive(d)'
      BY <2>4, <2>5, <2>8, <2>11, <3>1 DEF ActiveInv
    <3>4. QED
      BY <3>2, <3>3 DEF ActiveInv
  <2>9. CASE op \in EarlyOps \cup {"startFinalReview", "denyCertification"}
    <3>1. To(op) \notin {"GRANTED", "RENEWED"}
      BY <2>9 DEF EarlyOps, To, Edge
    <3>2. m.at = "idle"
      BY <2>3, <2>9, IdleTypes DEF EarlyOps
    <3>3. CallKnows(r)' /\ \A d \in Certs : ~Replacing(r, d)'
      BY <2>1, <3>2 DEF CallKnows, Replacing
    <3>4. QED
      BY <2>2, <2>4, <2>5, <3>1, <3>3 DEF ActiveInv, OneActive
  <2>10. QED
    BY <2>1, <2>6, <2>7, <2>8, <2>9 DEF StatusOps, EarlyOps
<1>4. ASSUME NEW t \in Tokens, FindActive(r, t) PROVE ActiveInv(r)'
  <2>0. PICK m : m = [call[r] EXCEPT !.at = "evicting", !.token = t]
    OBVIOUS
  <2>1. call'[r] = m /\ call[r].at = "finding" /\ UNCHANGED <<status, qrCode>>
    BY <1>0, <1>4, <2>0 DEF FindActive
  <2>2. m.at = "evicting" /\ m.op = call[r].op /\ m.cert = call[r].cert
    BY <1>0, <2>0 DEF Call
  <2>3. QED
    BY <2>1, <2>2, CallGoesOn DEF ActiveInv, CallKnows, Replacing
<1>5. CASE FindNoActive(r) \/ Evict(r)
  <2>0. PICK m : m = AfterEviction(call[r])
    OBVIOUS
  <2>1. /\ call'[r] = m /\ call[r].at \in {"finding", "evicting"}
        /\ UNCHANGED <<status, qrCode>>
    BY <1>0, <1>5, <2>0 DEF FindNoActive, Evict
  <2>2. /\ call[r].op = "revokeCertification" =>
             m.at = "deactivating" /\ m.op = call[r].op /\ m.cert = call[r].cert
        /\ call[r].op # "revokeCertification" => m = IdleCall
    BY <1>0, <2>0, CacheDone
  <2>3. CallKnows(r)'
    BY <2>1, <2>2, IdleTypes DEF ActiveInv, CallKnows
  <2>4. QED
    BY <2>1, <2>3, CallGoesOn DEF Replacing
<1>6. CASE Deactivate(r)
  <2>0. PICK c : c = call[r].cert
    OBVIOUS
  <2>1. /\ call[r].at = "deactivating" /\ UNCHANGED status /\ c \in Certs
        /\ \A t \in Tokens :
             /\ qrCode'[t].cert = qrCode[t].cert
             /\ IF qrCode[t].cert = c THEN ~qrCode'[t].isActive
                ELSE qrCode'[t].isActive = qrCode[t].isActive
    BY <1>0, <1>6, <2>0 DEF Deactivate, CallFits, QrRow
  <2>2. ActiveTokensOf(c)' = {}
    BY <2>1 DEF ActiveTokensOf, TokensOf
  <2>3. \A d : d # c => ActiveTokensOf(d)' = ActiveTokensOf(d)
    BY <2>1, SameActive
  <2>4. CASE call[r].op = "revokeCertification"
    <3>1. call'[r].at = "idle"
      BY <1>0, <1>6, <2>4, IdleTypes DEF Deactivate
    <3>2. status[c] \notin {"GRANTED", "RENEWED"}
      BY <2>0, <2>1, <2>4 DEF ActiveInv, CallKnows
    <3>3. \A d \in Certs : d # c => ~Replacing(r, d)
      BY <2>0 DEF Replacing
    <3>4. QED
      BY <2>1, <2>3, <3>1, <3>2, <3>3 DEF ActiveInv, CallKnows, OneActive
  <2>5. CASE call[r].op # "revokeCertification"
    <3>0. PICK m : m = [call[r] EXCEPT !.at = "inserting"]
      OBVIOUS
    <3>1. call'[r] = m
      BY <1>0, <1>6, <2>5, <3>0 DEF Deactivate
    <3>2. m.at = "inserting" /\ m.op = call[r].op /\ m.cert = call[r].cert
      BY <1>0, <3>0 DEF Call
    <3>3. CallKnows(r)'
      BY <2>0, <2>2, <3>1, <3>2 DEF CallKnows
    <3>4. \A d \in Certs : ~Replacing(r, d)' => d # c /\ ~Replacing(r, d)
      BY <2>0, <2>1, <3>1, <3>2 DEF Replacing
    <3>5. QED
      BY <2>1, <2>3, <3>3, <3>4 DEF ActiveInv, OneActive
  <2>6. QED
    BY <2>4, <2>5
<1>7. ASSUME NEW t \in Tokens, InsertQrCode(r, t) PROVE ActiveInv(r)'
  <2>0. PICK c : c = call[r].cert
    OBVIOUS
  <2>1. /\ call[r].at = "inserting" /\ UNCHANGED status /\ c \in Certs
        /\ qrCode[t].cert = None /\ call'[r] = IdleCall
        /\ \A u \in Tokens : u # t => qrCode'[u] = qrCode[u]
        /\ qrCode'[t].cert = c /\ qrCode'[t].isActive
    BY <1>0, <1>7, <2>0 DEF InsertQrCode, CallFits
  <2>2. ActiveTokensOf(c) = {}
    BY <2>0, <2>1 DEF ActiveInv, CallKnows
  <2>3. ActiveTokensOf(c)' = {t}
    BY <2>1, <2>2 DEF ActiveTokensOf, TokensOf
  <2>4. \A d \in Certs : d # c => ActiveTokensOf(d)' = ActiveTokensOf(d)
    BY <2>1, SameActive, QrAssumption
  <2>5. \A d \in Certs : d # c => ~Replacing(r, d)
    BY <2>0 DEF Replacing
  <2>6. CallKnows(r)'
    BY <2>1, IdleTypes DEF CallKnows
  <2>7. QED
    BY <2>1, <2>3, <2>4, <2>5, <2>6 DEF ActiveInv, OneActive
<1>8. QED
  BY <1>1, <1>2, <1>3, <1>4, <1>5, <1>6, <1>7 DEF CallStep

LEMMA ActiveStep ==
    ASSUME NEW r, Requests = {r}, ActiveInv(r), [Work]_vars
    PROVE  ActiveInv(r)'
<1>0. r \in Requests /\ TypeInv /\ TypeInv'
  BY TypeStep DEF ActiveInv
<1>1. CASE CallStep(r)
  BY <1>0, <1>1, ActiveCallStep
<1>2. ASSUME NEW s \in Scanners, ScanStep(s) PROVE ActiveInv(r)'
  <2>1. UNCHANGED <<status, qrCode, call>>
    BY <1>2 DEF ScanStep, MissCache, FindQrCode, ReadCertification, StoreAnswer
  <2>2. QED
    BY <1>0, <2>1, ActiveBeside
<1>3. ASSUME NEW t \in Tokens, ExpireEntry(t) \/ ExpireQrCode(t) PROVE ActiveInv(r)'
  <2>1. /\ UNCHANGED <<status, call>>
        /\ \A u \in Tokens : /\ qrCode'[u].cert = qrCode[u].cert
                             /\ qrCode'[u].isActive = qrCode[u].isActive
    BY <1>0, <1>3 DEF ExpireEntry, ExpireQrCode, TypeInv, TypeOK, QrRow
  <2>2. QED
    BY <1>0, <2>1, ActiveBeside
<1>4. CASE OutsideStep
  BY <1>0, <1>4, OutsideWrites, ActiveBeside
<1>5. CASE UNCHANGED vars
  BY <1>0, <1>5, ActiveBeside DEF vars
<1>6. QED
  BY <1>1, <1>2, <1>3, <1>4, <1>5, StepsSorted

\* With operator calls made one at a time, none of which fails, beside the consumer,
\* any number of inspections and any number of scans: a granted or renewed
\* certification on which no call is working has exactly one active QR code, also
\* after any number of regenerations.
\* (QrCodeService.generateQrCode, deactivateByCertificationId, evictQrCache)
THEOREM OneQrStaysActive ==
    ASSUME NEW r, Requests = {r}
    PROVE  QuietSpec => []OneActiveQr
<1>1. Init => ActiveInv(r)
  BY TypeStart, IdleTypes DEF Init, ActiveInv, CallKnows
<1>2. ActiveInv(r) /\ [Work]_vars => ActiveInv(r)'
  BY ActiveStep
<1>3. ActiveInv(r) => OneActiveQr
  <2> SUFFICES ASSUME ActiveInv(r), NEW c \in Certs,
                      status[c] \in {"GRANTED", "RENEWED"}, NoCallOn(c)
               PROVE  Cardinality(ActiveTokensOf(c)) = 1
    BY DEF OneActiveQr
  <2>1. PICK t \in Tokens : ActiveTokensOf(c) = {t}
    BY DEF ActiveInv, Replacing, NoCallOn, OneActive
  <2>2. QED
    BY <2>1, FS_Singleton
<1>4. QED
  BY <1>1, <1>2, <1>3, PTL DEF QuietSpec
=============================================================================
