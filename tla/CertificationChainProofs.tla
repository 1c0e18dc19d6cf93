----------------------- MODULE CertificationChainProofs -----------------------
(***************************************************************************)
(* Safety of CertificationChain for every number of rows, requests, lab    *)
(* messages and counters.                                                  *)
(***************************************************************************)
EXTENDS CertificationChain, TLAPS

\* A call past its status check holds an entity whose status is the one the
\* check asked for; only the consumer works on behalf of a lab message.
CallsWellFormed ==
    \A a \in Callers :
        /\ call[a].at \in {"numbering", "saving", "loaded"} =>
              /\ call[a].op \in Ops
              /\ call[a].cert \in Certs
              /\ call[a].entity \in Image
              /\ call[a].entity.status = From(call[a].op)
        /\ call[a].at = "numbering" => call[a].op = "grantCertification"
        /\ call[a].at = "loaded" => call[a].loaded \in Image
        /\ call[a].at \in {"qr", "successor", "announcing"} =>
              call[a].op \in Ops /\ call[a].cert \in Certs

-----------------------------------------------------------------------------

\* The table of operations only mentions statuses.
LEMMA EdgesAreStatuses ==
    ASSUME NEW op \in Ops
    PROVE  From(op) \in Statuses /\ To(op) \in Statuses
BY DEF Ops, Edge, From, To, Statuses

\* The initial state is well typed and no call is in flight.
LEMMA InitTypes == Init => TypeOK /\ CallsWellFormed
BY ChainAssumption DEF Init, TypeOK, CallsWellFormed, NoRow, Idle, Row, Event, Call,
   Stages, Callers, Statuses

\* Starting a call leaves a well-formed call behind.
LEMMA StartTypes ==
    ASSUME TypeOK, CallsWellFormed, NEW r \in Requests, NEW c \in Certs,
           NEW op \in Ops, NEW stage \in {"numbering", "saving"},
           stage = "numbering" => op = "grantCertification",
           Start(r, c, op, stage)
    PROVE  TypeOK' /\ CallsWellFormed'
<1>1. ImageOf(certification[c]) \in Image
  BY DEF TypeOK, Row, Image, ImageOf
<1>2. ImageOf(certification[c]).status = From(op)
  BY DEF Start, ImageOf
<1>3. TypeOK'
  BY <1>1 DEF TypeOK, Start, Call, Stages, Callers
<1>4. CallsWellFormed'
  BY <1>1, <1>2 DEF CallsWellFormed, TypeOK, Start, Callers
<1>5. QED BY <1>3, <1>4

\* The eleven operations that HTTP requests start differ in the operation
\* only, and in that a grant goes on to take a number.
LEMMA StartCallIsStart ==
    ASSUME NEW r \in Requests, NEW c \in Certs, StartCall(r, c)
    PROVE  \E op \in Ops \ {"receiveLabResults"},
              stage \in {"numbering", "saving"} :
                /\ stage = "numbering" <=> op = "grantCertification"
                /\ Start(r, c, op, stage)
BY DEF StartCall, SubmitRequest, StartReview, ScheduleInspectionChain,
   StartInspection, CompleteInspectionChain, RequestLab, StartFinalReview,
   GrantCertification, DenyCertification, RevokeCertification,
   RenewCertification, Ops, Edge

\* The transaction of applyTransition keeps rows, ledger and calls well typed.
LEMMA CommitTypes ==
    ASSUME TypeOK, CallsWellFormed, NEW a \in Callers, CommitTransition(a)
    PROVE  TypeOK' /\ CallsWellFormed'
<1> DEFINE k   == call[a]
           row == Merged(certification[k.cert], SavedImage(k), k.loaded)
<1>1. /\ k \in Call /\ k.op \in Ops /\ k.cert \in Certs
      /\ k.entity \in Image /\ k.loaded \in Image
  BY DEF TypeOK, CallsWellFormed, CommitTransition
<1>2. certification[k.cert] \in Row
  BY <1>1 DEF TypeOK
<1>3. To(k.op) \in Statuses
  BY <1>1, EdgesAreStatuses
<1>4. row \in Row
  BY <1>1, <1>2, <1>3 DEF Merged, SavedImage, Row, Image
<1>5. EventOf(k) \in Event
  BY <1>1, <1>3 DEF EventOf, Event, Image, Call
<1>6. Committed(k) \in Call /\ Committed(k).at \notin {"numbering", "saving", "loaded"}
      /\ (Committed(k).at # "idle" => Committed(k).op = k.op /\ Committed(k).cert = k.cert)
  BY <1>1 DEF Committed, NextStage, Call, Stages, Idle
<1>7. /\ certification' = [certification EXCEPT ![k.cert] = row]
      /\ certificationEvents' = [certificationEvents EXCEPT
                                   ![k.cert] = Append(@, EventOf(k))]
      /\ call' = [call EXCEPT ![a] = Committed(k)]
      /\ lastSeq' = lastSeq
  BY DEF CommitTransition
<1>8. TypeOK'
  BY <1>1, <1>4, <1>5, <1>6, <1>7 DEF TypeOK
<1>9. CallsWellFormed'
  BY <1>1, <1>6, <1>7 DEF CallsWellFormed, TypeOK
<1> QED BY <1>8, <1>9

\* Every step keeps the types and the shape of the calls in flight.
LEMMA NextTypes ==
    ASSUME TypeOK, CallsWellFormed, [Next]_vars
    PROVE  TypeOK' /\ CallsWellFormed'
<1>1. CASE UNCHANGED vars
  BY <1>1 DEF vars, TypeOK, CallsWellFormed
<1>2. ASSUME NEW c \in Certs, NEW b \in Batches, RequestCertification(c, b)
      PROVE  TypeOK' /\ CallsWellFormed'
  BY <1>2 DEF RequestCertification, NewDraft, TypeOK, CallsWellFormed, Row, Statuses
<1>3. ASSUME NEW r \in Requests, NEW c \in Certs, StartCall(r, c)
      PROVE  TypeOK' /\ CallsWellFormed'
  BY <1>3, StartCallIsStart, StartTypes
<1>4. ASSUME NEW r \in Requests, NEW k \in Counters, GenerateCertificationNumber(r, k)
      PROVE  TypeOK' /\ CallsWellFormed'
  <2>1. [counter |-> k, seq |-> lastSeq[k] + 1] \in Number
    BY DEF TypeOK, Number
  <2>2. call[r].entity \in Image
    BY <1>4 DEF GenerateCertificationNumber, CallsWellFormed, Callers
  <2>3. [status |-> call[r].entity.status,
         number |-> [counter |-> k, seq |-> lastSeq[k] + 1]] \in Image
    BY <2>1, <2>2 DEF Image
  <2>4. TypeOK'
    <3>1. call[r] \in Call /\ r \in Callers
      BY DEF TypeOK, Callers
    <3>2. [call[r] EXCEPT !.at = "saving",
                          !.entity = [status |-> call[r].entity.status,
                                      number |-> [counter |-> k,
                                                  seq |-> lastSeq[k] + 1]]] \in Call
      BY <3>1, <2>3 DEF Call, Stages
    <3>3. call' \in [Callers -> Call]
      BY <1>4, <3>1, <3>2 DEF GenerateCertificationNumber, TypeOK
    <3>4. lastSeq' \in [Counters -> Nat]
      BY <1>4 DEF GenerateCertificationNumber, TypeOK
    <3> QED BY <1>4, <3>3, <3>4 DEF GenerateCertificationNumber, TypeOK
  <2>5. CallsWellFormed'
    BY <1>4, <2>3 DEF GenerateCertificationNumber, TypeOK, CallsWellFormed, Call
  <2> QED BY <2>4, <2>5
<1>5. ASSUME NEW e \in LabEvents, HandleLabTestCompleted(e)
      PROVE  TypeOK' /\ CallsWellFormed'
  <2>1. call[Consumer] \in Call /\ Consumer \in Callers
    BY DEF TypeOK, Callers
  <2>2. [call[Consumer] EXCEPT !.at = "finding", !.cause = e] \in Call
    BY <2>1 DEF Call, Stages
  <2>3. TypeOK'
    BY <1>5, <2>1, <2>2 DEF HandleLabTestCompleted, TypeOK
  <2>4. CallsWellFormed'
    BY <1>5, <2>1 DEF HandleLabTestCompleted, TypeOK, CallsWellFormed, Call
  <2> QED BY <2>3, <2>4
<1>6. ASSUME NEW c \in Certs, ReceiveLabResults(c)
      PROVE  TypeOK' /\ CallsWellFormed'
  <2>1. ImageOf(certification[c]) \in Image
    BY DEF TypeOK, Row, Image, ImageOf
  <2>2. ImageOf(certification[c]).status = From("receiveLabResults")
    BY <1>6 DEF ReceiveLabResults, AwaitsLab, ImageOf
  <2>3. "receiveLabResults" \in Ops
    BY DEF Ops, Edge
  <2>4. TypeOK'
    BY <1>6, <2>1, <2>3 DEF ReceiveLabResults, TypeOK, Call, Stages, Callers
  <2>5. CallsWellFormed'
    BY <1>6, <2>1, <2>2, <2>3 DEF ReceiveLabResults, TypeOK, CallsWellFormed
  <2> QED BY <2>4, <2>5
<1>7. CASE SkipLabResults
  BY <1>7 DEF SkipLabResults, TypeOK, CallsWellFormed, Call, Stages, Idle
<1>8. ASSUME NEW a \in Callers, LoadForSave(a)
      PROVE  TypeOK' /\ CallsWellFormed'
  <2>1. ImageOf(certification[call[a].cert]) \in Image
    BY <1>8 DEF LoadForSave, CallsWellFormed, TypeOK, Row, Image, ImageOf
  <2>2. TypeOK'
    BY <1>8, <2>1 DEF LoadForSave, TypeOK, Call, Stages
  <2>3. CallsWellFormed'
    BY <1>8, <2>1 DEF LoadForSave, TypeOK, CallsWellFormed, Call
  <2> QED BY <2>2, <2>3
<1>9. ASSUME NEW a \in Callers, CommitTransition(a)
      PROVE  TypeOK' /\ CallsWellFormed'
  BY <1>9, CommitTypes
<1>10. ASSUME NEW a \in Callers, Abort(a)
       PROVE  TypeOK' /\ CallsWellFormed'
  BY <1>10 DEF Abort, TypeOK, CallsWellFormed, Call, Stages, Idle
<1>11. ASSUME NEW r \in Requests, CallQrService(r)
       PROVE  TypeOK' /\ CallsWellFormed'
  <2>1. call[r] \in Call /\ r \in Callers
    BY DEF TypeOK, Callers
  <2>2. \A stage \in {"successor", "announcing"} :
           [call[r] EXCEPT !.at = stage] \in Call
    BY <2>1 DEF Call, Stages
  <2>3. TypeOK'
    BY <1>11, <2>1, <2>2 DEF CallQrService, TypeOK
  <2>4. CallsWellFormed'
    BY <1>11, <2>1 DEF CallQrService, TypeOK, CallsWellFormed, Call
  <2> QED BY <2>3, <2>4
<1>12. ASSUME NEW r \in Requests, Announce(r)
       PROVE  TypeOK' /\ CallsWellFormed'
  BY <1>12 DEF Announce, TypeOK, CallsWellFormed, Call, Stages, Idle
<1>13. ASSUME NEW r \in Requests, NEW d \in Certs, CreateSuccessor(r, d)
       PROVE  TypeOK' /\ CallsWellFormed'
  <2>1. call[r].cert \in Certs /\ certification[call[r].cert] \in Row
    BY <1>13 DEF CreateSuccessor, CallsWellFormed, Callers, TypeOK
  <2>2. NewDraft(certification[call[r].cert].batch, call[r].cert) \in Row
    BY <2>1 DEF NewDraft, Row, Statuses
  <2>3. TypeOK'
    BY <1>13, <2>2 DEF CreateSuccessor, TypeOK, Call, Stages
  <2>4. CallsWellFormed'
    BY <1>13 DEF CreateSuccessor, TypeOK, CallsWellFormed, Call
  <2> QED BY <2>3, <2>4
<1> QED
  BY <1>1, <1>2, <1>3, <1>4, <1>5, <1>6, <1>7, <1>8, <1>9, <1>10, <1>11, <1>12, <1>13
  DEF Next

\* Rows, ledger, counters and calls keep the shapes the entities declare.
THEOREM TypeCorrect == Spec => [](TypeOK /\ CallsWellFormed)
<1>1. TypeOK /\ CallsWellFormed /\ [Next]_vars => (TypeOK /\ CallsWellFormed)'
  BY NextTypes
<1> QED BY InitTypes, <1>1, PTL DEF Spec

-----------------------------------------------------------------------------
(* The ledger accounts for what rows and calls are in *)

\* A call that passed its status check acts on a status its certification
\* has on record, even if the row has moved on since.
CallsExplained ==
    \A a \in Callers :
        call[a].at \in {"numbering", "saving", "loaded"} =>
            From(call[a].op) \in Reached(certificationEvents[call[a].cert])

LedgerInv == LedgerCausal /\ StatusExplained /\ CallsExplained

\* What a commit of operation op on certification c does to the ledger.
LEMMA CommitAppends ==
    ASSUME TypeOK, CallsWellFormed, NEW a \in Callers, CommitTransition(a),
           NEW c, c = call[a].cert, NEW op, op = call[a].op,
           NEW e, e = EventOf(call[a]), NEW n, n = Len(certificationEvents[c])
    PROVE  /\ op \in Ops /\ c \in Certs /\ n \in Nat
           /\ e \in Event /\ e.from = From(op) /\ e.to = To(op)
           /\ Len(certificationEvents'[c]) = n + 1
           /\ \A i \in 1..n : certificationEvents'[c][i] = certificationEvents[c][i]
           /\ certificationEvents'[c][n + 1] = e
           /\ \A d \in Certs \ {c} : certificationEvents'[d] = certificationEvents[d]
<1>1. /\ op \in Ops /\ c \in Certs /\ call[a].entity \in Image
      /\ call[a].entity.status = From(op)
  BY DEF CommitTransition, CallsWellFormed
<1>2. e.from = From(op) /\ e.to = To(op)
  BY <1>1 DEF EventOf
<1>3. certificationEvents' = [certificationEvents EXCEPT ![c] = Append(@, e)]
  BY DEF CommitTransition
<1>4. e \in Event
  BY <1>1, EdgesAreStatuses DEF EventOf, Event, Image, TypeOK, Call
<1>5. certificationEvents[c] \in Seq(Event) /\ DOMAIN certificationEvents = Certs
  BY <1>1 DEF TypeOK
<1>6. certificationEvents'[c] = Append(certificationEvents[c], e)
  BY <1>1, <1>3, <1>5
<1>7. \A d \in Certs \ {c} : certificationEvents'[d] = certificationEvents[d]
  BY <1>3, <1>5
<1> QED BY <1>1, <1>2, <1>4, <1>5, <1>6, <1>7

\* After a commit the statuses on record are those there were, and the new one.
LEMMA CommitReaches ==
    ASSUME TypeOK, CallsWellFormed, NEW a \in Callers, CommitTransition(a),
           NEW c, c = call[a].cert, NEW op, op = call[a].op
    PROVE  /\ Reached(certificationEvents'[c]) =
                Reached(certificationEvents[c]) \cup {To(op)}
           /\ \A d \in Certs : Reached(certificationEvents[d])
                                 \subseteq Reached(certificationEvents'[d])
<1>0. PICK n, e : n = Len(certificationEvents[c]) /\ e = EventOf(call[a])
  OBVIOUS
<1>1. /\ n \in Nat /\ c \in Certs
      /\ Len(certificationEvents'[c]) = n + 1
      /\ \A i \in 1..n : certificationEvents'[c][i] = certificationEvents[c][i]
      /\ certificationEvents'[c][n + 1].to = To(op)
      /\ \A d \in Certs \ {c} : certificationEvents'[d] = certificationEvents[d]
  BY <1>0, CommitAppends
<1>2. 1..(n + 1) = 1..n \cup {n + 1}
  BY <1>1
<1>3. Reached(certificationEvents'[c]) =
        Reached(certificationEvents[c]) \cup {To(op)}
  <2>1. {certificationEvents'[c][i].to : i \in 1..(n + 1)} =
          {certificationEvents[c][i].to : i \in 1..n} \cup {To(op)}
    <3>1. \A x : (\E i \in 1..(n + 1) : x = certificationEvents'[c][i].to)
                 <=> (\E i \in 1..n : x = certificationEvents[c][i].to) \/ x = To(op)
      BY <1>1, <1>2
    <3> QED BY <3>1
  <2> QED BY <1>0, <1>1, <2>1 DEF Reached
<1>4. \A d \in Certs \ {c} :
        Reached(certificationEvents'[d]) = Reached(certificationEvents[d])
  BY <1>1
<1> QED BY <1>3, <1>4

\* The transaction of applyTransition preserves the ledger invariant.
LEMMA CommitLedger ==
    ASSUME TypeOK, CallsWellFormed, LedgerInv, NEW a \in Callers, CommitTransition(a)
    PROVE  LedgerInv'
<1>1. PICK c, op, e, n : /\ c = call[a].cert /\ op = call[a].op
                         /\ e = EventOf(call[a])
                         /\ n = Len(certificationEvents[c])
  OBVIOUS
<1>2. /\ op \in Ops /\ c \in Certs /\ n \in Nat
      /\ e.from = From(op) /\ e.to = To(op)
      /\ Len(certificationEvents'[c]) = n + 1
      /\ \A i \in 1..n : certificationEvents'[c][i] = certificationEvents[c][i]
      /\ certificationEvents'[c][n + 1] = e
      /\ \A d \in Certs \ {c} : certificationEvents'[d] = certificationEvents[d]
  BY <1>1, CommitAppends
<1>3. /\ Reached(certificationEvents'[c]) =
           Reached(certificationEvents[c]) \cup {To(op)}
      /\ \A d \in Certs : Reached(certificationEvents[d])
                            \subseteq Reached(certificationEvents'[d])
  BY <1>1, CommitReaches
<1>4. From(op) \in Reached(certificationEvents[c])
  BY <1>1 DEF LedgerInv, CallsExplained, CommitTransition
<1>5. LedgerCausal'
  <2> SUFFICES ASSUME NEW d \in Certs, NEW i \in 1..Len(certificationEvents'[d])
               PROVE  LET f == certificationEvents'[d][i]
                      IN /\ <<f.from, f.to>> \in Transitions
                         /\ \/ f.from = "DRAFT"
                            \/ \E j \in 1..(i - 1) :
                                  certificationEvents'[d][j].to = f.from
    BY DEF LedgerCausal
  <2>1. CASE d # c
    BY <2>1, <1>2 DEF LedgerInv, LedgerCausal
  <2>2. CASE d = c /\ i \in 1..n
    <3>1. \A j \in 1..i : certificationEvents'[d][j] = certificationEvents[d][j]
      BY <1>2, <2>2
    <3>2. i \in 1..Len(certificationEvents[d])
      BY <1>1, <2>2
    <3> DEFINE f == certificationEvents[d][i]
    <3>3. /\ <<f.from, f.to>> \in Transitions
          /\ f.from # "DRAFT" =>
               \E j \in 1..(i - 1) : certificationEvents[d][j].to = f.from
      BY <3>2 DEF LedgerInv, LedgerCausal
    <3>4. certificationEvents'[d][i] = f
      BY <3>1, <2>2, <1>2
    <3>5. \A j \in 1..(i - 1) : certificationEvents'[d][j] = certificationEvents[d][j]
      BY <3>1, <2>2, <1>2
    <3> HIDE DEF f
    <3> QED BY <3>3, <3>4, <3>5
  <2>3. CASE d = c /\ i = n + 1
    <3>1. certificationEvents'[d][i] = e
      BY <1>2, <2>3
    <3>2. <<e.from, e.to>> \in Transitions
      BY <1>2 DEF Transitions
    <3>3. \/ e.from = "DRAFT"
          \/ \E j \in 1..n : certificationEvents[c][j].to = e.from
      BY <1>1, <1>2, <1>4 DEF Reached
    <3>4. \/ e.from = "DRAFT"
          \/ \E j \in 1..(i - 1) : certificationEvents'[c][j].to = e.from
      BY <1>2, <2>3, <3>3
    <3> QED BY <2>3, <3>1, <3>2, <3>4
  <2>4. d = c => i \in 1..n \/ i = n + 1
    BY <1>2
  <2> QED BY <2>1, <2>2, <2>3, <2>4
<1>6. StatusExplained'
  <2>1. certification' = [certification EXCEPT ![c] =
           Merged(certification[c], SavedImage(call[a]), call[a].loaded)]
    BY <1>1 DEF CommitTransition
  <2>2. certification'[c].status \in {To(op), certification[c].status}
    BY <1>1, <1>2, <2>1 DEF Merged, SavedImage, TypeOK
  <2>3. \A d \in Certs \ {c} : certification'[d] = certification[d]
    BY <2>1 DEF TypeOK
  <2> QED BY <1>2, <1>3, <2>2, <2>3 DEF LedgerInv, StatusExplained
<1>7. CallsExplained'
  <2>1. call' = [call EXCEPT ![a] = Committed(call[a])]
    BY DEF CommitTransition
  <2>2. Committed(call[a]).at \notin {"numbering", "saving", "loaded"}
    BY DEF Committed, NextStage, Idle
  <2> SUFFICES ASSUME NEW b \in Callers,
                      call'[b].at \in {"numbering", "saving", "loaded"}
               PROVE  From(call'[b].op) \in Reached(certificationEvents'[call'[b].cert])
    BY DEF CallsExplained
  <2>3. b # a /\ call'[b] = call[b]
    BY <2>1, <2>2 DEF TypeOK
  <2>4. PICK d : d = call[b].cert
    OBVIOUS
  <2>5. d \in Certs /\ From(call[b].op) \in Reached(certificationEvents[d])
    BY <2>3, <2>4 DEF CallsWellFormed, LedgerInv, CallsExplained
  <2> QED BY <1>3, <2>3, <2>4, <2>5
<1> QED BY <1>5, <1>6, <1>7 DEF LedgerInv

\* Any other step leaves the ledger alone; new rows are drafts, and a call
\* that starts has just read the status of its row.
LEMMA NextLedger ==
    ASSUME TypeOK, CallsWellFormed, LedgerInv, [Next]_vars
    PROVE  LedgerInv'
<1>1. CASE UNCHANGED vars
  BY <1>1 DEF vars, LedgerInv, LedgerCausal, StatusExplained, CallsExplained
<1>2. ASSUME NEW c \in Certs, NEW row, row.status = "DRAFT",
             certification' = [certification EXCEPT ![c] = row],
             certificationEvents' = certificationEvents,
             \A a \in Callers : call'[a].at \in {"numbering", "saving", "loaded"} =>
                                  call'[a] = call[a]
      PROVE  LedgerInv'
  <2>1. \A d \in Certs : certification'[d].status \in {"DRAFT", certification[d].status}
    BY <1>2 DEF TypeOK
  <2>2. StatusExplained'
    BY <1>2, <2>1 DEF LedgerInv, StatusExplained, Reached
  <2>3. CallsExplained'
    BY <1>2 DEF LedgerInv, CallsExplained
  <2> QED BY <1>2, <2>2, <2>3 DEF LedgerInv, LedgerCausal
<1>3. ASSUME certification' = certification, certificationEvents' = certificationEvents,
             \A a \in Callers : call'[a].at \in {"numbering", "saving", "loaded"} =>
                \/ call'[a].op = call[a].op /\ call'[a].cert = call[a].cert
                   /\ call[a].at \in {"numbering", "saving", "loaded"}
                \/ call'[a].cert \in Certs
                   /\ From(call'[a].op) = certification[call'[a].cert].status
      PROVE  LedgerInv'
  <2>1. CallsExplained'
    BY <1>3 DEF LedgerInv, CallsExplained, StatusExplained
  <2> QED BY <1>3, <2>1 DEF LedgerInv, LedgerCausal, StatusExplained
<1>4. ASSUME NEW c \in Certs, NEW b \in Batches, RequestCertification(c, b)
      PROVE  LedgerInv'
  BY <1>4, <1>2 DEF RequestCertification, NewDraft
<1>5. ASSUME NEW r \in Requests, NEW c \in Certs, StartCall(r, c)
      PROVE  LedgerInv'
  <2>1. PICK op \in Ops, stage \in {"numbering", "saving"} : Start(r, c, op, stage)
    BY <1>5, StartCallIsStart
  <2> QED BY <2>1, <1>3 DEF Start, TypeOK
<1>6. ASSUME NEW r \in Requests, NEW k \in Counters, GenerateCertificationNumber(r, k)
      PROVE  LedgerInv'
  BY <1>6, <1>3 DEF GenerateCertificationNumber, TypeOK, Call
<1>7. ASSUME NEW e \in LabEvents, HandleLabTestCompleted(e)
      PROVE  LedgerInv'
  BY <1>7, <1>3 DEF HandleLabTestCompleted, TypeOK, Call
<1>8. ASSUME NEW c \in Certs, ReceiveLabResults(c)
      PROVE  LedgerInv'
  BY <1>8, <1>3 DEF ReceiveLabResults, AwaitsLab, TypeOK
<1>9. CASE SkipLabResults
  BY <1>9, <1>3 DEF SkipLabResults, TypeOK, Idle
<1>10. ASSUME NEW a \in Callers, LoadForSave(a)
       PROVE  LedgerInv'
  BY <1>10, <1>3 DEF LoadForSave, TypeOK, Call
<1>11. ASSUME NEW a \in Callers, CommitTransition(a)
       PROVE  LedgerInv'
  BY <1>11, CommitLedger
<1>12. ASSUME NEW a \in Callers, Abort(a)
       PROVE  LedgerInv'
  BY <1>12, <1>3 DEF Abort, TypeOK, Idle
<1>13. ASSUME NEW r \in Requests, CallQrService(r)
       PROVE  LedgerInv'
  BY <1>13, <1>3 DEF CallQrService, TypeOK, Call
<1>14. ASSUME NEW r \in Requests, Announce(r)
       PROVE  LedgerInv'
  BY <1>14, <1>3 DEF Announce, TypeOK, Idle
<1>15. ASSUME NEW r \in Requests, NEW d \in Certs, CreateSuccessor(r, d)
       PROVE  LedgerInv'
  BY <1>15, <1>2 DEF CreateSuccessor, NewDraft, TypeOK, Call
<1> QED
  BY <1>1, <1>4, <1>5, <1>6, <1>7, <1>8, <1>9, <1>10, <1>11, <1>12, <1>13,
     <1>14, <1>15 DEF Next

\* The ledger is causal and accounts for the status of every row, whatever
\* calls race and wherever they die.
THEOREM LedgerSound == Spec => []LedgerInv
<1>1. Init => LedgerInv
  BY DEF Init, LedgerInv, LedgerCausal, StatusExplained, CallsExplained, Reached,
     NoRow, Idle
<1>2. /\ TypeOK /\ CallsWellFormed
      /\ LedgerInv /\ [Next]_vars
      => LedgerInv'
  BY NextLedger
<1> QED BY <1>1, <1>2, TypeCorrect, PTL DEF Spec

\* Each entry of certification_events starts where an earlier one ended.
THEOREM LedgerIsCausal == Spec => []LedgerCausal
<1>1. LedgerInv => LedgerCausal
  BY DEF LedgerInv
<1> QED BY <1>1, LedgerSound, PTL

\* No row is in a status its ledger does not account for.
THEOREM StatusIsExplained == Spec => []StatusExplained
<1>1. LedgerInv => StatusExplained
  BY DEF LedgerInv
<1> QED BY <1>1, LedgerSound, PTL

\* A status on record that is not DRAFT has one of its predecessors on
\* record too.
LEMMA PredecessorReached ==
    ASSUME LedgerInv, NEW c \in Certs,
           NEW s \in Reached(certificationEvents[c]), s # "DRAFT"
    PROVE  \E op \in Ops : /\ s = To(op)
                           /\ From(op) \in Reached(certificationEvents[c])
<1>1. PICK i \in 1..Len(certificationEvents[c]) : certificationEvents[c][i].to = s
  BY DEF Reached
<1> DEFINE e == certificationEvents[c][i]
<1>2. /\ <<e.from, e.to>> \in Transitions
      /\ e.from = "DRAFT" \/ \E j \in 1..(i - 1) : certificationEvents[c][j].to = e.from
  BY DEF LedgerInv, LedgerCausal
<1>3. e.from \in Reached(certificationEvents[c])
  BY <1>2 DEF Reached
<1>4. PICK op \in Ops : <<e.from, e.to>> = <<From(op), To(op)>>
  BY <1>2 DEF Transitions
<1> QED BY <1>1, <1>3, <1>4

\* The chain before a grant is a line: one predecessor for each status.
LEMMA ChainIsALine ==
    ASSUME NEW op \in Ops
    PROVE  /\ To(op) = "GRANTED" => From(op) = "UNDER_REVIEW"
           /\ To(op) = "UNDER_REVIEW" => From(op) = "LAB_RESULTS_RECEIVED"
           /\ To(op) = "LAB_RESULTS_RECEIVED" => From(op) = "LAB_TESTING"
           /\ To(op) = "LAB_TESTING" => From(op) = "INSPECTION_COMPLETE"
           /\ To(op) = "INSPECTION_COMPLETE" => From(op) = "INSPECTION_IN_PROGRESS"
           /\ To(op) = "INSPECTION_IN_PROGRESS" => From(op) = "INSPECTION_SCHEDULED"
           /\ To(op) = "INSPECTION_SCHEDULED" => From(op) = "DOCUMENT_REVIEW"
           /\ To(op) = "DOCUMENT_REVIEW" => From(op) = "SUBMITTED"
BY DEF Ops, Edge, From, To

\* A certification in status GRANTED has the inspection, the laboratory and
\* every other step of the chain on record.
LEMMA GrantNeedsChain == LedgerInv => GrantedAfterFullChain
<1> SUFFICES ASSUME LedgerInv, NEW c \in Certs, certification[c].status = "GRANTED"
             PROVE  ChainBeforeGrant \subseteq Reached(certificationEvents[c])
  BY DEF GrantedAfterFullChain
<1> DEFINE R == Reached(certificationEvents[c])
<1>0. "GRANTED" \in R
  BY DEF LedgerInv, StatusExplained
<1>1. \A s \in R \ {"DRAFT"} : \E op \in Ops : s = To(op) /\ From(op) \in R
  BY PredecessorReached
<1> HIDE DEF R
<1>2. "UNDER_REVIEW" \in R
  BY <1>0, <1>1, ChainIsALine
<1>3. "LAB_RESULTS_RECEIVED" \in R
  BY <1>1, <1>2, ChainIsALine
<1>4. "LAB_TESTING" \in R
  BY <1>1, <1>3, ChainIsALine
<1>5. "INSPECTION_COMPLETE" \in R
  BY <1>1, <1>4, ChainIsALine
<1>6. "INSPECTION_IN_PROGRESS" \in R
  BY <1>1, <1>5, ChainIsALine
<1>7. "INSPECTION_SCHEDULED" \in R
  BY <1>1, <1>6, ChainIsALine
<1>8. "DOCUMENT_REVIEW" \in R
  BY <1>1, <1>7, ChainIsALine
<1>9. "SUBMITTED" \in R
  BY <1>1, <1>8, ChainIsALine
<1> QED
  BY <1>2, <1>3, <1>4, <1>5, <1>6, <1>7, <1>8, <1>9 DEF ChainBeforeGrant, R

\* A granted certification has every step of the chain on record, whatever
\* calls of CertificationService raced on the way.
THEOREM GrantAfterFullChain == Spec => []GrantedAfterFullChain
BY GrantNeedsChain, LedgerSound, PTL

=============================================================================
