----------------------- MODULE CertificationLedgerProofs -----------------------
(***************************************************************************)
(* The ledger of CertificationChain implements DecisionLedger: numbers and *)
(* laboratory messages are used once, for every number of racing calls.    *)
(* Renewals have one successor each.  With one request in flight the rows  *)
(* implement CertificationLifecycle.                                       *)
(***************************************************************************)
EXTENDS CertificationChainProofs, FiniteSetTheorems

\* Certification c has a ledger entry with number n.
RecordedFor(c, n) ==
    \E i \in 1..Len(certificationEvents[c]) : certificationEvents[c][i].number = n

Recorded(n) == \E c \in Certs : RecordedFor(c, n)

PendingGrant(a) ==
    call[a].at \in {"saving", "loaded"} /\ call[a].op = "grantCertification"

\* generateCertificationNumber hands out the values 1, 2, ... of each counter
\* once: a pending grant has one that nobody else has or had.
NumberInv ==
    /\ \A k \in Counters : lastSeq[k] <= MaxSeq
    /\ \A n \in Number : Recorded(n) => n.seq \in 1..lastSeq[n.counter]
    /\ \A a \in Callers : PendingGrant(a) =>
          /\ call[a].entity.number \in Number
          /\ call[a].entity.number.seq \in 1..lastSeq[call[a].entity.number.counter]
          /\ ~Recorded(call[a].entity.number)
    /\ \A a, b \in Callers : PendingGrant(a) /\ PendingGrant(b) /\ a # b =>
          call[a].entity.number # call[b].entity.number

\* HTTP requests never act for a laboratory message; the consumer has at most
\* one, and it is not in the ledger before its own commit.
LabInv ==
    /\ \A r \in Requests : call[r].cause = None /\ call[r].op # "receiveLabResults"
    /\ call[Consumer].at \in {"idle", "finding", "saving", "loaded"}
    /\ call[Consumer].at \in {"finding", "saving", "loaded"} =>
          call[Consumer].cause \in LabEvents /\ ~IsEventProcessed(call[Consumer].cause)
    /\ call[Consumer].at \in {"saving", "loaded"} =>
          call[Consumer].op = "receiveLabResults"

-----------------------------------------------------------------------------

\* What a commit adds to the numbers and the causes of the ledger.
LEMMA CommitAdds ==
    ASSUME TypeOK, CallsWellFormed, NEW a \in Callers, CommitTransition(a),
           NEW c, c = call[a].cert, NEW e, e = EventOf(call[a])
    PROVE  /\ c \in Certs /\ e \in Event
           /\ \A n : \A d \in Certs :
                 RecordedFor(d, n)' <=> RecordedFor(d, n) \/ (d = c /\ n = e.number)
           /\ \A m : IsEventProcessed(m)' <=> IsEventProcessed(m) \/ m = e.cause
<1>1. PICK l, op : l = Len(certificationEvents[c]) /\ op = call[a].op
  OBVIOUS
<1>2. /\ c \in Certs /\ l \in Nat /\ e \in Event
      /\ Len(certificationEvents'[c]) = l + 1
      /\ \A i \in 1..l : certificationEvents'[c][i] = certificationEvents[c][i]
      /\ certificationEvents'[c][l + 1] = e
      /\ \A d \in Certs \ {c} : certificationEvents'[d] = certificationEvents[d]
  BY <1>1, CommitAppends
<1>3. 1..(l + 1) = 1..l \cup {l + 1}
  BY <1>2
<1>4. ASSUME NEW n, NEW d \in Certs
      PROVE  RecordedFor(d, n)' <=> RecordedFor(d, n) \/ (d = c /\ n = e.number)
  <2>1. CASE d = c
    BY <1>1, <1>2, <1>3, <2>1 DEF RecordedFor
  <2>2. CASE d # c
    BY <1>2, <2>2 DEF RecordedFor
  <2> QED BY <2>1, <2>2
<1>5. ASSUME NEW m
      PROVE  IsEventProcessed(m)' <=> IsEventProcessed(m) \/ m = e.cause
  <2> DEFINE In(d)  == \E i \in 1..Len(certificationEvents[d]) :
                          certificationEvents[d][i].cause = m
             InP(d) == \E i \in 1..Len(certificationEvents'[d]) :
                          certificationEvents'[d][i].cause = m
  <2>1. InP(c) <=> In(c) \/ m = e.cause
    BY <1>1, <1>2, <1>3
  <2>2. \A d \in Certs \ {c} : InP(d) <=> In(d)
    BY <1>2
  <2>3. (IsEventProcessed(m)' <=> \E d \in Certs : InP(d))
        /\ (IsEventProcessed(m) <=> \E d \in Certs : In(d))
    BY DEF IsEventProcessed
  <2> HIDE DEF In, InP
  <2> QED BY <1>2, <2>1, <2>2, <2>3
<1> QED BY <1>2, <1>4, <1>5

\* What an entry carries: a grant its number, the consumer its message.
LEMMA CommitCarries ==
    ASSUME TypeOK, CallsWellFormed, LabInv, NEW a \in Callers, CommitTransition(a),
           NEW e, e = EventOf(call[a])
    PROVE  /\ PendingGrant(a) => e.number = call[a].entity.number
           /\ ~PendingGrant(a) => e.number = None
           /\ a \in Requests => e.cause = None
           /\ a = Consumer => /\ e.cause = call[a].cause /\ e.cause \in LabEvents
                              /\ ~IsEventProcessed(e.cause)
BY DEF EventOf, CommitTransition, PendingGrant, LabInv

\* Initially no message is on record and none is being handled.
LEMMA LabInit == Init => LabInv
BY ChainAssumption DEF Init, LabInv, Idle, Callers, Ops, Edge

\* Every step preserves the invariant on laboratory messages.
LEMMA LabNext ==
    ASSUME TypeOK, CallsWellFormed, LabInv, [Next]_vars
    PROVE  LabInv'
<1> USE ChainAssumption
<1>1. CASE UNCHANGED vars
  BY <1>1 DEF vars, LabInv, IsEventProcessed
<1>2. ASSUME NEW c \in Certs, NEW b \in Batches, RequestCertification(c, b)
      PROVE  LabInv'
  BY <1>2 DEF RequestCertification, LabInv, IsEventProcessed
<1>3. ASSUME NEW r \in Requests, NEW c \in Certs, StartCall(r, c)
      PROVE  LabInv'
  <2>1. PICK op \in Ops \ {"receiveLabResults"}, stage \in {"numbering", "saving"} :
           Start(r, c, op, stage)
    BY <1>3, StartCallIsStart
  <2> QED BY <2>1 DEF Start, LabInv, IsEventProcessed, TypeOK, Callers
<1>4. ASSUME NEW r \in Requests, NEW k \in Counters, GenerateCertificationNumber(r, k)
      PROVE  LabInv'
  <2>1. call' = [call EXCEPT ![r] = [@ EXCEPT !.at = call'[r].at,
                                              !.entity = call'[r].entity]]
    BY <1>4 DEF GenerateCertificationNumber, TypeOK, Call, Callers
  <2>2. call'[r].cause = call[r].cause /\ call'[r].op = call[r].op
    BY <2>1 DEF TypeOK, Call, Callers
  <2>3. \A b \in Callers \ {r} : call'[b] = call[b]
    BY <2>1 DEF TypeOK
  <2>4. call'[Consumer] = call[Consumer] /\ certificationEvents' = certificationEvents
    BY <1>4, <2>3 DEF GenerateCertificationNumber, Callers
  <2>5. \A q \in Requests : call'[q].cause = None /\ call'[q].op # "receiveLabResults"
    BY <2>2, <2>3 DEF LabInv, Callers
  <2> QED BY <2>4, <2>5 DEF LabInv, IsEventProcessed
<1>5. ASSUME NEW e \in LabEvents, HandleLabTestCompleted(e)
      PROVE  LabInv'
  BY <1>5 DEF HandleLabTestCompleted, LabInv, IsEventProcessed, TypeOK, Call, Callers
<1>6. ASSUME NEW c \in Certs, ReceiveLabResults(c)
      PROVE  LabInv'
  BY <1>6 DEF ReceiveLabResults, LabInv, IsEventProcessed, TypeOK, Callers
<1>7. CASE SkipLabResults
  BY <1>7 DEF SkipLabResults, LabInv, IsEventProcessed, TypeOK, Idle, Callers
<1>8. ASSUME NEW a \in Callers, LoadForSave(a)
      PROVE  LabInv'
  BY <1>8 DEF LoadForSave, LabInv, IsEventProcessed, TypeOK, Call, Callers
<1>9. ASSUME NEW a \in Callers, CommitTransition(a)
      PROVE  LabInv'
  <2>1. PICK c, e : c = call[a].cert /\ e = EventOf(call[a])
    OBVIOUS
  <2>2. \A m : IsEventProcessed(m)' <=> IsEventProcessed(m) \/ m = e.cause
    BY <1>9, <2>1, CommitAdds
  <2>3. /\ call' = [call EXCEPT ![a] = Committed(call[a])]
        /\ call[a].at = "loaded"
    BY <1>9 DEF CommitTransition
  <2>4. \A b \in Callers \ {a} : call'[b] = call[b]
    BY <2>3 DEF TypeOK
  <2>5. CASE a \in Requests
    <3>1. call'[a].cause = None /\ call'[a].op # "receiveLabResults"
      BY <2>3, <2>5 DEF TypeOK, Committed, Idle, LabInv, Ops, Edge
    <3>2. e.cause = None
      BY <1>9, <2>1, <2>5, CommitCarries
    <3>3. Consumer \in Callers /\ a # Consumer
      BY <2>5 DEF Callers
    <3>4. \A r \in Requests : call'[r].cause = None /\ call'[r].op # "receiveLabResults"
      BY <2>4, <3>1 DEF LabInv, Callers
    <3>5. call'[Consumer] = call[Consumer]
      BY <2>4, <3>3
    <3> QED BY <2>2, <3>2, <3>4, <3>5 DEF LabInv
  <2>6. CASE a = Consumer
    <3>1. call[a].op = "receiveLabResults"
      BY <2>3, <2>6 DEF LabInv
    <3>2. call'[Consumer] = Idle
      BY <2>3, <2>6, <3>1 DEF TypeOK, Committed, NextStage, Callers
    <3> QED BY <2>4, <2>6, <3>2 DEF LabInv, Callers, Idle
  <2> QED BY <2>5, <2>6 DEF Callers
<1>10. ASSUME NEW a \in Callers, Abort(a)
       PROVE  LabInv'
  BY <1>10 DEF Abort, LabInv, IsEventProcessed, TypeOK, Idle, Callers, Ops, Edge
<1>11. ASSUME NEW r \in Requests, CallQrService(r)
       PROVE  LabInv'
  BY <1>11 DEF CallQrService, LabInv, IsEventProcessed, TypeOK, Call, Callers
<1>12. ASSUME NEW r \in Requests, Announce(r)
       PROVE  LabInv'
  BY <1>12 DEF Announce, LabInv, IsEventProcessed, TypeOK, Idle, Callers, Ops, Edge
<1>13. ASSUME NEW r \in Requests, NEW d \in Certs, CreateSuccessor(r, d)
       PROVE  LabInv'
  BY <1>13 DEF CreateSuccessor, LabInv, IsEventProcessed, TypeOK, Call, Callers
<1> QED
  BY <1>1, <1>2, <1>3, <1>4, <1>5, <1>6, <1>7, <1>8, <1>9, <1>10, <1>11, <1>12, <1>13
  DEF Next

\* The consumer only carries messages that are not on record yet, so however
\* often one is delivered, isEventProcessed keeps it from counting twice.
THEOREM LabMessagesOnce == Spec => []LabInv
<1>1. TypeOK /\ CallsWellFormed /\ LabInv /\ [Next]_vars => LabInv'
  BY LabNext
<1> QED BY LabInit, <1>1, TypeCorrect, PTL DEF Spec

-----------------------------------------------------------------------------
(* Numbers *)

\* Steps that neither write the ledger nor hand out a number.
LEMMA NumbersKept ==
    ASSUME NumberInv, certificationEvents' = certificationEvents, lastSeq' = lastSeq,
           \A a \in Callers : PendingGrant(a)' =>
              PendingGrant(a) /\ call'[a].entity.number = call[a].entity.number
    PROVE  NumberInv'
<1>1. \A n : Recorded(n)' <=> Recorded(n)
  BY DEF Recorded, RecordedFor
<1> QED BY <1>1 DEF NumberInv

\* A number just taken from its counter is above all others.
LEMMA NumberTaken ==
    ASSUME TypeOK, CallsWellFormed, NumberInv, NEW r \in Requests, NEW k \in Counters,
           GenerateCertificationNumber(r, k)
    PROVE  NumberInv'
<1> DEFINE taken == [counter |-> k, seq |-> lastSeq[k] + 1]
<1>1. /\ lastSeq[k] \in Nat /\ lastSeq[k] < MaxSeq /\ taken \in Number
      /\ lastSeq' = [lastSeq EXCEPT ![k] = lastSeq[k] + 1]
      /\ certificationEvents' = certificationEvents
      /\ MaxSeq \in Nat
  BY ChainAssumption DEF GenerateCertificationNumber, TypeOK, Number
<1>2. /\ call'[r].entity.number = taken
      /\ \A b \in Callers \ {r} : call'[b] = call[b]
  BY DEF GenerateCertificationNumber, TypeOK, Call, Callers
<1>3. \A n : Recorded(n)' <=> Recorded(n)
  BY <1>1 DEF Recorded, RecordedFor
<1>4. \A j \in Counters : /\ lastSeq[j] \in Nat /\ lastSeq'[j] \in Nat
                          /\ lastSeq[j] <= lastSeq'[j] /\ lastSeq'[j] <= MaxSeq
  BY <1>1 DEF NumberInv, TypeOK
<1>5. taken.counter = k /\ taken.seq = lastSeq[k] + 1 /\ lastSeq'[k] = lastSeq[k] + 1
  BY <1>1 DEF TypeOK
<1>6. \A n \in Number : n.counter \in Counters /\ n.seq \in Nat
  BY DEF Number
<1> HIDE DEF taken
<1>7. \A n \in Number : Recorded(n)' => n.seq \in 1..lastSeq'[n.counter]
  BY <1>3, <1>4, <1>6 DEF NumberInv
<1>8. ~Recorded(taken)
  BY <1>1, <1>5 DEF NumberInv
<1>9. \A b \in Callers \ {r} : PendingGrant(b)' =>
         /\ PendingGrant(b)
         /\ call'[b].entity.number \in Number
         /\ call'[b].entity.number.seq \in 1..lastSeq[call'[b].entity.number.counter]
         /\ ~Recorded(call'[b].entity.number)
         /\ call'[b].entity.number # taken
  BY <1>1, <1>2, <1>5 DEF NumberInv, PendingGrant
<1>10. \A a \in Callers : PendingGrant(a)' =>
          /\ call'[a].entity.number \in Number
          /\ call'[a].entity.number.seq \in 1..lastSeq'[call'[a].entity.number.counter]
          /\ ~Recorded(call[a].entity.number)'
  <2>1. taken.seq \in 1..lastSeq'[taken.counter]
    BY <1>1, <1>5
  <2>2. ASSUME NEW n \in Number, n.seq \in 1..lastSeq[n.counter]
        PROVE  n.seq \in 1..lastSeq'[n.counter]
    BY <2>2, <1>4, <1>6
  <2> QED BY <1>1, <1>2, <1>3, <1>8, <1>9, <2>1, <2>2
<1>11. \A a, b \in Callers : PendingGrant(a)' /\ PendingGrant(b)' /\ a # b =>
          call'[a].entity.number # call'[b].entity.number
  BY <1>2, <1>9 DEF NumberInv
<1> QED BY <1>4, <1>7, <1>10, <1>11 DEF NumberInv

\* A commit moves a number from a call to the ledger, and to its row.
LEMMA NumberCommitted ==
    ASSUME TypeOK, CallsWellFormed, NumberInv, LabInv, NEW a \in Callers,
           CommitTransition(a)
    PROVE  NumberInv'
<1>1. PICK c, e : c = call[a].cert /\ e = EventOf(call[a])
  OBVIOUS
<1>2. /\ c \in Certs
      /\ \A n : Recorded(n)' <=> Recorded(n) \/ n = e.number
  <2>1. /\ c \in Certs
        /\ \A n : \A d \in Certs :
              RecordedFor(d, n)' <=> RecordedFor(d, n) \/ (d = c /\ n = e.number)
    BY <1>1, CommitAdds
  <2> QED BY <2>1 DEF Recorded
<1>3. /\ PendingGrant(a) => e.number = call[a].entity.number
      /\ ~PendingGrant(a) => e.number = None
  BY <1>1, CommitCarries
<1>4. /\ ~PendingGrant(a)'
      /\ \A b \in Callers \ {a} : call'[b] = call[b]
      /\ lastSeq' = lastSeq
  BY DEF CommitTransition, Committed, NextStage, Idle, PendingGrant, TypeOK
<1>5. None \notin Number
  BY ChainAssumption DEF Number
<1>6. \A n \in Number : Recorded(n)' => n.seq \in 1..lastSeq'[n.counter]
  BY <1>2, <1>3, <1>4, <1>5 DEF NumberInv
<1>7. \A b \in Callers : PendingGrant(b)' => /\ b # a /\ PendingGrant(b)
                                             /\ call'[b] = call[b]
                                             /\ call[b].entity.number # e.number
  BY <1>3, <1>4, <1>5 DEF PendingGrant, NumberInv
<1> QED BY <1>2, <1>4, <1>6, <1>7 DEF NumberInv

\* Every step preserves the invariant on certification numbers.
LEMMA NumberNext ==
    ASSUME TypeOK, CallsWellFormed, LabInv, NumberInv, [Next]_vars
    PROVE  NumberInv'
<1>1. CASE UNCHANGED vars
  BY <1>1, NumbersKept DEF vars, PendingGrant
<1>2. ASSUME NEW c \in Certs, NEW b \in Batches, RequestCertification(c, b)
      PROVE  NumberInv'
  BY <1>2, NumbersKept DEF RequestCertification, PendingGrant
<1>3. ASSUME NEW r \in Requests, NEW c \in Certs, StartCall(r, c)
      PROVE  NumberInv'
  <2>1. PICK op \in Ops \ {"receiveLabResults"}, stage \in {"numbering", "saving"} :
           /\ stage = "numbering" <=> op = "grantCertification"
           /\ Start(r, c, op, stage)
    BY <1>3, StartCallIsStart
  <2> QED BY <2>1, NumbersKept DEF Start, PendingGrant, TypeOK
<1>4. ASSUME NEW r \in Requests, NEW k \in Counters, GenerateCertificationNumber(r, k)
      PROVE  NumberInv'
  BY <1>4, NumberTaken
<1>5. ASSUME NEW e \in LabEvents, HandleLabTestCompleted(e)
      PROVE  NumberInv'
  BY <1>5, NumbersKept DEF HandleLabTestCompleted, PendingGrant, TypeOK, Call
<1>6. ASSUME NEW c \in Certs, ReceiveLabResults(c)
      PROVE  NumberInv'
  BY <1>6, NumbersKept DEF ReceiveLabResults, PendingGrant, TypeOK
<1>7. CASE SkipLabResults
  BY <1>7, NumbersKept DEF SkipLabResults, PendingGrant, TypeOK, Idle
<1>8. ASSUME NEW a \in Callers, LoadForSave(a)
      PROVE  NumberInv'
  BY <1>8, NumbersKept DEF LoadForSave, PendingGrant, TypeOK, Call
<1>9. ASSUME NEW a \in Callers, CommitTransition(a)
      PROVE  NumberInv'
  BY <1>9, NumberCommitted
<1>10. ASSUME NEW a \in Callers, Abort(a)
       PROVE  NumberInv'
  BY <1>10, NumbersKept DEF Abort, PendingGrant, TypeOK, Idle
<1>11. ASSUME NEW r \in Requests, CallQrService(r)
       PROVE  NumberInv'
  BY <1>11, NumbersKept DEF CallQrService, PendingGrant, TypeOK, Call
<1>12. ASSUME NEW r \in Requests, Announce(r)
       PROVE  NumberInv'
  BY <1>12, NumbersKept DEF Announce, PendingGrant, TypeOK, Idle
<1>13. ASSUME NEW r \in Requests, NEW d \in Certs, CreateSuccessor(r, d)
       PROVE  NumberInv'
  BY <1>13, NumbersKept DEF CreateSuccessor, PendingGrant, TypeOK, Call
<1> QED
  BY <1>1, <1>2, <1>3, <1>4, <1>5, <1>6, <1>7, <1>8, <1>9, <1>10, <1>11, <1>12, <1>13
  DEF Next

\* generateCertificationNumber: no number is with two calls, with a call and
\* in the ledger, or above the counter it came from.
THEOREM NumbersHandedOutOnce == Spec => []NumberInv
<1>1. Init => NumberInv
  BY ChainAssumption
     DEF Init, NumberInv, Recorded, RecordedFor, PendingGrant, Idle, Number
<1>2. TypeOK /\ CallsWellFormed /\ LabInv /\ NumberInv /\ [Next]_vars => NumberInv'
  BY NumberNext
<1> QED BY <1>1, <1>2, TypeCorrect, LabMessagesOnce, PTL DEF Spec

-----------------------------------------------------------------------------
(* No number and no message twice in the ledger *)

\* After a commit every entry is an entry there was, or the new one.
LEMMA OldOrNew ==
    ASSUME TypeOK, CallsWellFormed, NEW a \in Callers, CommitTransition(a),
           NEW c, c = call[a].cert, NEW e, e = EventOf(call[a]),
           NEW d \in Certs, NEW i \in 1..Len(certificationEvents'[d])
    PROVE  \/ /\ i \in 1..Len(certificationEvents[d])
              /\ certificationEvents'[d][i] = certificationEvents[d][i]
           \/ /\ d = c /\ i = Len(certificationEvents[c]) + 1
              /\ certificationEvents'[d][i] = e
<1>1. PICK l, op : l = Len(certificationEvents[c]) /\ op = call[a].op
  OBVIOUS
<1>2. /\ c \in Certs /\ l \in Nat
      /\ Len(certificationEvents'[c]) = l + 1
      /\ \A j \in 1..l : certificationEvents'[c][j] = certificationEvents[c][j]
      /\ certificationEvents'[c][l + 1] = e
      /\ \A b \in Certs \ {c} : certificationEvents'[b] = certificationEvents[b]
  BY <1>1, CommitAppends
<1>3. CASE d # c
  BY <1>2, <1>3
<1>4. CASE d = c
  <2>1. i \in 1..l \/ i = l + 1
    BY <1>2, <1>4
  <2> QED BY <1>1, <1>2, <1>4, <2>1
<1> QED BY <1>3, <1>4

\* No other step than a commit writes the ledger.
LEMMA OnlyCommitsWriteLedger ==
    ASSUME [Next]_vars
    PROVE  certificationEvents' = certificationEvents \/ \E a \in Callers : CommitTransition(a)
<1>1. ASSUME NEW r \in Requests, NEW c \in Certs, StartCall(r, c)
      PROVE  certificationEvents' = certificationEvents
  BY <1>1, StartCallIsStart DEF Start
<1> QED
  BY <1>1 DEF Next, vars, RequestCertification, GenerateCertificationNumber,
     HandleLabTestCompleted, ReceiveLabResults, SkipLabResults, LoadForSave, Abort,
     CallQrService, Announce, CreateSuccessor

\* Every step keeps the numbers of the ledger distinct.
LEMMA NumbersUniqueNext ==
    ASSUME TypeOK, CallsWellFormed, LabInv, NumberInv, NumbersNeverReused, [Next]_vars
    PROVE  NumbersNeverReused'
<1>1. CASE certificationEvents' = certificationEvents
  BY <1>1 DEF NumbersNeverReused
<1>2. ASSUME NEW a \in Callers, CommitTransition(a)
      PROVE  NumbersNeverReused'
  <2>1. PICK b, e : b = call[a].cert /\ e = EventOf(call[a])
    OBVIOUS
  <2>2. e.number # None => ~Recorded(e.number)
    BY <1>2, <2>1, CommitCarries DEF NumberInv
  <2> SUFFICES ASSUME NEW c \in Certs, NEW d \in Certs,
                      NEW i \in 1..Len(certificationEvents'[c]),
                      NEW j \in 1..Len(certificationEvents'[d]),
                      certificationEvents'[c][i].number # None,
                      certificationEvents'[c][i].number = certificationEvents'[d][j].number
               PROVE  c = d /\ i = j
    BY DEF NumbersNeverReused
  <2> DEFINE OldC == /\ i \in 1..Len(certificationEvents[c])
                     /\ certificationEvents'[c][i] = certificationEvents[c][i]
             NewC == /\ c = b /\ i = Len(certificationEvents[b]) + 1
                     /\ certificationEvents'[c][i] = e
             OldD == /\ j \in 1..Len(certificationEvents[d])
                     /\ certificationEvents'[d][j] = certificationEvents[d][j]
             NewD == /\ d = b /\ j = Len(certificationEvents[b]) + 1
                     /\ certificationEvents'[d][j] = e
  <2>3. OldC \/ NewC
    BY <1>2, <2>1, OldOrNew
  <2>4. OldD \/ NewD
    BY <1>2, <2>1, OldOrNew
  <2>5. CASE OldC /\ OldD
    BY <2>5 DEF NumbersNeverReused
  <2>6. CASE NewC /\ OldD
    BY <2>2, <2>6 DEF Recorded, RecordedFor
  <2>7. CASE OldC /\ NewD
    BY <2>2, <2>7 DEF Recorded, RecordedFor
  <2>8. CASE NewC /\ NewD
    BY <2>8
  <2> QED BY <2>3, <2>4, <2>5, <2>6, <2>7, <2>8
<1>3. certificationEvents' = certificationEvents \/ \E a \in Callers : CommitTransition(a)
  BY OnlyCommitsWriteLedger
<1> QED BY <1>1, <1>2, <1>3

\* generateCertificationNumber, grantCertification: no two grants on record
\* carry the same number, however many calls race and fail.
THEOREM NumbersAreUnique == Spec => []NumbersNeverReused
<1>1. Init => NumbersNeverReused
  BY DEF Init, NumbersNeverReused
<1>2. /\ TypeOK /\ CallsWellFormed /\ LabInv /\ NumberInv
      /\ NumbersNeverReused /\ [Next]_vars
      => NumbersNeverReused'
  BY NumbersUniqueNext
<1> QED
  BY <1>1, <1>2, TypeCorrect, LabMessagesOnce, NumbersHandedOutOnce, PTL DEF Spec

\* Every step keeps the messages of the ledger distinct.
LEMMA LabUniqueNext ==
    ASSUME TypeOK, CallsWellFormed, LabInv, LabEventOnce, [Next]_vars
    PROVE  LabEventOnce'
<1>1. CASE certificationEvents' = certificationEvents
  BY <1>1 DEF LabEventOnce
<1>2. ASSUME NEW a \in Callers, CommitTransition(a)
      PROVE  LabEventOnce'
  <2>1. PICK b, e : b = call[a].cert /\ e = EventOf(call[a])
    OBVIOUS
  <2>2. e.cause # None => ~IsEventProcessed(e.cause)
    BY <1>2, <2>1, CommitCarries DEF Callers
  <2> SUFFICES ASSUME NEW c \in Certs, NEW d \in Certs,
                      NEW i \in 1..Len(certificationEvents'[c]),
                      NEW j \in 1..Len(certificationEvents'[d]),
                      certificationEvents'[c][i].cause # None,
                      certificationEvents'[c][i].cause = certificationEvents'[d][j].cause
               PROVE  c = d /\ i = j
    BY DEF LabEventOnce
  <2> DEFINE OldC == /\ i \in 1..Len(certificationEvents[c])
                     /\ certificationEvents'[c][i] = certificationEvents[c][i]
             NewC == /\ c = b /\ i = Len(certificationEvents[b]) + 1
                     /\ certificationEvents'[c][i] = e
             OldD == /\ j \in 1..Len(certificationEvents[d])
                     /\ certificationEvents'[d][j] = certificationEvents[d][j]
             NewD == /\ d = b /\ j = Len(certificationEvents[b]) + 1
                     /\ certificationEvents'[d][j] = e
  <2>3. OldC \/ NewC
    BY <1>2, <2>1, OldOrNew
  <2>4. OldD \/ NewD
    BY <1>2, <2>1, OldOrNew
  <2>5. CASE OldC /\ OldD
    BY <2>5 DEF LabEventOnce
  <2>6. CASE NewC /\ OldD
    BY <2>2, <2>6 DEF IsEventProcessed
  <2>7. CASE OldC /\ NewD
    BY <2>2, <2>7 DEF IsEventProcessed
  <2>8. CASE NewC /\ NewD
    BY <2>8
  <2> QED BY <2>3, <2>4, <2>5, <2>6, <2>7, <2>8
<1>3. certificationEvents' = certificationEvents \/ \E a \in Callers : CommitTransition(a)
  BY OnlyCommitsWriteLedger
<1> QED BY <1>1, <1>2, <1>3

\* isEventProcessed and the one consumer: a laboratory message moves one
\* certification, once, however often it is delivered.
THEOREM LabEventsCountOnce == Spec => []LabEventOnce
<1>1. Init => LabEventOnce
  BY DEF Init, LabEventOnce
<1>2. TypeOK /\ CallsWellFormed /\ LabInv /\ LabEventOnce /\ [Next]_vars => LabEventOnce'
  BY LabUniqueNext
<1> QED BY <1>1, <1>2, TypeCorrect, LabMessagesOnce, PTL DEF Spec

-----------------------------------------------------------------------------
(* Refinement *)

\* The vocabulary and the derived sets mean the same on both sides.
LEMMA SameVocabulary ==
    /\ Ledger!Ops = Ops
    /\ \A op \in Ops : Ledger!From(op) = From(op) /\ Ledger!To(op) = To(op)
    /\ \A c \in Certs : Ledger!ReachedBy(c) = Reached(certificationEvents[c])
    /\ \A c \in Certs : \A n : n \in Ledger!NumbersUsed(c) <=> RecordedFor(c, n)
    /\ \A c \in Certs : \A m : m \in Ledger!CausesUsed(c) =>
                              \E i \in 1..Len(certificationEvents[c]) :
                                  certificationEvents[c][i].cause = m
<1>1. /\ Ledger!Ops = Ops
      /\ \A op \in Ops : Ledger!From(op) = From(op) /\ Ledger!To(op) = To(op)
  BY DEF Ledger!Ops, Ledger!From, Ledger!To, Ledger!Edge, Ops, From, To, Edge
<1>2. ASSUME NEW c \in Certs
      PROVE  Ledger!ReachedBy(c) = Reached(certificationEvents[c])
  <2>1. \A x : x \in {e.to : e \in Ledger!Entries(c)} <=>
                 x \in {certificationEvents[c][i].to : i \in 1..Len(certificationEvents[c])}
    BY DEF Ledger!Entries
  <2>2. {e.to : e \in Ledger!Entries(c)} =
          {certificationEvents[c][i].to : i \in 1..Len(certificationEvents[c])}
    BY <2>1
  <2> QED BY <2>2 DEF Ledger!ReachedBy, Reached
<1>3. \A c \in Certs : \A n : n \in Ledger!NumbersUsed(c) <=> RecordedFor(c, n)
  BY DEF Ledger!NumbersUsed, Ledger!Entries, RecordedFor
<1>4. \A c \in Certs : \A m : m \in Ledger!CausesUsed(c) =>
                             \E i \in 1..Len(certificationEvents[c]) :
                                 certificationEvents[c][i].cause = m
  BY DEF Ledger!CausesUsed, Ledger!Entries
<1> QED BY <1>1, <1>2, <1>3, <1>4

\* Operation op appends to the ledger of c an entry that is new to it.
Appended(c, op, n, m) ==
    /\ Ledger!AppendEntry(c, op, n, m)
    /\ \/ op \notin {"grantCertification", "receiveLabResults"} /\ n = None /\ m = None
       \/ /\ op = "grantCertification" /\ n \in Numbers
          /\ Ledger!NumberUnused(n) /\ m = None
       \/ /\ op = "receiveLabResults" /\ n = None
          /\ m \in LabEvents /\ Ledger!CauseUnused(m)

\* A commit appends one entry: a step of the chain, a grant with a number
\* nobody has, or laboratory results with a message nobody accounted for.
LEMMA CommitEntry ==
    ASSUME TypeOK, CallsWellFormed, LabInv, NumberInv,
           NEW a \in Callers, CommitTransition(a)
    PROVE  \E c \in Certs, op \in Ops :
              /\ c = call[a].cert /\ op = call[a].op
              /\ \E n, m : Appended(c, op, n, m)
<1>1. PICK c, op, e, l : /\ c = call[a].cert /\ op = call[a].op
                         /\ e = EventOf(call[a]) /\ l = Len(certificationEvents[c])
  OBVIOUS
<1>2. /\ c \in Certs /\ op \in Ops /\ e.from = From(op) /\ e.to = To(op) /\ e \in Event
  BY <1>1, CommitAppends
<1>3. certificationEvents' = [certificationEvents EXCEPT ![c] = Append(@, e)]
  BY <1>1 DEF CommitTransition
<1>4. e = [from |-> From(op), to |-> To(op), number |-> e.number, cause |-> e.cause]
  BY <1>2 DEF Event
<1>5. Ledger!AppendEntry(c, op, e.number, e.cause)
  BY <1>2, <1>3, <1>4, SameVocabulary DEF Ledger!AppendEntry
<1>6. PendingGrant(a) <=> op = "grantCertification"
  BY <1>1 DEF CommitTransition, PendingGrant
<1>7. CASE op = "grantCertification"
  <2>1. a \in Requests
    BY <1>1, <1>6, <1>7 DEF LabInv, CommitTransition, Callers
  <2>2. e.cause = None /\ e.number = call[a].entity.number
    BY <1>1, <1>6, <1>7, <2>1, CommitCarries
  <2>3. e.number \in Numbers /\ ~Recorded(e.number)
    <3>1. /\ e.number \in Number /\ ~Recorded(e.number)
          /\ e.number.seq \in 1..lastSeq[e.number.counter]
      BY <1>6, <1>7, <2>2 DEF NumberInv
    <3>2. e.number.counter \in Counters /\ lastSeq[e.number.counter] \in Nat
          /\ lastSeq[e.number.counter] <= MaxSeq /\ MaxSeq \in Nat
      BY <3>1, ChainAssumption DEF Number, NumberInv, TypeOK
    <3>3. e.number.seq \in 1..MaxSeq
      BY <3>1, <3>2
    <3> QED BY <3>1, <3>2, <3>3 DEF Number, Numbers
  <2>4. Ledger!NumberUnused(e.number)
    BY <2>3, SameVocabulary DEF Ledger!NumberUnused, Recorded
  <2>5. Appended(c, op, e.number, e.cause)
    BY <1>5, <1>7, <2>2, <2>3, <2>4 DEF Appended
  <2> QED BY <1>1, <1>2, <2>5
<1>8. CASE op = "receiveLabResults"
  <2>1. a = Consumer
    BY <1>1, <1>8 DEF LabInv, Callers
  <2>2. e.number = None /\ e.cause \in LabEvents /\ ~IsEventProcessed(e.cause)
    BY <1>1, <1>6, <1>8, <2>1, CommitCarries
  <2>3. Ledger!CauseUnused(e.cause)
    BY <2>2, SameVocabulary DEF Ledger!CauseUnused, IsEventProcessed
  <2>4. Appended(c, op, e.number, e.cause)
    BY <1>5, <1>8, <2>2, <2>3 DEF Appended
  <2> QED BY <1>1, <1>2, <2>4
<1>9. CASE op \notin {"grantCertification", "receiveLabResults"}
  <2>1. a \in Requests
    BY <1>1, <1>9 DEF LabInv, CommitTransition, Callers
  <2>2. e.number = None /\ e.cause = None
    BY <1>1, <1>6, <1>9, <2>1, CommitCarries
  <2>3. Appended(c, op, e.number, e.cause)
    BY <1>5, <1>9, <2>2 DEF Appended
  <2> QED BY <1>1, <1>2, <2>3
<1> QED BY <1>7, <1>8, <1>9

\* Each of the three is a step of DecisionLedger: the ledger has reached the
\* status it starts from.
LEMMA CommitRefines ==
    ASSUME TypeOK, CallsWellFormed, LedgerInv, LabInv, NumberInv,
           NEW a \in Callers, CommitTransition(a)
    PROVE  Ledger!Next
<1>0. PICK c \in Certs, op \in Ops : /\ c = call[a].cert /\ op = call[a].op
                                    /\ \E n, m : Appended(c, op, n, m)
  BY CommitEntry
<1>1. PICK n, m : Appended(c, op, n, m)
  BY <1>0
<1>2. From(op) \in Reached(certificationEvents[c])
  BY <1>0 DEF LedgerInv, CallsExplained, CommitTransition
<1>3. Ledger!Record(c, op, n, m)
  BY <1>0, <1>1, <1>2, SameVocabulary DEF Ledger!Record, Appended
<1>4. op \in Ledger!Ops
  BY SameVocabulary
<1> QED
  BY <1>0, <1>1, <1>3, <1>4
  DEF Appended, Ledger!Next, Ledger!RecordStep, Ledger!RecordGrant, Ledger!RecordLabResults

\* Whatever calls race, fail and are delivered again, the ledger behaves as
\* DecisionLedger says.
THEOREM LedgerRefines == Spec => LedgerSpec
<1>1. Init => Ledger!Init
  BY DEF Init, Ledger!Init
<1>2. /\ TypeOK /\ CallsWellFormed
      /\ LedgerInv /\ LabInv /\ NumberInv
      /\ [Next]_vars
      => [Ledger!Next]_certificationEvents
  BY OnlyCommitsWriteLedger, CommitRefines
<1> QED
  BY <1>1, <1>2, TypeCorrect, LedgerSound, LabMessagesOnce, NumbersHandedOutOnce, PTL
  DEF Spec, LedgerSpec, Ledger!Spec

-----------------------------------------------------------------------------
(* Rows and announcements *)

\* The number a call other than a grant read with its row is on record for
\* that certification; so a late save writes back a number the ledger knows.
SnapshotsExplained ==
    \A a \in Callers :
        /\ call[a].at \in {"saving", "loaded"} /\ ~PendingGrant(a)
        /\ call[a].entity.number # None
        => RecordedFor(call[a].cert, call[a].entity.number)

RowInv == RowNumberExplained /\ SnapshotsExplained /\ AnnouncedIsCommitted

\* A commit leaves on its row the number it had, or the one it records.
LEMMA RowsCommitted ==
    ASSUME TypeOK, CallsWellFormed, LabInv, RowInv, NEW a \in Callers, CommitTransition(a)
    PROVE  RowInv'
<1>1. PICK c, op, e : c = call[a].cert /\ op = call[a].op /\ e = EventOf(call[a])
  OBVIOUS
<1>2. /\ c \in Certs
      /\ \A n : \A d \in Certs :
            RecordedFor(d, n)' <=> RecordedFor(d, n) \/ (d = c /\ n = e.number)
  BY <1>1, CommitAdds
<1>3. /\ PendingGrant(a) => e.number = call[a].entity.number
      /\ ~PendingGrant(a) => e.number = None
  BY <1>1, CommitCarries
<1>4. /\ Reached(certificationEvents'[c]) = Reached(certificationEvents[c]) \cup {To(op)}
      /\ \A d \in Certs : Reached(certificationEvents[d])
                            \subseteq Reached(certificationEvents'[d])
  BY <1>1, CommitReaches
<1>5. /\ call[a].at = "loaded"
      /\ certification' = [certification EXCEPT ![c] =
            Merged(certification[c], SavedImage(call[a]), call[a].loaded)]
      /\ call' = [call EXCEPT ![a] = Committed(call[a])]
  BY <1>1 DEF CommitTransition
<1>6. \A b \in Callers \ {a} : call'[b] = call[b]
  BY <1>5 DEF TypeOK
<1>7. call'[a] = Committed(call[a])
  BY <1>5 DEF TypeOK
<1>8. RowNumberExplained'
  <2>1. certification'[c].number \in {call[a].entity.number, certification[c].number}
    BY <1>2, <1>5 DEF Merged, SavedImage, TypeOK
  <2>2. \A d \in Certs : certification[d].number # None =>
                           RecordedFor(d, certification[d].number)
    BY DEF RowInv, RowNumberExplained, RecordedFor
  <2>3. \A d \in Certs \ {c} : certification'[d] = certification[d]
    BY <1>5 DEF TypeOK
  <2>4. ASSUME NEW d \in Certs, certification'[d].number # None
        PROVE  RecordedFor(d, certification[d].number)'
    <3>1. PICK n : n = certification'[d].number
      OBVIOUS
    <3>2. PICK m : m = call[a].entity.number
      OBVIOUS
    <3>3. m # None => RecordedFor(c, m) \/ m = e.number
      BY <1>1, <1>3, <1>5, <3>2 DEF RowInv, SnapshotsExplained
    <3>4. RecordedFor(d, n) \/ (d = c /\ n = e.number)
      BY <2>1, <2>2, <2>3, <2>4, <3>1, <3>2, <3>3
    <3>5. RecordedFor(d, n)'
      BY <1>2, <3>4
    <3> QED BY <3>1, <3>5 DEF RecordedFor
  <2> QED BY <2>4 DEF RowNumberExplained, RecordedFor
<1>9. SnapshotsExplained'
  <2> SUFFICES ASSUME NEW b \in Callers,
                      call'[b].at \in {"saving", "loaded"}, ~PendingGrant(b)',
                      call'[b].entity.number # None
               PROVE  RecordedFor(call[b].cert, call[b].entity.number)'
    BY DEF SnapshotsExplained
  <2>1. b # a
    BY <1>7 DEF Committed, NextStage, Idle
  <2>2. PICK d, n : d = call[b].cert /\ n = call[b].entity.number
    OBVIOUS
  <2>3. d \in Certs /\ RecordedFor(d, n)
    BY <1>6, <2>1, <2>2 DEF RowInv, SnapshotsExplained, PendingGrant, CallsWellFormed
  <2>4. RecordedFor(d, n)'
    BY <1>2, <2>3
  <2>5. call'[b].cert = d /\ call'[b].entity.number = n
    BY <1>6, <2>1, <2>2
  <2> QED BY <2>4, <2>5 DEF RecordedFor
<1>10. AnnouncedIsCommitted'
  <2> SUFFICES ASSUME NEW r \in Requests,
                      call'[r].at \in {"qr", "successor", "announcing"}
               PROVE  To(call'[r].op) \in Reached(certificationEvents'[call'[r].cert])
    BY DEF AnnouncedIsCommitted
  <2>1. CASE r = a
    <3>1. call'[a].op = op /\ call'[a].cert = c
      BY <1>1, <1>7, <2>1 DEF Committed, Idle
    <3> QED BY <1>4, <2>1, <3>1
  <2>2. CASE r # a
    <3>1. PICK d : d = call[r].cert
      OBVIOUS
    <3>2. call'[r] = call[r] /\ d \in Certs
      BY <1>6, <2>2, <3>1 DEF Callers, CallsWellFormed
    <3> QED BY <1>4, <3>1, <3>2 DEF RowInv, AnnouncedIsCommitted
  <2> QED BY <2>1, <2>2
<1> QED BY <1>8, <1>9, <1>10 DEF RowInv

\* Steps that leave the ledger alone: a row keeps its number or is new, and a
\* call has the snapshot it had or takes the number of its row.
LEMMA RowsKept ==
    ASSUME RowInv, certificationEvents' = certificationEvents,
           \A c \in Certs : certification'[c].number \in {None, certification[c].number},
           \A a \in Callers :
              call'[a].at \in {"saving", "loaded"} /\ ~PendingGrant(a)' =>
                 \/ /\ call[a].at \in {"saving", "loaded"} /\ ~PendingGrant(a)
                    /\ call'[a].cert = call[a].cert
                    /\ call'[a].entity.number = call[a].entity.number
                 \/ /\ call'[a].cert \in Certs
                    /\ call'[a].entity.number = certification[call'[a].cert].number,
           \A r \in Requests : call'[r].at \in {"qr", "successor", "announcing"} =>
              /\ call[r].at \in {"qr", "successor", "announcing"}
              /\ call'[r].op = call[r].op /\ call'[r].cert = call[r].cert
    PROVE  RowInv'
<1>1. \A d, n : RecordedFor(d, n)' <=> RecordedFor(d, n)
  BY DEF RecordedFor
<1>2. \A c \in Certs : certification[c].number # None =>
                         RecordedFor(c, certification[c].number)
  BY DEF RowInv, RowNumberExplained, RecordedFor
<1>3. RowNumberExplained'
  BY <1>2 DEF RowNumberExplained, RecordedFor
<1>4. SnapshotsExplained'
  BY <1>1, <1>2 DEF RowInv, SnapshotsExplained
<1>5. AnnouncedIsCommitted'
  BY DEF RowInv, AnnouncedIsCommitted
<1> QED BY <1>3, <1>4, <1>5 DEF RowInv

\* Every step preserves the invariant on rows and snapshots.
LEMMA RowsNext ==
    ASSUME TypeOK, CallsWellFormed, LabInv, RowInv, [Next]_vars
    PROVE  RowInv'
<1>1. CASE UNCHANGED vars
  BY <1>1, RowsKept DEF vars, PendingGrant
<1>2. ASSUME NEW c \in Certs, NEW b \in Batches, RequestCertification(c, b)
      PROVE  RowInv'
  BY <1>2, RowsKept DEF RequestCertification, NewDraft, PendingGrant, TypeOK
<1>3. ASSUME NEW r \in Requests, NEW c \in Certs, StartCall(r, c)
      PROVE  RowInv'
  <2>1. PICK op \in Ops \ {"receiveLabResults"}, stage \in {"numbering", "saving"} :
           /\ stage = "numbering" <=> op = "grantCertification"
           /\ Start(r, c, op, stage)
    BY <1>3, StartCallIsStart
  <2> QED BY <2>1, RowsKept DEF Start, ImageOf, PendingGrant, TypeOK
<1>4. ASSUME NEW r \in Requests, NEW k \in Counters, GenerateCertificationNumber(r, k)
      PROVE  RowInv'
  <2>1. /\ call'[r].at = "saving" /\ call'[r].op = call[r].op
        /\ \A b \in Callers \ {r} : call'[b] = call[b]
    BY <1>4 DEF GenerateCertificationNumber, TypeOK, Call, Callers
  <2>2. call[r].op = "grantCertification"
    BY <1>4 DEF GenerateCertificationNumber, CallsWellFormed, Callers
  <2>3. PendingGrant(r)'
    BY <2>1, <2>2 DEF PendingGrant
  <2> QED BY <1>4, <2>1, <2>3, RowsKept
      DEF GenerateCertificationNumber, PendingGrant, Callers
<1>5. ASSUME NEW e \in LabEvents, HandleLabTestCompleted(e)
      PROVE  RowInv'
  BY <1>5, RowsKept, ChainAssumption
  DEF HandleLabTestCompleted, PendingGrant, TypeOK, Call, Callers
<1>6. ASSUME NEW c \in Certs, ReceiveLabResults(c)
      PROVE  RowInv'
  BY <1>6, RowsKept, ChainAssumption
  DEF ReceiveLabResults, ImageOf, PendingGrant, TypeOK, Callers
<1>7. CASE SkipLabResults
  BY <1>7, RowsKept, ChainAssumption DEF SkipLabResults, PendingGrant, TypeOK, Idle, Callers
<1>8. ASSUME NEW a \in Callers, LoadForSave(a)
      PROVE  RowInv'
  BY <1>8, RowsKept DEF LoadForSave, PendingGrant, TypeOK, Call, Callers
<1>9. ASSUME NEW a \in Callers, CommitTransition(a)
      PROVE  RowInv'
  BY <1>9, RowsCommitted
<1>10. ASSUME NEW a \in Callers, Abort(a)
       PROVE  RowInv'
  BY <1>10, RowsKept DEF Abort, PendingGrant, TypeOK, Idle, Callers
<1>11. ASSUME NEW r \in Requests, CallQrService(r)
       PROVE  RowInv'
  BY <1>11, RowsKept DEF CallQrService, PendingGrant, TypeOK, Call, Callers
<1>12. ASSUME NEW r \in Requests, Announce(r)
       PROVE  RowInv'
  BY <1>12, RowsKept DEF Announce, PendingGrant, TypeOK, Idle, Callers
<1>13. ASSUME NEW r \in Requests, NEW d \in Certs, CreateSuccessor(r, d)
       PROVE  RowInv'
  BY <1>13, RowsKept DEF CreateSuccessor, NewDraft, PendingGrant, TypeOK, Call, Callers
<1> QED
  BY <1>1, <1>2, <1>3, <1>4, <1>5, <1>6, <1>7, <1>8, <1>9, <1>10, <1>11, <1>12, <1>13
  DEF Next

\* Rows and the snapshots of calls only carry numbers that are on record.
LEMMA RowsSound == Spec => []RowInv
<1>1. Init => RowInv
  BY DEF Init, RowInv, RowNumberExplained, SnapshotsExplained, AnnouncedIsCommitted,
     NoRow, Idle, Callers
<1>2. TypeOK /\ CallsWellFormed /\ LabInv /\ RowInv /\ [Next]_vars => RowInv'
  BY RowsNext
<1> QED BY <1>1, <1>2, TypeCorrect, LabMessagesOnce, PTL DEF Spec

\* applyTransition and its late saves: the number on a row is one that a grant
\* of that certification has on record.
THEOREM RowNumbersAreExplained == Spec => []RowNumberExplained
<1>1. RowInv => RowNumberExplained
  BY DEF RowInv
<1> QED BY <1>1, RowsSound, PTL

\* The Kafka and QR work of an operation only follows its own commit.
THEOREM AnnouncementsAreCommitted == Spec => []AnnouncedIsCommitted
<1>1. RowInv => AnnouncedIsCommitted
  BY DEF RowInv
<1> QED BY <1>1, RowsSound, PTL
-----------------------------------------------------------------------------
(* Successors *)

Successors(c) == {d \in Certs : certification[d].renewedFrom = c}

\* The renewals of c that have been committed and have no successor yet.
Renewing(c) == {r \in Requests : /\ call[r].at \in {"qr", "successor"}
                                 /\ call[r].op = "renewCertification"
                                 /\ call[r].cert = c}

RenewalsIn(events) == {i \in 1..Len(events) : events[i].to = "RENEWED"}
Renewals(c) == RenewalsIn(certificationEvents[c])

\* Only a renewal inserts a successor; each renewal on record is still to insert one,
\* has done so, or has died in between.
SuccessorInv ==
    /\ \A r \in Requests : call[r].at = "successor" => call[r].op = "renewCertification"
    /\ \A c \in Certs :
          /\ IsFiniteSet(Successors(c)) /\ IsFiniteSet(Renewing(c))
          /\ Cardinality(Successors(c)) + Cardinality(Renewing(c))
               <= Cardinality(Renewals(c))

\* The renewals on record are finitely many.
LEMMA RenewalsFinite ==
    ASSUME NEW events \in Seq(Event)
    PROVE  IsFiniteSet(RenewalsIn(events)) /\ Cardinality(RenewalsIn(events)) \in Nat
<1>1. Len(events) \in Nat
  OBVIOUS
<1>2. IsFiniteSet(1..Len(events))
  BY <1>1, FS_Interval
<1>3. RenewalsIn(events) \subseteq 1..Len(events)
  BY DEF RenewalsIn
<1>4. QED
  BY <1>2, <1>3, FS_Subset, FS_CardinalityType

\* Steps that renew nothing and insert no successor.
LEMMA SuccessorsKept ==
    ASSUME TypeOK, TypeOK', SuccessorInv, certificationEvents' = certificationEvents,
           \A d \in Certs : certification'[d].renewedFrom
                              \in {None, certification[d].renewedFrom},
           \A r \in Requests : call'[r].at \in {"qr", "successor"} =>
              /\ call[r].at \in {"qr", "successor"}
              /\ call'[r].op = call[r].op /\ call'[r].cert = call[r].cert
              /\ call'[r].at = "successor" => call[r].op = "renewCertification"
    PROVE  SuccessorInv'
<1>1. \A r \in Requests : call'[r].at = "successor" => call'[r].op = "renewCertification"
  BY DEF SuccessorInv
<1>2. ASSUME NEW c \in Certs
      PROVE  /\ IsFiniteSet(Successors(c)') /\ IsFiniteSet(Renewing(c)')
             /\ Cardinality(Successors(c)') + Cardinality(Renewing(c)')
                  <= Cardinality(Renewals(c)')
  <2>1. Successors(c)' \subseteq Successors(c)
    BY ChainAssumption DEF Successors
  <2>2. Renewing(c)' \subseteq Renewing(c)
    BY DEF Renewing
  <2>3. Renewals(c)' = Renewals(c)
    BY DEF Renewals, RenewalsIn
  <2>4. IsFiniteSet(Successors(c)') /\ Cardinality(Successors(c)') <= Cardinality(Successors(c))
    BY <2>1, FS_Subset DEF SuccessorInv
  <2>5. IsFiniteSet(Renewing(c)') /\ Cardinality(Renewing(c)') <= Cardinality(Renewing(c))
    BY <2>2, FS_Subset DEF SuccessorInv
  <2>6. /\ Cardinality(Successors(c)) \in Nat /\ Cardinality(Renewing(c)) \in Nat
        /\ Cardinality(Successors(c)') \in Nat /\ Cardinality(Renewing(c)') \in Nat
        /\ Cardinality(Renewals(c)) \in Nat
    BY <2>4, <2>5, RenewalsFinite, FS_CardinalityType DEF SuccessorInv, Renewals, TypeOK
  <2>7. QED
    BY <2>3, <2>4, <2>5, <2>6 DEF SuccessorInv
<1>3. QED
  BY <1>1, <1>2 DEF SuccessorInv

\* A committed renewal is one more on record, and one more that owes a successor.
LEMMA SuccessorOwed ==
    ASSUME TypeOK, CallsWellFormed, SuccessorInv, NEW a \in Callers, CommitTransition(a)
    PROVE  SuccessorInv'
<1>0. PICK b, op, e, n : /\ b = call[a].cert /\ op = call[a].op /\ e = EventOf(call[a])
                         /\ n = Len(certificationEvents[b])
  OBVIOUS
<1>1. /\ b \in Certs /\ n \in Nat /\ e.to = To(op)
      /\ Len(certificationEvents'[b]) = n + 1
      /\ \A i \in 1..n : certificationEvents'[b][i] = certificationEvents[b][i]
      /\ certificationEvents'[b][n + 1] = e
      /\ \A d \in Certs \ {b} : certificationEvents'[d] = certificationEvents[d]
  BY <1>0, CommitAppends
<1>2. /\ call[a].at = "loaded" /\ call' = [call EXCEPT ![a] = Committed(call[a])]
      /\ certification' = [certification EXCEPT ![b] =
            Merged(certification[b], SavedImage(call[a]), call[a].loaded)]
  BY <1>0 DEF CommitTransition
<1>3. call'[a] = Committed(call[a]) /\ \A q \in Callers \ {a} : call'[q] = call[q]
  BY <1>2 DEF TypeOK
<1>4. /\ call'[a].at # "successor"
      /\ call'[a].at = "qr" => call'[a].op = op /\ call'[a].cert = b
  BY <1>0, <1>3 DEF Committed, NextStage, Idle
<1>5. \A r \in Requests : call'[r].at = "successor" => call'[r].op = "renewCertification"
  BY <1>3, <1>4 DEF SuccessorInv, Callers
<1>6. \A d \in Certs : certification'[d].renewedFrom = certification[d].renewedFrom
  BY <1>1, <1>2 DEF TypeOK, Merged
<1>7. ASSUME NEW c \in Certs
      PROVE  /\ IsFiniteSet(Successors(c)') /\ IsFiniteSet(Renewing(c)')
             /\ Cardinality(Successors(c)') + Cardinality(Renewing(c)')
                  <= Cardinality(Renewals(c)')
  <2>1. Successors(c)' = Successors(c)
    BY <1>6 DEF Successors
  <2>2. /\ IsFiniteSet(Successors(c)) /\ IsFiniteSet(Renewing(c))
        /\ Cardinality(Successors(c)) \in Nat /\ Cardinality(Renewing(c)) \in Nat
        /\ Cardinality(Successors(c)) + Cardinality(Renewing(c)) <= Cardinality(Renewals(c))
        /\ IsFiniteSet(Renewals(c)) /\ Cardinality(Renewals(c)) \in Nat
    BY RenewalsFinite, FS_CardinalityType DEF SuccessorInv, Renewals, TypeOK
  <2>3. CASE c = b /\ op = "renewCertification"
    <3>1. e.to = "RENEWED"
      BY <1>1, <2>3 DEF To, Edge
    <3>2. Renewals(c)' = Renewals(c) \cup {n + 1} /\ n + 1 \notin Renewals(c)
      <4>1. 1..(n + 1) = 1..n \cup {n + 1} /\ n + 1 \notin 1..n
        BY <1>1
      <4>2. Renewals(c) = {i \in 1..n : certificationEvents[c][i].to = "RENEWED"}
        BY <1>0, <2>3 DEF Renewals, RenewalsIn
      <4>3. Renewals(c)' = {i \in 1..(n + 1) : certificationEvents'[c][i].to = "RENEWED"}
        BY <1>1, <2>3 DEF Renewals, RenewalsIn
      <4>4. \A i : i \in Renewals(c)' <=> i \in Renewals(c) \/ i = n + 1
        BY <1>1, <2>3, <3>1, <4>1, <4>2, <4>3
      <4>5. QED
        BY <4>1, <4>2, <4>4
    <3>3. Cardinality(Renewals(c)') = Cardinality(Renewals(c)) + 1
      BY <2>2, <3>2, FS_AddElement
    <3>4. Renewing(c)' \subseteq Renewing(c) \cup {a}
      BY <1>3 DEF Renewing, Callers
    <3>5. /\ IsFiniteSet(Renewing(c) \cup {a})
          /\ Cardinality(Renewing(c) \cup {a}) <= Cardinality(Renewing(c)) + 1
          /\ Cardinality(Renewing(c) \cup {a}) \in Nat
      <4>1. /\ IsFiniteSet(Renewing(c) \cup {a})
            /\ Cardinality(Renewing(c) \cup {a}) =
                 IF a \in Renewing(c) THEN Cardinality(Renewing(c))
                 ELSE Cardinality(Renewing(c)) + 1
        BY <2>2, FS_AddElement, Zenon
      <4>2. QED
        BY <2>2, <4>1
    <3>6. /\ IsFiniteSet(Renewing(c)') /\ Cardinality(Renewing(c)') \in Nat
          /\ Cardinality(Renewing(c)') <= Cardinality(Renewing(c) \cup {a})
      BY <3>4, <3>5, FS_Subset, FS_CardinalityType
    <3>7. QED
      BY <2>1, <2>2, <3>3, <3>5, <3>6
  <2>4. CASE ~(c = b /\ op = "renewCertification")
    <3>1. Renewing(c)' \subseteq Renewing(c)
      BY <1>3, <1>4, <2>4 DEF Renewing, Callers
    <3>2. /\ IsFiniteSet(Renewing(c)') /\ Cardinality(Renewing(c)') \in Nat
          /\ Cardinality(Renewing(c)') <= Cardinality(Renewing(c))
      BY <2>2, <3>1, FS_Subset, FS_CardinalityType
    <3>3. Renewals(c) \subseteq Renewals(c)'
      <4>1. CASE c = b
        BY <1>0, <1>1, <4>1 DEF Renewals, RenewalsIn
      <4>2. CASE c # b
        BY <1>1, <4>2 DEF Renewals, RenewalsIn
      <4>3. QED
        BY <4>1, <4>2
    <3>4. IsFiniteSet(Renewals(c)') /\ Cardinality(Renewals(c)') \in Nat
      <4>1. TypeOK'
        BY CommitTypes
      <4>2. QED
        BY <4>1, RenewalsFinite DEF Renewals, TypeOK
    <3>5. Cardinality(Renewals(c)) <= Cardinality(Renewals(c)')
      BY <3>3, <3>4, FS_Subset
    <3>6. QED
      BY <2>1, <2>2, <3>2, <3>4, <3>5
  <2>5. QED
    BY <2>3, <2>4
<1>8. QED
  BY <1>5, <1>7 DEF SuccessorInv

\* The insert of the successor ends what the renewal owes.
LEMMA SuccessorInserted ==
    ASSUME TypeOK, SuccessorInv, NEW r \in Requests, NEW d \in Certs, CreateSuccessor(r, d)
    PROVE  SuccessorInv'
<1>1. PICK b : b = call[r].cert
  OBVIOUS
<1>2. /\ call[r].at = "successor" /\ call[r].op = "renewCertification"
      /\ certificationEvents' = certificationEvents
      /\ certification'[d].renewedFrom = b
      /\ \A c \in Certs \ {d} : certification'[c] = certification[c]
      /\ call'[r].at = "announcing"
      /\ \A q \in Requests \ {r} : call'[q] = call[q]
  BY <1>1 DEF CreateSuccessor, NewDraft, SuccessorInv, TypeOK, Callers, Call
<1>3. \A q \in Requests : call'[q].at = "successor" => call'[q].op = "renewCertification"
  BY <1>2 DEF SuccessorInv
<1>4. ASSUME NEW c \in Certs
      PROVE  /\ IsFiniteSet(Successors(c)') /\ IsFiniteSet(Renewing(c)')
             /\ Cardinality(Successors(c)') + Cardinality(Renewing(c)')
                  <= Cardinality(Renewals(c)')
  <2>1. Renewals(c)' = Renewals(c)
    BY <1>2 DEF Renewals, RenewalsIn
  <2>2. /\ IsFiniteSet(Successors(c)) /\ IsFiniteSet(Renewing(c))
        /\ Cardinality(Successors(c)) \in Nat /\ Cardinality(Renewing(c)) \in Nat
        /\ Cardinality(Successors(c)) + Cardinality(Renewing(c)) <= Cardinality(Renewals(c))
        /\ Cardinality(Renewals(c)) \in Nat
    BY RenewalsFinite, FS_CardinalityType DEF SuccessorInv, Renewals, TypeOK
  <2>3. Renewing(c)' = Renewing(c) \ {r}
    BY <1>2 DEF Renewing
  <2>4. CASE c = b
    <3>1. r \in Renewing(c)
      BY <1>1, <1>2, <2>4 DEF Renewing
    <3>2. /\ IsFiniteSet(Renewing(c)')
          /\ Cardinality(Renewing(c)') = Cardinality(Renewing(c)) - 1
          /\ Cardinality(Renewing(c)') \in Nat
      BY <2>2, <2>3, <3>1, FS_RemoveElement, FS_CardinalityType
    <3>3. Successors(c)' = Successors(c) \cup {d}
      BY <1>2, <2>4 DEF Successors
    <3>4. /\ IsFiniteSet(Successors(c)')
          /\ Cardinality(Successors(c)') <= Cardinality(Successors(c)) + 1
          /\ Cardinality(Successors(c)') \in Nat
      BY <2>2, <3>3, FS_AddElement
    <3>5. QED
      BY <2>1, <2>2, <3>2, <3>4
  <2>5. CASE c # b
    <3>1. Successors(c)' \subseteq Successors(c) /\ Renewing(c)' \subseteq Renewing(c)
      BY <1>2, <2>3, <2>5 DEF Successors
    <3>2. /\ IsFiniteSet(Successors(c)') /\ IsFiniteSet(Renewing(c)')
          /\ Cardinality(Successors(c)') <= Cardinality(Successors(c))
          /\ Cardinality(Renewing(c)') <= Cardinality(Renewing(c))
      BY <2>2, <3>1, FS_Subset
    <3>3. Cardinality(Successors(c)') \in Nat /\ Cardinality(Renewing(c)') \in Nat
      BY <3>2, FS_CardinalityType
    <3>4. QED
      BY <2>1, <2>2, <3>2, <3>3
  <2>6. QED
    BY <2>4, <2>5
<1>5. QED
  BY <1>3, <1>4 DEF SuccessorInv

\* Every step preserves the invariant on successors.
LEMMA SuccessorsNext ==
    ASSUME TypeOK, CallsWellFormed, SuccessorInv, [Next]_vars
    PROVE  SuccessorInv'
<1>0. TypeOK'
  BY NextTypes
<1>1. CASE UNCHANGED vars
  BY <1>0, <1>1, SuccessorsKept DEF vars, SuccessorInv
<1>2. ASSUME NEW c \in Certs, NEW b \in Batches, RequestCertification(c, b)
      PROVE  SuccessorInv'
  BY <1>0, <1>2, SuccessorsKept DEF RequestCertification, NewDraft, TypeOK, SuccessorInv
<1>3. ASSUME NEW r \in Requests, NEW c \in Certs, StartCall(r, c)
      PROVE  SuccessorInv'
  <2>1. PICK op \in Ops, stage \in {"numbering", "saving"} : Start(r, c, op, stage)
    BY <1>3, StartCallIsStart
  <2>2. QED
    BY <1>0, <2>1, SuccessorsKept DEF Start, TypeOK, SuccessorInv
<1>4. ASSUME NEW r \in Requests, NEW k \in Counters, GenerateCertificationNumber(r, k)
      PROVE  SuccessorInv'
  <2>1. /\ call'[r].at = "saving" /\ \A b \in Callers \ {r} : call'[b] = call[b]
        /\ UNCHANGED <<certification, certificationEvents>>
    BY <1>4 DEF GenerateCertificationNumber, TypeOK, Call, Callers
  <2>2. QED
    BY <1>0, <2>1, SuccessorsKept DEF Callers, SuccessorInv
<1>5. ASSUME NEW e \in LabEvents, HandleLabTestCompleted(e)
      PROVE  SuccessorInv'
  BY <1>0, <1>5, SuccessorsKept, ChainAssumption
     DEF HandleLabTestCompleted, TypeOK, SuccessorInv, Callers
<1>6. ASSUME NEW c \in Certs, ReceiveLabResults(c)
      PROVE  SuccessorInv'
  BY <1>0, <1>6, SuccessorsKept, ChainAssumption DEF ReceiveLabResults, TypeOK, SuccessorInv, Callers
<1>7. CASE SkipLabResults
  BY <1>0, <1>7, SuccessorsKept, ChainAssumption DEF SkipLabResults, TypeOK, SuccessorInv, Callers
<1>8. ASSUME NEW a \in Callers, LoadForSave(a)
      PROVE  SuccessorInv'
  BY <1>0, <1>8, SuccessorsKept DEF LoadForSave, TypeOK, Call, Callers, SuccessorInv
<1>9. ASSUME NEW a \in Callers, CommitTransition(a)
      PROVE  SuccessorInv'
  BY <1>9, SuccessorOwed
<1>10. ASSUME NEW a \in Callers, Abort(a)
       PROVE  SuccessorInv'
  BY <1>0, <1>10, SuccessorsKept DEF Abort, TypeOK, Idle, Callers, SuccessorInv
<1>11. ASSUME NEW r \in Requests, CallQrService(r)
       PROVE  SuccessorInv'
  BY <1>0, <1>11, SuccessorsKept DEF CallQrService, TypeOK, Call, Callers, SuccessorInv
<1>12. ASSUME NEW r \in Requests, Announce(r)
       PROVE  SuccessorInv'
  BY <1>0, <1>12, SuccessorsKept DEF Announce, TypeOK, Idle, Callers, SuccessorInv
<1>13. ASSUME NEW r \in Requests, NEW d \in Certs, CreateSuccessor(r, d)
       PROVE  SuccessorInv'
  BY <1>13, SuccessorInserted
<1>14. QED
  BY <1>1, <1>2, <1>3, <1>4, <1>5, <1>6, <1>7, <1>8, <1>9, <1>10, <1>11, <1>12, <1>13
  DEF Next

\* Initially there is no successor and no renewal.
LEMMA SuccessorsInit == Init => SuccessorInv
<1> SUFFICES ASSUME Init PROVE SuccessorInv
  OBVIOUS
<1>1. \A c \in Certs : Successors(c) = {} /\ Renewing(c) = {} /\ Renewals(c) = {}
  BY ChainAssumption DEF Init, Successors, Renewing, Renewals, RenewalsIn, NoRow, Idle, Callers
<1>2. \A r \in Requests : call[r].at # "successor"
  BY DEF Init, Idle, Callers
<1>3. QED
  BY <1>1, <1>2, FS_EmptySet DEF SuccessorInv

\* The renewals that insert their successor are among those that owe one.
LEMMA SuccessorsBounded ==
    ASSUME TypeOK, SuccessorInv
    PROVE  SuccessorsExplained
<1> SUFFICES ASSUME NEW c \in Certs
             PROVE  Cardinality(Successors(c))
                      + Cardinality({r \in Requests : call[r].at = "successor" /\ call[r].cert = c})
                      <= Cardinality(Renewals(c))
  BY DEF SuccessorsExplained, Successors, Renewals, RenewalsIn
<1> DEFINE inserting == {r \in Requests : call[r].at = "successor" /\ call[r].cert = c}
<1>1. inserting \subseteq Renewing(c)
  BY DEF SuccessorInv, Renewing
<1> HIDE DEF inserting
<1>2. IsFiniteSet(inserting) /\ Cardinality(inserting) <= Cardinality(Renewing(c))
  BY <1>1, FS_Subset DEF SuccessorInv
<1>3. /\ Cardinality(Successors(c)) \in Nat /\ Cardinality(Renewing(c)) \in Nat
      /\ Cardinality(inserting) \in Nat /\ Cardinality(Renewals(c)) \in Nat
  BY <1>2, RenewalsFinite, FS_CardinalityType DEF SuccessorInv, Renewals, TypeOK
<1>4. Cardinality(Successors(c)) + Cardinality(inserting) <= Cardinality(Renewals(c))
  BY <1>2, <1>3 DEF SuccessorInv
<1> QED BY <1>4 DEF inserting

\* renewCertification, whatever it races with and wherever it dies: a certification never
\* has more successors than renewals on record, those still to be inserted included.
THEOREM SuccessorsAreExplained == Spec => []SuccessorsExplained
<1>1. TypeOK /\ CallsWellFormed /\ SuccessorInv /\ [Next]_vars => SuccessorInv'
  BY SuccessorsNext
<1> QED BY SuccessorsInit, <1>1, SuccessorsBounded, TypeCorrect, PTL DEF Spec

-----------------------------------------------------------------------------
(* One request at a time *)

\* The call is past its status check and has not committed yet.
Working(a) == call[a].at \in {"numbering", "saving", "loaded"}

\* What such a call has read is still so, apart from the number a grant has taken.
Current(a) ==
    LET row == certification[call[a].cert]
    IN /\ row.exists
       /\ row.status = From(call[a].op)
       /\ PendingGrant(a) \/ call[a].entity.number = row.number
       /\ call[a].at = "loaded" => call[a].loaded = ImageOf(row)

Numbered == {"GRANTED", "REVOKED", "RENEWED"}

\* With one request beside the consumer every call acts on what is still so:
\* the two never work on the same certification, because only the consumer
\* takes one out of LAB_TESTING.
SerialInv ==
    /\ \A c \in Certs :
          /\ ~certification[c].exists => certification[c] = NoRow
          /\ certification[c].number # None => certification[c].status \in Numbered
    /\ \A a \in Callers : Working(a) => Current(a)

-----------------------------------------------------------------------------

\* Each operation leaves its status for another; the results of the laboratory
\* are the only way out of LAB_TESTING, a grant the only way to a number.
LEMMA EdgesOneByOne ==
    ASSUME NEW op \in Ops
    PROVE  /\ From(op) # To(op)
           /\ From(op) = "LAB_TESTING" <=> op = "receiveLabResults"
           /\ From(op) \in Numbered => To(op) \in Numbered
           /\ From(op) \notin {"DENIED", "REVOKED", "RENEWED"}
           /\ op = "grantCertification" => To(op) = "GRANTED" /\ From(op) \notin Numbered
BY DEF Ops, Edge, From, To, Numbered

\* The request and the consumer work on different certifications.
LEMMA Apart ==
    ASSUME TypeOK, CallsWellFormed, LabInv, SerialInv, NEW r, Requests = {r},
           NEW a \in Callers, NEW b \in Callers, a # b, Working(a), Working(b)
    PROVE  call[a].cert # call[b].cert
<1>1. {a, b} = {r, Consumer}
  BY DEF Callers
<1>2. call[a].op \in Ops /\ call[b].op \in Ops
  BY DEF CallsWellFormed, Working
<1>3. Working(Consumer) => call[Consumer].op = "receiveLabResults"
  BY DEF LabInv, Working
<1>4. call[r].op # "receiveLabResults"
  BY DEF LabInv
<1>5. From(call[a].op) # From(call[b].op)
  BY <1>1, <1>2, <1>3, <1>4, EdgesOneByOne
<1> QED BY <1>5 DEF SerialInv, Current

\* The row of c after operation op, with number n.
RowAfter(c, op, n) ==
    [exists |-> TRUE, status |-> To(op), number |-> n,
     batch |-> certification[c].batch, renewedFrom |-> certification[c].renewedFrom]

\* What a commit does to its row: the transition of its operation, and the
\* number if it is a grant, which no row has.
LEMMA SerialCommit ==
    ASSUME TypeOK, CallsWellFormed, LabInv, NumberInv, SerialInv,
           NEW a \in Callers, CommitTransition(a),
           NEW c, c = call[a].cert, NEW op, op = call[a].op
    PROVE  /\ c \in Certs /\ op \in Ops
           /\ certification[c].exists /\ certification[c].status = From(op)
           /\ \E n : /\ certification' = [certification EXCEPT ![c] = RowAfter(c, op, n)]
                     /\ op # "grantCertification" => n = certification[c].number
                     /\ op = "grantCertification" =>
                          /\ certification[c].number = None
                          /\ n \in Numbers
                          /\ \A d \in Certs : certification[d].number # n
<1>1. call[a].at = "loaded" /\ Working(a)
  BY DEF CommitTransition, Working
<1>2. c \in Certs /\ op \in Ops /\ call[a].entity \in Image /\ certification[c] \in Row
  BY <1>1 DEF CallsWellFormed, TypeOK
<1>3. /\ certification[c].exists /\ certification[c].status = From(op)
      /\ PendingGrant(a) \/ call[a].entity.number = certification[c].number
      /\ call[a].loaded = ImageOf(certification[c])
  BY <1>1 DEF SerialInv, Current
<1>4. PendingGrant(a) <=> op = "grantCertification"
  BY <1>1 DEF PendingGrant
<1>5. PICK n : n = call[a].entity.number
  OBVIOUS
<1>6. PICK row : row = Merged(certification[c], SavedImage(call[a]), call[a].loaded)
  OBVIOUS
<1>7. row = RowAfter(c, op, n)
  <2>1. certification[c].exists = TRUE
    BY <1>2, <1>3 DEF Row
  <2>2. call[a].loaded.status # To(op) /\ call[a].loaded.number = certification[c].number
    BY <1>2, <1>3, EdgesOneByOne DEF ImageOf
  <2>3. SavedImage(call[a]).status = To(op) /\ SavedImage(call[a]).number = n
    BY <1>5 DEF SavedImage
  <2> QED BY <1>6, <2>1, <2>2, <2>3 DEF Merged, RowAfter
<1>8. certification' = [certification EXCEPT ![c] = row] /\ NumberFree(c, row)
  BY <1>6 DEF CommitTransition
<1>9. ASSUME op = "grantCertification"
      PROVE  /\ certification[c].number = None
             /\ n \in Numbers
             /\ \A d \in Certs : certification[d].number # n
  <2>1. certification[c].number = None
    BY <1>2, <1>3, <1>9, EdgesOneByOne DEF SerialInv
  <2>2. n \in Number /\ n.seq \in 1..lastSeq[n.counter]
    BY <1>4, <1>5, <1>9 DEF NumberInv
  <2>3. n.counter \in Counters /\ lastSeq[n.counter] \in Nat
        /\ lastSeq[n.counter] <= MaxSeq /\ MaxSeq \in Nat
    BY <2>2, ChainAssumption DEF Number, NumberInv, TypeOK
  <2>4. n.seq \in 1..MaxSeq
    BY <2>2, <2>3
  <2>5. n \in Numbers
    BY <2>2, <2>3, <2>4 DEF Number, Numbers
  <2>6. n # None
    BY <2>2, ChainAssumption DEF Number
  <2>7. row.number = n
    BY <1>7 DEF RowAfter
  <2>8. \A d \in Certs \ {c} : certification[d].number # n
    BY <1>8, <2>6, <2>7 DEF NumberFree
  <2> QED BY <2>1, <2>5, <2>6, <2>8
<1>10. op # "grantCertification" => n = certification[c].number
  BY <1>3, <1>4, <1>5
<1> QED BY <1>2, <1>3, <1>7, <1>8, <1>9, <1>10

\* A step that writes no row, and lets no call go on with what it has not read.
LEMMA SerialKept ==
    ASSUME SerialInv, certification' = certification,
           \A a \in Callers : Working(a)' =>
              \/ Working(a) /\ call'[a] = call[a]
              \/ Current(a)'
    PROVE  SerialInv'
<1>1. \A a \in Callers : call'[a] = call[a] => (Current(a)' <=> Current(a))
  BY DEF Current, PendingGrant
<1> QED BY <1>1 DEF SerialInv

\* A row that is inserted belongs to no call.
LEMMA SerialCreated ==
    ASSUME TypeOK, CallsWellFormed, SerialInv, NEW c \in Certs, ~certification[c].exists,
           NEW b, NEW d, certification' = [certification EXCEPT ![c] = NewDraft(b, d)],
           \A a \in Callers : Working(a)' => Working(a) /\ call'[a] = call[a]
    PROVE  SerialInv'
<1>1. certification'[c] = NewDraft(b, d)
      /\ \A e \in Certs \ {c} : certification'[e] = certification[e]
  BY DEF TypeOK
<1>2. ASSUME NEW a \in Callers, Working(a)'
      PROVE  Current(a)'
  <2>1. Working(a) /\ call'[a] = call[a]
    BY <1>2
  <2>2. PICK e : e = call[a].cert
    OBVIOUS
  <2>3. e \in Certs /\ certification[e].exists
    BY <2>1, <2>2 DEF SerialInv, Current, CallsWellFormed, Working
  <2>4. certification'[e] = certification[e]
    BY <1>1, <2>3
  <2> QED BY <2>1, <2>2, <2>4 DEF SerialInv, Current, PendingGrant
<1> QED BY <1>1, <1>2 DEF SerialInv, NewDraft

\* A commit leaves what the other call has read.
LEMMA SerialCommitted ==
    ASSUME TypeOK, CallsWellFormed, LabInv, NumberInv, SerialInv,
           NEW r, Requests = {r}, NEW a \in Callers, CommitTransition(a)
    PROVE  SerialInv'
<1>1. PICK c, op : c = call[a].cert /\ op = call[a].op
  OBVIOUS
<1>2. /\ c \in Certs /\ op \in Ops
      /\ certification[c].exists /\ certification[c].status = From(op)
  BY <1>1, SerialCommit
<1>3. PICK n : /\ certification' = [certification EXCEPT ![c] = RowAfter(c, op, n)]
               /\ op # "grantCertification" => n = certification[c].number
               /\ op = "grantCertification" =>
                    /\ certification[c].number = None
                    /\ n \in Numbers
                    /\ \A d \in Certs : certification[d].number # n
  BY <1>1, SerialCommit
<1>4. /\ certification'[c].exists /\ certification'[c].status = To(op)
      /\ certification'[c].number = n
      /\ \A e \in Certs \ {c} : certification'[e] = certification[e]
  BY <1>2, <1>3 DEF TypeOK, RowAfter
<1>5. ~Working(a)' /\ \A b \in Callers \ {a} : call'[b] = call[b]
  BY DEF CommitTransition, Committed, NextStage, Idle, Working, TypeOK
<1>6. Working(a)
  BY DEF CommitTransition, Working
<1>7. ASSUME NEW b \in Callers, Working(b)'
      PROVE  Current(b)'
  <2>1. b # a /\ call'[b] = call[b] /\ Working(b)
    BY <1>5, <1>7 DEF Working
  <2>2. PICK e : e = call[b].cert
    OBVIOUS
  <2>3. e # c /\ e \in Certs
    BY <1>1, <1>6, <2>1, <2>2, Apart DEF CallsWellFormed, Working
  <2>4. certification'[e] = certification[e]
    BY <1>4, <2>3
  <2> QED BY <2>1, <2>2, <2>4 DEF SerialInv, Current, PendingGrant
<1>8. n # None => To(op) \in Numbered
  BY <1>2, <1>3, EdgesOneByOne DEF SerialInv, Numbered
<1> QED BY <1>4, <1>7, <1>8 DEF SerialInv

\* Every step preserves the invariant of the calls that come one at a time.
LEMMA SerialNext ==
    ASSUME TypeOK, CallsWellFormed, LabInv, NumberInv, SerialInv,
           NEW r, Requests = {r}, [Next]_vars
    PROVE  SerialInv'
<1>1. CASE UNCHANGED vars
  BY <1>1, SerialKept DEF vars, Working
<1>2. ASSUME NEW c \in Certs, NEW b \in Batches, RequestCertification(c, b)
      PROVE  SerialInv'
  BY <1>2, SerialCreated DEF RequestCertification, Working
<1>3. ASSUME NEW q \in Requests, NEW c \in Certs, StartCall(q, c)
      PROVE  SerialInv'
  <2>1. PICK op \in Ops \ {"receiveLabResults"}, stage \in {"numbering", "saving"} :
           Start(q, c, op, stage)
    BY <1>3, StartCallIsStart
  <2>2. call'[q] = [at |-> stage, op |-> op, cert |-> c,
                    entity |-> ImageOf(certification[c]), loaded |-> None,
                    cause |-> None]
    BY <2>1 DEF Start, TypeOK, Callers
  <2>3. Current(q)'
    BY <2>1, <2>2 DEF Start, Current, ImageOf
  <2> QED BY <2>1, <2>3, SerialKept DEF Start, Working, TypeOK
<1>4. ASSUME NEW q \in Requests, NEW k \in Counters, GenerateCertificationNumber(q, k)
      PROVE  SerialInv'
  <2>1. call[q] \in Call /\ q \in Callers /\ call[q].at = "numbering"
    BY <1>4 DEF TypeOK, Callers, GenerateCertificationNumber
  <2>2. /\ call'[q].at = "saving" /\ call'[q].op = call[q].op
        /\ call'[q].cert = call[q].cert
        /\ \A b \in Callers \ {q} : call'[b] = call[b]
    BY <1>4, <2>1 DEF GenerateCertificationNumber, TypeOK, Call
  <2>3. certification' = certification
    BY <1>4 DEF GenerateCertificationNumber
  <2>4. Current(q) /\ call[q].op = "grantCertification"
    BY <2>1 DEF SerialInv, Working, CallsWellFormed
  <2>5. Current(q)'
    BY <2>2, <2>3, <2>4 DEF Current, PendingGrant
  <2> QED BY <2>2, <2>3, <2>5, SerialKept DEF Working
<1>5. ASSUME NEW e \in LabEvents, HandleLabTestCompleted(e)
      PROVE  SerialInv'
  BY <1>5, SerialKept DEF HandleLabTestCompleted, Working, TypeOK, Call
<1>6. ASSUME NEW c \in Certs, ReceiveLabResults(c)
      PROVE  SerialInv'
  <2>1. call'[Consumer] = [at |-> "saving", op |-> "receiveLabResults", cert |-> c,
                           entity |-> ImageOf(certification[c]), loaded |-> None,
                           cause |-> call[Consumer].cause]
    BY <1>6 DEF ReceiveLabResults, TypeOK, Callers
  <2>2. Current(Consumer)'
    BY <1>6, <2>1 DEF ReceiveLabResults, AwaitsLab, Current, ImageOf
  <2> QED BY <1>6, <2>2, SerialKept DEF ReceiveLabResults, Working, TypeOK
<1>7. CASE SkipLabResults
  BY <1>7, SerialKept DEF SkipLabResults, Working, TypeOK, Idle
<1>8. ASSUME NEW a \in Callers, LoadForSave(a)
      PROVE  SerialInv'
  <2>1. call[a] \in Call /\ call[a].at = "saving" /\ certification' = certification
    BY <1>8 DEF LoadForSave, TypeOK
  <2>2. /\ call'[a].at = "loaded" /\ call'[a].op = call[a].op
        /\ call'[a].cert = call[a].cert /\ call'[a].entity = call[a].entity
        /\ call'[a].loaded = ImageOf(certification[call[a].cert])
        /\ \A b \in Callers \ {a} : call'[b] = call[b]
    BY <1>8, <2>1 DEF LoadForSave, TypeOK, Call
  <2>3. Current(a)
    BY <2>1 DEF SerialInv, Working
  <2>4. Current(a)'
    BY <2>1, <2>2, <2>3 DEF Current, PendingGrant
  <2> QED BY <2>1, <2>2, <2>4, SerialKept DEF Working
<1>9. ASSUME NEW a \in Callers, CommitTransition(a)
      PROVE  SerialInv'
  BY <1>9, SerialCommitted
<1>10. ASSUME NEW a \in Callers, Abort(a)
       PROVE  SerialInv'
  BY <1>10, SerialKept DEF Abort, Working, TypeOK, Idle
<1>11. ASSUME NEW q \in Requests, CallQrService(q)
       PROVE  SerialInv'
  BY <1>11, SerialKept DEF CallQrService, Working, TypeOK, Call
<1>12. ASSUME NEW q \in Requests, Announce(q)
       PROVE  SerialInv'
  BY <1>12, SerialKept DEF Announce, Working, TypeOK, Idle
<1>13. ASSUME NEW q \in Requests, NEW d \in Certs, CreateSuccessor(q, d)
       PROVE  SerialInv'
  BY <1>13, SerialCreated DEF CreateSuccessor, Working, TypeOK, Call
<1> QED
  BY <1>1, <1>2, <1>3, <1>4, <1>5, <1>6, <1>7, <1>8, <1>9, <1>10, <1>11, <1>12, <1>13
  DEF Next

-----------------------------------------------------------------------------

\* The operations mean the same on both sides.
LEMMA SameStates ==
    /\ Lifecycle!Ops = Ops
    /\ \A op \in Ops : Lifecycle!From(op) = From(op) /\ Lifecycle!To(op) = To(op)
    /\ "grantCertification" \in Ops
BY DEF Lifecycle!Ops, Lifecycle!From, Lifecycle!To, Lifecycle!Edge, Ops, From, To, Edge

\* The status of one row is written.
LEMMA StatusMoves ==
    ASSUME NEW c \in Certs, NEW s, certification'[c].exists, certification'[c].status = s,
           \A e \in Certs \ {c} : certification'[e] = certification[e]
    PROVE  StatusView' = [StatusView EXCEPT ![c] = s]
BY DEF StatusView

\* A row that is inserted is a creation.
LEMMA CreationRefines ==
    ASSUME TypeOK, SerialInv, NEW c \in Certs, ~certification[c].exists,
           NEW b, NEW d, certification' = [certification EXCEPT ![c] = NewDraft(b, d)]
    PROVE  Lifecycle!Next
<1>1. certification'[c] = NewDraft(b, d)
      /\ \A e \in Certs \ {c} : certification'[e] = certification[e]
  BY DEF TypeOK
<1>2. StatusView[c] = "ABSENT"
  BY DEF StatusView
<1>3. StatusView' = [StatusView EXCEPT ![c] = "DRAFT"]
  <2>1. certification'[c].exists /\ certification'[c].status = "DRAFT"
    BY <1>1 DEF NewDraft
  <2>2. \A e \in Certs \ {c} : certification'[e] = certification[e]
    BY <1>1
  <2> QED BY <2>1, <2>2, StatusMoves
<1>4. NumberView' = NumberView
  BY <1>1 DEF NumberView, NewDraft, SerialInv, NoRow
<1>5. Lifecycle!Create(c)
  BY <1>2, <1>3, <1>4 DEF Lifecycle!Create
<1> QED BY <1>5 DEF Lifecycle!Next

\* A commit is one transition of the chain, or a grant with a fresh number.
LEMMA SerialCommitRefines ==
    ASSUME TypeOK, CallsWellFormed, LabInv, NumberInv, SerialInv,
           NEW a \in Callers, CommitTransition(a)
    PROVE  Lifecycle!Next
<1>1. PICK c, op : c = call[a].cert /\ op = call[a].op
  OBVIOUS
<1>2. /\ c \in Certs /\ op \in Ops
      /\ certification[c].exists /\ certification[c].status = From(op)
  BY <1>1, SerialCommit
<1>3. PICK n : /\ certification' = [certification EXCEPT ![c] = RowAfter(c, op, n)]
               /\ op # "grantCertification" => n = certification[c].number
               /\ op = "grantCertification" =>
                    /\ certification[c].number = None
                    /\ n \in Numbers
                    /\ \A d \in Certs : certification[d].number # n
  BY <1>1, SerialCommit
<1>4. /\ certification'[c].exists /\ certification'[c].status = To(op)
      /\ certification'[c].number = n
      /\ \A e \in Certs \ {c} : certification'[e] = certification[e]
  BY <1>2, <1>3 DEF TypeOK, RowAfter
<1>5. StatusView[c] = From(op) /\ StatusView' = [StatusView EXCEPT ![c] = To(op)]
  BY <1>2, <1>4, StatusMoves DEF StatusView
<1>6. NumberView' = [NumberView EXCEPT ![c] = n]
      /\ \A d \in Certs : NumberView[d] = certification[d].number
  BY <1>2, <1>4 DEF NumberView
<1>7. CASE op = "grantCertification"
  <2>1. To(op) = "GRANTED"
    BY <1>2, <1>7, EdgesOneByOne
  <2>2. Lifecycle!Grant(c, n)
    BY <1>2, <1>3, <1>5, <1>6, <1>7, <2>1, SameStates DEF Lifecycle!Grant
  <2> QED BY <1>2, <1>3, <1>7, <2>2 DEF Lifecycle!Next
<1>8. CASE op # "grantCertification"
  <2>1. NumberView' = NumberView
    BY <1>2, <1>3, <1>6, <1>8 DEF NumberView
  <2>2. Lifecycle!Move(c, op)
    BY <1>2, <1>5, <1>8, <2>1, SameStates DEF Lifecycle!Move
  <2>3. op \in Lifecycle!Ops
    BY <1>2, SameStates
  <2> QED BY <1>2, <2>2, <2>3 DEF Lifecycle!Next
<1> QED BY <1>7, <1>8

\* Rows are written by commits and inserted by two operations, and by nothing else.
LEMMA RowsWritten ==
    ASSUME [Next]_vars
    PROVE  \/ certification' = certification
           \/ \E a \in Callers : CommitTransition(a)
           \/ \E c \in Certs : \E b, d :
                 /\ ~certification[c].exists
                 /\ certification' = [certification EXCEPT ![c] = NewDraft(b, d)]
<1>1. ASSUME NEW r \in Requests, NEW c \in Certs, StartCall(r, c)
      PROVE  certification' = certification
  BY <1>1, StartCallIsStart DEF Start
<1>2. ASSUME NEW c \in Certs, NEW b \in Batches, RequestCertification(c, b)
      PROVE  /\ ~certification[c].exists
             /\ certification' = [certification EXCEPT ![c] = NewDraft(b, None)]
  BY <1>2 DEF RequestCertification
<1>3. ASSUME NEW r \in Requests, NEW d \in Certs, CreateSuccessor(r, d)
      PROVE  /\ ~certification[d].exists
             /\ \E b, c : certification' = [certification EXCEPT ![d] = NewDraft(b, c)]
  BY <1>3 DEF CreateSuccessor
<1>4. ASSUME NEW a \in Callers, LoadForSave(a) \/ Abort(a)
      PROVE  certification' = certification
  BY <1>4 DEF LoadForSave, Abort
<1>5. ASSUME NEW r \in Requests,
             \/ CallQrService(r) \/ Announce(r)
             \/ \E k \in Counters : GenerateCertificationNumber(r, k)
      PROVE  certification' = certification
  BY <1>5 DEF CallQrService, Announce, GenerateCertificationNumber
<1>6. ASSUME \/ \E e \in LabEvents : HandleLabTestCompleted(e)
             \/ \E c \in Certs : ReceiveLabResults(c)
             \/ SkipLabResults
             \/ UNCHANGED vars
      PROVE  certification' = certification
  BY <1>6 DEF HandleLabTestCompleted, ReceiveLabResults, SkipLabResults, vars
<1> QED BY <1>1, <1>2, <1>3, <1>4, <1>5, <1>6 DEF Next

\* Initially there is no row and no call.
LEMMA SerialInit == Init => SerialInv
BY DEF Init, SerialInv, Working, NoRow, Idle

\* CertificationService with one request in flight, whatever the Kafka
\* consumer does beside it and wherever either dies: the rows move as the
\* state machine of the chain says, and a number stays where it was assigned.
THEOREM OneByOneRefines ==
    ASSUME NEW CONSTANT r, Requests = {r}
    PROVE  Spec => LifecycleSpec
<1>1. TypeOK /\ CallsWellFormed /\ LabInv /\ NumberInv /\ SerialInv /\ [Next]_vars
      => SerialInv'
  BY SerialNext
<1>2. Init => Lifecycle!Init
  BY DEF Init, Lifecycle!Init, StatusView, NumberView, NoRow
<1>3. TypeOK /\ CallsWellFormed /\ LabInv /\ NumberInv /\ SerialInv /\ [Next]_vars
      => [Lifecycle!Next]_<<StatusView, NumberView>>
  <2>1. certification' = certification => UNCHANGED <<StatusView, NumberView>>
    BY DEF StatusView, NumberView
  <2> QED BY <2>1, RowsWritten, SerialCommitRefines, CreationRefines
<1> QED
  BY <1>1, <1>2, <1>3, SerialInit, TypeCorrect, LabMessagesOnce, NumbersHandedOutOnce, PTL
  DEF Spec, LifecycleSpec, Lifecycle!Spec

\* "denied --> [*]", "revoked --> [*]": with one request in flight nothing
\* leaves these statuses; it takes two that overlap.
THEOREM DecisionsAreFinalOneByOne ==
    ASSUME NEW CONSTANT r, Requests = {r}
    PROVE  Spec => DecisionIsFinal
<1>1. TypeOK /\ CallsWellFormed /\ LabInv /\ NumberInv /\ SerialInv /\ [Next]_vars
      => SerialInv'
  BY SerialNext
<1>2. TypeOK /\ CallsWellFormed /\ LabInv /\ NumberInv /\ SerialInv /\ [Next]_vars
      => [\A c \in Certs :
             certification[c].status \in {"DENIED", "REVOKED"} =>
                 certification'[c].status = certification[c].status]_vars
  <2> SUFFICES ASSUME TypeOK, CallsWellFormed, LabInv, NumberInv, SerialInv, [Next]_vars,
                      NEW d \in Certs, certification[d].status \in {"DENIED", "REVOKED"}
               PROVE  certification'[d].status = certification[d].status
    OBVIOUS
  <2>1. CASE certification' = certification
    BY <2>1
  <2>2. ASSUME NEW a \in Callers, CommitTransition(a)
        PROVE  certification'[d].status = certification[d].status
    <3>1. PICK c, op : c = call[a].cert /\ op = call[a].op
      OBVIOUS
    <3>2. c \in Certs /\ op \in Ops /\ certification[c].status = From(op)
          /\ \E row : certification' = [certification EXCEPT ![c] = row]
      BY <2>2, <3>1, SerialCommit
    <3>3. d # c
      BY <3>2, EdgesOneByOne
    <3> QED BY <3>2, <3>3 DEF TypeOK
  <2>3. ASSUME NEW c \in Certs, NEW b, NEW e, ~certification[c].exists,
               certification' = [certification EXCEPT ![c] = NewDraft(b, e)]
        PROVE  certification'[d].status = certification[d].status
    <3>1. c # d
      BY <2>3 DEF SerialInv, NoRow
    <3> QED BY <2>3, <3>1 DEF TypeOK
  <2> QED BY <2>1, <2>2, <2>3, RowsWritten
<1> QED
  BY <1>1, <1>2, SerialInit, TypeCorrect, LabMessagesOnce, NumbersHandedOutOnce, PTL
  DEF Spec, DecisionIsFinal
=============================================================================
