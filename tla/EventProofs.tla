------------------------------ MODULE EventProofs ------------------------------
(***************************************************************************)
(* The bus and the cooperatives, for any number of calls, interruptions    *)
(* and messages: no listener but those of certification and notification   *)
(* ever has a topic; the group never commits past a message it had to      *)
(* handle; suspensions and registrations stand.                            *)
(***************************************************************************)
EXTENDS PlatformEvents, SequenceTheorems, TLAPS

LabMessage == [event : LabCalls, test : Tests, batch : Batches, passed : BOOLEAN]
CoopMessage == [event : CoopCalls, coop : Coops]
LabTopic == "lab.test.completed"
CoopTopics == {"cooperative.registration.verified", "cooperative.cooperative.deactivated"}

Stages == {"handling", "inserting", "delivering", "done"}

-----------------------------------------------------------------------------
(* What the steps are *)

RestOfBus == <<phase, handlers, committed, start, position, handled, job, interruptions>>

\* The handler of the message in hand goes on.
JobMoves ==
    /\ job.at \in Stages
    /\ \E stage \in Stages : job' = [job EXCEPT !.at = stage]
    /\ UNCHANGED <<phase, handlers, log, committed, start, position, handled, interruptions>>

\* What a request does to the bus: it publishes, or leaves it alone.
Publishing ==
    /\ UNCHANGED RestOfBus
    /\ \/ UNCHANGED log
       \/ \E c \in LabCalls : PublishLabTestCompleted(c)
       \/ \E k \in CoopCalls : PublishCooperative(k)

\* What a step of any kind does to the bus.
BusStep == BusNext \/ Crash \/ JobMoves \/ Publishing

LEMMA RequestsOnTheBus ==
    ASSUME LabStep \/ CoopStep
    PROVE  Publishing
<1> USE DEF RestOfBus
<1>1. CASE LabNext
  <2>1. PICK c \in LabCalls :
           \/ UNCHANGED busVars
           \/ PublishLabTestCompleted(c)
    BY <1>1 DEF LabNext, SubmitLabTest, MarkBatchTesting, Validate, InsertResult,
       CompleteTest, JudgeBatch, FindTest, UploadReport, LinkReport, AbortLabCall
  <2>2. QED
    BY <2>1 DEF busVars, Publishing, PublishLabTestCompleted
<1>2. CASE \E b \in Batches : RequestLab(b)
  BY <1>2 DEF RequestLab, busVars, Publishing
<1>3. CASE CoopNext
  <2>1. PICK k \in CoopCalls :
           \/ UNCHANGED busVars
           \/ PublishCooperative(k)
    <3>1. ASSUME NEW k \in CoopCalls, NEW op \in CoopOps, NEW c \in Coops,
                 FindCooperative(k, op, c)
          PROVE  UNCHANGED busVars
      BY <3>1 DEF FindCooperative
    <3>2. ASSUME NEW k \in CoopCalls, NEW m \in Members, NEW c \in Coops, FindMember(k, c, m)
          PROVE  UNCHANGED busVars
      BY <3>2 DEF FindMember
    <3>3. ASSUME NEW k \in CoopCalls,
                 \/ InsertCooperative(k) \/ InsertMember(k) \/ InsertFarm(k)
                 \/ VerifyCooperative(k) \/ DeactivateCooperative(k) \/ DiffCooperative(k)
                 \/ SaveCooperative(k) \/ AbortCoopCall(k)
          PROVE  UNCHANGED busVars
      BY <3>3 DEF InsertCooperative, InsertMember, InsertFarm, VerifyCooperative,
         DeactivateCooperative, DiffCooperative, SaveCooperative, AbortCoopCall
    <3>4. QED
      BY <1>3, <3>1, <3>2, <3>3 DEF CoopNext
  <2>2. QED
    BY <2>1 DEF busVars, Publishing, PublishCooperative
<1>4. QED
  BY <1>1, <1>2, <1>3 DEF LabStep, CoopStep

LEMMA StepsOfTheBus == [Next]_vars => BusStep
<1> SUFFICES ASSUME [Next]_vars PROVE BusStep
  OBVIOUS
<1>1. CASE UNCHANGED vars
  BY <1>1 DEF vars, busVars, BusStep, Publishing, RestOfBus
<1>2. CASE BusNext \/ EndOfProcess
  BY <1>2 DEF EndOfProcess, BusStep
<1>3. CASE Handle
  <2>1. PICK stage \in {"inserting", "done"} : job' = [job EXCEPT !.at = stage]
    BY <1>3 DEF Handle, NotificationListener, Stage
  <2>2. JobMoves
    BY <1>3, <2>1 DEF Handle, JobMoves, Stages
  <2>3. QED
    BY <2>2 DEF BusStep
<1>4. CASE InsertNotification \/ MarkNotification \/ AbortNotification
  <2>1. JobMoves
    BY <1>4 DEF InsertNotification, MarkNotification, AbortNotification, Stage,
       NotificationUnchangedBus, JobMoves, Stages
  <2>2. QED
    BY <2>1 DEF BusStep
<1>5. CASE LabStep \/ CoopStep
  BY <1>5, RequestsOnTheBus DEF BusStep
<1>6. QED
  BY <1>1, <1>2, <1>3, <1>4, <1>5 DEF Next, Consumer

-----------------------------------------------------------------------------
(* Who has a topic *)

\* Only the two modules that come last ever have one, and a message is in hand
\* only of a topic.
ListenersInv ==
    /\ handlers \in [Topics -> {"none", "certification", "notification"}]
    /\ job \in [at : Stages \cup {"idle"}, topic : Topics \cup {NoTopic}]
    /\ job.at # "idle" => job.topic \in Topics
    /\ phase \in Phases

\* Every topic the first two modules subscribe to, a later one subscribes to.
LEMMA LastListenerWins ==
    HandlersAfter(Len(Listeners)) \in [Topics -> {"none", "certification", "notification"}]
<1>1. Len(Listeners) = 4 /\ Listeners[1] = "cooperative" /\ Listeners[2] = "product"
      /\ Listeners[3] = "certification" /\ Listeners[4] = "notification"
  BY DEF Listeners
<1>2. ASSUME NEW t \in Topics, Subscribed(t, 4) # {}
      PROVE  Listeners[CHOOSE i \in Subscribed(t, 4) : \A j \in Subscribed(t, 4) : j <= i]
                 \in {"certification", "notification"}
  <2>1. Subscribed(t, 4) \subseteq 1..4
    BY DEF Subscribed
  <2>2. 1 \in Subscribed(t, 4) => 3 \in Subscribed(t, 4)
    BY <1>1 DEF Subscribed, Subscriptions
  <2>3. 2 \in Subscribed(t, 4) => 4 \in Subscribed(t, 4)
    BY <1>1 DEF Subscribed, Subscriptions
  <2>4. \E i \in Subscribed(t, 4) : \A j \in Subscribed(t, 4) : j <= i
    <3>1. CASE 4 \in Subscribed(t, 4)
      BY <2>1, <3>1
    <3>2. CASE 4 \notin Subscribed(t, 4) /\ 3 \in Subscribed(t, 4)
      BY <2>1, <3>2
    <3>3. CASE 4 \notin Subscribed(t, 4) /\ 3 \notin Subscribed(t, 4)
      BY <1>2, <2>1, <2>2, <2>3, <3>3
    <3>4. QED
      BY <3>1, <3>2, <3>3
  <2>5. PICK i \in Subscribed(t, 4) :
           /\ i = CHOOSE n \in Subscribed(t, 4) : \A j \in Subscribed(t, 4) : j <= n
           /\ \A j \in Subscribed(t, 4) : j <= i
    BY <2>4
  <2>6. i \in {3, 4}
    BY <2>1, <2>2, <2>3, <2>5
  <2>7. QED
    BY <1>1, <2>5, <2>6
<1>3. QED
  BY <1>1, <1>2 DEF HandlersAfter

LEMMA ListenersStep ==
    ASSUME ListenersInv, [Next]_vars
    PROVE  ListenersInv'
<1> USE DEF ListenersInv
<1>1. CASE Boot
  BY <1>1, LastListenerWins DEF Boot, Phases
<1>2. CASE Join
  BY <1>2 DEF Join, Phases
<1>3. CASE Resolve
  BY <1>3 DEF Resolve, NoJob, Stages
<1>4. CASE Rebalance
  BY <1>4 DEF Rebalance, Phases
<1>5. ASSUME NEW t \in Topics, Fetch(t) \/ Commit(t)
      PROVE  ListenersInv'
  BY <1>5 DEF Fetch, Commit, Stages
<1>6. CASE Crash
  BY <1>6 DEF Crash, NoJob, Stages, Phases
<1>7. CASE JobMoves
  BY <1>7 DEF JobMoves, Stages
<1>8. CASE UNCHANGED RestOfBus
  BY <1>8 DEF RestOfBus
<1>9. QED
  BY <1>1, <1>2, <1>3, <1>4, <1>5, <1>6, <1>7, <1>8, StepsOfTheBus DEF BusStep, BusNext, Publishing

LEMMA ListenersHold == Spec => []ListenersInv
<1>1. Init => ListenersInv
  BY DEF Init, BusInit, ListenersInv, NoJob, Phases
<1>2. ListenersInv /\ [Next]_vars => ListenersInv'
  BY ListenersStep
<1>3. QED
  BY <1>1, <1>2, PTL DEF Spec

-----------------------------------------------------------------------------
(* Cooperatives *)

LEMMA StepsOfCooperatives ==
    ASSUME ListenersInv, [Next]_vars
    PROVE  \/ CoopNext
           \/ UNCHANGED coopVars
           \/ CoopCallsLost /\ UNCHANGED <<coop, member, farms, overlap>>
<1> USE DEF coopVars
<1>1. CASE UNCHANGED vars
  BY <1>1 DEF vars
<1>2. CASE Handle
  <2>1. handlers[job.topic] # "cooperative"
    BY <1>2 DEF Handle, ListenersInv
  <2>2. QED
    BY <1>2, <2>1 DEF Handle, CooperativeListener, HandledBy
<1>3. CASE EndOfProcess
  BY <1>3 DEF EndOfProcess
<1>4. CASE LabStep
  BY <1>4 DEF LabStep, RequestLab
<1>5. QED
  BY <1>1, <1>2, <1>3, <1>4 DEF Next, Consumer, CoopStep

\* What a call in flight carries; an update that found a cooperative active
\* before it was suspended was under way when that happened.
CallCarries(k) ==
    LET call == coopCall[k]
    IN /\ call.at \in {"found", "diffed", "publishing"} => call.coop \in Coops
       /\ call.at = "found" /\ call.op = "addMember" => call.cin \in Members
       /\ call.at = "diffed" => call.op = "update"
       /\ call.at = "publishing" => call.op \in {"register", "mapFarm", "verify", "deactivate"}
       /\ /\ call.at \in {"found", "diffed"} /\ call.op = "update"
          /\ coop[call.coop].status = "suspended" /\ call.seen.status = "active"
          => k \in overlap[call.coop]

CoopInv == CoopTypeOK /\ \A k \in CoopCalls : CallCarries(k)

\* What SuspensionHolds and RegistrationsStand say of a step.
SuspensionKept ==
    \A c \in Coops :
        coop[c].status = "suspended" /\ coop'[c].status = "active" =>
            \E k \in CoopCalls :
                /\ coopCall'[k] # coopCall[k]
                /\ coopCall[k].coop = c
                /\ coopCall[k].op = "verify" \/ k \in overlap[c]

RegistrationsKept ==
    /\ \A m \in Members : member[m] # Nobody => member'[m] = member[m]
    /\ \A c \in Coops :
           coop[c].status \in {"active", "suspended"} /\ coop'[c].status = "pending" =>
               \E k \in CoopCalls : /\ coopCall[k].at = "diffed"
                                    /\ coopCall[k].seen.status = "pending"
                                    /\ coopCall'[k].at = "over"

\* A step of the call k that writes no cooperative.
LEMMA SameCooperatives ==
    ASSUME UNCHANGED coop, UNCHANGED member \/ \E m \in Members : member[m] = Nobody /\
                \E x : member' = [member EXCEPT ![m] = x],
           CoopInv
    PROVE  SuspensionKept /\ RegistrationsKept
BY DEF SuspensionKept, RegistrationsKept, CoopInv, CoopTypeOK

\* A step of the call k: the other calls carry what they carried.
LEMMA OneCoopCall ==
    ASSUME CoopInv, NEW k \in CoopCalls, CoopTypeOK',
           \A j \in CoopCalls : j # k => coopCall'[j] = coopCall[j],
           \A c \in Coops : coop'[c].status = "suspended" =>
               \/ coop[c].status = "suspended" /\ overlap'[c] = overlap[c]
               \/ overlap'[c] = {j \in CoopCalls : InFlight(j)},
           CallCarries(k)'
    PROVE  CoopInv'
<1>1. ASSUME NEW j \in CoopCalls, j # k
      PROVE  CallCarries(j)'
  <2>1. coopCall'[j] = coopCall[j] /\ CallCarries(j)
    BY <1>1 DEF CoopInv
  <2>2. ASSUME coopCall[j].at \in {"found", "diffed"}, coopCall[j].op = "update",
               coop'[coopCall[j].coop].status = "suspended",
               coopCall[j].seen.status = "active"
        PROVE  j \in overlap'[coopCall[j].coop]
    <3>1. coopCall[j].coop \in Coops
      BY <2>1, <2>2 DEF CallCarries
    <3>2. InFlight(j)
      BY <2>2 DEF InFlight
    <3>3. QED
      BY <2>1, <2>2, <3>1, <3>2 DEF CallCarries
  <2>3. QED
    BY <2>1, <2>2 DEF CallCarries
<1>2. QED
  BY <1>1 DEF CoopInv

\* A step of the call k that only moves it to its next stage.
LEMMA StagedCall ==
    ASSUME CoopInv, NEW k \in CoopCalls, NEW stage \in {"diffed", "publishing"},
           Goes(k, stage)
    PROVE  /\ coopCall' \in [CoopCalls -> CoopCall]
           /\ \A j \in CoopCalls : j # k => coopCall'[j] = coopCall[j]
           /\ coopCall'[k].at = stage /\ coopCall'[k].op = coopCall[k].op
           /\ coopCall'[k].coop = coopCall[k].coop
BY DEF CoopInv, CoopTypeOK, CoopCall, Goes

LEMMA EndedCall ==
    ASSUME CoopInv, NEW k \in CoopCalls, Ends(k)
    PROVE  /\ coopCall' \in [CoopCalls -> CoopCall]
           /\ \A j \in CoopCalls : j # k => coopCall'[j] = coopCall[j]
           /\ coopCall'[k].at = "over" /\ CallCarries(k)'
<1>1. Ended = [at |-> "over", op |-> Nobody, coop |-> Nobody, cin |-> Nobody,
               seen |-> NoImage, dirty |-> {}]
  BY DEF Ended, NewCoopCall
<1>2. Ended \in CoopCall
  BY <1>1 DEF CoopCall, NoImage, Image, CoopStatuses
<1>3. QED
  BY <1>1, <1>2 DEF Ends, CoopInv, CoopTypeOK, CallCarries

LEMMA CoopStepKeeps ==
    ASSUME CoopInv, CoopNext
    PROVE  CoopInv' /\ SuspensionKept /\ RegistrationsKept
<1> USE DEF CoopTypeOK
<1>1. ASSUME NEW k \in CoopCalls, NEW op \in CoopOps, NEW c \in Coops,
             FindCooperative(k, op, c)
      PROVE  CoopInv' /\ SuspensionKept /\ RegistrationsKept
  <2> DEFINE call == [at |-> "found", op |-> op, coop |-> c, cin |-> Nobody,
                      seen |-> coop[c], dirty |-> {}]
  <2>1. /\ coopCall' = [coopCall EXCEPT ![k] = call]
        /\ UNCHANGED <<coop, member, farms, overlap>> /\ op # "addMember"
    BY <1>1 DEF FindCooperative
  <2>2. call \in CoopCall
    BY DEF CoopInv, CoopCall
  <2>3. CallCarries(k)'
    BY <2>1, <2>2 DEF CoopInv, CallCarries
  <2>4. CoopTypeOK' /\ \A j \in CoopCalls : j # k => coopCall'[j] = coopCall[j]
    BY <2>1, <2>2 DEF CoopInv
  <2>5. QED
    BY <2>1, <2>3, <2>4, OneCoopCall, SameCooperatives
<1>2. ASSUME NEW k \in CoopCalls, NEW c \in Coops, NEW m \in Members, FindMember(k, c, m)
      PROVE  CoopInv' /\ SuspensionKept /\ RegistrationsKept
  <2> DEFINE call == [at |-> "found", op |-> "addMember", coop |-> c, cin |-> m,
                      seen |-> coop[c], dirty |-> {}]
  <2>1. /\ coopCall' = [coopCall EXCEPT ![k] = call]
        /\ UNCHANGED <<coop, member, farms, overlap>>
    BY <1>2 DEF FindMember
  <2>2. call \in CoopCall
    BY DEF CoopInv, CoopCall, CoopOps
  <2>3. CallCarries(k)'
    BY <2>1, <2>2 DEF CoopInv, CallCarries
  <2>4. CoopTypeOK' /\ \A j \in CoopCalls : j # k => coopCall'[j] = coopCall[j]
    BY <2>1, <2>2 DEF CoopInv
  <2>5. QED
    BY <2>1, <2>3, <2>4, OneCoopCall, SameCooperatives
<1>3. ASSUME NEW k \in CoopCalls, InsertCooperative(k)
      PROVE  CoopInv' /\ SuspensionKept /\ RegistrationsKept
  <2> DEFINE c == coopCall[k].coop
  <2>1. /\ c \in Coops /\ coop[c].status = "absent" /\ coopCall[k].op = "register"
        /\ coop' = [coop EXCEPT ![c] = [status |-> "pending", verifiedBy |-> Nobody]]
        /\ UNCHANGED <<member, farms, overlap>>
    BY <1>3 DEF InsertCooperative, Doing, CoopInv, CallCarries
  <2>2. /\ coopCall' \in [CoopCalls -> CoopCall]
        /\ \A j \in CoopCalls : j # k => coopCall'[j] = coopCall[j]
        /\ CallCarries(k)'
    BY <1>3, <2>1, StagedCall DEF InsertCooperative, CallCarries
  <2>3. [status |-> "pending", verifiedBy |-> Nobody] \in Image
    BY DEF Image, CoopStatuses
  <2>4. CoopInv'
    BY <2>1, <2>2, <2>3, OneCoopCall DEF CoopInv
  <2>5. SuspensionKept /\ RegistrationsKept
    BY <2>1 DEF SuspensionKept, RegistrationsKept, CoopInv
  <2>6. QED
    BY <2>4, <2>5
<1>4. ASSUME NEW k \in CoopCalls, InsertMember(k)
      PROVE  CoopInv' /\ SuspensionKept /\ RegistrationsKept
  <2> DEFINE m == coopCall[k].cin
  <2>1. /\ m \in Members /\ member[m] = Nobody /\ coopCall[k].coop \in Coops
        /\ member' = [member EXCEPT ![m] = <<coopCall[k].coop, k>>]
        /\ UNCHANGED <<coop, farms, overlap>>
    BY <1>4 DEF InsertMember, Doing, CoopInv, CallCarries
  <2>2. /\ coopCall' \in [CoopCalls -> CoopCall]
        /\ \A j \in CoopCalls : j # k => coopCall'[j] = coopCall[j]
        /\ CallCarries(k)'
    BY <1>4, EndedCall DEF InsertMember
  <2>3. member' \in [Members -> (Coops \X CoopCalls) \cup {Nobody}]
    BY <2>1 DEF CoopInv
  <2>4. QED
    BY <2>1, <2>2, <2>3, OneCoopCall, SameCooperatives DEF CoopInv
<1>5. ASSUME NEW k \in CoopCalls, InsertFarm(k)
      PROVE  CoopInv' /\ SuspensionKept /\ RegistrationsKept
  <2>1. /\ coopCall[k].coop \in Coops /\ coopCall[k].op = "mapFarm"
        /\ farms' = farms \cup {<<coopCall[k].coop, k>>}
        /\ UNCHANGED <<coop, member, overlap>>
    BY <1>5 DEF InsertFarm, Doing, CoopInv, CallCarries
  <2>2. /\ coopCall' \in [CoopCalls -> CoopCall]
        /\ \A j \in CoopCalls : j # k => coopCall'[j] = coopCall[j]
        /\ CallCarries(k)'
    BY <1>5, <2>1, StagedCall DEF InsertFarm, CallCarries
  <2>3. farms' \subseteq Coops \X CoopCalls
    BY <2>1 DEF CoopInv
  <2>4. QED
    BY <2>1, <2>2, <2>3, OneCoopCall, SameCooperatives DEF CoopInv
<1>6. ASSUME NEW k \in CoopCalls, VerifyCooperative(k)
      PROVE  CoopInv' /\ SuspensionKept /\ RegistrationsKept
  <2> DEFINE c == coopCall[k].coop
  <2>1. /\ c \in Coops /\ coopCall[k].op = "verify" /\ coopCall[k].at = "found"
        /\ coop' = [coop EXCEPT ![c] = [status |-> "active", verifiedBy |-> k]]
        /\ UNCHANGED <<member, farms, overlap>>
    BY <1>6 DEF VerifyCooperative, Doing, CoopInv, CallCarries
  <2>2. /\ coopCall' \in [CoopCalls -> CoopCall]
        /\ \A j \in CoopCalls : j # k => coopCall'[j] = coopCall[j]
        /\ CallCarries(k)' /\ coopCall'[k] # coopCall[k]
    BY <1>6, <2>1, StagedCall DEF VerifyCooperative, CallCarries
  <2>3. [status |-> "active", verifiedBy |-> k] \in Image
    BY DEF Image, CoopStatuses
  <2>4. CoopInv'
    BY <2>1, <2>2, <2>3, OneCoopCall DEF CoopInv
  <2>5. SuspensionKept /\ RegistrationsKept
    BY <2>1, <2>2 DEF SuspensionKept, RegistrationsKept, CoopInv
  <2>6. QED
    BY <2>4, <2>5
<1>7. ASSUME NEW k \in CoopCalls, DeactivateCooperative(k)
      PROVE  CoopInv' /\ SuspensionKept /\ RegistrationsKept
  <2> DEFINE c == coopCall[k].coop
  <2>1. /\ c \in Coops /\ coopCall[k].op = "deactivate"
        /\ coop' = [coop EXCEPT ![c].status = "suspended"]
        /\ overlap' = [overlap EXCEPT ![c] = {j \in CoopCalls : InFlight(j)}]
        /\ UNCHANGED <<member, farms>>
    BY <1>7 DEF DeactivateCooperative, Doing, CoopInv, CallCarries
  <2>2. /\ coopCall' \in [CoopCalls -> CoopCall]
        /\ \A j \in CoopCalls : j # k => coopCall'[j] = coopCall[j]
        /\ CallCarries(k)'
    BY <1>7, <2>1, StagedCall DEF DeactivateCooperative, CallCarries
  <2>3. coop' \in [Coops -> Image]
    BY <2>1 DEF CoopInv, Image, CoopStatuses
  <2>4. overlap' \in [Coops -> SUBSET CoopCalls]
    BY <2>1 DEF CoopInv
  <2>5. \A d \in Coops : d # c => coop'[d] = coop[d] /\ overlap'[d] = overlap[d]
    BY <2>1 DEF CoopInv
  <2>6. coop'[c].status = "suspended" /\ overlap'[c] = {j \in CoopCalls : InFlight(j)}
    BY <2>1 DEF CoopInv, Image
  <2>7. CoopInv'
    BY <2>1, <2>2, <2>3, <2>4, <2>5, <2>6, OneCoopCall DEF CoopInv
  <2>8. SuspensionKept /\ RegistrationsKept
    BY <2>1, <2>5, <2>6 DEF SuspensionKept, RegistrationsKept, CoopInv
  <2>9. QED
    BY <2>7, <2>8
<1>8. ASSUME NEW k \in CoopCalls, DiffCooperative(k)
      PROVE  CoopInv' /\ SuspensionKept /\ RegistrationsKept
  <2> DEFINE call == coopCall[k]
  <2>1. PICK dirty \in SUBSET {"status", "verifiedBy"} :
           coopCall' = [coopCall EXCEPT ![k].at = "diffed", ![k].dirty = dirty]
    BY <1>8 DEF DiffCooperative
  <2>2. /\ UNCHANGED <<coop, member, farms, overlap>>
        /\ call.at = "found" /\ call.op = "update"
    BY <1>8 DEF DiffCooperative, Doing
  <2>3. /\ coopCall' \in [CoopCalls -> CoopCall]
        /\ coopCall'[k].at = "diffed" /\ coopCall'[k].op = "update"
        /\ coopCall'[k].coop = call.coop /\ coopCall'[k].seen = call.seen
        /\ \A j \in CoopCalls : j # k => coopCall'[j] = coopCall[j]
    <3> DEFINE moved == [call EXCEPT !.at = "diffed", !.dirty = dirty]
    <3>1. call \in CoopCall
      BY DEF CoopInv
    <3>2. /\ moved \in CoopCall
          /\ moved.at = "diffed" /\ moved.op = call.op
          /\ moved.coop = call.coop /\ moved.seen = call.seen
      BY <3>1 DEF CoopCall
    <3>3. coopCall' = [coopCall EXCEPT ![k] = moved]
      BY <2>1
    <3> HIDE DEF moved
    <3>4. QED
      BY <2>2, <3>2, <3>3 DEF CoopInv
  <2>4. CallCarries(k)'
    BY <2>2, <2>3 DEF CoopInv, CallCarries
  <2>5. QED
    BY <2>2, <2>3, <2>4, OneCoopCall, SameCooperatives DEF CoopInv
<1>9. ASSUME NEW k \in CoopCalls, SaveCooperative(k)
      PROVE  CoopInv' /\ SuspensionKept /\ RegistrationsKept
  <2> DEFINE call == coopCall[k]
             c == call.coop
             status == IF "status" \in call.dirty THEN call.seen.status ELSE coop[c].status
             verifiedBy == IF "verifiedBy" \in call.dirty THEN call.seen.verifiedBy
                           ELSE coop[c].verifiedBy
             row == [status |-> status, verifiedBy |-> verifiedBy]
  <2>1. /\ c \in Coops /\ call.at = "diffed" /\ call.op = "update"
        /\ coop' = [coop EXCEPT ![c] = row]
        /\ overlap' = IF status = "suspended"
                      THEN [overlap EXCEPT ![c] = {j \in CoopCalls : InFlight(j)}]
                      ELSE overlap
        /\ UNCHANGED <<member, farms>>
    BY <1>9 DEF SaveCooperative, CoopInv, CallCarries
  <2>2. /\ coopCall' \in [CoopCalls -> CoopCall]
        /\ \A j \in CoopCalls : j # k => coopCall'[j] = coopCall[j]
        /\ coopCall'[k].at = "over" /\ CallCarries(k)'
    BY <1>9, EndedCall DEF SaveCooperative
  <2>3. status \in CoopStatuses /\ verifiedBy \in CoopCalls \cup {Nobody, "earlier"}
    BY <2>1 DEF CoopInv, CoopCall, Image
  <2>4. row \in Image
    BY <2>3 DEF Image
  <2>5. /\ coop'[c].status = status
        /\ \A d \in Coops : d # c => coop'[d] = coop[d] /\ overlap'[d] = overlap[d]
        /\ coop' \in [Coops -> Image]
    BY <2>1, <2>4 DEF CoopInv
  <2>6. /\ overlap' \in [Coops -> SUBSET CoopCalls]
        /\ status = "suspended" => overlap'[c] = {j \in CoopCalls : InFlight(j)}
    BY <2>1 DEF CoopInv
  <2>7. status # coop[c].status => status = call.seen.status
    OBVIOUS
  <2> HIDE DEF status, verifiedBy, row
  <2>8. CoopInv'
    BY <2>1, <2>2, <2>5, <2>6, OneCoopCall DEF CoopInv
  <2>9. SuspensionKept
    BY <2>1, <2>2, <2>5, <2>7 DEF SuspensionKept, CoopInv, CallCarries
  <2>10. RegistrationsKept
    BY <2>1, <2>2, <2>5, <2>7 DEF RegistrationsKept, CoopInv
  <2>11. QED
    BY <2>8, <2>9, <2>10
<1>10. ASSUME NEW k \in CoopCalls, PublishCooperative(k) \/ AbortCoopCall(k)
       PROVE  CoopInv' /\ SuspensionKept /\ RegistrationsKept
  <2>1. Ends(k) /\ UNCHANGED <<coop, member, farms, overlap>>
    BY <1>10 DEF PublishCooperative, AbortCoopCall
  <2>2. QED
    BY <2>1, EndedCall, OneCoopCall, SameCooperatives DEF CoopInv
<1>11. QED
  BY <1>1, <1>2, <1>3, <1>4, <1>5, <1>6, <1>7, <1>8, <1>9, <1>10 DEF CoopNext

LEMMA CoopStays ==
    ASSUME CoopInv, ListenersInv, [Next]_vars
    PROVE  CoopInv' /\ [SuspensionKept]_coopVars /\ [RegistrationsKept]_coopVars
<1>1. CASE CoopNext
  BY <1>1, CoopStepKeeps
<1>2. CASE UNCHANGED coopVars
  BY <1>2 DEF coopVars, CoopInv, CoopTypeOK, CallCarries
<1>3. CASE CoopCallsLost /\ UNCHANGED <<coop, member, farms, overlap>>
  <2>1. Ended = [at |-> "over", op |-> Nobody, coop |-> Nobody, cin |-> Nobody,
                 seen |-> NoImage, dirty |-> {}]
    BY DEF Ended, NewCoopCall
  <2>2. Ended \in CoopCall
    BY <2>1 DEF CoopCall, NoImage, Image, CoopStatuses
  <2>3. CoopTypeOK'
    BY <1>3, <2>2 DEF CoopInv, CoopTypeOK, CoopCallsLost
  <2>4. ASSUME NEW k \in CoopCalls
        PROVE  CallCarries(k)'
    <3>1. CASE InFlight(k)
      BY <1>3, <2>1, <3>1 DEF CoopCallsLost, CallCarries
    <3>2. CASE ~InFlight(k)
      BY <1>3, <3>2 DEF CoopCallsLost, CallCarries, CoopInv
    <3>3. QED
      BY <3>1, <3>2
  <2>5. SuspensionKept /\ RegistrationsKept
    BY <1>3, SameCooperatives
  <2>6. QED
    BY <2>3, <2>4, <2>5 DEF CoopInv
<1>4. QED
  BY <1>1, <1>2, <1>3, StepsOfCooperatives

LEMMA CoopHolds == Spec => [](CoopInv /\ ListenersInv)
<1>1. Init => CoopInv
  <2> SUFFICES ASSUME Init PROVE CoopInv
    OBVIOUS
  <2>1. /\ coop \in [Coops -> {NoImage, [status |-> "pending", verifiedBy |-> Nobody],
                             [status |-> "active", verifiedBy |-> "earlier"]}]
        /\ member = [m \in Members |-> Nobody] /\ farms = {}
        /\ coopCall = [k \in CoopCalls |-> NewCoopCall] /\ overlap = [c \in Coops |-> {}]
    BY DEF Init, CoopInit
  <2>2. {NoImage, [status |-> "pending", verifiedBy |-> Nobody],
         [status |-> "active", verifiedBy |-> "earlier"]} \subseteq Image
    BY DEF NoImage, Image, CoopStatuses
  <2>3. NewCoopCall \in CoopCall /\ NewCoopCall.at = "new"
    BY DEF NewCoopCall, CoopCall, NoImage, Image, CoopStatuses
  <2>4. CoopTypeOK
    BY <2>1, <2>2, <2>3 DEF CoopTypeOK
  <2>5. QED
    BY <2>1, <2>3, <2>4 DEF CoopInv, CallCarries
<1>2. CoopInv /\ ListenersInv /\ [Next]_vars => CoopInv'
  BY CoopStays
<1>3. QED
  BY <1>1, <1>2, ListenersHold, PTL DEF Spec

\* Only a verification, or a call under way when the row became suspended, makes
\* a suspended cooperative active; no message does, for CooperativeListener never
\* has a topic (CooperativeService.update and deactivate).
THEOREM SuspensionsHold == Spec => SuspensionHolds
<1>1. CoopInv /\ ListenersInv /\ [Next]_vars => [SuspensionKept]_coopVars
  BY CoopStays
<1>2. Spec => [][SuspensionKept]_coopVars
  BY <1>1, CoopHolds, PTL DEF Spec
<1>3. QED
  BY <1>2 DEF SuspensionHolds, SuspensionKept

\* Rows are not registered anew, members do not move, a status goes back to
\* pending only by an update that found it so (register, addMember, update).
THEOREM RegistrationsHold == Spec => RegistrationsStand
<1>1. CoopInv /\ ListenersInv /\ [Next]_vars => [RegistrationsKept]_coopVars
  BY CoopStays
<1>2. Spec => [][RegistrationsKept]_coopVars
  BY <1>1, CoopHolds, PTL DEF Spec
<1>3. QED
  BY <1>2 DEF RegistrationsStand, RegistrationsKept
=============================================================================
