---------------------------- MODULE PlatformEvents ----------------------------
(***************************************************************************)
(* The modules of the monolith that meet on Kafka: cooperatives and        *)
(* laboratory tests publish; the handlers of four listeners would hear     *)
(* them, but the consumer has one handler per topic, and the last module   *)
(* to subscribe has it.                                                    *)
(*                                                                         *)
(* Handle says what each listener would do with a message.  With the       *)
(* subscriptions as they are, the notification listener has                *)
(* lab.test.completed and the certification listener, which only logs,     *)
(* has cooperative.registration.verified.                                  *)
(***************************************************************************)
EXTENDS LabTests, Cooperatives, Notifications

ASSUME EventsAssumption == LabCalls \cup CoopCalls \subseteq Events

VARIABLES certification  \* the status of each batch's certification, near the laboratory

vars == <<busVars, labVars, coopVars, notificationVars, certification>>

Init ==
    /\ BusInit /\ LabInit /\ CoopInit /\ NotificationInit
    /\ certification = [b \in Batches |-> "INSPECTION_COMPLETE"]

\* requestLab; module CertificationChain has all of its steps.
RequestLab(b) ==
    /\ Serving
    /\ certification[b] = "INSPECTION_COMPLETE"
    /\ certification' = [certification EXCEPT ![b] = "LAB_TESTING"]
    /\ UNCHANGED <<busVars, labVars, coopVars, notificationVars>>

-----------------------------------------------------------------------------
(* The listeners *)

HandledBy(listener) == handlers[job.topic] = listener

\* CooperativeListener: the cooperative of the message is made active.
CooperativeListener ==
    coop' = IF HandledBy("cooperative")
            THEN [coop EXCEPT ![Current.coop] =
                    [status |-> "active", verifiedBy |-> Current.event]]
            ELSE coop

\* ProductListener: the test is completed, a result inserted, the batch judged.
ProductListener ==
    IF HandledBy("product")
    THEN /\ test' = [test EXCEPT ![Current.test].status = "completed"]
         /\ results' = results \cup {[test |-> Current.test, batch |-> Current.batch,
                                      passed |-> Current.passed, by |-> "listener"]}
         /\ batchStatus' = [batchStatus EXCEPT ![Current.batch] = Verdict(Current.passed)]
    ELSE UNCHANGED <<test, results, batchStatus>>

\* CertificationListener: receiveLabResults; its other handlers only log.
CertificationListener ==
    certification' =
        IF /\ HandledBy("certification")
           /\ job.topic = "lab.test.completed"
           /\ certification[Current.batch] = "LAB_TESTING"
        THEN [certification EXCEPT ![Current.batch] = "LAB_RESULTS_RECEIVED"]
        ELSE certification

\* NotificationListener: send, unless preferences or templates say no.
NotificationListener ==
    \E stage \in IF HandledBy("notification") THEN {"inserting", "done"} ELSE {"done"} :
       Stage(stage)

\* The handler of the topic is called.  Those that never have a topic of this
\* model are run in one step.
Handle ==
    /\ job.at = "handling"
    /\ CooperativeListener /\ ProductListener /\ CertificationListener
    /\ NotificationListener
    /\ trials' = [trials EXCEPT ![Current.event] = @ + 1]
    /\ UNCHANGED <<phase, handlers, log, committed, start, position, handled,
                   interruptions, reports, labCall, member, farms, coopCall, overlap,
                   notification>>

\* The end of the process: its calls are lost, its rows and messages are not.
EndOfProcess ==
    /\ Crash
    /\ LabCallsLost /\ CoopCallsLost
    /\ UNCHANGED <<batchStatus, test, results, reports, coop, member, farms, overlap,
                   notificationVars, certification>>

-----------------------------------------------------------------------------

\* Steps of the process that are not requests.
Consumer ==
    \/ /\ BusNext
       /\ UNCHANGED <<labVars, coopVars, notificationVars, certification>>
    \/ Handle
    \/ /\ InsertNotification \/ MarkNotification \/ AbortNotification
       /\ UNCHANGED <<labVars, coopVars, certification>>
    \/ EndOfProcess

LabStep ==
    \/ LabNext /\ UNCHANGED <<coopVars, notificationVars, certification>>
    \/ \E b \in Batches : RequestLab(b)

CoopStep == CoopNext /\ UNCHANGED <<labVars, notificationVars, certification>>

Next == Consumer \/ LabStep \/ CoopStep

Spec == Init /\ [][Next]_vars

Others == <<labVars, coopVars, notificationVars, certification>>

\* The event loop runs what is ready and kafkajs polls and commits; that the
\* process ends, is rebalanced, or gets a request, is nobody's duty.
Fairness ==
    /\ WF_vars((Boot \/ Join) /\ UNCHANGED Others)
    /\ \A t \in Topics : WF_vars(Fetch(t) /\ UNCHANGED Others)
    /\ WF_vars(Handle)
    /\ WF_vars((InsertNotification \/ MarkNotification)
                  /\ UNCHANGED <<labVars, coopVars, certification>>)
    /\ WF_vars(Resolve /\ UNCHANGED Others)

FairSpec == Spec /\ Fairness

-----------------------------------------------------------------------------
(* Properties *)

\* Type invariant: that of every module.
TypeOK ==
    /\ BusTypeOK /\ LabTypeOK /\ CoopTypeOK /\ NotificationTypeOK
    /\ certification \in
          [Batches -> {"INSPECTION_COMPLETE", "LAB_TESTING", "LAB_RESULTS_RECEIVED"}]

Copies(e) ==
    Cardinality({p \in Topics \X (1..MaxMessages) :
                    p[2] <= Len(log[p[1]]) /\ log[p[1]][p[2]].event = e})

\* An event is notified again only for a reason: at most once for every copy of
\* its message, and once more for every end of the process or rebalance; a row that
\* stays 'pending' is the one being delivered, or of a handler that was cut short.
\* (NotificationService.send does not look for the eventId)
RepeatsExplained ==
    \A e \in Events :
        /\ Len(notification[e]) <= trials[e]
        /\ trials[e] <= Copies(e) * (1 + interruptions)

\* The message eachMessage has in hand, as its topic and its offset.
InHand == IF job.at = "idle" THEN {} ELSE {<<job.topic, position[job.topic]>>}

\* Through crashes, rebalances and late commits the consumer keeps what
\* ConsumerGroup promises: one message at a time, none left out, none before what
\* is committed, commits forwards and only past what was handled.
\* (KafkaConsumerService.startConsuming)
Group == INSTANCE ConsumerGroup
           WITH messages <- log, inHand <- InHand

GroupSpec == Group!Spec

Offset(t, i) == i \in DOMAIN log[t]

\* A message at an offset the group has to handle is handled in the end, however
\* often the process ends: it does so only so often.  (KafkaConsumerService;
\* the offsets before the group's first commit may be skipped)
MessagesGetHandled ==
    \A t \in {"cooperative.registration.verified", "lab.test.completed",
              "cooperative.cooperative.deactivated"} :
       \A i \in 1..MaxMessages :
          (committed[t] > 0 /\ i >= committed[t] /\ Offset(t, i)) ~> i \in handled[t]

\* What the listener's comment says of lab.test.completed: while the process goes
\* on, a certification in LAB_TESTING whose batch has a message that is yet to be
\* read advances to LAB_RESULTS_RECEIVED. (CertificationListener)
LabResultsAdvanceCertification ==
    \A b \in Batches :
       /\ certification[b] = "LAB_TESTING"
       /\ \E i \in DOMAIN log["lab.test.completed"] :
             /\ phase = "consuming"
             /\ i > position["lab.test.completed"]
             /\ log["lab.test.completed"][i].batch = b
       ~> certification[b] = "LAB_RESULTS_RECEIVED"
=============================================================================
