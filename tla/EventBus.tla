------------------------------- MODULE EventBus -------------------------------
(***************************************************************************)
(* The way of an event through Kafka, as the API process takes part in it: *)
(* KafkaProducerService.send, SchemaRegistryService.registerAll, the Map   *)
(* of handlers of KafkaConsumerService, and its one consumer in the group  *)
(* "notification-group".                                                   *)
(*                                                                         *)
(* The process boots (module hooks, schemas, consumer, then HTTP), may end *)
(* at any time and boots again; the broker and its offsets outlive it.     *)
(* What a handler does is left to the modules that extend this one: here   *)
(* a message is fetched, its handler goes from "handling" to "done", and   *)
(* the offset behind it is resolved and, some time later, committed.       *)
(***************************************************************************)
EXTENDS Naturals, Sequences, FiniteSets

CONSTANTS
    MaxInterruptions,  \* bound: ends of the process and rebalances
    MaxMessages        \* bound: messages of one topic

ASSUME BusAssumption == MaxInterruptions \in Nat /\ MaxMessages \in Nat

\* The topics some module of the process subscribes to.
Topics == {"cooperative.registration.verified", "lab.test.completed",
           "cooperative.cooperative.deactivated",
           "certification.review.final-started", "certification.renewed",
           "certification.decision.granted", "certification.inspection.scheduled",
           "certification.inspection.inspector-assigned"}

\* The listeners in the order in which Nest runs their onModuleInit: that of
\* the imports of AppModule, all of which have the same distance from it.
Listeners == <<"cooperative", "product", "certification", "notification">>

Subscriptions(listener) ==
    CASE listener = "cooperative" -> {"cooperative.registration.verified"}
      [] listener = "product" -> {"lab.test.completed"}
      [] listener = "certification" ->
             {"lab.test.completed", "cooperative.registration.verified",
              "certification.review.final-started", "certification.renewed"}
      [] listener = "notification" ->
             {"certification.decision.granted", "lab.test.completed",
              "cooperative.cooperative.deactivated",
              "certification.inspection.inspector-assigned",
              "certification.inspection.scheduled"}

VARIABLES
    phase,          \* what the process has come to
    handlers,       \* the Map: the listener whose handler a topic has
    log,            \* the messages of each topic, at offsets 1, 2, ...
    committed,      \* the group's committed offset (the next one to read), 0 if none
    start,          \* the offset the group last began at for want of a commit
    position,       \* the offset the consumer reads next
    handled,        \* the offsets whose eachMessage has come to its end
    job,            \* the message eachMessage has in hand
    interruptions   \* ends of the process and rebalances so far

busVars == <<phase, handlers, log, committed, start, position, handled,
             job, interruptions>>

Phases == {"booting", "listening", "consuming"}

NoTopic == "none"
NoJob == [at |-> "idle", topic |-> NoTopic]

BusInit ==
    /\ phase = "booting"
    /\ handlers = [t \in Topics |-> "none"]
    /\ log = [t \in Topics |-> <<>>]
    /\ committed = [t \in Topics |-> 0]
    /\ start = [t \in Topics |-> 0]
    /\ position = [t \in Topics |-> 0]
    /\ handled = [t \in Topics |-> {}]
    /\ job = NoJob
    /\ interruptions = 0

-----------------------------------------------------------------------------
(* Start of the process *)

\* The hooks, of the first n, that subscribe to a topic.
Subscribed(t, n) == {i \in 1..n : t \in Subscriptions(Listeners[i])}

\* Mutant: the first handler of a topic stays.
HandlersAfter_KeepsFirst(n) ==
    [t \in Topics |->
        IF Subscribed(t, n) = {} THEN "none"
        ELSE Listeners[CHOOSE i \in Subscribed(t, n) : \A j \in Subscribed(t, n) : i <= j]]

\* The Map after n hooks: handlers.set leaves the last of several handlers.
HandlersAfter(n) ==
    [t \in Topics |->
        IF Subscribed(t, n) = {} THEN "none"
        ELSE Listeners[CHOOSE i \in Subscribed(t, n) : \A j \in Subscribed(t, n) : j <= i]]

\* The hooks run, registerAll caches the ids of all schemas (if one is refused
\* it throws, and the process ends: Crash), startConsuming subscribes to every
\* topic of the Map and runs; then main.ts listens.  No request or message can
\* come in between.
Boot ==
    /\ phase = "booting"
    /\ phase' = "listening"
    /\ handlers' = HandlersAfter(Len(Listeners))
    /\ UNCHANGED <<log, committed, start, position, handled, job, interruptions>>

\* Mutant: the consumer reads on where the group once began, not where it is.
Join_FromStart ==
    /\ phase = "listening"
    /\ phase' = "consuming"
    /\ start' = [t \in Topics |-> IF committed[t] = 0 THEN Len(log[t]) + 1 ELSE start[t]]
    /\ position' = start'
    /\ UNCHANGED <<handlers, log, committed, handled, job, interruptions>>

\* The group assigns the partitions: the consumer reads on at the committed
\* offset, and (fromBeginning: false) at the end where there is none.
Join ==
    /\ phase = "listening"
    /\ phase' = "consuming"
    /\ start' = [t \in Topics |-> IF committed[t] = 0 THEN Len(log[t]) + 1 ELSE start[t]]
    /\ position' = [t \in Topics |-> IF committed[t] = 0 THEN Len(log[t]) + 1
                                     ELSE committed[t]]
    /\ UNCHANGED <<handlers, log, committed, handled, job, interruptions>>

\* HTTP requests are served from here on.
Serving == phase \in {"listening", "consuming"}

-----------------------------------------------------------------------------
(* Publishing and consuming *)

\* KafkaProducerService.send: the producers log an error and go on, so a message
\* may be missing; a retry after a lost acknowledgement writes it twice.
Send(t, m) ==
    \E copies \in {<<>>, <<m>>, <<m, m>>} :
       /\ copies # <<>> => Len(log[t]) + Len(copies) <= MaxMessages
       /\ log' = [log EXCEPT ![t] = @ \o copies]

Fetch(t) ==
    /\ phase = "consuming"
    /\ job.at = "idle"
    /\ position[t] <= Len(log[t])
    /\ handlers[t] # "none"
    /\ job' = [at |-> "handling", topic |-> t]
    /\ UNCHANGED <<phase, handlers, log, committed, start, position, handled,
                   interruptions>>

\* The message in hand.
Current == log[job.topic][position[job.topic]]

\* Mutant: the message is not resolved and read again.
Resolve_NotResolved ==
    /\ phase = "consuming"
    /\ job.at = "done"
    /\ handled' = [handled EXCEPT ![job.topic] = @ \cup {position[job.topic]}]
    /\ job' = NoJob
    /\ UNCHANGED <<phase, handlers, log, committed, start, position, interruptions>>

\* eachMessage returns, whatever became of its handler: errors are logged.
Resolve ==
    /\ phase = "consuming"
    /\ job.at = "done"
    /\ position' = [position EXCEPT ![job.topic] = @ + 1]
    /\ handled' = [handled EXCEPT ![job.topic] = @ \cup {position[job.topic]}]
    /\ job' = NoJob
    /\ UNCHANGED <<phase, handlers, log, committed, start, interruptions>>

\* Mutant: the offset is committed while its message is in hand.
Commit_InHand(t) ==
    /\ phase = "consuming"
    /\ job.at = "handling"
    /\ job.topic = t
    /\ committed' = [committed EXCEPT ![t] = position[t] + 1]
    /\ UNCHANGED <<phase, handlers, log, start, position, handled, job,
                   interruptions>>

\* kafkajs commits after a batch of messages, not with each of them.
Commit(t) ==
    /\ phase = "consuming"
    /\ job.at = "idle"
    /\ position[t] > committed[t]
    /\ position[t] > start[t]
    /\ committed' = [committed EXCEPT ![t] = position[t]]
    /\ UNCHANGED <<phase, handlers, log, start, position, handled, job,
                   interruptions>>

-----------------------------------------------------------------------------
(* Interruptions *)

\* The process ends, with all it has in memory, and begins again.
Crash ==
    /\ interruptions < MaxInterruptions
    /\ interruptions' = interruptions + 1
    /\ phase' = "booting"
    /\ handlers' = [t \in Topics |-> "none"]
    /\ position' = [t \in Topics |-> 0]
    /\ job' = NoJob
    /\ UNCHANGED <<log, committed, start, handled>>

\* The group is rebalanced: the consumer joins again, from the committed offsets.
Rebalance ==
    /\ phase = "consuming"
    /\ job.at = "idle"
    /\ interruptions < MaxInterruptions
    /\ interruptions' = interruptions + 1
    /\ phase' = "listening"
    /\ position' = [t \in Topics |-> 0]
    /\ UNCHANGED <<handlers, log, committed, start, handled, job>>

BusNext ==
    \/ Boot \/ Join \/ Resolve \/ Rebalance
    \/ \E t \in Topics : Fetch(t) \/ Commit(t)

-----------------------------------------------------------------------------
(* Properties *)

\* Type invariant of the bus; what a message is, the extending modules say.
BusTypeOK ==
    /\ phase \in Phases
    /\ handlers \in [Topics -> {"none", "cooperative", "product", "certification",
                                "notification"}]
    /\ DOMAIN log = Topics
    /\ committed \in [Topics -> Nat]
    /\ start \in [Topics -> Nat]
    /\ position \in [Topics -> Nat]
    /\ handled \in [Topics -> SUBSET Nat]
    /\ job.at \in {"idle", "handling", "inserting", "delivering", "done"}
    /\ job.topic \in Topics \cup {NoTopic}
    /\ interruptions \in 0..MaxInterruptions

\* At least once: the group never commits past a message it had to handle,
\* that is one from the offset it last began at.  The messages before that
\* offset were published before the group had committed anything.
\* (KafkaConsumerService.startConsuming, fromBeginning: false)
CommittedMeansHandled ==
    \A t \in Topics : start[t]..(committed[t] - 1) \subseteq handled[t]
=============================================================================
