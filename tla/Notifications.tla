----------------------------- MODULE Notifications -----------------------------
(***************************************************************************)
(* NotificationService.send as the listeners call it: the rows of          *)
(* notification.notification a message leads to.                           *)
(*                                                                         *)
(* Nothing asks whether an event has been notified already.  The listeners *)
(* give no e-mail address, so nothing is sent between the row's two        *)
(* updates.  Preferences and templates are read (Preferences and           *)
(* NotificationTemplates say how fresh); their word is any choice here.    *)
(***************************************************************************)
EXTENDS EventBus

CONSTANTS Events  \* what the eventId of a message can be

VARIABLES
    notification,  \* the statuses of the rows an event has led to, in their order
    trials         \* history: how often the message of an event was fetched

notificationVars == <<notification, trials>>

NotificationInit ==
    /\ notification = [e \in Events |-> <<>>]
    /\ trials = [e \in Events |-> 0]

Stage(stage) == job' = [job EXCEPT !.at = stage]

NotificationUnchangedBus ==
    UNCHANGED <<phase, handlers, log, committed, start, position, handled,
                interruptions>>

\* INSERT with status 'pending'.
InsertNotification ==
    /\ job.at = "inserting"
    /\ notification' = [notification EXCEPT ![Current.event] = Append(@, "pending")]
    /\ Stage("delivering")
    /\ NotificationUnchangedBus
    /\ UNCHANGED trials

\* UPDATE to 'sent'.  'failed' is for an e-mail that cannot be sent: none is.
MarkNotification ==
    /\ job.at = "delivering"
    /\ notification' = [notification EXCEPT ![Current.event] =
                          [@ EXCEPT ![Len(@)] = "sent"]]
    /\ Stage("done")
    /\ NotificationUnchangedBus
    /\ UNCHANGED trials

\* A statement fails: send throws, the listener logs it and returns.
AbortNotification ==
    /\ job.at \in {"inserting", "delivering"}
    /\ Stage("done")
    /\ NotificationUnchangedBus
    /\ UNCHANGED notificationVars

-----------------------------------------------------------------------------
(* Properties *)

\* Type invariant: the rows of an event, and how often it was fetched.
NotificationTypeOK ==
    /\ notification \in [Events -> Seq({"pending", "sent"})]
    /\ trials \in [Events -> Nat]
=============================================================================
