----------------------------- MODULE ConsumerGroup -----------------------------
(***************************************************************************)
(* What the consumer group promises of the messages of its topics, whoever *)
(* writes them and however often the process ends or is rebalanced: a      *)
(* topic only gains messages; one message is in hand at a time, one that   *)
(* is there, that the group has not committed past and before which        *)
(* nothing is left out; offsets are committed forwards only, and only past *)
(* what has been handled.                                                  *)
(*                                                                         *)
(* The promise is at least once: a message that is committed late may be   *)
(* in hand again.  What came before the offset a group without a commit    *)
(* begins at, it leaves out.                                               *)
(***************************************************************************)
EXTENDS Integers, Sequences

CONSTANT Topics

VARIABLES
    messages,   \* of each topic, at offsets 1, 2, ...
    committed,  \* the committed offset of each topic, 0 if none
    start,      \* the offset the group last began at for want of a commit
    handled,    \* the offsets whose handling has come to its end
    inHand      \* at most one pair of a topic and an offset

vars == <<messages, committed, start, handled, inHand>>

Init ==
    /\ messages = [t \in Topics |-> <<>>]
    /\ committed = [t \in Topics |-> 0]
    /\ start = [t \in Topics |-> 0]
    /\ handled = [t \in Topics |-> {}]
    /\ inHand = {}

Extends(new, old) ==
    /\ Len(old) <= Len(new)
    /\ \A i \in 1..Len(old) : new[i] = old[i]

Publish ==
    /\ \A t \in Topics : Extends(messages'[t], messages[t])
    /\ UNCHANGED <<committed, start, handled, inHand>>

\* Where nothing is committed, what is there already is left out.
Begin ==
    /\ inHand = {}
    /\ start' = [t \in Topics |->
                    IF committed[t] = 0 THEN Len(messages[t]) + 1 ELSE start[t]]
    /\ UNCHANGED <<messages, committed, handled, inHand>>

\* From the offset it began at up to i, the group has handled everything.
HandledUpTo(t, i) == start[t]..i \subseteq handled[t]

Take(t, i) ==
    /\ inHand = {}
    /\ i >= start[t] /\ i >= committed[t]
    /\ HandledUpTo(t, i - 1)
    /\ inHand' = {<<t, i>>}
    /\ UNCHANGED <<messages, committed, start, handled>>

Finish(t, i) ==
    /\ inHand = {<<t, i>>}
    /\ inHand' = {}
    /\ handled' = [handled EXCEPT ![t] = @ \cup {i}]
    /\ UNCHANGED <<messages, committed, start>>

\* The process ends over it.
Drop ==
    /\ inHand' = {}
    /\ UNCHANGED <<messages, committed, start, handled>>

CommitUpTo(t, i) ==
    /\ inHand = {}
    /\ i >= start[t] /\ i >= committed[t]
    /\ HandledUpTo(t, i)
    /\ committed' = [committed EXCEPT ![t] = i + 1]
    /\ UNCHANGED <<messages, start, handled, inHand>>

Next ==
    \/ Publish \/ Begin \/ Drop
    \/ \E t \in Topics : \E i \in 1..Len(messages[t]) :
           Take(t, i) \/ Finish(t, i) \/ CommitUpTo(t, i)

Spec == Init /\ [][Next]_vars
=============================================================================
