---------------------------- MODULE DecisionLedger ----------------------------
(***************************************************************************)
(* What certification_events promises, whoever appends to it and in        *)
(* whatever order: per certification an append-only sequence in which      *)
(* every entry is one of the transitions of the chain, taken from a status *)
(* the ledger already accounts for; a certification number is given out by *)
(* one grant only, and a laboratory message is accounted for at most once. *)
(*                                                                         *)
(* The promise is weaker than a state machine: two entries may leave the   *)
(* same status (a grant and a denial, say).                                *)
(***************************************************************************)
EXTENDS Naturals, Sequences, CertificationStates

CONSTANTS Certs, Numbers, Causes, None

VARIABLE ledger

Entries(c) == {ledger[c][i] : i \in 1..Len(ledger[c])}

ReachedBy(c) == {"DRAFT"} \cup {e.to : e \in Entries(c)}

NumbersUsed(c) == {e.number : e \in Entries(c)}
CausesUsed(c)  == {e.cause : e \in Entries(c)}

Init == ledger = [c \in Certs |-> <<>>]

\* Append to the ledger of c the entry of operation op.
AppendEntry(c, op, number, cause) ==
    ledger' = [ledger EXCEPT ![c] =
                 Append(@, [from |-> From(op), to |-> To(op),
                            number |-> number, cause |-> cause])]

Record(c, op, number, cause) ==
    /\ From(op) \in ReachedBy(c)
    /\ AppendEntry(c, op, number, cause)

RecordStep(c, op) == Record(c, op, None, None)

NumberUnused(n) == \A d \in Certs : n \notin NumbersUsed(d)
CauseUnused(e)  == \A d \in Certs : e \notin CausesUsed(d)

RecordGrant(c, n) ==
    /\ NumberUnused(n)
    /\ Record(c, "grantCertification", n, None)

RecordLabResults(c, e) ==
    /\ CauseUnused(e)
    /\ Record(c, "receiveLabResults", None, e)

Next ==
    \E c \in Certs :
        \/ \E op \in Ops \ {"grantCertification", "receiveLabResults"} :
               RecordStep(c, op)
        \/ \E n \in Numbers : RecordGrant(c, n)
        \/ \E e \in Causes : RecordLabResults(c, e)

Spec == Init /\ [][Next]_ledger

-----------------------------------------------------------------------------
(* What is left of the promise when rows also move without an entry: still *)
(* append-only, still transitions of the chain, numbers and messages once. *)

BypassedNext ==
    \E c \in Certs :
        \/ \E op \in Ops \ {"grantCertification", "receiveLabResults"} :
               AppendEntry(c, op, None, None)
        \/ \E n \in Numbers :
               NumberUnused(n) /\ AppendEntry(c, "grantCertification", n, None)
        \/ \E e \in Causes :
               CauseUnused(e) /\ AppendEntry(c, "receiveLabResults", None, e)

BypassedSpec == Init /\ [][BypassedNext]_ledger
=============================================================================
