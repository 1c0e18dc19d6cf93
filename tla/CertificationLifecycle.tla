------------------------ MODULE CertificationLifecycle ------------------------
(***************************************************************************)
(* The certification as its users think of it: a state machine that takes  *)
(* one transition of the chain at a time, a number that a grant assigns    *)
(* and that then stays, and statuses (DENIED, REVOKED, RENEWED) that are   *)
(* never left.                                                             *)
(***************************************************************************)
EXTENDS CertificationStates

CONSTANTS Certs, Numbers, None

VARIABLES status, number

Init ==
    /\ status = [c \in Certs |-> "ABSENT"]
    /\ number = [c \in Certs |-> None]

Create(c) ==
    /\ status[c] = "ABSENT"
    /\ status' = [status EXCEPT ![c] = "DRAFT"]
    /\ UNCHANGED number

Move(c, op) ==
    /\ op # "grantCertification"
    /\ status[c] = From(op)
    /\ status' = [status EXCEPT ![c] = To(op)]
    /\ UNCHANGED number

Grant(c, n) ==
    /\ status[c] = From("grantCertification")
    /\ number[c] = None
    /\ \A d \in Certs : number[d] # n
    /\ status' = [status EXCEPT ![c] = "GRANTED"]
    /\ number' = [number EXCEPT ![c] = n]

Next ==
    \E c \in Certs :
        \/ Create(c)
        \/ \E op \in Ops : Move(c, op)
        \/ \E n \in Numbers : Grant(c, n)

Spec == Init /\ [][Next]_<<status, number>>
=============================================================================
