----------------------------- MODULE Cooperatives -----------------------------
(***************************************************************************)
(* CooperativeService: the rows of cooperative.cooperative and             *)
(* cooperative.member, and the calls that write them.                      *)
(*                                                                         *)
(* Every call looks at a row first and writes later.  What the look found  *)
(* may be stale when the write comes: verify and deactivate write whatever *)
(* the status is by then, and update saves the entity it found, with the   *)
(* columns TypeORM sees differ from the row (it reads the row once more).  *)
(*                                                                         *)
(* A cooperative is named by its ICE and a member by the CIN, both UNIQUE; *)
(* that the DTO of update allows another ICE is left out: here a row keeps *)
(* the one it was registered with.                                         *)
(* Of the row the columns that more than one call writes are kept.         *)
(* updateMember, which writes a member's phone and e-mail and nothing      *)
(* else, is left out.                                                      *)
(***************************************************************************)
EXTENDS EventBus

CONSTANTS
    Coops,      \* ICE numbers
    Members,    \* CIN numbers
    CoopCalls,  \* calls on the cooperative endpoints, each made at most once
    Nobody      \* no cooperative, no verifier

ASSUME CoopAssumption ==
    Nobody \notin Coops \cup CoopCalls \cup {"earlier"} \cup (Coops \X CoopCalls)

VARIABLES
    coop,      \* the cooperative rows
    member,    \* the member rows: the cooperative, and the call that added them
    farms,     \* the farm rows: the cooperative, and the call that mapped it
    coopCall,  \* what each call is doing
    overlap    \* history: the calls in flight when a row was last written as suspended

coopVars == <<coop, member, farms, coopCall, overlap>>

CoopStatuses == {"absent", "pending", "active", "suspended"}

\* The columns an entity and its row can differ in.
Image == [status : CoopStatuses, verifiedBy : CoopCalls \cup {Nobody, "earlier"}]

NoImage == [status |-> "absent", verifiedBy |-> Nobody]

CoopOps == {"register", "verify", "deactivate", "update", "addMember", "mapFarm"}

CoopCall == [at : {"new", "found", "diffed", "publishing", "over"},
             op : CoopOps \cup {Nobody}, coop : Coops \cup {Nobody},
             cin : Members \cup {Nobody}, seen : Image,
             dirty : SUBSET {"status", "verifiedBy"}]

NewCoopCall == [at |-> "new", op |-> Nobody, coop |-> Nobody, cin |-> Nobody,
                seen |-> NoImage, dirty |-> {}]

\* Some cooperatives wait for their verification, some have been verified earlier.
CoopInit ==
    /\ coop \in [Coops -> {NoImage, [status |-> "pending", verifiedBy |-> Nobody],
                           [status |-> "active", verifiedBy |-> "earlier"]}]
    /\ member = [m \in Members |-> Nobody]
    /\ farms = {}
    /\ coopCall = [k \in CoopCalls |-> NewCoopCall]
    /\ overlap = [c \in Coops |-> {}]

InFlight(k) == coopCall[k].at \notin {"new", "over"}

-----------------------------------------------------------------------------
(* The lookup each call begins with *)

\* What a call asks of the row it finds.
Admits(op, row) ==
    CASE op = "register" -> row.status = "absent"
      [] op = "verify" -> row.status \notin {"absent", "active"}
      [] op = "deactivate" -> row.status \notin {"absent", "suspended"}
      [] OTHER -> row.status # "absent"

FindCooperative(k, op, c) ==
    /\ Serving
    /\ coopCall[k].at = "new"
    /\ op \in CoopOps \ {"addMember"}
    /\ Admits(op, coop[c])
    /\ coopCall' = [coopCall EXCEPT ![k] = [at |-> "found", op |-> op, coop |-> c,
                                            cin |-> Nobody, seen |-> coop[c], dirty |-> {}]]
    /\ UNCHANGED <<busVars, coop, member, farms, overlap>>

\* addMember: the cooperative exists, the CIN does not; the status is not asked.
FindMember(k, c, m) ==
    /\ Serving
    /\ coopCall[k].at = "new"
    /\ coop[c].status # "absent"
    /\ member[m] = Nobody
    /\ coopCall' = [coopCall EXCEPT ![k] = [at |-> "found", op |-> "addMember", coop |-> c,
                                            cin |-> m, seen |-> coop[c], dirty |-> {}]]
    /\ UNCHANGED <<busVars, coop, member, farms, overlap>>

-----------------------------------------------------------------------------
(* The writes *)

Doing(k, op) == coopCall[k].at = "found" /\ coopCall[k].op = op

Goes(k, stage) == coopCall' = [coopCall EXCEPT ![k].at = stage]

Ended == [NewCoopCall EXCEPT !.at = "over"]

Ends(k) == coopCall' = [coopCall EXCEPT ![k] = Ended]

\* Two registrations of one ICE may both have found none: the index refuses one.
InsertCooperative(k) ==
    /\ Doing(k, "register")
    /\ coop[coopCall[k].coop].status = "absent"
    /\ coop' = [coop EXCEPT ![coopCall[k].coop] =
                  [status |-> "pending", verifiedBy |-> Nobody]]
    /\ Goes(k, "publishing")
    /\ UNCHANGED <<busVars, member, farms, overlap>>

\* Mutant: the row is saved over one that came in between.
InsertMember_NoUnique(k) ==
    /\ Doing(k, "addMember")
    /\ member' = [member EXCEPT ![coopCall[k].cin] = <<coopCall[k].coop, k>>]
    /\ Ends(k)
    /\ UNCHANGED <<busVars, coop, farms, overlap>>

InsertMember(k) ==
    /\ Doing(k, "addMember")
    /\ member[coopCall[k].cin] = Nobody
    /\ member' = [member EXCEPT ![coopCall[k].cin] = <<coopCall[k].coop, k>>]
    /\ Ends(k)
    /\ UNCHANGED <<busVars, coop, farms, overlap>>

\* mapFarm asks nothing of the status either.
InsertFarm(k) ==
    /\ Doing(k, "mapFarm")
    /\ farms' = farms \cup {<<coopCall[k].coop, k>>}
    /\ Goes(k, "publishing")
    /\ UNCHANGED <<busVars, coop, member, overlap>>

\* UPDATE ... SET status = 'active', verified_by = ..., whatever the status is.
VerifyCooperative(k) ==
    /\ Doing(k, "verify")
    /\ coop' = [coop EXCEPT ![coopCall[k].coop] = [status |-> "active", verifiedBy |-> k]]
    /\ Goes(k, "publishing")
    /\ UNCHANGED <<busVars, member, farms, overlap>>

\* UPDATE ... SET status = 'suspended', whatever the status is.
DeactivateCooperative(k) ==
    LET c == coopCall[k].coop
    IN /\ Doing(k, "deactivate")
       /\ coop' = [coop EXCEPT ![c].status = "suspended"]
       /\ overlap' = [overlap EXCEPT ![c] = {j \in CoopCalls : InFlight(j)}]
       /\ Goes(k, "publishing")
       /\ UNCHANGED <<busVars, member, farms>>

\* update, save's SELECT: the columns in which the row is not what was found.
DiffCooperative(k) ==
    /\ Doing(k, "update")
    /\ LET row == coop[coopCall[k].coop]
           seen == coopCall[k].seen
       IN coopCall' = [coopCall EXCEPT ![k].at = "diffed",
                         ![k].dirty = {f \in {"status", "verifiedBy"} : row[f] # seen[f]}]
    /\ UNCHANGED <<busVars, coop, member, farms, overlap>>

\* update, save's UPDATE: those columns get what was found.
SaveCooperative(k) ==
    LET call == coopCall[k]
        found == coop[call.coop]
        row == [status |-> IF "status" \in call.dirty THEN call.seen.status
                           ELSE found.status,
                verifiedBy |-> IF "verifiedBy" \in call.dirty THEN call.seen.verifiedBy
                               ELSE found.verifiedBy]
    IN /\ call.at = "diffed"
       /\ coop' = [coop EXCEPT ![call.coop] = row]
       /\ overlap' = IF row.status = "suspended"
                     THEN [overlap EXCEPT ![call.coop] = {j \in CoopCalls : InFlight(j)}]
                     ELSE overlap
       /\ Ends(k)
       /\ UNCHANGED <<busVars, member, farms>>

\* The producer's methods; the events of register and mapFarm have no subscriber.
TopicOf(op) ==
    CASE op = "verify" -> "cooperative.registration.verified"
      [] op = "deactivate" -> "cooperative.cooperative.deactivated"

PublishCooperative(k) ==
    LET call == coopCall[k]
    IN /\ call.at = "publishing"
       /\ IF call.op \in {"register", "mapFarm"} THEN log' = log
          ELSE Send(TopicOf(call.op), [event |-> k, coop |-> call.coop])
       /\ Ends(k)
       /\ UNCHANGED <<phase, handlers, committed, start, position, handled, job,
                      interruptions, coop, member, farms, overlap>>

-----------------------------------------------------------------------------

\* The end of the process takes the calls in flight with it.
CoopCallsLost ==
    coopCall' = [k \in CoopCalls |-> IF InFlight(k) THEN Ended
                                     ELSE coopCall[k]]

\* A statement fails, a UNIQUE index among the reasons: the call ends where it is.
AbortCoopCall(k) ==
    /\ InFlight(k)
    /\ Ends(k)
    /\ UNCHANGED <<busVars, coop, member, farms, overlap>>

CoopNext ==
    \E k \in CoopCalls :
        \/ \E op \in CoopOps, c \in Coops : FindCooperative(k, op, c)
        \/ \E c \in Coops, m \in Members : FindMember(k, c, m)
        \/ InsertCooperative(k) \/ InsertMember(k) \/ InsertFarm(k) \/ VerifyCooperative(k)
        \/ DeactivateCooperative(k) \/ DiffCooperative(k) \/ SaveCooperative(k)
        \/ PublishCooperative(k) \/ AbortCoopCall(k)

-----------------------------------------------------------------------------
(* Properties *)

\* Type invariant: rows and calls have the shape of their entities.
CoopTypeOK ==
    /\ coop \in [Coops -> Image]
    /\ member \in [Members -> (Coops \X CoopCalls) \cup {Nobody}]
    /\ farms \subseteq Coops \X CoopCalls
    /\ coopCall \in [CoopCalls -> CoopCall]
    /\ overlap \in [Coops -> SUBSET CoopCalls]

\* Nothing but a verification, or a call that was already under way when the
\* row last became suspended, makes a suspended cooperative active: an update
\* begun later does not, and no message does, redelivered or not.
\* (CooperativeService.update, deactivate; CooperativeListener)
SuspensionHolds ==
    [][\A c \in Coops :
          coop[c].status = "suspended" /\ coop'[c].status = "active" =>
             \E k \in CoopCalls :
                /\ coopCall'[k] # coopCall[k]
                /\ coopCall[k].coop = c
                /\ coopCall[k].op = "verify" \/ k \in overlap[c]]_coopVars

\* A row, once there, is never registered anew: no second registration of an ICE
\* takes a verification away, and no member moves to another cooperative.
\* A status goes back to pending only by an update that found it pending.
\* (register and addMember look before they insert)
RegistrationsStand ==
    [][/\ \A m \in Members : member[m] # Nobody => member'[m] = member[m]
       /\ \A c \in Coops :
             coop[c].status \in {"active", "suspended"} /\ coop'[c].status = "pending" =>
                \E k \in CoopCalls : /\ coopCall[k].at = "diffed"
                                     /\ coopCall[k].seen.status = "pending"
                                     /\ coopCall'[k].at = "over"]_coopVars
=============================================================================
