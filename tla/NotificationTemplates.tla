------------------------- MODULE NotificationTemplates -------------------------
(***************************************************************************)
(* NotificationTemplateService and the template part of                    *)
(* NotificationService.send: the rows of notification_template, the copies *)
(* in Redis (600 s, one per code, channel and language; one code stands    *)
(* for the three), and the .hbs files that are seeded and fallen back on.  *)
(*                                                                         *)
(* No row is unique in its code (007 dropped the constraint).  An update   *)
(* hands save the row it has read, with its DTO over it; save reads the    *)
(* row once more, updates the columns that differ, and the copy that is    *)
(* evicted is the one of the code the update had in hand.  Two overlapping *)
(* updates so make a row with columns of both.                             *)
(***************************************************************************)
EXTENDS FiniteSets

CONSTANTS
    TemplateIds,    \* the ids rows can get
    Codes,          \* code, channel and language
    Files,          \* the codes with a file in assets/templates
    TemplateCalls,  \* the calls in flight at one time
    TemplateWrites, \* those that update or deactivate, once; the others seed,
                    \* create and send, over and over
    NoTemplate      \* no row, no copy, nothing read

VARIABLES
    template,       \* the rows: code, body (who wrote it), active
    templateEntry,  \* per code the copy, NoTemplate if there is none
    templateCall    \* per call: op, step, its code, its row, what it has read

templateVars == <<template, templateEntry, templateCall>>

\* A body is the update that wrote it, or the one the row was made with.
Bodies == TemplateWrites \cup {"first"}
TemplateRow == [code : Codes, body : Bodies, active : BOOLEAN]

ASSUME TemplateAssumption ==
    /\ Files \subseteq Codes /\ TemplateWrites \subseteq TemplateCalls
    /\ NoTemplate \notin TemplateRow /\ NoTemplate \notin Codes

\* raced is history: the row was no longer so the moment it was stored.
TemplateEntry ==
    [id : TemplateIds, row : TemplateRow, expires : BOOLEAN, raced : BOOLEAN]

TemplateOps == {"seed", "create", "update", "deactivate", "send"}
TemplateSteps ==
    {"idle", "find", "diff", "insert", "save", "evict", "lookup", "select", "store",
     "done", "failed"}
TemplateColumns == {"code", "body", "active"}

\* seen: the row as it was found, or as save is to make it; dirty: the columns
\* save will write.  owes is history: the code the row had after that UPDATE,
\* until the call evicts the copy of it.
TemplateCall ==
    [op : TemplateOps, step : TemplateSteps, code : Codes,
     id : TemplateIds \cup {NoTemplate}, seen : TemplateRow \cup {NoTemplate},
     dirty : SUBSET TemplateColumns, owes : Codes \cup {NoTemplate}]

IdleTemplate ==
    [op |-> "send", step |-> "idle", code |-> CHOOSE k \in Codes : TRUE, id |-> NoTemplate,
     seen |-> NoTemplate, dirty |-> {}, owes |-> NoTemplate]

TemplateInit ==
    /\ template = [i \in TemplateIds |-> NoTemplate]
    /\ templateEntry = [k \in Codes |-> NoTemplate]
    /\ templateCall = [c \in TemplateCalls |-> IdleTemplate]

Existing == {i \in TemplateIds : template[i] # NoTemplate}
TemplateIs(c, step) == templateCall[c].step = step
TemplateGoes(c, step) == templateCall' = [templateCall EXCEPT ![c].step = step]
TemplateReturns(c) == templateCall' = [templateCall EXCEPT ![c] = IdleTemplate]
\* An update that ends keeps nothing but what it owes, and of which row.
TemplateEnds(c, step, owes) ==
    templateCall' = [templateCall EXCEPT ![c] = [IdleTemplate EXCEPT
        !.step = step, !.owes = owes,
        !.id = IF owes = NoTemplate THEN NoTemplate ELSE templateCall[c].id]]

\* seed runs at the start of every process and on POST /seed.
StartTemplates(c) ==
    /\ TemplateIs(c, "idle")
    /\ \E op \in TemplateOps, k \in Codes, i \in Existing \cup {NoTemplate} :
           /\ op = "seed" => k \in Files
           /\ op \in {"update", "deactivate"} <=> c \in TemplateWrites
           /\ c \in TemplateWrites <=> i # NoTemplate
           /\ c \in TemplateWrites => k = template[i].code
           /\ templateCall' = [templateCall EXCEPT ![c] =
                  [op |-> op, code |-> k, id |-> i, seen |-> NoTemplate,
                   dirty |-> {}, owes |-> NoTemplate,
                   step |-> CASE op = "send" -> "lookup"
                              [] op = "create" -> "insert"
                              [] OTHER -> "find"]]
    /\ UNCHANGED <<template, templateEntry>>

\* seedFromFiles: only for a code no row has; update, deactivate: findById.
FindTemplate(c) ==
    LET call == templateCall[c]
    IN /\ TemplateIs(c, "find")
       /\ IF call.op = "seed"
          THEN IF \E i \in Existing : template[i].code = call.code
               THEN TemplateReturns(c) ELSE TemplateGoes(c, "insert")
          ELSE templateCall' = [templateCall EXCEPT ![c].step = "diff",
                                    ![c].seen = template[call.id]]
       /\ UNCHANGED <<template, templateEntry>>

\* create, whose DTO may say isActive, or the save of a seed.
InsertTemplate(c) ==
    /\ TemplateIs(c, "insert")
    /\ \E i \in TemplateIds \ Existing, a \in BOOLEAN :
           /\ templateCall[c].op = "seed" => a
           /\ template' = [template EXCEPT ![i] =
                  [code |-> templateCall[c].code, active |-> a, body |-> "first"]]
    /\ TemplateReturns(c)
    /\ UNCHANGED templateEntry

\* What update and deactivate hand to save: the row as it was found, and the DTO,
\* which may give a code, a body and isActive.
Merged(c) ==
    LET call == templateCall[c]
    IN IF call.op = "deactivate" THEN {[call.seen EXCEPT !.active = FALSE]}
       ELSE [code : Codes, body : {call.seen.body, c}, active : BOOLEAN]

\* save's SELECT: the columns in which the row is not what it was handed.
Differing(row, entity) == {f \in TemplateColumns : row[f] # entity[f]}

\* save writes nothing when there are none.
DiffTemplate(c) ==
    /\ TemplateIs(c, "diff")
    /\ \E entity \in Merged(c) :
           LET dirty == Differing(template[templateCall[c].id], entity)
           IN templateCall' = [templateCall EXCEPT
                  ![c].step = IF dirty = {} THEN "evict" ELSE "save",
                  ![c].seen = IF dirty = {} THEN NoTemplate ELSE entity,
                  ![c].code = entity.code, ![c].dirty = dirty]
    /\ UNCHANGED <<template, templateEntry>>

\* The row with those columns as save was handed them.
Written(row, call) ==
    [code   |-> IF "code" \in call.dirty THEN call.seen.code ELSE row.code,
     body   |-> IF "body" \in call.dirty THEN call.seen.body ELSE row.body,
     active |-> IF "active" \in call.dirty THEN call.seen.active ELSE row.active]

\* save's UPDATE, of those columns alone.
SaveTemplate(c) ==
    LET call == templateCall[c]
        row == Written(template[call.id], call)
    IN /\ TemplateIs(c, "save")
       /\ template' = [template EXCEPT ![call.id] = row]
       /\ templateCall' = [templateCall EXCEPT ![c].step = "evict", ![c].seen = NoTemplate,
                               ![c].dirty = {}, ![c].owes = row.code]
       /\ UNCHANGED templateEntry

\* Mutant: the copy evicted is that of no code at all.
EvictTemplate_Forgotten(c) ==
    LET call == templateCall[c]
    IN /\ TemplateIs(c, "evict")
       /\ TemplateEnds(c, "done", IF call.owes = call.code THEN NoTemplate ELSE call.owes)
       /\ UNCHANGED <<template, templateEntry>>

\* The code is the one of the entity save has returned.
EvictTemplate(c) ==
    LET call == templateCall[c]
    IN /\ TemplateIs(c, "evict")
       /\ templateEntry' = [templateEntry EXCEPT ![call.code] = NoTemplate]
       /\ TemplateEnds(c, "done", IF call.owes = call.code THEN NoTemplate ELSE call.owes)
       /\ UNCHANGED template

\* send: the copy, whether it is active or not, is what is rendered.
LookUpTemplate(c) ==
    /\ TemplateIs(c, "lookup")
    /\ IF templateEntry[templateCall[c].code] = NoTemplate
       THEN TemplateGoes(c, "select") ELSE TemplateReturns(c)
    /\ UNCHANGED <<template, templateEntry>>

\* Any active row of the code; without one the file, or nothing, is rendered.
SelectTemplate(c) ==
    LET rows == {i \in Existing : /\ template[i].code = templateCall[c].code
                                  /\ template[i].active}
    IN /\ TemplateIs(c, "select")
       /\ IF rows = {} THEN TemplateReturns(c)
          ELSE \E i \in rows :
                   templateCall' = [templateCall EXCEPT ![c].step = "store",
                                        ![c].id = i, ![c].seen = template[i]]
       /\ UNCHANGED <<template, templateEntry>>

StoreTemplate(c) ==
    LET call == templateCall[c]
    IN /\ TemplateIs(c, "store")
       /\ templateEntry' = [templateEntry EXCEPT ![call.code] =
              [id |-> call.id, row |-> call.seen, expires |-> TRUE,
               raced |-> template[call.id] # call.seen]]
       /\ TemplateReturns(c)
       /\ UNCHANGED template

FailTemplates(c) ==
    /\ ~TemplateIs(c, "idle") /\ ~TemplateIs(c, "done") /\ ~TemplateIs(c, "failed")
    /\ IF c \in TemplateWrites THEN TemplateEnds(c, "failed", templateCall[c].owes)
       ELSE TemplateReturns(c)
    /\ UNCHANGED <<template, templateEntry>>

ExpireTemplate(k) ==
    /\ templateEntry[k] # NoTemplate /\ templateEntry[k].expires
    /\ templateEntry' = [templateEntry EXCEPT ![k] = NoTemplate]
    /\ UNCHANGED <<template, templateCall>>

AdvanceTemplates(c) ==
    \/ FindTemplate(c) \/ InsertTemplate(c) \/ DiffTemplate(c) \/ SaveTemplate(c)
    \/ EvictTemplate(c) \/ LookUpTemplate(c) \/ SelectTemplate(c)
    \/ StoreTemplate(c)

TemplateNext ==
    \/ \E c \in TemplateCalls :
           StartTemplates(c) \/ AdvanceTemplates(c) \/ FailTemplates(c)
    \/ \E k \in Codes : ExpireTemplate(k)

TemplateFairness ==
    /\ \A c \in TemplateCalls : WF_templateVars(AdvanceTemplates(c))
    /\ \A k \in Codes : WF_templateVars(ExpireTemplate(k))

-----------------------------------------------------------------------------

\* Type invariant.
TemplateTypeOK ==
    /\ template \in [TemplateIds -> TemplateRow \cup {NoTemplate}]
    /\ templateEntry \in [Codes -> TemplateEntry \cup {NoTemplate}]
    /\ templateCall \in [TemplateCalls -> TemplateCall]

\* No copy of the code, or one that is as its row is.
CopyFresh(k) ==
    templateEntry[k] = NoTemplate \/ template[templateEntry[k].id] = templateEntry[k].row

\* The copy of a code is the row it was read from, unless that row was written
\* between its SELECT and the store, has another code by now, or was written under
\* this one by a call that has not evicted its copy since: it has yet to, it failed,
\* or it evicted the copy of the code it had in hand, another update having given
\* the row this one in the meantime.
TemplateStaleExplained ==
    \A k \in Codes : CopyFresh(k)
        \/ templateEntry[k].raced
        \/ template[templateEntry[k].id].code # k
        \/ \E c \in TemplateCalls :
               templateCall[c].id = templateEntry[k].id /\ templateCall[c].owes = k

\* Every copy is as its row is.
TemplateFresh == \A k \in Codes : CopyFresh(k)
=============================================================================
