------------------------------- MODULE Catalogue -------------------------------
(***************************************************************************)
(* The product module beside laboratory tests: product types               *)
(* (ProductTypeService), laboratories (LabService), documents in MinIO     *)
(* with a row each (ProductDocumentService), and the records that are      *)
(* inserted and then announced: batches, harvests and processing steps.    *)
(*                                                                         *)
(* Every operation looks first and writes afterwards, in statements of     *)
(* their own; what guards two of them against each other is the UNIQUE of  *)
(* the code, and that an UPDATE names the columns it writes.               *)
(***************************************************************************)

CONSTANTS
    TypeIds,      \* the ids product types can get
    TypeCodes,
    CatalogueCalls,  \* the calls; a record or an object is named by its call
    NoType        \* no row, nothing read

VARIABLES
    productType,  \* the rows: code, name (who wrote it), active
    lab,          \* a laboratory: accredited, accreditedAt is set
    record,       \* the rows of batches, harvests and processing steps
    announced,    \* the records Kafka has a message about
    object,       \* the objects in MinIO
    documentRow,  \* the objects a product_document row names
    catalogueCall

catalogueVars ==
    <<productType, lab, record, announced, object, documentRow, catalogueCall>>

typeState == <<productType>>
recordState == <<record, announced>>
documentState == <<object, documentRow>>

TypeRow == [code : TypeCodes, name : CatalogueCalls \cup {NoType}, active : BOOLEAN]

ASSUME CatalogueAssumption == NoType \notin TypeRow /\ TypeIds # {} /\ TypeCodes # {}

RecordOps == {"createBatch", "logHarvest", "addStep"}
CatalogueOps ==
    {"createType", "updateType", "deactivateType", "accredit", "revoke", "upload"}
        \cup RecordOps

CatalogueCall ==
    [op : CatalogueOps, step : {"idle", "find", "write", "publish", "put", "done", "failed"},
     id : TypeIds, code : TypeCodes, seen : TypeRow \cup {NoType}]

\* The table is empty, or has a type from before (written by none of the calls).
CatalogueInit ==
    /\ \E known \in {{}, {CHOOSE i \in TypeIds : TRUE}} :
           productType = [i \in TypeIds |->
               IF i \in known
               THEN [code |-> CHOOSE k \in TypeCodes : TRUE, name |-> NoType, active |-> TRUE]
               ELSE NoType]
    /\ lab = [accredited |-> FALSE, since |-> FALSE]
    /\ record = {} /\ announced = {}
    /\ object = {} /\ documentRow = {}
    /\ catalogueCall = [c \in CatalogueCalls |->
           [op |-> "createType", step |-> "idle", id |-> CHOOSE i \in TypeIds : TRUE,
            code |-> CHOOSE k \in TypeCodes : TRUE, seen |-> NoType]]

CatalogueGoes(c, step) == catalogueCall' = [catalogueCall EXCEPT ![c].step = step]
CatalogueAt(c, op, step) == catalogueCall[c].op = op /\ catalogueCall[c].step = step

\* createBatch and logHarvest insert at once; the others look first.
StartCatalogue(c) ==
    /\ catalogueCall[c].step = "idle"
    /\ \E op \in CatalogueOps, i \in TypeIds, k \in TypeCodes :
           catalogueCall' = [catalogueCall EXCEPT ![c] =
               [op |-> op, id |-> i, code |-> k, seen |-> NoType,
                step |-> IF op \in {"createBatch", "logHarvest"} THEN "write" ELSE "find"]]
    /\ UNCHANGED <<typeState, lab, recordState, documentState>>

CodeTaken(k, others) == \E i \in others : productType[i] # NoType /\ productType[i].code = k

\* create asks for the code, update and deactivate for the row, and an inactive
\* one is not deactivated again.
FindType(c) ==
    LET call == catalogueCall[c]
        row == productType[call.id]
        refused == CASE call.op = "createType" -> CodeTaken(call.code, TypeIds)
                     [] call.op = "updateType" -> row = NoType
                     [] call.op = "deactivateType" -> row = NoType \/ ~row.active
    IN /\ call.op \in {"createType", "updateType", "deactivateType"} /\ call.step = "find"
       /\ catalogueCall' = [catalogueCall EXCEPT ![c].seen = row,
              ![c].step = IF refused THEN "failed" ELSE "write"]
       /\ UNCHANGED <<typeState, lab, recordState, documentState>>

\* INSERT, in a row nobody has yet, unless the code is there by now.
CreateType(c) ==
    LET call == catalogueCall[c]
    IN /\ CatalogueAt(c, "createType", "write")
       /\ IF CodeTaken(call.code, TypeIds)
          THEN CatalogueGoes(c, "failed") /\ UNCHANGED productType
          ELSE /\ productType[call.id] = NoType
               /\ productType' = [productType EXCEPT ![call.id] =
                      [code |-> call.code, name |-> c, active |-> TRUE]]
               /\ CatalogueGoes(c, "done")
       /\ UNCHANGED <<lab, recordState, documentState>>

\* Mutant: the row that was read is saved with the DTO over it, as templates are.
UpdateType_WholeRow(c) ==
    LET call == catalogueCall[c]
    IN /\ CatalogueAt(c, "updateType", "write")
       /\ IF CodeTaken(call.code, TypeIds \ {call.id})
          THEN CatalogueGoes(c, "failed") /\ UNCHANGED productType
          ELSE /\ productType' = [productType EXCEPT ![call.id] =
                      [call.seen EXCEPT !.code = call.code, !.name = c]]
               /\ CatalogueGoes(c, "done")
       /\ UNCHANGED <<lab, recordState, documentState>>

\* UPDATE of what the DTO has: it may have a code, it has no isActive.
UpdateType(c) ==
    LET call == catalogueCall[c]
    IN /\ CatalogueAt(c, "updateType", "write")
       /\ IF CodeTaken(call.code, TypeIds \ {call.id})
          THEN CatalogueGoes(c, "failed") /\ UNCHANGED productType
          ELSE /\ productType' = [productType EXCEPT ![call.id].code = call.code,
                                      ![call.id].name = c]
               /\ CatalogueGoes(c, "done")
       /\ UNCHANGED <<lab, recordState, documentState>>

DeactivateType(c) ==
    /\ CatalogueAt(c, "deactivateType", "write")
    /\ productType' = [productType EXCEPT ![catalogueCall[c].id].active = FALSE]
    /\ CatalogueGoes(c, "done")
    /\ UNCHANGED <<lab, recordState, documentState>>

\* accredit and revoke: find, and refuse what is so already.
FindLab(c) ==
    /\ catalogueCall[c].op \in {"accredit", "revoke"} /\ catalogueCall[c].step = "find"
    /\ CatalogueGoes(c, IF lab.accredited = (catalogueCall[c].op = "accredit")
                        THEN "failed" ELSE "write")
    /\ UNCHANGED <<typeState, lab, recordState, documentState>>

\* Mutant: revoke leaves accreditedAt as it is.
WriteLab_KeepsDate(c) ==
    LET accredited == catalogueCall[c].op = "accredit"
    IN /\ catalogueCall[c].op \in {"accredit", "revoke"} /\ catalogueCall[c].step = "write"
       /\ lab' = [accredited |-> accredited, since |-> TRUE]
       /\ CatalogueGoes(c, "done")
       /\ UNCHANGED <<typeState, recordState, documentState>>

WriteLab(c) ==
    LET accredited == catalogueCall[c].op = "accredit"
    IN /\ catalogueCall[c].op \in {"accredit", "revoke"} /\ catalogueCall[c].step = "write"
       /\ lab' = [accredited |-> accredited, since |-> accredited]
       /\ CatalogueGoes(c, "done")
       /\ UNCHANGED <<typeState, recordState, documentState>>

\* addStep wants the batch to exist.
FindBatch(c) ==
    /\ CatalogueAt(c, "addStep", "find")
    /\ CatalogueGoes(c, IF \E d \in record : catalogueCall[d].op = "createBatch"
                        THEN "write" ELSE "failed")
    /\ UNCHANGED <<typeState, lab, recordState, documentState>>

InsertRecord(c) ==
    /\ catalogueCall[c].op \in RecordOps /\ catalogueCall[c].step = "write"
    /\ record' = record \cup {c}
    /\ CatalogueGoes(c, "publish")
    /\ UNCHANGED <<typeState, lab, announced, documentState>>

\* Kafka may refuse the message: the producer logs that, and the call succeeds.
PublishRecord(c) ==
    /\ catalogueCall[c].step = "publish"
    /\ announced' \in {announced, announced \cup {c}}
    /\ CatalogueGoes(c, "done")
    /\ UNCHANGED <<typeState, lab, record, documentState>>

\* upload: the product is there or not, which nothing here can change.
FindProduct(c) ==
    /\ CatalogueAt(c, "upload", "find")
    /\ \E step \in {"put", "failed"} : CatalogueGoes(c, step)
    /\ UNCHANGED <<typeState, lab, recordState, documentState>>

\* Mutant: the row is inserted before the object is there.
PutObject_RowFirst(c) ==
    /\ catalogueCall[c].step = "put"
    /\ documentRow' = documentRow \cup {c}
    /\ CatalogueGoes(c, "write")
    /\ UNCHANGED <<typeState, lab, recordState, object>>

PutObject(c) ==
    /\ catalogueCall[c].step = "put"
    /\ object' = object \cup {c}
    /\ CatalogueGoes(c, "write")
    /\ UNCHANGED <<typeState, lab, recordState, documentRow>>

InsertDocument(c) ==
    /\ CatalogueAt(c, "upload", "write")
    /\ documentRow' = documentRow \cup {c}
    /\ CatalogueGoes(c, "done")
    /\ UNCHANGED <<typeState, lab, recordState, object>>

FailCatalogue(c) ==
    /\ catalogueCall[c].step \notin {"idle", "done", "failed"}
    /\ CatalogueGoes(c, "failed")
    /\ UNCHANGED <<typeState, lab, recordState, documentState>>

CatalogueNext ==
    \E c \in CatalogueCalls :
        \/ StartCatalogue(c) \/ FailCatalogue(c)
        \/ FindType(c) \/ CreateType(c) \/ UpdateType(c) \/ DeactivateType(c)
        \/ FindLab(c) \/ WriteLab(c)
        \/ FindBatch(c) \/ InsertRecord(c) \/ PublishRecord(c)
        \/ FindProduct(c) \/ PutObject(c) \/ InsertDocument(c)

-----------------------------------------------------------------------------

\* Type invariant; accreditedAt is set exactly while the laboratory is accredited.
CatalogueTypeOK ==
    /\ productType \in [TypeIds -> TypeRow \cup {NoType}]
    /\ lab \in [accredited : BOOLEAN, since : BOOLEAN] /\ lab.since = lab.accredited
    /\ record \cup announced \cup object \cup documentRow \subseteq CatalogueCalls
    /\ catalogueCall \in [CatalogueCalls -> CatalogueCall]

\* A deactivated product type never comes back, also not by an update that had
\* read it before ("soft-deactivate", ProductTypeService.deactivate), and no two
\* types ever have one code.
TypesStayDeactivated ==
    [][\A i \in TypeIds :
           /\ productType[i] # NoType =>
                  productType'[i] # NoType
                  /\ (productType'[i].active => productType[i].active)
           /\ productType'[i] # NoType =>
                  \A j \in TypeIds \ {i} :
                      productType'[j] # NoType => productType'[j].code # productType'[i].code
      ]_catalogueVars

\* Whatever fails half way, a document row has its object, and a message is
\* about a record that can be read (upload, createBatch, logHarvest, addStep).
RowsAndMessagesBacked ==
    documentRow \subseteq object /\ announced \subseteq record
=============================================================================
