--------------------------- MODULE SchemaMigrations ---------------------------
(***************************************************************************)
(* The 17 migrations of src/database/migrations as `typeorm migration:run` *)
(* and `migration:revert` run them: run applies all pending ones of the    *)
(* release in one transaction, revert undoes the last applied one.         *)
(*                                                                         *)
(* The schema is a set of facts:  <<t, c>> the table t has the column (or  *)
(* the named constraint) c,  <<t, c, "required">> the column is NOT NULL   *)
(* and has no default.  A table is there when one of its facts is.  Types, *)
(* indexes and the constraints nothing below depends on are left out.      *)
(*                                                                         *)
(* A statement without IF [NOT] EXISTS fails if what it needs is missing   *)
(* or what it creates is there; SET NOT NULL and UNIQUE fail on rows they  *)
(* forbid, which earlier releases may have left.  Either way the           *)
(* transaction, with all of its migrations, is rolled back.                *)
(***************************************************************************)
EXTENDS Naturals, Sequences, EntityTables

Last == 17

VARIABLES
    applied,    \* how many migrations typeorm_migrations lists
    schema,     \* the facts
    offending,  \* the kinds of rows there are which a later constraint forbids
    residue,    \* history: the tables a revert of 007 has left changed
    command     \* the last command and how it ended

migrationVars == <<applied, schema, offending, residue, command>>

Commands == {"none", "run", "run failed", "revert", "revert failed"}

\* A new table, from its required columns and its other ones.
Table(t, required, other) ==
    ({t} \X (required \cup other)) \cup {<<t, c, "required">> : c \in required}

\* What a list of statements needs to be there, needs not to be there, removes
\* (a fact, or <<t>>: all of a table), and adds.
Statements(needs, absent, removes, adds) ==
    [needs |-> needs, absent |-> absent, removes |-> removes, adds |-> adds]

\* CREATE TABLE for new tables, and DROP TABLE IF EXISTS.
Creating(tables) == Statements({}, tables, {}, tables)
Dropping(names) == Statements({}, {}, {<<t>> : t \in names}, {})

Possible(s, facts) == s.needs \subseteq facts /\ s.absent \cap facts = {}

After(s, facts) ==
    {f \in facts : /\ <<f[1]>> \notin s.removes
                   /\ <<f[1], f[2]>> \notin s.removes
                   /\ f \notin s.removes} \cup s.adds

-----------------------------------------------------------------------------
(* The migrations: what up does *)

\* created_at and updated_at DEFAULT NOW(), id DEFAULT gen_random_uuid().
Times == {"id", "created_at", "updated_at"}

Up001 == Creating(
    Table("cooperative",
        {"name", "ice", "email", "phone", "region_code", "city", "president_name",
         "president_cin", "president_phone", "created_by"},
        Times \cup {"name_ar", "if_number", "rc_number", "address", "status",
                    "product_types", "verified_at", "verified_by", "deleted_at"})
    \cup Table("member",
        {"cooperative_id", "full_name", "cin", "created_by"},
        Times \cup {"full_name_ar", "email", "phone", "role", "joined_at", "is_active",
                    "deleted_at"})
    \cup Table("farm",
        {"cooperative_id", "name", "region_code", "area_hectares", "created_by"},
        Times \cup {"commune", "crop_types", "latitude", "longitude", "location",
                    "deleted_at"}))

Up002 == Creating(
    Table("product_type",
        {"code", "name_fr", "region_code"},
        Times \cup {"name_ar", "name_zgh", "certification_types", "lab_test_parameters",
                    "is_active"})
    \cup Table("product",
        {"cooperative_id", "product_type_code", "name", "created_by"},
        Times \cup {"description", "is_active", "deleted_at"})
    \cup Table("harvest",
        {"farm_id", "cooperative_id", "product_type_code", "quantity_kg", "harvest_date",
         "campaign_year", "method", "created_by"},
        Times \cup {"metadata", "deleted_at"})
    \cup Table("production_batch",
        {"batch_number", "cooperative_id", "product_type_code", "total_quantity_kg",
         "processing_date", "created_by"},
        Times \cup {"harvest_ids", "status", "deleted_at"})
    \cup Table("lab_test",
        {"batch_id", "cooperative_id", "product_type_code", "submitted_at", "submitted_by"},
        Times \cup {"laboratory_id", "expected_result_date", "status"})
    \cup Table("lab_test_result",
        {"lab_test_id", "batch_id", "product_type_code", "passed", "technician_name",
         "technician_id", "completed_at"},
        {"id", "created_at", "test_values", "failed_parameters", "laboratory_name"}))

Up003 == Creating(
    Table("certification_seq",
        {"certification_type", "region_code", "year"}, {"id", "last_seq"})
    \cup Table("certification",
        {"cooperative_id", "cooperative_name", "batch_id", "product_type_code",
         "certification_type", "region_code", "requested_by", "requested_at", "created_by"},
        Times \cup {"certification_number", "status", "granted_by", "granted_at",
                    "valid_from", "valid_until", "denied_by", "denied_at", "denial_reason",
                    "revoked_by", "revoked_at", "revocation_reason", "renewed_from_id",
                    "deleted_at"})
    \cup Table("inspection",
        {"certification_id", "cooperative_id", "inspector_id", "inspector_name",
         "scheduled_date", "created_by"},
        Times \cup {"completed_at", "status", "farm_ids", "notes", "deleted_at"})
    \cup Table("inspection_report",
        {"inspection_id", "passed", "summary", "filed_by", "filed_at"},
        {"id", "created_at", "findings", "photos"})
    \cup Table("qr_code",
        {"certification_id", "hmac_signature", "verification_url", "issued_at"},
        Times \cup {"is_active", "scans_count", "expires_at"})
    \cup Table("export_document",
        {"certification_id", "document_type", "created_by"},
        Times \cup {"document_number", "destination_country", "hs_code", "quantity_kg",
                    "status", "issued_at", "expires_at", "deleted_at"}))

TemplateKey == <<"notification_template", "notification_template_code_channel_language_key">>

Up004 == Creating(
    Table("notification_template",
        {"code", "channel", "body_template"},
        Times \cup {"language", "subject_template", "is_active"})
    \cup {TemplateKey}
    \cup Table("notification",
        {"recipient_id", "channel", "template_code", "body"},
        {"id", "created_at", "recipient_email", "recipient_phone", "language", "subject",
         "context_data", "status", "error_message", "sent_at", "correlation_id",
         "trigger_event_id"}))

\* status is renamed, and every certification is set to 'DRAFT'.
Up005 ==
    LET ledger == Table("certification_events",
                    {"certification_id", "event_type", "from_status", "to_status",
                     "actor_id", "actor_role", "correlation_id"},
                    {"id", "payload", "occurred_at"})
    IN Statements({<<"certification", "status">>},
                  ledger \cup {<<"certification", "current_status">>},
                  {<<"certification", "status">>},
                  ledger \cup {<<"certification", "current_status">>})

\* "No DDL required."
Up006 == Statements({}, {}, {}, {})

Required(t, columns) == {<<t, c, "required">> : c \in columns}

ReportKey == <<"inspection_report", "UQ_inspection_report_inspection_id">>
FarmKey == <<"farm", "FK_farm_cooperative_id">>
MemberKey == <<"member", "FK_member_cooperative_id">>

Columns(t, columns) == {t} \X columns

\* Lists of statements about different tables, together.
Together(lists) ==
    Statements(UNION {s.needs : s \in lists}, UNION {s.absent : s \in lists},
               UNION {s.removes : s \in lists}, UNION {s.adds : s \in lists})

\* 007 fixes the drift of the entities.  A required column is added with a
\* default that is dropped again; a type is changed by dropping the column.
Up007Catalogue ==
    Statements({<<"product_type", "name_ar">>, <<"product_type", "lab_test_parameters">>,
                <<"lab_test_result", "test_values">>},
               {},
               Columns("product_type", {"certification_types", "is_active"})
                   \cup {<<"product", "is_active">>},
               Columns("product_type", {"certification_type", "hs_code", "onssa_category"})
                   \cup Required("product_type",
                            {"certification_type", "name_ar", "lab_test_parameters"})
                   \cup Required("lab_test_result", {"test_values"}))

Up007People ==
    Statements({<<"member", "phone">>}, {FarmKey, MemberKey},
               {<<"member", "joined_at">>},
               Columns("member", {"keycloak_user_id", "role"})
                   \cup Required("member", {"phone"}) \cup {FarmKey, MemberKey})

\* Mutant: farm_findings is forgotten.
Up007Inspections_NoFindings ==
    Statements({<<"inspection", "inspector_name">>}, {ReportKey},
               Columns("inspection", {"notes", "deleted_at"})
                   \cup Required("inspection", {"inspector_name"})
                   \cup Columns("inspection_report",
                            {"findings", "photos", "filed_by", "filed_at"}),
               Columns("inspection", {"passed", "status"})
                   \cup Table("inspection_report",
                            {"certification_id", "cooperative_id", "inspector_id",
                             "completed_at"},
                            {"non_conformities"})
                   \cup {ReportKey})

Up007Inspections ==
    Statements({<<"inspection", "inspector_name">>}, {ReportKey},
               Columns("inspection", {"notes", "deleted_at"})
                   \cup Required("inspection", {"inspector_name"})
                   \cup Columns("inspection_report",
                            {"findings", "photos", "filed_by", "filed_at"}),
               Columns("inspection", {"passed", "status"})
                   \cup Table("inspection_report",
                            {"certification_id", "cooperative_id", "inspector_id",
                             "completed_at"},
                            {"farm_findings", "non_conformities"})
                   \cup {ReportKey})

Up007Exports ==
    Statements(Columns("export_document", {"hs_code", "quantity_kg"}), {},
               Columns("export_document",
                   {"document_type", "document_number", "issued_at", "expires_at",
                    "created_by", "deleted_at", "destination_country", "status"}),
               Table("export_document",
                   {"cooperative_id", "consignee_name", "consignee_country",
                    "requested_by", "destination_country"},
                   {"onssa_reference", "valid_until", "document_url", "status"})
                   \cup Required("export_document", {"hs_code", "quantity_kg"}))

Up007Templates ==
    Statements({<<"notification_template", "language">>}, {}, {TemplateKey},
               Required("notification_template", {"language"})
                   \cup {<<"notification_template", "subject_template">>})

Up007 == Together({Up007Catalogue, Up007People, Up007Inspections, Up007Exports,
                   Up007Templates})

\* TypeORM's names of the two foreign keys.
FarmKey8 == <<"farm", "FK_3ca263fd9aca7b93fa413dad7e2">>
MemberKey8 == <<"member", "FK_6d12cf09622b87b72b0e2afdda6">>

Up008 == Statements({<<"product_type", "id">>}, {FarmKey8, MemberKey8}, {FarmKey, MemberKey},
                    {FarmKey8, MemberKey8, <<"product_type", "is_active">>})

Up009 == Statements({<<"product_type", "id">>}, {}, {}, {<<"product_type", "validity_days">>})

\* CREATE TABLE IF NOT EXISTS: a table that is there stays as it is, but 010 is
\* the only one to know it.
Up010 == Statements({}, {}, {},
    Table("processing_step",
        {"batch_id", "cooperative_id", "step_type", "done_at", "done_by"},
        {"id", "created_at", "notes"}))

Up011 == Creating(Table("product_document",
    {"product_id", "file_name", "mime_type", "s3_key", "size_bytes", "uploaded_by"},
    {"id", "created_at"}))

ReportColumns == Columns("lab_test", {"report_s3_key", "report_file_name"})

Up012 == Statements({<<"lab_test", "id">>}, ReportColumns, {}, ReportColumns)

Up013 == Creating(Table("lab", {"name"},
    Times \cup {"onssa_accreditation_number", "is_accredited", "accredited_at"}))

Up014 == Creating(Table("audit_log",
    {"user_id", "user_role", "method", "path", "status_code"},
    {"id", "created_at", "user_email", "ip"}))

Up015 == Creating(Table("system_setting",
    {"setting_group", "setting_key", "setting_value"}, {"updated_by", "updated_at"}))

Up016 == Creating(Table("notification_preference",
    {"user_id"}, {"channels", "language", "updated_at"}))

Up017 == Creating(Table("qr_scan_event",
    {"qr_code_id", "certification_id"}, {"id", "scanned_at", "ip_address"}))

Up == <<Up001, Up002, Up003, Up004, Up005, Up006, Up007, Up008, Up009, Up010,
        Up011, Up012, Up013, Up014, Up015, Up016, Up017>>

-----------------------------------------------------------------------------
(* What down does *)

Down001 == Dropping({"farm", "member", "cooperative"})
Down002 == Dropping({"lab_test_result", "lab_test", "production_batch", "harvest",
                     "product", "product_type"})
Down003 == Dropping({"export_document", "qr_code", "inspection_report", "inspection",
                     "certification", "certification_seq"})
Down004 == Dropping({"notification", "notification_template"})

Down005 == Statements({<<"certification", "current_status">>},
                      {<<"certification", "status">>},
                      {<<"certification_events">>, <<"certification", "current_status">>},
                      {<<"certification", "status">>})

Down006 == Statements({}, {}, {}, {})

\* The columns up dropped come back only where an ADD COLUMN says so, and
\* what up made NOT NULL stays so.
Down007 ==
    Statements({<<"lab_test_result", "test_values">>, <<"notification_template", "language">>},
        {<<"product_type", "certification_types">>, <<"product_type", "is_active">>,
         <<"product", "is_active">>, TemplateKey},
        Columns("export_document",
            {"requested_by", "document_url", "valid_until", "consignee_country",
             "consignee_name", "onssa_reference", "cooperative_id",
             "destination_country", "status"})
            \cup Columns("inspection_report",
                    {"completed_at", "non_conformities", "farm_findings", "inspector_id",
                     "cooperative_id", "certification_id"})
            \cup {<<"inspection", "passed">>, <<"member", "keycloak_user_id">>,
                  MemberKey, FarmKey}
            \cup Columns("product_type", {"onssa_category", "hs_code", "certification_type"})
            \cup Required("lab_test_result", {"test_values"})
            \cup Required("notification_template", {"language"}),
        Columns("export_document", {"destination_country", "status"})
            \cup Columns("product_type", {"certification_types", "is_active"})
            \cup {<<"product", "is_active">>, TemplateKey})

Down008 == Statements({}, {FarmKey, MemberKey},
                      {FarmKey8, MemberKey8, <<"product_type", "is_active">>},
                      {FarmKey, MemberKey})

Down009 == Statements({}, {}, {<<"product_type", "validity_days">>}, {})
Down010 == Dropping({"processing_step"})
Down011 == Dropping({"product_document"})

\* Mutant: one of the two columns stays.
Down012_OneColumn == Statements({}, {}, {<<"lab_test", "report_s3_key">>}, {})

Down012 == Statements({}, {}, ReportColumns, {})
Down013 == Dropping({"lab"})
Down014 == Dropping({"audit_log"})
Down015 == Dropping({"system_setting"})
Down016 == Dropping({"notification_preference"})
Down017 == Dropping({"qr_scan_event"})

Down == <<Down001, Down002, Down003, Down004, Down005, Down006, Down007, Down008,
          Down009, Down010, Down011, Down012, Down013, Down014, Down015, Down016,
          Down017>>

-----------------------------------------------------------------------------
(* The commands *)

\* The kinds of rows that a later constraint forbids: each with its table and
\* the fact that keeps it out.
Rows ==
    {[table |-> "product_type", kept |-> <<"product_type", "name_ar", "required">>],
     [table |-> "member", kept |-> <<"member", "phone", "required">>],
     [table |-> "export_document", kept |-> <<"export_document", "hs_code", "required">>],
     [table |-> "inspection_report", kept |-> ReportKey],
     [table |-> "notification_template", kept |-> TemplateKey]}

Tables(facts) == {f[1] : f \in facts}

\* The schema a database has that was only ever migrated forwards.
Built[n \in 0..Last] == IF n = 0 THEN {} ELSE After(Up[n], Built[n - 1])

\* The tables 007's down leaves otherwise than its up found them.
Drifted == {"member", "product_type", "inspection", "inspection_report",
            "export_document"}

MigrationInit ==
    /\ applied = 0 /\ schema = {} /\ offending = {} /\ residue = {}
    /\ command = "none"

\* The rows that stand in the way of a list of statements.
Forbidden(s) == {r \in offending : r.kept \in s.adds}

\* Where the pending migrations up to n lead, and whether none of them fails.
Pending(n) ==
    LET after[i \in applied..n] ==
            IF i = applied THEN [schema |-> schema, ok |-> TRUE]
            ELSE LET before == after[i - 1]
                 IN [schema |-> After(Up[i], before.schema),
                     ok |-> /\ before.ok /\ Possible(Up[i], before.schema)
                            /\ Forbidden(Up[i]) = {}]
    IN after[n]

\* migration:run of a release whose last migration is n.
Run(n) ==
    /\ n >= applied
    /\ LET end == Pending(n)
       IN IF end.ok
          THEN /\ applied' = n /\ schema' = end.schema
               /\ residue' = IF n >= 7 THEN {} ELSE residue
               /\ command' = "run"
          ELSE command' = "run failed" /\ UNCHANGED <<applied, schema, residue>>
    /\ UNCHANGED offending

\* migration:revert.
Revert ==
    /\ IF applied = 0
       THEN command' = "revert" /\ UNCHANGED <<applied, schema, offending, residue>>
       ELSE IF Possible(Down[applied], schema) /\ Forbidden(Down[applied]) = {}
       THEN /\ applied' = applied - 1
            /\ schema' = After(Down[applied], schema)
            /\ offending' = {r \in offending : r.table \in Tables(schema')}
            /\ residue' = (IF applied = 7 THEN Drifted ELSE residue) \cap Tables(schema')
            /\ command' = "revert"
       ELSE command' = "revert failed" /\ UNCHANGED <<applied, schema, offending, residue>>

\* Some release of the application writes rows the schema of the day admits,
\* or somebody repairs them.
RowsChange(r) ==
    /\ \/ /\ r.table \in Tables(schema) /\ r.kept \notin schema
          /\ offending' = offending \cup {r}
       \/ offending' = offending \ {r}
    /\ command' = "none"
    /\ UNCHANGED <<applied, schema, residue>>

MigrationNext ==
    \/ \E n \in 1..Last : Run(n)
    \/ Revert
    \/ \E r \in Rows : RowsChange(r)

-----------------------------------------------------------------------------

\* Type invariant.
MigrationTypeOK ==
    /\ applied \in 0..Last
    /\ offending \subseteq Rows
    /\ residue \subseteq Drifted
    /\ command \in Commands

\* Once the last migration has run, whatever was reverted and run again before,
\* every entity finds its columns, and no required column is one the entity
\* does not write (entities against database/migrations, the CI's
\* migration:check).
EntitiesFit ==
    applied = Last =>
        \A t \in DOMAIN EntityTable :
            /\ Columns(t, EntityTable[t]) \subseteq schema
            /\ \A f \in schema :
                   f[1] = t /\ Len(f) = 3 => f[2] \in EntityTable[t]

\* A table is as a database has it that was only migrated forwards, unless a
\* revert of 007 has left it otherwise.
SchemaIsBuilt ==
    \A t \in Tables(schema) \cup Tables(Built[applied]) :
        t \notin residue =>
            {f \in schema : f[1] = t} = {f \in Built[applied] : f[1] = t}

\* A command fails only on rows a constraint forbids, or, a run, on the unique
\* key of the inspection reports that a revert of 007 leaves behind.
FailuresExplained ==
    /\ command = "run failed" => offending # {} \/ "inspection_report" \in residue
    /\ command = "revert failed" => offending # {}

\* What the runbook has a revert checked for, that it "brings the schema back
\* to its prior state", holds of every migration.  007 does not do it.
RevertGivesPriorSchema ==
    [][(applied' < applied /\ schema = Built[applied]) =>
           schema' = Built[applied']]_migrationVars
=============================================================================
