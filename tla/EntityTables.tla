----------------------------- MODULE EntityTables -----------------------------
(***************************************************************************)
(* What the TypeORM entities say of the tables: for each entity the        *)
(* columns it selects and writes.  The module has no state; module         *)
(* SchemaMigrations holds it against the tables the migrations build.      *)
(***************************************************************************)

\* The columns nearly all of them have.
Common == {"id", "created_at"}

AuditLogColumns ==
    Common \cup {"user_id", "user_email", "user_role", "method", "path",
     "status_code", "ip"}

SystemSettingColumns ==
    {"setting_group", "setting_key", "setting_value", "updated_by",
     "updated_at"}

CertificationEventColumns ==
    {"id", "certification_id", "event_type", "from_status", "to_status",
     "actor_id", "actor_role", "payload", "correlation_id",
     "occurred_at"}

CertificationColumns ==
    Common \cup {"certification_number", "cooperative_id", "cooperative_name",
     "batch_id", "product_type_code", "certification_type",
     "region_code", "current_status", "requested_by", "requested_at",
     "granted_by", "granted_at", "valid_from", "valid_until",
     "denied_by", "denied_at", "denial_reason", "revoked_by",
     "revoked_at", "revocation_reason", "renewed_from_id", "updated_at",
     "created_by", "deleted_at"}

ExportDocumentColumns ==
    Common \cup {"certification_id", "cooperative_id", "destination_country",
     "hs_code", "onssa_reference", "quantity_kg", "consignee_name",
     "consignee_country", "status", "valid_until", "document_url",
     "requested_by", "updated_at"}

InspectionReportColumns ==
    Common \cup {"inspection_id", "certification_id", "cooperative_id",
     "inspector_id", "passed", "summary", "farm_findings",
     "non_conformities", "completed_at"}

InspectionColumns ==
    Common \cup {"certification_id", "cooperative_id", "inspector_id",
     "inspector_name", "scheduled_date", "farm_ids", "status",
     "completed_at", "passed", "updated_at", "created_by"}

QrCodeColumns ==
    Common \cup {"certification_id", "hmac_signature", "verification_url",
     "is_active", "scans_count", "issued_at", "expires_at", "updated_at"}

QrScanEventColumns ==
    {"id", "qr_code_id", "certification_id", "scanned_at", "ip_address"}

CooperativeColumns ==
    Common \cup {"name", "name_ar", "ice", "if_number", "rc_number", "email",
     "phone", "address", "region_code", "city", "president_name",
     "president_cin", "president_phone", "status", "product_types",
     "verified_at", "verified_by", "updated_at", "created_by",
     "deleted_at"}

FarmColumns ==
    Common \cup {"cooperative_id", "name", "area_hectares", "crop_types",
     "region_code", "commune", "location", "latitude", "longitude",
     "updated_at", "created_by", "deleted_at"}

MemberColumns ==
    Common \cup {"cooperative_id", "full_name", "full_name_ar", "cin", "phone",
     "email", "role", "is_active", "keycloak_user_id", "updated_at",
     "created_by", "deleted_at"}

NotificationPreferenceColumns ==
    {"user_id", "channels", "language", "updated_at"}

NotificationTemplateColumns ==
    Common \cup {"code", "channel", "language", "subject_template", "body_template",
     "is_active", "updated_at"}

NotificationColumns ==
    Common \cup {"recipient_id", "recipient_email", "recipient_phone", "channel",
     "template_code", "language", "subject", "body", "context_data",
     "status", "error_message", "sent_at", "correlation_id",
     "trigger_event_id"}

HarvestColumns ==
    Common \cup {"farm_id", "cooperative_id", "product_type_code", "quantity_kg",
     "harvest_date", "campaign_year", "method", "metadata",
     "updated_at", "created_by", "deleted_at"}

LabTestResultColumns ==
    Common \cup {"lab_test_id", "batch_id", "product_type_code", "passed",
     "test_values", "failed_parameters", "technician_name",
     "technician_id", "laboratory_name", "completed_at"}

LabTestColumns ==
    Common \cup {"batch_id", "cooperative_id", "product_type_code", "laboratory_id",
     "status", "submitted_at", "expected_result_date", "submitted_by",
     "report_s3_key", "report_file_name", "updated_at"}

LabColumns ==
    Common \cup {"name", "onssa_accreditation_number", "is_accredited",
     "accredited_at", "updated_at"}

ProcessingStepColumns ==
    Common \cup {"batch_id", "cooperative_id", "step_type", "done_at", "done_by",
     "notes"}

ProductDocumentColumns ==
    Common \cup {"product_id", "file_name", "mime_type", "s3_key", "size_bytes",
     "uploaded_by"}

ProductTypeColumns ==
    Common \cup {"code", "name_fr", "name_ar", "name_zgh", "certification_type",
     "region_code", "lab_test_parameters", "hs_code", "onssa_category",
     "is_active", "validity_days", "updated_at"}

ProductColumns ==
    Common \cup {"cooperative_id", "product_type_code", "name", "description",
     "updated_at", "created_by", "deleted_at"}

ProductionBatchColumns ==
    Common \cup {"batch_number", "cooperative_id", "product_type_code",
     "harvest_ids", "total_quantity_kg", "processing_date", "status",
     "updated_at", "created_by", "deleted_at"}

\* The columns of each entity, under the name of its table.
EntityTable == [
    audit_log |-> AuditLogColumns,
    system_setting |-> SystemSettingColumns,
    certification_events |-> CertificationEventColumns,
    certification |-> CertificationColumns,
    export_document |-> ExportDocumentColumns,
    inspection_report |-> InspectionReportColumns,
    inspection |-> InspectionColumns,
    qr_code |-> QrCodeColumns,
    qr_scan_event |-> QrScanEventColumns,
    cooperative |-> CooperativeColumns,
    farm |-> FarmColumns,
    member |-> MemberColumns,
    notification_preference |-> NotificationPreferenceColumns,
    notification_template |-> NotificationTemplateColumns,
    notification |-> NotificationColumns,
    harvest |-> HarvestColumns,
    lab_test_result |-> LabTestResultColumns,
    lab_test |-> LabTestColumns,
    lab |-> LabColumns,
    processing_step |-> ProcessingStepColumns,
    product_document |-> ProductDocumentColumns,
    product_type |-> ProductTypeColumns,
    product |-> ProductColumns,
    production_batch |-> ProductionBatchColumns]
=============================================================================
