--------------------------- MODULE MigrationsLogs ---------------------------
(****************************************************************************)
(* The migrations of the schema migrator for the logs database, in the order *)
(* in which they run.  Column lists that several tables share are named      *)
(* once.                                                                     *)
(****************************************************************************)
EXTENDS SchemaOps

UsageColumns ==
  {"tenant", "collector_id", "exporter_id", "timestamp", "data"}

LogsV2Columns ==
  {"ts_bucket_start", "resource_fingerprint", "timestamp", "observed_timestamp", "id",
   "trace_id", "span_id", "trace_flags", "severity_text", "severity_number", "body",
   "attributes_string", "attributes_number", "attributes_bool", "resources_string",
   "scope_name", "scope_version", "scope_string", "_retention_days",
   "_retention_days_cold"}

LogsV2ResourceColumns ==
  {"labels", "fingerprint", "seen_at_ts_bucket_start", "_retention_days",
   "_retention_days_cold"}

TagAttributesV2Columns ==
  {"unix_milli", "tag_key", "tag_type", "tag_data_type", "string_value", "number_value"}

JsonPathTypesColumns ==
  {"path", "type", "last_seen"}

CustomRetentionLogs1_5 ==
  <<Migration(1,
    <<CreateTable("logs_attribute_keys", {"name", "datatype"})>>,
    <<DropTable("logs_attribute_keys")>>),
  Migration(2,
    <<CreateDistributed("distributed_logs_attribute_keys", "logs_attribute_keys", {"name",
       "datatype"})>>,
    <<DropTable("distributed_logs_attribute_keys")>>),
  Migration(3,
    <<CreateTable("logs_resource_keys", {"name", "datatype"})>>,
    <<DropTable("logs_resource_keys")>>),
  Migration(4,
    <<CreateDistributed("distributed_logs_resource_keys", "logs_resource_keys", {"name",
       "datatype"})>>,
    <<>>),
  Migration(5,
    <<CreateTable("usage", UsageColumns)>>,
    <<DropTable("usage")>>)>>

CustomRetentionLogs6_8 ==
  <<Migration(6,
    <<CreateDistributed("distributed_usage", "usage", UsageColumns)>>,
    <<DropTable("distributed_usage")>>),
  Migration(7,
    <<CreateTable("logs_v2", LogsV2Columns)>>,
    <<DropTable("logs_v2")>>),
  Migration(8,
    <<CreateDistributed("distributed_logs_v2", "logs_v2", LogsV2Columns)>>,
    <<DropTable("distributed_logs_v2")>>)>>

CustomRetentionLogs9 ==
  <<Migration(9,
    <<CreateTable("logs_v2_resource", LogsV2ResourceColumns),
      CreateDistributed("distributed_logs_v2_resource", "logs_v2_resource",
         LogsV2ResourceColumns)>>,
    <<DropTable("logs_v2_resource"), DropTable("distributed_logs_v2_resource")>>)>>

CustomRetentionLogsMigrations ==
  CustomRetentionLogs1_5
  \o CustomRetentionLogs6_8
  \o CustomRetentionLogs9

Logs1000_1001 ==
  <<Migration(1000,
    <<DropTable("attribute_keys_bool_final_mv"),
      DropTable("attribute_keys_float64_final_mv"),
      DropTable("attribute_keys_string_final_mv"),
      DropTable("resource_keys_string_final_mv")>>,
    <<CreateView("attribute_keys_bool_final_mv", "logs_attribute_keys", {"name", "datatype"},
       "logs_v2"),
      CreateView("attribute_keys_float64_final_mv", "logs_attribute_keys", {"name", "datatype"},
         "logs_v2"),
      CreateView("attribute_keys_string_final_mv", "logs_attribute_keys", {"name", "datatype"},
         "logs_v2"),
      CreateView("resource_keys_string_final_mv", "logs_resource_keys", {"name", "datatype"},
         "logs_v2")>>),
  Migration(1001,
    <<CreateTable("tag_attributes_v2", TagAttributesV2Columns),
      CreateDistributed("distributed_tag_attributes_v2", "tag_attributes_v2",
         TagAttributesV2Columns)>>,
    <<>>)>>

Logs1002_1004 ==
  <<Migration(1002,
    <<AddColumn("logs_attribute_keys", "timestamp"),
      AddColumn("logs_resource_keys", "timestamp"),
      ModifyTTL("logs_attribute_keys", FALSE), ModifyTTL("logs_resource_keys", FALSE)>>,
    <<>>),
  Migration(1003,
    <<MaterializeColumn("logs_attribute_keys", "timestamp"),
      MaterializeColumn("logs_resource_keys", "timestamp")>>,
    <<>>),
  Migration(1004,
    <<AddColumn("logs_v2", "resource"), AddColumn("distributed_logs_v2", "resource")>>,
    <<DropColumn("distributed_logs_v2", "resource"), DropColumn("logs_v2", "resource")>>)>>

LogsMigrations ==
  Logs1000_1001
  \o Logs1002_1004

LogsV22005UpA ==
  <<CreateTable("signoz_metadata.json_path_types", JsonPathTypesColumns),
    CreateDistributed("signoz_metadata.distributed_json_path_types",
       "signoz_metadata.json_path_types", JsonPathTypesColumns),
    CreateTable("signoz_metadata.json_promoted_paths", {"path", "created_at"}),
    CreateDistributed("signoz_metadata.distributed_json_promoted_paths",
       "signoz_metadata.json_promoted_paths", {"path", "created_at"}),
    ModifySettings("logs_v2"), AddColumn("logs_v2", "body_json"),
    AddColumn("distributed_logs_v2", "body_json"),
    AddColumn("logs_v2", "body_json_promoted"),
    AddColumn("distributed_logs_v2", "body_json_promoted"),
    InsertInto("signoz_metadata.distributed_json_promoted_paths"),
    AddIndex("logs_v2", "body_json_promoted_message_String_tokenbf_v1")>>

LogsV22005UpB ==
  <<AddIndex("logs_v2", "body_json_promoted_message_String_ngrambf_v1")>>

LogsV22005Down ==
  <<DropIndex("logs_v2", "body_json_promoted_message_String_ngrambf_v1"),
    DropIndex("logs_v2", "body_json_promoted_message_String_tokenbf_v1"),
    DropColumn("logs_v2", "body_json_promoted"), DropColumn("logs_v2", "body_json"),
    DropTable("signoz_metadata.json_path_types"),
       DropTable("signoz_metadata.distributed_json_path_types"),
    DropTable("signoz_metadata.json_promoted_paths"),
       DropTable("signoz_metadata.distributed_json_promoted_paths")>>

LogsV21000_1001 ==
  <<Migration(1000,
    <<DropTable("attribute_keys_bool_final_mv"),
      DropTable("attribute_keys_float64_final_mv"),
      DropTable("attribute_keys_string_final_mv"),
      DropTable("resource_keys_string_final_mv")>>,
    <<CreateView("attribute_keys_bool_final_mv", "logs_attribute_keys", {"name", "datatype"},
       "logs_v2"),
      CreateView("attribute_keys_float64_final_mv", "logs_attribute_keys", {"name", "datatype"},
         "logs_v2"),
      CreateView("attribute_keys_string_final_mv", "logs_attribute_keys", {"name", "datatype"},
         "logs_v2"),
      CreateView("resource_keys_string_final_mv", "logs_resource_keys", {"name", "datatype"},
         "logs_v2")>>),
  Migration(1001,
    <<CreateTable("tag_attributes_v2", TagAttributesV2Columns),
      CreateDistributed("distributed_tag_attributes_v2", "tag_attributes_v2",
         TagAttributesV2Columns)>>,
    <<>>)>>

LogsV21002_1004 ==
  <<Migration(1002,
    <<AddColumn("logs_attribute_keys", "timestamp"),
      AddColumn("logs_resource_keys", "timestamp"),
      ModifyTTL("logs_attribute_keys", FALSE), ModifyTTL("logs_resource_keys", FALSE)>>,
    <<>>),
  Migration(1003,
    <<MaterializeColumn("logs_attribute_keys", "timestamp"),
      MaterializeColumn("logs_resource_keys", "timestamp")>>,
    <<>>),
  Migration(1004,
    <<AddColumn("logs_v2", "resource"), AddColumn("distributed_logs_v2", "resource")>>,
    <<DropColumn("distributed_logs_v2", "resource"), DropColumn("logs_v2", "resource")>>)>>

LogsMigrationsV2 ==
  LogsV21000_1001
  \o LogsV21002_1004
  \o <<Migration(2005, LogsV22005UpA \o LogsV22005UpB,
      LogsV22005Down)>>
=============================================================================
