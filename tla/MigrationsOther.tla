--------------------------- MODULE MigrationsOther ---------------------------
(****************************************************************************)
(* The migrations of the schema migrator for the migration records of every  *)
(* database and for the metadata, analytics and meter databases, in the      *)
(* order in which they run.  Column lists that several tables share are      *)
(* named once.                                                               *)
(****************************************************************************)
EXTENDS SchemaOps

SchemaMigrationsV2Columns ==
  {"migration_id", "status", "error", "created_at", "updated_at"}

AttributesMetadataColumns ==
  {"unix_milli", "data_source", "resource_fingerprint", "attrs_fingerprint",
   "resource_attributes", "attributes"}

SamplesColumns ==
  {"temporality", "metric_name", "description", "unit", "type", "is_monotonic",
   "labels", "fingerprint", "unix_milli", "value"}

SamplesAgg1dColumns ==
  {"temporality", "metric_name", "description", "unit", "type", "is_monotonic",
   "labels", "fingerprint", "unix_milli", "last", "min", "max", "sum", "count"}

(* Faulty: the distributed table comes before its local table. *)
V2MigrationTablesLogsSwapped ==
  <<Migration(1,
    <<CreateDistributed("distributed_schema_migrations_v2", "schema_migrations_v2",
        SchemaMigrationsV2Columns)>>,
    <<>>),
  Migration(2,
    <<CreateTable("schema_migrations_v2", SchemaMigrationsV2Columns)>>,
    <<>>)>>

V2MigrationTablesLogs ==
  <<Migration(1,
    <<CreateTable("schema_migrations_v2", SchemaMigrationsV2Columns)>>,
    <<>>),
  Migration(2,
    <<CreateDistributed("distributed_schema_migrations_v2", "schema_migrations_v2",
       SchemaMigrationsV2Columns)>>,
    <<>>)>>

V2MigrationTablesTraces ==
  <<Migration(3,
    <<CreateTable("schema_migrations_v2", SchemaMigrationsV2Columns)>>,
    <<>>),
  Migration(4,
    <<CreateDistributed("distributed_schema_migrations_v2", "schema_migrations_v2",
       SchemaMigrationsV2Columns)>>,
    <<>>)>>

V2MigrationTablesMetrics ==
  <<Migration(5,
    <<CreateTable("schema_migrations_v2", SchemaMigrationsV2Columns)>>,
    <<>>),
  Migration(6,
    <<CreateDistributed("distributed_schema_migrations_v2", "schema_migrations_v2",
       SchemaMigrationsV2Columns)>>,
    <<>>)>>

V2MigrationTablesMetadata ==
  <<Migration(7,
    <<CreateTable("schema_migrations_v2", SchemaMigrationsV2Columns)>>,
    <<>>),
  Migration(8,
    <<CreateDistributed("distributed_schema_migrations_v2", "schema_migrations_v2",
       SchemaMigrationsV2Columns)>>,
    <<>>)>>

V2MigrationTablesAnalytics ==
  <<Migration(9,
    <<CreateTable("schema_migrations_v2", SchemaMigrationsV2Columns),
      CreateDistributed("distributed_schema_migrations_v2", "schema_migrations_v2",
         SchemaMigrationsV2Columns)>>,
    <<>>)>>

V2MigrationTablesMeter ==
  <<Migration(10,
    <<CreateTable("schema_migrations_v2", SchemaMigrationsV2Columns),
      CreateDistributed("distributed_schema_migrations_v2", "schema_migrations_v2",
         SchemaMigrationsV2Columns)>>,
    <<>>)>>

MetadataMigrations ==
  <<Migration(1000,
    <<CreateTable("attributes_metadata", AttributesMetadataColumns),
      CreateDistributed("distributed_attributes_metadata", "attributes_metadata",
         AttributesMetadataColumns)>>,
    <<DropTable("distributed_attributes_metadata"), DropTable("attributes_metadata")>>)>>

AnalyticsMigrations ==
  <<Migration(1,
    <<CreateTable("rule_state_history_v0", {"_retention_days", "rule_id", "rule_name",
       "overall_state", "overall_state_changed", "state", "state_changed", "unix_milli",
          "fingerprint", "value", "labels"}),
      CreateDistributed("distributed_rule_state_history_v0", "rule_state_history_v0", {"rule_id",
         "rule_name", "overall_state", "overall_state_changed", "state", "state_changed",
            "unix_milli", "fingerprint", "value", "labels"})>>,
    <<DropTable("distributed_rule_state_history_v0"), DropTable("rule_state_history_v0")>>)>>

Meter1_4 ==
  <<Migration(1,
    <<CreateTable("samples", SamplesColumns)>>,
    <<DropTable("samples")>>),
  Migration(2,
    <<CreateDistributed("distributed_samples", "samples", SamplesColumns)>>,
    <<DropTable("distributed_samples")>>),
  Migration(3,
    <<CreateTable("samples_agg_1d", SamplesAgg1dColumns)>>,
    <<DropTable("samples_agg_1d")>>),
  Migration(4,
    <<CreateDistributed("distributed_samples_agg_1d", "samples_agg_1d", SamplesAgg1dColumns)>>,
    <<DropTable("distributed_samples_agg_1d")>>)>>

Meter5 ==
  <<Migration(5,
    <<CreateView("samples_agg_1d_mv", "samples_agg_1d", SamplesAgg1dColumns, "samples")>>,
    <<DropTable("samples_agg_1d_mv")>>)>>

MeterMigrations ==
  Meter1_4
  \o Meter5
=============================================================================
