-------------------------- MODULE MigrationsMetrics --------------------------
(****************************************************************************)
(* The migrations of the schema migrator for the metrics database, in the    *)
(* order in which they run.  Column lists that several tables share are      *)
(* named once.                                                               *)
(****************************************************************************)
EXTENDS SchemaOps

SamplesV2Columns ==
  {"metric_name", "fingerprint", "timestamp_ms", "value"}

TimeSeriesV2Columns ==
  {"metric_name", "fingerprint", "timestamp_ms", "labels", "temporality", "description",
   "unit", "type", "is_monotonic"}

ExpHistColumns ==
  {"env", "temporality", "metric_name", "fingerprint", "unix_milli", "count", "sum",
   "min", "max", "sketch"}

SamplesV4Columns ==
  {"env", "temporality", "metric_name", "fingerprint", "unix_milli", "value"}

TimeSeriesV4Columns ==
  {"env", "temporality", "metric_name", "description", "unit", "type", "is_monotonic",
   "fingerprint", "unix_milli", "labels"}

SamplesV4Agg5mColumns ==
  {"env", "temporality", "metric_name", "fingerprint", "unix_milli", "last", "min",
   "max", "sum", "count"}

UsageColumns ==
  {"tenant", "collector_id", "exporter_id", "timestamp", "data"}

MetadataColumns ==
  {"temporality", "metric_name", "description", "unit", "type", "is_monotonic",
   "attr_name", "attr_type", "attr_datatype", "attr_string_value",
   "first_reported_unix_milli", "last_reported_unix_milli"}

TimeSeriesV46hrsMvSeparateAttrsColumns ==
  {"env", "temporality", "metric_name", "description", "unit", "type", "is_monotonic",
   "fingerprint", "unix_milli", "labels", "attrs", "scope_attrs", "resource_attrs"}

(* What the views over the time series write since they carry __normalized. *)
NormalizedColumns == TimeSeriesV4Columns \cup {"__normalized"}

SeparateAttrsColumns == TimeSeriesV46hrsMvSeparateAttrsColumns \cup {"__normalized"}

UpdatedMetadataColumns ==
  {"metric_name", "temporality", "is_monotonic", "type", "description", "unit",
   "created_at"}

SquashedMetrics28UpA ==
  <<CreateTable("samples_v4_agg_5m", SamplesV4Agg5mColumns),
    CreateTable("samples_v4_agg_30m", SamplesV4Agg5mColumns),
    CreateView("samples_v4_agg_5m_mv", "samples_v4_agg_5m", SamplesV4Agg5mColumns, "samples_v4"),
    CreateView("samples_v4_agg_30m_mv", "samples_v4_agg_30m", SamplesV4Agg5mColumns,
       "samples_v4_agg_5m"),
    CreateDistributed("distributed_samples_v4_agg_5m", "samples_v4_agg_5m", SamplesV4Agg5mColumns)>>

SquashedMetrics28UpB ==
  <<CreateDistributed("distributed_samples_v4_agg_30m", "samples_v4_agg_30m",
     SamplesV4Agg5mColumns),
    CreateTable("time_series_v4_1week", TimeSeriesV4Columns),
    CreateView("time_series_v4_1week_mv", "time_series_v4_1week", TimeSeriesV4Columns,
       "time_series_v4_1day"),
    CreateDistributed("distributed_time_series_v4_1week", "time_series_v4_1week", {"env",
       "temporality", "metric_name", "description"})>>

SquashedMetrics28Down ==
  <<DropTable("samples_v4_agg_5m"), DropTable("samples_v4_agg_5m_mv"),
    DropTable("samples_v4_agg_30m"), DropTable("samples_v4_agg_30m_mv"),
    DropTable("distributed_samples_v4_agg_5m"),
    DropTable("distributed_samples_v4_agg_30m"), DropTable("time_series_v4_1week"),
    DropTable("distributed_time_series_v4_1week"), DropTable("time_series_v4_1week_mv")>>

SquashedMetrics1_4 ==
  <<Migration(1,
    <<CreateTable("samples_v2", SamplesV2Columns)>>,
    <<DropTable("samples_v2")>>),
  Migration(2,
    <<CreateDistributed("distributed_samples_v2", "samples_v2", SamplesV2Columns)>>,
    <<DropTable("distributed_samples_v2")>>),
  Migration(3,
    <<CreateTable("time_series_v2", TimeSeriesV2Columns)>>,
    <<>>),
  Migration(4,
    <<CreateDistributed("distributed_time_series_v2", "time_series_v2", TimeSeriesV2Columns)>>,
    <<>>)>>

SquashedMetrics5_8 ==
  <<Migration(5,
    <<CreateTable("exp_hist", ExpHistColumns)>>,
    <<DropTable("exp_hist")>>),
  Migration(6,
    <<CreateDistributed("distributed_exp_hist", "exp_hist", ExpHistColumns)>>,
    <<DropTable("distributed_exp_hist")>>),
  Migration(7,
    <<CreateTable("samples_v4", SamplesV4Columns)>>,
    <<DropTable("samples_v4")>>),
  Migration(8,
    <<CreateDistributed("distributed_samples_v4", "samples_v4", SamplesV4Columns)>>,
    <<DropTable("distributed_samples_v4")>>)>>

SquashedMetrics9_12 ==
  <<Migration(9,
    <<CreateTable("time_series_v4", TimeSeriesV4Columns)>>,
    <<DropTable("time_series_v4")>>),
  Migration(10,
    <<CreateDistributed("distributed_time_series_v4", "time_series_v4", TimeSeriesV4Columns)>>,
    <<DropTable("distributed_time_series_v4")>>),
  Migration(11,
    <<CreateTable("time_series_v4_6hrs", TimeSeriesV4Columns)>>,
    <<DropTable("time_series_v4_6hrs")>>),
  Migration(12,
    <<CreateDistributed("distributed_time_series_v4_6hrs", "time_series_v4_6hrs",
       TimeSeriesV4Columns)>>,
    <<DropTable("distributed_time_series_v4_6hrs")>>)>>

SquashedMetrics13_16 ==
  <<Migration(13,
    <<CreateTable("time_series_v4_1day", TimeSeriesV4Columns)>>,
    <<DropTable("time_series_v4_1day")>>),
  Migration(14,
    <<CreateDistributed("distributed_time_series_v4_1day", "time_series_v4_1day",
       TimeSeriesV4Columns)>>,
    <<DropTable("distributed_time_series_v4_1day")>>),
  Migration(15,
    <<CreateTable("time_series_v4_1week", TimeSeriesV4Columns)>>,
    <<DropTable("time_series_v4_1week")>>),
  Migration(16,
    <<CreateDistributed("distributed_time_series_v4_1week", "time_series_v4_1week",
       TimeSeriesV4Columns)>>,
    <<DropTable("distributed_time_series_v4_1week")>>)>>

SquashedMetrics17_19 ==
  <<Migration(17,
    <<CreateView("time_series_v4_6hrs_mv", "time_series_v4_6hrs", TimeSeriesV4Columns,
       "time_series_v4")>>,
    <<DropTable("time_series_v4_6hrs_mv")>>),
  Migration(18,
    <<CreateView("time_series_v4_1day_mv", "time_series_v4_1day", TimeSeriesV4Columns,
       "time_series_v4")>>,
    <<DropTable("time_series_v4_1day_mv")>>),
  Migration(19,
    <<CreateView("time_series_v4_1week_mv", "time_series_v4_1week", TimeSeriesV4Columns,
       "time_series_v4_1day")>>,
    <<DropTable("time_series_v4_1week_mv")>>)>>

SquashedMetrics20_23 ==
  <<Migration(20,
    <<CreateTable("samples_v4_agg_5m", SamplesV4Agg5mColumns)>>,
    <<DropTable("samples_v4_agg_5m")>>),
  Migration(21,
    <<CreateTable("samples_v4_agg_30m", SamplesV4Agg5mColumns)>>,
    <<DropTable("samples_v4_agg_30m")>>),
  Migration(22,
    <<CreateView("samples_v4_agg_5m_mv", "samples_v4_agg_5m", {}, "samples_v4")>>,
    <<DropTable("samples_v4_agg_5m_mv")>>),
  Migration(23,
    <<CreateView("samples_v4_agg_30m_mv", "samples_v4_agg_30m", {}, "samples_v4_agg_5m")>>,
    <<DropTable("samples_v4_agg_30m_mv")>>)>>

SquashedMetrics24_27 ==
  <<Migration(24,
    <<CreateDistributed("distributed_samples_v4_agg_5m", "samples_v4_agg_5m",
       SamplesV4Agg5mColumns)>>,
    <<DropTable("distributed_samples_v4_agg_5m")>>),
  Migration(25,
    <<CreateDistributed("distributed_samples_v4_agg_30m", "samples_v4_agg_30m",
       SamplesV4Agg5mColumns)>>,
    <<DropTable("distributed_samples_v4_agg_30m")>>),
  Migration(26,
    <<CreateTable("usage", UsageColumns)>>,
    <<DropTable("usage")>>),
  Migration(27,
    <<CreateDistributed("distributed_usage", "usage", UsageColumns)>>,
    <<DropTable("distributed_usage")>>)>>

SquashedMetricsMigrations ==
  SquashedMetrics1_4
  \o SquashedMetrics5_8
  \o SquashedMetrics9_12
  \o SquashedMetrics13_16
  \o SquashedMetrics17_19
  \o SquashedMetrics20_23
  \o SquashedMetrics24_27
  \o <<Migration(28, SquashedMetrics28UpA \o SquashedMetrics28UpB,
      SquashedMetrics28Down)>>

Metrics1000UpA ==
  <<AddColumn("time_series_v4", "attrs"), AddColumn("time_series_v4", "scope_attrs"),
    AddColumn("time_series_v4", "resource_attrs"),
    AddColumn("distributed_time_series_v4", "attrs"),
    AddColumn("distributed_time_series_v4", "scope_attrs"),
    AddColumn("distributed_time_series_v4", "resource_attrs"),
    AddColumn("time_series_v4_6hrs", "attrs"),
    AddColumn("time_series_v4_6hrs", "scope_attrs"),
    AddColumn("time_series_v4_6hrs", "resource_attrs"),
    AddColumn("distributed_time_series_v4_6hrs", "attrs"),
    AddColumn("distributed_time_series_v4_6hrs", "scope_attrs")>>

Metrics1000UpB ==
  <<AddColumn("distributed_time_series_v4_6hrs", "resource_attrs"),
    AddColumn("time_series_v4_1day", "attrs"),
    AddColumn("time_series_v4_1day", "scope_attrs"),
    AddColumn("time_series_v4_1day", "resource_attrs"),
    AddColumn("distributed_time_series_v4_1day", "attrs"),
    AddColumn("distributed_time_series_v4_1day", "scope_attrs"),
    AddColumn("distributed_time_series_v4_1day", "resource_attrs"),
    AddColumn("time_series_v4_1week", "attrs"),
    AddColumn("time_series_v4_1week", "scope_attrs"),
    AddColumn("time_series_v4_1week", "resource_attrs"),
    AddColumn("distributed_time_series_v4_1week", "attrs")>>

Metrics1000UpC ==
  <<AddColumn("distributed_time_series_v4_1week", "scope_attrs"),
    AddColumn("distributed_time_series_v4_1week", "resource_attrs"),
    CreateTable("metadata", MetadataColumns),
    CreateDistributed("distributed_metadata", "metadata", MetadataColumns),
    CreateView("time_series_v4_6hrs_mv_separate_attrs", "time_series_v4_6hrs",
       TimeSeriesV46hrsMvSeparateAttrsColumns, "time_series_v4"),
    CreateView("time_series_v4_1day_mv_separate_attrs", "time_series_v4_1day",
       TimeSeriesV46hrsMvSeparateAttrsColumns, "time_series_v4_6hrs")>>

Metrics1000UpD ==
  <<CreateView("time_series_v4_1week_mv_separate_attrs", "time_series_v4_1week",
     TimeSeriesV46hrsMvSeparateAttrsColumns, "time_series_v4_1day")>>

Metrics1001UpA ==
  <<AddColumn("time_series_v4", "__normalized"),
    AddColumn("distributed_time_series_v4", "__normalized"),
    AddColumn("time_series_v4_6hrs", "__normalized"),
    AddColumn("distributed_time_series_v4_6hrs", "__normalized"),
    AddColumn("time_series_v4_1day", "__normalized"),
    AddColumn("distributed_time_series_v4_1day", "__normalized"),
    AddColumn("time_series_v4_1week", "__normalized"),
    AddColumn("distributed_time_series_v4_1week", "__normalized"),
    ModifyQuery("time_series_v4_6hrs_mv", NormalizedColumns, "time_series_v4"),
    ModifyQuery("time_series_v4_1day_mv", NormalizedColumns, "time_series_v4_6hrs"),
    ModifyQuery("time_series_v4_1week_mv", NormalizedColumns, "time_series_v4_1day")>>

Metrics1001UpB ==
  <<ModifyQuery("time_series_v4_6hrs_mv_separate_attrs", SeparateAttrsColumns, "time_series_v4"),
    ModifyQuery("time_series_v4_1day_mv_separate_attrs", SeparateAttrsColumns,
       "time_series_v4_6hrs"),
    ModifyQuery("time_series_v4_1week_mv_separate_attrs", SeparateAttrsColumns,
       "time_series_v4_1day")>>

Metrics1002_1003 ==
  <<Migration(1002,
    <<CreateTable("updated_metadata", UpdatedMetadataColumns),
      CreateDistributed("distributed_updated_metadata", "updated_metadata",
         UpdatedMetadataColumns)>>,
    <<>>),
  Migration(1003,
    <<AddColumn("samples_v4", "flags"), AddColumn("distributed_samples_v4", "flags"),
      AddColumn("exp_hist", "flags"), AddColumn("distributed_exp_hist", "flags"),
      ModifyQuery("samples_v4_agg_5m_mv", SamplesV4Agg5mColumns, "samples_v4"),
      ModifyQuery("samples_v4_agg_30m_mv", SamplesV4Agg5mColumns, "samples_v4_agg_5m")>>,
    <<>>)>>

Metrics1004_1006 ==
  <<Migration(1004,
    <<ModifyQuery("time_series_v4_6hrs_mv", SeparateAttrsColumns, "time_series_v4"),
      ModifyQuery("time_series_v4_1day_mv", SeparateAttrsColumns, "time_series_v4_6hrs"),
      ModifyQuery("time_series_v4_1week_mv", SeparateAttrsColumns, "time_series_v4_1day")>>,
    <<>>),
  Migration(1005,
    <<DropTable("time_series_v4_6hrs_mv_separate_attrs"),
      DropTable("time_series_v4_1day_mv_separate_attrs"),
      DropTable("time_series_v4_1week_mv_separate_attrs")>>,
    <<>>),
  Migration(1006,
    <<DropIndex("time_series_v4", "idx_labels"),
      DropIndex("time_series_v4_6hrs", "idx_labels"),
      DropIndex("time_series_v4_1day", "idx_labels"),
      DropIndex("time_series_v4_1week", "idx_labels")>>,
    <<>>)>>

MetricsMigrations ==
  <<Migration(1000, Metrics1000UpA \o Metrics1000UpB \o Metrics1000UpC \o Metrics1000UpD,
      <<>>)>>
  \o <<Migration(1001, Metrics1001UpA \o Metrics1001UpB,
      <<>>)>>
  \o Metrics1002_1003
  \o Metrics1004_1006
=============================================================================
