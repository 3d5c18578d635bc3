-------------------------- MODULE MigrationsTraces --------------------------
(****************************************************************************)
(* The migrations of the schema migrator for the traces database, in the     *)
(* order in which they run.  Column lists that several tables share are      *)
(* named once.                                                               *)
(****************************************************************************)
EXTENDS SchemaOps

SignozIndexV2Columns ==
  {"timestamp", "traceID", "spanID", "parentSpanID", "serviceName", "name", "kind",
   "durationNano", "statusCode", "externalHttpMethod", "externalHttpUrl", "dbSystem",
   "dbName", "dbOperation", "peerService", "events", "httpMethod", "httpUrl",
   "httpRoute", "httpHost", "msgSystem", "msgOperation", "hasError", "rpcSystem",
   "rpcService", "rpcMethod", "responseStatusCode", "stringTagMap", "numberTagMap",
   "boolTagMap", "resourceTagsMap", "isRemote", "statusMessage", "statusCodeString",
   "spanKind"}

DurationSortColumns ==
  {"timestamp", "traceID", "spanID", "parentSpanID", "serviceName", "name", "kind",
   "durationNano", "statusCode", "httpMethod", "httpUrl", "httpRoute", "httpHost",
   "hasError", "rpcSystem", "rpcService", "rpcMethod", "responseStatusCode",
   "stringTagMap", "numberTagMap", "boolTagMap", "isRemote", "statusMessage",
   "statusCodeString", "spanKind"}

SignozErrorIndexV2Columns ==
  {"timestamp", "errorID", "groupID", "traceID", "spanID", "serviceName",
   "exceptionType", "exceptionMessage", "exceptionStacktrace", "exceptionEscaped",
   "resourceTagsMap"}

SignozSpansColumns ==
  {"timestamp", "traceID", "model"}

DependencyGraphMinutesV2Columns ==
  {"src", "dest", "duration_quantiles_state", "error_count", "total_count", "timestamp",
   "deployment_environment", "k8s_cluster_name", "k8s_namespace_name"}

UsageExplorerColumns ==
  {"timestamp", "service_name", "count"}

TopLevelOperationsColumns ==
  {"name", "serviceName", "time"}

SpanAttributesColumns ==
  {"timestamp", "tagKey", "tagType", "dataType", "stringTagValue", "float64TagValue",
   "isColumn"}

SpanAttributesKeysColumns ==
  {"tagKey", "tagType", "dataType", "isColumn"}

UsageColumns ==
  {"tenant", "collector_id", "exporter_id", "timestamp", "data"}

SignozIndexV3Columns ==
  {"ts_bucket_start", "resource_fingerprint", "timestamp", "trace_id", "span_id",
   "trace_state", "parent_span_id", "flags", "name", "kind", "kind_string",
   "duration_nano", "status_code", "status_message", "status_code_string",
   "attributes_string", "attributes_number", "attributes_bool", "resources_string",
   "events", "links", "response_status_code", "external_http_url", "http_url",
   "external_http_method", "http_method", "http_host", "db_name", "db_operation",
   "has_error", "is_remote", "resource_string_service$$name",
   "attribute_string_http$$route", "attribute_string_messaging$$system",
   "attribute_string_messaging$$operation", "attribute_string_db$$system",
   "attribute_string_rpc$$system", "attribute_string_rpc$$service",
   "attribute_string_rpc$$method", "attribute_string_peer$$service", "traceID",
   "spanID", "parentSpanID", "spanKind", "durationNano", "statusCode", "statusMessage",
   "statusCodeString", "references", "responseStatusCode", "externalHttpUrl", "httpUrl",
   "externalHttpMethod", "httpMethod", "httpHost", "dbName", "dbOperation", "hasError",
   "isRemote", "serviceName", "httpRoute", "msgSystem", "msgOperation", "dbSystem",
   "rpcSystem", "rpcService", "rpcMethod", "peerService"}

TracesV3ResourceColumns ==
  {"labels", "fingerprint", "seen_at_ts_bucket_start"}

TraceSummaryColumns ==
  {"trace_id", "start", "end", "num_spans"}

TagAttributesV2Columns ==
  {"unix_milli", "tag_key", "tag_type", "tag_data_type", "string_value", "number_value"}

SquashedTraces1_2 ==
  <<Migration(1,
    <<CreateTable("signoz_index_v2", SignozIndexV2Columns)>>,
    <<DropTable("signoz_index_v2")>>),
  Migration(2,
    <<CreateDistributed("distributed_signoz_index_v2", "signoz_index_v2", SignozIndexV2Columns)>>,
    <<DropTable("distributed_signoz_index_v2")>>)>>

SquashedTraces3_4 ==
  <<Migration(3,
    <<CreateTable("durationSort", DurationSortColumns)>>,
    <<DropTable("durationSort")>>),
  Migration(4,
    <<CreateView("durationSortMV", "durationSort", DurationSortColumns, "signoz_index_v2")>>,
    <<DropTable("durationSortMV")>>)>>

SquashedTraces5_7 ==
  <<Migration(5,
    <<CreateDistributed("distributed_durationSort", "durationSort", DurationSortColumns)>>,
    <<DropTable("distributed_durationSort")>>),
  Migration(6,
    <<CreateTable("signoz_error_index_v2", SignozErrorIndexV2Columns)>>,
    <<DropTable("signoz_error_index_v2")>>),
  Migration(7,
    <<CreateDistributed("distributed_signoz_error_index_v2", "signoz_error_index_v2",
       SignozErrorIndexV2Columns)>>,
    <<DropTable("distributed_signoz_error_index_v2")>>)>>

SquashedTraces8_11 ==
  <<Migration(8,
    <<CreateTable("signoz_spans", SignozSpansColumns)>>,
    <<DropTable("signoz_spans")>>),
  Migration(9,
    <<CreateDistributed("distributed_signoz_spans", "signoz_spans", SignozSpansColumns)>>,
    <<DropTable("distributed_signoz_spans")>>),
  Migration(10,
    <<CreateTable("dependency_graph_minutes_v2", DependencyGraphMinutesV2Columns)>>,
    <<DropTable("dependency_graph_minutes_v2")>>),
  Migration(11,
    <<CreateView("dependency_graph_minutes_db_calls_mv_v2", "dependency_graph_minutes_v2",
       DependencyGraphMinutesV2Columns, "signoz_index_v2")>>,
    <<DropTable("dependency_graph_minutes_db_calls_mv_v2")>>)>>

SquashedTraces12_14 ==
  <<Migration(12,
    <<CreateView("dependency_graph_minutes_messaging_calls_mv_v2", "dependency_graph_minutes_v2",
       DependencyGraphMinutesV2Columns, "signoz_index_v2")>>,
    <<DropTable("dependency_graph_minutes_messaging_calls_mv_v2")>>),
  Migration(13,
    <<CreateView("dependency_graph_minutes_service_calls_mv_v2", "dependency_graph_minutes_v2",
       DependencyGraphMinutesV2Columns, "signoz_index_v2")>>,
    <<DropTable("dependency_graph_minutes_service_calls_mv_v2")>>),
  Migration(14,
    <<CreateDistributed("distributed_dependency_graph_minutes_v2", "dependency_graph_minutes_v2",
       DependencyGraphMinutesV2Columns)>>,
    <<DropTable("distributed_dependency_graph_minutes_v2")>>)>>

SquashedTraces15_19 ==
  <<Migration(15,
    <<CreateTable("usage_explorer", UsageExplorerColumns)>>,
    <<DropTable("usage_explorer")>>),
  Migration(16,
    <<CreateView("usage_explorer_mv", "usage_explorer", UsageExplorerColumns, "signoz_index_v2")>>,
    <<DropTable("usage_explorer_mv")>>),
  Migration(17,
    <<CreateDistributed("distributed_usage_explorer", "usage_explorer", UsageExplorerColumns)>>,
    <<DropTable("distributed_usage_explorer")>>),
  Migration(18,
    <<CreateTable("top_level_operations", TopLevelOperationsColumns)>>,
    <<DropTable("top_level_operations")>>),
  Migration(19,
    <<CreateDistributed("distributed_top_level_operations", "top_level_operations",
       TopLevelOperationsColumns)>>,
    <<DropTable("distributed_top_level_operations")>>)>>

SquashedTraces20_24 ==
  <<Migration(20,
    <<CreateView("root_operations", "top_level_operations", {"name", "serviceName"},
       "signoz_index_v2")>>,
    <<DropTable("root_operations")>>),
  Migration(21,
    <<CreateView("sub_root_operations", "top_level_operations", {"name", "serviceName"},
       "signoz_index_v2")>>,
    <<DropTable("sub_root_operations")>>),
  Migration(22,
    <<CreateTable("span_attributes", SpanAttributesColumns)>>,
    <<DropTable("span_attributes")>>),
  Migration(23,
    <<CreateDistributed("distributed_span_attributes", "span_attributes", SpanAttributesColumns)>>,
    <<DropTable("distributed_span_attributes")>>),
  Migration(24,
    <<CreateTable("span_attributes_keys", SpanAttributesKeysColumns)>>,
    <<DropTable("span_attributes_keys")>>)>>

SquashedTraces25_27 ==
  <<Migration(25,
    <<CreateDistributed("distributed_span_attributes_keys", "span_attributes_keys",
       SpanAttributesKeysColumns)>>,
    <<DropTable("distributed_span_attributes_keys")>>),
  Migration(26,
    <<CreateTable("usage", UsageColumns)>>,
    <<DropTable("usage")>>),
  Migration(27,
    <<CreateDistributed("distributed_usage", "usage", UsageColumns)>>,
    <<>>)>>

SquashedTracesMigrations ==
  SquashedTraces1_2
  \o SquashedTraces3_4
  \o SquashedTraces5_7
  \o SquashedTraces8_11
  \o SquashedTraces12_14
  \o SquashedTraces15_19
  \o SquashedTraces20_24
  \o SquashedTraces25_27

Traces1000UpA ==
  <<CreateTable("signoz_index_v3", SignozIndexV3Columns)>>

Traces1000UpB ==
  <<CreateDistributed("distributed_signoz_index_v3", "signoz_index_v3", SignozIndexV3Columns),
    CreateTable("traces_v3_resource", TracesV3ResourceColumns),
    CreateDistributed("distributed_traces_v3_resource", "traces_v3_resource",
       TracesV3ResourceColumns)>>

Traces1000UpC ==
  <<CreateTable("trace_summary", TraceSummaryColumns),
    CreateDistributed("distributed_trace_summary", "trace_summary", TraceSummaryColumns),
    CreateView("trace_summary_mv", "trace_summary", {}, "signoz_index_v3"),
    ModifyQuery("root_operations", {"name", "serviceName"}, "signoz_index_v3"),
    ModifyQuery("sub_root_operations", {"name", "serviceName"}, "signoz_index_v3")>>

Traces1000Down ==
  <<DropTable("signoz_index_v3"), DropTable("distributed_signoz_index_v3"),
    DropTable("traces_v3_resource"), DropTable("distributed_traces_v3_resource"),
    DropTable("trace_summary"), DropTable("distributed_trace_summary"),
    DropTable("trace_summary_mv"), ModifyQuery("root_operations", {"name", "serviceName"},
       "signoz_index_v2"),
    ModifyQuery("sub_root_operations", {"name", "serviceName"}, "signoz_index_v2")>>

Traces1005UpA ==
  <<AddColumn("signoz_index_v3", "resource_string_service$$name_exists"),
    AddColumn("signoz_index_v3", "attribute_string_http$$route_exists"),
    AddColumn("signoz_index_v3", "attribute_string_messaging$$system_exists"),
    AddColumn("signoz_index_v3", "attribute_string_messaging$$operation_exists"),
    AddColumn("signoz_index_v3", "attribute_string_db$$system_exists"),
    AddColumn("signoz_index_v3", "attribute_string_rpc$$system_exists"),
    AddColumn("signoz_index_v3", "attribute_string_rpc$$service_exists"),
    AddColumn("signoz_index_v3", "attribute_string_rpc$$method_exists"),
    AddColumn("signoz_index_v3", "attribute_string_peer$$service_exists"),
    AddColumn("distributed_signoz_index_v3", "resource_string_service$$name_exists"),
    AddColumn("distributed_signoz_index_v3", "attribute_string_http$$route_exists"),
    AddColumn("distributed_signoz_index_v3", "attribute_string_messaging$$system_exists"),
    AddColumn("distributed_signoz_index_v3", "attribute_string_messaging$$operation_exists"),
    AddColumn("distributed_signoz_index_v3", "attribute_string_db$$system_exists")>>

Traces1005UpB ==
  <<AddColumn("distributed_signoz_index_v3", "attribute_string_rpc$$system_exists"),
    AddColumn("distributed_signoz_index_v3", "attribute_string_rpc$$service_exists"),
    AddColumn("distributed_signoz_index_v3", "attribute_string_rpc$$method_exists"),
    AddColumn("distributed_signoz_index_v3", "attribute_string_peer$$service_exists")>>

Traces1005Down ==
  <<DropColumn("distributed_signoz_index_v3", "resource_string_service$$name_exists"),
    DropColumn("distributed_signoz_index_v3", "attribute_string_http$$route_exists"),
    DropColumn("distributed_signoz_index_v3", "attribute_string_messaging$$system_exists"),
    DropColumn("distributed_signoz_index_v3", "attribute_string_messaging$$operation_exists"),
    DropColumn("distributed_signoz_index_v3", "attribute_string_db$$system_exists"),
    DropColumn("distributed_signoz_index_v3", "attribute_string_rpc$$system_exists"),
    DropColumn("distributed_signoz_index_v3", "attribute_string_rpc$$service_exists"),
    DropColumn("distributed_signoz_index_v3", "attribute_string_rpc$$method_exists"),
    DropColumn("distributed_signoz_index_v3", "attribute_string_peer$$service_exists"),
    DropColumn("signoz_index_v3", "resource_string_service$$name_exists"),
    DropColumn("signoz_index_v3", "attribute_string_http$$route_exists"),
    DropColumn("signoz_index_v3", "attribute_string_messaging$$system_exists"),
    DropColumn("signoz_index_v3", "attribute_string_messaging$$operation_exists"),
    DropColumn("signoz_index_v3", "attribute_string_db$$system_exists"),
    DropColumn("signoz_index_v3", "attribute_string_rpc$$system_exists"),
    DropColumn("signoz_index_v3", "attribute_string_rpc$$service_exists"),
    DropColumn("signoz_index_v3", "attribute_string_rpc$$method_exists"),
    DropColumn("signoz_index_v3", "attribute_string_peer$$service_exists")>>

Traces1001_1003 ==
  <<Migration(1001,
    <<DropTable("durationSortMV"), DropTable("distributed_durationSort")>>,
    <<>>),
  Migration(1002,
    <<ModifyQuery("dependency_graph_minutes_db_calls_mv_v2", DependencyGraphMinutesV2Columns,
       "signoz_index_v3"),
      ModifyQuery("dependency_graph_minutes_messaging_calls_mv_v2",
         DependencyGraphMinutesV2Columns, "signoz_index_v3"),
      ModifyQuery("dependency_graph_minutes_service_calls_mv_v2", DependencyGraphMinutesV2Columns,
         "signoz_index_v3")>>,
    <<>>),
  Migration(1003,
    <<DropTable("dependency_graph_minutes_db_calls_mv"),
      DropTable("dependency_graph_minutes_messaging_calls_mv"),
      DropTable("dependency_graph_minutes_service_calls_mv"),
      DropTable("distributed_dependency_graph_minutes")>>,
    <<>>)>>

Traces1004 ==
  <<Migration(1004,
    <<CreateTable("tag_attributes_v2", TagAttributesV2Columns),
      CreateDistributed("distributed_tag_attributes_v2", "tag_attributes_v2",
         TagAttributesV2Columns)>>,
    <<>>)>>

Traces1006_1008 ==
  <<Migration(1006,
    <<AddColumn("signoz_index_v3", "resource"),
      AddColumn("distributed_signoz_index_v3", "resource")>>,
    <<DropColumn("distributed_signoz_index_v3", "resource"),
      DropColumn("signoz_index_v3", "resource")>>),
  Migration(1007,
    <<ModifyQuery("dependency_graph_minutes_service_calls_mv_v2", DependencyGraphMinutesV2Columns,
       "signoz_index_v3"),
      ModifyQuery("sub_root_operations", {"name", "serviceName"}, "signoz_index_v3")>>,
    <<ModifyQuery("dependency_graph_minutes_service_calls_mv_v2", DependencyGraphMinutesV2Columns,
       "signoz_index_v3"),
      ModifyQuery("sub_root_operations", {"name", "serviceName"}, "signoz_index_v3")>>),
  Migration(1008,
    <<AddColumn("span_attributes_keys", "timestamp"),
      ModifyTTL("span_attributes_keys", FALSE)>>,
    <<DropColumn("span_attributes_keys", "timestamp"), DropTTL("span_attributes_keys")>>)>>

TracesMigrations ==
  <<Migration(1000, Traces1000UpA \o Traces1000UpB \o Traces1000UpC,
      Traces1000Down)>>
  \o Traces1001_1003
  \o Traces1004
  \o <<Migration(1005, Traces1005UpA \o Traces1005UpB,
      Traces1005Down)>>
  \o Traces1006_1008
=============================================================================
