-------------------------- MODULE MCSchemaMigrator --------------------------
(* The migrations of the repository, and the deployments they are checked in. *)
EXTENDS SchemaMigrator

L == INSTANCE MigrationsLogs
T == INSTANCE MigrationsTraces
M == INSTANCE MigrationsMetrics
O == INSTANCE MigrationsOther

List_(db, migrations) == [db |-> db, migs |-> migrations]

MCMigrations ==
  [V2MigrationTablesLogs         |-> List_("signoz_logs", O!V2MigrationTablesLogs),
   V2MigrationTablesTraces       |-> List_("signoz_traces", O!V2MigrationTablesTraces),
   V2MigrationTablesMetrics      |-> List_("signoz_metrics", O!V2MigrationTablesMetrics),
   V2MigrationTablesMetadata     |-> List_("signoz_metadata", O!V2MigrationTablesMetadata),
   V2MigrationTablesAnalytics    |-> List_("signoz_analytics", O!V2MigrationTablesAnalytics),
   V2MigrationTablesMeter        |-> List_("signoz_meter", O!V2MigrationTablesMeter),
   CustomRetentionLogsMigrations |-> List_("signoz_logs", L!CustomRetentionLogsMigrations),
   SquashedMetricsMigrations     |-> List_("signoz_metrics", M!SquashedMetricsMigrations),
   SquashedTracesMigrations      |-> List_("signoz_traces", T!SquashedTracesMigrations),
   TracesMigrations              |-> List_("signoz_traces", T!TracesMigrations),
   LogsMigrations                |-> List_("signoz_logs", L!LogsMigrations),
   LogsMigrationsV2              |-> List_("signoz_logs", L!LogsMigrationsV2),
   MetricsMigrations             |-> List_("signoz_metrics", M!MetricsMigrations),
   MetadataMigrations            |-> List_("signoz_metadata", O!MetadataMigrations),
   AnalyticsMigrations           |-> List_("signoz_analytics", O!AnalyticsMigrations),
   MeterMigrations               |-> List_("signoz_meter", O!MeterMigrations)]

Command(s, d, v) == [sync |-> s, down |-> d, versions |-> v]

(* Every list of the repository on a single server, no faults. *)
Whole(v2) ==
  [lists |-> DOMAIN MCMigrations, logsV2 |-> v2, hosts |-> {"h1"}, home |-> "h1",
   development |-> FALSE, sharded |-> FALSE, maxRuns |-> 2, maxFaults |-> 0,
   commands |-> {Command(TRUE, FALSE, {}), Command(FALSE, FALSE, {})}]

(* The logs lists, with a fault, rollbacks and selected versions. *)
Logs(v2, on, runs_) ==
  [lists |-> {"V2MigrationTablesLogs", "CustomRetentionLogsMigrations", "LogsMigrations",
              "LogsMigrationsV2"},
   logsV2 |-> v2, hosts |-> on, home |-> "h1",
   development |-> FALSE, sharded |-> FALSE, maxRuns |-> runs_, maxFaults |-> 1,
   commands |-> {Command(TRUE, FALSE, {}), Command(FALSE, FALSE, {}),
                 Command(TRUE, TRUE, {1000, 1003, 2005}), Command(FALSE, TRUE, {1003, 2005})}]

(* The short lists of the meter database, on replicas with two faults (a          *)
(* statement whose answer is lost leaves a queue, which then cannot be read), on *)
(* shards with one, and in development with two.                                 *)
Meter(on, dev, shards, faults_) ==
  [lists |-> {"V2MigrationTablesMeter", "MeterMigrations"},
   logsV2 |-> FALSE, hosts |-> on, home |-> "h1",
   development |-> dev, sharded |-> shards, maxRuns |-> 2, maxFaults |-> faults_,
   commands |-> {Command(TRUE, FALSE, {}), Command(FALSE, FALSE, {})}]

Two == {"h1", "h2"}

MCPlans ==
  {Whole(FALSE), Whole(TRUE), Logs(FALSE, {"h1"}, 3), Logs(TRUE, Two, 2),
   Meter(Two, FALSE, FALSE, 2), Meter(Two, FALSE, TRUE, 1), Meter({"h1"}, TRUE, FALSE, 2)}
=============================================================================
