# A TLA+ verification of the K-O11y OTel gateway

The repository is an OpenTelemetry Collector distribution: receivers,
processors, exporters, extensions and connectors of its own, registered beside
the upstream ones, an OpAMP agent that restarts the collector with remote
configurations, and a migrator for the ClickHouse schema.  This directory holds
TLA+ modules translated from the Go source, TLC configurations that check them
on small instances, and proofs that TLAPS checks for every instance.
`PROJECT.json` lists the runs, the source lines behind every definition, the
hazards the properties are aimed at, and what was found.

## 1. Inventory

| Component | State it keeps | Operations | What is hard | What makes it correct |
|---|---|---|---|---|
| License guard extension (`extension/licenseguardextension`) | configuration, the fields `valid` and `gracePeriod` under a lock, the validation loop, gauges | create, Start (first check), periodic check, Shutdown, `IsValid`, `IsGracePeriod` | the clock is read outside the lock, ticks get lost, zero values before the first check | a verdict is justified by token and clock, late by a bounded time at most, never undone |
| License gate processor (`processor/licensegateprocessor`) | the guard found on the first batch, drop counter | Start, Consume* | one resolution only, two reads of the guard per batch, start order of the service | no unjustified drop or admission |
| Tail sampler (`processor/signoztailsampler`) | concurrent map of traces, `deleteChan`, decisions, spans | ConsumeTraces, dropTrace, samplingPolicyOnTick, Shutdown | workers race to create and evict, an object outlives its eviction, timer against workers | one eviction token per trace, no span lost or exported twice, everybody gets on |
| Id batcher (`.../internal/idbatcher`) | pipe of batches, pending channel, current batch, stop flag under a read-write lock | add, take first and close current, Stop | closing channels that are in use, waiting under a lock | decision delayed by the configured wait, Stop ends, no send on a closed channel |
| Sampling policies (`evaluator.go`, `internal/sampling`) | configured policies | evaluate, make decision | order of priorities, inverted filters, spans read without the lock | the configured policies decide |
| ClickHouse logs exporter (`exporter/clickhouselogsexporter`) | limiter and fingerprint cache shared by calls; per call a stream, an error group, batches | push, Shutdown, periodic fetches | producers, consumer and closer of a channel, failure of each step, retries, shutdown during calls | acknowledged means stored, no deadlock, no use after close |
| OpAMP agent (`opamp`) | configuration file and its backup, hashes, no-op mode, the watcher | Start, remote configuration, reload with rollback, Stop | messages during Start, failing restarts, blocking error channel | what is reported is in force, the file is the last configuration that started |
| Wrapped collector, service (`signozcol`, `service`) | the running collector, error channel, mutex | Run, Shutdown, Restart, GetState | startup errors, blocking sends under a mutex | one collector at a time, Shutdown returns |
| Kafka receiver (`receiver/signozkafkareceiver`) | claims, offsets, the paused group | consume loop, ConsumeClaim, memory limiter, Shutdown | a pause spans claims, a session ends under a claim, crashes between delivery, mark and commit | no message committed and lost, none twice without a crash, the group is resumed |
| Schema migrator (`cmd/signozschemamigrator`) | records of migrations, the schema, mutations and DDL queue of each host | bootstrap, sync and async, up and down | crash between record and operation, waiting on hosts, order of views and tables | the schema is consistent at every stop, nothing is repeated, a retry completes |
| Span metrics processor (`processor/signozspanmetricsprocessor`) | histograms, caches of dimensions, limits on names | ConsumeTraces, flush, Start, Shutdown | several caches evict independently, resets by temporality, shutdown against flush | every span is counted once, a flush finds the dimensions it needs |
| ClickHouse metrics exporter (`exporter/signozclickhousemetrics`) | cache of time series | push with four writers, Shutdown | writers side by side, one fails and the push is repeated, pushes after close | acknowledged means stored, series are well formed |
| ClickHouse traces exporter (`exporter/clickhousetracesexporter`) | caches of resources and keys | push, Shutdown | the same | the same |
| Meter connector and meter exporter (`connectors/signozmeterconnector`, `exporter/signozclickhousemeter`) | counts by dimension | ConsumeTraces, flush, Shutdown; push | the loop's flush against that of Shutdown, refused pushes | every span is metered once |
| Metadata exporter (`exporter/metadataexporter`) | cache of fingerprints in memory or in Redis, counts from the database, tracked values | push, filters, limits, periodic fetch, Shutdown | consumers share the cache, limits are checked and used in separate calls, the cache is filled before the statement is sent, entries expire in between | what the cache takes for stored has a row, limits hold |
| Other exporters, processors, receivers, utilities | see `PROJECT.json` | | | |

How they interact.  The service starts extensions, then exporters, processors
and receivers, and stops them the other way round.  Receivers call processors
on goroutines of their own; the call goes down the pipeline to the exporter,
whose framework queues and retries.  License gates reach the guard by a call
through the host, and the span metrics processor finds its metrics exporter the
same way, so the service knows no order between those two.  The OpAMP agent
restarts the whole collector.  The migrator is a program of its own; the
collector waits for its records before it starts.

## 2. Modules

| Module | Models | Extends |
|---|---|---|
| `LicenseGuard` | the extension | |
| `LicenseGate` | the gates, the service's start and stop order, workers | `LicenseGuard` |
| `IdBatcher` | the id batcher | |
| `SamplingPolicy` | pure operators: filters, policies, decisions, the constructor's list | |
| `TailSampler` | workers, timer, shutdown, composed with the two above | `IdBatcher`, `SamplingPolicy` |
| `LogsExporter` | calls of `pushLogsData`, producers, consumers, cache, tables, shutdown | |
| `WrappedCollector` | Run, Shutdown, Restart and GetState around one collector | |
| `OpampAgent` | both clients, reload, watcher, the main goroutine | `WrappedCollector` |
| `ConfigRegister` | abstract specification: one configuration in force | |
| `SchemaOps` | pure operators: the operations of migrations on a schema | |
| `MigrationsLogs`, `MigrationsTraces`, `MigrationsMetrics`, `MigrationsOther` | the repository's lists of migrations, as data | `SchemaOps` |
| `SchemaMigrator` | the commands, the records, the hosts | `SchemaOps` |
| `KafkaReceiver` | the consumer, its claims, the memory limiter, the group | |
| `SpanMetrics` | aggregation, caches, flush | |
| `ExporterHelper` | what is common to the exporters below: retries, refused batches and failing statements | |
| `MetricsExporter`, `TracesExporter`, `MeterConnector` | points or spans to rows, writers, caches, shutdown; the connector before the meter exporter | `ExporterHelper` |
| `SpanPipeline` | the composition of the last five | `SpanMetrics`, `MetricsExporter`, `TracesExporter`, `MeterConnector` |
| `MetadataExporter` | pushes, filters, both caches with their limits | |
| `MC*` | instances for TLC | |
| `LicenseGateProofs`, `TailSamplerProofs`, `LogsExporterProofs`, `OpampAgentProofs`, `SchemaMigratorProofs`, `KafkaReceiverProofs`, `SpanPipelineProofs`, `MetadataExporterProofs` | theorems (section 4) | the module of that name |

**License.**  `checkLicense` is split where other goroutines can come in
between: reading the clock (`CheckLicenseRead`), writing the verdict under the
lock (`CheckLicenseWrite`), recording the gauge (`CheckLicenseRecord`), or the
early return for a token that does not verify (`CheckLicenseReject`).  A token
is what `verifyJWT` looks at: signed, has a tenant, has an expiry.  The ticker's
channel holds one tick; a tick that finds it full is lost.  A gate's `Consume`
resolves the guard and is followed by `AskValid`, then `Forward` (which asks
about the grace period, for the warning) or `Drop`.  The three `Consume*`
methods are the same code and one action.  Service order and clock are external.
The configured grace period and interval are assumed to be a natural and a
positive number; the code does not validate them.

**Tail sampler.**  A TraceData object is a pair of a trace id and a generation,
because an evicted object may still be in somebody's hands while the id is in
the map again.  Each atomic access of `processTraces` is an action: `Load`,
`LoadOrStore`, `Add` (batcher and counter), `Post`/`PostFull` (the select),
`TakeVictim` (the blocking receive), `DropTrace`, `AppendSpan` (under the
object's lock).  A request is one span of one trace.  The timer takes a batch
(`OnTick`), closes the current one (`CloseCurrent`, `SendBatch`) and goes
through the ids (`EvalMissing`, `EvalFound`, `Decide`).  Filters read spans
without the lock, between `EvalFound` and `Decide`: a *view* gives each filter
the spans as they were at the beginning or as they are at the end, which covers
all its results since it only asks whether some span hits.  The views are
independent, so the model allows a few more combinations than the order of the
reads does.  `Add` and `DropTrace` each join two accesses (map or channel, and
counter); nobody decides on the counter.

**Logs exporter.**  The variables indexed by request are the locals of
`pushToClickhouse`; `Return` forgets them.  A producer is a log record in
`running` that holds a place in the limiter, and is in `sending` once it has
come to the send.  Fingerprints with their time bucket are `Resources`.  Five
batches are sent; those for logs and resources are told apart, the others are
one.  A context that has ended makes `PrepareBatch` fail.  `Call` is also the
framework's retry.

**OpAMP agent and collector.**  Three goroutines run: main (start, wait, stop),
the client's callback (`Receive` to `ReportEffective`), and the watcher.  The
two that may restart the collector are `Callers`; their place in `reload`
(backup, write, `Shutdown`, `Run`, rollback, second restart) and in the calls of
the wrapped collector is one `pc` each.  A step is what a goroutine does between
two points where another can come in: taking a mutex, a send or receive, the
return of the collector.  The file holds a configuration, not its text; some
configurations do not start.  Faults: the backup, the write or the restore of
the file fails, and the last two leave the file damaged (`"damage"` in
`events`); the collector ends by itself; the hash cannot be taken after a reload
that succeeded (`HashFails`: the configuration runs and is reported as FAILED),
the client refuses the status (`ReportFails`: the handler returns at once), the
file cannot be read for the effective configuration (`EffectiveFails`: APPLIED
is reported and what was sent before stays).  A remote configuration that comes
before `Start` has written the no-op one may be overwritten by it after it was
reported as APPLIED; `early` marks this race, and `AppliedInForce` then allows
the no-op configuration as a whole and no mix.  `errChan` has one place, and a
send that finds it full keeps the mutex; that is what `opamp_stop` runs into.
`ConfigRegister` states what all of this is for: a configuration in force that
only changes in a switch, to one a collector starts with.  While a reload is on
trial (`OnTrial`) the value in force is the backup's, otherwise the file's;
under this mapping `ImplementsRegister` is checked as the abstract specification
itself.

**Schema migrator.**  The lists of migrations are data translated from the
repository: 16 lists with each operation's table, columns, target and source.  A
command walks through its stages (bootstrap, squashed, numbered lists); for an
operation it waits for mutations on one host after the other, then for the DDL
queue, inserts the record, runs the statement, waits for both again, and updates
the record, which is itself a mutation on every host, behind what the host has
queued (`MutateBehind`).  Any of these may fail, and the process may be killed
between any two; the next command reads what is left.  The two waits are two
steps: a queued statement may begin a mutation on a host that was seen without
one (`seen`, `late`), and the next statement is submitted over it.  While
nothing is queued no mutation can begin during the wait, so the hosts are
visited one by one (`Look`) only when something is.  In development no host is
known and no mutation is waited for.  A record is inserted through a Distributed
table that picks a shard at random, and looked up in the local table of the host
that the commands are connected to (`home`): `status` is what is found there,
`away` the records on another shard, which only the count of the squashed lists
finds.  An operation whose record went away is run again by the next command
although nothing failed, and `RepeatedOnlyAfterFailure` says so.  All commands
are assumed to connect to one host.  A squashed list is skipped when its
database has the legacy table or a record of any status.  A deployment may have
fewer lists than the code names; a missing one is passed over.  Of a migration
the command goes from one item to the next that it runs (`ItemAfter`): sync runs
what is quick and can be repeated, and what is forced; async the other
operations that can be repeated.  `migrate sync check` of the collector asks
`IsMigrationSuccess` of every list, that the record of its last migration shows
no failure.  It does so whichever command that migration belongs to: the last
one of `MetricsMigrations` (1006, which drops indexes) is left to the async
command, and after that has failed there the check waits although every sync
migration is complete.  `RetryCompletes` therefore promises the check only for
the lists that end with an operation of the sync command.  ClickHouse
(mutations, queue, refusal of a statement that names a missing table) is
external.  A migration whose command was killed keeps its record in progress and
is skipped from then on; later migrations may then build on a table that is not
there.  The properties except this case (`LeftUndone`) by name.

**Kafka receiver.**  The consumers of traces, metrics and logs are copies of one
another and modelled once.  A claim receives, marks before or after, hands the
message on, and on a refusal for memory pauses all partitions, retries, and
resumes them.  Sessions, fetching and the offset manager belong to sarama: a
session starts at the committed offsets, ends as a whole when a claim returns,
and commits what is marked.  A commit may fail, at a rebalance or a timeout,
after it was carried out for some partitions (`Commit`); a session whose last
one failed counts in `losses`, and the next one begins behind what was taken.
Of the messages some cannot be unmarshalled (`malformed`) and some the pipeline
rejects for good (`rejected`): they fail whenever they are read, without a
bound, while other errors pass and are bounded by `MaxEnds`.  `delivered` counts
how often the pipeline has accepted each message.

**Span pipeline.**  The processor's state is under its lock, so consuming a span
and a flush are one action each.  Metric keys, caches of dimensions with a
limit, overflow names, and the reset of both temporalities are modelled; a
histogram is its count.  The metrics exporter turns each type of point into rows
of four tables by pure operators and has a step for each writer, whose statement
may fail; `exporterhelper` pushes again.  The traces exporter does the same with
a second stage for resources, and its tag writer fills the cache of keys, sends
the values, and then the keys, in three steps: in between another push relies on
the cache.  Whoever the processor hands something to may refuse it.  A refused
call of `ConsumeTraces` fails after its span was aggregated, and a caller that
repeats it is counted again, so every count is per call; a refused flush is
gone, and `refused` counts what was in it.  The key of a point begins with a
time bucket or, with cumulative temporality, with the service's name, and its
first segment is read as a time if it is a number whatever it stands for
(`FirstSegment`).  The meter connector empties its aggregate in one step and
hands it on in another, from the loop and from Shutdown.  Exporters close a
channel, wait for the pushes under way and close the connection.  A behaviour
begins with one of the `Settings`, which fix temporality, cache sizes, limits,
the sinks that are configured and what arrives.

**Metadata exporter.**  A push prepares its statement, collects its records,
checks the limits of the cache one after the other, and goes through its
resources: what is not cached is appended to the statement and added to the
cache, then the statement is sent.  Each call of a cache is an action; the
in-memory `AddAttrsToResource` is three calls of ttlcache and a locked update, so
another consumer may replace, or time may remove, the entry it holds
(`Unlinked`).  A pipeline of Redis that fails may have had no effect, the resource
counted only, or its whole effect (`ExecFails`); an `Append` whose error nobody looks at
makes the `Send` fail.  A fingerprint is the set of attributes it hashes; estimates of
Redis are exact.  The model keeps what the code really compares: in memory the
limits of traces apply to every signal, the total is that of traces against the
limit of one resource, and the tracker, an LRU of as many values as are allowed,
never holds more and so never makes an attribute be skipped for its count.

## 3. Runs

| Run | Instance | What it shows |
|---|---|---|
| `license` | 1 guard with 7 configurations, 2 gates (one with a wrong extension name), 2 workers, 2 batches, clock to 8, lag 1 | drops and admissions are justified; blocking comes within a check interval and two lags of the end of the grace period; expiry is noticed without traffic |
| `tail` | 3 traces, 4 spans, 2 workers, memory of 1 trace, pipe of 2 batches, 2 objects per id | tokens, counter and channels, no send on the closed pipe, the fate of spans, the decision wait |
| `tail_live` | 3 traces of one span, 2 workers, memory of 1 trace, pipe of 1 batch | every trace is decided, every request ends, also when both workers are committed to the receive from `deleteChan`, and every shutdown ends |
| `tail_policies` | as `tail`, pipe of 1 batch | **violation**: the constructor copies the policies into an empty slice |
| `logs` | 2 requests of 1 and 3 records, of which one is too old and one in each belong to the same resource, limiter of 1, one retry | acknowledged requests are complete, but for fingerprints that a failed insert left in the cache; the database is not used after its closing; a call whose group nothing disturbs returns |
| `logs_case2` | 1 request of 3 records | **violation**: after an error producers wait for a consumer that has gone |
| `migrator` | all 16 lists on one server, 2 commands without faults; the logs lists on 2 hosts, up to 3 commands, up and down, 1 fault; the meter lists on 2 replicas and in development with 2 faults and on 2 shards with 1, 2 commands | the schema is consistent wherever a command stops, and while one that failed is repeated; statements are submitted alone, but for mutations that began late; only what failed or is recorded on another shard is repeated; a sync that ends well is complete; no list holds a statement that is refused; commands end |
| `opamp` | 4 configurations of which one does not start, with and without a server, 2 messages, 1 fault of any kind | what is reported is in force, failures are rolled back, the register is implemented; the callback answers, a dead collector is noticed, an undisturbed Stop returns |
| `opamp_stop` | the same | **violation**: a Stop during a restart blocks in the collector's Shutdown |
| `kafka` | 2 partitions with 2 and 1 messages, 5 configurations, 3 of them with a message that never passes, 1 rebalance, failing commit or passing error, 1 phase of high memory, 1 crash | committed is delivered; each repeated delivery has a crash or a lost commit behind it; a pause has a claim that will end it; only with marking on success only does a message that never passes hold anything up, and every other message gets through |
| `pipeline` | 10 settings (both temporalities, caches of 1 to 8, limits at 0 and above, each sink, a service with a number for its name, odd spans and points), 1 failing statement or refused batch, 2 pushes of a batch | a flush finds its dimensions; every span is counted and metered once per call; stored series are well formed; acknowledged pushes are stored, and without a failure what the caches decide on too, or it is under way; closed connections are not written to |
| `metadata` | 2 consumers, 3 pushes, both caches under 4 configurations with limits of 1 to 3, 1 fault (a pipeline that may have taken effect among them) or crash, 1 expiry, new window or fetch | what the cache takes for stored is stored, under way or lost with a failed statement; the limits are passed by the other consumers at most |

Bounds.  Two workers and three traces over a memory of one are the least in
which two workers evict at the same time and one finds the channel emptied.  Two
generations let an id come back.  A limiter of one place and more records than
places make producers wait for each other and for the consumer.  The clock of
the license run goes past the end of the longest grace period, a check interval
and the lags.  The two log requests contend for the one place and for the
fingerprint that they share.  One fault in the migrator, at every place it can
happen, and two or three commands give a failed command, its retry, and one on
top of it; a plan says how many (`maxRuns`, `maxFaults`).  A queue that is left
behind and then cannot be read needs two.  Two hosts let one be seen without a
mutation while the other still has a queue, and take a record away.  Two
messages give a configuration that fails after one that was applied and the
reverse, each with one fault at any place.  In the Kafka run one partition can
be paused on account of the other, and a crash can follow a rebalance or a
commit that was lost.  In the pipeline two spans (three or four where the caches
are to overflow) and two flushes or pushes make the second flush start from what
the first left, and a retry overtake a later push.  In the metadata run two
consumers meet at a limit of one, and one expiry or fault can fall between any
two calls; a third push finds what they left.  `MaxBatches`, `MaxGen`,
`MaxAttempts`, `Horizon`, `MaxFaults`, `MaxMessages`, `MaxPushes`, `MaxChanges`,
`MaxCrashes`, `MaxEnds`, `MaxHigh`, `maxSpans`, `maxPushes`, `maxRuns` and
`maxFaults` are bounds of the model only; the proofs below are general in them
and in the other constants.  Workers, and traces with the same role, are
interchangeable in `tail`, the consumers in `metadata`; the other runs use no
symmetry.  Deadlock is checked in the tail runs, where the end of the program is
an explicit step; the others may stop: their bounds run out, programs end, and a
failed group of the exporter really can block.

Fairness.  Goroutines that can run are run (weak fairness).  Strong fairness is
assumed where Go gives more: a `select` with several ready cases picks at random
(the end of a loop's context, the end of the ticker), a waiting writer of an
`RWMutex` holds up new readers (`Stop`), and senders that wait on a channel are
served in order (the limiter).  In the migrator the process and, separately,
the hosts' mutations and queue go on.  In the OpAMP run main, the callback, the
watcher and the collector are fair each, while the process lives.  In the Kafka
run the broker answers joins and fetches and memory does not stay high, which
the code's retry loop counts on too.  No fairness makes receivers deliver,
callers retry or give up, commands start, faults happen, or the collector stop.

## 4. Proofs

Eight modules hold proofs, one for each composed specification.  The constants
are arbitrary but for the named assumptions of the modules they come from, which
say what the constants are (numbers, records, subsets) and little more:
`GuardAssumption`, `GateAssumption`, `BatcherAssumption`, `SamplerAssumption`,
`KafkaAssumption`, `CollectorAssumption`, `AgentAssumption`,
`MetadataAssumption`, `MigrationsAssumption`, `SpanAssumption`,
`HelperAssumption`, and an `ExporterAssumption` in `LogsExporter` and in
`MetricsExporter`.  Those that say more: intervals, capacities and the cache of
dimensions are positive; a log record belongs to one request; the no-op
configuration and the first one start; there are finitely many consumers of the
metadata exporter; points that arrive from other pipelines have no key of the
aggregate (`NoKey`).  Nothing is assumed of names: that of a service may be a
number.

`ListsAssumption` says what the migrator relies on in its lists and TLC finds true of
the repository's: no migration of the up lists mixes operations of both commands;
migrations that write records have one each; a squashed list creates every table
before it needs it, drops none and has a database of its own, and some sync
operation alters a table that no other list creates; no list drops the table of
records; bootstrap has a list, and the first migration of each of its lists an item.

The bounds of the model (numbers of faults, messages, crashes and so on) are
arbitrary naturals too, so a theorem speaks of any number of them.

A proof module has the invariant, as a conjunction of named parts, then for every
part a lemma that a step of the specification preserves it, by cases of the
actions, and at the end the theorems.  TLC finds every inductive invariant true on
the instance of its run, or on one near it (the offsets of `CoveredIsDelivered` are
then those of the messages).

**`TailSamplerProofs`.**  `OneTokenPerTrace` is nearly inductive: the id of every
trace in the map is in `deleteChan` exactly once, or with the one worker that has
created it and not yet posted it, or with the one that is about to drop it.  It
needs `Carries`, which says what a worker or the timer holds where it is.  The
counter needs more: `Counted` says that `numTracesOnMap` is the cardinality of
the map without the traces that are stored and not yet counted; as the victim of
a drop is none of these (its token is elsewhere), there is one to subtract, and
the unsigned counter never wraps.  Theorems: `TypeCorrect`, `Tokens`,
`CounterCounts`, `SendSafety`, `EvictionServed`.

`SpanFate` and `DecisionWaits` rest on a second invariant, `FirstInv`, that holds
until the first eviction.  An id stands in line for its decision: with the worker
that adds it, in the pending channel, on its way to the current batch, in that
batch, in one of the pipe, or in the batch at hand.  `LineOnce` says it is in one
of these places only and there once, `LineUndecided` that it is in memory and
undecided there, `FirstObject` that nobody holds any other object of it.  A span
(`CarriedOnce`, `Fates`) is with one worker, or with the object, or exported as
the decision says.  `Turns` says when the pipe has `NumBatches` batches, `Waited`
that the k-th of them has k ticks before it: a decision comes after
`NumBatches`.  Theorems: `SpansDecidedOnce`, `DecisionsWait`.

**`LicenseGateProofs`.**  A drop acts on an answer that was read earlier, about a
verdict formed earlier still, on a time read before that.  `GuardInv` ties a
guard's verdict to its token and to a time that has passed, `GateInv` says what
the start order and the single resolution give (guards have started before a
gate asks; a gate without a guard has none of its name).  Both times only grow,
so what was true when the clock was read is true when the batch is dropped.
Theorems: `TypeCorrect`, `DropsAreJustified`, `AdmissionsAreJustified`.
`ExpiredIsNoticed` is the bound the other way.
`TimeInv` bounds the time at each place of the loop: the clock is at most a lag
past the last reading while a check is under way, and unless a tick waits in the
channel the next one comes at most a check interval and a lag after that reading
(`NextLook`), since a tick is lost only when another waits in the channel.

**`KafkaReceiverProofs`.**  Both delivery properties compare the broker's offsets
with what the pipeline has taken; a claim's position and the session's marks lie
between.  `CoveredIsDelivered` says that everything below a committed or marked
offset or behind a claim has been taken, `DeliveredIsBehind` the converse as a count: a
message was taken once if it is behind position and mark of its claim, or in its
hands, or between sessions behind the committed offset, and besides at most once for
every crash and every commit whose failure ended a session.  This passes from one
session to the next because a claim that returned has committed its marks unless
the last commit failed (`MarksKept`), and claims exist while a session does
(`ClaimsOfSession`).  Theorems: `CommittedIsDelivered`, `RepeatsAreAccountedFor`,
`PausesAreWatched`, `TypeCorrect` (with `InRange`: no offset passes what its
partition holds).

**`OpampAgentProofs`.**  Main and handler both restart the collector.  `Places`
says which of them holds which mutex where and that main is in a reload during
Start only; `Collector` what the collector is there; `Backed` that the backup
starts and that the file is the target in the first attempt and the backup in
the second; `Served` that what runs is in the file.  `Backed` and `Served` hold
until a file system error damages the file.  For the reports, `Found` relates
hash, effective configuration and status to the configuration in force
(`InForce`, the refinement mapping), as long as the file is not damaged and the
client has accepted every status (`Reported`).  What the code lets pass is
named: a hash of an empty file that could not be read (`HashLost`), an effective
configuration not updated for the same reason.  `StartFirst` says that messages
wait for main's reload; of one that comes early nothing is known until Start has
written the no-op configuration over the file (`Settled`), and then that one may
be in force although the message's is reported (`Over`).  `Serving` gives the
running collector of `FailedIsRolledBack` as long as nothing but the
configuration goes wrong.  Theorems: `RunsTheFile`, `AppliedIsInForce`,
`FailureRollsBack`, `TypeCorrect`, and `Implements`, the refinement of
`ConfigRegister`: every step either leaves the configuration in force or is a
switch.  It switches at the successful `Run` of the first attempt; restoring the
backup stutters, since nobody but the holder of the reload mutex has written the
file meanwhile.

**`LogsExporterProofs`.**  A record is followed through its call: `Conserved` says
it is with its producer, in the stream or in the batch, unless it is too old or
the group has an error; `Complete` that the wait ends without an error only when
all producers were started and the stream is drained.  Hence a batch that is sent
is complete (`Sent`).  For the fingerprints, `Noted` and `Cached`: what is in the
cache is stored, in a batch, or lost.  `Producers` and `Refused` are the closing of
the stream and of the connection.  Theorems: `NothingClosedIsUsed`,
`AckedIsComplete`, `TypeCorrect`.

**`MetadataExporterProofs`.**  The limits are checked in one call and used in
another, so the consumers between the two count: `Room` adds those that have
found room and have not made their entry yet.  With Redis a pipeline is executed
after the count of attributes.  The invariant (`Pipelines`) is that of n
consumers about to execute one for a resource, some one (the last that counted, or
one before it) still fits into the share of the others and its own; whoever
executes first, such a one remains, or none is left and the sum is within the
shares of all.  `Prepared` says that rows are in the statement before the cache
has their fingerprints, and `Stored` is `CachedIsStored` by consumer.  Theorems:
`CacheIsHonest`, `CacheStaysBounded`.

**`SchemaMigratorProofs`**, for any lists of migrations.  `StatementsAlone` rests
on `Alone`: on the hosts that a wait for mutations has seen only statements that
were queued then have begun mutations since (`late`); behind the wait for the
queue that follows nothing is queued, hence behind the next wait for mutations
nothing begins, unless a queue could not be read.  One pair of waits is not
enough, and the statement comes behind two.  For `NothingRepeated` the invariant
says that what has been executed has a record, in the table that the command reads
or on another shard (`Known`), and that of the migration at hand only items behind
the present one have been executed unless its record was set to failed or is on
another shard (`NotAhead`).  Squashed
lists do not look at the record of a migration; for them the whole list is ahead
(`NotAheadSquashed`), as any record in the database makes them be skipped.

`RetriesComplete` is about what a sync command makes up for, from
`ListsAssumption`.  Its invariant (`RInv`) has a part that always holds and one
that holds while nothing has been left undone and nothing taken back, no queue
was misread and no migration has failed in development (`Sane`).  A failure is
recorded by a mutation, which runs or is still queued (`Pending`), so a record
may say finished when its migration has failed (`FailedSoon`); but a command
that has waited once, which sync does in bootstrap, finds no such update pending
(`NoneFailed`).  Hence a record that shows no failure belongs to a migration
that has run (`RecordsTell`), and what the command passes over has run and what
it runs has (`AllPassed`, over the items by `Progress`).  Squashed lists have no
second attempt: no statement of theirs is refused, since what it needs has been
created in the same list and is still there (`Brings`, `SquashedAccepted`), so
such a list is run whole or not begun (`SquashedWhole`).  It has been begun, for
a table that the sync command altered was created by an item (`Origins`), and
only the squashed list has one.  Theorems: `RetryInvariant`, `RetriesComplete`.

**`SpanPipelineProofs`.**  An exporter sees of a step of the pipeline one of its
own, a new push, or nothing; the steps are grouped into such kinds, and the
invariant of each exporter is proved of the kinds.  It says of every push at
once that what it has to write is with a writer still at work or in its table
(`MetricWritten`, `TraceWritten`, `MeterWritten`), that the caches hold what is
stored or under way while no statement has failed (`MetricCached`,
`TraceCached`), and that nobody writes once the connection is closed.  The tag
writer of a push has three steps: it puts new attribute keys into the cache, and
sends the values and the keys (`Tagging`); in between its keys are under way
(`KeysUnderWay`), and another push that finds them in the cache can be
acknowledged before they are stored.  `WellFormed` is about the processor: a
histogram is there only with its dimensions, through additions, evictions and
resets.  Theorems: `DimensionsFound`, `NothingWrittenAfterClose`,
`AckedIsStored`.

`SpansCountedOnce` compares sums, which are folds over functions and bags.  Their
laws (a sum does not depend on the order, one point added or changed, two
functions side by side, a bag emptied) are proved from the definition of the
fold, by induction in the form of sets: the numbers or the finite sets with the
property are all of them.  The invariants are then short: `CallsInv`, each time a
span is consumed it adds one to one histogram of calls, and a flush with delta
temporality moves all of them into one push, or, refused, out of the processor;
`MeterCounted`, the same for the meter's bag through its two flushers, refusals
and pushes.

`SeriesStayWellFormed` has one invariant of the processor and one of the points.
The dimensions in a cache are those of their key, but for names that an overflow
has replaced there (`Keyed`).  Two keys of one series therefore differ only in names
that one of them has passed a limit with (`Passed`), and the sets of operations
under a limit only grow, so that a key is given its dimensions once (`Orderly`).
A cache with room for the keys of all spans (`Roomy`: a key of a span has at most
four forms) never evicts.  A histogram that is not evicted only grows, and the
points of a key with cumulative temporality that were flushed earlier have an
earlier time and a value that is not above the aggregate's (`PointsAgree`).  The
processor takes the time of a point from the first segment of its key, which is
the service's name with cumulative temporality: where that is a number (`Timed`) all
points of the key have this one time, and the theorem says no more of them.
`RowsKnown` takes this to the samples: each is a row of a point that was pushed,
whatever was retried or overtaken.

Only model-checked:

- the liveness properties (`EventuallyDecided`, `ConsumeReturns`, `ShutdownEnds`,
  `ExpiredIsBlocked`, `UndisturbedCallsReturn`, `CommandsEnd`, `QuietStopReturns`,
  `HandlerReplies`, `ClosedIsNoticed`, `EveryMessageDelivered`,
  `NothingBlocks`): liveness under
  fairness is out of this prover's reach;
- `SchemaConsistent` and `HealthyRunSucceeds`: what the single operations of the
  repository's lists promise, true of these lists and not of every one;
- that the lists satisfy `ListsAssumption`: TLC evaluates it.

## 5. Not modelled, and the plan

Left out of the modelled components: statistics, log lines and gauges other
than `otel_license_valid`; string and regular expression matching, hashing; the
contents of rows, engines, types and settings of tables; the exporters' periodic
fetches and usage counts; latencies, exemplars and configured dimensions of span
metrics; the time bucket (hour, half hour) in the keys of the exporters' caches.
Torn reads that crash the process are not outcomes of the model.

The caches of the logs, metrics, traces and metadata exporters are filled before
the statement is sent, and not emptied when it fails: a time series, resource,
key or set of attributes is then missing until it leaves the cache.  The modules
model it.  `AckedComplete` and `CachedIsStored` name what was lost this way
(`lost`), `AckedStored` asks for these rows only as long as no statement has
failed.  The metadata exporter also reports no error, so nothing is pushed again,
and with Redis the gap outlives the process.  An entry that expires between two
calls of the in-memory cache is a nil that is used: `Panic`.

Not modelled: the logs pipeline and transform processors, the HTTP and Firehose
receivers, the Kafka exporter and the JSON type exporter convert one record or
request at a time, with no state between; the system tables receiver and the
usage collector poll on a timer; the health check extension, the
registry, the command line and the config router are wiring; the simulator is
test support.

What could follow: a specification of a license gate as one atomic check, which
gate and guard implement up to the lag; and a criterion on lists of migrations
(each table created before it is altered and after what it writes to, columns
added to the target first) from which `SchemaConsistent` follows for any lists
that meet it.
