---------------------------- MODULE SpanPipeline ---------------------------
(***************************************************************************)
(* A traces pipeline with the span metrics processor, the traces exporter  *)
(* and the meter connector it forwards spans to and the metrics exporter   *)
(* it sends its metrics to.  The processor looks the metrics exporter up   *)
(* at the host, so the collector knows no order between the two when it    *)
(* shuts down: each may go first.  The connector goes after the processor. *)
(* Which of the sinks are there is configured.                             *)
(***************************************************************************)
EXTENDS SpanMetrics, MetricsExporter, TracesExporter, MeterConnector

VARIABLES
  processor,   \* "running", "stopping" (done closed), "stopped"
  now,         \* the time: flushes and pushes of other pipelines so far
  consumed,    \* spans consumed
  aggregated,  \* spans aggregated
  refused      \* calls in flushes that the metrics exporter has refused

counts == <<consumed, aggregated, refused>>

vars == <<setting, aggregate, metricVars, traceVars, meterVars, faults, processor, now, counts>>

(* What the processor has counted in the points of a flush. *)
CallsIn(points) == {p \in points : p.name = "calls" /\ p.key # NoKey}

Calls(points) == SumFunction([p \in CallsIn(points) |-> p.value])

Init ==
  /\ InitAggregate /\ InitMetricExporter /\ InitTraceExporter /\ InitMeter
  /\ faults = 0
  /\ processor = "running"
  /\ now = 0 /\ consumed = 0 /\ aggregated = 0 /\ refused = 0

(* ConsumeTraces: the span is aggregated, then forwarded.  If the exporter  *)
(* refuses it the call fails, and the caller may call again with the span,  *)
(* which is aggregated and metered again: each call counts.                 *)
ConsumeTraces(span) ==
  /\ processor = "running" /\ consumed < setting.maxSpans
  /\ AggregateMetrics(span)
  /\ aggregated' = IF Aggregated(span) THEN aggregated + 1 ELSE aggregated
  /\ consumed' = consumed + 1
  /\ \/ /\ tracePush' = IF "traces" \in setting.sinks
                        THEN Append(tracePush, NewTracePush(Forwarded(span))) ELSE tracePush
        /\ UNCHANGED faults
     \/ "traces" \in setting.sinks /\ StatementFails /\ UNCHANGED tracePush
  /\ IF "meter" \in setting.sinks THEN UpdateSpanMeterMetrics(span) ELSE UNCHANGED meterMetrics
  /\ UNCHANGED <<setting, metricVars, traceTable, rfCache, keysCache, traceExp, meterHeld,
                 meterLost, meterState, meterPush, meterTable, meterExp, processor, now, refused>>

(* The ticker: metrics are built under the lock and sent after it; an error *)
(* is only logged, so that what a refused flush has reset is gone.  The     *)
(* loop may take a tick that was due when done was closed.                  *)
ExportMetrics ==
  /\ processor # "stopped" /\ now < setting.maxPushes
  /\ now' = now + 1
  /\ BuildMetrics
  /\ \/ /\ metricPush' = IF "metrics" \in setting.sinks
                         THEN Append(metricPush, NewMetricPush(Collected(now'))) ELSE metricPush
        /\ UNCHANGED <<faults, refused>>
     \/ /\ "metrics" \in setting.sinks /\ StatementFails
        /\ refused' = refused + Calls(Collected(now'))
        /\ UNCHANGED metricPush
  /\ UNCHANGED <<setting, metricTable, tsCache, metricExp, traceVars, meterVars, processor,
                 consumed, aggregated>>

(* Points from other pipelines.                                             *)
ReceivePoint(point) ==
  /\ "metrics" \in setting.sinks /\ now < setting.maxPushes
  /\ now' = now + 1
  /\ metricPush' = Append(metricPush, NewMetricPush({[point EXCEPT !.time = now']}))
  /\ UNCHANGED <<setting, aggregate, metricTable, tsCache, metricExp, traceVars, meterVars,
     faults, processor, counts>>

ShutdownProcessor ==
  /\ processor = "running"
  /\ processor' = "stopping"
  /\ UNCHANGED <<setting, aggregate, metricVars, traceVars, meterVars, faults, now, counts>>

LoopReturns ==
  /\ processor = "stopping"
  /\ processor' = "stopped"
  /\ UNCHANGED <<setting, aggregate, metricVars, traceVars, meterVars, faults, now, counts>>

(* The connector's ticker, and its shutdown after the processor's.           *)
FlushMeter ==
  /\ "meter" \in setting.sinks /\ now < setting.maxPushes
  /\ now' = now + 1
  /\ MeterTick
  /\ UNCHANGED <<setting, aggregate, metricVars, traceVars, faults, processor, counts>>

StopMeter ==
  /\ "meter" \in setting.sinks /\ processor = "stopped"
  /\ ShutdownMeter
  /\ UNCHANGED <<setting, aggregate, metricVars, traceVars, processor, now, counts>>

Next ==
  \/ \E span \in setting.spans : ConsumeTraces(span)
  \/ ExportMetrics
  \/ \E point \in setting.points : ReceivePoint(point)
  \/ ShutdownProcessor \/ LoopReturns
  \/ /\ MetricExporterStep
     /\ UNCHANGED <<setting, aggregate, traceVars, meterVars, processor, now, counts>>
  \/ /\ TraceExporterStep
     /\ UNCHANGED <<setting, aggregate, metricVars, meterVars, processor, now, counts>>
  \/ FlushMeter \/ StopMeter
  \/ /\ MeterStep
     /\ UNCHANGED <<setting, aggregate, metricVars, traceVars, processor, now, counts>>

Spec == Init /\ [][Next]_vars

----------------------------------------------------------------------------
(* What is counted in a push, of the processor and of the connector. *)
CallsOf(push) == Calls(push.points)
SpansOf(push) == SumFunction(push.batch)

(* Delta temporality: every span is counted, once for each call of          *)
(* ConsumeTraces that aggregates it, in exactly one flush or is still in    *)
(* the aggregate, whatever time buckets, evictions and overflow names it    *)
(* went through; the flush is in a push or was refused.  The meter counts   *)
(* every call's span once too: in its aggregate, in a flush of the loop or  *)
(* of Shutdown, in a push, or among those the queue refused, and a connector*)
(* that has stopped has flushed them all.                                   *)
DeltaConserved ==
  /\ setting.delta /\ "metrics" \in setting.sinks =>
       aggregated = SumFunction(hist["calls"]) + refused
                    + SumFunction([i \in DOMAIN metricPush |-> CallsOf(metricPush[i])])
  /\ "meter" \in setting.sinks =>
       consumed = SumFunction(meterMetrics) + meterLost
                  + SumFunction([f \in Flushers |-> SumFunction(meterHeld[f])])
                  + SumFunction([i \in DOMAIN meterPush |-> SpansOf(meterPush[i])])
  /\ meterState = "stopped" => meterMetrics = EmptyBag

(* The names of a point's key that its dimensions have replaced by those of *)
(* an overflow: the span that made the key has passed these limits.         *)
Passed(p) == {i \in DOMAIN p.dims : p.dims[i] # p.key[i + 1]}

(* The cache has room for the keys of all spans, each with its own names    *)
(* and with those of an overflow.                                           *)
Roomy == IsFiniteSet(setting.spans) /\ setting.cacheSize >= 4 * Cardinality(setting.spans)

(* A stored series of the processor, of one type (explicit and exponential  *)
(* histograms share their name), is fed by one key at a time, and by one    *)
(* more for each limit only if a span passed it at that very key: such a    *)
(* key is made once, and then its names have given way to the overflow.  A  *)
(* cumulative series has one value of a key at a time and, as long as no    *)
(* key drops out of the cache, that value never falls, retries and flushes  *)
(* that overtake each other included.  Where a number is the service's name *)
(* this cannot be told: all its points carry the time that the number is.   *)
SeriesWellFormed ==
  \A a, b \in metricTable["samples"] :
    LET p == a.of
        q == b.of
    IN  a.series = b.series /\ p.type = q.type /\ p.key # NoKey /\ q.key # NoKey =>
          /\ (setting.delta => p.time = q.time) /\ Passed(p) = Passed(q) => p.key = q.key
          /\ ~setting.delta /\ p.key = q.key =>
               IF Timed(p.key) THEN p.time = q.time
               ELSE /\ p.time = q.time => a = b
                    /\ Roomy /\ p.time < q.time => p.value <= q.value

(* Rows in the statement of a push that has entered them in a cache, which  *)
(* other pushes rely on.                                                    *)
SeriesUnderWay ==
  UNION {metricPush[i].series : i \in {j \in DOMAIN metricPush : "send" \in metricPush[j].left}}
TracesUnderWay(pc) ==
  UNION {tracePush[i].rows : i \in {j \in DOMAIN tracePush : tracePush[j].pc = pc}}
KeysUnderWay == TracesUnderWay("write")
ResourcesUnderWay == TracesUnderWay("resources")

(* A push that returned without an error has all it must write in the       *)
(* tables: samples and sketches, index and error rows, meter samples.  Tags *)
(* are there as long as no statement has failed.  So is what the caches     *)
(* decide on, time series, tag keys and resources, or it is in the statement*)
(* of another push; after a failure it stays in the cache and may be        *)
(* missing.                                                                 *)
AckedStored ==
  /\ \A i \in DOMAIN metricPush :
       metricPush[i].pc = "done" /\ ~metricPush[i].failed =>
         LET rows == PrepareBatch(metricPush[i].points)
         IN  /\ \A t \in {"samples", "exphist"} : rows[t] \subseteq metricTable[t]
             /\ faults = 0 => rows.ts \subseteq metricTable["ts"] \cup SeriesUnderWay
  /\ \A i \in DOMAIN tracePush :
       tracePush[i].pc = "done" /\ ~tracePush[i].failed =>
         LET rows == NewStructuredSpan(tracePush[i].span)
         IN  /\ \A t \in {"index", "error"} : rows[t] \subseteq traceTable[t]
             /\ faults = 0 => /\ rows.tag \subseteq traceTable["tag"]
                             /\ rows.tagkey \subseteq traceTable["tagkey"] \cup KeysUnderWay
                             /\ rows.resource \subseteq traceTable["resource"] \cup ResourcesUnderWay
  /\ \A i \in DOMAIN meterPush :
       meterPush[i].pc = "done" /\ ~meterPush[i].failed => MeterRows(i) \subseteq meterTable

(* Nothing is written through a connection that is closed, also when the    *)
(* processor flushes or exporterhelper retries after the exporter has shut  *)
(* down.                                                                    *)
NoWriteAfterClose ==
  /\ metricExp = "closed" => \A i \in DOMAIN metricPush : metricPush[i].pc # "write"
  /\ traceExp = "closed" => \A i \in DOMAIN tracePush : tracePush[i].pc \notin {"write",
     "resources"}
  /\ meterExp = "closed" => \A i \in DOMAIN meterPush : meterPush[i].pc # "write"
=============================================================================
