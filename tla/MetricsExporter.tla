-------------------------- MODULE MetricsExporter --------------------------
(***************************************************************************)
(* The ClickHouse metrics exporter (signozclickhousemetrics/exporter.go):  *)
(* how points become rows of four tables, the four writers of a push that  *)
(* run side by side, the cache of time series already written, and         *)
(* shutdown.  exporterhelper, which queues points and retries a push that  *)
(* failed, is external.                                                    *)
(*                                                                         *)
(* A time series is identified by its name and labels, which stand for the *)
(* fingerprint; the hour a series row is written for is left out, so the   *)
(* pushes of a run fall into one hour.  Buckets below +Inf are left out.   *)
(***************************************************************************)
EXTENDS Naturals, FiniteSets, ExporterHelper

CONSTANTS
  NaN,             \* the value of a point that is not a number
  EnableExpHist    \* the exporter stores exponential histograms

ASSUME ExporterAssumption == EnableExpHist \in BOOLEAN

VARIABLES
  metricPush,   \* the pushes: a sequence of records
  metricTable,  \* the rows of the tables
  tsCache,      \* the time series the exporter takes for written
  metricExp     \* "open", "closing" (closeChan closed), "closed" (connection closed)

metricVars == <<metricPush, metricTable, tsCache, metricExp>>

Tables == {"ts", "samples", "exphist", "metadata"}

InitMetricExporter ==
  /\ metricPush = << >>
  /\ metricTable = [t \in Tables |-> {}]
  /\ tsCache = {}
  /\ metricExp = "open"

----------------------------------------------------------------------------
(* prepareBatch: the series a point is stored in.                           *)

Series(point, suffix, temporality, le) ==
  [name |-> <<point.name, suffix>>, dims |-> point.dims, temporality |-> temporality, le |-> le]

ProcessGauge(point) == {Series(point, "", "unspecified", "")}

ProcessSum(point) == {Series(point, "", point.temporality, "")}

MinMax(point, temporality) ==
  IF point.minmax THEN {Series(point, s, temporality, "") : s \in {".min", ".max"}} ELSE {}

ProcessHistogram(point) ==
  {Series(point, s, point.temporality, "") : s \in {".count", ".sum"}}
    \cup MinMax(point, "unspecified")
    \cup {Series(point, ".bucket", point.temporality, "+Inf")}

ProcessSummary(point) ==
  {Series(point, s, "cumulative", "") : s \in {".count", ".sum"}}
    \cup {Series(point, ".quantile", "cumulative", q) : q \in point.quantiles}

(* Minimum and maximum of an exponential histogram keep the temporality of  *)
(* the point in their fingerprint.                                          *)
ProcessExponentialHistogram(point) ==
  {Series(point, s, point.temporality, "") : s \in {".count", ".sum"}}
    \cup MinMax(point, point.temporality)

(* Exponential histograms that are not enabled or not delta are ignored; a  *)
(* point that is not a number has no samples.                               *)
Accepts(point) == point.type = "exponential" => EnableExpHist /\ point.temporality = "delta"

Stores(point) == point.value # NaN /\ Accepts(point)

SeriesOf(point) ==
  IF ~Stores(point) THEN {}
  ELSE CASE point.type = "gauge"       -> ProcessGauge(point)
         [] point.type = "sum"         -> ProcessSum(point)
         [] point.type = "histogram"   -> ProcessHistogram(point)
         [] point.type = "summary"     -> ProcessSummary(point)
         [] point.type = "exponential" -> ProcessExponentialHistogram(point)

Sketch(point) == Series(point, "", point.temporality, "")

(* addMetadata keeps one entry for each name of a metric.  The attributes   *)
(* of the resource and the scope are entered before the points are looked   *)
(* at, the name of a sketch with its sample.                                *)
MetadataSuffixes(point) ==
  CASE point.type \in {"gauge", "sum"} -> {""}
    [] point.type = "histogram"   -> {".count", ".sum", ".min", ".max", ".bucket"}
    [] point.type = "summary"     -> {".count", ".sum", ".quantile"}
    [] point.type = "exponential" -> {".count", ".sum", ".min", ".max"}
                                       \cup (IF Stores(point) THEN {""} ELSE {})

Metadata(points) ==
  UNION {{<<p.name, s>> : s \in MetadataSuffixes(p)} : p \in {q \in points : Accepts(q)}}

(* The rows of a batch, each with the point it comes from.                  *)
PrepareBatch(points) ==
  LET sketches == {p \in points : Stores(p) /\ p.type = "exponential"}
  IN  [samples  |-> UNION {{[series |-> s, of |-> p] : s \in SeriesOf(p)} : p \in points},
       exphist  |-> {[series |-> Sketch(p), of |-> p] : p \in sketches},
       ts       |-> UNION {SeriesOf(p) : p \in points} \cup {Sketch(p) : p \in sketches},
       metadata |-> Metadata(points)]

----------------------------------------------------------------------------
(* A push.  exporterhelper calls PushMetrics for a batch of points.         *)

NewMetricPush(points) ==
  [pc |-> "enter", points |-> points, left |-> {}, series |-> {}, failed |-> FALSE, tries |-> 0]

SetMetricPush(i, rec) == metricPush' = [metricPush EXCEPT ![i] = rec]

(* The push is counted in the wait group before it looks whether the        *)
(* exporter is shutting down.                                               *)
EnterMetricPush(i) ==
  /\ metricPush[i].pc = "enter"
  /\ SetMetricPush(i, [metricPush[i] EXCEPT !.pc = "check", !.tries = @ + 1])
  /\ UNCHANGED <<metricTable, tsCache, metricExp, faults>>

(* The writers that have rows; one without returns at once.                 *)
Writers(points) == {t \in Tables : PrepareBatch(points)[t] # {}}

CheckMetricPush(i) ==
  /\ metricPush[i].pc = "check"
  /\ SetMetricPush(i, IF metricExp # "open"
                      THEN [metricPush[i] EXCEPT !.pc = "done", !.failed = TRUE]
                      ELSE [metricPush[i] EXCEPT !.pc = "write", !.failed = FALSE,
                                                 !.left = Writers(metricPush[i].points)])
  /\ UNCHANGED <<metricTable, tsCache, metricExp, faults>>

(* A statement is sent: rows go into the table, or none does.               *)
Sent(i, t, table, rows) ==
  /\ SetMetricPush(i, [metricPush[i] EXCEPT !.left = @ \ {t}])
  /\ metricTable' = [metricTable EXCEPT ![table] = @ \cup rows]
  /\ UNCHANGED <<tsCache, metricExp, faults>>

(* Metadata that cannot be written does not fail the push.                  *)
NotSent(i, t) ==
  /\ StatementFails
  /\ SetMetricPush(i, [metricPush[i] EXCEPT
                         !.left = @ \ {t}, !.failed = @ \/ t # "metadata"])
  /\ UNCHANGED <<metricTable, tsCache, metricExp>>

(* writeTimeSeries appends the series that are not in the cache and enters  *)
(* them there before the statement is sent.                                 *)
AppendTimeSeries(i) ==
  LET new == PrepareBatch(metricPush[i].points).ts \ tsCache
  IN  /\ metricPush[i].pc = "write" /\ "ts" \in metricPush[i].left
      /\ \/ /\ tsCache' = tsCache \cup new
            /\ SetMetricPush(i, [metricPush[i] EXCEPT
                                   !.left = (@ \ {"ts"}) \cup {"send"}, !.series = new])
            /\ UNCHANGED <<metricTable, metricExp, faults>>
         \/ NotSent(i, "ts")

SendTimeSeries(i) ==
  /\ metricPush[i].pc = "write" /\ "send" \in metricPush[i].left
  /\ \/ Sent(i, "send", "ts", metricPush[i].series)
     \/ NotSent(i, "send")

(* writeSamples, writeExpHist and writeMetadata.                            *)
WriteTable(i, t) ==
  /\ metricPush[i].pc = "write" /\ t \in metricPush[i].left
  /\ \/ Sent(i, t, t, PrepareBatch(metricPush[i].points)[t])
     \/ NotSent(i, t)

(* The push returns when all four writers have answered.                    *)
JoinMetricErrors(i) ==
  /\ metricPush[i].pc = "write" /\ metricPush[i].left = {}
  /\ SetMetricPush(i, [metricPush[i] EXCEPT !.pc = "done"])
  /\ UNCHANGED <<metricTable, tsCache, metricExp, faults>>

(* exporterhelper pushes a batch again that failed.                         *)
RetryMetricPush(i) ==
  /\ PushesAgain(metricPush[i])
  /\ SetMetricPush(i, [metricPush[i] EXCEPT !.pc = "enter", !.failed = FALSE])
  /\ UNCHANGED <<metricTable, tsCache, metricExp, faults>>

ShutdownMetricExporter ==
  /\ metricExp = "open"
  /\ metricExp' = "closing"
  /\ UNCHANGED <<metricPush, metricTable, tsCache, faults>>

CloseMetricConnAtOnce ==
  /\ metricExp = "closing"
  /\ metricExp' = "closed"
  /\ UNCHANGED <<metricPush, metricTable, tsCache, faults>>

CloseMetricConn ==
  /\ metricExp = "closing"
  /\ \A i \in DOMAIN metricPush : metricPush[i].pc \in {"enter", "done"}
  /\ metricExp' = "closed"
  /\ UNCHANGED <<metricPush, metricTable, tsCache, faults>>

MetricExporterStep ==
  \/ \E i \in DOMAIN metricPush :
       \/ EnterMetricPush(i) \/ CheckMetricPush(i)
       \/ AppendTimeSeries(i) \/ SendTimeSeries(i)
       \/ \E t \in Tables \ {"ts"} : WriteTable(i, t)
       \/ JoinMetricErrors(i) \/ RetryMetricPush(i)
  \/ ShutdownMetricExporter \/ CloseMetricConn
=============================================================================
