---------------------------- MODULE SpanMetrics ----------------------------
(***************************************************************************)
(* The span metrics processor (signozspanmetricsprocessor/processor.go):   *)
(* what it aggregates of a span, the caches that tie a metric key to the   *)
(* dimensions it is exported with, and what a flush builds and keeps.      *)
(*                                                                         *)
(* A span is a record of what the code tells apart: service, operation,    *)
(* kind, remote address, database call, start time, and whether an exclude *)
(* pattern matches it.  Latencies, status codes and configured dimensions  *)
(* are left out; a histogram is the number of spans in it.  Everything     *)
(* here runs under the processor's lock.                                   *)
(***************************************************************************)
EXTENDS Naturals, Sequences, FiniteSets, Functions, SequencesExt

CONSTANTS
  Settings,      \* the configurations: delta, exp, cacheSize, maxServices, maxOperations, sinks;
                 \* and what arrives with each: spans, points, and how many (maxSpans, maxPushes)
  None,          \* no service, no remote address, no time bucket
  Overflow,      \* the overflow service and operation
  SkipBefore     \* spans that started earlier are too old to aggregate

(* The key of a point that another pipeline has built.                      *)
NoKey == << >>

ASSUME SpanAssumption ==
  /\ SkipBefore \in Nat
  /\ \A s \in Settings : s.delta \in BOOLEAN /\ s.exp \in BOOLEAN /\ s.cacheSize \in Nat \ {0}
  /\ \A s \in Settings : s.maxSpans \in Nat /\ s.maxPushes \in Nat
  /\ \A s \in Settings : \A x \in s.spans :
       x.time \in Nat /\ x.excluded \in BOOLEAN /\ x.db \in BOOLEAN
  /\ \A s \in Settings : s.maxServices \in Nat /\ s.maxOperations \in Nat
  /\ \A s \in Settings : \A p \in s.points : "key" \in DOMAIN p /\ p.key = NoKey

VARIABLES
  setting,    \* the configuration in use
  hist,       \* histograms of every kind of metric: key -> count
  cache,      \* the dimension cache of every kind of metric
  operations  \* serviceToOperations

aggregate == <<hist, cache, operations>>

Kinds == {"latency", "exp", "calls", "external", "db"}

(* internal/cache: lru is the LRU, least recently used first; dims also     *)
(* holds the evicted items, which stay known until the next flush.          *)
NewCache == [lru |-> <<>>, dims |-> << >>]

InitAggregate ==
  /\ setting \in Settings
  /\ hist = [k \in Kinds |-> << >>]
  /\ cache = [k \in Kinds |-> NewCache]
  /\ operations = << >>

----------------------------------------------------------------------------
(* The dimension cache.                                                     *)

Newest(s) == IF Len(s) > setting.cacheSize THEN Tail(s) ELSE s

(* Get of a known key: the key becomes the most recent one; an evicted key  *)
(* is taken back, which may evict another.                                  *)
Touch(lru, key) == Newest(Append(RemoveFirst(lru, key), key))

Get(c, key) == [c EXCEPT !.lru = Touch(@, key)]

AddForgets(c, key, dims) ==
  LET lru == Newest(Append(c.lru, key))
  IN  [lru |-> lru, dims |-> [k \in Range(lru) |-> IF k = key THEN dims ELSE c.dims[k]]]

Add(c, key, dims) ==
  [lru  |-> Newest(Append(c.lru, key)),
   dims |-> [k \in DOMAIN c.dims \cup {key} |-> IF k = key THEN dims ELSE c.dims[k]]]

(* The items of a function whose key is in the LRU.                         *)
Recent(f, lru) == Restrict(f, DOMAIN f \cap Range(lru))

RemoveEvictedItems(c) == [c EXCEPT !.dims = Recent(@, c.lru)]

----------------------------------------------------------------------------
(* Aggregation of a span.  An aggregate is a record of the three variables. *)

(* The service and the operation a span counts under; both are decided      *)
(* anew whenever they are asked for.                                        *)
TrackedService(ops, span) ==
  IF Cardinality(DOMAIN ops) > setting.maxServices THEN Overflow ELSE span.service

TrackedName(ops, span) ==
  LET service == TrackedService(ops, span)
      full == service \in DOMAIN ops /\ Cardinality(ops[service]) > setting.maxOperations
  IN  <<service, IF full THEN Overflow ELSE span.operation>>

(* buildKey enters the name it has chosen among those that are tracked.     *)
Tracked(ops, name) ==
  [s \in DOMAIN ops \cup {name[1]} |->
     (IF s \in DOMAIN ops THEN ops[s] ELSE {}) \cup (IF s = name[1] THEN {name[2]} ELSE {})]

(* Delta keys begin with the time bucket.  Cumulative ones have none, which  *)
(* is written here as None in its place; the service name comes next.        *)
AddTimeToKey(span) == IF setting.delta THEN span.time ELSE None

UpdateHistogram(h, key) ==
  [k \in DOMAIN h \cup {key} |-> (IF k \in DOMAIN h THEN h[k] ELSE 0) + (IF k = key THEN 1 ELSE 0)]

Cached(c, key, dims) == IF key \in DOMAIN c.dims THEN Get(c, key) ELSE Add(c, key, dims)

Observe(a, kind, key, dims) ==
  [a EXCEPT !.cache[kind] = Cached(@, key, dims), !.hist[kind] = UpdateHistogram(@, key)]

(* buildMetricKey, the cache and the histogram of the metrics by operation: *)
(* the dimensions are built after the key has entered the operations.       *)
ObserveOperation(a, kind, span) ==
  LET name == TrackedName(a.operations, span)
      ops  == Tracked(a.operations, name)
  IN  Observe([a EXCEPT !.operations = ops], kind,
              <<AddTimeToKey(span)>> \o name \o <<span.kind>>,
              TrackedName(ops, span) \o <<span.kind>>)

(* The metrics of calls to others: no limit on services applies.            *)
CustomKey(span, extra)        == <<AddTimeToKey(span), span.service>> \o extra
CustomDimensions(span, extra) == <<span.service>> \o extra

ObserveCustom(a, kind, span, extra) ==
  Observe(a, kind, CustomKey(span, extra), CustomDimensions(span, extra))

ShouldSkip(span) == span.time < SkipBefore \/ span.excluded

(* getRemoteAddress finds an address in one of several attributes, or none. *)
RemoteAddress(span) == span.remote

IsExternalCall(span) == span.kind = "client" /\ RemoteAddress(span) # None
IsDbCall(span)       == span.kind # "server" /\ span.db

AggregateMetricsForSpan(a, span) ==
  LET latency  == ObserveOperation(a, "latency", span)
      exp      == IF setting.exp THEN ObserveOperation(latency, "exp", span) ELSE latency
      calls    == ObserveOperation(exp, "calls", span)
      external == IF IsExternalCall(span)
                  THEN ObserveCustom(calls, "external", span, <<RemoteAddress(span)>>) ELSE calls
  IN  IF IsDbCall(span) THEN ObserveCustom(external, "db", span, << >>) ELSE external

Aggregated(span) == span.service # None /\ ~ShouldSkip(span)

(* The part of ConsumeTraces under the lock, for a trace of one span.       *)
AggregateMetrics(span) ==
  LET a == [hist |-> hist, cache |-> cache, operations |-> operations]
      b == IF Aggregated(span) THEN AggregateMetricsForSpan(a, span) ELSE a
  IN  hist' = b.hist /\ cache' = b.cache /\ operations' = b.operations

(* What is handed on: a resource with a service has been given the          *)
(* collector's id.                                                          *)
Forwarded(span) == [span EXCEPT !.stamped = @ \/ span.service # None]

----------------------------------------------------------------------------
(* A flush.                                                                 *)

Temporality == IF setting.delta THEN "delta" ELSE "cumulative"

Point(name, type, dims, time, value, key) ==
  [name |-> name, type |-> type, temporality |-> Temporality, dims |-> dims,
   time |-> time, value |-> value, key |-> key, minmax |-> type = "exponential"]

(* The first segment of the key as the code has it.  It is read as a time   *)
(* if it is a number, whatever it stands for: the bucket of a delta key, but*)
(* also a service that has a number for its name.  (Names that are numbers  *)
(* are naturals.)                                                           *)
FirstSegment(key) == IF setting.delta THEN key[1] ELSE key[2]

Timed(key) == FirstSegment(key) \in Nat

TimeFromKeyOrStart(key, now) == IF Timed(key) THEN FirstSegment(key) ELSE 0

(* parseTimesFromKeyOrNow.                                                  *)
TimeFromKeyOrNow(key, now) == IF Timed(key) THEN FirstSegment(key) ELSE now

(* The points of one metric: one for each histogram, with the dimensions    *)
(* its key is cached with.                                                  *)
Collect(kind, name, type, now) ==
  {Point(name, type, cache[kind].dims[key], TimeFromKeyOrNow(key, now), hist[kind][key], key) :
     key \in DOMAIN hist[kind]}

(* The exponential histogram is exported under the name of the explicit     *)
(* one; external and database calls have a sum and a count.                 *)
Collected(now) ==
  Collect("calls", "calls", "sum", now) \cup Collect("latency", "latency", "histogram", now)
    \cup Collect("external", "external_sum", "sum", now)
    \cup Collect("external", "external_count", "sum", now)
    \cup Collect("db", "db_sum", "sum", now) \cup Collect("db", "db_count", "sum", now)
    \cup Collect("exp", "latency", "exponential", now)

(* Collecting gets every key from the cache once, in no particular order,   *)
(* so the order decides which keys the LRU holds afterwards.                *)
Orders(kind) == SetToSeqs(DOMAIN hist[kind])

AfterCollect(kind, order) ==
  RemoveEvictedItems([cache[kind] EXCEPT !.lru = FoldLeft(Touch, @, order)])

KeepOnly(kind, order) == Recent(hist[kind], AfterCollect(kind, order).lru)

ResetNothing == hist' = hist /\ cache' = cache

ResetAccumulatedMetrics ==
  /\ hist' = [k \in Kinds |-> << >>]
  /\ cache' = [k \in Kinds |-> NewCache]

(* What buildMetrics leaves behind: nothing with delta temporality, else    *)
(* the histograms whose key is still in the LRU.  Its error return, a key   *)
(* without dimensions, is what CollectFindsDimensions rules out.            *)
BuildMetrics ==
  /\ IF setting.delta THEN ResetAccumulatedMetrics
     ELSE \E l \in Orders("latency"), e \in Orders("exp"), c \in Orders("calls"),
             x \in Orders("external"), d \in Orders("db") :
            LET order == [latency |-> l, exp |-> e, calls |-> c, external |-> x, db |-> d]
            IN  /\ cache' = [k \in Kinds |-> AfterCollect(k, order[k])]
                /\ hist' = [k \in Kinds |-> KeepOnly(k, order[k])]
  /\ UNCHANGED operations

----------------------------------------------------------------------------
(* Every histogram has its dimensions in the cache, evicted or not, when it *)
(* is collected: a flush never fails, also when there are more keys than    *)
(* the cache holds and collecting itself evicts keys.                       *)
CollectFindsDimensions ==
  \A k \in Kinds : DOMAIN hist[k] \subseteq DOMAIN cache[k].dims
=============================================================================
