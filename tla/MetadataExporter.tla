-------------------------- MODULE MetadataExporter --------------------------
(***************************************************************************)
(* The metadata exporter (metadataexporter): it stores which attributes    *)
(* occur with which resource, and keeps a cache of what it has stored,     *)
(* bounded in several ways, in memory or in Redis, so that nothing is      *)
(* stored twice in six hours.  The consumers of the sending queue push at  *)
(* the same time.                                                          *)
(*                                                                         *)
(* A fingerprint is the set of attributes it is the hash of.  Redis' and   *)
(* ttlcache's operations are atomic, a pipeline of Redis as a whole;       *)
(* PFCOUNT, which estimates, is exact here, and the estimate of attributes *)
(* is that of the current window.                                          *)
(* The exporter is enabled: a disabled one does nothing.                   *)
(***************************************************************************)
EXTENDS Naturals, Sequences, FiniteSets, FiniteSetsExt, TLC

CONSTANTS
  Deployments,   \* [signal, redis, limits, always, maxDistinct, batches, counts]
  Pushers,       \* the consumers of the sending queue
  None,          \* no resource
  MaxPushes,     \* bound on pushes
  MaxFaults,     \* bound on failing calls and crashes
  MaxChanges     \* bound on expiries and fetches

ASSUME MetadataAssumption ==
  /\ IsFiniteSet(Pushers) /\ Pushers # {}
  /\ MaxPushes \in Nat /\ MaxFaults \in Nat /\ MaxChanges \in Nat
  /\ \A d \in Deployments :
       /\ d.signal \in {"traces", "logs", "metrics"} /\ d.redis \in BOOLEAN
       /\ d.maxDistinct \in Nat
       /\ \A s \in {"traces", "logs", "metrics"} :
            d.limits[s].resources \in Nat /\ d.limits[s].perResource \in Nat

VARIABLES
  deployment,  \* the configuration, and the batches and counts it meets
  cache,       \* KeyCache: resource -> fingerprints taken for stored
  tagCounts,   \* tagValueCountFromDB: key -> [type, count]
  tracker,     \* ValueTracker: key -> its values, the latest last
  push,        \* consumer -> its push
  table,       \* the rows of distributed_attributes_metadata
  lost,        \* what was appended to a statement that has not been sent
  exporter,    \* "running", "stopped"
  pushes, faults, changes

bounds == <<pushes, faults, changes>>
vars == <<deployment, cache, tagCounts, tracker, push, table, lost, exporter, bounds>>

Signal == deployment.signal
Own    == deployment.limits[Signal]
Traces == deployment.limits["traces"]

(* A map after key was set to value. *)
With(f, key, value) == [k \in DOMAIN f \cup {key} |-> IF k = key THEN value ELSE f[k]]

NoPush ==
  [pc |-> "idle", items |-> <<>>, records |-> <<>>, todo |-> {}, keys |-> {},
   at |-> None, fresh |-> {}, stmt |-> {}]

Init ==
  /\ deployment \in Deployments
  /\ cache = <<>> /\ tagCounts = <<>> /\ tracker = <<>>
  /\ push = [p \in Pushers |-> NoPush]
  /\ table = {} /\ lost = {} /\ exporter = "running"
  /\ pushes = 0 /\ faults = 0 /\ changes = 0

Fault == faults < MaxFaults /\ faults' = faults + 1 /\ UNCHANGED <<pushes, changes>>
Change == changes < MaxChanges /\ changes' = changes + 1 /\ UNCHANGED <<pushes, faults>>

(* The push of p goes on with what its record becomes. *)
Becomes(p, record) == push' = [push EXCEPT ![p] = record]
GoesTo(p, pc)      == Becomes(p, [push[p] EXCEPT !.pc = pc])
AtStep(p, pc)      == exporter = "running" /\ push[p].pc = pc

----------------------------------------------------------------------------
(* Which attributes are kept. *)

(* By the counts last fetched, for traces and logs. *)
ShouldSkipAttributeFromDB(key) ==
  /\ Signal # "metrics"
  /\ key \notin deployment.always /\ key \in DOMAIN tagCounts
  /\ \/ tagCounts[key].type = "string" /\ tagCounts[key].count > deployment.maxDistinct
     \/ tagCounts[key].type \in {"float64", "int64"}

GetType(key) == IF key \in DOMAIN tagCounts THEN tagCounts[key].type ELSE "string"

UniqueValueCount(key) == IF key \in DOMAIN tracker THEN Len(tracker[key]) ELSE 0

(* By the tracker, which holds maxDistinct values of a key at most. *)
ShouldSkipAttributeUVT(key) ==
  /\ Signal # "metrics" /\ key \notin deployment.always
  /\ \/ /\ GetType(key) = "string" /\ deployment.maxDistinct > 0
        /\ UniqueValueCount(key) > deployment.maxDistinct
     \/ GetType(key) = "float64"

(* AddValue: an LRU cache per key, which cannot be made with no room in it. *)
Latest(values, value) ==
  LET all == Append(SelectSeq(values, LAMBDA v : v # value), value)
  IN  IF Len(all) > deployment.maxDistinct THEN Tail(all) ELSE all

AddValues(attrs) ==
  LET tracked == {a \in attrs : a.kind = "string"}
      keys    == {a.key : a \in tracked}
      old(k)  == IF k \in DOMAIN tracker THEN tracker[k] ELSE <<>>
      of(k)   == (CHOOSE a \in tracked : a.key = k).value
  IN  IF Signal = "metrics" \/ deployment.maxDistinct = 0 THEN tracker
      ELSE [k \in keys |-> Latest(old(k), of(k))] @@ tracker

KeptFromDB(attrs) == {a \in attrs : ~ShouldSkipAttributeFromDB(a.key)}
FilterAttrs(attrs) == {a \in KeptFromDB(attrs) : ~ShouldSkipAttributeUVT(a.key)}

----------------------------------------------------------------------------
(* PushTraces, PushLogs and PushMetrics. *)

Receive(p, batch) ==
  /\ AtStep(p, "idle") /\ pushes < MaxPushes
  /\ Becomes(p, [NoPush EXCEPT !.pc = "prepare", !.items = batch])
  /\ pushes' = pushes + 1
  /\ UNCHANGED <<deployment, cache, tagCounts, tracker, table, lost, exporter, faults, changes>>

Prepare(p) ==
  /\ AtStep(p, "prepare")
  /\ GoesTo(p, "collect")
  /\ UNCHANGED <<deployment, cache, tagCounts, tracker, table, lost, exporter, bounds>>

(* The error is logged and not returned. *)
PrepareFails(p) ==
  /\ AtStep(p, "prepare")
  /\ Becomes(p, NoPush)
  /\ Fault
  /\ UNCHANGED <<deployment, cache, tagCounts, tracker, table, lost, exporter>>

(* One span, log record or data point.  Of two records with the same       *)
(* fingerprints removeDuplicateRecords keeps the later.                     *)
Collect(p) ==
  /\ AtStep(p, "collect") /\ push[p].items # <<>>
  /\ LET item  == Head(push[p].items)
         attrs == FilterAttrs(item.attrs)
         key   == <<KeptFromDB(item.resource), attrs>>
     IN  /\ Becomes(p, [push[p] EXCEPT !.items = Tail(@), !.records = With(@, key, item.window)])
         /\ tracker' = AddValues(attrs)
  /\ UNCHANGED <<deployment, cache, tagCounts, table, lost, exporter, bounds>>

Collected(p) ==
  /\ AtStep(p, "collect") /\ push[p].items = <<>>
  /\ GoesTo(p, "resources")
  /\ UNCHANGED <<deployment, cache, tagCounts, tracker, table, lost, exporter, bounds>>

----------------------------------------------------------------------------
(* writeToStatementBatch: first the limits of the cache.  In memory these   *)
(* are the limits of traces whatever the signal, and the total is that of   *)
(* the cache of traces against the limit of one resource.                   *)

cacheRead == <<deployment, cache, tagCounts, tracker, table, lost, exporter>>

ResourcesLimitExceeded ==
  Cardinality(DOMAIN cache) >= (IF deployment.redis THEN Own ELSE Traces).resources

CheckResources(p) ==
  /\ AtStep(p, "resources")
  /\ IF ResourcesLimitExceeded THEN Becomes(p, NoPush) ELSE GoesTo(p, "total")
  /\ UNCHANGED <<cacheRead, bounds>>

TotalCardinality(resources) == MapThenSumSet(LAMBDA r : Cardinality(cache[r]), resources)

(* In memory: the keys, then the entry of each. *)
ReadKeys(p) ==
  /\ AtStep(p, "total") /\ ~deployment.redis
  /\ Becomes(p, [push[p] EXCEPT !.pc = "sum",
                   !.keys = IF Signal = "traces" THEN DOMAIN cache ELSE {}])
  /\ UNCHANGED <<cacheRead, bounds>>

CheckTotal(p) ==
  /\ \/ /\ AtStep(p, "sum") /\ push[p].keys \subseteq DOMAIN cache
        /\ IF TotalCardinality(push[p].keys) >= Traces.perResource
           THEN Becomes(p, NoPush) ELSE GoesTo(p, "limits")
     \/ /\ AtStep(p, "total") /\ deployment.redis
        /\ IF Cardinality(UNION {cache[r] : r \in DOMAIN cache}) >= Own.total
           THEN Becomes(p, NoPush) ELSE GoesTo(p, "limits")
  /\ UNCHANGED <<cacheRead, bounds>>

(* CardinalityLimitExceededMulti, and the groups by resource. *)
Full(r) ==
  r \in DOMAIN cache
    /\ Cardinality(cache[r]) >= (IF deployment.redis THEN Own ELSE Traces).perResource

Groups(p) == {k[1] : k \in DOMAIN push[p].records}

CheckLimits(p) ==
  /\ AtStep(p, "limits")
  /\ Becomes(p, [push[p] EXCEPT !.pc = "group", !.todo = {r \in Groups(p) : ~Full(r)}])
  /\ UNCHANGED <<cacheRead, bounds>>

----------------------------------------------------------------------------
(* Then one resource after the other: what is not in the cache is appended  *)
(* to the statement and added to the cache.                                 *)

Known(r)      == IF r \in DOMAIN cache THEN cache[r] ELSE {}
AttrsOf(p, r) == {k[2] : k \in {j \in DOMAIN push[p].records : j[1] = r}}

(* A row has both fingerprints, and of the attributes those with strings. *)
FlattenJSONToStringMap(attrs) == {a \in attrs : a.kind # "number"}

Row(p, r, attrs) ==
  [resource |-> r, fprint |-> attrs, window |-> push[p].records[<<r, attrs>>],
   rattrs |-> FlattenJSONToStringMap(r), attrs |-> FlattenJSONToStringMap(attrs)]

AppendNew(p) ==
  /\ AtStep(p, "group")
  /\ \E r \in push[p].todo :
       LET fresh == AttrsOf(p, r) \ Known(r)
       IN  Becomes(p, [push[p] EXCEPT !.todo = @ \ {r}, !.at = r, !.fresh = fresh,
                         !.stmt = @ \cup {Row(p, r, a) : a \in fresh},
                         !.pc = IF fresh = {} THEN "group" ELSE "add"])
  /\ UNCHANGED <<cacheRead, bounds>>

(* AddAttrsToResource in memory: Get, Set of a new entry, Get, and the      *)
(* attributes under the entry's lock.  Who is about to fill an entry that   *)
(* is replaced or expires has a stale one.                                  *)
Unlinked(r) ==
  [q \in Pushers |-> IF push[q].pc = "fill" /\ push[q].at = r
                     THEN [push[q] EXCEPT !.pc = "stale"] ELSE push[q]]

FindEntry(p) ==
  /\ AtStep(p, "add") /\ ~deployment.redis
  /\ \/ push[p].at \in DOMAIN cache /\ GoesTo(p, "fill")
     \/ /\ push[p].at \notin DOMAIN cache
        /\ GoesTo(p, IF Cardinality(DOMAIN cache) >= Own.resources THEN "group" ELSE "create")
  /\ UNCHANGED <<cacheRead, bounds>>

CreateEntry(p) ==
  /\ AtStep(p, "create")
  /\ cache' = With(cache, push[p].at, {})
  /\ push' = [Unlinked(push[p].at) EXCEPT ![p].pc = "get"]
  /\ UNCHANGED <<deployment, tagCounts, tracker, table, lost, exporter, bounds>>

GetEntry(p) ==
  /\ AtStep(p, "get") /\ push[p].at \in DOMAIN cache
  /\ GoesTo(p, "fill")
  /\ UNCHANGED <<cacheRead, bounds>>

Enter(r, s) == cache' = With(cache, r, s \cup Known(r))

Add(p) == Enter(push[p].at, push[p].fresh)

TooMany(p) ==
  Cardinality(Known(push[p].at)) + Cardinality(push[p].fresh) > Own.perResource

(* Faulty: the limit is not checked again. *)
FillEntryUnchecked(p) ==
  /\ AtStep(p, "fill") \/ AtStep(p, "stale")
  /\ IF AtStep(p, "stale") THEN UNCHANGED cache ELSE Add(p)
  /\ GoesTo(p, "group")
  /\ UNCHANGED <<deployment, tagCounts, tracker, table, lost, exporter, bounds>>

FillEntry(p) ==
  /\ AtStep(p, "fill") \/ AtStep(p, "stale")
  /\ IF AtStep(p, "stale") \/ TooMany(p) THEN UNCHANGED cache ELSE Add(p)
  /\ GoesTo(p, "group")
  /\ UNCHANGED <<deployment, tagCounts, tracker, table, lost, exporter, bounds>>

(* In Redis: PFCOUNT, SCARD, and a pipeline that adds. *)
CountResources(p) ==
  /\ AtStep(p, "add") /\ deployment.redis
  /\ GoesTo(p, IF Cardinality(DOMAIN cache) >= Own.resources THEN "group" ELSE "card")
  /\ UNCHANGED <<cacheRead, bounds>>

CountAttrs(p) ==
  /\ AtStep(p, "card")
  /\ GoesTo(p, IF TooMany(p) THEN "group" ELSE "exec")
  /\ UNCHANGED <<cacheRead, bounds>>

ExecPipeline(p) ==
  /\ AtStep(p, "exec")
  /\ Add(p)
  /\ GoesTo(p, "group")
  /\ UNCHANGED <<deployment, tagCounts, tracker, table, lost, exporter, bounds>>

(* It fails before it begins, between its commands, or when they have taken *)
(* effect and the reply is lost.  (That the estimate of attributes may miss *)
(* those whose command failed is left out.)                                 *)
ExecFails(p) ==
  /\ AtStep(p, "exec")
  /\ UNCHANGED cache \/ Enter(push[p].at, {}) \/ Add(p)
  /\ GoesTo(p, "group")
  /\ Fault
  /\ UNCHANGED <<deployment, tagCounts, tracker, table, lost, exporter>>

Send(p) ==
  /\ AtStep(p, "group") /\ push[p].todo = {}
  /\ table' = table \cup push[p].stmt
  /\ Becomes(p, NoPush)
  /\ UNCHANGED <<deployment, cache, tagCounts, tracker, lost, exporter, bounds>>

(* The error is logged and not returned: nobody pushes again.  An Append    *)
(* that fails, which nobody looks at, makes the Send fail.                  *)
SendFails(p) ==
  /\ AtStep(p, "group") /\ push[p].todo = {}
  /\ lost' = lost \cup push[p].stmt
  /\ Becomes(p, NoPush)
  /\ Fault
  /\ UNCHANGED <<deployment, cache, tagCounts, tracker, table, exporter>>

(* Faulty: a failing lookup ends the push before it is sent. *)
RedisFailsReturns(p) ==
  /\ deployment.redis
  /\ push[p].pc \in {"resources", "total", "limits", "group"} /\ exporter = "running"
  /\ Becomes(p, NoPush)
  /\ Fault
  /\ UNCHANGED cacheRead

(* A call of Redis fails.  Limits that cannot be read are taken for         *)
(* exceeded, but not that of a resource; a resource whose attributes cannot *)
(* be looked up is left out, and what cannot be added is stored all the     *)
(* same.                                                                    *)
RedisFails(p) ==
  /\ deployment.redis
  /\ \/ AtStep(p, "resources") /\ Becomes(p, NoPush)
     \/ AtStep(p, "total") /\ Becomes(p, NoPush)
     \/ AtStep(p, "limits") /\ Becomes(p, [push[p] EXCEPT !.pc = "group", !.todo = Groups(p)])
     \/ /\ AtStep(p, "group")
        /\ \E r \in push[p].todo : Becomes(p, [push[p] EXCEPT !.todo = @ \ {r}])
     \/ push[p].pc \in {"add", "card"} /\ exporter = "running" /\ GoesTo(p, "group")
  /\ Fault
  /\ UNCHANGED cacheRead

PushStep(p) ==
  \/ Prepare(p) \/ PrepareFails(p) \/ Collect(p) \/ Collected(p)
  \/ CheckResources(p) \/ ReadKeys(p) \/ CheckTotal(p) \/ CheckLimits(p)
  \/ AppendNew(p) \/ FindEntry(p) \/ CreateEntry(p) \/ GetEntry(p) \/ FillEntry(p)
  \/ CountResources(p) \/ CountAttrs(p) \/ ExecPipeline(p) \/ ExecFails(p)
  \/ Send(p) \/ SendFails(p) \/ RedisFails(p)

----------------------------------------------------------------------------
(* Around the pushes. *)

(* updateTagValueCountFromDB, for traces and logs. *)
Fetch ==
  /\ exporter = "running" /\ Signal # "metrics"
  /\ tagCounts' \in deployment.counts
  /\ Change
  /\ UNCHANGED <<deployment, cache, tracker, push, table, lost, exporter>>

(* A key of the tracker expires, or has to give way to others. *)
ForgetKey(key) ==
  /\ exporter = "running"
  /\ tracker' = [k \in DOMAIN tracker \ {key} |-> tracker[k]]
  /\ Change
  /\ UNCHANGED <<deployment, cache, tagCounts, push, table, lost, exporter>>

(* An entry expires six hours after it was created. *)
Expire(r) ==
  /\ exporter = "running" /\ ~deployment.redis
  /\ cache' = [s \in DOMAIN cache \ {r} |-> cache[s]]
  /\ push' = Unlinked(r)
  /\ Change
  /\ UNCHANGED <<deployment, tagCounts, tracker, table, lost, exporter>>

(* The keys of Redis contain the window of six hours.  AddAttrsToResource   *)
(* has made its key at the beginning, and adds to the old one.              *)
NewWindow ==
  /\ exporter = "running" /\ deployment.redis
  /\ cache' = <<>>
  /\ push' = [p \in Pushers |-> IF push[p].pc \in {"card", "exec"}
                                 THEN [push[p] EXCEPT !.pc = "group"] ELSE push[p]]
  /\ Change
  /\ UNCHANGED <<deployment, tagCounts, tracker, table, lost, exporter>>

(* The process ends and is started again; what is in Redis stays. *)
Restart ==
  /\ cache' = IF deployment.redis THEN cache ELSE <<>>
  /\ tagCounts' = <<>> /\ tracker' = <<>>
  /\ lost' = lost \cup UNION {push[p].stmt : p \in Pushers}
  /\ push' = [p \in Pushers |-> NoPush]
  /\ UNCHANGED <<deployment, table, exporter>>

Crash == exporter = "running" /\ Restart /\ Fault

(* TotalCardinalityLimitExceeded uses the entry of a key that has expired   *)
(* since it read the keys, AddAttrsToResource one that expired at once.     *)
Panic(p) ==
  /\ \/ AtStep(p, "sum") /\ ~(push[p].keys \subseteq DOMAIN cache)
     \/ AtStep(p, "get") /\ push[p].at \notin DOMAIN cache
  /\ Restart /\ UNCHANGED bounds

(* exporterhelper has emptied the queue and waited for its consumers. *)
Shutdown ==
  /\ exporter = "running" /\ \A p \in Pushers : push[p].pc = "idle"
  /\ exporter' = "stopped"
  /\ UNCHANGED <<deployment, cache, tagCounts, tracker, push, table, lost, bounds>>

Next ==
  \/ \E p \in Pushers : PushStep(p) \/ Panic(p) \/ \E b \in deployment.batches : Receive(p, b)
  \/ Fetch \/ NewWindow \/ Crash \/ Shutdown
  \/ \E k \in DOMAIN tracker : ForgetKey(k)
  \/ \E r \in DOMAIN cache : Expire(r)

Spec == Init /\ [][Next]_vars

----------------------------------------------------------------------------
(* What the cache holds as stored is stored, or is in the statement of a    *)
(* push under way, or was lost with a statement that failed or a process    *)
(* that died: no early return or skipped group in between leaves a cached   *)
(* fingerprint without its row, which would be missing for six hours.       *)
CachedIsStored ==
  \A r \in DOMAIN cache : \A a \in cache[r] :
    \E row \in table \cup lost \cup UNION {push[p].stmt : p \in Pushers} :
      row.resource = r /\ row.fprint = a

(* The cache keeps its limits although they are checked before they are     *)
(* used: no more resources above the limit than there are other consumers,  *)
(* in memory no more attributes of a resource than allowed, and in Redis    *)
(* no more than if every consumer had filled the resource by itself.        *)
CacheBounded ==
  /\ Cardinality(DOMAIN cache) < Own.resources + Cardinality(Pushers)
  /\ \A r \in DOMAIN cache :
       Cardinality(cache[r])
         <= Own.perResource * (IF deployment.redis THEN Cardinality(Pushers) ELSE 1)
=============================================================================
