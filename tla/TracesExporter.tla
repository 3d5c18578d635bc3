--------------------------- MODULE TracesExporter --------------------------
(***************************************************************************)
(* The ClickHouse traces exporter (clickhousetracesexporter): a push makes *)
(* rows of its spans, writes the index, the error and the attribute tables *)
(* side by side, then the resource fingerprints, and shuts down like the   *)
(* metrics exporter.  A trace is one span, whose attribute keys are its    *)
(* operation; the 30 minute bucket of a resource is left out.              *)
(***************************************************************************)
EXTENDS Naturals, FiniteSets, ExporterHelper

CONSTANT
  OldestAllowed   \* spans that started earlier are not stored

VARIABLES
  tracePush,   \* the pushes: a sequence of records
  traceTable,  \* the rows of the tables
  rfCache,     \* the resources the exporter takes for written
  keysCache,   \* the attribute keys the exporter takes for written
  traceExp     \* "open", "closing", "closed"

traceVars == <<tracePush, traceTable, rfCache, keysCache, traceExp>>

SpanTables  == {"index", "error", "tag"}
TraceTables == SpanTables \cup {"tagkey", "resource"}

InitTraceExporter ==
  /\ tracePush = << >>
  /\ traceTable = [t \in TraceTables |-> {}]
  /\ rfCache = {} /\ keysCache = {}
  /\ traceExp = "open"

(* The rows of a span; a span that is too old has none.                     *)
TooOld(span) == span.time < OldestAllowed

(* Exception events become rows of the error table, attributes tags.        *)
ErrorEvents(span) == IF span.exception THEN {span} ELSE {}
Attributes(span)  == {span.operation}

NewStructuredSpan(span) ==
  IF TooOld(span) THEN [t \in TraceTables |-> {}]
  ELSE [index    |-> {span},
        error    |-> ErrorEvents(span),
        tag      |-> Attributes(span),
        tagkey   |-> Attributes(span),
        resource |-> {<<span.service, span.stamped>>}]

(* rows: what has entered a cache and the statement of this push, and is    *)
(* not sent yet: attribute keys while it writes, then the resource.         *)
NewTracePush(span) ==
  [pc |-> "enter", span |-> span, left |-> {}, rows |-> {}, failed |-> FALSE, tries |-> 0]

SetTracePush(i, rec) == tracePush' = [tracePush EXCEPT ![i] = rec]

EnterTracePush(i) ==
  /\ tracePush[i].pc = "enter"
  /\ SetTracePush(i, [tracePush[i] EXCEPT !.pc = "check", !.tries = @ + 1])
  /\ UNCHANGED <<traceTable, rfCache, keysCache, traceExp, faults>>

CheckTracePush(i) ==
  /\ tracePush[i].pc = "check"
  /\ SetTracePush(i, IF traceExp # "open"
                     THEN [tracePush[i] EXCEPT !.pc = "done", !.failed = TRUE]
                     ELSE [tracePush[i] EXCEPT !.pc = "write", !.left = SpanTables])
  /\ UNCHANGED <<traceTable, rfCache, keysCache, traceExp, faults>>

(* writeIndexBatchV3 and writeErrorBatchV3: a failure fails the push.       *)
WriteSpans(i, t) ==
  /\ tracePush[i].pc = "write" /\ t \in tracePush[i].left \ {"tag"}
  /\ \/ /\ traceTable' = [traceTable EXCEPT ![t] = @ \cup NewStructuredSpan(tracePush[i].span)[t]]
        /\ SetTracePush(i, [tracePush[i] EXCEPT !.left = @ \ {t}])
        /\ UNCHANGED faults
     \/ /\ StatementFails
        /\ SetTracePush(i, [tracePush[i] EXCEPT !.left = @ \ {t}, !.failed = TRUE])
        /\ UNCHANGED traceTable
  /\ UNCHANGED <<rfCache, keysCache, traceExp>>

(* writeTagBatchV3: keys that are not in the cache enter it and the         *)
(* statement that is sent last.  A failure anywhere is only logged.         *)
AppendTags(i) ==
  LET new == NewStructuredSpan(tracePush[i].span).tagkey \ keysCache
  IN  /\ tracePush[i].pc = "write" /\ "tag" \in tracePush[i].left
      /\ \/ /\ keysCache' = keysCache \cup new
            /\ SetTracePush(i, [tracePush[i] EXCEPT
                                  !.left = (@ \ {"tag"}) \cup {"values"}, !.rows = new])
            /\ UNCHANGED faults
         \/ /\ StatementFails
            /\ SetTracePush(i, [tracePush[i] EXCEPT !.left = @ \ {"tag"}])
            /\ UNCHANGED keysCache
      /\ UNCHANGED <<traceTable, rfCache, traceExp>>

(* The values are sent, then the keys; without the values the keys are not. *)
TagsFail(i) ==
  /\ StatementFails
  /\ SetTracePush(i, [tracePush[i] EXCEPT !.left = @ \ {"values", "keys"}, !.rows = {}])
  /\ UNCHANGED traceTable

SendTagValues(i) ==
  /\ tracePush[i].pc = "write" /\ "values" \in tracePush[i].left
  /\ \/ /\ traceTable' = [traceTable EXCEPT
                            !["tag"] = @ \cup NewStructuredSpan(tracePush[i].span).tag]
        /\ SetTracePush(i, [tracePush[i] EXCEPT !.left = (@ \ {"values"}) \cup {"keys"}])
        /\ UNCHANGED faults
     \/ TagsFail(i)
  /\ UNCHANGED <<rfCache, keysCache, traceExp>>

SendTagKeys(i) ==
  /\ tracePush[i].pc = "write" /\ "keys" \in tracePush[i].left
  /\ \/ /\ traceTable' = [traceTable EXCEPT !["tagkey"] = @ \cup tracePush[i].rows]
        /\ SetTracePush(i, [tracePush[i] EXCEPT !.left = @ \ {"keys"}, !.rows = {}])
        /\ UNCHANGED faults
     \/ TagsFail(i)
  /\ UNCHANGED <<rfCache, keysCache, traceExp>>

(* WriteBatchOfSpansV3 returns the first error it finds among those of the  *)
(* writers; without one the resources are appended, and enter the cache.    *)
ReportsErrorNever(push) == FALSE

ReportsError(push) == push.failed

WriteResources(i) ==
  LET new == NewStructuredSpan(tracePush[i].span).resource \ rfCache
      err == ReportsError(tracePush[i])
  IN  /\ tracePush[i].pc = "write" /\ tracePush[i].left = {}
      /\ rfCache' = IF err THEN rfCache ELSE rfCache \cup new
      /\ SetTracePush(i, [tracePush[i] EXCEPT !.pc = IF err THEN "done" ELSE "resources",
                                              !.failed = err, !.rows = IF err THEN {} ELSE new])
      /\ UNCHANGED <<traceTable, keysCache, traceExp, faults>>

SendResources(i) ==
  /\ tracePush[i].pc = "resources"
  /\ \/ /\ traceTable' = [traceTable EXCEPT !["resource"] = @ \cup tracePush[i].rows]
        /\ SetTracePush(i, [tracePush[i] EXCEPT !.pc = "done", !.rows = {}])
        /\ UNCHANGED faults
     \/ /\ StatementFails
        /\ SetTracePush(i, [tracePush[i] EXCEPT !.pc = "done", !.rows = {}, !.failed = TRUE])
        /\ UNCHANGED traceTable
  /\ UNCHANGED <<rfCache, keysCache, traceExp>>

(* exporterhelper pushes spans again that failed.                           *)
RetryTracePush(i) ==
  /\ PushesAgain(tracePush[i])
  /\ SetTracePush(i, [tracePush[i] EXCEPT !.pc = "enter", !.failed = FALSE])
  /\ UNCHANGED <<traceTable, rfCache, keysCache, traceExp, faults>>

ShutdownTraceExporter ==
  /\ traceExp = "open"
  /\ traceExp' = "closing"
  /\ UNCHANGED <<tracePush, traceTable, rfCache, keysCache, faults>>

CloseWriter ==
  /\ traceExp = "closing"
  /\ \A i \in DOMAIN tracePush : tracePush[i].pc \in {"enter", "done"}
  /\ traceExp' = "closed"
  /\ UNCHANGED <<tracePush, traceTable, rfCache, keysCache, faults>>

TraceExporterStep ==
  \/ \E i \in DOMAIN tracePush :
       \/ EnterTracePush(i) \/ CheckTracePush(i)
       \/ \E t \in SpanTables : WriteSpans(i, t)
       \/ AppendTags(i) \/ SendTagValues(i) \/ SendTagKeys(i)
       \/ WriteResources(i) \/ SendResources(i) \/ RetryTracePush(i)
  \/ ShutdownTraceExporter \/ CloseWriter
=============================================================================
