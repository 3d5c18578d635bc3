--------------------------- MODULE MCSpanPipeline --------------------------
(* Two services and one whose name is a number; one of the spans is stale,  *)
(* one is too old to be stored, one has no service, one is excluded by a    *)
(* pattern.  Where a limit is 0 or 1 the spans pass it.                     *)
EXTENDS SpanPipeline

CONSTANTS s1, s2, op1, op2, addr

Span(service, operation, kind, remote, time) ==
  [service |-> service, operation |-> operation, kind |-> kind, remote |-> remote,
   db |-> FALSE, time |-> time, excluded |-> FALSE, exception |-> FALSE, stamped |-> FALSE]

Server == Span(s1, op1, "server", None, 2)
Client == [Span(s1, op1, "client", addr, 3) EXCEPT !.db = TRUE]
Failed == [Span(s2, op2, "server", None, 2) EXCEPT !.exception = TRUE]
Numbered == Span(7, op1, "server", None, 2)
Unnamed == Span(None, op1, "server", None, 2)
Stale == Span(s2, op1, "server", None, 1)
Excluded == [Span(s1, op2, "server", None, 2) EXCEPT !.excluded = TRUE]
Ancient == Span(s1, op2, "server", None, 0)

OtherPoint(type, value) ==
  [name |-> type, type |-> type, temporality |-> "unspecified", dims |-> <<s1>>, time |-> 0,
   value |-> value, key |-> NoKey, minmax |-> FALSE, quantiles |-> {"0.5", "0.9"}]

OtherPoints == {OtherPoint("gauge", 1), OtherPoint("gauge", NaN), OtherPoint("summary", 1)}

Setting(delta, exp, cacheSize, limit, sinks) ==
  [delta |-> delta, exp |-> exp, cacheSize |-> cacheSize, maxServices |-> limit,
   maxOperations |-> limit, sinks |-> sinks,
   spans |-> {Server, Client, Failed}, points |-> {}, maxSpans |-> 2, maxPushes |-> 2]

MCSettings ==
  {[Setting(FALSE, FALSE, 1, 5, {}) EXCEPT
      !.spans = @ \cup {Excluded, Stale}, !.maxSpans = 4],
   [Setting(TRUE, TRUE, 1, 5, {"metrics"}) EXCEPT !.maxPushes = 1],
   [Setting(TRUE, FALSE, 1, 0, {"metrics"}) EXCEPT !.maxSpans = 3, !.maxPushes = 1],
   [Setting(TRUE, FALSE, 3, 5, {"metrics"}) EXCEPT !.spans = {Server, Failed}],
   [Setting(FALSE, FALSE, 4, 5, {"metrics"}) EXCEPT !.spans = {Server}],
   [Setting(FALSE, FALSE, 4, 5, {"metrics"}) EXCEPT !.spans = {Numbered}, !.maxSpans = 1],
   [Setting(FALSE, FALSE, 8, 0, {"metrics"}) EXCEPT
      !.spans = {Server, Failed}, !.maxSpans = 3, !.maxPushes = 1],
   [Setting(FALSE, FALSE, 3, 5, {"metrics"}) EXCEPT
      !.points = OtherPoints, !.spans = {}],
   [Setting(FALSE, FALSE, 3, 5, {"traces"}) EXCEPT
      !.spans = {Server, Failed, Unnamed, Ancient}, !.maxPushes = 0],
   [Setting(TRUE, FALSE, 3, 5, {"meter"}) EXCEPT
      !.spans = {Server, Unnamed}]}
=============================================================================
