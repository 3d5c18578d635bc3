------------------------- MODULE MCMetadataExporter -------------------------
(* Two consumers; both caches; limits of one or two; batches with two        *)
(* resources, with duplicates and with values of each kind.                  *)
EXTENDS MetadataExporter

Attr(key, value, kind) == [key |-> key, value |-> value, kind |-> kind]

Service(name) == {Attr("service", name, "string")}
Route(name)   == Attr("route", name, "string")

Item(service, attrs, w) == [resource |-> Service(service), attrs |-> attrs, window |-> w]

TwoServices == <<Item("s1", {Route("a")}, 1), Item("s2", {Route("a")}, 1)>>
Twice       == <<Item("s1", {Route("a")}, 1), Item("s1", {Route("a")}, 2),
                 Item("s1", {Route("b")}, 2)>>
Mixed       == <<Item("s1", {Route("b"), Attr("size", 7, "number"), Attr("text", "t", "long")}, 1)>>

Limits(resources, perResource, total) ==
  [resources |-> resources, perResource |-> perResource, total |-> total]

(* Nothing is known, the routes are too many, or the sizes are numbers. *)
Counts == {<<>>, [route |-> [type |-> "string", count |-> 3]],
           [size |-> [type |-> "float64", count |-> 1], text |-> [type |-> "bool", count |-> 1]]}

Deployment(signal, redis, own, traces, batches) ==
  [signal |-> signal, redis |-> redis, always |-> {"service"}, maxDistinct |-> 1,
   limits |-> [s \in {"traces", "logs", "metrics"} |-> IF s = signal THEN own ELSE traces],
   batches |-> batches, counts |-> Counts]

MCDeployments ==
  {Deployment("traces", FALSE, Limits(1, 3, 4), Limits(1, 3, 4), {TwoServices, Twice}),
   Deployment("logs", FALSE, Limits(2, 2, 4), Limits(3, 3, 4), {Twice, Mixed}),
   [Deployment("traces", TRUE, Limits(2, 2, 3), Limits(2, 2, 3), {TwoServices, Mixed})
      EXCEPT !.counts = {<<>>}],
   [Deployment("metrics", TRUE, Limits(1, 2, 4), Limits(2, 2, 4), {TwoServices, Twice})
      EXCEPT !.always = {}, !.maxDistinct = 0]}

Consumers == Permutations(Pushers)
=============================================================================
