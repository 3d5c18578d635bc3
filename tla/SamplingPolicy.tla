--------------------------- MODULE SamplingPolicy ---------------------------
(***************************************************************************)
(* The policies of the tail sampler and how they decide about a trace      *)
(* (evaluator.go, internal/sampling, makeDecision and the policy part of   *)
(* newTracesProcessor in src/processor/signoztailsampler).                 *)
(*                                                                         *)
(* A trace is the set of its spans.  A filter is                           *)
(*   [invert : BOOLEAN, hits : SUBSET Spans]                               *)
(* where hits are the spans whose attributes the filter's key and values   *)
(* match.  A policy is                                                     *)
(*   [priority, and : BOOLEAN, filters, keeps, subs]                       *)
(* where and is the filter operator, filters a set, keeps the trace ids    *)
(* its sampler lets through (all for 100 percent, none for 0, those with a *)
(* small enough hash otherwise) and subs the sequence of its sub-policies, *)
(* which have none themselves.                                             *)
(***************************************************************************)
EXTENDS Naturals, Sequences, FiniteSets
LOCAL INSTANCE TLC

(***************************************************************************)
(* A filter takes the trace's lock to copy a reference to its spans, and   *)
(* reads them without it, while requests may append more.  What it sees is *)
(* what was there when the evaluation began, with some, all or none of     *)
(* what has come since; as it asks whether any span hits, the first and    *)
(* the last of these give all its possible results.  A view says what each *)
(* filter sees.                                                            *)
(***************************************************************************)
Filters(p) == p.filters \cup UNION {p.subs[i].filters : i \in 1 .. Len(p.subs)}

AllFilters(policies) == UNION {Filters(policies[i]) : i \in 1 .. Len(policies)}

Views(policies, early, late) == [AllFilters(policies) -> {early, late}]

(* The result of a filter on the spans of a trace. *)
FilterResult(f, spans) ==
    IF f.invert
    THEN IF spans \cap f.hits # {} THEN "invertNotSampled" ELSE "invertSampled"
    ELSE IF spans \cap f.hits # {} THEN "sampled" ELSE "notSampled"

(* Only the result Sampled makes a policy apply, and only NotSampled makes *)
(* an "and" fail: the results of inverted filters do neither.              *)
FilterMatched(p, view) ==
    /\ \E f \in p.filters : FilterResult(f, view[f]) = "sampled"
    /\ p.and => \A f \in p.filters : FilterResult(f, view[f]) # "notSampled"

SamplerResult(p, id) == IF id \in p.keeps THEN "sampled" ELSE "notSampled"

First(S) == CHOOSE i \in S : \A j \in S : i <= j

(* Evaluate: the first sub-policy that applies, else the policy itself. *)
Evaluate(p, id, view) ==
    LET applying == {i \in 1 .. Len(p.subs) : FilterMatched(p.subs[i], view)} IN
    IF ~FilterMatched(p, view) THEN "noResult"
    ELSE IF applying # {} THEN SamplerResult(p.subs[First(applying)], id)
    ELSE SamplerResult(p, id)

(* makeDecision: the first policy with a result, else sample. *)
MakeDecision(policies, id, view) ==
    LET deciding == {i \in 1 .. Len(policies) :
                       Evaluate(policies[i], id, view) # "noResult"} IN
    IF deciding = {} THEN "sampled"
    ELSE Evaluate(policies[First(deciding)], id, view)

-------------------------------------------------------------------------------
ByPriority(p, q) == p.priority < q.priority

SortByPriority(s) == SortSeq(s, ByPriority)

(* Go's copy overwrites the elements that the destination has. *)
CopyInto(dst, src) ==
    [i \in 1 .. Len(dst) |-> IF i <= Len(src) THEN src[i] ELSE dst[i]]

(* A policy's evaluator has its sub-policies in the order of priorities. *)
NewDefaultEvaluator(p) == [p EXCEPT !.subs = SortByPriority(@)]

Evaluators(cfgs) ==
    LET sorted == SortByPriority(cfgs) IN
    [i \in 1 .. Len(sorted) |-> NewDefaultEvaluator(sorted[i])]

(* The policies newTracesProcessor gives the processor: it copies the      *)
(* configured ones into an empty slice, and sorts that.                    *)
NewPolicies(cfgs) == Evaluators(CopyInto(<<>>, cfgs))

===============================================================================
