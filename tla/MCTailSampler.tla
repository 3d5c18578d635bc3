---------------------------- MODULE MCTailSampler ----------------------------
(* Small instances of TailSampler for TLC. *)
EXTENDS TailSampler, TLC

CONSTANTS a, b, c, a1, a2, b1, c1, w1, w2

MCTraceOf == (a1 :> a) @@ (a2 :> a) @@ (b1 :> b) @@ (c1 :> c)

(* Workers are interchangeable, and so are the traces b and c, each with *)
(* its span.                                                             *)
MCSymmetry ==
    { p @@ q : p \in Permutations({w1, w2}),
               q \in { (b :> b) @@ (c :> c) @@ (b1 :> b1) @@ (c1 :> c1),
                      (b :> c) @@ (c :> b) @@ (b1 :> c1) @@ (c1 :> b1) } }

Arrival(w, s, before) == [worker |-> w, span |-> s, after |-> before]

MCAnyArrivals == {Arrival(w, s, {}) : w \in Workers, s \in Spans}

MCTraceOf2 == (a1 :> a) @@ (b1 :> b) @@ (c1 :> c)

(* One worker brings a and then b, the other one c at any time: any other  *)
(* three requests that the two share are the same but for the names.       *)
MCSharedArrivals ==
    {Arrival(w1, a1, {}), Arrival(w1, b1, {a1}), Arrival(w2, c1, {})}

Filter(hits) == [invert |-> FALSE, hits |-> hits]

(* The first by priority drops the traces with a2; of those with one of    *)
(* the other spans, a sub-policy keeps those with a1, and the policy       *)
(* itself drops the rest.                                                  *)
MCPolicyCfgs ==
    << [priority |-> 2, and |-> FALSE, filters |-> {Filter({a1, b1, c1})}, keeps |-> {},
        subs |-> << [priority |-> 1, and |-> FALSE, filters |-> {Filter({a1})},
                     keeps |-> Ids, subs |-> <<>>] >>],
       [priority |-> 1, and |-> TRUE, filters |-> {Filter({a1, a2}), Filter({a2})},
        keeps |-> {}, subs |-> <<>>] >>

(* The lists of policies a processor has: the one the processor's own      *)
(* tests give it, and the one newTracesProcessor makes of the              *)
(* configuration.                                                          *)
MCTestPolicies == {Evaluators(MCPolicyCfgs)}

MCNewPolicies == {NewPolicies(MCPolicyCfgs)}

(* The README says that the configured policies are evaluated in the order *)
(* of their priorities: a decision about a trace is one they can make on   *)
(* the spans it has.                                                       *)
ConfiguredPoliciesDecide ==
    [][Decide =>
         LET id     == Head(batch)
             sorted == Evaluators(MCPolicyCfgs)
         IN  \E view \in Views(sorted, tspans, received[id][tref]) :
                decision'[id][tref] = MakeDecision(sorted, id, view)]_vars
===============================================================================
