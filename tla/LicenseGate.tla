------------------------------ MODULE LicenseGate ------------------------------
(***************************************************************************)
(* The license gate processors (src/processor/licensegateprocessor), one   *)
(* per pipeline, composed with the license guards they consult and with    *)
(* the collector's lifecycle.  Receivers call Consume from any number of   *)
(* goroutines (Workers).  A gate resolves its guard once, on its first     *)
(* batch, and then asks it two questions per batch, each under its own     *)
(* lock: a check of the license can complete in between.                   *)
(***************************************************************************)
EXTENDS LicenseGuard

CONSTANTS
    Gates,        \* the processor instances
    Linked,       \* those whose extension_name is the type of the guards
    Workers,      \* the goroutines receivers deliver batches on
    Batches,      \* the sizes of batches: spans, log records or metrics
    MaxBatches,   \* bound: batches delivered in a behaviour
    NoChecker     \* the nil checker

ASSUME GateAssumption ==
    /\ MaxBatches \in Nat
    /\ Gates # {}
    /\ Linked \subseteq Gates
    /\ Batches \subseteq Nat
    /\ NoChecker \notin Guards

VARIABLES
    phase,      \* the collector's lifecycle
    hostSet,    \* gates whose Start has run
    resolved,   \* gates whose checkerOnce has run
    checker,    \* the checker each gate found, or NoChecker
    wpc,        \* where each worker is in Consume
    wgate,      \* the gate the worker is in
    wbatch,     \* the batch it carries
    delivered,  \* batches delivered so far
    dropped,    \* otel_data_dropped_total, by gate
    warned      \* batches a gate warned about

gateVars == <<phase, hostSet, resolved, checker, wpc, wgate, wbatch,
              delivered, dropped, warned>>

vars == <<guardVars, gateVars>>

Init ==
    /\ GuardInit
    /\ phase = "extensions"
    /\ hostSet = {}
    /\ resolved = {}
    /\ checker = [p \in Gates |-> NoChecker]
    /\ wpc = [w \in Workers |-> "idle"]
    /\ wgate = [w \in Workers |-> CHOOSE p \in Gates : TRUE]
    /\ wbatch = [w \in Workers |-> 0]
    /\ delivered = 0
    /\ dropped = [p \in Gates |-> 0]
    /\ warned = 0

-------------------------------------------------------------------------------
(* The collector's service starts the extensions one by one, each Start    *)
(* having returned, then the processors, then the receivers; it stops in   *)
(* the opposite order.                                                     *)
StartExtension(g) ==
    /\ phase = "extensions"
    /\ \A h \in Guards : gpc[h] = "created" \/ started[h]
    /\ Start(g)
    /\ UNCHANGED gateVars

StartProcessor(p) ==
    /\ phase \in {"extensions", "processors"}
    /\ \A g \in Guards : started[g]
    /\ p \notin hostSet
    /\ hostSet' = hostSet \cup {p}
    /\ phase' = "processors"
    /\ UNCHANGED <<guardVars, resolved, checker, wpc, wgate, wbatch,
                   delivered, dropped, warned>>

StartReceivers ==
    /\ phase = "processors"
    /\ hostSet = Gates
    /\ phase' = "receiving"
    /\ UNCHANGED <<guardVars, hostSet, resolved, checker, wpc, wgate, wbatch,
                   delivered, dropped, warned>>

(* Receivers are stopped when their last delivery has returned. *)
StopReceivers ==
    /\ phase = "receiving"
    /\ \A w \in Workers : wpc[w] = "idle"
    /\ phase' = "stopping"
    /\ UNCHANGED <<guardVars, hostSet, resolved, checker, wpc, wgate, wbatch,
                   delivered, dropped, warned>>

StopExtension(g) ==
    /\ phase = "stopping"
    /\ ~canceled[g]
    /\ Shutdown(g)
    /\ UNCHANGED gateVars

-------------------------------------------------------------------------------
(* getChecker's single resolution: any of the extensions whose type is the *)
(* configured name, in the order of a map; none is found without a host.   *)
Candidates(p) == IF p \in hostSet \cap Linked THEN Guards ELSE {}

ResolveChecker(p, c) ==
    IF p \in resolved
    THEN c = checker[p] /\ UNCHANGED <<resolved, checker>>
    ELSE /\ IF Candidates(p) = {} THEN c = NoChecker ELSE c \in Candidates(p)
         /\ resolved' = resolved \cup {p}
         /\ checker' = [checker EXCEPT ![p] = c]

(* A receiver delivers a batch to a gate: ConsumeTraces, ConsumeLogs or *)
(* ConsumeMetrics, up to the first question.                            *)
Consume(w, p, b) ==
    /\ phase = "receiving"
    /\ wpc[w] = "idle"
    /\ delivered < MaxBatches
    /\ delivered' = delivered + 1
    /\ \E c \in Guards \cup {NoChecker} : ResolveChecker(p, c)
    /\ wpc' = [wpc EXCEPT ![w] = "valid"]
    /\ wgate' = [wgate EXCEPT ![w] = p]
    /\ wbatch' = [wbatch EXCEPT ![w] = b]
    /\ UNCHANGED <<guardVars, phase, hostSet, dropped, warned>>

(* checker == nil || checker.IsValid() *)
Admits(p) == checker[p] = NoChecker \/ IsValid(checker[p])

AskValid(w) ==
    LET p == wgate[w] IN
    /\ wpc[w] = "valid"
    /\ wpc' = [wpc EXCEPT ![w] = IF Admits(p) THEN "grace" ELSE "drop"]
    /\ UNCHANGED <<guardVars, phase, hostSet, resolved, checker, wgate, wbatch,
                   delivered, dropped, warned>>

(* The second question decides the warning only; then the batch goes on. *)
Warns(p) == checker[p] # NoChecker /\ IsGracePeriod(checker[p])

Forward(w) ==
    /\ wpc[w] = "grace"
    /\ wpc' = [wpc EXCEPT ![w] = "idle"]
    /\ wbatch' = [wbatch EXCEPT ![w] = 0]
    /\ warned' = warned + (IF Warns(wgate[w]) THEN 1 ELSE 0)
    /\ UNCHANGED <<guardVars, phase, hostSet, resolved, checker, wgate,
                   delivered, dropped>>

Drop(w) ==
    LET p == wgate[w] IN
    /\ wpc[w] = "drop"
    /\ dropped' = [dropped EXCEPT ![p] = @ + wbatch[w]]
    /\ wpc' = [wpc EXCEPT ![w] = "idle"]
    /\ wbatch' = [wbatch EXCEPT ![w] = 0]
    /\ UNCHANGED <<guardVars, phase, hostSet, resolved, checker, wgate,
                   delivered, warned>>

-------------------------------------------------------------------------------
Next ==
    \/ \E g \in Guards : StartExtension(g)
    \/ \E g \in Guards : GuardStep(g) /\ UNCHANGED gateVars
    \/ \E g \in Guards : StopExtension(g)
    \/ Tick /\ UNCHANGED gateVars
    \/ \E p \in Gates : StartProcessor(p)
    \/ StartReceivers
    \/ StopReceivers
    \/ \E w \in Workers, p \in Gates, b \in Batches : Consume(w, p, b)
    \/ \E w \in Workers : AskValid(w) \/ Forward(w) \/ Drop(w)

Spec == Init /\ [][Next]_vars

(***************************************************************************)
(* Fairness.  Goroutines that can run are scheduled, time passes, and the  *)
(* service starts what it has built.  A select with two ready cases picks  *)
(* each with the same probability, so a canceled loop does not ignore the  *)
(* end of its context forever: that case is strongly fair.  Nothing makes  *)
(* a receiver deliver a batch or the collector stop.                       *)
(***************************************************************************)
Fairness ==
    /\ WF_vars(Tick /\ UNCHANGED gateVars)
    /\ \A g \in Guards :
         /\ WF_vars(StartExtension(g))
         /\ WF_vars(GuardStep(g) /\ UNCHANGED gateVars)
         /\ SF_vars(LoopExit(g) /\ UNCHANGED gateVars)

FairSpec == Spec /\ Fairness

-------------------------------------------------------------------------------
GateTypeOK ==
    /\ phase \in {"extensions", "processors", "receiving", "stopping"}
    /\ hostSet \subseteq Gates
    /\ resolved \subseteq Gates
    /\ checker \in [Gates -> Guards \cup {NoChecker}]
    /\ wpc \in [Workers -> {"idle", "valid", "grace", "drop"}]
    /\ wgate \in [Workers -> Gates]
    /\ wbatch \in [Workers -> Batches \cup {0}]
    /\ delivered \in 0 .. MaxBatches
    /\ dropped \in [Gates -> Nat]
    /\ warned \in Nat

(* The types of the guards' and of the gates' variables. *)
TypeOK == GuardTypeOK /\ GateTypeOK

(* A token that does not verify, and no leave to go on without one. *)
Rejected(g) == ~PassThrough(g) /\ ~VerifyJWT(g) /\ ~config[g].failOpen

(* The grace period of a verified license is over. *)
Expired(g) == ~PassThrough(g) /\ VerifyJWT(g) /\ now >= GracePeriodEnd(g)

(* No batch is on its way to be dropped unless the gate's guard has a      *)
(* token that does not verify (fail mode closed) or a license whose grace  *)
(* period really is over: the zero value of the field valid, before the    *)
(* first check, is never mistaken for a verdict.                           *)
DropJustified ==
    \A w \in Workers : wpc[w] = "drop" =>
        /\ checker[wgate[w]] # NoChecker
        /\ Rejected(checker[wgate[w]]) \/ Expired(checker[wgate[w]])

(* No batch is on its way through a gate whose guard rejects its token in  *)
(* fail mode closed, and none goes through unchecked when its gate names a *)
(* guard that is configured: the one resolution never comes too early.     *)
AdmitJustified ==
    \A w \in Workers : wpc[w] = "grace" =>
        IF checker[wgate[w]] = NoChecker
        THEN Guards = {} \/ wgate[w] \notin Linked
        ELSE ~Rejected(checker[wgate[w]])

(* An expired license stops admitting data one check interval after its    *)
(* grace period, and the time two steps of the guard may take: the reads   *)
(* of the clock outside the lock, the ticks lost while a check runs and    *)
(* the late creation of the ticker delay the verdict no further.           *)
NoLateAdmission ==
    \A g \in Guards :
        (started[g] /\ ~canceled[g] /\ ~PassThrough(g) /\ VerifyJWT(g) /\ valid[g]) =>
            now < GracePeriodEnd(g) + config[g].checkInterval + 2 * MaxLag

(* Without any further batch or call, a running guard whose license's      *)
(* grace period has ended comes to block (the clock must be able to reach  *)
(* the next check).                                                        *)
ExpiredIsBlocked ==
    \A g \in Guards :
        (started[g] /\ Expired(g)) ~> (~valid[g] \/ canceled[g])
===============================================================================
