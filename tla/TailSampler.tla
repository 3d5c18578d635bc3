----------------------------- MODULE TailSampler -----------------------------
(***************************************************************************)
(* The tail sampling processor (src/processor/signoztailsampler/           *)
(* processor.go).  Receivers' goroutines (Workers) call ConsumeTraces; one *)
(* goroutine runs samplingPolicyOnTick on a timer.  They share             *)
(*   - idToTrace, a concurrent map from trace ids to TraceData objects,    *)
(*   - deleteChan, a channel of num_traces ids that says which trace to    *)
(*     evict when a new one comes, in the order of arrival,                *)
(*   - the id batcher, which delays a trace's decision,                    *)
(*   - and each TraceData's lock.                                          *)
(* An evicted TraceData may still be in use by a worker or by the timer,   *)
(* and the same trace id may come again as a new object: an object is a    *)
(* pair of an id and a generation, and the map holds an id's latest        *)
(* generation or nothing.                                                  *)
(***************************************************************************)
EXTENDS IdBatcher, SamplingPolicy

CONSTANTS
    Workers,      \* the goroutines that call ConsumeTraces
    Spans,        \* the spans that will arrive, each once
    TraceOf,      \* the trace id of each span
    Arrivals,     \* which worker may bring a span, after which other spans
    NumTraces,    \* num_traces, the capacity of deleteChan
    MaxGen,       \* bound: objects created per trace id
    PolicyLists,  \* the lists of policies the processor may have
    NoSpan

ASSUME SamplerAssumption ==
    /\ TraceOf \in [Spans -> Ids]
    /\ NumTraces \in Nat \ {0}
    /\ MaxGen \in Nat \ {0}
    /\ \A l \in PolicyLists : Len(l) \in Nat
    /\ NoSpan \notin Spans

VARIABLES
    policies,     \* the field policies
    todo,         \* spans that have not arrived
    onMap,        \* the ids in idToTrace
    gen,          \* the latest generation of each id (0: none yet)
    received,     \* ReceivedBatches of each object
    decision,     \* FinalDecision of each object
    deleteChan,
    numOnMap,     \* numTracesOnMap
    notOnTable,   \* dropTrace logged "Attempt to delete traceID not on table"
    evictions,    \* (history) some trace has been evicted
    pc,           \* where each worker is in processTraces
    span,         \* the span it carries
    ref,          \* the generation of the TraceData it holds
    victim,       \* the id it has taken out of deleteChan to drop
    tpc,          \* where the timer's goroutine is
    batch,        \* what is left of the batch it processes
    tref,         \* the generation of the TraceData it is deciding about
    tspans,       \* the spans it had when makeDecision began
    exported,     \* how often each span has been given to the next consumer
    age           \* (history) ticks begun since each trace arrived, up to NumBatches,
                  \* kept while nothing has been evicted

tableVars == <<onMap, gen, received, decision, deleteChan, numOnMap, notOnTable,
               evictions>>
workerVars == <<pc, span, ref, victim, todo>>
tickVars == <<tpc, batch, tref, tspans>>
vars == <<batcherVars, tableVars, workerVars, tickVars, policies, exported, age>>

Gens == 0 .. MaxGen

Init ==
    /\ BatcherInit
    /\ policies \in PolicyLists
    /\ todo = Spans
    /\ onMap = {}
    /\ gen = [i \in Ids |-> 0]
    /\ received = [i \in Ids |-> [n \in Gens |-> {}]]
    /\ decision = [i \in Ids |-> [n \in Gens |-> "unspecified"]]
    /\ deleteChan = <<>>
    /\ numOnMap = 0
    /\ notOnTable = FALSE
    /\ evictions = FALSE
    /\ pc = [w \in Workers |-> "idle"]
    /\ span = [w \in Workers |-> NoSpan]
    /\ ref = [w \in Workers |-> 0]
    /\ victim = [w \in Workers |-> NoId]
    /\ tpc = "idle"
    /\ batch = <<>>
    /\ tref = 0
    /\ tspans = {}
    /\ exported = [s \in Spans |-> 0]
    /\ age = [i \in Ids |-> 0]

-------------------------------------------------------------------------------
(***************************************************************************)
(* processTraces, for one trace id and the spans a request has of it.      *)
(***************************************************************************)
Id(w) == TraceOf[span[w]]

(* The request arrives, and idToTrace.Load. *)
Load(w, s) ==
    LET id == TraceOf[s] IN
    /\ pc[w] = "idle"
    /\ s \in todo
    /\ \E r \in Arrivals : r.worker = w /\ r.span = s /\ r.after \cap todo = {}
    /\ bpc = "running"
    /\ todo' = todo \ {s}
    /\ span' = [span EXCEPT ![w] = s]
    /\ pc' = [pc EXCEPT ![w] = IF id \in onMap THEN "append" ELSE "store"]
    /\ ref' = [ref EXCEPT ![w] = IF id \in onMap THEN gen[id] ELSE 0]
    /\ UNCHANGED <<batcherVars, tableVars, tickVars, victim, policies, exported, age>>

(* Faulty store: it does not look whether another worker has been faster. *)
StoreAnyway(w) ==
    /\ pc[w] = "store"
    /\ gen[Id(w)] < MaxGen
    /\ onMap' = onMap \cup {Id(w)}
    /\ gen' = [gen EXCEPT ![Id(w)] = @ + 1]
    /\ ref' = [ref EXCEPT ![w] = gen[Id(w)] + 1]
    /\ pc' = [pc EXCEPT ![w] = "add"]
    /\ UNCHANGED <<batcherVars, tickVars, received, decision, deleteChan, numOnMap,
                   notOnTable, evictions, span, victim, todo, policies, exported, age>>

(* idToTrace.LoadOrStore: another worker may have stored it by now. *)
LoadOrStore(w) ==
    /\ pc[w] = "store"
    /\ IF Id(w) \in onMap
       THEN /\ ref' = [ref EXCEPT ![w] = gen[Id(w)]]
            /\ pc' = [pc EXCEPT ![w] = "append"]
            /\ UNCHANGED <<onMap, gen>>
       ELSE /\ gen[Id(w)] < MaxGen
            /\ onMap' = onMap \cup {Id(w)}
            /\ gen' = [gen EXCEPT ![Id(w)] = @ + 1]
            /\ ref' = [ref EXCEPT ![w] = gen[Id(w)] + 1]
            /\ pc' = [pc EXCEPT ![w] = "add"]
    /\ UNCHANGED <<batcherVars, tickVars, received, decision, deleteChan, numOnMap,
                   notOnTable, evictions, span, victim, todo, policies, exported, age>>

(* Faulty add: the trace is not counted. *)
AddUncounted(w) ==
    /\ pc[w] = "add"
    /\ AddToCurrentBatch(Id(w))
    /\ pc' = [pc EXCEPT ![w] = "post"]
    /\ UNCHANGED <<onMap, gen, received, decision, deleteChan, numOnMap, notOnTable,
                   evictions, span, ref, victim, todo, tickVars, policies, exported, age>>

(* A new trace goes to the batcher, and is counted. *)
Add(w) ==
    /\ pc[w] = "add"
    /\ AddToCurrentBatch(Id(w))
    /\ numOnMap' = numOnMap + 1
    /\ pc' = [pc EXCEPT ![w] = "post"]
    /\ UNCHANGED <<onMap, gen, received, decision, deleteChan, notOnTable, evictions,
                   span, ref, victim, todo, tickVars, policies, exported, age>>

(* The select: post the id for a later eviction, if there is room ... *)
Post(w) ==
    /\ pc[w] = "post"
    /\ Len(deleteChan) < NumTraces
    /\ deleteChan' = Append(deleteChan, Id(w))
    /\ pc' = [pc EXCEPT ![w] = "append"]
    /\ UNCHANGED <<batcherVars, tickVars, onMap, gen, received, decision, numOnMap,
                   notOnTable, evictions, span, ref, victim, todo, policies, exported, age>>

(* ... else commit to receiving one, which blocks if others empty the *)
(* channel first.                                                     *)
PostFull(w) ==
    /\ pc[w] = "post"
    /\ Len(deleteChan) = NumTraces
    /\ pc' = [pc EXCEPT ![w] = "evict"]
    /\ UNCHANGED <<batcherVars, tableVars, tickVars, span, ref, victim, todo,
                   policies, exported, age>>

TakeVictim(w) ==
    /\ pc[w] = "evict"
    /\ deleteChan # <<>>
    /\ victim' = [victim EXCEPT ![w] = Head(deleteChan)]
    /\ deleteChan' = Tail(deleteChan)
    /\ pc' = [pc EXCEPT ![w] = "drop"]
    /\ UNCHANGED <<batcherVars, tickVars, onMap, gen, received, decision, numOnMap,
                   notOnTable, evictions, span, ref, todo, policies, exported, age>>

Forget == [i \in Ids |-> 0]

(* Faulty drop: the worker has made room and forgets to use it. *)
DropTraceOnly(w) ==
    /\ pc[w] = "drop"
    /\ onMap' = onMap \ {victim[w]}
    /\ numOnMap' = numOnMap - 1
    /\ evictions' = TRUE
    /\ age' = Forget
    /\ victim' = [victim EXCEPT ![w] = NoId]
    /\ pc' = [pc EXCEPT ![w] = "append"]
    /\ UNCHANGED <<batcherVars, tickVars, gen, received, decision, deleteChan,
                   notOnTable, span, ref, todo, policies, exported>>

(* dropTrace, and back to the select. *)
DropTrace(w) ==
    /\ pc[w] = "drop"
    /\ IF victim[w] \in onMap
       THEN /\ onMap' = onMap \ {victim[w]}
            /\ numOnMap' = numOnMap - 1
            /\ evictions' = TRUE
            /\ age' = Forget
            /\ UNCHANGED notOnTable
       ELSE /\ notOnTable' = TRUE
            /\ UNCHANGED <<onMap, numOnMap, evictions, age>>
    /\ victim' = [victim EXCEPT ![w] = NoId]
    /\ pc' = [pc EXCEPT ![w] = "post"]
    /\ UNCHANGED <<batcherVars, tickVars, gen, received, decision, deleteChan,
                   span, ref, todo, policies, exported>>

(* Faulty append: a decision made in the meantime is not looked at. *)
AppendSpanAnyway(w) ==
    /\ pc[w] = "append"
    /\ received' = [received EXCEPT ![Id(w)][ref[w]] = @ \cup {span[w]}]
    /\ pc' = [pc EXCEPT ![w] = "idle"]
    /\ span' = [span EXCEPT ![w] = NoSpan]
    /\ ref' = [ref EXCEPT ![w] = 0]
    /\ UNCHANGED <<batcherVars, tickVars, onMap, gen, decision, deleteChan, numOnMap,
                   notOnTable, evictions, victim, todo, policies, exported, age>>

(* Under the object's lock: an undecided trace takes the span; a sampled   *)
(* one has it forwarded at once, any other one drops it.                   *)
AppendSpan(w) ==
    LET id == Id(w)
        d  == decision[id][ref[w]] IN
    /\ pc[w] = "append"
    /\ received' = IF d = "unspecified"
                   THEN [received EXCEPT ![id][ref[w]] = @ \cup {span[w]}]
                   ELSE received
    /\ exported' = IF d = "sampled"
                   THEN [exported EXCEPT ![span[w]] = @ + 1]
                   ELSE exported
    /\ pc' = [pc EXCEPT ![w] = "idle"]
    /\ span' = [span EXCEPT ![w] = NoSpan]
    /\ ref' = [ref EXCEPT ![w] = 0]
    /\ UNCHANGED <<batcherVars, tickVars, onMap, gen, decision, deleteChan, numOnMap,
                   notOnTable, evictions, victim, todo, policies, age>>

WorkerStep(w) ==
    \/ LoadOrStore(w) \/ Add(w) \/ Post(w) \/ PostFull(w)
    \/ TakeVictim(w) \/ DropTrace(w) \/ AppendSpan(w)

-------------------------------------------------------------------------------
(***************************************************************************)
(* samplingPolicyOnTick.                                                   *)
(***************************************************************************)
Older(a) == IF a < NumBatches THEN a + 1 ELSE a

(* The timer fires: take the oldest batch, or what is left of a stopped    *)
(* batcher; then close the current batch.                                  *)
OnTick ==
    /\ tpc = "idle"
    /\ TakeFirst
    /\ batch' = Head(pipe)
    /\ tpc' = "taken"
    /\ age' = [i \in Ids |-> IF gen[i] > 0 /\ ~evictions THEN Older(age[i]) ELSE age[i]]
    /\ UNCHANGED <<tableVars, workerVars, tref, tspans, policies, exported>>

OnTickLast ==
    /\ tpc = "idle"
    /\ TakeCurrent
    /\ batch' = current
    /\ tpc' = "eval"
    /\ UNCHANGED <<tableVars, workerVars, tref, tspans, policies, exported, age>>

CloseCurrent ==
    /\ tpc = "taken"
    /\ ReadStopped
    /\ tpc' = IF Stopped THEN "eval" ELSE "send"
    /\ UNCHANGED <<tableVars, workerVars, batch, tref, tspans, policies, exported, age>>

SendBatch ==
    /\ tpc = "send"
    /\ SendCurrent
    /\ tpc' = "eval"
    /\ UNCHANGED <<tableVars, workerVars, batch, tref, tspans, policies, exported, age>>

(* The next id of the batch: one that has been evicted is passed over. *)
EvalMissing ==
    /\ tpc = "eval"
    /\ batch # <<>>
    /\ Head(batch) \notin onMap
    /\ batch' = Tail(batch)
    /\ UNCHANGED <<batcherVars, tableVars, workerVars, tpc, tref, tspans, policies,
                   exported, age>>

(* makeDecision begins to look at the spans, without the object's lock. *)
EvalFound ==
    LET id == Head(batch) IN
    /\ tpc = "eval"
    /\ batch # <<>>
    /\ id \in onMap
    /\ tref' = gen[id]
    /\ tspans' = received[id][gen[id]]
    /\ tpc' = "decide"
    /\ UNCHANGED <<batcherVars, tableVars, workerVars, batch, policies, exported, age>>

(* makeDecision has a result; under the lock it is stored and the spans    *)
(* are copied; then a sampled trace goes to the next consumer.             *)
Decide ==
    LET id == Head(batch)
        spans == received[id][tref] IN
    /\ tpc = "decide"
    /\ \E d \in {MakeDecision(policies, id, view) :
                  view \in Views(policies, tspans, spans)} :
         /\ decision' = [decision EXCEPT ![id][tref] = d]
         /\ exported' = [s \in Spans |-> exported[s] + IF d = "sampled" /\ s \in spans
                                                      THEN 1 ELSE 0]
    /\ batch' = Tail(batch)
    /\ tref' = 0
    /\ tspans' = {}
    /\ tpc' = "eval"
    /\ UNCHANGED <<batcherVars, workerVars, onMap, gen, received, deleteChan, numOnMap,
                   notOnTable, evictions, policies, age>>

EndTick ==
    /\ tpc = "eval"
    /\ batch = <<>>
    /\ tpc' = "idle"
    /\ UNCHANGED <<batcherVars, tableVars, workerVars, batch, tref, tspans, policies,
                   exported, age>>

TickStep ==
    \/ OnTick \/ OnTickLast \/ CloseCurrent \/ SendBatch
    \/ EvalMissing \/ EvalFound \/ Decide \/ EndTick

-------------------------------------------------------------------------------
(* Shutdown, once the receivers have stopped: Stop the batcher, then the   *)
(* ticker, whose goroutine ends when it next waits.                        *)
Shutdown ==
    /\ \A w \in Workers : pc[w] = "idle"
    /\ StopClosePending
    /\ UNCHANGED <<tableVars, workerVars, tickVars, policies, exported, age>>

StopTicker ==
    /\ bpc = "closed"
    /\ tpc = "idle"
    /\ tpc' = "done"
    /\ UNCHANGED <<batcherVars, tableVars, workerVars, batch, tref, tspans, policies,
                   exported, age>>

BatcherStep ==
    /\ Fill \/ Stop
    /\ UNCHANGED <<tableVars, workerVars, tickVars, policies, exported, age>>

Terminated == tpc = "done" /\ UNCHANGED vars

Next ==
    \/ \E w \in Workers, s \in Spans : Load(w, s)
    \/ \E w \in Workers : WorkerStep(w)
    \/ TickStep
    \/ BatcherStep
    \/ Shutdown
    \/ StopTicker
    \/ Terminated

Spec == Init /\ [][Next]_vars

(***************************************************************************)
(* Fairness: a goroutine that can run does, and the timer fires again and  *)
(* again.  Receivers need not deliver anything, and nobody need stop the   *)
(* collector; a Shutdown that has begun goes on.  A writer that waits for  *)
(* an RWMutex holds up new readers, and a select with two ready cases      *)
(* takes either: so Stop and the end of the ticker are strongly fair.      *)
(***************************************************************************)
Fairness ==
    /\ \A w \in Workers : WF_vars(WorkerStep(w))
    /\ WF_vars(TickStep)
    /\ WF_vars(Fill /\ BatcherStep)
    /\ SF_vars(Stop /\ BatcherStep)
    /\ SF_vars(StopTicker)

FairSpec == Spec /\ Fairness

-------------------------------------------------------------------------------
TableTypeOK ==
    /\ onMap \subseteq Ids
    /\ gen \in [Ids -> Gens]
    /\ received \in [Ids -> [Gens -> SUBSET Spans]]
    /\ decision \in [Ids -> [Gens -> {"unspecified", "sampled", "notSampled"}]]
    /\ deleteChan \in Seq(Ids) /\ Len(deleteChan) <= NumTraces
    /\ numOnMap \in Nat
    /\ notOnTable \in BOOLEAN
    /\ evictions \in BOOLEAN

WorkerTypeOK ==
    /\ todo \subseteq Spans
    /\ pc \in [Workers -> {"idle", "store", "add", "post", "evict", "drop", "append"}]
    /\ span \in [Workers -> Spans \cup {NoSpan}]
    /\ ref \in [Workers -> Gens]
    /\ victim \in [Workers -> Ids \cup {NoId}]

TickTypeOK ==
    /\ tpc \in {"idle", "taken", "send", "eval", "decide", "done"}
    /\ batch \in Seq(Ids)
    /\ tref \in Gens
    /\ tspans \subseteq Spans

OtherTypeOK ==
    /\ policies \in PolicyLists
    /\ exported \in [Spans -> Nat]
    /\ age \in [Ids -> 0 .. NumBatches]

(* The types of the variables; the channels keep to their capacities, and  *)
(* the counter of traces, which is decremented as an unsigned number, does *)
(* not go below zero.                                                      *)
TypeOK == BatcherTypeOK /\ TableTypeOK /\ WorkerTypeOK /\ TickTypeOK /\ OtherTypeOK

(* The workers that have stored a trace and not yet posted its id. *)
Creating(w) == pc[w] \in {"add", "post", "evict", "drop"}

(* The ids in deleteChan, those of the traces that are being created, and  *)
(* those that are being dropped.                                           *)
Posted == {deleteChan[k] : k \in 1 .. Len(deleteChan)}

Created == {Id(w) : w \in {v \in Workers : Creating(v)}}

Victims == {victim[w] : w \in {v \in Workers : pc[v] = "drop"}}

PostedOnce ==
    \A k, l \in 1 .. Len(deleteChan) : deleteChan[k] = deleteChan[l] => k = l

CreatedOnce ==
    \A v, w \in Workers : Creating(v) /\ Creating(w) /\ Id(v) = Id(w) => v = w

DroppedOnce ==
    \A v, w \in Workers : pc[v] = "drop" /\ pc[w] = "drop" /\ victim[v] = victim[w] => v = w

(* Every trace in memory has one token, and nothing else has one: its id   *)
(* is in deleteChan, once, or with the worker that is about to post it, or *)
(* with the worker that is about to drop it.  So dropTrace always finds    *)
(* its trace ("Attempt to delete traceID not on table" is never logged),   *)
(* no trace can escape eviction, and memory holds num_traces traces and    *)
(* those the workers are handling.                                         *)
OneTokenPerTrace ==
    /\ ~notOnTable
    /\ PostedOnce /\ CreatedOnce /\ DroppedOnce
    /\ Posted \cap Created = {} /\ Posted \cap Victims = {} /\ Created \cap Victims = {}
    /\ onMap = Posted \cup Created \cup Victims

(* A worker that has committed to receive from deleteChan is never left    *)
(* waiting for an id nobody will post, although other workers may take     *)
(* every id between its look at the channel and its receive.               *)
EvictorServed ==
    (\E w \in Workers : pc[w] = "evict") =>
        \/ deleteChan # <<>>
        \/ \E w \in Workers : pc[w] \in {"post", "drop"}

(* The timer never sends on the pipe after Stop has closed it, which would *)
(* panic: the lock that Stop takes covers the look and the send.           *)
NoSendOnClosed == reader => bpc \in {"running", "draining"}

(* While no trace has been evicted and the pipe is not closed, a trace is  *)
(* decided no sooner than the decision wait after its first span:          *)
(* NumBatches ticks begin in between.                                      *)
DecisionWaits ==
    ~evictions /\ bpc # "closed" =>
        \A i \in Ids : decision[i][1] # "unspecified" => age[i] = NumBatches

(* While no trace has been evicted, every span that has been accepted is   *)
(* kept until its trace is decided, and then exported exactly once or not  *)
(* at all: no span falls between the decision and the append.              *)
SpanFate ==
    ~evictions =>
        \A s \in Spans \ todo :
            (\A w \in Workers : span[w] # s) =>
                LET i == TraceOf[s] IN
                /\ decision[i][1] = "unspecified" =>
                     s \in received[i][1] /\ exported[s] = 0
                /\ decision[i][1] = "sampled" => exported[s] = 1
                /\ decision[i][1] = "notSampled" => exported[s] = 0

(* Every trace in memory is decided, unless it is evicted or the processor *)
(* is shut down.                                                           *)
EventuallyDecided ==
    \A i \in Ids :
        (i \in onMap /\ decision[i][gen[i]] = "unspecified") ~>
            (i \notin onMap \/ decision[i][gen[i]] # "unspecified" \/ bpc # "running")

(* ConsumeTraces returns, however the workers compete for deleteChan and   *)
(* however slowly the batcher takes ids.                                   *)
ConsumeReturns == \A w \in Workers : pc[w] # "idle" ~> pc[w] = "idle"

(* A Shutdown that has begun ends, with the timer's goroutine gone: Stop   *)
(* waits under a lock for a goroutine that does not need it.               *)
ShutdownEnds == bpc # "running" ~> tpc = "done"
===============================================================================
