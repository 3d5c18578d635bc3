----------------------------- MODULE LogsExporter -----------------------------
(***************************************************************************)
(* The push path of the ClickHouse logs exporter                           *)
(* (src/exporter/clickhouselogsexporter/exporter.go).  Each call of        *)
(* pushLogsData runs a pipeline of its own: the calling goroutine starts   *)
(* one producer per log record, a limiter that all calls share bounding    *)
(* the producers; producers send records on a bounded channel; one         *)
(* consumer appends them to the insert batches.  An error of a producer or *)
(* of the consumer, or the end of the caller's context, ends the group's   *)
(* context.  After the group the resource fingerprints are appended,       *)
(* unless a cache that all calls share says they are known, and the        *)
(* batches are sent in parallel.  The exporter framework retries a call    *)
(* that failed.                                                            *)
(***************************************************************************)
EXTENDS Naturals, Sequences, FiniteSets

CONSTANTS
    Pushes,        \* the requests
    Records,       \* log records, each of one request
    Data,          \* the sequence of records of each request
    Resources,     \* resource fingerprints (with their time bucket)
    ResourceOf,    \* the fingerprint of each record
    Old,           \* records older than the exporter accepts
    Limit,         \* capacity of the limiter and of a record stream
    MaxAttempts    \* bound: calls made for each request

ASSUME ExporterAssumption ==
    /\ Data \in [Pushes -> Seq(Records)]
    /\ \A p, q \in Pushes : \A i \in 1 .. Len(Data[p]), j \in 1 .. Len(Data[q]) :
         Data[p][i] = Data[q][j] => p = q /\ i = j
    /\ ResourceOf \in [Records -> Resources]
    /\ Old \subseteq Records
    /\ Limit \in Nat \ {0}
    /\ MaxAttempts \in [Pushes -> Nat]

VARIABLES
    ppc,         \* where each call of pushLogsData is
    attempts,    \* calls made for each request
    ctxDone,     \* the caller's context has ended
    groupErr,    \* the group has an error, which has canceled its context
    next,        \* index of the next record to start a producer for
    running,     \* the records whose producers run, and hold the limiter
    sending,     \* those whose producers have come to the send
    stream,      \* the channel recordStream
    closed,      \* recordStream is closed
    cpc,         \* the consumer
    seen,        \* resourcesSeen
    rows,        \* records appended to the batch for the logs table
    resRows,     \* fingerprints appended to the batch for the resources table
    rfCache,     \* the cache of fingerprints
    logsTable,   \* the records that have been inserted
    resTable,    \* the fingerprints that have been inserted
    lost,        \* those that are in the cache though their insert failed
    spc          \* the exporter's shutdown

locals == <<ctxDone, groupErr, next, stream, closed, cpc, seen, rows, resRows>>
limiterVars == <<running, sending>>
dbVars == <<rfCache, logsTable, resTable, lost>>
vars == <<ppc, attempts, locals, limiterVars, dbVars, spc>>

Of(p) == {Data[p][i] : i \in 1 .. Len(Data[p])}

Active(p) == ppc[p] \in {"begin", "prepare", "loop", "wait", "resources", "send"}

(* The calls that use the database. *)
UsesDb(p) == ppc[p] \in {"prepare", "loop", "wait", "resources", "send"}

Producing(p) == running \cap Of(p) # {}

GroupDone(p) == ctxDone[p] \/ groupErr[p]

Init ==
    /\ ppc = [p \in Pushes |-> "new"]
    /\ attempts = [p \in Pushes |-> 0]
    /\ ctxDone = [p \in Pushes |-> FALSE]
    /\ groupErr = [p \in Pushes |-> FALSE]
    /\ next = [p \in Pushes |-> 1]
    /\ running = {}
    /\ sending = {}
    /\ stream = [p \in Pushes |-> <<>>]
    /\ closed = [p \in Pushes |-> FALSE]
    /\ cpc = [p \in Pushes |-> "off"]
    /\ seen = [p \in Pushes |-> {}]
    /\ rows = [p \in Pushes |-> {}]
    /\ resRows = [p \in Pushes |-> {}]
    /\ rfCache = {}
    /\ logsTable = {}
    /\ resTable = {}
    /\ lost = {}
    /\ spc = "up"

-------------------------------------------------------------------------------
(* pushLogsData is called: it counts itself in the exporter's wait group,  *)
(* and only then looks whether the exporter is shutting down.  The first   *)
(* call for a request and a retry are alike.                               *)
Call(p) ==
    /\ ppc[p] \in {"new", "failed"}
    /\ attempts[p] < MaxAttempts[p]
    /\ ppc' = [ppc EXCEPT ![p] = "begin"]
    /\ attempts' = [attempts EXCEPT ![p] = @ + 1]
    /\ UNCHANGED <<locals, limiterVars, dbVars, spc>>

(* The call returns, and what it kept for itself is gone. *)
Return(p, outcome) ==
    /\ ppc' = [ppc EXCEPT ![p] = outcome]
    /\ ctxDone' = [ctxDone EXCEPT ![p] = FALSE]
    /\ groupErr' = [groupErr EXCEPT ![p] = FALSE]
    /\ next' = [next EXCEPT ![p] = 1]
    /\ stream' = [stream EXCEPT ![p] = <<>>]
    /\ closed' = [closed EXCEPT ![p] = FALSE]
    /\ cpc' = [cpc EXCEPT ![p] = "off"]
    /\ seen' = [seen EXCEPT ![p] = {}]
    /\ rows' = [rows EXCEPT ![p] = {}]
    /\ resRows' = [resRows EXCEPT ![p] = {}]

(* Faulty look: the exporter's shutdown goes unnoticed. *)
LookClosedNever(p) ==
    /\ ppc[p] = "begin"
    /\ ppc' = [ppc EXCEPT ![p] = "prepare"]
    /\ UNCHANGED <<attempts, locals, limiterVars, dbVars, spc>>

LookClosed(p) ==
    /\ ppc[p] = "begin"
    /\ IF spc = "up"
       THEN ppc' = [ppc EXCEPT ![p] = "prepare"] /\ UNCHANGED locals
       ELSE Return(p, "failed")
    /\ UNCHANGED <<attempts, limiterVars, dbVars, spc>>

(* The caller's context ends: the request's timeout, or the framework. *)
Cancel(p) ==
    /\ Active(p)
    /\ ~ctxDone[p]
    /\ ctxDone' = [ctxDone EXCEPT ![p] = TRUE]
    /\ UNCHANGED <<ppc, attempts, groupErr, next, stream, closed, cpc, seen, rows, resRows,
                   limiterVars, dbVars, spc>>

(* The batches are prepared, which fails on a context that has ended, and  *)
(* may fail otherwise; then the consumer is started.                       *)
PrepareFail(p) ==
    /\ ppc[p] = "prepare"
    /\ Return(p, "failed")
    /\ UNCHANGED <<attempts, limiterVars, dbVars, spc>>

Prepare(p) ==
    /\ ppc[p] = "prepare"
    /\ ~ctxDone[p]
    /\ ppc' = [ppc EXCEPT ![p] = "loop"]
    /\ cpc' = [cpc EXCEPT ![p] = "run"]
    /\ UNCHANGED <<attempts, ctxDone, groupErr, next, stream, closed, seen, rows, resRows,
                   limiterVars, dbVars, spc>>

-------------------------------------------------------------------------------
(* The loop over the records: the select takes a place in the limiter, or  *)
(* leaves the loop when the group's context has ended; if both are ready,  *)
(* either.                                                                 *)
StartProducer(p) ==
    /\ ppc[p] = "loop"
    /\ next[p] <= Len(Data[p])
    /\ Cardinality(running) < Limit
    /\ running' = running \cup {Data[p][next[p]]}
    /\ next' = [next EXCEPT ![p] = @ + 1]
    /\ UNCHANGED <<ppc, attempts, ctxDone, groupErr, stream, closed, cpc, seen, rows,
                   resRows, sending, dbVars, spc>>

LeaveLoop(p) ==
    /\ ppc[p] = "loop"
    /\ next[p] > Len(Data[p]) \/ GroupDone(p)
    /\ ppc' = [ppc EXCEPT ![p] = "wait"]
    /\ UNCHANGED <<attempts, locals, limiterVars, dbVars, spc>>

(* A producer skips an old record, or fails to make an id, or notes the     *)
(* record's fingerprint and goes on to send the record.  The send blocks    *)
(* while the stream is full, whatever has become of the group.  When the    *)
(* producer ends it gives its place in the limiter back.                    *)
ProduceSkip(p, r) ==
    /\ r \in running \cap Of(p) \cap Old
    /\ running' = running \ {r}
    /\ UNCHANGED <<ppc, attempts, locals, sending, dbVars, spc>>

ProduceFail(p, r) ==
    /\ r \in (running \cap Of(p)) \ (Old \cup sending)
    /\ running' = running \ {r}
    /\ groupErr' = [groupErr EXCEPT ![p] = TRUE]
    /\ UNCHANGED <<ppc, attempts, ctxDone, next, stream, closed, cpc, seen, rows,
                   resRows, sending, dbVars, spc>>

ProduceRecord(p, r) ==
    /\ r \in (running \cap Of(p)) \ (Old \cup sending)
    /\ seen' = [seen EXCEPT ![p] = @ \cup {ResourceOf[r]}]
    /\ sending' = sending \cup {r}
    /\ UNCHANGED <<ppc, attempts, ctxDone, groupErr, next, stream, closed, cpc, rows,
                   resRows, running, dbVars, spc>>

ProduceSend(p, r) ==
    /\ r \in sending \cap Of(p)
    /\ Len(stream[p]) < Limit
    /\ stream' = [stream EXCEPT ![p] = Append(@, r)]
    /\ running' = running \ {r}
    /\ sending' = sending \ {r}
    /\ UNCHANGED <<ppc, attempts, ctxDone, groupErr, next, closed, cpc, seen, rows,
                   resRows, dbVars, spc>>

-------------------------------------------------------------------------------
(* The consumer: its select takes a record, the end of the stream, or the  *)
(* end of the group's context, which is not an error.                      *)
ConsumeAppend(p) ==
    /\ cpc[p] = "run"
    /\ stream[p] # <<>>
    /\ rows' = [rows EXCEPT ![p] = @ \cup {Head(stream[p])}]
    /\ stream' = [stream EXCEPT ![p] = Tail(@)]
    /\ UNCHANGED <<ppc, attempts, ctxDone, groupErr, next, closed, cpc, seen, resRows,
                   limiterVars, dbVars, spc>>

(* Faulty consumer: it leaves out a record that cannot be appended. *)
ConsumeSkip(p) ==
    /\ cpc[p] = "run"
    /\ stream[p] # <<>>
    /\ stream' = [stream EXCEPT ![p] = Tail(@)]
    /\ UNCHANGED <<ppc, attempts, ctxDone, groupErr, next, closed, cpc, seen, rows,
                   resRows, limiterVars, dbVars, spc>>

ConsumeFail(p) ==
    /\ cpc[p] = "run"
    /\ stream[p] # <<>>
    /\ stream' = [stream EXCEPT ![p] = Tail(@)]
    /\ groupErr' = [groupErr EXCEPT ![p] = TRUE]
    /\ cpc' = [cpc EXCEPT ![p] = "exit"]
    /\ UNCHANGED <<ppc, attempts, ctxDone, next, closed, seen, rows, resRows,
                   limiterVars, dbVars, spc>>

(* Faulty consumer: it leaves for the end of the context only. *)
ConsumeEndCanceled(p) ==
    /\ cpc[p] = "run"
    /\ GroupDone(p)
    /\ cpc' = [cpc EXCEPT ![p] = "exit"]
    /\ UNCHANGED <<ppc, attempts, ctxDone, groupErr, next, stream, closed, seen, rows,
                   resRows, limiterVars, dbVars, spc>>

ConsumeEnd(p) ==
    /\ cpc[p] = "run"
    /\ GroupDone(p) \/ (closed[p] /\ stream[p] = <<>>)
    /\ cpc' = [cpc EXCEPT ![p] = "exit"]
    /\ UNCHANGED <<ppc, attempts, ctxDone, groupErr, next, stream, closed, seen, rows,
                   resRows, limiterVars, dbVars, spc>>

(* The goroutine that closes the stream when all producers have ended. *)
CloseStream(p) ==
    /\ ppc[p] = "wait"
    /\ ~Producing(p)
    /\ ~closed[p]
    /\ closed' = [closed EXCEPT ![p] = TRUE]
    /\ UNCHANGED <<ppc, attempts, ctxDone, groupErr, next, stream, cpc, seen, rows,
                   resRows, limiterVars, dbVars, spc>>

(* group.Wait returns the group's first error; the end of the caller's     *)
(* context alone is none.                                                  *)
GroupWait(p) ==
    /\ ppc[p] = "wait"
    /\ cpc[p] = "exit"
    /\ ~Producing(p)
    /\ IF groupErr[p]
       THEN Return(p, "failed")
       ELSE ppc' = [ppc EXCEPT ![p] = "resources"] /\ UNCHANGED locals
    /\ UNCHANGED <<attempts, limiterVars, dbVars, spc>>

-------------------------------------------------------------------------------
(* The batch of fingerprints: preparing it fails on a context that has     *)
(* ended, and may fail otherwise; a fingerprint in the cache is left out,  *)
(* any other one is appended and put into the cache at once, so that a     *)
(* failure leaves those before it there.                                   *)
ResourcesFail(p) ==
    /\ ppc[p] = "resources"
    /\ \E S \in SUBSET (seen[p] \ rfCache) :
         /\ ctxDone[p] => S = {}
         /\ rfCache' = rfCache \cup S
         /\ lost' = lost \cup S
    /\ Return(p, "failed")
    /\ UNCHANGED <<attempts, limiterVars, logsTable, resTable, spc>>

AppendResources(p) ==
    /\ ppc[p] = "resources"
    /\ ~ctxDone[p]
    /\ resRows' = [resRows EXCEPT ![p] = seen[p] \ rfCache]
    /\ rfCache' = rfCache \cup seen[p]
    /\ ppc' = [ppc EXCEPT ![p] = "send"]
    /\ UNCHANGED <<attempts, ctxDone, groupErr, next, stream, closed, cpc, seen, rows,
                   limiterVars, logsTable, resTable, lost, spc>>

(* The batches are sent in parallel, and each may fail.  The call succeeds *)
(* if none does; an error that says that an insert has too many partitions *)
(* is reported as success too, and the batch is dropped.                   *)
Send(p) ==
    /\ ppc[p] = "send"
    /\ \E logsOk, resOk, othersOk \in BOOLEAN, outcome \in {"acked", "failed", "dropped"} :
         /\ outcome = "acked" <=> logsOk /\ resOk /\ othersOk
         /\ logsTable' = IF logsOk THEN logsTable \cup rows[p] ELSE logsTable
         /\ resTable' = IF resOk THEN resTable \cup resRows[p] ELSE resTable
         /\ lost' = IF resOk THEN lost ELSE lost \cup resRows[p]
         /\ Return(p, outcome)
    /\ UNCHANGED <<attempts, limiterVars, rfCache, spc>>

-------------------------------------------------------------------------------
(* Shutdown: refuse new calls, wait for those that have begun, close the   *)
(* database.                                                               *)
Shutdown ==
    /\ spc = "up"
    /\ spc' = "closing"
    /\ UNCHANGED <<ppc, attempts, locals, limiterVars, dbVars>>

ShutdownWait ==
    /\ spc = "closing"
    /\ \A p \in Pushes : ~Active(p)
    /\ spc' = "closed"
    /\ UNCHANGED <<ppc, attempts, locals, limiterVars, dbVars>>

ProducerStep(p, r) ==
    ProduceSkip(p, r) \/ ProduceFail(p, r) \/ ProduceRecord(p, r) \/ ProduceSend(p, r)

ConsumerStep(p) == ConsumeAppend(p) \/ ConsumeFail(p) \/ ConsumeEnd(p)

CallStep(p) ==
    \/ LookClosed(p) \/ PrepareFail(p) \/ Prepare(p)
    \/ StartProducer(p) \/ LeaveLoop(p) \/ GroupWait(p)
    \/ ResourcesFail(p) \/ AppendResources(p) \/ Send(p)

Next ==
    \/ \E p \in Pushes :
         \/ Call(p) \/ Cancel(p) \/ CallStep(p)
         \/ \E r \in Records : ProducerStep(p, r)
         \/ ConsumerStep(p) \/ CloseStream(p)
    \/ Shutdown \/ ShutdownWait

Spec == Init /\ [][Next]_vars

(***************************************************************************)
(* Fairness: every goroutine that can run does.  Nothing makes a caller    *)
(* come, give up or retry, or the collector stop.  The limiter is a        *)
(* channel, whose waiting senders are served in their order: a call that   *)
(* waits for a place gets one if places keep coming free.                  *)
(***************************************************************************)
Fairness ==
    /\ \A p \in Pushes :
         /\ WF_vars(CallStep(p))
         /\ SF_vars(StartProducer(p))
         /\ WF_vars(ConsumerStep(p))
         /\ WF_vars(CloseStream(p))
         /\ \A r \in Records : WF_vars(ProducerStep(p, r))
    /\ WF_vars(ShutdownWait)

FairSpec == Spec /\ Fairness

-------------------------------------------------------------------------------
(* A call that reports success, other than by dropping the batch, has      *)
(* inserted every record that is not too old: the consumer never leaves    *)
(* the pipeline early without the call failing, be it by an error, the end *)
(* of the context or the closing of the stream.  The fingerprints of these *)
(* records are stored too, are about to be by another call that has put    *)
(* them into the cache, or were lost by one whose insert failed.           *)
AckedComplete ==
    \A p \in Pushes :
        ppc[p] = "acked" =>
            \A r \in Of(p) \ Old :
                /\ r \in logsTable
                /\ ResourceOf[r] \in resTable \cup lost \cup UNION {resRows[q] : q \in Pushes}

(* Nothing is used after it was closed.  No producer sends on a stream     *)
(* that the goroutine behind the loop has closed, which would panic; and   *)
(* no call uses the database after Shutdown has closed it, although calls  *)
(* may begin while Shutdown waits, and after it.                           *)
NoUseAfterClose ==
    \A p \in Pushes : (closed[p] => ~Producing(p)) /\ (spc = "closed" => ~UsesDb(p))

(* While no group's context has ended, every call returns: the stream is   *)
(* closed when the producers are done, and the consumer with it (Case 1 of *)
(* the comment on recordStream).                                           *)
UndisturbedCallsReturn ==
    \A p \in Pushes :
        Active(p) ~> (~Active(p) \/ \E q \in Pushes : GroupDone(q))

-------------------------------------------------------------------------------
(* Case 2 of the comment on recordStream: when an error occurs in a        *)
(* producer or the consumer, "both will exit with the help of              *)
(* groupCtx.Done()", so that the call returns.                             *)
FailedGroupsExit ==
    \A p \in Pushes : (ppc[p] = "wait" /\ groupErr[p]) ~> ~Active(p)
===============================================================================
