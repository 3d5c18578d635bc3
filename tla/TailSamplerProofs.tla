-------------------------- MODULE TailSamplerProofs --------------------------
(***************************************************************************)
(* Proofs about the tail sampler, for any number of workers, traces, spans *)
(* and batches and any capacity of the channels.                           *)
(*                                                                         *)
(* The inductive invariant adds two facts to the invariants that TLC       *)
(* checks: what the goroutines hold while they are at work (Carries), and  *)
(* that numTracesOnMap is the number of the traces in the map other than   *)
(* those a worker has stored and not yet counted (Counted).  The second is *)
(* what keeps the counter, which is decremented like an unsigned number,   *)
(* from going below zero.                                                  *)
(*                                                                         *)
(* What is promised only while nothing has been evicted (SpanFate,         *)
(* DecisionWaits) rests on a second invariant, FirstInv, about the line in *)
(* which the ids wait for their decision.                                  *)
(***************************************************************************)
EXTENDS TailSampler, FiniteSetTheorems, SequenceTheorems, WellFoundedInduction, TLAPS

(* A worker in processTraces carries a span, one that drops a trace has    *)
(* its id, and the timer decides about a trace of its batch.               *)
Carries ==
    /\ \A w \in Workers : pc[w] # "idle" => span[w] \in Spans
    /\ \A w \in Workers : pc[w] = "drop" => victim[w] \in Ids
    /\ tpc = "decide" => batch # <<>>

(* The traces that have been counted. *)
CountedIds == onMap \ {Id(w) : w \in {v \in Workers : pc[v] = "add"}}

(* The field numTracesOnMap is their number. *)
Counted ==
    /\ IsFiniteSet(CountedIds)
    /\ numOnMap = Cardinality(CountedIds)

-------------------------------------------------------------------------------
(* A nonempty set of natural numbers has a least element, so First, the    *)
(* index at which a loop over policies stops, is well defined.             *)
LEMMA FirstIsLeast ==
    ASSUME NEW S, S \subseteq Nat, S # {}
    PROVE  First(S) \in S
PROOF
<1>1. PICK x \in S : \A y \in S : ~(<<y, x>> \in OpToRel(<, Nat))
    BY NatLessThanWellFounded, WFMin
<1>2. \A y \in S : x <= y
  <2>1. SUFFICES ASSUME NEW y \in S, y < x PROVE FALSE
      BY SMT
  <2>2. <<y, x>> \in Nat \X Nat /\ <<y, x>>[1] < <<y, x>>[2]
      BY <2>1
  <2>3. <<y, x>> \in OpToRel(<, Nat)
      BY <2>2 DEF OpToRel
  <2> QED BY <1>1, <2>3
<1> QED BY <1>2 DEF First

(* makeDecision always comes to a decision: the policy at which its loop   *)
(* stops has a result, and without one the trace is sampled.               *)
LEMMA MakeDecisionDecides ==
    ASSUME NEW ps, Len(ps) \in Nat, NEW id, NEW view
    PROVE  MakeDecision(ps, id, view) \in {"sampled", "notSampled"}
PROOF
<1> DEFINE deciding == {i \in 1 .. Len(ps) : Evaluate(ps[i], id, view) # "noResult"}
<1>1. \A p : Evaluate(p, id, view) \in {"noResult", "sampled", "notSampled"}
    BY DEF Evaluate, SamplerResult
<1>2. deciding # {} => First(deciding) \in deciding
  <2>1. deciding \subseteq Nat OBVIOUS
  <2> QED BY <2>1, FirstIsLeast
<1> QED BY <1>1, <1>2 DEF MakeDecision

-------------------------------------------------------------------------------
(* The initial states satisfy the inductive invariant. *)
LEMMA InitInv == Init => TypeOK /\ Carries /\ OneTokenPerTrace /\ Counted
PROOF
<1> SUFFICES ASSUME Init PROVE TypeOK /\ Carries /\ OneTokenPerTrace /\ Counted
    OBVIOUS
<1> USE BatcherAssumption, SamplerAssumption DEF Init, BatcherInit
<1>1. TypeOK
  <2>1. pipe \in Seq(Seq(Ids)) /\ Len(pipe) <= NumBatches
    <3>1. <<>> \in Seq(Ids)
        OBVIOUS
    <3>2. pipe \in [1 .. NumBatches -> Seq(Ids)]
        BY <3>1
    <3>3. NumBatches \in Nat
        BY BatcherAssumption
    <3> HIDE DEF Init, BatcherInit
    <3>4. pipe \in Seq(Seq(Ids))
        BY <3>2, <3>3
    <3>5. Len(pipe) = NumBatches
        BY <3>2, <3>3, <3>4
    <3> QED BY <3>3, <3>4, <3>5
  <2>2. BatcherTypeOK
    <3>1. pending = <<>> /\ fill = NoId /\ current = <<>> /\ reader = FALSE /\ bpc = "running"
        OBVIOUS
    <3> HIDE DEF Init, BatcherInit
    <3>2. pending \in Seq(Ids) /\ Len(pending) <= PendingCap /\ current \in Seq(Ids)
        BY <3>1
    <3> QED BY <2>1, <3>1, <3>2, Zenon DEF BatcherTypeOK
  <2>3. 0 \in Gens
      BY DEF Gens
  <2>4. TableTypeOK
    <3>1. /\ received \in [Ids -> [Gens -> SUBSET Spans]]
          /\ decision \in [Ids -> [Gens -> {"unspecified", "sampled", "notSampled"}]]
        OBVIOUS
    <3>2. /\ onMap = {} /\ gen = [i \in Ids |-> 0]
          /\ deleteChan = <<>> /\ numOnMap = 0 /\ notOnTable = FALSE /\ evictions = FALSE
        OBVIOUS
    <3> HIDE DEF Init, BatcherInit
    <3>3. gen \in [Ids -> Gens] /\ deleteChan \in Seq(Ids) /\ Len(deleteChan) <= NumTraces
        BY <2>3, <3>2
    <3> QED BY <3>1, <3>2, <3>3 DEF TableTypeOK
  <2>5. WorkerTypeOK
      BY <2>3 DEF WorkerTypeOK
  <2>6. TickTypeOK
      BY <2>3 DEF TickTypeOK
  <2>7. OtherTypeOK
      BY DEF OtherTypeOK
  <2> QED BY <2>2, <2>4, <2>5, <2>6, <2>7 DEF TypeOK
<1>2. Carries
    BY DEF Carries
<1>3. OneTokenPerTrace
    BY DEF OneTokenPerTrace, PostedOnce, CreatedOnce, DroppedOnce, Posted, Created, Victims,
           Creating
<1>4. Counted
    BY FS_EmptySet DEF Counted, CountedIds
<1> QED BY <1>1, <1>2, <1>3, <1>4

-------------------------------------------------------------------------------
(* A group of variables that does not change keeps its type. *)
LEMMA TypeFrame ==
    /\ BatcherTypeOK /\ UNCHANGED batcherVars => BatcherTypeOK'
    /\ TableTypeOK /\ UNCHANGED tableVars => TableTypeOK'
    /\ WorkerTypeOK /\ UNCHANGED workerVars => WorkerTypeOK'
    /\ TickTypeOK /\ UNCHANGED tickVars => TickTypeOK'
    /\ OtherTypeOK /\ UNCHANGED <<policies, exported, age>> => OtherTypeOK'
PROOF
<1>1. BatcherTypeOK /\ UNCHANGED batcherVars => BatcherTypeOK'
    BY DEF BatcherTypeOK, batcherVars
<1>2. TableTypeOK /\ UNCHANGED tableVars => TableTypeOK'
    BY DEF TableTypeOK, tableVars
<1>3. WorkerTypeOK /\ UNCHANGED workerVars => WorkerTypeOK'
    BY DEF WorkerTypeOK, workerVars
<1>4. TickTypeOK /\ UNCHANGED tickVars => TickTypeOK'
    BY DEF TickTypeOK, tickVars
<1>5. OtherTypeOK /\ UNCHANGED <<policies, exported, age>> => OtherTypeOK'
    BY DEF OtherTypeOK
<1> QED BY <1>1, <1>2, <1>3, <1>4, <1>5

(* What the batcher's operations do to its state is well typed. *)
LEMMA BatcherTypeStep ==
    ASSUME BatcherTypeOK,
           \/ \E id \in Ids : AddToCurrentBatch(id)
           \/ Fill \/ Stop \/ StopClosePending
           \/ TakeFirst \/ ReadStopped \/ SendCurrent \/ TakeCurrent
    PROVE  BatcherTypeOK'
PROOF
<1> USE BatcherAssumption DEF BatcherTypeOK
<1>1. ASSUME NEW id \in Ids, AddToCurrentBatch(id) PROVE BatcherTypeOK'
    BY <1>1 DEF AddToCurrentBatch
<1>2. CASE FillTake
    BY <1>2 DEF FillTake
<1>3. CASE FillAppend
    BY <1>3 DEF FillAppend
<1>4. CASE StopLock \/ StopWait \/ StopClosePipe \/ StopClosePending
    BY <1>4 DEF StopLock, StopWait, StopClosePipe, StopClosePending
<1>5. CASE TakeFirst
    BY <1>5 DEF TakeFirst
<1>6. CASE ReadStopped
  <2>1. reader' \in BOOLEAN
      BY <1>6, Zenon DEF ReadStopped
  <2> QED BY <1>6, <2>1 DEF ReadStopped
<1>7. CASE SendCurrent
  <2>1. pipe' = Append(pipe, current) /\ Len(pipe) < NumBatches /\ reader' = FALSE
      BY <1>7 DEF SendCurrent
  <2>2. pipe' \in Seq(Seq(Ids)) /\ Len(pipe') = Len(pipe) + 1
      BY <2>1, AppendProperties
  <2>3. Len(pipe') <= NumBatches
      BY <2>1, <2>2, LenProperties
  <2>4. current' \in Seq(Ids)
      BY <1>7 DEF SendCurrent
  <2> QED BY <1>7, <2>2, <2>3, <2>4, Zenon DEF SendCurrent
<1>8. CASE TakeCurrent
    BY <1>8 DEF TakeCurrent
<1> QED BY <1>1, <1>2, <1>3, <1>4, <1>5, <1>6, <1>7, <1>8 DEF Fill, Stop

(* Every step preserves the types; that the counter stays a natural number *)
(* is left to CountedStep.                                                 *)
LEMMA TypeStep ==
    ASSUME TypeOK, Carries, Next, numOnMap' \in Nat
    PROVE  TypeOK'
PROOF
<1> USE BatcherAssumption, SamplerAssumption, TypeFrame
<1> USE DEF TypeOK, Carries
<1>gens. MaxGen \in Gens /\ 0 \in Gens /\ Gens \subseteq Nat
    BY DEF Gens
<1>1. ASSUME NEW w \in Workers, NEW s \in Spans, Load(w, s) PROVE TypeOK'
  <2>1. WorkerTypeOK'
      BY <1>1, <1>gens DEF Load, WorkerTypeOK, TableTypeOK
  <2> QED BY <1>1, <2>1 DEF Load
<1>2. ASSUME NEW w \in Workers, LoadOrStore(w) PROVE TypeOK'
  <2>id. Id(w) \in Ids
      BY <1>2 DEF LoadOrStore, Id
  <2>1. gen[Id(w)] \in Gens /\ (gen[Id(w)] < MaxGen => gen[Id(w)] + 1 \in Gens)
      BY <2>id DEF TableTypeOK, Gens
  <2>2. CASE Id(w) \in onMap
    <3>1. WorkerTypeOK'
        BY <1>2, <2>1, <2>2 DEF LoadOrStore, WorkerTypeOK
    <3>2. TableTypeOK'
        BY <1>2, <2>2 DEF LoadOrStore, TableTypeOK
    <3> QED BY <1>2, <3>1, <3>2 DEF LoadOrStore
  <2>3. CASE Id(w) \notin onMap
    <3>1. gen[Id(w)] + 1 \in Gens
        BY <1>2, <2>1, <2>3 DEF LoadOrStore
    <3>2. WorkerTypeOK'
        BY <1>2, <2>3, <3>1 DEF LoadOrStore, WorkerTypeOK
    <3>3. TableTypeOK'
        BY <1>2, <2>3, <2>id, <3>1 DEF LoadOrStore, TableTypeOK
    <3> QED BY <1>2, <3>2, <3>3 DEF LoadOrStore
  <2> QED BY <2>2, <2>3
<1>3. ASSUME NEW w \in Workers, Add(w) PROVE TypeOK'
  <2>id. Id(w) \in Ids
      BY <1>3 DEF Add, Id
  <2>1. BatcherTypeOK'
      BY <1>3, <2>id, BatcherTypeStep DEF Add
  <2>2. TableTypeOK'
      BY <1>3 DEF Add, TableTypeOK
  <2>3. WorkerTypeOK'
      BY <1>3 DEF Add, WorkerTypeOK
  <2> QED BY <1>3, <2>1, <2>2, <2>3 DEF Add
<1>4. ASSUME NEW w \in Workers, Post(w) PROVE TypeOK'
  <2>id. Id(w) \in Ids
      BY <1>4 DEF Post, Id
  <2>1. deleteChan' \in Seq(Ids) /\ Len(deleteChan') <= NumTraces
      BY <1>4, <2>id DEF Post, TableTypeOK
  <2>2. TableTypeOK'
      BY <1>4, <2>1 DEF Post, TableTypeOK
  <2>3. WorkerTypeOK'
      BY <1>4 DEF Post, WorkerTypeOK
  <2> QED BY <1>4, <2>2, <2>3 DEF Post
<1>5. ASSUME NEW w \in Workers, PostFull(w) PROVE TypeOK'
  <2>1. WorkerTypeOK'
      BY <1>5 DEF PostFull, WorkerTypeOK
  <2> QED BY <1>5, <2>1 DEF PostFull
<1>6. ASSUME NEW w \in Workers, TakeVictim(w) PROVE TypeOK'
  <2>1. /\ Head(deleteChan) \in Ids
        /\ deleteChan' \in Seq(Ids) /\ Len(deleteChan') <= NumTraces
      BY <1>6 DEF TakeVictim, TableTypeOK
  <2>2. TableTypeOK'
      BY <1>6, <2>1 DEF TakeVictim, TableTypeOK
  <2>3. WorkerTypeOK'
      BY <1>6, <2>1 DEF TakeVictim, WorkerTypeOK
  <2> QED BY <1>6, <2>2, <2>3 DEF TakeVictim
<1>7. ASSUME NEW w \in Workers, DropTrace(w) PROVE TypeOK'
  <2>1. onMap' \subseteq Ids /\ notOnTable' \in BOOLEAN /\ evictions' \in BOOLEAN
      BY <1>7, Zenon DEF DropTrace, TableTypeOK
  <2>2. TableTypeOK'
      BY <1>7, <2>1 DEF DropTrace, TableTypeOK
  <2>3. WorkerTypeOK'
      BY <1>7 DEF DropTrace, WorkerTypeOK
  <2>4. OtherTypeOK'
      BY <1>7 DEF DropTrace, OtherTypeOK, Forget
  <2> QED BY <1>7, <2>2, <2>3, <2>4 DEF DropTrace
<1>8. ASSUME NEW w \in Workers, AppendSpan(w) PROVE TypeOK'
  <2>id. Id(w) \in Ids /\ span[w] \in Spans
      BY <1>8 DEF AppendSpan, Id
  <2>1. received' \in [Ids -> [Gens -> SUBSET Spans]]
      BY <1>8, <2>id DEF AppendSpan, TableTypeOK, WorkerTypeOK
  <2>2. TableTypeOK'
      BY <1>8, <2>1 DEF AppendSpan, TableTypeOK
  <2>3. WorkerTypeOK'
      BY <1>8, <1>gens DEF AppendSpan, WorkerTypeOK
  <2>4. OtherTypeOK'
      BY <1>8, <2>id DEF AppendSpan, OtherTypeOK
  <2> QED BY <1>8, <2>2, <2>3, <2>4 DEF AppendSpan
<1>9. CASE OnTick
  <2>1. BatcherTypeOK'
      BY <1>9, BatcherTypeStep DEF OnTick
  <2>2. batch' \in Seq(Ids)
      BY <1>9 DEF OnTick, TakeFirst, BatcherTypeOK
  <2>3. TickTypeOK'
      BY <1>9, <2>2 DEF OnTick, TickTypeOK
  <2>4. OtherTypeOK'
      BY <1>9 DEF OnTick, OtherTypeOK, Older
  <2> QED BY <1>9, <2>1, <2>3, <2>4 DEF OnTick
<1>10. CASE OnTickLast
  <2>1. BatcherTypeOK'
      BY <1>10, BatcherTypeStep DEF OnTickLast
  <2>2. TickTypeOK'
      BY <1>10 DEF OnTickLast, TickTypeOK, BatcherTypeOK
  <2> QED BY <1>10, <2>1, <2>2 DEF OnTickLast
<1>11. CASE CloseCurrent
  <2>1. BatcherTypeOK'
      BY <1>11, BatcherTypeStep DEF CloseCurrent
  <2>2. TickTypeOK'
      BY <1>11 DEF CloseCurrent, TickTypeOK
  <2> QED BY <1>11, <2>1, <2>2 DEF CloseCurrent
<1>12. CASE SendBatch
  <2>1. BatcherTypeOK'
      BY <1>12, BatcherTypeStep DEF SendBatch
  <2>2. TickTypeOK'
      BY <1>12 DEF SendBatch, TickTypeOK
  <2> QED BY <1>12, <2>1, <2>2 DEF SendBatch
<1>13. CASE EvalMissing
  <2>1. TickTypeOK'
      BY <1>13 DEF EvalMissing, TickTypeOK
  <2> QED BY <1>13, <2>1 DEF EvalMissing
<1>14. CASE EvalFound
  <2>1. Head(batch) \in Ids
      BY <1>14 DEF EvalFound, TickTypeOK
  <2>2. tref' \in Gens /\ tspans' \subseteq Spans
      BY <1>14, <2>1 DEF EvalFound, TableTypeOK
  <2>3. TickTypeOK'
      BY <1>14, <2>2 DEF EvalFound, TickTypeOK
  <2> QED BY <1>14, <2>3 DEF EvalFound
<1>15. CASE Decide
  <2>1. Head(batch) \in Ids /\ batch' \in Seq(Ids)
      BY <1>15 DEF Decide, TickTypeOK
  <2> DEFINE results == {"unspecified", "sampled", "notSampled"}
  <2>2. /\ decision' \in [Ids -> [Gens -> results]]
        /\ exported' \in [Spans -> Nat]
    <3>1. PICK d \in {MakeDecision(policies, Head(batch), view) :
                       view \in Views(policies, tspans, received[Head(batch)][tref])} :
            /\ decision' = [decision EXCEPT ![Head(batch)][tref] = d]
            /\ exported' = [s \in Spans |-> exported[s] +
                               IF d = "sampled" /\ s \in received[Head(batch)][tref]
                               THEN 1 ELSE 0]
        BY <1>15 DEF Decide
    <3>2. d \in results
        BY MakeDecisionDecides DEF OtherTypeOK
    <3>3. decision' \in [Ids -> [Gens -> results]]
        BY <2>1, <3>1, <3>2 DEF TickTypeOK, TableTypeOK
    <3>4. exported' \in [Spans -> Nat]
        BY <3>1 DEF OtherTypeOK
    <3> QED BY <3>3, <3>4
  <2>3. TableTypeOK'
      BY <1>15, <2>2 DEF Decide, TableTypeOK
  <2>4. TickTypeOK'
      BY <1>15, <2>1, <1>gens DEF Decide, TickTypeOK
  <2>5. OtherTypeOK'
      BY <1>15, <2>2 DEF Decide, OtherTypeOK
  <2> QED BY <1>15, <2>3, <2>4, <2>5 DEF Decide
<1>16. CASE EndTick \/ StopTicker
  <2>1. TickTypeOK'
      BY <1>16 DEF EndTick, StopTicker, TickTypeOK
  <2> QED BY <1>16, <2>1 DEF EndTick, StopTicker
<1>17. CASE BatcherStep
  <2>1. BatcherTypeOK'
      BY <1>17, BatcherTypeStep DEF BatcherStep
  <2> QED BY <1>17, <2>1 DEF BatcherStep
<1>18. CASE Shutdown
  <2>1. BatcherTypeOK'
      BY <1>18, BatcherTypeStep DEF Shutdown
  <2> QED BY <1>18, <2>1 DEF Shutdown
<1>19. CASE Terminated
    BY <1>19 DEF Terminated, vars
<1> QED
    BY <1>1, <1>2, <1>3, <1>4, <1>5, <1>6, <1>7, <1>8, <1>9, <1>10, <1>11, <1>12,
       <1>13, <1>14, <1>15, <1>16, <1>17, <1>18, <1>19 DEF Next, WorkerStep, TickStep

(* What the goroutines hold fits where they are, after every step. *)
LEMMA CarriesStep ==
    ASSUME TypeOK, Carries, Next
    PROVE  Carries'
PROOF
<1> USE DEF TypeOK, WorkerTypeOK, TickTypeOK, TableTypeOK, Carries, workerVars, tickVars
<1>1. ASSUME NEW w \in Workers, NEW s \in Spans, Load(w, s) PROVE Carries'
    BY <1>1 DEF Load
<1>2. ASSUME NEW w \in Workers, WorkerStep(w) PROVE Carries'
  <2>1. CASE LoadOrStore(w)
      BY <2>1 DEF LoadOrStore
  <2>2. CASE Add(w)
      BY <2>2 DEF Add
  <2>3. CASE Post(w)
      BY <2>3 DEF Post
  <2>4. CASE PostFull(w)
      BY <2>4 DEF PostFull
  <2>5. CASE TakeVictim(w)
    <3>1. Head(deleteChan) \in Ids
        BY <2>5 DEF TakeVictim
    <3> QED BY <2>5, <3>1 DEF TakeVictim
  <2>6. CASE DropTrace(w)
      BY <2>6 DEF DropTrace
  <2>7. CASE AppendSpan(w)
      BY <2>7 DEF AppendSpan
  <2> QED BY <1>2, <2>1, <2>2, <2>3, <2>4, <2>5, <2>6, <2>7 DEF WorkerStep
<1>3. CASE TickStep
    BY <1>3 DEF TickStep, OnTick, OnTickLast, CloseCurrent, SendBatch, EvalMissing,
                EvalFound, Decide, EndTick
<1>4. CASE BatcherStep \/ Shutdown \/ StopTicker \/ Terminated
    BY <1>4 DEF BatcherStep, Shutdown, StopTicker, Terminated, vars
<1> QED BY <1>1, <1>2, <1>3, <1>4 DEF Next

(* The timer looks at stopped and sends under the read lock, and Stop sets *)
(* it under the write lock.                                                *)
LEMMA NoSendOnClosedStep ==
    ASSUME TypeOK, NoSendOnClosed, [Next]_vars
    PROVE  NoSendOnClosed'
PROOF
<1> USE DEF TypeOK, BatcherTypeOK, NoSendOnClosed
<1>1. CASE UNCHANGED batcherVars
    BY <1>1 DEF batcherVars
<1>2. ASSUME NEW w \in Workers, Add(w) PROVE NoSendOnClosed'
    BY <1>2 DEF Add, AddToCurrentBatch
<1>3. CASE OnTick \/ OnTickLast
    BY <1>3 DEF OnTick, OnTickLast, TakeFirst, TakeCurrent
<1>4. CASE CloseCurrent
    BY <1>4 DEF CloseCurrent, ReadStopped, Stopped
<1>5. CASE SendBatch
    BY <1>5 DEF SendBatch, SendCurrent
<1>6. CASE BatcherStep
    BY <1>6 DEF BatcherStep, Fill, FillTake, FillAppend, Stop, StopLock, StopWait,
                StopClosePipe
<1>7. CASE Shutdown
    BY <1>7 DEF Shutdown, StopClosePending
<1> QED
  <2>1. ASSUME NEW w \in Workers, WorkerStep(w) PROVE UNCHANGED batcherVars \/ Add(w)
      BY <2>1 DEF WorkerStep, LoadOrStore, Post, PostFull, TakeVictim, DropTrace, AppendSpan
  <2> QED
      BY <1>1, <1>2, <1>3, <1>4, <1>5, <1>6, <1>7, <2>1
         DEF Next, Load, TickStep, EvalMissing, EvalFound, Decide, EndTick, StopTicker,
             Terminated, vars

(* Who empties deleteChan comes back to the select with room to post. *)
LEMMA EvictorServedStep ==
    ASSUME TypeOK, EvictorServed, [Next]_vars
    PROVE  EvictorServed'
PROOF
<1> USE SamplerAssumption
        DEF TypeOK, TableTypeOK, WorkerTypeOK, EvictorServed, tableVars, workerVars
<1>1. CASE UNCHANGED <<pc, deleteChan>>
    BY <1>1
<1>2. ASSUME NEW w \in Workers, NEW s \in Spans, Load(w, s) PROVE EvictorServed'
    BY <1>2 DEF Load
<1>3. ASSUME NEW w \in Workers, WorkerStep(w) PROVE EvictorServed'
  <2>1. CASE LoadOrStore(w)
      BY <2>1 DEF LoadOrStore
  <2>2. CASE Add(w)
      BY <2>2 DEF Add
  <2>3. CASE Post(w)
    <3>1. deleteChan' # <<>>
        BY <2>3 DEF Post
    <3> QED BY <3>1
  <2>4. CASE PostFull(w)
    <3>1. deleteChan' # <<>>
        BY <2>4 DEF PostFull
    <3> QED BY <3>1
  <2>5. CASE TakeVictim(w)
      BY <2>5 DEF TakeVictim
  <2>6. CASE DropTrace(w)
      BY <2>6 DEF DropTrace
  <2>7. CASE AppendSpan(w)
      BY <2>7 DEF AppendSpan
  <2> QED BY <1>3, <2>1, <2>2, <2>3, <2>4, <2>5, <2>6, <2>7 DEF WorkerStep
<1>4. CASE TickStep \/ BatcherStep \/ Shutdown \/ StopTicker \/ Terminated \/ UNCHANGED vars
  <2>1. UNCHANGED <<pc, deleteChan>>
      BY <1>4 DEF TickStep, OnTick, OnTickLast, CloseCurrent, SendBatch, EvalMissing,
                  EvalFound, Decide, EndTick, BatcherStep, Shutdown, StopTicker, Terminated,
                  vars
  <2> QED BY <1>1, <2>1
<1> QED BY <1>2, <1>3, <1>4 DEF Next

-------------------------------------------------------------------------------
(* Posting an id that is not in the channel adds it to those posted, each  *)
(* of them once; receiving takes the first one away.                       *)
LEMMA PostedByAppend ==
    ASSUME deleteChan \in Seq(Ids), PostedOnce,
           NEW id \in Ids, id \notin Posted, deleteChan' = Append(deleteChan, id)
    PROVE  PostedOnce' /\ Posted' = Posted \cup {id}
PROOF
<1>1. /\ Len(deleteChan') = Len(deleteChan) + 1
      /\ \A k \in 1 .. Len(deleteChan) : deleteChan'[k] = deleteChan[k]
      /\ deleteChan'[Len(deleteChan) + 1] = id
      /\ Len(deleteChan) \in Nat
    OBVIOUS
<1>2. \A k \in 1 .. Len(deleteChan') : k \in 1 .. Len(deleteChan) \/ k = Len(deleteChan) + 1
    BY <1>1
<1>3. PostedOnce'
    BY <1>1, <1>2 DEF PostedOnce, Posted
<1>4. Posted' = Posted \cup {id}
    BY <1>1, <1>2 DEF Posted
<1> QED BY <1>3, <1>4

(* Taking the first id out of the channel takes that token, and only it. *)
LEMMA PostedByTail ==
    ASSUME deleteChan \in Seq(Ids), PostedOnce,
           deleteChan # <<>>, deleteChan' = Tail(deleteChan)
    PROVE  /\ PostedOnce'
           /\ Head(deleteChan) \in Posted
           /\ Posted' = Posted \ {Head(deleteChan)}
PROOF
<1>1. /\ Len(deleteChan) \in Nat \ {0}
      /\ Len(deleteChan') = Len(deleteChan) - 1
      /\ \A k \in 1 .. Len(deleteChan') : deleteChan'[k] = deleteChan[k + 1]
      /\ Head(deleteChan) = deleteChan[1]
    OBVIOUS
<1>2. PostedOnce'
    BY <1>1 DEF PostedOnce
<1>3. Head(deleteChan) \in Posted
    BY <1>1 DEF Posted
<1>4. Posted' \subseteq Posted \ {Head(deleteChan)}
    BY <1>1 DEF Posted, PostedOnce
<1>5. ASSUME NEW k \in 1 .. Len(deleteChan), deleteChan[k] # Head(deleteChan)
      PROVE  deleteChan[k] \in Posted'
  <2>1. k - 1 \in 1 .. Len(deleteChan') /\ deleteChan'[k - 1] = deleteChan[k]
      BY <1>1, <1>5
  <2> QED BY <2>1 DEF Posted
<1>6. Posted \ {Head(deleteChan)} \subseteq Posted'
    BY <1>5 DEF Posted
<1> QED BY <1>2, <1>3, <1>4, <1>6

(* Who is creating a trace, and who is dropping one, follows from what     *)
(* each worker does and carries.                                           *)
LEMMA TokenFrame ==
    ASSUME OneTokenPerTrace, UNCHANGED <<onMap, deleteChan, notOnTable>>,
           \A v \in Workers :
              /\ Creating(v)' <=> Creating(v)
              /\ Creating(v) => Id(v)' = Id(v)
              /\ pc'[v] = "drop" <=> pc[v] = "drop"
              /\ pc[v] = "drop" => victim'[v] = victim[v]
    PROVE  OneTokenPerTrace'
PROOF
<1>1. Posted' = Posted /\ PostedOnce'
    BY DEF OneTokenPerTrace, Posted, PostedOnce
<1>2. Created' = Created
    BY DEF Created
<1>3. Victims' = Victims
    BY DEF Victims
<1>4. CreatedOnce' /\ DroppedOnce'
    BY DEF OneTokenPerTrace, CreatedOnce, DroppedOnce
<1> QED BY <1>1, <1>2, <1>3, <1>4 DEF OneTokenPerTrace

(* Every step keeps one token per trace. *)
LEMMA TokenStep ==
    ASSUME TypeOK, Carries, OneTokenPerTrace, Next
    PROVE  OneTokenPerTrace'
PROOF
<1> USE SamplerAssumption
<1> USE DEF TypeOK, WorkerTypeOK, workerVars, tableVars
<1>1. ASSUME NEW w \in Workers, NEW s \in Spans, Load(w, s) PROVE OneTokenPerTrace'
  <2>1. \A v \in Workers : /\ Creating(v)' <=> Creating(v)
                           /\ Creating(v) => Id(v)' = Id(v)
                           /\ pc'[v] = "drop" <=> pc[v] = "drop"
                           /\ pc[v] = "drop" => victim'[v] = victim[v]
      BY <1>1 DEF Load, Creating, Id
  <2> QED BY <1>1, <2>1, TokenFrame DEF Load
<1>2. ASSUME NEW w \in Workers, LoadOrStore(w) PROVE OneTokenPerTrace'
  <2>1. /\ \A v \in Workers : Id(v)' = Id(v) /\ (v # w => pc'[v] = pc[v])
        /\ victim' = victim
      BY <1>2 DEF LoadOrStore, Id
  <2>2. CASE Id(w) \in onMap
    <3>1. pc[w] = "store" /\ pc'[w] = "append"
        BY <1>2, <2>2 DEF LoadOrStore
    <3> QED BY <1>2, <2>1, <2>2, <3>1, TokenFrame DEF LoadOrStore, Creating
  <2>3. CASE Id(w) \notin onMap
    <3>1. /\ pc[w] = "store" /\ pc'[w] = "add"
          /\ onMap' = onMap \cup {Id(w)} /\ UNCHANGED <<deleteChan, notOnTable>>
        BY <1>2, <2>3 DEF LoadOrStore
    <3>2. Posted' = Posted /\ PostedOnce'
        BY <3>1 DEF OneTokenPerTrace, Posted, PostedOnce
    <3>3. Victims' = Victims /\ DroppedOnce'
        BY <2>1, <3>1 DEF Victims, DroppedOnce, OneTokenPerTrace
    <3>4. Id(w) \notin Posted \cup Created \cup Victims
        BY <2>3 DEF OneTokenPerTrace
    <3>5. Created' = Created \cup {Id(w)}
        BY <2>1, <3>1 DEF Created, Creating
    <3>6. CreatedOnce'
      <4>1. \A v \in Workers : Creating(v) => Id(v) # Id(w)
          BY <3>4 DEF Created
      <4>2. \A v \in Workers : Creating(v)' => v = w \/ Creating(v)
          BY <2>1, <3>1 DEF Creating
      <4> QED BY <2>1, <4>1, <4>2 DEF CreatedOnce, OneTokenPerTrace
    <3> QED BY <3>1, <3>2, <3>3, <3>4, <3>5, <3>6 DEF OneTokenPerTrace
  <2> QED BY <2>2, <2>3
<1>3. ASSUME NEW w \in Workers, Add(w) \/ PostFull(w) PROVE OneTokenPerTrace'
  <2>1. \A v \in Workers : /\ Creating(v)' <=> Creating(v)
                           /\ Creating(v) => Id(v)' = Id(v)
                           /\ pc'[v] = "drop" <=> pc[v] = "drop"
                           /\ pc[v] = "drop" => victim'[v] = victim[v]
      BY <1>3 DEF Add, PostFull, Creating, Id
  <2> QED BY <1>3, <2>1, TokenFrame DEF Add, PostFull
<1>4. ASSUME NEW w \in Workers, Post(w) PROVE OneTokenPerTrace'
  <2>1. /\ \A v \in Workers : Id(v)' = Id(v) /\ (v # w => pc'[v] = pc[v])
        /\ victim' = victim /\ pc[w] = "post" /\ pc'[w] = "append"
        /\ deleteChan' = Append(deleteChan, Id(w)) /\ UNCHANGED <<onMap, notOnTable>>
      BY <1>4 DEF Post, Id
  <2>2. Id(w) \in Created
      BY <2>1 DEF Created, Creating
  <2>3. Id(w) \in Ids
      BY <2>1 DEF Carries, Id
  <2>4. PostedOnce' /\ Posted' = Posted \cup {Id(w)}
      BY <2>1, <2>2, <2>3, PostedByAppend DEF OneTokenPerTrace, TableTypeOK
  <2>5. Created' = Created \ {Id(w)}
    <3>1. \A v \in Workers : Creating(v)' <=> Creating(v) /\ v # w
        BY <2>1 DEF Creating
    <3>2. \A v \in Workers : Creating(v) /\ Id(v) = Id(w) => v = w
        BY <2>1 DEF OneTokenPerTrace, CreatedOnce, Creating
    <3> QED BY <2>1, <3>1, <3>2 DEF Created
  <2>6. CreatedOnce'
      BY <2>1 DEF OneTokenPerTrace, CreatedOnce, Creating
  <2>7. Victims' = Victims /\ DroppedOnce'
      BY <2>1 DEF Victims, DroppedOnce, OneTokenPerTrace
  <2> QED BY <2>1, <2>2, <2>4, <2>5, <2>6, <2>7 DEF OneTokenPerTrace
<1>5. ASSUME NEW w \in Workers, TakeVictim(w) PROVE OneTokenPerTrace'
  <2> DEFINE x == Head(deleteChan)
  <2>1. /\ \A v \in Workers : /\ Id(v)' = Id(v)
                              /\ v # w => pc'[v] = pc[v] /\ victim'[v] = victim[v]
        /\ pc[w] = "evict" /\ pc'[w] = "drop" /\ victim'[w] = x
        /\ deleteChan # <<>> /\ deleteChan' = Tail(deleteChan)
        /\ UNCHANGED <<onMap, notOnTable>>
      BY <1>5 DEF TakeVictim, Id
  <2>2. PostedOnce' /\ x \in Posted /\ Posted' = Posted \ {x}
      BY <2>1, PostedByTail DEF OneTokenPerTrace, TableTypeOK
  <2> HIDE DEF x
  <2>3. Created' = Created /\ CreatedOnce'
    <3>1. \A v \in Workers : Creating(v)' <=> Creating(v)
        BY <2>1 DEF Creating
    <3> QED BY <2>1, <3>1 DEF Created, CreatedOnce, OneTokenPerTrace
  <2>4. Victims' = Victims \cup {x}
      BY <2>1 DEF Victims
  <2>5. DroppedOnce'
    <3>1. \A v \in Workers : pc[v] = "drop" => victim[v] # x
        BY <2>2 DEF OneTokenPerTrace, Victims
    <3> QED BY <2>1, <3>1 DEF DroppedOnce, OneTokenPerTrace
  <2> QED BY <2>1, <2>2, <2>3, <2>4, <2>5 DEF OneTokenPerTrace
<1>6. ASSUME NEW w \in Workers, DropTrace(w) PROVE OneTokenPerTrace'
  <2>1. /\ \A v \in Workers : /\ Id(v)' = Id(v)
                              /\ v # w => pc'[v] = pc[v] /\ victim'[v] = victim[v]
        /\ pc[w] = "drop" /\ pc'[w] = "post" /\ deleteChan' = deleteChan
      BY <1>6 DEF DropTrace, Id
  <2>2. victim[w] \in Victims
      BY <2>1 DEF Victims
  <2>3. onMap' = onMap \ {victim[w]} /\ notOnTable' = notOnTable
      BY <1>6, <2>2 DEF DropTrace, OneTokenPerTrace
  <2>4. Posted' = Posted /\ PostedOnce'
      BY <2>1 DEF Posted, PostedOnce, OneTokenPerTrace
  <2>5. Created' = Created /\ CreatedOnce'
    <3>1. \A v \in Workers : Creating(v)' <=> Creating(v)
        BY <2>1 DEF Creating
    <3> QED BY <2>1, <3>1 DEF Created, CreatedOnce, OneTokenPerTrace
  <2>6. Victims' = Victims \ {victim[w]}
    <3>1. \A v \in Workers : pc[v] = "drop" /\ victim[v] = victim[w] => v = w
        BY <2>1 DEF OneTokenPerTrace, DroppedOnce
    <3> QED BY <2>1, <3>1 DEF Victims
  <2>7. DroppedOnce'
      BY <2>1 DEF OneTokenPerTrace, DroppedOnce
  <2> QED BY <2>2, <2>3, <2>4, <2>5, <2>6, <2>7 DEF OneTokenPerTrace
<1>7. ASSUME NEW w \in Workers, AppendSpan(w) PROVE OneTokenPerTrace'
  <2>1. \A v \in Workers : /\ Creating(v)' <=> Creating(v)
                           /\ Creating(v) => Id(v)' = Id(v)
                           /\ pc'[v] = "drop" <=> pc[v] = "drop"
                           /\ pc[v] = "drop" => victim'[v] = victim[v]
      BY <1>7 DEF AppendSpan, Creating, Id
  <2> QED BY <1>7, <2>1, TokenFrame DEF AppendSpan
<1>8. CASE TickStep \/ BatcherStep \/ Shutdown \/ StopTicker \/ Terminated
  <2>1. UNCHANGED <<onMap, deleteChan, notOnTable, pc, span, victim>>
      BY <1>8 DEF TickStep, OnTick, OnTickLast, CloseCurrent, SendBatch, EvalMissing,
                  EvalFound, Decide, EndTick, BatcherStep, Shutdown, StopTicker, Terminated,
                  vars
  <2> QED BY <2>1, TokenFrame DEF Creating, Id
<1> QED
    BY <1>1, <1>2, <1>3, <1>4, <1>5, <1>6, <1>7, <1>8 DEF Next, WorkerStep

-------------------------------------------------------------------------------
(* The traces that have been counted stay the same when the map does and   *)
(* nobody comes to count a trace or has done so.                           *)
LEMMA CountedFrame ==
    ASSUME Counted, UNCHANGED <<onMap, numOnMap>>,
           \A v \in Workers :
              /\ pc'[v] = "add" <=> pc[v] = "add"
              /\ pc[v] = "add" => Id(v)' = Id(v)
    PROVE  Counted'
PROOF
<1>1. CountedIds' = CountedIds
    BY DEF CountedIds
<1> QED BY <1>1 DEF Counted

(* Every step keeps the counter equal to the number of the counted traces. *)
LEMMA CountedStep ==
    ASSUME TypeOK, Carries, OneTokenPerTrace, Counted, Next
    PROVE  Counted'
PROOF
<1> USE DEF TypeOK, WorkerTypeOK, workerVars, tableVars
<1>1. ASSUME NEW w \in Workers, NEW s \in Spans, Load(w, s) PROVE Counted'
  <2>1. \A v \in Workers : /\ pc'[v] = "add" <=> pc[v] = "add"
                           /\ pc[v] = "add" => Id(v)' = Id(v)
      BY <1>1 DEF Load, Id
  <2> QED BY <1>1, <2>1, CountedFrame DEF Load
<1>2. ASSUME NEW w \in Workers, LoadOrStore(w) PROVE Counted'
  <2>1. /\ \A v \in Workers : Id(v)' = Id(v) /\ (v # w => pc'[v] = pc[v])
        /\ pc[w] = "store" /\ UNCHANGED numOnMap
      BY <1>2 DEF LoadOrStore, Id
  <2>2. CASE Id(w) \in onMap
    <3>1. pc'[w] = "append" /\ UNCHANGED onMap
        BY <1>2, <2>2 DEF LoadOrStore
    <3> QED BY <2>1, <3>1, CountedFrame
  <2>3. CASE Id(w) \notin onMap
    <3>1. pc'[w] = "add" /\ onMap' = onMap \cup {Id(w)}
        BY <1>2, <2>3 DEF LoadOrStore
    <3>2. CountedIds' = CountedIds
        BY <2>1, <2>3, <3>1 DEF CountedIds
    <3> QED BY <2>1, <3>2 DEF Counted
  <2> QED BY <2>2, <2>3
<1>3. ASSUME NEW w \in Workers, Add(w) PROVE Counted'
  <2>1. /\ \A v \in Workers : Id(v)' = Id(v) /\ (v # w => pc'[v] = pc[v])
        /\ pc[w] = "add" /\ pc'[w] = "post"
        /\ numOnMap' = numOnMap + 1 /\ UNCHANGED onMap
      BY <1>3 DEF Add, Id
  <2>2. Id(w) \in onMap
      BY <2>1 DEF OneTokenPerTrace, Created, Creating
  <2>3. \A v \in Workers : pc[v] = "add" /\ Id(v) = Id(w) => v = w
      BY <2>1 DEF OneTokenPerTrace, CreatedOnce, Creating
  <2>4. CountedIds' = CountedIds \cup {Id(w)} /\ Id(w) \notin CountedIds
      BY <2>1, <2>2, <2>3 DEF CountedIds
  <2> QED BY <2>1, <2>4, FS_AddElement DEF Counted
<1>4. ASSUME NEW w \in Workers, Post(w) \/ PostFull(w) \/ TakeVictim(w) \/ AppendSpan(w)
      PROVE  Counted'
  <2>1. \A v \in Workers : /\ pc'[v] = "add" <=> pc[v] = "add"
                           /\ pc[v] = "add" => Id(v)' = Id(v)
      BY <1>4 DEF Post, PostFull, TakeVictim, AppendSpan, Id
  <2> QED BY <1>4, <2>1, CountedFrame DEF Post, PostFull, TakeVictim, AppendSpan
<1>5. ASSUME NEW w \in Workers, DropTrace(w) PROVE Counted'
  <2>1. /\ \A v \in Workers : Id(v)' = Id(v) /\ (v # w => pc'[v] = pc[v])
        /\ pc[w] = "drop" /\ pc'[w] = "post"
      BY <1>5 DEF DropTrace, Id
  <2>2. victim[w] \in Victims
      BY <2>1 DEF Victims
  <2>3. onMap' = onMap \ {victim[w]} /\ numOnMap' = numOnMap - 1
      BY <1>5, <2>2 DEF DropTrace, OneTokenPerTrace
  <2>4. \A v \in Workers : pc[v] = "add" => Id(v) # victim[w]
      BY <2>2 DEF OneTokenPerTrace, Created, Creating
  <2>5. victim[w] \in CountedIds
      BY <2>2, <2>4 DEF CountedIds, OneTokenPerTrace
  <2>6. CountedIds' = CountedIds \ {victim[w]}
      BY <2>1, <2>3 DEF CountedIds
  <2> QED BY <2>3, <2>5, <2>6, FS_RemoveElement DEF Counted
<1>6. CASE TickStep \/ BatcherStep \/ Shutdown \/ StopTicker \/ Terminated
  <2>1. UNCHANGED <<onMap, numOnMap, pc, span>>
      BY <1>6 DEF TickStep, OnTick, OnTickLast, CloseCurrent, SendBatch, EvalMissing,
                  EvalFound, Decide, EndTick, BatcherStep, Shutdown, StopTicker, Terminated,
                  vars
  <2> QED BY <2>1, CountedFrame DEF Id
<1> QED BY <1>1, <1>2, <1>3, <1>4, <1>5, <1>6 DEF Next, WorkerStep

-------------------------------------------------------------------------------
(* The inductive invariant. *)
IInv == TypeOK /\ Carries /\ OneTokenPerTrace /\ Counted

(* Every behaviour of the sampler keeps the inductive invariant: what the  *)
(* goroutines hold, the tokens of the traces and the counter fit together  *)
(* between any two steps.                                                  *)
THEOREM Invariance == Spec => []IInv
PROOF
<1>1. Init => IInv
    BY InitInv DEF IInv
<1>2. IInv /\ [Next]_vars => IInv'
  <2>1. SUFFICES ASSUME IInv, [Next]_vars PROVE IInv'
      OBVIOUS
  <2>2. CASE Next
    <3>1. OneTokenPerTrace' /\ Carries' /\ Counted'
        BY <2>1, <2>2, TokenStep, CarriesStep, CountedStep DEF IInv
    <3>2. numOnMap' \in Nat
        BY <3>1, FS_CardinalityType DEF Counted
    <3>3. TypeOK'
        BY <2>1, <2>2, <3>2, TypeStep DEF IInv
    <3> QED BY <3>1, <3>3 DEF IInv
  <2>3. CASE UNCHANGED vars
    <3>1. TypeOK'
        BY <2>1, <2>3, TypeFrame DEF IInv, TypeOK, vars
    <3>2. Carries'
        BY <2>1, <2>3 DEF IInv, Carries, vars, workerVars, tickVars
    <3>3. OneTokenPerTrace'
        BY <2>1, <2>3, TokenFrame DEF IInv, Creating, Id, vars, workerVars, tableVars
    <3>4. Counted'
        BY <2>1, <2>3, CountedFrame DEF IInv, Id, vars, workerVars, tableVars
    <3> QED BY <3>1, <3>2, <3>3, <3>4 DEF IInv
  <2> QED BY <2>1, <2>2, <2>3
<1> QED BY <1>1, <1>2, PTL DEF Spec

(* The types of the variables: no channel exceeds its capacity, and        *)
(* numTracesOnMap, which dropTrace decrements as an unsigned number, never *)
(* goes below zero.                                                        *)
THEOREM TypeCorrect == Spec => []TypeOK
PROOF
<1>1. IInv => TypeOK
    BY DEF IInv
<1> QED BY <1>1, Invariance, PTL

(* Every trace in memory has exactly one token, with any number of workers *)
(* and any capacity of deleteChan: dropTrace always finds its trace.       *)
THEOREM Tokens == Spec => []OneTokenPerTrace
PROOF
<1>1. IInv => OneTokenPerTrace
    BY DEF IInv
<1> QED BY <1>1, Invariance, PTL

(* The field numTracesOnMap is at all times the number of the traces in    *)
(* the map, except those a worker has stored and is about to count.        *)
THEOREM CounterCounts == Spec => []Counted
PROOF
<1>1. IInv => Counted
    BY DEF IInv
<1> QED BY <1>1, Invariance, PTL

(* The timer never sends on the pipe after Stop has closed it. *)
THEOREM SendSafety == Spec => []NoSendOnClosed
PROOF
<1>1. Init => NoSendOnClosed
    BY DEF Init, BatcherInit, NoSendOnClosed
<1>2. TypeOK /\ NoSendOnClosed /\ [Next]_vars => NoSendOnClosed'
    BY NoSendOnClosedStep
<1> QED BY <1>1, <1>2, TypeCorrect, PTL DEF Spec

(* A worker that has committed to receive from deleteChan finds an id in   *)
(* it, or another worker that is about to post one.                        *)
THEOREM EvictionServed == Spec => []EvictorServed
PROOF
<1>1. Init => EvictorServed
    BY DEF Init, EvictorServed
<1>2. TypeOK /\ EvictorServed /\ [Next]_vars => EvictorServed'
    BY EvictorServedStep
<1> QED BY <1>1, <1>2, TypeCorrect, PTL DEF Spec

-------------------------------------------------------------------------------
(***************************************************************************)
(* While no trace has been evicted, every id has one TraceData object, its *)
(* first.  Between its creation and its decision the id is in one place of *)
(* the batcher's line: with the worker that is to add it, in the channel   *)
(* of pending ids, with the filling goroutine, in the current batch, in a  *)
(* batch of the pipe or in the batch at hand.  Each place holds an id at   *)
(* most once, so a trace is decided once (SpanFate); and a batch that is   *)
(* the k-th of the pipe has only k ticks left to wait (DecisionWaits).     *)
(***************************************************************************)
Elems(q) == {q[k] : k \in 1 .. Len(q)}

Once(q) == \A k, l \in 1 .. Len(q) : q[k] = q[l] => k = l

(* The places of the line, those that are not sequences, and the ids in    *)
(* all the batches of a pipe.                                              *)
Adding == {Id(w) : w \in {v \in Workers : pc[v] = "add"}}

Filling == {fill} \cap Ids

AllElems(q) == UNION {Elems(q[k]) : k \in 1 .. Len(q)}

InLine ==
    Adding \cup Elems(pending) \cup Filling \cup Elems(current) \cup AllElems(pipe)
      \cup Elems(batch)

(* No two of six sets have an element in common. *)
Apart(A, P, F, C, L, B) ==
    /\ A \cap (P \cup F \cup C \cup L \cup B) = {}
    /\ P \cap (F \cup C \cup L \cup B) = {}
    /\ F \cap (C \cup L \cup B) = {}
    /\ C \cap (L \cup B) = {}
    /\ L \cap B = {}

(* No two batches of a pipe have an id in common, and none has one twice. *)
PipeOnce(q) ==
    /\ \A k \in 1 .. Len(q) : Once(q[k])
    /\ \A k, l \in 1 .. Len(q) : Elems(q[k]) \cap Elems(q[l]) # {} => k = l

LineOnce ==
    /\ Apart(Adding, Elems(pending), Filling, Elems(current), AllElems(pipe),
             Elems(batch))
    /\ Once(pending) /\ Once(current) /\ Once(batch) /\ PipeOnce(pipe)

(* Those in the line are in memory and undecided. *)
LineUndecided == \A i \in InLine : i \in onMap /\ decision[i][1] = "unspecified"

(* Every id has its first object or none yet; who works on one has it. *)
FirstObject ==
    /\ \A i \in Ids : gen[i] = IF i \in onMap THEN 1 ELSE 0
    /\ \A i \in Ids : decision[i][1] # "unspecified" => i \in onMap
    /\ \A w \in Workers : pc[w] \notin {"idle", "store"} => ref[w] = 1 /\ Id(w) \in onMap
    /\ tpc = "decide" => tref = 1

(* A span is with one worker at most, and has then left the receivers. *)
CarriedOnce ==
    /\ \A w \in Workers : span[w] \notin todo /\ (pc[w] = "idle" <=> span[w] = NoSpan)
    /\ \A v, w \in Workers : span[v] = span[w] => v = w \/ span[v] = NoSpan

(* The timer and the batcher take turns: between two ticks the pipe is     *)
(* full, until it is stopped.                                              *)
Turns ==
    /\ tpc \in {"idle", "done"} => batch = <<>>
    /\ reader <=> tpc = "send"
    /\ bpc \notin {"stopped", "closed"} =>
         Len(pipe) = IF tpc \in {"taken", "send"} THEN NumBatches - 1 ELSE NumBatches

(* How long the ids in the line, and those decided, have waited. *)
Waited ==
    bpc # "closed" =>
        /\ \A k \in 1 .. Len(pipe) : \A i \in Elems(pipe[k]) : NumBatches <= age[i] + k
        /\ \A i \in Elems(batch) : age[i] = NumBatches
        /\ \A i \in Ids : decision[i][1] # "unspecified" => age[i] = NumBatches

(* A span that has not been delivered to its object has left no trace. *)
Undelivered(s) == s \in todo \/ \E w \in Workers : span[w] = s

Fates ==
    /\ \A i \in Ids : \A s \in received[i][1] : TraceOf[s] = i
    /\ \A s \in Spans : Undelivered(s) =>
         exported[s] = 0 /\ s \notin received[TraceOf[s]][1]
    /\ \A s \in Spans : ~Undelivered(s) =>
         LET d == decision[TraceOf[s]][1] IN
         /\ d = "unspecified" => s \in received[TraceOf[s]][1]
         /\ exported[s] = IF d = "sampled" THEN 1 ELSE 0

FirstInv ==
    ~evictions =>
        /\ LineOnce /\ LineUndecided /\ FirstObject /\ CarriedOnce /\ Turns /\ Waited
        /\ Fates

-------------------------------------------------------------------------------
(* An empty sequence has no elements. *)
LEMMA ElemsOfEmpty == Elems(<<>>) = {} /\ Once(<<>>)
PROOF
  BY DEF Elems, Once

(* Appending what is not in a sequence keeps its elements apart. *)
LEMMA ElemsOfAppend ==
    ASSUME NEW S, NEW q \in Seq(S), NEW x \in S
    PROVE  /\ Elems(Append(q, x)) = Elems(q) \cup {x}
           /\ Once(q) /\ x \notin Elems(q) => Once(Append(q, x))
PROOF
<1> DEFINE r == Append(q, x)
<1>1. /\ Len(q) \in Nat /\ Len(r) = Len(q) + 1 /\ r[Len(q) + 1] = x
      /\ \A k \in 1 .. Len(q) : r[k] = q[k]
    OBVIOUS
<1> HIDE DEF r
<1>2. \A k \in 1 .. Len(r) : k \in 1 .. Len(q) \/ k = Len(q) + 1
    BY <1>1
<1>3. Elems(r) = Elems(q) \cup {x}
    BY <1>1, <1>2 DEF Elems
<1>4. Once(q) /\ x \notin Elems(q) => Once(r)
    BY <1>1, <1>2 DEF Elems, Once
<1> QED BY <1>3, <1>4 DEF r

(* Taking the first element takes it and, if the elements are apart, only  *)
(* it.                                                                     *)
LEMMA ElemsOfTail ==
    ASSUME NEW S, NEW q \in Seq(S), q # <<>>
    PROVE  /\ Head(q) \in Elems(q)
           /\ Elems(Tail(q)) \subseteq Elems(q)
           /\ Elems(q) \subseteq Elems(Tail(q)) \cup {Head(q)}
           /\ Once(q) => Once(Tail(q)) /\ Head(q) \notin Elems(Tail(q))
PROOF
<1> DEFINE r == Tail(q)
<1>1. /\ Len(q) \in Nat \ {0} /\ Len(r) = Len(q) - 1 /\ Head(q) = q[1]
      /\ \A k \in 1 .. Len(r) : r[k] = q[k + 1]
    OBVIOUS
<1> HIDE DEF r
<1>2. \A k \in 1 .. Len(r) : k + 1 \in 1 .. Len(q)
    BY <1>1
<1>3. \A k \in 1 .. Len(q) : k = 1 \/ (k - 1 \in 1 .. Len(r) /\ r[k - 1] = q[k])
    BY <1>1
<1>4. Head(q) \in Elems(q)
    BY <1>1 DEF Elems
<1>5. Elems(r) \subseteq Elems(q)
    BY <1>1, <1>2 DEF Elems
<1>6. Elems(q) \subseteq Elems(r) \cup {Head(q)}
    BY <1>1, <1>3 DEF Elems
<1>7. Once(q) => Once(r) /\ Head(q) \notin Elems(r)
    BY <1>1, <1>2 DEF Once, Elems
<1> QED BY <1>4, <1>5, <1>6, <1>7 DEF r

(* A batch pushed into a pipe that has none of its ids. *)
LEMMA PipeOfAppend ==
    ASSUME NEW S, NEW q \in Seq(Seq(S)), NEW c \in Seq(S)
    PROVE  /\ AllElems(Append(q, c)) = AllElems(q) \cup Elems(c)
           /\ PipeOnce(q) /\ Once(c) /\ AllElems(q) \cap Elems(c) = {} =>
                PipeOnce(Append(q, c))
PROOF
<1> DEFINE r == Append(q, c)
<1>1. /\ Len(q) \in Nat /\ Len(r) = Len(q) + 1 /\ r[Len(q) + 1] = c
      /\ \A k \in 1 .. Len(q) : r[k] = q[k]
    BY AppendProperties
<1> HIDE DEF r
<1>2. \A k \in 1 .. Len(r) : k \in 1 .. Len(q) \/ k = Len(q) + 1
    BY <1>1
<1>3. \A k \in 1 .. Len(q) : k \in 1 .. Len(r) /\ k # Len(q) + 1
    BY <1>1
<1>4. Len(q) + 1 \in 1 .. Len(r)
    BY <1>1
<1>5. AllElems(r) = AllElems(q) \cup Elems(c)
    BY <1>1, <1>2, <1>3, <1>4 DEF AllElems
<1>6. ASSUME PipeOnce(q), Once(c), AllElems(q) \cap Elems(c) = {} PROVE PipeOnce(r)
  <2>1. \A k \in 1 .. Len(r) : Once(r[k])
      BY <1>1, <1>2, <1>6 DEF PipeOnce
  <2>2. \A k \in 1 .. Len(q) : Elems(q[k]) \cap Elems(c) = {}
      BY <1>6 DEF AllElems
  <2>3. ASSUME NEW k \in 1 .. Len(r), NEW l \in 1 .. Len(r), Elems(r[k]) \cap Elems(r[l]) # {}
        PROVE  k = l
    <3>1. CASE k \in 1 .. Len(q) /\ l \in 1 .. Len(q)
        BY <1>1, <1>6, <2>3, <3>1 DEF PipeOnce
    <3>2. CASE k \in 1 .. Len(q) /\ l = Len(q) + 1
        BY <1>1, <2>2, <2>3, <3>2
    <3>3. CASE k = Len(q) + 1 /\ l \in 1 .. Len(q)
        BY <1>1, <2>2, <2>3, <3>3
    <3> QED BY <1>2, <3>1, <3>2, <3>3
  <2> QED BY <2>1, <2>3 DEF PipeOnce
<1> QED BY <1>5, <1>6 DEF r

(* Taking the oldest batch of a pipe. *)
LEMMA PipeOfTail ==
    ASSUME NEW S, NEW q \in Seq(Seq(S)), q # <<>>
    PROVE  /\ Elems(Head(q)) \subseteq AllElems(q)
           /\ AllElems(Tail(q)) \subseteq AllElems(q)
           /\ PipeOnce(q) => /\ Once(Head(q)) /\ PipeOnce(Tail(q))
                             /\ Elems(Head(q)) \cap AllElems(Tail(q)) = {}
PROOF
<1> DEFINE r == Tail(q)
<1>1. /\ Len(q) \in Nat \ {0} /\ Len(r) = Len(q) - 1 /\ Head(q) = q[1]
      /\ \A k \in 1 .. Len(r) : r[k] = q[k + 1]
    OBVIOUS
<1> HIDE DEF r
<1>2. \A k \in 1 .. Len(r) : k + 1 \in 1 .. Len(q) /\ k + 1 # 1
    BY <1>1
<1>3. 1 \in 1 .. Len(q)
    BY <1>1
<1>4. Elems(Head(q)) \subseteq AllElems(q)
    BY <1>1, <1>3 DEF AllElems
<1>5. AllElems(r) \subseteq AllElems(q)
    BY <1>1, <1>2 DEF AllElems
<1>6. ASSUME PipeOnce(q)
      PROVE  Once(Head(q)) /\ PipeOnce(r) /\ Elems(Head(q)) \cap AllElems(r) = {}
  <2>1. Once(Head(q)) /\ \A k \in 1 .. Len(r) : Once(r[k])
      BY <1>1, <1>2, <1>3, <1>6 DEF PipeOnce
  <2>2. \A k, l \in 1 .. Len(r) : k + 1 = l + 1 => k = l
      BY <1>1
  <2>3. \A k, l \in 1 .. Len(r) : Elems(r[k]) \cap Elems(r[l]) # {} => k = l
      BY <1>1, <1>2, <1>6, <2>2 DEF PipeOnce
  <2>4. \A k \in 1 .. Len(r) : Elems(Head(q)) \cap Elems(r[k]) = {}
      BY <1>1, <1>2, <1>3, <1>6 DEF PipeOnce
  <2>5. Elems(Head(q)) \cap AllElems(r) = {}
      BY <2>4 DEF AllElems
  <2> QED BY <2>1, <2>3, <2>5 DEF PipeOnce
<1> QED BY <1>4, <1>5, <1>6 DEF r

-------------------------------------------------------------------------------
(* An eviction is noted for good, and no trace is dropped without one. *)
LEMMA NoEviction ==
    ASSUME IInv, Next, ~evictions'
    PROVE  ~evictions /\ \A w \in Workers : ~DropTrace(w)
PROOF
<1>1. ASSUME NEW w \in Workers, DropTrace(w) PROVE FALSE
  <2>1. victim[w] \in onMap
      BY <1>1 DEF IInv, OneTokenPerTrace, Victims, DropTrace
  <2> QED BY <1>1, <2>1 DEF DropTrace
<1>2. evictions' = evictions
    BY <1>1 DEF Next, WorkerStep, Load, LoadOrStore, Add, Post, PostFull, TakeVictim,
                AppendSpan, TickStep, OnTick, OnTickLast, CloseCurrent, SendBatch,
                EvalMissing, EvalFound, Decide, EndTick, BatcherStep, Shutdown, StopTicker,
                Terminated, tableVars, vars
<1> QED BY <1>1, <1>2

(* Nothing in the line moves. *)
LineFrame == UNCHANGED <<Adding, pending, fill, current, pipe, batch>>

(* Then, and while no trace leaves the map, every id keeps its one place. *)
LEMMA LineUnmoved ==
    ASSUME LineOnce, LineUndecided, LineFrame, onMap \subseteq onMap',
           decision' = decision
    PROVE  LineOnce' /\ LineUndecided'
PROOF
  BY DEF LineOnce, LineUndecided, LineFrame, InLine, Filling

(* Which ids are to be added follows from what each worker does. *)
LEMMA AddingFrame ==
    ASSUME \A v \in Workers :
              /\ pc'[v] = "add" <=> pc[v] = "add"
              /\ pc[v] = "add" => Id(v)' = Id(v)
    PROVE  Adding' = Adding
PROOF
  BY DEF Adding

(* Every step keeps an id in one place of the line, undecided. *)
LEMMA LineStep ==
    ASSUME IInv, LineOnce, LineUndecided, FirstObject, Turns, Next, ~evictions'
    PROVE  LineOnce' /\ LineUndecided'
PROOF
<1>1. /\ pending \in Seq(Ids) /\ current \in Seq(Ids) /\ pipe \in Seq(Seq(Ids))
      /\ batch \in Seq(Ids) /\ fill \in Ids \cup {NoId} /\ onMap \subseteq Ids
      /\ NoId \notin Ids
    BY BatcherAssumption DEF IInv, TypeOK, BatcherTypeOK, TickTypeOK, TableTypeOK
<1>2. /\ pc \in [Workers -> {"idle", "store", "add", "post", "evict", "drop", "append"}]
      /\ span \in [Workers -> Spans \cup {NoSpan}]
    BY DEF IInv, TypeOK, WorkerTypeOK
<1>3. Apart(Adding, Elems(pending), Filling, Elems(current), AllElems(pipe), Elems(batch))
    BY DEF LineOnce
<1>4. Once(pending) /\ Once(current) /\ Once(batch) /\ PipeOnce(pipe)
    BY DEF LineOnce
<1>5. \A i \in InLine : i \in onMap /\ decision[i][1] = "unspecified"
    BY DEF LineUndecided
<1>6. ASSUME NEW w \in Workers, NEW s \in Spans, Load(w, s) PROVE LineOnce' /\ LineUndecided'
  <2>1. Adding' = Adding
    <3>1. \A v \in Workers : /\ pc'[v] = "add" <=> pc[v] = "add"
                             /\ pc[v] = "add" => Id(v)' = Id(v)
        BY <1>2, <1>6 DEF Load, Id
    <3> QED BY <3>1, AddingFrame
  <2> QED BY <1>6, <2>1, LineUnmoved DEF LineFrame, Load, batcherVars, tickVars, tableVars
<1>7. ASSUME NEW w \in Workers, Post(w) \/ PostFull(w) \/ TakeVictim(w) \/ AppendSpan(w)
      PROVE  LineOnce' /\ LineUndecided'
  <2>1. Adding' = Adding
    <3>1. \A v \in Workers : /\ pc'[v] = "add" <=> pc[v] = "add"
                             /\ pc[v] = "add" => Id(v)' = Id(v)
        BY <1>2, <1>7 DEF Post, PostFull, TakeVictim, AppendSpan, Id
    <3> QED BY <3>1, AddingFrame
  <2> QED BY <1>7, <2>1, LineUnmoved
          DEF LineFrame, Post, PostFull, TakeVictim, AppendSpan, batcherVars, tickVars,
              tableVars
<1>8. ASSUME NEW w \in Workers, LoadOrStore(w) PROVE LineOnce' /\ LineUndecided'
  <2>1. /\ UNCHANGED <<pending, fill, current, pipe, batch, decision, span>>
        /\ \A v \in Workers : Id(v)' = Id(v) /\ (v # w => pc'[v] = pc[v])
        /\ pc[w] = "store" /\ Id(w) \in Ids
      BY <1>2, <1>8, SamplerAssumption
         DEF LoadOrStore, batcherVars, tickVars, Id, IInv, Carries
  <2>2. CASE Id(w) \in onMap
    <3>1. pc'[w] = "append" /\ onMap' = onMap
        BY <1>2, <1>8, <2>2 DEF LoadOrStore
    <3>2. Adding' = Adding
        BY <2>1, <3>1, AddingFrame
    <3> QED BY <2>1, <3>1, <3>2, LineUnmoved DEF LineFrame
  <2>3. CASE Id(w) \notin onMap
    <3>1. pc'[w] = "add" /\ onMap' = onMap \cup {Id(w)}
        BY <1>2, <1>8, <2>3 DEF LoadOrStore
    <3>2. Adding' = Adding \cup {Id(w)}
        BY <2>1, <3>1 DEF Adding
    <3>3. Id(w) \notin InLine
        BY <1>5, <2>3
    <3>4. /\ Elems(pending)' = Elems(pending) /\ Filling' = Filling
          /\ Elems(current)' = Elems(current) /\ AllElems(pipe)' = AllElems(pipe)
          /\ Elems(batch)' = Elems(batch)
        BY <2>1 DEF Filling
    <3>5. LineOnce'
        BY <1>3, <1>4, <2>1, <3>2, <3>3, <3>4 DEF LineOnce, Apart, InLine
    <3>6. decision'[Id(w)][1] = "unspecified"
        BY <2>1, <2>3 DEF FirstObject
    <3>7. InLine' = InLine \cup {Id(w)}
        BY <3>2, <3>4 DEF InLine
    <3> QED BY <1>5, <2>1, <3>1, <3>5, <3>6, <3>7 DEF LineUndecided
  <2> QED BY <2>2, <2>3
<1>9. ASSUME NEW w \in Workers, Add(w) PROVE LineOnce' /\ LineUndecided'
  <2>1. /\ UNCHANGED <<fill, current, pipe, batch, decision, onMap>>
        /\ \A v \in Workers : Id(v)' = Id(v) /\ (v # w => pc'[v] = pc[v])
        /\ pc[w] = "add" /\ pc'[w] = "post" /\ Id(w) \in Ids
        /\ pending' = Append(pending, Id(w))
      BY <1>2, <1>9, SamplerAssumption
         DEF Add, AddToCurrentBatch, tickVars, Id, IInv, Carries
  <2>2. Id(w) \in Adding /\ Adding' = Adding \ {Id(w)}
    <3>1. \A v \in Workers : pc[v] = "add" /\ Id(v) = Id(w) => v = w
        BY <2>1 DEF IInv, OneTokenPerTrace, CreatedOnce, Creating
    <3> QED BY <2>1, <3>1 DEF Adding
  <2>3. Id(w) \notin Elems(pending)
      BY <1>3, <2>2 DEF Apart
  <2>4. Elems(pending)' = Elems(pending) \cup {Id(w)} /\ Once(pending)'
      BY <1>1, <1>4, <2>1, <2>3, ElemsOfAppend
  <2>5. /\ Filling' = Filling /\ Elems(current)' = Elems(current)
        /\ AllElems(pipe)' = AllElems(pipe) /\ Elems(batch)' = Elems(batch)
        /\ Once(current)' /\ Once(batch)' /\ PipeOnce(pipe)'
      BY <1>4, <2>1 DEF Filling
  <2>6. LineOnce'
      BY <1>3, <2>2, <2>4, <2>5 DEF LineOnce, Apart
  <2>7. InLine' \subseteq InLine
      BY <2>2, <2>4, <2>5 DEF InLine
  <2> QED BY <1>5, <2>1, <2>6, <2>7 DEF LineUndecided
<1>10. CASE BatcherStep \/ Shutdown
  <2>1. UNCHANGED <<Adding, pipe, batch, decision, onMap>>
    <3>1. UNCHANGED <<pc, span, pipe, batch, decision, onMap>>
        BY <1>10 DEF BatcherStep, Fill, FillTake, FillAppend, Stop, StopLock, StopWait,
                     StopClosePipe, Shutdown, StopClosePending, workerVars, tickVars,
                     tableVars
    <3> QED BY <3>1 DEF Adding, Id
  <2>2. CASE FillTake
    <3>1. fill = NoId /\ pending # <<>> /\ fill' = Head(pending)
          /\ pending' = Tail(pending) /\ current' = current
        BY <2>2 DEF FillTake
    <3>2. /\ Head(pending) \in Elems(pending) /\ Head(pending) \in Ids
          /\ Elems(pending)' \subseteq Elems(pending)
          /\ Once(pending)' /\ Head(pending) \notin Elems(pending)'
        BY <1>1, <1>4, <3>1, ElemsOfTail
    <3>3. Filling' = {Head(pending)}
        BY <3>1, <3>2 DEF Filling
    <3>4. /\ Elems(current)' = Elems(current) /\ AllElems(pipe)' = AllElems(pipe)
          /\ Elems(batch)' = Elems(batch)
          /\ Once(current)' /\ Once(batch)' /\ PipeOnce(pipe)'
        BY <1>4, <2>1, <3>1
    <3>5. LineOnce'
        BY <1>3, <2>1, <3>2, <3>3, <3>4 DEF LineOnce, Apart
    <3>6. InLine' \subseteq InLine
        BY <2>1, <3>2, <3>3, <3>4 DEF InLine
    <3> QED BY <1>5, <2>1, <3>5, <3>6 DEF LineUndecided
  <2>3. CASE FillAppend
    <3>1. fill \in Ids /\ fill' = NoId /\ current' = Append(current, fill)
          /\ pending' = pending
        BY <1>1, <2>3 DEF FillAppend
    <3>2. Filling = {fill} /\ Filling' = {}
        BY <1>1, <3>1 DEF Filling
    <3>3. fill \notin Elems(current)
        BY <1>3, <3>2 DEF Apart
    <3>4. Elems(current)' = Elems(current) \cup {fill} /\ Once(current)'
        BY <1>1, <1>4, <3>1, <3>3, ElemsOfAppend
    <3>5. /\ Elems(pending)' = Elems(pending) /\ AllElems(pipe)' = AllElems(pipe)
          /\ Elems(batch)' = Elems(batch)
          /\ Once(pending)' /\ Once(batch)' /\ PipeOnce(pipe)'
        BY <1>4, <2>1, <3>1
    <3>6. LineOnce'
        BY <1>3, <2>1, <3>2, <3>4, <3>5 DEF LineOnce, Apart
    <3>7. InLine' \subseteq InLine
        BY <2>1, <3>2, <3>4, <3>5 DEF InLine
    <3> QED BY <1>5, <2>1, <3>6, <3>7 DEF LineUndecided
  <2>4. CASE Stop \/ Shutdown
    <3>1. UNCHANGED <<pending, fill, current>>
        BY <2>4 DEF Stop, StopLock, StopWait, StopClosePipe, Shutdown, StopClosePending
    <3> QED BY <2>1, <3>1, LineUnmoved DEF LineFrame
  <2> QED BY <1>10, <2>2, <2>3, <2>4 DEF BatcherStep, Fill
<1>11. CASE CloseCurrent \/ EvalFound \/ EndTick \/ StopTicker \/ Terminated
  <2>1. UNCHANGED <<pending, fill, current, pipe, batch, decision, onMap, pc, span>>
      BY <1>11 DEF CloseCurrent, ReadStopped, EvalFound, EndTick, StopTicker, Terminated,
                   vars, batcherVars, tableVars, workerVars, tickVars
  <2> QED BY <2>1, LineUnmoved DEF LineFrame, Adding, Id
<1>12. CASE OnTick \/ OnTickLast \/ SendBatch \/ EvalMissing \/ Decide
  <2>1. UNCHANGED <<Adding, pending, fill, onMap>>
    <3>1. UNCHANGED <<pc, span, pending, fill, onMap>>
        BY <1>12 DEF OnTick, TakeFirst, OnTickLast, TakeCurrent, SendBatch, SendCurrent,
                     EvalMissing, Decide, batcherVars, tableVars, workerVars
    <3> QED BY <3>1 DEF Adding, Id
  <2>2. /\ Elems(pending)' = Elems(pending) /\ Filling' = Filling /\ Once(pending)'
      BY <1>4, <2>1 DEF Filling
  <2>3. CASE OnTick
    <3>1. /\ batch = <<>> /\ pipe # <<>> /\ batch' = Head(pipe) /\ pipe' = Tail(pipe)
          /\ UNCHANGED <<current, decision>>
        BY <2>3 DEF OnTick, TakeFirst, Turns, tableVars
    <3>2. /\ Elems(batch)' \subseteq AllElems(pipe) /\ AllElems(pipe)' \subseteq AllElems(pipe)
          /\ Once(batch)' /\ PipeOnce(pipe)' /\ Elems(batch)' \cap AllElems(pipe)' = {}
        BY <1>1, <1>4, <3>1, PipeOfTail
    <3>3. Elems(current)' = Elems(current) /\ Once(current)'
        BY <1>4, <3>1
    <3>4. LineOnce'
        BY <1>3, <2>1, <2>2, <3>2, <3>3 DEF LineOnce, Apart
    <3>5. InLine' \subseteq InLine
        BY <2>1, <2>2, <3>2, <3>3 DEF InLine
    <3> QED BY <1>5, <2>1, <3>1, <3>4, <3>5 DEF LineUndecided
  <2>4. CASE OnTickLast
    <3>1. /\ batch' = current /\ current' = <<>> /\ UNCHANGED <<pipe, decision>>
        BY <2>4 DEF OnTickLast, TakeCurrent, tableVars
    <3>2. /\ Elems(batch)' = Elems(current) /\ Once(batch)'
          /\ Elems(current)' = {} /\ Once(current)'
          /\ AllElems(pipe)' = AllElems(pipe) /\ PipeOnce(pipe)'
        BY <1>4, <3>1, ElemsOfEmpty
    <3>3. LineOnce'
        BY <1>3, <2>1, <2>2, <3>2 DEF LineOnce, Apart
    <3>4. InLine' \subseteq InLine
        BY <2>1, <2>2, <3>2 DEF InLine
    <3> QED BY <1>5, <2>1, <3>1, <3>3, <3>4 DEF LineUndecided
  <2>5. CASE SendBatch
    <3>1. /\ pipe' = Append(pipe, current) /\ current' = <<>> /\ UNCHANGED <<batch, decision>>
        BY <2>5 DEF SendBatch, SendCurrent, tableVars
    <3>2. AllElems(pipe) \cap Elems(current) = {}
        BY <1>3 DEF Apart
    <3>3. AllElems(pipe)' = AllElems(pipe) \cup Elems(current) /\ PipeOnce(pipe)'
        BY <1>1, <1>4, <3>1, <3>2, PipeOfAppend
    <3>4. /\ Elems(batch)' = Elems(batch) /\ Once(batch)'
          /\ Elems(current)' = {} /\ Once(current)'
        BY <1>4, <3>1, ElemsOfEmpty
    <3>5. LineOnce'
        BY <1>3, <2>1, <2>2, <3>3, <3>4 DEF LineOnce, Apart
    <3>6. InLine' \subseteq InLine
        BY <2>1, <2>2, <3>3, <3>4 DEF InLine
    <3> QED BY <1>5, <2>1, <3>1, <3>5, <3>6 DEF LineUndecided
  <2>6. CASE EvalMissing \/ Decide
    <3>1. /\ batch # <<>> /\ batch' = Tail(batch) /\ UNCHANGED <<current, pipe>>
        BY <2>6 DEF EvalMissing, Decide, batcherVars, IInv, Carries
    <3>2. /\ Head(batch) \in Elems(batch) /\ Elems(batch)' \subseteq Elems(batch)
          /\ Once(batch)' /\ Head(batch) \notin Elems(batch)'
        BY <1>1, <1>4, <3>1, ElemsOfTail
    <3>3. /\ Elems(current)' = Elems(current) /\ Once(current)'
          /\ AllElems(pipe)' = AllElems(pipe) /\ PipeOnce(pipe)'
        BY <1>4, <3>1
    <3>4. LineOnce'
        BY <1>3, <2>1, <2>2, <3>2, <3>3 DEF LineOnce, Apart
    <3>5. InLine' \subseteq InLine \ {Head(batch)}
        BY <1>3, <2>1, <2>2, <3>2, <3>3 DEF InLine, Apart
    <3>6. \A i \in InLine' : decision'[i][1] = decision[i][1]
      <4>1. CASE EvalMissing
          BY <4>1 DEF EvalMissing, tableVars
      <4>2. CASE Decide
        <5>1. /\ InLine \subseteq Ids
              /\ decision \in [Ids -> [Gens -> {"unspecified", "sampled", "notSampled"}]]
            BY <1>1, <1>5 DEF IInv, TypeOK, TableTypeOK
        <5>2. PICK d : decision' = [decision EXCEPT ![Head(batch)][tref] = d]
            BY <4>2 DEF Decide
        <5> QED BY <3>5, <5>1, <5>2
      <4> QED BY <2>6, <4>1, <4>2
    <3> QED BY <1>5, <2>1, <3>4, <3>5, <3>6 DEF LineUndecided
  <2> QED BY <1>12, <2>3, <2>4, <2>5, <2>6
<1> QED
    BY <1>6, <1>7, <1>8, <1>9, <1>10, <1>11, <1>12, NoEviction DEF Next, WorkerStep, TickStep

-------------------------------------------------------------------------------
(* Every step leaves every id with its first object or none. *)
LEMMA FirstObjectStep ==
    ASSUME IInv, FirstObject, LineUndecided, Next, ~evictions'
    PROVE  FirstObject'
PROOF
<1>1. /\ pc \in [Workers -> {"idle", "store", "add", "post", "evict", "drop", "append"}]
      /\ span \in [Workers -> Spans \cup {NoSpan}] /\ ref \in [Workers -> Gens]
      /\ gen \in [Ids -> Gens] /\ batch \in Seq(Ids) /\ tref \in Gens
      /\ decision \in [Ids -> [Gens -> {"unspecified", "sampled", "notSampled"}]]
    BY DEF IInv, TypeOK, WorkerTypeOK, TableTypeOK, TickTypeOK
<1>2. /\ \A i \in Ids : gen[i] = IF i \in onMap THEN 1 ELSE 0
      /\ \A i \in Ids : decision[i][1] # "unspecified" => i \in onMap
      /\ \A w \in Workers : pc[w] \notin {"idle", "store"} => ref[w] = 1 /\ Id(w) \in onMap
      /\ tpc = "decide" => tref = 1
    BY DEF FirstObject
<1>3. ASSUME NEW w \in Workers, NEW s \in Spans, Load(w, s) PROVE FirstObject'
  <2>1. /\ UNCHANGED <<onMap, gen, decision, tpc, tref>>
        /\ \A v \in Workers : v # w =>
             pc'[v] = pc[v] /\ ref'[v] = ref[v] /\ Id(v)' = Id(v)
        /\ pc'[w] = (IF TraceOf[s] \in onMap THEN "append" ELSE "store")
        /\ ref'[w] = (IF TraceOf[s] \in onMap THEN gen[TraceOf[s]] ELSE 0)
        /\ Id(w)' = TraceOf[s] /\ TraceOf[s] \in Ids
      BY <1>1, <1>3, SamplerAssumption DEF Load, Id, tableVars, tickVars
  <2> QED BY <1>2, <2>1 DEF FirstObject
<1>4. ASSUME NEW w \in Workers, LoadOrStore(w) PROVE FirstObject'
  <2>1. /\ UNCHANGED <<decision, tpc, tref>>
        /\ \A v \in Workers :
             Id(v)' = Id(v) /\ (v # w => pc'[v] = pc[v] /\ ref'[v] = ref[v])
        /\ pc[w] = "store" /\ Id(w) \in Ids
      BY <1>1, <1>4, SamplerAssumption DEF LoadOrStore, tickVars, Id, IInv, Carries
  <2>2. CASE Id(w) \in onMap
    <3>1. UNCHANGED <<onMap, gen>> /\ ref'[w] = gen[Id(w)]
        BY <1>1, <1>4, <2>2 DEF LoadOrStore
    <3> QED BY <1>2, <2>1, <2>2, <3>1 DEF FirstObject
  <2>3. CASE Id(w) \notin onMap
    <3>1. /\ onMap' = onMap \cup {Id(w)} /\ gen' = [gen EXCEPT ![Id(w)] = gen[Id(w)] + 1]
          /\ ref'[w] = gen[Id(w)] + 1
        BY <1>1, <1>4, <2>3 DEF LoadOrStore
    <3>2. gen[Id(w)] + 1 = 1
        BY <1>2, <2>1, <2>3
    <3>3. \A i \in Ids : gen'[i] = IF i \in onMap' THEN 1 ELSE 0
        BY <1>1, <1>2, <2>1, <3>1, <3>2
    <3>4. \A v \in Workers : pc'[v] \notin {"idle", "store"} => ref'[v] = 1 /\ Id(v)' \in onMap'
        BY <1>2, <2>1, <3>1, <3>2
    <3> QED BY <1>2, <2>1, <3>1, <3>3, <3>4 DEF FirstObject
  <2> QED BY <2>2, <2>3
<1>5. ASSUME NEW w \in Workers,
             Add(w) \/ Post(w) \/ PostFull(w) \/ TakeVictim(w) \/ AppendSpan(w)
      PROVE  FirstObject'
  <2>1. /\ UNCHANGED <<onMap, gen, decision, tpc, tref>>
        /\ \A v \in Workers : v # w =>
             pc'[v] = pc[v] /\ ref'[v] = ref[v] /\ Id(v)' = Id(v)
        /\ pc[w] \notin {"idle", "store"}
        /\ pc'[w] = "idle" \/ (ref'[w] = ref[w] /\ Id(w)' = Id(w))
      BY <1>1, <1>5 DEF Add, Post, PostFull, TakeVictim, AppendSpan, Id, tickVars, tableVars
  <2> QED BY <1>2, <2>1 DEF FirstObject
<1>6. CASE \/ OnTick \/ OnTickLast \/ CloseCurrent \/ SendBatch \/ EvalMissing \/ EndTick
           \/ BatcherStep \/ Shutdown \/ StopTicker \/ Terminated
  <2>1. /\ UNCHANGED <<onMap, gen, decision, pc, span, ref, tref>>
        /\ tpc' = "decide" => tpc = "decide"
      BY <1>6 DEF OnTick, OnTickLast, CloseCurrent, SendBatch, EvalMissing, EndTick,
                  BatcherStep, Shutdown, StopTicker, Terminated, vars, tableVars, workerVars,
                  tickVars
  <2> QED BY <1>2, <2>1 DEF FirstObject, Id
<1>7. CASE EvalFound
  <2>1. /\ UNCHANGED <<onMap, gen, decision, pc, span, ref>> /\ tref' = gen[Head(batch)]
        /\ Head(batch) \in onMap /\ Head(batch) \in Ids
      BY <1>1, <1>7 DEF EvalFound, tableVars, workerVars
  <2> QED BY <1>2, <2>1 DEF FirstObject, Id
<1>8. CASE Decide
  <2>1. /\ UNCHANGED <<onMap, gen, pc, span, ref>> /\ tpc' = "eval"
        /\ tref = 1 /\ Head(batch) \in Ids /\ batch # <<>>
      BY <1>1, <1>2, <1>8 DEF Decide, workerVars, IInv, Carries
  <2>2. Head(batch) \in onMap
    <3>1. Head(batch) \in Elems(batch)
        BY <1>1, <2>1, ElemsOfTail
    <3> QED BY <3>1 DEF LineUndecided, InLine
  <2>3. PICK d : decision' = [decision EXCEPT ![Head(batch)][tref] = d]
      BY <1>8 DEF Decide
  <2>4. \A i \in Ids : decision'[i][1] # "unspecified" => i \in onMap
      BY <1>1, <1>2, <2>1, <2>2, <2>3
  <2> QED BY <1>2, <2>1, <2>4 DEF FirstObject, Id
<1> QED BY <1>3, <1>4, <1>5, <1>6, <1>7, <1>8, NoEviction DEF Next, WorkerStep, TickStep

(* Every step leaves a span with one worker at most. *)
LEMMA CarriedOnceStep ==
    ASSUME IInv, CarriedOnce, Next
    PROVE  CarriedOnce'
PROOF
<1>1. /\ pc \in [Workers -> {"idle", "store", "add", "post", "evict", "drop", "append"}]
      /\ span \in [Workers -> Spans \cup {NoSpan}] /\ NoSpan \notin Spans /\ todo \subseteq Spans
    BY SamplerAssumption DEF IInv, TypeOK, WorkerTypeOK
<1>2. ASSUME NEW w \in Workers, NEW s \in Spans, Load(w, s) PROVE CarriedOnce'
  <2>1. /\ pc'[w] # "idle" /\ span'[w] = s /\ s \in todo /\ s # NoSpan
        /\ todo' = todo \ {s}
        /\ \A v \in Workers : v # w => pc'[v] = pc[v] /\ span'[v] = span[v]
      BY <1>1, <1>2 DEF Load
  <2> QED BY <2>1 DEF CarriedOnce
<1>3. ASSUME NEW w \in Workers, AppendSpan(w) PROVE CarriedOnce'
  <2>1. /\ pc'[w] = "idle" /\ span'[w] = NoSpan /\ todo' = todo
        /\ \A v \in Workers : v # w => pc'[v] = pc[v] /\ span'[v] = span[v]
      BY <1>1, <1>3 DEF AppendSpan
  <2> QED BY <1>1, <2>1 DEF CarriedOnce
<1>4. ASSUME NEW w \in Workers,
             \/ LoadOrStore(w) \/ Add(w) \/ Post(w) \/ PostFull(w) \/ TakeVictim(w)
             \/ DropTrace(w)
      PROVE  CarriedOnce'
  <2>1. /\ UNCHANGED <<span, todo>> /\ pc[w] # "idle" /\ pc'[w] # "idle"
        /\ \A v \in Workers : v # w => pc'[v] = pc[v]
      BY <1>1, <1>4 DEF LoadOrStore, Add, Post, PostFull, TakeVictim, DropTrace
  <2> QED BY <2>1 DEF CarriedOnce
<1>5. CASE TickStep \/ BatcherStep \/ Shutdown \/ StopTicker \/ Terminated
  <2>1. UNCHANGED <<pc, span, todo>>
      BY <1>5 DEF TickStep, OnTick, OnTickLast, CloseCurrent, SendBatch, EvalMissing,
                  EvalFound, Decide, EndTick, BatcherStep, Shutdown, StopTicker, Terminated,
                  vars, workerVars
  <2> QED BY <2>1 DEF CarriedOnce
<1> QED BY <1>2, <1>3, <1>4, <1>5 DEF Next, WorkerStep

(* Every step keeps the turns of the timer and the batcher. *)
LEMMA TurnsStep ==
    ASSUME IInv, Turns, Next
    PROVE  Turns'
PROOF
<1>1. /\ pipe \in Seq(Seq(Ids)) /\ current \in Seq(Ids) /\ Len(pipe) \in Nat
      /\ NumBatches \in Nat \ {0} /\ reader \in BOOLEAN
    BY BatcherAssumption, LenProperties DEF IInv, TypeOK, BatcherTypeOK
<1>2. CASE UNCHANGED <<pipe, reader, bpc, tpc, batch>>
    BY <1>2 DEF Turns
<1>3. CASE OnTick
  <2>1. /\ tpc = "idle" /\ tpc' = "taken" /\ UNCHANGED <<reader, bpc>>
        /\ pipe # <<>> /\ pipe' = Tail(pipe)
      BY <1>3 DEF OnTick, TakeFirst
  <2>2. Len(pipe') = Len(pipe) - 1
      BY <1>1, <2>1
  <2> QED BY <1>1, <2>1, <2>2 DEF Turns
<1>4. CASE OnTickLast
    BY <1>4 DEF OnTickLast, TakeCurrent, Turns
<1>5. CASE CloseCurrent
  <2>1. /\ UNCHANGED <<pipe, bpc, batch>> /\ tpc = "taken"
        /\ reader' = ~Stopped /\ tpc' = (IF Stopped THEN "eval" ELSE "send")
      BY <1>5 DEF CloseCurrent, ReadStopped
  <2> QED BY <2>1 DEF Turns, Stopped
<1>6. CASE SendBatch
  <2>1. /\ tpc = "send" /\ tpc' = "eval" /\ reader' = FALSE /\ UNCHANGED <<bpc, batch>>
        /\ pipe' = Append(pipe, current)
      BY <1>6 DEF SendBatch, SendCurrent
  <2>2. Len(pipe') = Len(pipe) + 1
      BY <1>1, <2>1, AppendProperties
  <2> QED BY <1>1, <2>1, <2>2 DEF Turns
<1>7. CASE EvalMissing \/ EvalFound \/ Decide \/ EndTick \/ StopTicker
  <2>1. /\ UNCHANGED <<pipe, reader, bpc>>
        /\ tpc \in {"idle", "eval", "decide"} /\ tpc' \in {"idle", "eval", "decide", "done"}
        /\ tpc' \in {"idle", "done"} => batch' = batch /\ (batch = <<>> \/ tpc = "idle")
      BY <1>7 DEF EvalMissing, EvalFound, Decide, EndTick, StopTicker, batcherVars
  <2> QED BY <2>1 DEF Turns
<1>8. CASE BatcherStep \/ Shutdown
  <2>1. /\ UNCHANGED <<pipe, reader, tpc, batch>>
        /\ bpc \in {"stopped", "closed"} => bpc' \in {"stopped", "closed"}
      BY <1>8 DEF BatcherStep, Fill, FillTake, FillAppend, Stop, StopLock, StopWait,
                  StopClosePipe, Shutdown, StopClosePending, tickVars
  <2> QED BY <2>1 DEF Turns
<1> QED
  <2>1. ASSUME NEW w \in Workers, WorkerStep(w)
        PROVE  UNCHANGED <<pipe, reader, bpc, tpc, batch>>
      BY <2>1 DEF WorkerStep, LoadOrStore, Add, AddToCurrentBatch, Post, PostFull, TakeVictim,
                  DropTrace, AppendSpan, batcherVars, tickVars
  <2> QED
      BY <1>2, <1>3, <1>4, <1>5, <1>6, <1>7, <1>8, <2>1
         DEF Next, Load, TickStep, Terminated, vars, batcherVars, tickVars

(* Every step lets the ids wait for their turn. *)
LEMMA WaitedStep ==
    ASSUME IInv, NoSendOnClosed, LineUndecided, FirstObject, Turns, Waited, Next, ~evictions'
    PROVE  Waited'
PROOF
<1> SUFFICES ASSUME bpc' # "closed"
             PROVE  /\ \A k \in 1 .. Len(pipe') :
                         \A i \in Elems(pipe'[k]) : NumBatches <= age'[i] + k
                    /\ \A i \in Elems(batch') : age'[i] = NumBatches
                    /\ \A i \in Ids : decision'[i][1] # "unspecified" => age'[i] = NumBatches
    BY DEF Waited
<1>1. /\ pipe \in Seq(Seq(Ids)) /\ current \in Seq(Ids) /\ batch \in Seq(Ids)
      /\ Len(pipe) \in Nat /\ NumBatches \in Nat \ {0} /\ age \in [Ids -> 0 .. NumBatches]
    BY BatcherAssumption, LenProperties
       DEF IInv, TypeOK, BatcherTypeOK, TickTypeOK, OtherTypeOK
<1>2. bpc # "closed"
    BY DEF Next, WorkerStep, Load, LoadOrStore, Add, AddToCurrentBatch, Post, PostFull,
           TakeVictim, DropTrace, AppendSpan, TickStep, OnTick, TakeFirst, OnTickLast,
           TakeCurrent, CloseCurrent, ReadStopped, SendBatch, SendCurrent, EvalMissing,
           EvalFound, Decide, EndTick, BatcherStep, Fill, FillTake, FillAppend, Stop,
           StopLock, StopWait, StopClosePipe, Shutdown, StopClosePending, StopTicker,
           Terminated, vars, batcherVars
<1>3. /\ \A k \in 1 .. Len(pipe) : \A i \in Elems(pipe[k]) : NumBatches <= age[i] + k
      /\ \A i \in Elems(batch) : age[i] = NumBatches
      /\ \A i \in Ids : decision[i][1] # "unspecified" => age[i] = NumBatches
    BY <1>2 DEF Waited
<1>4. CASE UNCHANGED <<pipe, batch, decision, age>>
    BY <1>3, <1>4
<1>5. CASE OnTick
  <2>1. /\ pipe # <<>> /\ pipe' = Tail(pipe) /\ batch' = Head(pipe) /\ decision' = decision
        /\ age' = [i \in Ids |-> IF gen[i] > 0 /\ ~evictions THEN Older(age[i]) ELSE age[i]]
      BY <1>5 DEF OnTick, TakeFirst, tableVars
  <2>2. /\ Len(pipe') = Len(pipe) - 1 /\ Head(pipe) = pipe[1] /\ 1 \in 1 .. Len(pipe)
        /\ \A k \in 1 .. Len(pipe') : pipe'[k] = pipe[k + 1] /\ k + 1 \in 1 .. Len(pipe)
      BY <1>1, <2>1
  <2>3. \A k \in 1 .. Len(pipe) : \A i \in Elems(pipe[k]) :
          i \in Ids /\ age'[i] = Older(age[i])
    <3> SUFFICES ASSUME NEW k \in 1 .. Len(pipe), NEW i \in Elems(pipe[k])
                 PROVE  i \in Ids /\ age'[i] = Older(age[i])
        OBVIOUS
    <3>1. i \in onMap
        BY DEF LineUndecided, InLine, AllElems
    <3>2. i \in Ids
        BY <3>1 DEF IInv, TypeOK, TableTypeOK
    <3>3. gen[i] > 0 /\ ~evictions
        BY <3>1, <3>2, NoEviction DEF FirstObject
    <3> QED BY <2>1, <3>2, <3>3
  <2>4. \A k \in 1 .. Len(pipe') : \A i \in Elems(pipe'[k]) : NumBatches <= age'[i] + k
    <3> SUFFICES ASSUME NEW k \in 1 .. Len(pipe'), NEW i \in Elems(pipe'[k])
                 PROVE  NumBatches <= age'[i] + k
        OBVIOUS
    <3>1. i \in Elems(pipe[k + 1]) /\ k + 1 \in 1 .. Len(pipe)
        BY <2>2
    <3>2. NumBatches <= age[i] + (k + 1) /\ i \in Ids /\ age'[i] = Older(age[i])
        BY <1>3, <2>3, <3>1
    <3>3. k \in Nat \ {0} /\ age[i] \in 0 .. NumBatches
        BY <1>1, <2>2, <3>2
    <3> QED BY <1>1, <3>2, <3>3 DEF Older
  <2>5. \A i \in Elems(batch') : age'[i] = NumBatches
    <3> SUFFICES ASSUME NEW i \in Elems(batch') PROVE age'[i] = NumBatches
        OBVIOUS
    <3>1. NumBatches <= age[i] + 1 /\ i \in Ids /\ age'[i] = Older(age[i])
        BY <1>3, <2>1, <2>2, <2>3
    <3>2. age[i] \in 0 .. NumBatches
        BY <1>1, <3>1
    <3> QED BY <1>1, <3>1, <3>2 DEF Older
  <2>6. \A i \in Ids : age[i] = NumBatches => age'[i] = NumBatches
      BY <1>1, <2>1 DEF Older
  <2> QED BY <1>3, <2>1, <2>4, <2>5, <2>6
<1>6. CASE OnTickLast
    BY <1>2, <1>6 DEF OnTickLast, TakeCurrent
<1>7. CASE SendBatch
  <2>1. /\ pipe' = Append(pipe, current) /\ UNCHANGED <<batch, decision, age>>
        /\ tpc = "send" /\ reader
      BY <1>7 DEF SendBatch, SendCurrent, tableVars
  <2>2. Len(pipe) + 1 = NumBatches
      BY <1>1, <2>1 DEF Turns, NoSendOnClosed
  <2>3. /\ Len(pipe') = Len(pipe) + 1 /\ pipe'[Len(pipe) + 1] = current
        /\ \A k \in 1 .. Len(pipe) : pipe'[k] = pipe[k]
      BY <1>1, <2>1, AppendProperties
  <2>4. \A i \in Elems(current) : NumBatches <= age[i] + NumBatches
    <3> SUFFICES ASSUME NEW i \in Elems(current) PROVE NumBatches <= age[i] + NumBatches
        OBVIOUS
    <3>1. i \in Ids
        BY DEF LineUndecided, InLine, IInv, TypeOK, TableTypeOK
    <3> QED BY <1>1, <3>1
  <2>5. \A k \in 1 .. Len(pipe') : k \in 1 .. Len(pipe) \/ k = NumBatches
      BY <1>1, <2>2, <2>3
  <2> QED BY <1>3, <2>1, <2>2, <2>3, <2>4, <2>5
<1>8. CASE EvalMissing
  <2>1. batch # <<>> /\ batch' = Tail(batch) /\ UNCHANGED <<pipe, decision, age>>
      BY <1>8 DEF EvalMissing, batcherVars, tableVars
  <2>2. Elems(batch') \subseteq Elems(batch)
      BY <1>1, <2>1, ElemsOfTail
  <2> QED BY <1>3, <2>1, <2>2
<1>9. CASE Decide
  <2>1. batch # <<>> /\ batch' = Tail(batch) /\ UNCHANGED <<pipe, age>>
      BY <1>9 DEF Decide, batcherVars, IInv, Carries
  <2>2. Elems(batch') \subseteq Elems(batch) /\ Head(batch) \in Elems(batch)
      BY <1>1, <2>1, ElemsOfTail
  <2>3. PICK d : decision' = [decision EXCEPT ![Head(batch)][tref] = d]
      BY <1>9 DEF Decide
  <2>4. \A i \in Ids : i # Head(batch) => decision'[i][1] = decision[i][1]
      BY <2>3 DEF IInv, TypeOK, TableTypeOK
  <2> QED BY <1>3, <2>1, <2>2, <2>4
<1> QED
  <2>1. ASSUME NEW w \in Workers, WorkerStep(w) PROVE UNCHANGED <<pipe, batch, decision, age>>
      BY <2>1, NoEviction
         DEF WorkerStep, LoadOrStore, Add, AddToCurrentBatch, Post, PostFull, TakeVictim,
             AppendSpan, batcherVars, tickVars, tableVars
  <2>2. CASE CloseCurrent \/ EvalFound \/ EndTick \/ StopTicker \/ BatcherStep \/ Shutdown
      BY <1>4, <2>2 DEF CloseCurrent, ReadStopped, EvalFound, EndTick, StopTicker, BatcherStep,
                        Fill, FillTake, FillAppend, Stop, StopLock, StopWait, StopClosePipe,
                        Shutdown, StopClosePending, batcherVars, tickVars, tableVars
  <2> QED
      BY <1>4, <1>5, <1>6, <1>7, <1>8, <1>9, <2>1, <2>2
         DEF Next, Load, TickStep, Terminated, vars, batcherVars, tickVars, tableVars

(* Who has a span, and what its object and the next consumer have of it,   *)
(* does not change.                                                        *)
LEMMA FatesFrame ==
    ASSUME Fates, UNCHANGED <<todo, span, received, decision, exported>>
    PROVE  Fates'
PROOF
  BY DEF Fates, Undelivered

(* Every step decides the fate of a span at most once. *)
LEMMA FatesStep ==
    ASSUME IInv, LineUndecided, FirstObject, CarriedOnce, Fates, Next, ~evictions'
    PROVE  Fates'
PROOF
<1>1. /\ pc \in [Workers -> {"idle", "store", "add", "post", "evict", "drop", "append"}]
      /\ span \in [Workers -> Spans \cup {NoSpan}] /\ NoSpan \notin Spans
      /\ todo \subseteq Spans /\ exported \in [Spans -> Nat] /\ batch \in Seq(Ids)
      /\ received \in [Ids -> [Gens -> SUBSET Spans]] /\ 1 \in Gens
      /\ decision \in [Ids -> [Gens -> {"unspecified", "sampled", "notSampled"}]]
      /\ TraceOf \in [Spans -> Ids]
    BY SamplerAssumption
       DEF IInv, TypeOK, WorkerTypeOK, OtherTypeOK, TableTypeOK, TickTypeOK, Gens
<1>2. \A i \in Ids : \A s \in received[i][1] : TraceOf[s] = i
    BY DEF Fates
<1>3. ASSUME NEW s \in Spans, Undelivered(s)
      PROVE  exported[s] = 0 /\ s \notin received[TraceOf[s]][1]
    BY <1>3 DEF Fates
<1>4. ASSUME NEW s \in Spans, ~Undelivered(s)
      PROVE  /\ decision[TraceOf[s]][1] = "unspecified" => s \in received[TraceOf[s]][1]
             /\ exported[s] = IF decision[TraceOf[s]][1] = "sampled" THEN 1 ELSE 0
    BY <1>4 DEF Fates
<1>5. ASSUME NEW w \in Workers, NEW s \in Spans, Load(w, s) PROVE Fates'
  <2>1. /\ UNCHANGED <<received, decision, exported>>
        /\ todo' = todo \ {s} /\ s \in todo /\ span'[w] = s /\ span[w] = NoSpan
        /\ \A v \in Workers : v # w => span'[v] = span[v]
      BY <1>1, <1>5 DEF Load, tableVars, CarriedOnce
  <2>2. \A r \in Spans : Undelivered(r)' <=> Undelivered(r)
      BY <1>1, <2>1 DEF Undelivered
  <2> QED BY <2>1, <2>2 DEF Fates
<1>6. ASSUME NEW w \in Workers, AppendSpan(w) PROVE Fates'
  <2>0. PICK x \in Spans : x = span[w]
      BY <1>6 DEF AppendSpan, IInv, Carries
  <2> DEFINE i == TraceOf[x]
             d == decision[i][1]
  <2>1. /\ x \in Spans /\ i \in Ids /\ Undelivered(x)
      BY <1>1, <2>0 DEF Undelivered
  <2>2. ref[w] = 1 /\ Id(w) = i
      BY <1>6, <2>0 DEF AppendSpan, FirstObject, Id
  <2>3. /\ UNCHANGED <<todo, decision>>
        /\ span'[w] = NoSpan /\ \A v \in Workers : v # w => span'[v] = span[v]
      BY <1>1, <1>6 DEF AppendSpan
  <2>4. /\ received' = IF d = "unspecified"
                       THEN [received EXCEPT ![i][1] = @ \cup {x}] ELSE received
        /\ exported' = IF d = "sampled" THEN [exported EXCEPT ![x] = @ + 1] ELSE exported
      BY <1>6, <2>0, <2>2 DEF AppendSpan
  <2>5. ~Undelivered(x)' /\ \A s \in Spans : s # x => (Undelivered(s)' <=> Undelivered(s))
    <3>1. x \notin todo /\ \A v \in Workers : v # w => span[v] # x
        BY <1>1, <2>0, <2>1 DEF CarriedOnce
    <3> QED BY <1>1, <2>0, <2>1, <2>3, <3>1 DEF Undelivered
  <2> HIDE DEF i, d
  <2>6. /\ \A j \in Ids : \A s : s \in received'[j][1] =>
             s \in received[j][1] \/ (s = x /\ j = i)
        /\ \A j \in Ids : received[j][1] \subseteq received'[j][1]
        /\ d = "unspecified" => x \in received'[i][1]
      BY <1>1, <2>1, <2>4
  <2>7. /\ \A s \in Spans : s # x => exported'[s] = exported[s]
        /\ exported'[x] = IF d = "sampled" THEN 1 ELSE 0
    <3>1. exported[x] = 0
        BY <1>3, <2>1
    <3> QED BY <1>1, <2>1, <2>4, <3>1
  <2>8. \A j \in Ids : \A s \in received'[j][1] : TraceOf[s] = j
      BY <1>2, <2>6 DEF i
  <2>9. ASSUME NEW s \in Spans, Undelivered(s)'
        PROVE  exported'[s] = 0 /\ s \notin received'[TraceOf[s]][1]
    <3>1. s # x /\ Undelivered(s) /\ TraceOf[s] \in Ids
        BY <1>1, <2>5, <2>9
    <3> QED BY <1>3, <2>6, <2>7, <3>1
  <2>10. ASSUME NEW s \in Spans, ~Undelivered(s)'
         PROVE  /\ decision'[TraceOf[s]][1] = "unspecified" => s \in received'[TraceOf[s]][1]
                /\ exported'[s] = IF decision'[TraceOf[s]][1] = "sampled" THEN 1 ELSE 0
    <3>1. CASE s = x
        BY <2>3, <2>6, <2>7, <3>1 DEF i, d
    <3>2. CASE s # x
      <4>1. ~Undelivered(s) /\ TraceOf[s] \in Ids
          BY <1>1, <2>5, <2>10, <3>2
      <4> QED BY <1>4, <2>3, <2>6, <2>7, <3>2, <4>1
    <3> QED BY <3>1, <3>2
  <2> QED BY <2>8, <2>9, <2>10 DEF Fates
<1>7. CASE Decide
  <2> DEFINE x == Head(batch)
  <2>1. /\ UNCHANGED <<todo, span, received>> /\ tref = 1 /\ batch # <<>>
      BY <1>7 DEF Decide, workerVars, FirstObject, IInv, Carries
  <2>2. x \in Ids /\ decision[x][1] = "unspecified"
    <3>1. x \in Elems(batch) /\ x \in Ids
        BY <1>1, <2>1, ElemsOfTail
    <3> QED BY <3>1 DEF LineUndecided, InLine
  <2>3. PICK d \in {MakeDecision(policies, x, view) :
                     view \in Views(policies, tspans, received[x][tref])} :
          /\ decision' = [decision EXCEPT ![x][tref] = d]
          /\ exported' = [s \in Spans |-> exported[s] +
                             IF d = "sampled" /\ s \in received[x][tref] THEN 1 ELSE 0]
      BY <1>7 DEF Decide
  <2>4. d \in {"sampled", "notSampled"}
      BY MakeDecisionDecides, SamplerAssumption DEF IInv, TypeOK, OtherTypeOK
  <2> HIDE DEF x
  <2>5. decision'[x][1] = d /\ \A j \in Ids : j # x => decision'[j][1] = decision[j][1]
      BY <1>1, <2>1, <2>2, <2>3
  <2>6. \A s \in Spans : exported'[s] = exported[s] +
                            IF d = "sampled" /\ s \in received[x][1] THEN 1 ELSE 0
      BY <2>1, <2>3
  <2>7. \A s \in Spans : Undelivered(s)' <=> Undelivered(s)
      BY <2>1 DEF Undelivered
  <2>8. ASSUME NEW s \in Spans, Undelivered(s)'
        PROVE  exported'[s] = 0 /\ s \notin received'[TraceOf[s]][1]
    <3>1. exported[s] = 0 /\ s \notin received[TraceOf[s]][1]
        BY <1>3, <2>7, <2>8
    <3>2. s \notin received[x][1]
        BY <1>2, <2>2, <3>1
    <3> QED BY <2>1, <2>6, <3>1, <3>2
  <2>9. ASSUME NEW s \in Spans, ~Undelivered(s)'
        PROVE  /\ decision'[TraceOf[s]][1] = "unspecified" => s \in received'[TraceOf[s]][1]
               /\ exported'[s] = IF decision'[TraceOf[s]][1] = "sampled" THEN 1 ELSE 0
    <3>1. /\ decision[TraceOf[s]][1] = "unspecified" => s \in received[TraceOf[s]][1]
          /\ exported[s] = IF decision[TraceOf[s]][1] = "sampled" THEN 1 ELSE 0
        BY <1>4, <2>7, <2>9
    <3>2. CASE TraceOf[s] = x
        BY <2>1, <2>2, <2>4, <2>5, <2>6, <3>1, <3>2
    <3>3. CASE TraceOf[s] # x
      <4>1. s \notin received[x][1] /\ TraceOf[s] \in Ids
          BY <1>1, <1>2, <2>2, <3>3
      <4>2. exported'[s] = exported[s]
          BY <1>1, <2>6, <4>1
      <4> QED BY <2>1, <2>5, <3>1, <3>3, <4>1, <4>2
    <3> QED BY <3>2, <3>3
  <2> QED BY <1>2, <2>1, <2>8, <2>9 DEF Fates
<1> QED
  <2>1. ASSUME NEW w \in Workers,
               LoadOrStore(w) \/ Add(w) \/ Post(w) \/ PostFull(w) \/ TakeVictim(w)
        PROVE  Fates'
      BY <2>1, FatesFrame DEF LoadOrStore, Add, Post, PostFull, TakeVictim, tableVars
  <2>2. CASE \/ OnTick \/ OnTickLast \/ CloseCurrent \/ SendBatch \/ EvalMissing \/ EvalFound
             \/ EndTick \/ BatcherStep \/ Shutdown \/ StopTicker \/ Terminated
      BY <2>2, FatesFrame
         DEF OnTick, OnTickLast, CloseCurrent, SendBatch, EvalMissing, EvalFound, EndTick,
             BatcherStep, Shutdown, StopTicker, Terminated, vars, tableVars, workerVars
  <2> QED BY <1>5, <1>6, <1>7, <2>1, <2>2, NoEviction DEF Next, WorkerStep, TickStep

-------------------------------------------------------------------------------
(* The line, the objects and the spans fit together, from the start on and *)
(* until a trace is evicted.                                               *)
LEMMA FirstInvariance == Spec => []FirstInv
PROOF
<1>1. Init => FirstInv
  <2> SUFFICES ASSUME Init
               PROVE  /\ LineOnce /\ LineUndecided /\ FirstObject /\ CarriedOnce /\ Turns
                      /\ Waited /\ Fates
      BY DEF FirstInv
  <2>1. /\ pending = <<>> /\ fill = NoId /\ current = <<>> /\ batch = <<>> /\ reader = FALSE
        /\ bpc = "running" /\ tpc = "idle" /\ onMap = {} /\ todo = Spans
        /\ \A w \in Workers : pc[w] = "idle" /\ span[w] = NoSpan
        /\ \A i \in Ids : gen[i] = 0
        /\ \A s \in Spans : exported[s] = 0
      BY DEF Init, BatcherInit
  <2>2. /\ Len(pipe) = NumBatches /\ NumBatches \in Nat
        /\ \A k \in 1 .. Len(pipe) : pipe[k] = <<>>
      BY BatcherAssumption DEF Init, BatcherInit
  <2>3. \A i \in Ids : received[i][1] = {} /\ decision[i][1] = "unspecified"
    <3>1. 1 \in Gens
        BY SamplerAssumption DEF Gens
    <3> QED BY <3>1 DEF Init
  <2>4. /\ Adding = {} /\ Filling = {} /\ Elems(pending) = {} /\ Elems(current) = {}
        /\ Elems(batch) = {} /\ Once(pending) /\ Once(current) /\ Once(batch)
      BY <2>1, ElemsOfEmpty, BatcherAssumption DEF Adding, Filling
  <2>5. /\ \A k \in 1 .. Len(pipe) : Elems(pipe[k]) = {} /\ Once(pipe[k])
        /\ AllElems(pipe) = {} /\ PipeOnce(pipe)
    <3>1. \A k \in 1 .. Len(pipe) : Elems(pipe[k]) = {} /\ Once(pipe[k])
        BY <2>2, ElemsOfEmpty
    <3> QED BY <3>1 DEF AllElems, PipeOnce
  <2>6. LineOnce
      BY <2>4, <2>5 DEF LineOnce, Apart
  <2>7. LineUndecided
      BY <2>4, <2>5 DEF LineUndecided, InLine
  <2>8. FirstObject
      BY <2>1, <2>3 DEF FirstObject
  <2>9. CarriedOnce
      BY <2>1, SamplerAssumption DEF CarriedOnce
  <2>10. Turns
      BY <2>1, <2>2 DEF Turns
  <2>11. Waited
      BY <2>3, <2>4, <2>5 DEF Waited
  <2>12. Fates
      BY <2>1, <2>3, SamplerAssumption DEF Fates, Undelivered
  <2> QED BY <2>6, <2>7, <2>8, <2>9, <2>10, <2>11, <2>12
<1>2. IInv /\ NoSendOnClosed /\ FirstInv /\ [Next]_vars => FirstInv'
  <2>1. CASE UNCHANGED vars
    <3>1. UNCHANGED <<batcherVars, tableVars, workerVars, tickVars, exported, age>>
        BY <2>1 DEF vars
    <3> QED BY <3>1 DEF FirstInv, LineOnce, LineUndecided, FirstObject, CarriedOnce, Turns,
                        Waited, Fates, InLine, Adding, Filling, Undelivered, Id, batcherVars,
                        tableVars, workerVars, tickVars
  <2>2. CASE Next
    <3> SUFFICES ASSUME IInv, NoSendOnClosed, FirstInv, ~evictions'
                 PROVE  /\ LineOnce' /\ LineUndecided' /\ FirstObject' /\ CarriedOnce'
                        /\ Turns' /\ Waited' /\ Fates'
        BY DEF FirstInv
    <3>1. /\ LineOnce /\ LineUndecided /\ FirstObject /\ CarriedOnce /\ Turns /\ Waited
          /\ Fates
        BY <2>2, NoEviction DEF FirstInv
    <3> QED BY <2>2, <3>1, LineStep, FirstObjectStep, CarriedOnceStep, TurnsStep, WaitedStep,
               FatesStep
  <2> QED BY <2>1, <2>2
<1> QED BY <1>1, <1>2, Invariance, SendSafety, PTL DEF Spec

(* While nothing has been evicted, no span falls between the decision and  *)
(* the append, and none is exported twice: with any number of workers, and *)
(* wherever the timer's goroutine is.                                      *)
THEOREM SpansDecidedOnce == Spec => []SpanFate
PROOF
<1>1. IInv /\ FirstInv => SpanFate
  <2> SUFFICES ASSUME FirstInv, ~evictions, NEW s \in Spans \ todo,
                      \A w \in Workers : span[w] # s
               PROVE  LET i == TraceOf[s] IN
                      /\ decision[i][1] = "unspecified" =>
                           s \in received[i][1] /\ exported[s] = 0
                      /\ decision[i][1] = "sampled" => exported[s] = 1
                      /\ decision[i][1] = "notSampled" => exported[s] = 0
      BY DEF SpanFate
  <2>1. ~Undelivered(s)
      BY DEF Undelivered
  <2> QED BY <2>1 DEF FirstInv, Fates
<1> QED BY <1>1, Invariance, FirstInvariance, PTL

(* While nothing has been evicted and the pipe is open, no trace is        *)
(* decided before the pipe's length of ticks has passed: for any length.   *)
THEOREM DecisionsWait == Spec => []DecisionWaits
PROOF
<1>1. FirstInv => DecisionWaits
    BY DEF FirstInv, Waited, DecisionWaits
<1> QED BY <1>1, FirstInvariance, PTL

===============================================================================
