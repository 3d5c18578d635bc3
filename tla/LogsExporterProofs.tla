-------------------------- MODULE LogsExporterProofs --------------------------
(***************************************************************************)
(* Proofs about the push path of the logs exporter, for any number of      *)
(* requests, records and attempts and any capacity of the limiter.         *)
(*                                                                         *)
(* The argument follows a record through the goroutines of its call: a     *)
(* record whose producer was started is with the producer, in the stream   *)
(* or in the batch, unless it is too old or the group has failed.          *)
(***************************************************************************)
EXTENDS LogsExporter, TLAPS

Elements(s) == {s[j] : j \in 1 .. Len(s)}

InGroup  == {"loop", "wait"}
InWork   == {"loop", "wait", "resources", "send"}
AtRest   == {"new", "failed", "acked", "dropped"}

(* The types of the variables. *)
TypeOK ==
    /\ ppc \in [Pushes -> AtRest \cup {"begin", "prepare"} \cup InWork]
    /\ attempts \in [Pushes -> Nat]
    /\ ctxDone \in [Pushes -> BOOLEAN]
    /\ groupErr \in [Pushes -> BOOLEAN]
    /\ next \in [Pushes -> Nat \ {0}]
    /\ running \in SUBSET Records
    /\ sending \in SUBSET Records
    /\ stream \in [Pushes -> Seq(Records)]
    /\ closed \in [Pushes -> BOOLEAN]
    /\ cpc \in [Pushes -> {"off", "run", "exit"}]
    /\ seen \in [Pushes -> SUBSET Resources]
    /\ rows \in [Pushes -> SUBSET Records]
    /\ resRows \in [Pushes -> SUBSET Resources]
    /\ rfCache \in SUBSET Resources
    /\ logsTable \in SUBSET Records
    /\ resTable \in SUBSET Resources
    /\ lost \in SUBSET Resources
    /\ spc \in {"up", "closing", "closed"}

(* Producers run in the loop of their call and in the wait behind it, and  *)
(* none once the stream is closed; only the ones of records that are not   *)
(* too old come to the send.                                               *)
Producers ==
    /\ sending \subseteq running \ Old
    /\ \A p \in Pushes :
         /\ Producing(p) => ppc[p] \in InGroup /\ ~closed[p]
         /\ closed[p] => ppc[p] \in InWork \ {"loop"}

(* Shutdown waits for the calls, and those that come later find it done.   *)
Refused == spc = "closed" => \A p \in Pushes : ~UsesDb(p)

(* A call has nothing of its own before its consumer is started, nothing   *)
(* to store of its fingerprints before they are appended, and a group that *)
(* has come to an end without an error behind the wait.                    *)
Fresh ==
    \A p \in Pushes :
        /\ ppc[p] \notin InWork =>
             /\ cpc[p] = "off" /\ ~groupErr[p] /\ next[p] = 1
             /\ stream[p] = <<>> /\ rows[p] = {} /\ seen[p] = {}
        /\ ppc[p] # "send" => resRows[p] = {}
        /\ ppc[p] \in {"resources", "send"} => cpc[p] = "exit" /\ ~groupErr[p]
        /\ ppc[p] \in InWork => cpc[p] \in {"run", "exit"}

(* Without an error and with its context alive, a call is behind the loop  *)
(* only when it has started every producer, and its consumer ends only     *)
(* with the stream.                                                        *)
Complete ==
    \A p \in Pushes :
        ~GroupDone(p) =>
            /\ ppc[p] \in {"wait", "resources"} => next[p] > Len(Data[p])
            /\ cpc[p] = "exit" => closed[p] /\ stream[p] = <<>>

(* Where the records of a call are. *)
Conserved ==
    \A p \in Pushes :
        ppc[p] \in InWork /\ ~groupErr[p] =>
            \A i \in 1 .. Len(Data[p]) :
                i < next[p] /\ Data[p][i] \notin Old =>
                    Data[p][i] \in running \cup Elements(stream[p]) \cup rows[p]

(* The fingerprint of a record is noted before the record is sent. *)
Noted ==
    \A p \in Pushes : \A r \in Records :
        (r \in sending /\ r \in Of(p)) \/ r \in Elements(stream[p]) \/ r \in rows[p] =>
            ResourceOf[r] \in seen[p]

(* What is sent is complete, and what was acknowledged has been sent. *)
Sent ==
    \A p \in Pushes : \A r \in Of(p) \ Old :
        /\ ppc[p] = "send" => r \in rows[p] /\ ResourceOf[r] \in rfCache
        /\ ppc[p] = "acked" => r \in logsTable /\ ResourceOf[r] \in rfCache

(* What the cache holds is stored, to be stored, or lost. *)
Cached ==
    \A x \in rfCache :
        x \in resTable \/ x \in lost \/ \E q \in Pushes : x \in resRows[q]

-----------------------------------------------------------------------------
(* Lemmas about the operators of the model. *)

(* A record is one of one request only. *)
LEMMA OfOne ==
  ASSUME NEW p \in Pushes, NEW q \in Pushes, NEW r, r \in Of(p), r \in Of(q)
  PROVE  p = q
PROOF
  BY ExporterAssumption DEF Of

(* The records of a request are records, and so is each of its sequence. *)
LEMMA OfRecords ==
  ASSUME NEW p \in Pushes
  PROVE  /\ Of(p) \subseteq Records
         /\ Len(Data[p]) \in Nat
         /\ \A i \in 1 .. Len(Data[p]) : Data[p][i] \in Of(p) /\ Data[p][i] \in Records
PROOF
<1>1. Data[p] \in Seq(Records)
    BY ExporterAssumption
<1> QED BY <1>1 DEF Of

(* What a sequence holds after a send and after a receive. *)
LEMMA ElementsAppend ==
  ASSUME NEW S, NEW s \in Seq(S), NEW e \in S
  PROVE  Append(s, e) \in Seq(S) /\ Elements(Append(s, e)) = Elements(s) \cup {e}
PROOF
<1>1. Append(s, e) \in Seq(S) /\ Len(Append(s, e)) = Len(s) + 1 /\ Len(s) \in Nat
    OBVIOUS
<1>2. \A j \in 1 .. Len(s) : Append(s, e)[j] = s[j]
    OBVIOUS
<1>3. Append(s, e)[Len(s) + 1] = e
    OBVIOUS
<1>4. 1 .. (Len(s) + 1) = (1 .. Len(s)) \cup {Len(s) + 1}
    BY <1>1
<1> QED BY <1>1, <1>2, <1>3, <1>4 DEF Elements

(* What is received leaves the sequence. *)
LEMMA ElementsTail ==
  ASSUME NEW S, NEW s \in Seq(S), s # <<>>
  PROVE  /\ Tail(s) \in Seq(S) /\ Head(s) \in S
         /\ Elements(s) = Elements(Tail(s)) \cup {Head(s)}
PROOF
<1>1. /\ Len(s) \in Nat /\ Len(s) > 0 /\ Tail(s) \in Seq(S)
      /\ Len(Tail(s)) = Len(s) - 1 /\ Head(s) = s[1]
    OBVIOUS
<1>2. \A j \in 1 .. (Len(s) - 1) : Tail(s)[j] = s[j + 1]
    OBVIOUS
<1>3. \A j \in 1 .. Len(s) : j = 1 \/ (j - 1 \in 1 .. (Len(s) - 1) /\ s[j] = Tail(s)[j - 1])
    BY <1>1, <1>2
<1>4. Elements(s) \subseteq Elements(Tail(s)) \cup {Head(s)}
    BY <1>1, <1>3 DEF Elements
<1>5. Elements(Tail(s)) \cup {Head(s)} \subseteq Elements(s)
    BY <1>1, <1>2 DEF Elements
<1>6. Head(s) \in S
    BY <1>1
<1> QED BY <1>1, <1>4, <1>5, <1>6

(* An empty sequence holds nothing. *)
LEMMA ElementsEmpty == Elements(<<>>) = {}
PROOF
  BY DEF Elements

-----------------------------------------------------------------------------
(* Every step preserves the types. *)
LEMMA TypeStep ==
  ASSUME TypeOK, [Next]_vars
  PROVE  TypeOK'
PROOF
<1> USE ExporterAssumption DEF TypeOK, InGroup, InWork, AtRest
<1>1. ASSUME NEW p \in Pushes, Call(p) PROVE TypeOK'
    BY <1>1 DEF Call, locals, limiterVars, dbVars
<1>2. ASSUME NEW p \in Pushes, LookClosed(p) PROVE TypeOK'
  <2>1. CASE spc = "up"
    <3>1. /\ ppc[p] = "begin" /\ ppc' = [ppc EXCEPT ![p] = "prepare"]
          /\ UNCHANGED <<locals, attempts, limiterVars, dbVars, spc>>
        BY <1>2, <2>1 DEF LookClosed
    <3> QED BY <2>1, <3>1 DEF locals, limiterVars, dbVars
  <2>2. CASE spc # "up"
    <3>1. /\ ppc[p] = "begin" /\ Return(p, "failed")
          /\ UNCHANGED <<attempts, limiterVars, dbVars, spc>>
        BY <1>2, <2>2 DEF LookClosed
    <3> QED BY <2>2, <3>1 DEF Return, limiterVars, dbVars
  <2> QED BY <2>1, <2>2
<1>3. ASSUME NEW p \in Pushes, Cancel(p) PROVE TypeOK'
    BY <1>3 DEF Cancel, locals, limiterVars, dbVars
<1>4. ASSUME NEW p \in Pushes, PrepareFail(p) PROVE TypeOK'
    BY <1>4 DEF PrepareFail, Return, locals, limiterVars, dbVars
<1>5. ASSUME NEW p \in Pushes, Prepare(p) PROVE TypeOK'
    BY <1>5 DEF Prepare, locals, limiterVars, dbVars
<1>6. ASSUME NEW p \in Pushes, StartProducer(p) PROVE TypeOK'
  <2>1. Data[p][next[p]] \in Records
      BY <1>6, OfRecords DEF StartProducer
  <2> QED BY <1>6, <2>1 DEF StartProducer, locals, limiterVars, dbVars
<1>7. ASSUME NEW p \in Pushes, LeaveLoop(p) PROVE TypeOK'
    BY <1>7 DEF LeaveLoop, locals, limiterVars, dbVars
<1>8. ASSUME NEW p \in Pushes, GroupWait(p) PROVE TypeOK'
  <2>1. CASE ~groupErr[p]
    <3>1. /\ ppc[p] = "wait" /\ ppc' = [ppc EXCEPT ![p] = "resources"]
          /\ UNCHANGED <<locals, attempts, limiterVars, dbVars, spc>>
        BY <1>8, <2>1 DEF GroupWait
    <3>2. cpc[p] = "exit" /\ ~Producing(p)
        BY <1>8 DEF GroupWait
    <3> QED BY <2>1, <3>1, <3>2 DEF locals, limiterVars, dbVars
  <2>2. CASE groupErr[p]
    <3>1. ppc[p] = "wait" /\ Return(p, "failed") /\ UNCHANGED <<attempts, limiterVars, dbVars, spc>>
        BY <1>8, <2>2 DEF GroupWait
    <3>2. cpc[p] = "exit" /\ ~Producing(p)
        BY <1>8 DEF GroupWait
    <3> QED BY <2>2, <3>1, <3>2 DEF Return, limiterVars, dbVars
  <2> QED BY <2>1, <2>2
<1>9. ASSUME NEW p \in Pushes, ResourcesFail(p) PROVE TypeOK'
    BY <1>9 DEF ResourcesFail, Return, locals, limiterVars, dbVars
<1>10. ASSUME NEW p \in Pushes, AppendResources(p) PROVE TypeOK'
    BY <1>10 DEF AppendResources, locals, limiterVars, dbVars
<1>11. ASSUME NEW p \in Pushes, Send(p) PROVE TypeOK'
    BY <1>11 DEF Send, Return, locals, limiterVars, dbVars
<1>12. ASSUME NEW p \in Pushes, NEW r \in Records, ProduceSkip(p, r) PROVE TypeOK'
    BY <1>12 DEF ProduceSkip, locals, limiterVars, dbVars
<1>13. ASSUME NEW p \in Pushes, NEW r \in Records, ProduceFail(p, r) PROVE TypeOK'
    BY <1>13 DEF ProduceFail, locals, limiterVars, dbVars
<1>14. ASSUME NEW p \in Pushes, NEW r \in Records, ProduceRecord(p, r) PROVE TypeOK'
  <2>1. ResourceOf[r] \in Resources
      OBVIOUS
  <2> QED BY <1>14, <2>1 DEF ProduceRecord, locals, limiterVars, dbVars
<1>15. ASSUME NEW p \in Pushes, NEW r \in Records, ProduceSend(p, r) PROVE TypeOK'
  <2>1. Append(stream[p], r) \in Seq(Records)
      BY <1>15, ElementsAppend DEF ProduceSend, locals, limiterVars, dbVars
  <2> QED BY <1>15, <2>1 DEF ProduceSend, locals, limiterVars, dbVars
<1>16. ASSUME NEW p \in Pushes, ConsumeAppend(p) PROVE TypeOK'
  <2>1. Tail(stream[p]) \in Seq(Records) /\ Head(stream[p]) \in Records
      BY <1>16, ElementsTail DEF ConsumeAppend, locals, limiterVars, dbVars
  <2> QED BY <1>16, <2>1 DEF ConsumeAppend, locals, limiterVars, dbVars
<1>17. ASSUME NEW p \in Pushes, ConsumeFail(p) PROVE TypeOK'
  <2>1. Tail(stream[p]) \in Seq(Records) /\ Head(stream[p]) \in Records
      BY <1>17, ElementsTail DEF ConsumeFail, locals, limiterVars, dbVars
  <2> QED BY <1>17, <2>1 DEF ConsumeFail, locals, limiterVars, dbVars
<1>18. ASSUME NEW p \in Pushes, ConsumeEnd(p) PROVE TypeOK'
    BY <1>18 DEF ConsumeEnd, locals, limiterVars, dbVars
<1>19. ASSUME NEW p \in Pushes, CloseStream(p) PROVE TypeOK'
    BY <1>19 DEF CloseStream, locals, limiterVars, dbVars
<1>20. CASE Shutdown
    BY <1>20 DEF Shutdown, locals, limiterVars, dbVars
<1>21. CASE ShutdownWait
    BY <1>21 DEF ShutdownWait, locals, limiterVars, dbVars
<1>22. CASE UNCHANGED vars
    BY <1>22 DEF vars, locals, limiterVars, dbVars
<1> QED BY <1>1, <1>2, <1>3, <1>4, <1>5, <1>6, <1>7, <1>8, <1>9, <1>10, <1>11, <1>12, <1>13,
   <1>14, <1>15, <1>16, <1>17, <1>18, <1>19, <1>20, <1>21, <1>22 DEF Next, CallStep,
   ProducerStep, ConsumerStep

(* Every step keeps the closed database unused. *)
LEMMA RefusedStep ==
  ASSUME TypeOK, Refused, [Next]_vars
  PROVE  Refused'
PROOF
<1> USE DEF TypeOK, Refused, UsesDb, Active, InGroup, InWork, AtRest
<1>1. ASSUME NEW p \in Pushes, Call(p) PROVE Refused'
    BY <1>1 DEF Call, locals, limiterVars, dbVars
<1>2. ASSUME NEW p \in Pushes, LookClosed(p) PROVE Refused'
  <2>1. CASE spc = "up"
    <3>1. /\ ppc[p] = "begin" /\ ppc' = [ppc EXCEPT ![p] = "prepare"]
          /\ UNCHANGED <<locals, attempts, limiterVars, dbVars, spc>>
        BY <1>2, <2>1 DEF LookClosed
    <3> QED BY <2>1, <3>1 DEF locals, limiterVars, dbVars
  <2>2. CASE spc # "up"
    <3>1. /\ ppc[p] = "begin" /\ Return(p, "failed")
          /\ UNCHANGED <<attempts, limiterVars, dbVars, spc>>
        BY <1>2, <2>2 DEF LookClosed
    <3> QED BY <2>2, <3>1 DEF Return, limiterVars, dbVars
  <2> QED BY <2>1, <2>2
<1>3. ASSUME NEW p \in Pushes, Cancel(p) PROVE Refused'
    BY <1>3 DEF Cancel, locals, limiterVars, dbVars
<1>4. ASSUME NEW p \in Pushes, PrepareFail(p) PROVE Refused'
    BY <1>4 DEF PrepareFail, Return, locals, limiterVars, dbVars
<1>5. ASSUME NEW p \in Pushes, Prepare(p) PROVE Refused'
    BY <1>5 DEF Prepare, locals, limiterVars, dbVars
<1>6. ASSUME NEW p \in Pushes, StartProducer(p) PROVE Refused'
    BY <1>6 DEF StartProducer, locals, limiterVars, dbVars
<1>7. ASSUME NEW p \in Pushes, LeaveLoop(p) PROVE Refused'
    BY <1>7 DEF LeaveLoop, locals, limiterVars, dbVars
<1>8. ASSUME NEW p \in Pushes, GroupWait(p) PROVE Refused'
  <2>1. CASE ~groupErr[p]
    <3>1. /\ ppc[p] = "wait" /\ ppc' = [ppc EXCEPT ![p] = "resources"]
          /\ UNCHANGED <<locals, attempts, limiterVars, dbVars, spc>>
        BY <1>8, <2>1 DEF GroupWait
    <3>2. cpc[p] = "exit" /\ ~Producing(p)
        BY <1>8 DEF GroupWait
    <3> QED BY <2>1, <3>1, <3>2 DEF locals, limiterVars, dbVars
  <2>2. CASE groupErr[p]
    <3>1. ppc[p] = "wait" /\ Return(p, "failed") /\ UNCHANGED <<attempts, limiterVars, dbVars, spc>>
        BY <1>8, <2>2 DEF GroupWait
    <3>2. cpc[p] = "exit" /\ ~Producing(p)
        BY <1>8 DEF GroupWait
    <3> QED BY <2>2, <3>1, <3>2 DEF Return, limiterVars, dbVars
  <2> QED BY <2>1, <2>2
<1>9. ASSUME NEW p \in Pushes, ResourcesFail(p) PROVE Refused'
    BY <1>9 DEF ResourcesFail, Return, locals, limiterVars, dbVars
<1>10. ASSUME NEW p \in Pushes, AppendResources(p) PROVE Refused'
    BY <1>10 DEF AppendResources, locals, limiterVars, dbVars
<1>11. ASSUME NEW p \in Pushes, Send(p) PROVE Refused'
    BY <1>11 DEF Send, Return, locals, limiterVars, dbVars
<1>12. ASSUME NEW p \in Pushes, NEW r \in Records, ProduceSkip(p, r) PROVE Refused'
    BY <1>12 DEF ProduceSkip, locals, limiterVars, dbVars
<1>13. ASSUME NEW p \in Pushes, NEW r \in Records, ProduceFail(p, r) PROVE Refused'
    BY <1>13 DEF ProduceFail, locals, limiterVars, dbVars
<1>14. ASSUME NEW p \in Pushes, NEW r \in Records, ProduceRecord(p, r) PROVE Refused'
    BY <1>14 DEF ProduceRecord, locals, limiterVars, dbVars
<1>15. ASSUME NEW p \in Pushes, NEW r \in Records, ProduceSend(p, r) PROVE Refused'
    BY <1>15 DEF ProduceSend, locals, limiterVars, dbVars
<1>16. ASSUME NEW p \in Pushes, ConsumeAppend(p) PROVE Refused'
    BY <1>16 DEF ConsumeAppend, locals, limiterVars, dbVars
<1>17. ASSUME NEW p \in Pushes, ConsumeFail(p) PROVE Refused'
    BY <1>17 DEF ConsumeFail, locals, limiterVars, dbVars
<1>18. ASSUME NEW p \in Pushes, ConsumeEnd(p) PROVE Refused'
    BY <1>18 DEF ConsumeEnd, locals, limiterVars, dbVars
<1>19. ASSUME NEW p \in Pushes, CloseStream(p) PROVE Refused'
    BY <1>19 DEF CloseStream, locals, limiterVars, dbVars
<1>20. CASE Shutdown
    BY <1>20 DEF Shutdown, locals, limiterVars, dbVars
<1>21. CASE ShutdownWait
    BY <1>21 DEF ShutdownWait, locals, limiterVars, dbVars
<1>22. CASE UNCHANGED vars
    BY <1>22 DEF vars, locals, limiterVars, dbVars
<1> QED BY <1>1, <1>2, <1>3, <1>4, <1>5, <1>6, <1>7, <1>8, <1>9, <1>10, <1>11, <1>12, <1>13,
   <1>14, <1>15, <1>16, <1>17, <1>18, <1>19, <1>20, <1>21, <1>22 DEF Next, CallStep,
   ProducerStep, ConsumerStep

(* Every step keeps the producers in their place. *)
LEMMA ProducersStep ==
  ASSUME TypeOK, Producers, [Next]_vars
  PROVE  Producers'
PROOF
<1> USE OfOne, OfRecords DEF TypeOK, Producers, Producing, InGroup, InWork, AtRest
<1>1. ASSUME NEW p \in Pushes, Call(p) PROVE Producers'
    BY <1>1 DEF Call, locals, limiterVars, dbVars
<1>2. ASSUME NEW p \in Pushes, LookClosed(p) PROVE Producers'
  <2>1. CASE spc = "up"
    <3>1. /\ ppc[p] = "begin" /\ ppc' = [ppc EXCEPT ![p] = "prepare"]
          /\ UNCHANGED <<locals, attempts, limiterVars, dbVars, spc>>
        BY <1>2, <2>1 DEF LookClosed
    <3> QED BY <2>1, <3>1 DEF locals, limiterVars, dbVars
  <2>2. CASE spc # "up"
    <3>1. /\ ppc[p] = "begin" /\ Return(p, "failed")
          /\ UNCHANGED <<attempts, limiterVars, dbVars, spc>>
        BY <1>2, <2>2 DEF LookClosed
    <3> QED BY <2>2, <3>1 DEF Return, limiterVars, dbVars
  <2> QED BY <2>1, <2>2
<1>3. ASSUME NEW p \in Pushes, Cancel(p) PROVE Producers'
    BY <1>3 DEF Cancel, locals, limiterVars, dbVars
<1>4. ASSUME NEW p \in Pushes, PrepareFail(p) PROVE Producers'
    BY <1>4 DEF PrepareFail, Return, locals, limiterVars, dbVars
<1>5. ASSUME NEW p \in Pushes, Prepare(p) PROVE Producers'
    BY <1>5 DEF Prepare, locals, limiterVars, dbVars
<1>6. ASSUME NEW p \in Pushes, StartProducer(p) PROVE Producers'
    BY <1>6 DEF StartProducer, locals, limiterVars, dbVars
<1>7. ASSUME NEW p \in Pushes, LeaveLoop(p) PROVE Producers'
    BY <1>7 DEF LeaveLoop, locals, limiterVars, dbVars
<1>8. ASSUME NEW p \in Pushes, GroupWait(p) PROVE Producers'
  <2>1. CASE ~groupErr[p]
    <3>1. /\ ppc[p] = "wait" /\ ppc' = [ppc EXCEPT ![p] = "resources"]
          /\ UNCHANGED <<locals, attempts, limiterVars, dbVars, spc>>
        BY <1>8, <2>1 DEF GroupWait
    <3>2. cpc[p] = "exit" /\ ~Producing(p)
        BY <1>8 DEF GroupWait
    <3> QED BY <2>1, <3>1, <3>2 DEF locals, limiterVars, dbVars
  <2>2. CASE groupErr[p]
    <3>1. ppc[p] = "wait" /\ Return(p, "failed") /\ UNCHANGED <<attempts, limiterVars, dbVars, spc>>
        BY <1>8, <2>2 DEF GroupWait
    <3>2. cpc[p] = "exit" /\ ~Producing(p)
        BY <1>8 DEF GroupWait
    <3> QED BY <2>2, <3>1, <3>2 DEF Return, limiterVars, dbVars
  <2> QED BY <2>1, <2>2
<1>9. ASSUME NEW p \in Pushes, ResourcesFail(p) PROVE Producers'
    BY <1>9 DEF ResourcesFail, Return, locals, limiterVars, dbVars
<1>10. ASSUME NEW p \in Pushes, AppendResources(p) PROVE Producers'
    BY <1>10 DEF AppendResources, locals, limiterVars, dbVars
<1>11. ASSUME NEW p \in Pushes, Send(p) PROVE Producers'
    BY <1>11 DEF Send, Return, locals, limiterVars, dbVars
<1>12. ASSUME NEW p \in Pushes, NEW r \in Records, ProduceSkip(p, r) PROVE Producers'
    BY <1>12 DEF ProduceSkip, locals, limiterVars, dbVars
<1>13. ASSUME NEW p \in Pushes, NEW r \in Records, ProduceFail(p, r) PROVE Producers'
    BY <1>13 DEF ProduceFail, locals, limiterVars, dbVars
<1>14. ASSUME NEW p \in Pushes, NEW r \in Records, ProduceRecord(p, r) PROVE Producers'
    BY <1>14 DEF ProduceRecord, locals, limiterVars, dbVars
<1>15. ASSUME NEW p \in Pushes, NEW r \in Records, ProduceSend(p, r) PROVE Producers'
    BY <1>15 DEF ProduceSend, locals, limiterVars, dbVars
<1>16. ASSUME NEW p \in Pushes, ConsumeAppend(p) PROVE Producers'
    BY <1>16 DEF ConsumeAppend, locals, limiterVars, dbVars
<1>17. ASSUME NEW p \in Pushes, ConsumeFail(p) PROVE Producers'
    BY <1>17 DEF ConsumeFail, locals, limiterVars, dbVars
<1>18. ASSUME NEW p \in Pushes, ConsumeEnd(p) PROVE Producers'
    BY <1>18 DEF ConsumeEnd, locals, limiterVars, dbVars
<1>19. ASSUME NEW p \in Pushes, CloseStream(p) PROVE Producers'
    BY <1>19 DEF CloseStream, locals, limiterVars, dbVars
<1>20. CASE Shutdown
    BY <1>20 DEF Shutdown, locals, limiterVars, dbVars
<1>21. CASE ShutdownWait
    BY <1>21 DEF ShutdownWait, locals, limiterVars, dbVars
<1>22. CASE UNCHANGED vars
    BY <1>22 DEF vars, locals, limiterVars, dbVars
<1> QED BY <1>1, <1>2, <1>3, <1>4, <1>5, <1>6, <1>7, <1>8, <1>9, <1>10, <1>11, <1>12, <1>13,
   <1>14, <1>15, <1>16, <1>17, <1>18, <1>19, <1>20, <1>21, <1>22 DEF Next, CallStep,
   ProducerStep, ConsumerStep

(* Every step keeps what a call has not got to yet. *)
LEMMA FreshStep ==
  ASSUME TypeOK, Producers, Fresh, [Next]_vars
  PROVE  Fresh'
PROOF
<1> USE DEF TypeOK, Producers, Fresh, Producing, InGroup, InWork, AtRest
<1>1. ASSUME NEW p \in Pushes, Call(p) PROVE Fresh'
    BY <1>1 DEF Call, locals, limiterVars, dbVars
<1>2. ASSUME NEW p \in Pushes, LookClosed(p) PROVE Fresh'
  <2>1. CASE spc = "up"
    <3>1. /\ ppc[p] = "begin" /\ ppc' = [ppc EXCEPT ![p] = "prepare"]
          /\ UNCHANGED <<locals, attempts, limiterVars, dbVars, spc>>
        BY <1>2, <2>1 DEF LookClosed
    <3> QED BY <2>1, <3>1 DEF locals, limiterVars, dbVars
  <2>2. CASE spc # "up"
    <3>1. /\ ppc[p] = "begin" /\ Return(p, "failed")
          /\ UNCHANGED <<attempts, limiterVars, dbVars, spc>>
        BY <1>2, <2>2 DEF LookClosed
    <3> QED BY <2>2, <3>1 DEF Return, limiterVars, dbVars
  <2> QED BY <2>1, <2>2
<1>3. ASSUME NEW p \in Pushes, Cancel(p) PROVE Fresh'
    BY <1>3 DEF Cancel, locals, limiterVars, dbVars
<1>4. ASSUME NEW p \in Pushes, PrepareFail(p) PROVE Fresh'
    BY <1>4 DEF PrepareFail, Return, locals, limiterVars, dbVars
<1>5. ASSUME NEW p \in Pushes, Prepare(p) PROVE Fresh'
    BY <1>5 DEF Prepare, locals, limiterVars, dbVars
<1>6. ASSUME NEW p \in Pushes, StartProducer(p) PROVE Fresh'
    BY <1>6 DEF StartProducer, locals, limiterVars, dbVars
<1>7. ASSUME NEW p \in Pushes, LeaveLoop(p) PROVE Fresh'
    BY <1>7 DEF LeaveLoop, locals, limiterVars, dbVars
<1>8. ASSUME NEW p \in Pushes, GroupWait(p) PROVE Fresh'
  <2>1. CASE ~groupErr[p]
    <3>1. /\ ppc[p] = "wait" /\ ppc' = [ppc EXCEPT ![p] = "resources"]
          /\ UNCHANGED <<locals, attempts, limiterVars, dbVars, spc>>
        BY <1>8, <2>1 DEF GroupWait
    <3>2. cpc[p] = "exit" /\ ~Producing(p)
        BY <1>8 DEF GroupWait
    <3> QED BY <2>1, <3>1, <3>2 DEF locals, limiterVars, dbVars
  <2>2. CASE groupErr[p]
    <3>1. ppc[p] = "wait" /\ Return(p, "failed") /\ UNCHANGED <<attempts, limiterVars, dbVars, spc>>
        BY <1>8, <2>2 DEF GroupWait
    <3>2. cpc[p] = "exit" /\ ~Producing(p)
        BY <1>8 DEF GroupWait
    <3> QED BY <2>2, <3>1, <3>2 DEF Return, limiterVars, dbVars
  <2> QED BY <2>1, <2>2
<1>9. ASSUME NEW p \in Pushes, ResourcesFail(p) PROVE Fresh'
    BY <1>9 DEF ResourcesFail, Return, locals, limiterVars, dbVars
<1>10. ASSUME NEW p \in Pushes, AppendResources(p) PROVE Fresh'
    BY <1>10 DEF AppendResources, locals, limiterVars, dbVars
<1>11. ASSUME NEW p \in Pushes, Send(p) PROVE Fresh'
    BY <1>11 DEF Send, Return, locals, limiterVars, dbVars
<1>12. ASSUME NEW p \in Pushes, NEW r \in Records, ProduceSkip(p, r) PROVE Fresh'
    BY <1>12 DEF ProduceSkip, locals, limiterVars, dbVars
<1>13. ASSUME NEW p \in Pushes, NEW r \in Records, ProduceFail(p, r) PROVE Fresh'
    BY <1>13 DEF ProduceFail, locals, limiterVars, dbVars
<1>14. ASSUME NEW p \in Pushes, NEW r \in Records, ProduceRecord(p, r) PROVE Fresh'
    BY <1>14 DEF ProduceRecord, locals, limiterVars, dbVars
<1>15. ASSUME NEW p \in Pushes, NEW r \in Records, ProduceSend(p, r) PROVE Fresh'
    BY <1>15 DEF ProduceSend, locals, limiterVars, dbVars
<1>16. ASSUME NEW p \in Pushes, ConsumeAppend(p) PROVE Fresh'
    BY <1>16 DEF ConsumeAppend, locals, limiterVars, dbVars
<1>17. ASSUME NEW p \in Pushes, ConsumeFail(p) PROVE Fresh'
    BY <1>17 DEF ConsumeFail, locals, limiterVars, dbVars
<1>18. ASSUME NEW p \in Pushes, ConsumeEnd(p) PROVE Fresh'
    BY <1>18 DEF ConsumeEnd, locals, limiterVars, dbVars
<1>19. ASSUME NEW p \in Pushes, CloseStream(p) PROVE Fresh'
    BY <1>19 DEF CloseStream, locals, limiterVars, dbVars
<1>20. CASE Shutdown
    BY <1>20 DEF Shutdown, locals, limiterVars, dbVars
<1>21. CASE ShutdownWait
    BY <1>21 DEF ShutdownWait, locals, limiterVars, dbVars
<1>22. CASE UNCHANGED vars
    BY <1>22 DEF vars, locals, limiterVars, dbVars
<1> QED BY <1>1, <1>2, <1>3, <1>4, <1>5, <1>6, <1>7, <1>8, <1>9, <1>10, <1>11, <1>12, <1>13,
   <1>14, <1>15, <1>16, <1>17, <1>18, <1>19, <1>20, <1>21, <1>22 DEF Next, CallStep,
   ProducerStep, ConsumerStep

(* Every step keeps calls complete. *)
LEMMA CompleteStep ==
  ASSUME TypeOK, Producers, Fresh, Complete, [Next]_vars
  PROVE  Complete'
PROOF
<1> USE DEF TypeOK, Producers, Fresh, Complete, GroupDone, Producing, InGroup, InWork, AtRest
<1>1. ASSUME NEW p \in Pushes, Call(p) PROVE Complete'
    BY <1>1 DEF Call, locals, limiterVars, dbVars
<1>2. ASSUME NEW p \in Pushes, LookClosed(p) PROVE Complete'
  <2>1. CASE spc = "up"
    <3>1. /\ ppc[p] = "begin" /\ ppc' = [ppc EXCEPT ![p] = "prepare"]
          /\ UNCHANGED <<locals, attempts, limiterVars, dbVars, spc>>
        BY <1>2, <2>1 DEF LookClosed
    <3> QED BY <2>1, <3>1 DEF locals, limiterVars, dbVars
  <2>2. CASE spc # "up"
    <3>1. /\ ppc[p] = "begin" /\ Return(p, "failed")
          /\ UNCHANGED <<attempts, limiterVars, dbVars, spc>>
        BY <1>2, <2>2 DEF LookClosed
    <3> QED BY <2>2, <3>1 DEF Return, limiterVars, dbVars
  <2> QED BY <2>1, <2>2
<1>3. ASSUME NEW p \in Pushes, Cancel(p) PROVE Complete'
    BY <1>3 DEF Cancel, locals, limiterVars, dbVars
<1>4. ASSUME NEW p \in Pushes, PrepareFail(p) PROVE Complete'
    BY <1>4 DEF PrepareFail, Return, locals, limiterVars, dbVars
<1>5. ASSUME NEW p \in Pushes, Prepare(p) PROVE Complete'
    BY <1>5 DEF Prepare, locals, limiterVars, dbVars
<1>6. ASSUME NEW p \in Pushes, StartProducer(p) PROVE Complete'
    BY <1>6 DEF StartProducer, locals, limiterVars, dbVars
<1>7. ASSUME NEW p \in Pushes, LeaveLoop(p) PROVE Complete'
    BY <1>7 DEF LeaveLoop, locals, limiterVars, dbVars
<1>8. ASSUME NEW p \in Pushes, GroupWait(p) PROVE Complete'
  <2>1. CASE ~groupErr[p]
    <3>1. /\ ppc[p] = "wait" /\ ppc' = [ppc EXCEPT ![p] = "resources"]
          /\ UNCHANGED <<locals, attempts, limiterVars, dbVars, spc>>
        BY <1>8, <2>1 DEF GroupWait
    <3>2. cpc[p] = "exit" /\ ~Producing(p)
        BY <1>8 DEF GroupWait
    <3> QED BY <2>1, <3>1, <3>2 DEF locals, limiterVars, dbVars
  <2>2. CASE groupErr[p]
    <3>1. ppc[p] = "wait" /\ Return(p, "failed") /\ UNCHANGED <<attempts, limiterVars, dbVars, spc>>
        BY <1>8, <2>2 DEF GroupWait
    <3>2. cpc[p] = "exit" /\ ~Producing(p)
        BY <1>8 DEF GroupWait
    <3> QED BY <2>2, <3>1, <3>2 DEF Return, limiterVars, dbVars
  <2> QED BY <2>1, <2>2
<1>9. ASSUME NEW p \in Pushes, ResourcesFail(p) PROVE Complete'
    BY <1>9 DEF ResourcesFail, Return, locals, limiterVars, dbVars
<1>10. ASSUME NEW p \in Pushes, AppendResources(p) PROVE Complete'
    BY <1>10 DEF AppendResources, locals, limiterVars, dbVars
<1>11. ASSUME NEW p \in Pushes, Send(p) PROVE Complete'
    BY <1>11 DEF Send, Return, locals, limiterVars, dbVars
<1>12. ASSUME NEW p \in Pushes, NEW r \in Records, ProduceSkip(p, r) PROVE Complete'
    BY <1>12 DEF ProduceSkip, locals, limiterVars, dbVars
<1>13. ASSUME NEW p \in Pushes, NEW r \in Records, ProduceFail(p, r) PROVE Complete'
    BY <1>13 DEF ProduceFail, locals, limiterVars, dbVars
<1>14. ASSUME NEW p \in Pushes, NEW r \in Records, ProduceRecord(p, r) PROVE Complete'
    BY <1>14 DEF ProduceRecord, locals, limiterVars, dbVars
<1>15. ASSUME NEW p \in Pushes, NEW r \in Records, ProduceSend(p, r) PROVE Complete'
    BY <1>15 DEF ProduceSend, locals, limiterVars, dbVars
<1>16. ASSUME NEW p \in Pushes, ConsumeAppend(p) PROVE Complete'
    BY <1>16 DEF ConsumeAppend, locals, limiterVars, dbVars
<1>17. ASSUME NEW p \in Pushes, ConsumeFail(p) PROVE Complete'
    BY <1>17 DEF ConsumeFail, locals, limiterVars, dbVars
<1>18. ASSUME NEW p \in Pushes, ConsumeEnd(p) PROVE Complete'
    BY <1>18 DEF ConsumeEnd, locals, limiterVars, dbVars
<1>19. ASSUME NEW p \in Pushes, CloseStream(p) PROVE Complete'
    BY <1>19 DEF CloseStream, locals, limiterVars, dbVars
<1>20. CASE Shutdown
    BY <1>20 DEF Shutdown, locals, limiterVars, dbVars
<1>21. CASE ShutdownWait
    BY <1>21 DEF ShutdownWait, locals, limiterVars, dbVars
<1>22. CASE UNCHANGED vars
    BY <1>22 DEF vars, locals, limiterVars, dbVars
<1> QED BY <1>1, <1>2, <1>3, <1>4, <1>5, <1>6, <1>7, <1>8, <1>9, <1>10, <1>11, <1>12, <1>13,
   <1>14, <1>15, <1>16, <1>17, <1>18, <1>19, <1>20, <1>21, <1>22 DEF Next, CallStep,
   ProducerStep, ConsumerStep

(* No step loses a record. *)
LEMMA ConservedStep ==
  ASSUME TypeOK, Producers, Fresh, Conserved, [Next]_vars
  PROVE  Conserved'
PROOF
<1> USE OfRecords, OfOne DEF TypeOK, Producers, Fresh, Conserved, Producing, InGroup, InWork,
   AtRest
<1>1. ASSUME NEW p \in Pushes, Call(p) PROVE Conserved'
    BY <1>1 DEF Call, locals, limiterVars, dbVars
<1>2. ASSUME NEW p \in Pushes, LookClosed(p) PROVE Conserved'
  <2>1. CASE spc = "up"
    <3>1. /\ ppc[p] = "begin" /\ ppc' = [ppc EXCEPT ![p] = "prepare"]
          /\ UNCHANGED <<locals, attempts, limiterVars, dbVars, spc>>
        BY <1>2, <2>1 DEF LookClosed
    <3> QED BY <2>1, <3>1 DEF locals, limiterVars, dbVars
  <2>2. CASE spc # "up"
    <3>1. /\ ppc[p] = "begin" /\ Return(p, "failed")
          /\ UNCHANGED <<attempts, limiterVars, dbVars, spc>>
        BY <1>2, <2>2 DEF LookClosed
    <3> QED BY <2>2, <3>1 DEF Return, limiterVars, dbVars
  <2> QED BY <2>1, <2>2
<1>3. ASSUME NEW p \in Pushes, Cancel(p) PROVE Conserved'
    BY <1>3 DEF Cancel, locals, limiterVars, dbVars
<1>4. ASSUME NEW p \in Pushes, PrepareFail(p) PROVE Conserved'
    BY <1>4 DEF PrepareFail, Return, locals, limiterVars, dbVars
<1>5. ASSUME NEW p \in Pushes, Prepare(p) PROVE Conserved'
    BY <1>5 DEF Prepare, locals, limiterVars, dbVars
<1>6. ASSUME NEW p \in Pushes, StartProducer(p) PROVE Conserved'
    BY <1>6 DEF StartProducer, locals, limiterVars, dbVars
<1>7. ASSUME NEW p \in Pushes, LeaveLoop(p) PROVE Conserved'
    BY <1>7 DEF LeaveLoop, locals, limiterVars, dbVars
<1>8. ASSUME NEW p \in Pushes, GroupWait(p) PROVE Conserved'
  <2>1. CASE ~groupErr[p]
    <3>1. /\ ppc[p] = "wait" /\ ppc' = [ppc EXCEPT ![p] = "resources"]
          /\ UNCHANGED <<locals, attempts, limiterVars, dbVars, spc>>
        BY <1>8, <2>1 DEF GroupWait
    <3>2. cpc[p] = "exit" /\ ~Producing(p)
        BY <1>8 DEF GroupWait
    <3> QED BY <2>1, <3>1, <3>2 DEF locals, limiterVars, dbVars
  <2>2. CASE groupErr[p]
    <3>1. ppc[p] = "wait" /\ Return(p, "failed") /\ UNCHANGED <<attempts, limiterVars, dbVars, spc>>
        BY <1>8, <2>2 DEF GroupWait
    <3>2. cpc[p] = "exit" /\ ~Producing(p)
        BY <1>8 DEF GroupWait
    <3> QED BY <2>2, <3>1, <3>2 DEF Return, limiterVars, dbVars
  <2> QED BY <2>1, <2>2
<1>9. ASSUME NEW p \in Pushes, ResourcesFail(p) PROVE Conserved'
    BY <1>9 DEF ResourcesFail, Return, locals, limiterVars, dbVars
<1>10. ASSUME NEW p \in Pushes, AppendResources(p) PROVE Conserved'
    BY <1>10 DEF AppendResources, locals, limiterVars, dbVars
<1>11. ASSUME NEW p \in Pushes, Send(p) PROVE Conserved'
    BY <1>11 DEF Send, Return, locals, limiterVars, dbVars
<1>12. ASSUME NEW p \in Pushes, NEW r \in Records, ProduceSkip(p, r) PROVE Conserved'
    BY <1>12 DEF ProduceSkip, locals, limiterVars, dbVars
<1>13. ASSUME NEW p \in Pushes, NEW r \in Records, ProduceFail(p, r) PROVE Conserved'
    BY <1>13 DEF ProduceFail, locals, limiterVars, dbVars
<1>14. ASSUME NEW p \in Pushes, NEW r \in Records, ProduceRecord(p, r) PROVE Conserved'
    BY <1>14 DEF ProduceRecord, locals, limiterVars, dbVars
<1>15. ASSUME NEW p \in Pushes, NEW r \in Records, ProduceSend(p, r) PROVE Conserved'
  <2> SUFFICES ASSUME NEW q \in Pushes, ppc'[q] \in InWork, ~groupErr'[q],
                      NEW i \in 1 .. Len(Data[q]), i < next'[q], Data[q][i] \notin Old
               PROVE  Data[q][i] \in running' \cup Elements(stream'[q]) \cup rows'[q]
      OBVIOUS
  <2>1. stream' = [stream EXCEPT ![p] = Append(stream[p], r)] /\ stream[p] \in Seq(Records)
      BY <1>15 DEF ProduceSend
  <2>2. stream'[p] = Append(stream[p], r) /\ \A o \in Pushes : o # p => stream'[o] = stream[o]
      BY <2>1
  <2>3. Elements(stream'[p]) = Elements(stream[p]) \cup {r}
      BY <1>15, <2>1, <2>2, ElementsAppend DEF ProduceSend
  <2>4. CASE q = p
      BY <1>15, <2>3, <2>4 DEF ProduceSend, limiterVars, dbVars
  <2>5. CASE q # p
      BY <1>15, <2>2, <2>5 DEF ProduceSend, limiterVars, dbVars
  <2> QED BY <2>4, <2>5
<1>16. ASSUME NEW p \in Pushes, ConsumeAppend(p) PROVE Conserved'
  <2> SUFFICES ASSUME NEW q \in Pushes, ppc'[q] \in InWork, ~groupErr'[q],
                      NEW i \in 1 .. Len(Data[q]), i < next'[q], Data[q][i] \notin Old
               PROVE  Data[q][i] \in running' \cup Elements(stream'[q]) \cup rows'[q]
      OBVIOUS
  <2>1. stream' = [stream EXCEPT ![p] = Tail(stream[p])] /\ stream[p] \in Seq(Records)
      BY <1>16 DEF ConsumeAppend
  <2>2. stream'[p] = Tail(stream[p]) /\ \A o \in Pushes : o # p => stream'[o] = stream[o]
      BY <2>1
  <2>3. Elements(stream[p]) = Elements(stream'[p]) \cup {Head(stream[p])}
      BY <1>16, <2>1, <2>2, ElementsTail DEF ConsumeAppend
  <2>4. CASE q = p
      BY <1>16, <2>3, <2>4 DEF ConsumeAppend, limiterVars, dbVars
  <2>5. CASE q # p
      BY <1>16, <2>2, <2>5 DEF ConsumeAppend, limiterVars, dbVars
  <2> QED BY <2>4, <2>5
<1>17. ASSUME NEW p \in Pushes, ConsumeFail(p) PROVE Conserved'
    BY <1>17 DEF ConsumeFail, locals, limiterVars, dbVars
<1>18. ASSUME NEW p \in Pushes, ConsumeEnd(p) PROVE Conserved'
    BY <1>18 DEF ConsumeEnd, locals, limiterVars, dbVars
<1>19. ASSUME NEW p \in Pushes, CloseStream(p) PROVE Conserved'
    BY <1>19 DEF CloseStream, locals, limiterVars, dbVars
<1>20. CASE Shutdown
    BY <1>20 DEF Shutdown, locals, limiterVars, dbVars
<1>21. CASE ShutdownWait
    BY <1>21 DEF ShutdownWait, locals, limiterVars, dbVars
<1>22. CASE UNCHANGED vars
    BY <1>22 DEF vars, locals, limiterVars, dbVars
<1> QED BY <1>1, <1>2, <1>3, <1>4, <1>5, <1>6, <1>7, <1>8, <1>9, <1>10, <1>11, <1>12, <1>13,
   <1>14, <1>15, <1>16, <1>17, <1>18, <1>19, <1>20, <1>21, <1>22 DEF Next, CallStep,
   ProducerStep, ConsumerStep

(* Every step notes the fingerprints. *)
LEMMA NotedStep ==
  ASSUME TypeOK, Producers, Fresh, Noted, [Next]_vars
  PROVE  Noted'
PROOF
<1> USE ElementsEmpty, OfOne DEF TypeOK, Producers, Fresh, Noted, Producing, InGroup, InWork,
   AtRest
<1>1. ASSUME NEW p \in Pushes, Call(p) PROVE Noted'
    BY <1>1 DEF Call, locals, limiterVars, dbVars
<1>2. ASSUME NEW p \in Pushes, LookClosed(p) PROVE Noted'
  <2>1. CASE spc = "up"
    <3>1. /\ ppc[p] = "begin" /\ ppc' = [ppc EXCEPT ![p] = "prepare"]
          /\ UNCHANGED <<locals, attempts, limiterVars, dbVars, spc>>
        BY <1>2, <2>1 DEF LookClosed
    <3> QED BY <2>1, <3>1 DEF locals, limiterVars, dbVars
  <2>2. CASE spc # "up"
    <3>1. /\ ppc[p] = "begin" /\ Return(p, "failed")
          /\ UNCHANGED <<attempts, limiterVars, dbVars, spc>>
        BY <1>2, <2>2 DEF LookClosed
    <3> QED BY <2>2, <3>1 DEF Return, limiterVars, dbVars
  <2> QED BY <2>1, <2>2
<1>3. ASSUME NEW p \in Pushes, Cancel(p) PROVE Noted'
    BY <1>3 DEF Cancel, locals, limiterVars, dbVars
<1>4. ASSUME NEW p \in Pushes, PrepareFail(p) PROVE Noted'
    BY <1>4 DEF PrepareFail, Return, locals, limiterVars, dbVars
<1>5. ASSUME NEW p \in Pushes, Prepare(p) PROVE Noted'
    BY <1>5 DEF Prepare, locals, limiterVars, dbVars
<1>6. ASSUME NEW p \in Pushes, StartProducer(p) PROVE Noted'
    BY <1>6 DEF StartProducer, locals, limiterVars, dbVars
<1>7. ASSUME NEW p \in Pushes, LeaveLoop(p) PROVE Noted'
    BY <1>7 DEF LeaveLoop, locals, limiterVars, dbVars
<1>8. ASSUME NEW p \in Pushes, GroupWait(p) PROVE Noted'
  <2>1. CASE ~groupErr[p]
    <3>1. /\ ppc[p] = "wait" /\ ppc' = [ppc EXCEPT ![p] = "resources"]
          /\ UNCHANGED <<locals, attempts, limiterVars, dbVars, spc>>
        BY <1>8, <2>1 DEF GroupWait
    <3>2. cpc[p] = "exit" /\ ~Producing(p)
        BY <1>8 DEF GroupWait
    <3> QED BY <2>1, <3>1, <3>2 DEF locals, limiterVars, dbVars
  <2>2. CASE groupErr[p]
    <3>1. ppc[p] = "wait" /\ Return(p, "failed") /\ UNCHANGED <<attempts, limiterVars, dbVars, spc>>
        BY <1>8, <2>2 DEF GroupWait
    <3>2. cpc[p] = "exit" /\ ~Producing(p)
        BY <1>8 DEF GroupWait
    <3> QED BY <2>2, <3>1, <3>2 DEF Return, limiterVars, dbVars
  <2> QED BY <2>1, <2>2
<1>9. ASSUME NEW p \in Pushes, ResourcesFail(p) PROVE Noted'
    BY <1>9 DEF ResourcesFail, Return, locals, limiterVars, dbVars
<1>10. ASSUME NEW p \in Pushes, AppendResources(p) PROVE Noted'
    BY <1>10 DEF AppendResources, locals, limiterVars, dbVars
<1>11. ASSUME NEW p \in Pushes, Send(p) PROVE Noted'
  <2> SUFFICES ASSUME NEW q \in Pushes, NEW e \in Records,
                      \/ e \in sending' /\ e \in Of(q)
                      \/ e \in Elements(stream'[q]) \/ e \in rows'[q]
               PROVE  ResourceOf[e] \in seen'[q]
      OBVIOUS
  <2>1. q # p
    <3>1. SUFFICES ASSUME q = p PROVE FALSE
        OBVIOUS
    <3>2. stream'[q] = <<>> /\ rows'[q] = {} /\ sending' = sending
        BY <1>11, <3>1 DEF Send, Return, locals, limiterVars, dbVars
    <3>3. e \in running /\ e \in Of(q)
        BY <3>2, ElementsEmpty
    <3> QED BY <1>11, <3>1, <3>3 DEF Send
  <2> QED BY <1>11, <2>1 DEF Send, Return, locals, limiterVars, dbVars
<1>12. ASSUME NEW p \in Pushes, NEW r \in Records, ProduceSkip(p, r) PROVE Noted'
    BY <1>12 DEF ProduceSkip, locals, limiterVars, dbVars
<1>13. ASSUME NEW p \in Pushes, NEW r \in Records, ProduceFail(p, r) PROVE Noted'
    BY <1>13 DEF ProduceFail, locals, limiterVars, dbVars
<1>14. ASSUME NEW p \in Pushes, NEW r \in Records, ProduceRecord(p, r) PROVE Noted'
    BY <1>14 DEF ProduceRecord, locals, limiterVars, dbVars
<1>15. ASSUME NEW p \in Pushes, NEW r \in Records, ProduceSend(p, r) PROVE Noted'
  <2> SUFFICES ASSUME NEW q \in Pushes, NEW e \in Records,
                      \/ e \in sending' /\ e \in Of(q)
                      \/ e \in Elements(stream'[q]) \/ e \in rows'[q]
               PROVE  ResourceOf[e] \in seen'[q]
      OBVIOUS
  <2>1. stream' = [stream EXCEPT ![p] = Append(stream[p], r)] /\ stream[p] \in Seq(Records)
      BY <1>15 DEF ProduceSend
  <2>2. stream'[p] = Append(stream[p], r) /\ \A o \in Pushes : o # p => stream'[o] = stream[o]
      BY <2>1
  <2>3. Elements(stream'[p]) = Elements(stream[p]) \cup {r}
      BY <1>15, <2>1, <2>2, ElementsAppend DEF ProduceSend
  <2>4. CASE q = p
      BY <1>15, <2>3, <2>4 DEF ProduceSend, limiterVars, dbVars
  <2>5. CASE q # p
      BY <1>15, <2>2, <2>5 DEF ProduceSend, limiterVars, dbVars
  <2> QED BY <2>4, <2>5
<1>16. ASSUME NEW p \in Pushes, ConsumeAppend(p) PROVE Noted'
  <2> SUFFICES ASSUME NEW q \in Pushes, NEW e \in Records,
                      \/ e \in sending' /\ e \in Of(q)
                      \/ e \in Elements(stream'[q]) \/ e \in rows'[q]
               PROVE  ResourceOf[e] \in seen'[q]
      OBVIOUS
  <2>1. stream' = [stream EXCEPT ![p] = Tail(stream[p])] /\ stream[p] \in Seq(Records)
      BY <1>16 DEF ConsumeAppend
  <2>2. stream'[p] = Tail(stream[p]) /\ \A o \in Pushes : o # p => stream'[o] = stream[o]
      BY <2>1
  <2>3. Elements(stream[p]) = Elements(stream'[p]) \cup {Head(stream[p])}
      BY <1>16, <2>1, <2>2, ElementsTail DEF ConsumeAppend
  <2>4. CASE q = p
      BY <1>16, <2>3, <2>4 DEF ConsumeAppend, limiterVars, dbVars
  <2>5. CASE q # p
      BY <1>16, <2>2, <2>5 DEF ConsumeAppend, limiterVars, dbVars
  <2> QED BY <2>4, <2>5
<1>17. ASSUME NEW p \in Pushes, ConsumeFail(p) PROVE Noted'
  <2> SUFFICES ASSUME NEW q \in Pushes, NEW e \in Records,
                      \/ e \in sending' /\ e \in Of(q)
                      \/ e \in Elements(stream'[q]) \/ e \in rows'[q]
               PROVE  ResourceOf[e] \in seen'[q]
      OBVIOUS
  <2>1. stream' = [stream EXCEPT ![p] = Tail(stream[p])] /\ stream[p] \in Seq(Records)
      BY <1>17 DEF ConsumeFail
  <2>2. stream'[p] = Tail(stream[p]) /\ \A o \in Pushes : o # p => stream'[o] = stream[o]
      BY <2>1
  <2>3. Elements(stream[p]) = Elements(stream'[p]) \cup {Head(stream[p])}
      BY <1>17, <2>1, <2>2, ElementsTail DEF ConsumeFail
  <2>4. CASE q = p
      BY <1>17, <2>3, <2>4 DEF ConsumeFail, limiterVars, dbVars
  <2>5. CASE q # p
      BY <1>17, <2>2, <2>5 DEF ConsumeFail, limiterVars, dbVars
  <2> QED BY <2>4, <2>5
<1>18. ASSUME NEW p \in Pushes, ConsumeEnd(p) PROVE Noted'
    BY <1>18 DEF ConsumeEnd, locals, limiterVars, dbVars
<1>19. ASSUME NEW p \in Pushes, CloseStream(p) PROVE Noted'
    BY <1>19 DEF CloseStream, locals, limiterVars, dbVars
<1>20. CASE Shutdown
    BY <1>20 DEF Shutdown, locals, limiterVars, dbVars
<1>21. CASE ShutdownWait
    BY <1>21 DEF ShutdownWait, locals, limiterVars, dbVars
<1>22. CASE UNCHANGED vars
    BY <1>22 DEF vars, locals, limiterVars, dbVars
<1> QED BY <1>1, <1>2, <1>3, <1>4, <1>5, <1>6, <1>7, <1>8, <1>9, <1>10, <1>11, <1>12, <1>13,
   <1>14, <1>15, <1>16, <1>17, <1>18, <1>19, <1>20, <1>21, <1>22 DEF Next, CallStep,
   ProducerStep, ConsumerStep

(* Every step keeps what was sent. *)
LEMMA SentStep ==
  ASSUME TypeOK, Producers, Fresh, Complete, Conserved, Noted, Sent, [Next]_vars
  PROVE  Sent'
PROOF
<1> USE OfRecords DEF TypeOK, Fresh, Sent, InGroup, InWork, AtRest
<1>1. ASSUME NEW p \in Pushes, Call(p) PROVE Sent'
    BY <1>1 DEF Call, locals, limiterVars, dbVars
<1>2. ASSUME NEW p \in Pushes, LookClosed(p) PROVE Sent'
  <2>1. CASE spc = "up"
    <3>1. /\ ppc[p] = "begin" /\ ppc' = [ppc EXCEPT ![p] = "prepare"]
          /\ UNCHANGED <<locals, attempts, limiterVars, dbVars, spc>>
        BY <1>2, <2>1 DEF LookClosed
    <3> QED BY <2>1, <3>1 DEF locals, limiterVars, dbVars
  <2>2. CASE spc # "up"
    <3>1. /\ ppc[p] = "begin" /\ Return(p, "failed")
          /\ UNCHANGED <<attempts, limiterVars, dbVars, spc>>
        BY <1>2, <2>2 DEF LookClosed
    <3> QED BY <2>2, <3>1 DEF Return, limiterVars, dbVars
  <2> QED BY <2>1, <2>2
<1>3. ASSUME NEW p \in Pushes, Cancel(p) PROVE Sent'
    BY <1>3 DEF Cancel, locals, limiterVars, dbVars
<1>4. ASSUME NEW p \in Pushes, PrepareFail(p) PROVE Sent'
    BY <1>4 DEF PrepareFail, Return, locals, limiterVars, dbVars
<1>5. ASSUME NEW p \in Pushes, Prepare(p) PROVE Sent'
    BY <1>5 DEF Prepare, locals, limiterVars, dbVars
<1>6. ASSUME NEW p \in Pushes, StartProducer(p) PROVE Sent'
    BY <1>6 DEF StartProducer, locals, limiterVars, dbVars
<1>7. ASSUME NEW p \in Pushes, LeaveLoop(p) PROVE Sent'
    BY <1>7 DEF LeaveLoop, locals, limiterVars, dbVars
<1>8. ASSUME NEW p \in Pushes, GroupWait(p) PROVE Sent'
  <2>1. CASE ~groupErr[p]
    <3>1. /\ ppc[p] = "wait" /\ ppc' = [ppc EXCEPT ![p] = "resources"]
          /\ UNCHANGED <<locals, attempts, limiterVars, dbVars, spc>>
        BY <1>8, <2>1 DEF GroupWait
    <3>2. cpc[p] = "exit" /\ ~Producing(p)
        BY <1>8 DEF GroupWait
    <3> QED BY <2>1, <3>1, <3>2 DEF locals, limiterVars, dbVars
  <2>2. CASE groupErr[p]
    <3>1. ppc[p] = "wait" /\ Return(p, "failed") /\ UNCHANGED <<attempts, limiterVars, dbVars, spc>>
        BY <1>8, <2>2 DEF GroupWait
    <3>2. cpc[p] = "exit" /\ ~Producing(p)
        BY <1>8 DEF GroupWait
    <3> QED BY <2>2, <3>1, <3>2 DEF Return, limiterVars, dbVars
  <2> QED BY <2>1, <2>2
<1>9. ASSUME NEW p \in Pushes, ResourcesFail(p) PROVE Sent'
    BY <1>9 DEF ResourcesFail, Return, locals, limiterVars, dbVars
<1>10. ASSUME NEW p \in Pushes, AppendResources(p) PROVE Sent'
  <2> SUFFICES ASSUME NEW q \in Pushes, NEW e \in Of(q) \ Old
               PROVE  /\ ppc'[q] = "send" => e \in rows'[q] /\ ResourceOf[e] \in rfCache'
                      /\ ppc'[q] = "acked" => e \in logsTable' /\ ResourceOf[e] \in rfCache'
      OBVIOUS
  <2>1. CASE q = p
    <3>1. ~GroupDone(p) /\ ~Producing(p) /\ next[p] > Len(Data[p]) /\ stream[p] = <<>>
        BY <1>10 DEF AppendResources, Producers, Complete, GroupDone
    <3>2. PICK i \in 1 .. Len(Data[p]) : e = Data[p][i]
        BY <2>1 DEF Of
    <3>3. i < next[p] /\ e \in Of(p)
        BY <2>1, <3>1, <3>2, OfRecords
    <3>4. e \in rows[p]
        BY <1>10, <3>1, <3>2, <3>3, ElementsEmpty DEF AppendResources, Conserved, Producing
    <3>5. ResourceOf[e] \in seen[p]
        BY <3>4 DEF Noted
    <3> QED BY <1>10, <2>1, <3>4, <3>5 DEF AppendResources, locals, limiterVars, dbVars
  <2>2. CASE q # p
      BY <1>10, <2>2 DEF AppendResources, locals, limiterVars, dbVars
  <2> QED BY <2>1, <2>2
<1>11. ASSUME NEW p \in Pushes, Send(p) PROVE Sent'
    BY <1>11 DEF Send, Return, locals, limiterVars, dbVars
<1>12. ASSUME NEW p \in Pushes, NEW r \in Records, ProduceSkip(p, r) PROVE Sent'
    BY <1>12 DEF ProduceSkip, locals, limiterVars, dbVars
<1>13. ASSUME NEW p \in Pushes, NEW r \in Records, ProduceFail(p, r) PROVE Sent'
    BY <1>13 DEF ProduceFail, locals, limiterVars, dbVars
<1>14. ASSUME NEW p \in Pushes, NEW r \in Records, ProduceRecord(p, r) PROVE Sent'
    BY <1>14 DEF ProduceRecord, locals, limiterVars, dbVars
<1>15. ASSUME NEW p \in Pushes, NEW r \in Records, ProduceSend(p, r) PROVE Sent'
    BY <1>15 DEF ProduceSend, locals, limiterVars, dbVars
<1>16. ASSUME NEW p \in Pushes, ConsumeAppend(p) PROVE Sent'
    BY <1>16 DEF ConsumeAppend, locals, limiterVars, dbVars
<1>17. ASSUME NEW p \in Pushes, ConsumeFail(p) PROVE Sent'
    BY <1>17 DEF ConsumeFail, locals, limiterVars, dbVars
<1>18. ASSUME NEW p \in Pushes, ConsumeEnd(p) PROVE Sent'
    BY <1>18 DEF ConsumeEnd, locals, limiterVars, dbVars
<1>19. ASSUME NEW p \in Pushes, CloseStream(p) PROVE Sent'
    BY <1>19 DEF CloseStream, locals, limiterVars, dbVars
<1>20. CASE Shutdown
    BY <1>20 DEF Shutdown, locals, limiterVars, dbVars
<1>21. CASE ShutdownWait
    BY <1>21 DEF ShutdownWait, locals, limiterVars, dbVars
<1>22. CASE UNCHANGED vars
    BY <1>22 DEF vars, locals, limiterVars, dbVars
<1> QED BY <1>1, <1>2, <1>3, <1>4, <1>5, <1>6, <1>7, <1>8, <1>9, <1>10, <1>11, <1>12, <1>13,
   <1>14, <1>15, <1>16, <1>17, <1>18, <1>19, <1>20, <1>21, <1>22 DEF Next, CallStep,
   ProducerStep, ConsumerStep

(* Every step keeps the cache. *)
LEMMA CachedStep ==
  ASSUME TypeOK, Fresh, Cached, [Next]_vars
  PROVE  Cached'
PROOF
<1> USE DEF TypeOK, Fresh, Cached, InGroup, InWork, AtRest
<1>1. ASSUME NEW p \in Pushes, Call(p) PROVE Cached'
    BY <1>1 DEF Call, locals, limiterVars, dbVars
<1>2. ASSUME NEW p \in Pushes, LookClosed(p) PROVE Cached'
  <2>1. CASE spc = "up"
    <3>1. /\ ppc[p] = "begin" /\ ppc' = [ppc EXCEPT ![p] = "prepare"]
          /\ UNCHANGED <<locals, attempts, limiterVars, dbVars, spc>>
        BY <1>2, <2>1 DEF LookClosed
    <3> QED BY <2>1, <3>1 DEF locals, limiterVars, dbVars
  <2>2. CASE spc # "up"
    <3>1. /\ ppc[p] = "begin" /\ Return(p, "failed")
          /\ UNCHANGED <<attempts, limiterVars, dbVars, spc>>
        BY <1>2, <2>2 DEF LookClosed
    <3> QED BY <2>2, <3>1 DEF Return, limiterVars, dbVars
  <2> QED BY <2>1, <2>2
<1>3. ASSUME NEW p \in Pushes, Cancel(p) PROVE Cached'
    BY <1>3 DEF Cancel, locals, limiterVars, dbVars
<1>4. ASSUME NEW p \in Pushes, PrepareFail(p) PROVE Cached'
    BY <1>4 DEF PrepareFail, Return, locals, limiterVars, dbVars
<1>5. ASSUME NEW p \in Pushes, Prepare(p) PROVE Cached'
    BY <1>5 DEF Prepare, locals, limiterVars, dbVars
<1>6. ASSUME NEW p \in Pushes, StartProducer(p) PROVE Cached'
    BY <1>6 DEF StartProducer, locals, limiterVars, dbVars
<1>7. ASSUME NEW p \in Pushes, LeaveLoop(p) PROVE Cached'
    BY <1>7 DEF LeaveLoop, locals, limiterVars, dbVars
<1>8. ASSUME NEW p \in Pushes, GroupWait(p) PROVE Cached'
  <2>1. CASE ~groupErr[p]
    <3>1. /\ ppc[p] = "wait" /\ ppc' = [ppc EXCEPT ![p] = "resources"]
          /\ UNCHANGED <<locals, attempts, limiterVars, dbVars, spc>>
        BY <1>8, <2>1 DEF GroupWait
    <3>2. cpc[p] = "exit" /\ ~Producing(p)
        BY <1>8 DEF GroupWait
    <3> QED BY <2>1, <3>1, <3>2 DEF locals, limiterVars, dbVars
  <2>2. CASE groupErr[p]
    <3>1. ppc[p] = "wait" /\ Return(p, "failed") /\ UNCHANGED <<attempts, limiterVars, dbVars, spc>>
        BY <1>8, <2>2 DEF GroupWait
    <3>2. cpc[p] = "exit" /\ ~Producing(p)
        BY <1>8 DEF GroupWait
    <3> QED BY <2>2, <3>1, <3>2 DEF Return, limiterVars, dbVars
  <2> QED BY <2>1, <2>2
<1>9. ASSUME NEW p \in Pushes, ResourcesFail(p) PROVE Cached'
    BY <1>9 DEF ResourcesFail, Return, locals, limiterVars, dbVars
<1>10. ASSUME NEW p \in Pushes, AppendResources(p) PROVE Cached'
    BY <1>10 DEF AppendResources, locals, limiterVars, dbVars
<1>11. ASSUME NEW p \in Pushes, Send(p) PROVE Cached'
    BY <1>11 DEF Send, Return, locals, limiterVars, dbVars
<1>12. ASSUME NEW p \in Pushes, NEW r \in Records, ProduceSkip(p, r) PROVE Cached'
    BY <1>12 DEF ProduceSkip, locals, limiterVars, dbVars
<1>13. ASSUME NEW p \in Pushes, NEW r \in Records, ProduceFail(p, r) PROVE Cached'
    BY <1>13 DEF ProduceFail, locals, limiterVars, dbVars
<1>14. ASSUME NEW p \in Pushes, NEW r \in Records, ProduceRecord(p, r) PROVE Cached'
    BY <1>14 DEF ProduceRecord, locals, limiterVars, dbVars
<1>15. ASSUME NEW p \in Pushes, NEW r \in Records, ProduceSend(p, r) PROVE Cached'
    BY <1>15 DEF ProduceSend, locals, limiterVars, dbVars
<1>16. ASSUME NEW p \in Pushes, ConsumeAppend(p) PROVE Cached'
    BY <1>16 DEF ConsumeAppend, locals, limiterVars, dbVars
<1>17. ASSUME NEW p \in Pushes, ConsumeFail(p) PROVE Cached'
    BY <1>17 DEF ConsumeFail, locals, limiterVars, dbVars
<1>18. ASSUME NEW p \in Pushes, ConsumeEnd(p) PROVE Cached'
    BY <1>18 DEF ConsumeEnd, locals, limiterVars, dbVars
<1>19. ASSUME NEW p \in Pushes, CloseStream(p) PROVE Cached'
    BY <1>19 DEF CloseStream, locals, limiterVars, dbVars
<1>20. CASE Shutdown
    BY <1>20 DEF Shutdown, locals, limiterVars, dbVars
<1>21. CASE ShutdownWait
    BY <1>21 DEF ShutdownWait, locals, limiterVars, dbVars
<1>22. CASE UNCHANGED vars
    BY <1>22 DEF vars, locals, limiterVars, dbVars
<1> QED BY <1>1, <1>2, <1>3, <1>4, <1>5, <1>6, <1>7, <1>8, <1>9, <1>10, <1>11, <1>12, <1>13,
   <1>14, <1>15, <1>16, <1>17, <1>18, <1>19, <1>20, <1>21, <1>22 DEF Next, CallStep,
   ProducerStep, ConsumerStep

-----------------------------------------------------------------------------
(* The inductive invariant of the push path. *)
IInv ==
    /\ TypeOK /\ Producers /\ Refused /\ Fresh /\ Complete /\ Conserved /\ Noted /\ Sent
    /\ Cached

(* It holds when the exporter starts. *)
LEMMA InitInvariant == Init => IInv
PROOF
<1> SUFFICES ASSUME Init PROVE IInv
    OBVIOUS
<1> USE ExporterAssumption DEF Init
<1>1. TypeOK
    BY DEF TypeOK, AtRest, InWork
<1>2. Producers /\ Refused /\ Fresh /\ Complete /\ Cached
    BY DEF Producers, Refused, Fresh, Complete, Cached, Producing, GroupDone, UsesDb, InWork,
           InGroup
<1>3. Conserved /\ Noted /\ Sent
    BY ElementsEmpty DEF Conserved, Noted, Sent, InWork
<1> QED BY <1>1, <1>2, <1>3 DEF IInv

(* Every behaviour of the exporter satisfies it. *)
THEOREM Invariant == Spec => []IInv
PROOF
<1>1. IInv /\ [Next]_vars => IInv'
    BY TypeStep, ProducersStep, RefusedStep, FreshStep, CompleteStep, ConservedStep, NotedStep,
       SentStep, CachedStep DEF IInv
<1> QED BY <1>1, InitInvariant, PTL DEF Spec

(* The variables keep their types. *)
THEOREM TypeCorrect == Spec => []TypeOK
PROOF
<1>1. IInv => TypeOK
    BY DEF IInv
<1> QED BY <1>1, Invariant, PTL

(* No producer sends on a closed stream, and no call uses the database     *)
(* that Shutdown has closed.                                               *)
THEOREM NothingClosedIsUsed == Spec => []NoUseAfterClose
PROOF
<1>1. ASSUME IInv PROVE NoUseAfterClose
  <2>1. \A p \in Pushes : closed[p] => ~Producing(p)
      BY <1>1 DEF IInv, Producers
  <2>2. spc = "closed" => \A p \in Pushes : ~UsesDb(p)
      BY <1>1 DEF IInv, Refused
  <2> QED BY <2>1, <2>2 DEF NoUseAfterClose
<1> QED BY <1>1, Invariant, PTL

(* A call that reports success has inserted all its records that are not   *)
(* too old, and the fingerprints of their resources are accounted for.     *)
THEOREM AckedIsComplete == Spec => []AckedComplete
PROOF
<1>1. ASSUME IInv PROVE AckedComplete
  <2> SUFFICES ASSUME NEW p \in Pushes, ppc[p] = "acked", NEW r \in Of(p) \ Old
               PROVE  /\ r \in logsTable
                      /\ ResourceOf[r] \in resTable \cup lost \cup UNION {resRows[q] : q \in Pushes}
      BY DEF AckedComplete
  <2>1. r \in logsTable /\ ResourceOf[r] \in rfCache
      BY <1>1 DEF IInv, Sent
  <2>2. \/ ResourceOf[r] \in resTable \/ ResourceOf[r] \in lost
        \/ \E q \in Pushes : ResourceOf[r] \in resRows[q]
      BY <1>1, <2>1 DEF IInv, Cached
  <2> QED BY <2>1, <2>2
<1> QED BY <1>1, Invariant, PTL

===============================================================================
