------------------------- MODULE KafkaReceiverProofs -------------------------
(***************************************************************************)
(* Proofs about the Kafka receiver, for any number of partitions and       *)
(* messages, any configurations and any number of crashes, rebalances,     *)
(* errors and phases of high memory.                                       *)
(*                                                                         *)
(* AtLeastOnce and RepeatsAccountedFor are about the offsets the broker keeps *)
(* and the messages the pipeline has taken.  What ties the two together is *)
(* where a claim stands: the position it works at, whether the message     *)
(* there has been taken, and what the session has marked so far.           *)
(***************************************************************************)
EXTENDS KafkaReceiver, TLAPS

Steps == {"none", "select", "consume", "pause", "retry", "resume", "resumeFail",
          "mark", "fail", "returned"}

(* A claim that has a message in hand, and one whose message the pipeline  *)
(* has taken.                                                              *)
Holding == {"consume", "pause", "retry", "resume", "resumeFail", "mark", "fail"}
Taken   == {"resume", "mark"}

(* The types of what the receiver is given, and of the variables. *)
GivenOK ==
  /\ config \in [autocommit : BOOLEAN, after : BOOLEAN, onError : BOOLEAN,
                 initial : {"earliest", "latest"}]
  /\ content \in [malformed : SUBSET (Partitions \X Nat), rejected : SUBSET (Partitions \X Nat)]

TypeOK ==
  /\ GivenOK
  /\ receiver \in {"starting", "started", "stopping", "stopped"}
  /\ session \in {"none", "live", "done"}
  /\ claim \in [Partitions -> Steps]
  /\ position \in [Partitions -> Nat]
  /\ fetched \in [Partitions -> Nat]
  /\ paused \subseteq Partitions
  /\ marked \in [Partitions -> Nat \cup {-1}]
  /\ produced \in [Partitions -> Nat]
  /\ committed \in [Partitions -> Nat \cup {-1}]
  /\ delivered = [p \in Partitions |-> delivered[p]]
  /\ \A p \in Partitions : delivered[p] \in [Offsets(p) -> Nat]
  /\ high \in BOOLEAN
  /\ unflushed \in BOOLEAN /\ losses \in Nat
  /\ crashes \in Nat /\ ends \in Nat /\ highs \in Nat

(* No claim is ahead of what its partition holds, and neither are marks    *)
(* and commits: a message is received once it was fetched, and fetched     *)
(* once it was produced.                                                   *)
InRange ==
  \A p \in Partitions :
    /\ produced[p] <= Messages[p]
    /\ position[p] + fetched[p] + (IF claim[p] \in Holding THEN 1 ELSE 0) <= produced[p]
    /\ marked[p] <= produced[p] /\ committed[p] <= produced[p]

(* There are claims while there is a session. *)
ClaimsOfSession ==
  \A p \in Partitions : claim[p] = "none" <=> session = "none"

(* What is below an offset that is committed, marked or passed has been    *)
(* taken, when only messages that were taken are marked.                   *)
Covered(p, o) ==
  \/ o < committed[p] \/ o < marked[p] \/ o < position[p]
  \/ o = position[p] /\ claim[p] \in Taken

CoveredIsDelivered ==
  config.after /\ ~config.onError /\ config.initial = "earliest" =>
    \A p \in Partitions : \A o \in Nat : Covered(p, o) => delivered[p][o] > 0

(* The claims that returned have committed what they marked, unless the    *)
(* last commit has failed, and a message that is marked before the         *)
(* pipeline is marked while it is in hand.                                 *)
MarksKept ==
  \A p \in Partitions :
    /\ ~config.autocommit /\ claim[p] = "returned" /\ ~unflushed => committed[p] = marked[p]
    /\ ~config.after /\ claim[p] \in Holding => marked[p] > position[p]

(* What has been taken is behind the position and the mark of its claim,   *)
(* or in its hands; between two sessions it is behind the committed offset.*)
(* A message comes out from behind them only by a crash or a lost commit,  *)
(* and is not taken again while it is there.                               *)
Behind(p, o) ==
  IF session = "none" THEN o < committed[p]
  ELSE \/ o < position[p] /\ o < marked[p]
       \/ o = position[p] /\ claim[p] \in Taken

DeliveredIsBehind ==
  \A p \in Partitions : \A o \in Offsets(p) :
    delivered[p][o] <= (IF Behind(p, o) THEN 1 ELSE 0) + crashes + losses

-----------------------------------------------------------------------------
(* A claim with a message in hand stands at an offset of its partition. *)
LEMMA PositionIsOffset ==
  ASSUME TypeOK, InRange, NEW p \in Partitions, claim[p] \in Holding
  PROVE  position[p] \in Offsets(p)
PROOF
<1>1. Messages[p] \in Nat /\ position[p] \in Nat /\ fetched[p] \in Nat /\ produced[p] \in Nat
    BY KafkaAssumption DEF TypeOK
<1>2. position[p] + fetched[p] + 1 <= produced[p] /\ produced[p] <= Messages[p]
    BY DEF InRange
<1> QED BY <1>1, <1>2 DEF Offsets

(* What the pipeline takes is counted for its message and no other one. *)
LEMMA TakesCounts ==
  ASSUME TypeOK, NEW p \in Partitions, position[p] \in Offsets(p), Takes(p)
  PROVE  /\ delivered' = [r \in Partitions |-> delivered'[r]]
         /\ \A q \in Partitions : delivered'[q] \in [Offsets(q) -> Nat]
         /\ \A r \in Partitions : r # p => delivered'[r] = delivered[r]
         /\ \A o \in Offsets(p) :
              delivered'[p][o] = IF o = position[p] THEN delivered[p][o] + 1 ELSE delivered[p][o]
PROOF
<1> DEFINE f == [delivered[p] EXCEPT ![position[p]] = @ + 1]
<1>1. delivered[p] \in [Offsets(p) -> Nat]
    BY DEF TypeOK
<1>2. delivered' = [delivered EXCEPT ![p] = f]
    BY DEF Takes
<1>3. f \in [Offsets(p) -> Nat] /\ \A o \in Offsets(p) :
        f[o] = IF o = position[p] THEN delivered[p][o] + 1 ELSE delivered[p][o]
    BY <1>1
<1> HIDE DEF f
<1>4. delivered' = [q \in Partitions |-> IF q = p THEN f ELSE delivered[q]]
    BY <1>2 DEF TypeOK
<1> QED BY <1>3, <1>4 DEF TypeOK

(* What the receiver is given does not change. *)
LEMMA GivenStep == GivenOK /\ [Next]_vars => UNCHANGED given /\ GivenOK'
PROOF
<1> SUFFICES ASSUME GivenOK, [Next]_vars PROVE UNCHANGED given /\ GivenOK'
    OBVIOUS
<1>1. UNCHANGED given
  <2>1. ASSUME NEW p \in Partitions, Claim(p) PROVE UNCHANGED given
      BY <2>1 DEF Claim, Receive, ReturnNil, Consume, PauseAll, Retry, ResumeAll, RetryDone,
         Succeed,
         ReturnError
  <2>2. ASSUME NEW p \in Partitions, Fetch(p) \/ Produce(p) PROVE UNCHANGED given
      BY <2>2 DEF Fetch, Produce
  <2>3. CASE Setup \/ Cleanup \/ Shutdown \/ Stopped
      BY <2>3 DEF Setup, Join, Cleanup, Shutdown, Stopped
  <2>4. CASE AutoCommit \/ Rebalance \/ MemoryHigh \/ MemoryLow \/ Crash
      BY <2>4 DEF AutoCommit, Rebalance, MemoryHigh, MemoryLow, Crash
  <2>5. CASE UNCHANGED vars
      BY <2>5 DEF vars
  <2> QED BY <2>1, <2>2, <2>3, <2>4, <2>5 DEF Next
<1> QED BY <1>1 DEF GivenOK, given

(* A commit moves the offsets of some partitions to the marks, and of all  *)
(* unless it fails.                                                        *)
LEMMA CommitMoves ==
  ASSUME TypeOK, NEW marks \in [Partitions -> Nat \cup {-1}], NEW e \in BOOLEAN,
         CommitIf(e, marks)
  PROVE  /\ committed' \in [Partitions -> Nat \cup {-1}]
         /\ unflushed' \in BOOLEAN /\ ends' \in Nat
         /\ \A p \in Partitions : committed'[p] = committed[p] \/ committed'[p] = marks[p]
         /\ e /\ ~unflushed' => committed' = marks
         /\ ~e => UNCHANGED <<committed, unflushed, ends>>
PROOF
<1>1. CASE ~e
    BY <1>1 DEF CommitIf, TypeOK
<1>2. CASE e /\ committed' = marks /\ unflushed' = FALSE /\ UNCHANGED ends
    BY <1>2 DEF TypeOK
<1>3. CASE e /\ ~(committed' = marks /\ unflushed' = FALSE /\ UNCHANGED ends)
  <2>1. PICK kept \in SUBSET Partitions :
          committed' = [p \in Partitions |-> IF p \in kept THEN marks[p] ELSE committed[p]]
      BY <1>3 DEF CommitIf, Commit
  <2>2. unflushed' = TRUE /\ ends' = ends + 1
      BY <1>3 DEF CommitIf, Commit
  <2>3. committed \in [Partitions -> Nat \cup {-1}] /\ ends \in Nat
      BY DEF TypeOK
  <2> QED BY <1>3, <2>1, <2>2, <2>3
<1> QED BY <1>1, <1>2, <1>3

(* The two commits that are of the marks of this very step. *)
LEMMA CommitsMarked ==
  ASSUME TypeOK, NEW p \in Partitions, Succeed(p) \/ ReturnError(p)
  PROVE  \E marks \in [Partitions -> Nat \cup {-1}] :
           /\ marks = marked' /\ CommitIf(~config.autocommit, marks)
           /\ marks = marked \/ marks = Marked(p)
           /\ Succeed(p) => marks = IF config.after THEN Marked(p) ELSE marked
PROOF
<1>1. marked \in [Partitions -> Nat \cup {-1}] /\ Marked(p) \in [Partitions -> Nat \cup {-1}]
  <2>1. position[p] + 1 \in Nat /\ marked \in [Partitions -> Nat \cup {-1}]
      BY DEF TypeOK
  <2> QED BY <2>1 DEF Marked
<1>2. marked' = marked \/ marked' = Marked(p)
    BY DEF Succeed, ReturnError
<1>3. Succeed(p) => marked' = IF config.after THEN Marked(p) ELSE marked
    BY DEF Succeed, MarksDelivered
<1>4. PICK marks : marks = marked'
    OBVIOUS
<1>5. CommitIf(~config.autocommit, marks)
    BY <1>4 DEF Succeed, ReturnError, CommitIf, Commit
<1> QED BY <1>1, <1>2, <1>3, <1>4, <1>5

(* Every step preserves the types. *)
LEMMA TypeStep == TypeOK /\ InRange /\ [Next]_vars => TypeOK'
PROOF
<1> SUFFICES ASSUME TypeOK, InRange, [Next]_vars PROVE TypeOK'
    OBVIOUS
<1>g. GivenOK' /\ UNCHANGED given
    BY GivenStep DEF TypeOK
<1> USE <1>g DEF TypeOK, Steps
<1>1. CASE Setup
  <2>1. \A p \in Partitions : ToSaramaInitialOffset(p) \in Nat
      BY DEF ToSaramaInitialOffset
  <2>2. position' \in [Partitions -> Nat]
      BY <1>1, <2>1 DEF Setup, Join
  <2> QED BY <1>1, <2>2 DEF Setup, Join, given, consumer, broker, history, bounds
<1>2. CASE Cleanup
  <2>1. CommitIf(config.autocommit, marked) /\ config.autocommit \in BOOLEAN
      BY <1>2 DEF Cleanup, GivenOK
  <2>2. /\ committed' \in [Partitions -> Nat \cup {-1}]
        /\ unflushed' \in BOOLEAN /\ ends' \in Nat
      BY <2>1, CommitMoves
  <2>3. losses' \in Nat
      BY <1>2, <2>2 DEF Cleanup
  <2> QED BY <1>2, <2>2, <2>3 DEF Cleanup, NoClaims, given
<1>3. CASE Shutdown
    BY <1>3 DEF Shutdown, given, consumer, broker, history, bounds
<1>4. CASE Stopped
    BY <1>4 DEF Stopped, given, consumer, broker, history, bounds
<1>5. ASSUME NEW p \in Partitions, Receive(p) PROVE TypeOK'
  <2>1. position[p] + 1 \in Nat
      BY DEF TypeOK
  <2> QED BY <1>5, <2>1 DEF Receive, Marked, Go, given, consumer, broker, history, bounds
<1>6. ASSUME NEW p \in Partitions, ReturnNil(p) PROVE TypeOK'
  <2>1. CommitIf(~config.autocommit, marked) /\ (~config.autocommit) \in BOOLEAN
      BY <1>6 DEF ReturnNil, GivenOK
  <2>2. /\ committed' \in [Partitions -> Nat \cup {-1}]
        /\ unflushed' \in BOOLEAN /\ ends' \in Nat
      BY <2>1, CommitMoves
  <2> QED BY <1>6, <2>2 DEF ReturnNil, Go, given
<1>7. ASSUME NEW p \in Partitions, Consume(p) PROVE TypeOK'
  <2>1. CASE Takes(p)
    <3>1. position[p] \in Offsets(p)
        BY <1>7, PositionIsOffset DEF Consume, Holding
    <3>2. /\ delivered' = [r \in Partitions |-> delivered'[r]]
          /\ \A r \in Partitions : delivered'[r] \in [Offsets(r) -> Nat]
          /\ \A r \in Partitions : r # p => delivered'[r] = delivered[r]
          /\ \A k \in Offsets(p) :
               delivered'[p][k] = IF k = position[p] THEN delivered[p][k] + 1 ELSE delivered[p][k]
        BY <2>1, <3>1, TakesCounts
    <3> QED BY <1>7, <3>1, <3>2 DEF Consume, Fails, Go, given, broker, history
  <2>2. CASE ~Takes(p)
      BY <1>7, <2>2 DEF Consume, Fails, Go, given, broker, history
  <2> QED BY <2>1, <2>2
<1>8. ASSUME NEW p \in Partitions, PauseAll(p) PROVE TypeOK'
    BY <1>8 DEF PauseAll, Go, given, consumer, broker, history, bounds
<1>9. ASSUME NEW p \in Partitions, Retry(p) PROVE TypeOK'
  <2>1. CASE Takes(p)
    <3>1. position[p] \in Offsets(p)
        BY <1>9, PositionIsOffset DEF Retry, Holding
    <3>2. /\ delivered' = [r \in Partitions |-> delivered'[r]]
          /\ \A r \in Partitions : delivered'[r] \in [Offsets(r) -> Nat]
          /\ \A r \in Partitions : r # p => delivered'[r] = delivered[r]
          /\ \A k \in Offsets(p) :
               delivered'[p][k] = IF k = position[p] THEN delivered[p][k] + 1 ELSE delivered[p][k]
        BY <2>1, <3>1, TakesCounts
    <3> QED BY <1>9, <3>1, <3>2 DEF Retry, Fails, Go, given, broker, history
  <2>2. CASE ~Takes(p)
      BY <1>9, <2>2 DEF Retry, Fails, Go, given, broker, history
  <2> QED BY <2>1, <2>2
<1>10. ASSUME NEW p \in Partitions, ResumeAll(p) PROVE TypeOK'
    BY <1>10 DEF ResumeAll, Go, given, consumer, broker, history, bounds
<1>11. ASSUME NEW p \in Partitions, RetryDone(p) PROVE TypeOK'
    BY <1>11 DEF RetryDone, Go, given, consumer, broker, history, bounds
<1>12. ASSUME NEW p \in Partitions, Succeed(p) PROVE TypeOK'
  <2>1. position[p] + 1 \in Nat
      BY DEF TypeOK
  <2>2. PICK marks \in [Partitions -> Nat \cup {-1}] :
          marks = marked' /\ CommitIf(~config.autocommit, marks)
      BY <1>12, CommitsMarked
  <2>3. /\ committed' \in [Partitions -> Nat \cup {-1}]
        /\ unflushed' \in BOOLEAN /\ ends' \in Nat
      BY <2>2, CommitMoves DEF GivenOK
  <2> QED BY <1>12, <2>1, <2>2, <2>3 DEF Succeed, Go, given
<1>13. ASSUME NEW p \in Partitions, ReturnError(p) PROVE TypeOK'
  <2>1. position[p] + 1 \in Nat
      BY DEF TypeOK
  <2>2. PICK marks \in [Partitions -> Nat \cup {-1}] :
          marks = marked' /\ CommitIf(~config.autocommit, marks)
      BY <1>13, CommitsMarked
  <2>3. /\ committed' \in [Partitions -> Nat \cup {-1}]
        /\ unflushed' \in BOOLEAN /\ ends' \in Nat
      BY <2>2, CommitMoves DEF GivenOK
  <2> QED BY <1>13, <2>1, <2>2, <2>3 DEF ReturnError, Go, given
<1>14. ASSUME NEW p \in Partitions, Fetch(p) PROVE TypeOK'
    BY <1>14 DEF Fetch, given, consumer, broker, history, bounds
<1>15. ASSUME NEW p \in Partitions, Produce(p) PROVE TypeOK'
    BY <1>15 DEF Produce, given, consumer, broker, history, bounds
<1>16. CASE AutoCommit
  <2>1. CommitIf(TRUE, marked)
      BY <1>16 DEF AutoCommit, CommitIf
  <2>2. /\ committed' \in [Partitions -> Nat \cup {-1}]
        /\ unflushed' \in BOOLEAN /\ ends' \in Nat
      BY <2>1, CommitMoves
  <2> QED BY <1>16, <2>2 DEF AutoCommit, given, consumer
<1>17. CASE Rebalance
    BY <1>17 DEF Rebalance, given, consumer, broker, history, bounds
<1>18. CASE MemoryHigh
    BY <1>18 DEF MemoryHigh, given, consumer, broker, history, bounds
<1>19. CASE MemoryLow
    BY <1>19 DEF MemoryLow, given, consumer, broker, history, bounds
<1>20. CASE Crash
    BY <1>20 DEF Crash, NoClaims, given, consumer, broker, history, bounds
<1>21. CASE UNCHANGED vars
    BY <1>21 DEF vars, given, consumer, broker, history, bounds
<1> QED BY <1>1, <1>2, <1>3, <1>4, <1>5, <1>6, <1>7, <1>8, <1>9, <1>10, <1>11, <1>12, <1>13,
   <1>14, <1>15, <1>16, <1>17, <1>18, <1>19, <1>20, <1>21 DEF Next, Claim

(* Offsets stay in range. *)
LEMMA RangeStep == TypeOK /\ InRange /\ [Next]_vars => InRange'
PROOF
<1> SUFFICES ASSUME TypeOK, InRange, [Next]_vars PROVE InRange'
    OBVIOUS
<1> USE KafkaAssumption DEF TypeOK, InRange, Steps, Holding
<1>1. CASE Setup
    BY <1>1 DEF Setup, Join, ToSaramaInitialOffset, given, consumer, broker, history, bounds
<1>2. CASE Cleanup
  <2>1. CommitIf(config.autocommit, marked) /\ config.autocommit \in BOOLEAN
      BY <1>2 DEF Cleanup, GivenOK
  <2>2. \A p \in Partitions : committed'[p] = committed[p] \/ committed'[p] = marked[p]
      BY <2>1, CommitMoves
  <2> QED BY <1>2, <2>2 DEF Cleanup, NoClaims, given
<1>3. CASE Shutdown
    BY <1>3 DEF Shutdown, given, consumer, broker, history, bounds
<1>4. CASE Stopped
    BY <1>4 DEF Stopped, given, consumer, broker, history, bounds
<1>5. ASSUME NEW p \in Partitions, Receive(p) PROVE InRange'
    BY <1>5 DEF Receive, Marked, Go, given, consumer, broker, history, bounds
<1>6. ASSUME NEW p \in Partitions, ReturnNil(p) PROVE InRange'
    BY <1>6 DEF ReturnNil, Go, CommitIf, Commit, given, consumer, broker, history, bounds
<1>7. ASSUME NEW p \in Partitions, Consume(p) PROVE InRange'
    BY <1>7 DEF Consume, Takes, Fails, Go, given, consumer, broker, history, bounds
<1>8. ASSUME NEW p \in Partitions, PauseAll(p) PROVE InRange'
    BY <1>8 DEF PauseAll, Go, given, consumer, broker, history, bounds
<1>9. ASSUME NEW p \in Partitions, Retry(p) PROVE InRange'
    BY <1>9 DEF Retry, Takes, Fails, Go, given, consumer, broker, history, bounds
<1>10. ASSUME NEW p \in Partitions, ResumeAll(p) PROVE InRange'
    BY <1>10 DEF ResumeAll, Go, given, consumer, broker, history, bounds
<1>11. ASSUME NEW p \in Partitions, RetryDone(p) PROVE InRange'
    BY <1>11 DEF RetryDone, Go, given, consumer, broker, history, bounds
<1>12. ASSUME NEW p \in Partitions, Succeed(p) PROVE InRange'
    BY <1>12 DEF Succeed, MarksDelivered, Marked, Go, CommitIf, Commit, given, consumer, broker,
       history, bounds
<1>13. ASSUME NEW p \in Partitions, ReturnError(p) PROVE InRange'
    BY <1>13 DEF ReturnError, MarksFailed, Marked, Go, CommitIf, Commit, given, consumer, broker,
       history, bounds
<1>14. ASSUME NEW p \in Partitions, Fetch(p) PROVE InRange'
    BY <1>14 DEF Fetch, given, consumer, broker, history, bounds
<1>15. ASSUME NEW p \in Partitions, Produce(p) PROVE InRange'
    BY <1>15 DEF Produce, given, consumer, broker, history, bounds
<1>16. CASE AutoCommit
    BY <1>16 DEF AutoCommit, CommitIf, Commit, given, consumer, broker, history, bounds
<1>17. CASE Rebalance
    BY <1>17 DEF Rebalance, given, consumer, broker, history, bounds
<1>18. CASE MemoryHigh
    BY <1>18 DEF MemoryHigh, given, consumer, broker, history, bounds
<1>19. CASE MemoryLow
    BY <1>19 DEF MemoryLow, given, consumer, broker, history, bounds
<1>20. CASE Crash
    BY <1>20 DEF Crash, NoClaims, given, consumer, broker, history, bounds
<1>21. CASE UNCHANGED vars
    BY <1>21 DEF vars, given, consumer, broker, history, bounds
<1> QED BY <1>1, <1>2, <1>3, <1>4, <1>5, <1>6, <1>7, <1>8, <1>9, <1>10, <1>11, <1>12, <1>13,
   <1>14, <1>15, <1>16, <1>17, <1>18, <1>19, <1>20, <1>21 DEF Next, Claim

(* Claims come and go with their session. *)
LEMMA ClaimsStep == TypeOK /\ ClaimsOfSession /\ [Next]_vars => ClaimsOfSession'
PROOF
<1> SUFFICES ASSUME TypeOK, ClaimsOfSession, [Next]_vars PROVE ClaimsOfSession'
    OBVIOUS
<1> USE KafkaAssumption DEF TypeOK, ClaimsOfSession, Steps
<1>1. CASE Setup
    BY <1>1 DEF Setup, Join, ToSaramaInitialOffset, given, consumer, broker, history, bounds
<1>2. CASE Cleanup
    BY <1>2 DEF Cleanup, NoClaims, CommitIf, Commit, given, consumer, broker, history, bounds
<1>3. CASE Shutdown
    BY <1>3 DEF Shutdown, given, consumer, broker, history, bounds
<1>4. CASE Stopped
    BY <1>4 DEF Stopped, given, consumer, broker, history, bounds
<1>5. ASSUME NEW p \in Partitions, Receive(p) PROVE ClaimsOfSession'
    BY <1>5 DEF Receive, Marked, Go, given, consumer, broker, history, bounds
<1>6. ASSUME NEW p \in Partitions, ReturnNil(p) PROVE ClaimsOfSession'
    BY <1>6 DEF ReturnNil, Go, CommitIf, Commit, given, consumer, broker, history, bounds
<1>7. ASSUME NEW p \in Partitions, Consume(p) PROVE ClaimsOfSession'
    BY <1>7 DEF Consume, Takes, Fails, Go, given, consumer, broker, history, bounds
<1>8. ASSUME NEW p \in Partitions, PauseAll(p) PROVE ClaimsOfSession'
    BY <1>8 DEF PauseAll, Go, given, consumer, broker, history, bounds
<1>9. ASSUME NEW p \in Partitions, Retry(p) PROVE ClaimsOfSession'
    BY <1>9 DEF Retry, Takes, Fails, Go, given, consumer, broker, history, bounds
<1>10. ASSUME NEW p \in Partitions, ResumeAll(p) PROVE ClaimsOfSession'
    BY <1>10 DEF ResumeAll, Go, given, consumer, broker, history, bounds
<1>11. ASSUME NEW p \in Partitions, RetryDone(p) PROVE ClaimsOfSession'
    BY <1>11 DEF RetryDone, Go, given, consumer, broker, history, bounds
<1>12. ASSUME NEW p \in Partitions, Succeed(p) PROVE ClaimsOfSession'
    BY <1>12 DEF Succeed, MarksDelivered, Marked, Go, CommitIf, Commit, given, consumer, broker,
       history, bounds
<1>13. ASSUME NEW p \in Partitions, ReturnError(p) PROVE ClaimsOfSession'
    BY <1>13 DEF ReturnError, MarksFailed, Marked, Go, CommitIf, Commit, given, consumer, broker,
       history, bounds
<1>14. ASSUME NEW p \in Partitions, Fetch(p) PROVE ClaimsOfSession'
    BY <1>14 DEF Fetch, given, consumer, broker, history, bounds
<1>15. ASSUME NEW p \in Partitions, Produce(p) PROVE ClaimsOfSession'
    BY <1>15 DEF Produce, given, consumer, broker, history, bounds
<1>16. CASE AutoCommit
    BY <1>16 DEF AutoCommit, CommitIf, Commit, given, consumer, broker, history, bounds
<1>17. CASE Rebalance
    BY <1>17 DEF Rebalance, given, consumer, broker, history, bounds
<1>18. CASE MemoryHigh
    BY <1>18 DEF MemoryHigh, given, consumer, broker, history, bounds
<1>19. CASE MemoryLow
    BY <1>19 DEF MemoryLow, given, consumer, broker, history, bounds
<1>20. CASE Crash
    BY <1>20 DEF Crash, NoClaims, given, consumer, broker, history, bounds
<1>21. CASE UNCHANGED vars
    BY <1>21 DEF vars, given, consumer, broker, history, bounds
<1> QED BY <1>1, <1>2, <1>3, <1>4, <1>5, <1>6, <1>7, <1>8, <1>9, <1>10, <1>11, <1>12, <1>13,
   <1>14, <1>15, <1>16, <1>17, <1>18, <1>19, <1>20, <1>21 DEF Next, Claim

(* Nothing is committed, marked or passed that was not taken. *)
LEMMA CoveredStep == TypeOK /\ InRange /\ CoveredIsDelivered /\ [Next]_vars => CoveredIsDelivered'
PROOF
<1> SUFFICES ASSUME TypeOK, InRange, CoveredIsDelivered, [Next]_vars PROVE CoveredIsDelivered'
    OBVIOUS
<1>a. config' = config
    BY GivenStep DEF TypeOK, given
<1> SUFFICES ASSUME config.after, ~config.onError, config.initial = "earliest",
                    NEW q \in Partitions, NEW o \in Nat, Covered(q, o)'
             PROVE  delivered'[q][o] > 0
    BY <1>a DEF CoveredIsDelivered
<1>b. TypeOK' /\ InRange'
    BY TypeStep, RangeStep
<1>c. o \in Offsets(q)
  <2>1. Messages[q] \in Nat /\ position'[q] \in Nat /\ fetched'[q] \in Nat /\ produced'[q] \in Nat
        /\ marked'[q] \in Int /\ committed'[q] \in Int
      BY <1>b, KafkaAssumption DEF TypeOK
  <2>2. o < produced'[q] /\ produced'[q] <= Messages[q]
      BY <1>b, <2>1 DEF InRange, Covered, Taken, Holding
  <2> QED BY <2>1, <2>2 DEF Offsets
<1>d. Covered(q, o) => delivered[q][o] > 0
    BY DEF CoveredIsDelivered
<1>e. delivered[q][o] \in Nat
    BY <1>c DEF TypeOK
<1> USE <1>c, <1>d, <1>e DEF TypeOK, Covered, Taken, Steps
<1>1. CASE Setup
    BY <1>1 DEF Setup, Join, ToSaramaInitialOffset, given, consumer, broker, history, bounds
<1>2. CASE Cleanup
    BY <1>2 DEF Cleanup, NoClaims, CommitIf, Commit, given, consumer, broker, history, bounds
<1>3. CASE Shutdown
    BY <1>3 DEF Shutdown, given, consumer, broker, history, bounds
<1>4. CASE Stopped
    BY <1>4 DEF Stopped, given, consumer, broker, history, bounds
<1>5. ASSUME NEW p \in Partitions, Receive(p) PROVE delivered'[q][o] > 0
    BY <1>5 DEF Receive, Marked, Go, given, consumer, broker, history, bounds
<1>6. ASSUME NEW p \in Partitions, ReturnNil(p) PROVE delivered'[q][o] > 0
    BY <1>6 DEF ReturnNil, Go, CommitIf, Commit, given, consumer, broker, history, bounds
<1>7. ASSUME NEW p \in Partitions, Consume(p) PROVE delivered'[q][o] > 0
  <2>1. CASE Takes(p)
    <3>1. position[p] \in Offsets(p)
        BY <1>7, PositionIsOffset DEF Consume, Holding
    <3>2. /\ delivered' = [r \in Partitions |-> delivered'[r]]
          /\ \A r \in Partitions : delivered'[r] \in [Offsets(r) -> Nat]
          /\ \A r \in Partitions : r # p => delivered'[r] = delivered[r]
          /\ \A k \in Offsets(p) :
               delivered'[p][k] = IF k = position[p] THEN delivered[p][k] + 1 ELSE delivered[p][k]
        BY <2>1, <3>1, TakesCounts
    <3> QED BY <1>7, <3>1, <3>2 DEF Consume, Fails, Go, given, broker, history
  <2>2. CASE ~Takes(p)
      BY <1>7, <2>2 DEF Consume, Fails, Go, given, broker, history
  <2> QED BY <2>1, <2>2
<1>8. ASSUME NEW p \in Partitions, PauseAll(p) PROVE delivered'[q][o] > 0
    BY <1>8 DEF PauseAll, Go, given, consumer, broker, history, bounds
<1>9. ASSUME NEW p \in Partitions, Retry(p) PROVE delivered'[q][o] > 0
  <2>1. CASE Takes(p)
    <3>1. position[p] \in Offsets(p)
        BY <1>9, PositionIsOffset DEF Retry, Holding
    <3>2. /\ delivered' = [r \in Partitions |-> delivered'[r]]
          /\ \A r \in Partitions : delivered'[r] \in [Offsets(r) -> Nat]
          /\ \A r \in Partitions : r # p => delivered'[r] = delivered[r]
          /\ \A k \in Offsets(p) :
               delivered'[p][k] = IF k = position[p] THEN delivered[p][k] + 1 ELSE delivered[p][k]
        BY <2>1, <3>1, TakesCounts
    <3> QED BY <1>9, <3>1, <3>2 DEF Retry, Fails, Go, given, broker, history
  <2>2. CASE ~Takes(p)
      BY <1>9, <2>2 DEF Retry, Fails, Go, given, broker, history
  <2> QED BY <2>1, <2>2
<1>10. ASSUME NEW p \in Partitions, ResumeAll(p) PROVE delivered'[q][o] > 0
    BY <1>10 DEF ResumeAll, Go, given, consumer, broker, history, bounds
<1>11. ASSUME NEW p \in Partitions, RetryDone(p) PROVE delivered'[q][o] > 0
    BY <1>11 DEF RetryDone, Go, given, consumer, broker, history, bounds
<1>12. ASSUME NEW p \in Partitions, Succeed(p) PROVE delivered'[q][o] > 0
  <2>1. /\ delivered' = delivered
        /\ marked' = [marked EXCEPT ![p] = position[p] + 1]
        /\ position' = [position EXCEPT ![p] = position[p] + 1]
        /\ claim' = [claim EXCEPT ![p] = "select"] /\ claim[p] = "mark"
      BY <1>12 DEF Succeed, MarksDelivered, Marked, Go
  <2>c. \A r \in Partitions : committed'[r] = committed[r] \/ committed'[r] = marked'[r]
    <3>1. PICK marks \in [Partitions -> Nat \cup {-1}] :
            marks = marked' /\ CommitIf(~config.autocommit, marks)
        BY <1>12, CommitsMarked
    <3> QED BY <3>1, CommitMoves DEF GivenOK
  <2>2. Covered(q, o)
    <3>1. CASE q = p
      <4>1. position'[q] = position[q] + 1 /\ marked'[q] = position[q] + 1 /\ claim'[q] = "select"
          BY <2>1, <3>1
      <4>2. position[q] \in Nat /\ o \in Nat /\ marked[q] \in Int /\ committed[q] \in Int
            /\ claim[q] = "mark"
          BY <2>1, <3>1
      <4>3. o < committed[q] \/ o < position[q] + 1
          BY <2>1, <2>c, <4>1
      <4>4. o < committed[q] \/ o < position[q] \/ o = position[q]
          BY ONLY <4>2, <4>3
      <4> QED BY <4>2, <4>4 DEF Covered, Taken
    <3>2. CASE q # p
      <4>1. position'[q] = position[q] /\ marked'[q] = marked[q] /\ claim'[q] = claim[q]
          BY <2>1, <3>2
      <4> QED BY <2>1, <2>c, <4>1
    <3> QED BY <3>1, <3>2
  <2> QED BY <2>1, <2>2
<1>13. ASSUME NEW p \in Partitions, ReturnError(p) PROVE delivered'[q][o] > 0
    BY <1>13 DEF ReturnError, MarksFailed, Marked, Go, CommitIf, Commit, given, consumer, broker,
       history, bounds
<1>14. ASSUME NEW p \in Partitions, Fetch(p) PROVE delivered'[q][o] > 0
    BY <1>14 DEF Fetch, given, consumer, broker, history, bounds
<1>15. ASSUME NEW p \in Partitions, Produce(p) PROVE delivered'[q][o] > 0
    BY <1>15 DEF Produce, given, consumer, broker, history, bounds
<1>16. CASE AutoCommit
    BY <1>16 DEF AutoCommit, CommitIf, Commit, given, consumer, broker, history, bounds
<1>17. CASE Rebalance
    BY <1>17 DEF Rebalance, given, consumer, broker, history, bounds
<1>18. CASE MemoryHigh
    BY <1>18 DEF MemoryHigh, given, consumer, broker, history, bounds
<1>19. CASE MemoryLow
    BY <1>19 DEF MemoryLow, given, consumer, broker, history, bounds
<1>20. CASE Crash
    BY <1>20 DEF Crash, NoClaims, given, consumer, broker, history, bounds
<1>21. CASE UNCHANGED vars
    BY <1>21 DEF vars, given, consumer, broker, history, bounds
<1> QED BY <1>1, <1>2, <1>3, <1>4, <1>5, <1>6, <1>7, <1>8, <1>9, <1>10, <1>11, <1>12, <1>13,
   <1>14, <1>15, <1>16, <1>17, <1>18, <1>19, <1>20, <1>21 DEF Next, Claim

(* Marks are kept. *)
LEMMA MarksStep == TypeOK /\ InRange /\ MarksKept /\ [Next]_vars => MarksKept'
PROOF
<1> SUFFICES ASSUME TypeOK, InRange, MarksKept, [Next]_vars PROVE MarksKept'
    OBVIOUS
<1> USE KafkaAssumption DEF TypeOK, InRange, MarksKept, Holding, Steps
<1>1. CASE Setup
    BY <1>1 DEF Setup, Join, ToSaramaInitialOffset, given, consumer, broker, history, bounds
<1>2. CASE Cleanup
    BY <1>2 DEF Cleanup, NoClaims, CommitIf, Commit, given, consumer, broker, history, bounds
<1>3. CASE Shutdown
    BY <1>3 DEF Shutdown, given, consumer, broker, history, bounds
<1>4. CASE Stopped
    BY <1>4 DEF Stopped, given, consumer, broker, history, bounds
<1>5. ASSUME NEW p \in Partitions, Receive(p) PROVE MarksKept'
    BY <1>5 DEF Receive, Marked, Go, given, consumer, broker, history, bounds
<1>6. ASSUME NEW p \in Partitions, ReturnNil(p) PROVE MarksKept'
    BY <1>6 DEF ReturnNil, Go, CommitIf, Commit, given, consumer, broker, history, bounds
<1>7. ASSUME NEW p \in Partitions, Consume(p) PROVE MarksKept'
    BY <1>7 DEF Consume, Takes, Fails, Go, given, consumer, broker, history, bounds
<1>8. ASSUME NEW p \in Partitions, PauseAll(p) PROVE MarksKept'
    BY <1>8 DEF PauseAll, Go, given, consumer, broker, history, bounds
<1>9. ASSUME NEW p \in Partitions, Retry(p) PROVE MarksKept'
    BY <1>9 DEF Retry, Takes, Fails, Go, given, consumer, broker, history, bounds
<1>10. ASSUME NEW p \in Partitions, ResumeAll(p) PROVE MarksKept'
    BY <1>10 DEF ResumeAll, Go, given, consumer, broker, history, bounds
<1>11. ASSUME NEW p \in Partitions, RetryDone(p) PROVE MarksKept'
    BY <1>11 DEF RetryDone, Go, given, consumer, broker, history, bounds
<1>12. ASSUME NEW p \in Partitions, Succeed(p) PROVE MarksKept'
    BY <1>12 DEF Succeed, MarksDelivered, Marked, Go, CommitIf, Commit, given, consumer, broker,
       history, bounds
<1>13. ASSUME NEW p \in Partitions, ReturnError(p) PROVE MarksKept'
    BY <1>13 DEF ReturnError, MarksFailed, Marked, Go, CommitIf, Commit, given, consumer, broker,
       history, bounds
<1>14. ASSUME NEW p \in Partitions, Fetch(p) PROVE MarksKept'
    BY <1>14 DEF Fetch, given, consumer, broker, history, bounds
<1>15. ASSUME NEW p \in Partitions, Produce(p) PROVE MarksKept'
    BY <1>15 DEF Produce, given, consumer, broker, history, bounds
<1>16. CASE AutoCommit
    BY <1>16 DEF AutoCommit, CommitIf, Commit, given, consumer, broker, history, bounds
<1>17. CASE Rebalance
    BY <1>17 DEF Rebalance, given, consumer, broker, history, bounds
<1>18. CASE MemoryHigh
    BY <1>18 DEF MemoryHigh, given, consumer, broker, history, bounds
<1>19. CASE MemoryLow
    BY <1>19 DEF MemoryLow, given, consumer, broker, history, bounds
<1>20. CASE Crash
    BY <1>20 DEF Crash, NoClaims, given, consumer, broker, history, bounds
<1>21. CASE UNCHANGED vars
    BY <1>21 DEF vars, given, consumer, broker, history, bounds
<1> QED BY <1>1, <1>2, <1>3, <1>4, <1>5, <1>6, <1>7, <1>8, <1>9, <1>10, <1>11, <1>12, <1>13,
   <1>14, <1>15, <1>16, <1>17, <1>18, <1>19, <1>20, <1>21 DEF Next, Claim

(* Nothing is taken that is not behind, so nothing is taken twice. *)
LEMMA BehindStep ==
    TypeOK /\ InRange /\ ClaimsOfSession /\ MarksKept /\ DeliveredIsBehind /\ [Next]_vars =>
        DeliveredIsBehind'
PROOF
<1> SUFFICES ASSUME TypeOK, InRange, ClaimsOfSession, MarksKept, DeliveredIsBehind,
                    [Next]_vars
             PROVE  DeliveredIsBehind'
    OBVIOUS
<1> SUFFICES ASSUME NEW q \in Partitions, NEW o \in Offsets(q)
             PROVE  delivered'[q][o] <=
                      (IF Behind(q, o)' THEN 1 ELSE 0) + crashes' + losses'
    BY DEF DeliveredIsBehind
<1>d. delivered[q][o] <= (IF Behind(q, o) THEN 1 ELSE 0) + crashes + losses
    BY DEF DeliveredIsBehind
<1>e. delivered[q][o] \in Nat /\ o \in Nat
  <2>1. Messages[q] \in Nat
      BY KafkaAssumption
  <2> QED BY <2>1 DEF TypeOK, Offsets
<1> USE <1>d, <1>e DEF TypeOK, InRange, ClaimsOfSession, MarksKept, Behind, Taken,
       Holding, Steps
<1>1. CASE Setup
    BY <1>1 DEF Setup, Join, ToSaramaInitialOffset, given, consumer, broker, history, bounds
<1>2. CASE Cleanup
    BY <1>2 DEF Cleanup, NoClaims, CommitIf, Commit, given, consumer, broker, history, bounds
<1>3. CASE Shutdown
    BY <1>3 DEF Shutdown, given, consumer, broker, history, bounds
<1>4. CASE Stopped
    BY <1>4 DEF Stopped, given, consumer, broker, history, bounds
<1>5. ASSUME NEW p \in Partitions, Receive(p)
      PROVE  delivered'[q][o] <=
               (IF Behind(q, o)' THEN 1 ELSE 0) + crashes' + losses'
    BY <1>5 DEF Receive, Marked, Go, given, consumer, broker, history, bounds
<1>6. ASSUME NEW p \in Partitions, ReturnNil(p)
      PROVE  delivered'[q][o] <=
               (IF Behind(q, o)' THEN 1 ELSE 0) + crashes' + losses'
    BY <1>6 DEF ReturnNil, Go, CommitIf, Commit, given, consumer, broker, history, bounds
<1>7. ASSUME NEW p \in Partitions, Consume(p)
      PROVE  delivered'[q][o] <=
               (IF Behind(q, o)' THEN 1 ELSE 0) + crashes' + losses'
  <2>1. CASE Takes(p)
    <3>1. position[p] \in Offsets(p)
        BY <1>7, PositionIsOffset DEF Consume, Holding
    <3>2. /\ delivered' = [r \in Partitions |-> delivered'[r]]
          /\ \A r \in Partitions : delivered'[r] \in [Offsets(r) -> Nat]
          /\ \A r \in Partitions : r # p => delivered'[r] = delivered[r]
          /\ \A k \in Offsets(p) :
               delivered'[p][k] = IF k = position[p] THEN delivered[p][k] + 1 ELSE delivered[p][k]
        BY <2>1, <3>1, TakesCounts
    <3> QED BY <1>7, <3>1, <3>2 DEF Consume, Fails, Go, given, broker, history
  <2>2. CASE ~Takes(p)
      BY <1>7, <2>2 DEF Consume, Fails, Go, given, broker, history
  <2> QED BY <2>1, <2>2
<1>8. ASSUME NEW p \in Partitions, PauseAll(p)
      PROVE  delivered'[q][o] <=
               (IF Behind(q, o)' THEN 1 ELSE 0) + crashes' + losses'
    BY <1>8 DEF PauseAll, Go, given, consumer, broker, history, bounds
<1>9. ASSUME NEW p \in Partitions, Retry(p)
      PROVE  delivered'[q][o] <=
               (IF Behind(q, o)' THEN 1 ELSE 0) + crashes' + losses'
  <2>1. CASE Takes(p)
    <3>1. position[p] \in Offsets(p)
        BY <1>9, PositionIsOffset DEF Retry, Holding
    <3>2. /\ delivered' = [r \in Partitions |-> delivered'[r]]
          /\ \A r \in Partitions : delivered'[r] \in [Offsets(r) -> Nat]
          /\ \A r \in Partitions : r # p => delivered'[r] = delivered[r]
          /\ \A k \in Offsets(p) :
               delivered'[p][k] = IF k = position[p] THEN delivered[p][k] + 1 ELSE delivered[p][k]
        BY <2>1, <3>1, TakesCounts
    <3>a. delivered' # delivered
      <4>1. delivered[p][position[p]] \in Nat
          BY <3>1
      <4>2. delivered'[p][position[p]] = delivered[p][position[p]] + 1
          BY <3>1, <3>2
      <4> QED BY <4>1, <4>2
    <3>3. /\ UNCHANGED <<session, position, marked, committed, crashes, losses>>
          /\ claim' = [claim EXCEPT ![p] = "resume"]
          /\ claim[p] = "retry" /\ session # "none"
        BY <1>9, <3>a DEF Retry, Go, given, broker, history
    <3> QED BY <3>1, <3>2, <3>3
  <2>2. CASE ~Takes(p)
      BY <1>9, <2>2 DEF Retry, Fails, Go, given, broker, history
  <2> QED BY <2>1, <2>2
<1>10. ASSUME NEW p \in Partitions, ResumeAll(p)
      PROVE  delivered'[q][o] <=
               (IF Behind(q, o)' THEN 1 ELSE 0) + crashes' + losses'
    BY <1>10 DEF ResumeAll, Go, given, consumer, broker, history, bounds
<1>11. ASSUME NEW p \in Partitions, RetryDone(p)
      PROVE  delivered'[q][o] <=
               (IF Behind(q, o)' THEN 1 ELSE 0) + crashes' + losses'
    BY <1>11 DEF RetryDone, Go, given, consumer, broker, history, bounds
<1>12. ASSUME NEW p \in Partitions, Succeed(p)
      PROVE  delivered'[q][o] <=
               (IF Behind(q, o)' THEN 1 ELSE 0) + crashes' + losses'
    BY <1>12 DEF Succeed, MarksDelivered, Marked, Go, CommitIf, Commit, given, consumer, broker,
       history, bounds
<1>13. ASSUME NEW p \in Partitions, ReturnError(p)
      PROVE  delivered'[q][o] <=
               (IF Behind(q, o)' THEN 1 ELSE 0) + crashes' + losses'
    BY <1>13 DEF ReturnError, MarksFailed, Marked, Go, CommitIf, Commit, given, consumer, broker,
       history, bounds
<1>14. ASSUME NEW p \in Partitions, Fetch(p)
      PROVE  delivered'[q][o] <=
               (IF Behind(q, o)' THEN 1 ELSE 0) + crashes' + losses'
    BY <1>14 DEF Fetch, given, consumer, broker, history, bounds
<1>15. ASSUME NEW p \in Partitions, Produce(p)
      PROVE  delivered'[q][o] <=
               (IF Behind(q, o)' THEN 1 ELSE 0) + crashes' + losses'
    BY <1>15 DEF Produce, given, consumer, broker, history, bounds
<1>16. CASE AutoCommit
    BY <1>16 DEF AutoCommit, CommitIf, Commit, given, consumer, broker, history, bounds
<1>17. CASE Rebalance
    BY <1>17 DEF Rebalance, given, consumer, broker, history, bounds
<1>18. CASE MemoryHigh
    BY <1>18 DEF MemoryHigh, given, consumer, broker, history, bounds
<1>19. CASE MemoryLow
    BY <1>19 DEF MemoryLow, given, consumer, broker, history, bounds
<1>20. CASE Crash
    BY <1>20 DEF Crash, NoClaims, given, consumer, broker, history, bounds
<1>21. CASE UNCHANGED vars
    BY <1>21 DEF vars, given, consumer, broker, history, bounds
<1> QED BY <1>1, <1>2, <1>3, <1>4, <1>5, <1>6, <1>7, <1>8, <1>9, <1>10, <1>11, <1>12, <1>13,
   <1>14, <1>15, <1>16, <1>17, <1>18, <1>19, <1>20, <1>21 DEF Next, Claim

(* A pause is watched. *)
LEMMA WatchedStep == TypeOK /\ PausedIsWatched /\ [Next]_vars => PausedIsWatched'
PROOF
<1> SUFFICES ASSUME TypeOK, PausedIsWatched, [Next]_vars PROVE PausedIsWatched'
    OBVIOUS
<1> USE KafkaAssumption DEF TypeOK, PausedIsWatched, Steps
<1>1. CASE Setup
    BY <1>1 DEF Setup, Join, ToSaramaInitialOffset, given, consumer, broker, history, bounds
<1>2. CASE Cleanup
    BY <1>2 DEF Cleanup, NoClaims, CommitIf, Commit, given, consumer, broker, history, bounds
<1>3. CASE Shutdown
    BY <1>3 DEF Shutdown, given, consumer, broker, history, bounds
<1>4. CASE Stopped
    BY <1>4 DEF Stopped, given, consumer, broker, history, bounds
<1>5. ASSUME NEW p \in Partitions, Receive(p) PROVE PausedIsWatched'
    BY <1>5 DEF Receive, Marked, Go, given, consumer, broker, history, bounds
<1>6. ASSUME NEW p \in Partitions, ReturnNil(p) PROVE PausedIsWatched'
    BY <1>6 DEF ReturnNil, Go, CommitIf, Commit, given, consumer, broker, history, bounds
<1>7. ASSUME NEW p \in Partitions, Consume(p) PROVE PausedIsWatched'
    BY <1>7 DEF Consume, Takes, Fails, Go, given, consumer, broker, history, bounds
<1>8. ASSUME NEW p \in Partitions, PauseAll(p) PROVE PausedIsWatched'
    BY <1>8 DEF PauseAll, Go, given, consumer, broker, history, bounds
<1>9. ASSUME NEW p \in Partitions, Retry(p) PROVE PausedIsWatched'
    BY <1>9 DEF Retry, Takes, Fails, Go, given, consumer, broker, history, bounds
<1>10. ASSUME NEW p \in Partitions, ResumeAll(p) PROVE PausedIsWatched'
    BY <1>10 DEF ResumeAll, Go, given, consumer, broker, history, bounds
<1>11. ASSUME NEW p \in Partitions, RetryDone(p) PROVE PausedIsWatched'
    BY <1>11 DEF RetryDone, Go, given, consumer, broker, history, bounds
<1>12. ASSUME NEW p \in Partitions, Succeed(p) PROVE PausedIsWatched'
    BY <1>12 DEF Succeed, MarksDelivered, Marked, Go, CommitIf, Commit, given, consumer, broker,
       history, bounds
<1>13. ASSUME NEW p \in Partitions, ReturnError(p) PROVE PausedIsWatched'
    BY <1>13 DEF ReturnError, MarksFailed, Marked, Go, CommitIf, Commit, given, consumer, broker,
       history, bounds
<1>14. ASSUME NEW p \in Partitions, Fetch(p) PROVE PausedIsWatched'
    BY <1>14 DEF Fetch, given, consumer, broker, history, bounds
<1>15. ASSUME NEW p \in Partitions, Produce(p) PROVE PausedIsWatched'
    BY <1>15 DEF Produce, given, consumer, broker, history, bounds
<1>16. CASE AutoCommit
    BY <1>16 DEF AutoCommit, CommitIf, Commit, given, consumer, broker, history, bounds
<1>17. CASE Rebalance
    BY <1>17 DEF Rebalance, given, consumer, broker, history, bounds
<1>18. CASE MemoryHigh
    BY <1>18 DEF MemoryHigh, given, consumer, broker, history, bounds
<1>19. CASE MemoryLow
    BY <1>19 DEF MemoryLow, given, consumer, broker, history, bounds
<1>20. CASE Crash
    BY <1>20 DEF Crash, NoClaims, given, consumer, broker, history, bounds
<1>21. CASE UNCHANGED vars
    BY <1>21 DEF vars, given, consumer, broker, history, bounds
<1> QED BY <1>1, <1>2, <1>3, <1>4, <1>5, <1>6, <1>7, <1>8, <1>9, <1>10, <1>11, <1>12, <1>13,
   <1>14, <1>15, <1>16, <1>17, <1>18, <1>19, <1>20, <1>21 DEF Next, Claim

-----------------------------------------------------------------------------
(* The inductive invariant of the receiver. *)
IInv ==
  /\ TypeOK /\ InRange /\ ClaimsOfSession /\ CoveredIsDelivered /\ MarksKept
  /\ DeliveredIsBehind /\ PausedIsWatched

(* It holds when the process starts. *)
LEMMA InitInvariant == Init => IInv
PROOF
<1> SUFFICES ASSUME Init PROVE IInv
    OBVIOUS
<1> USE KafkaAssumption DEF Init
<1>1. TypeOK
  <2>1. GivenOK
    <3>1. PICK start \in Starts : config = start[1] /\ content = start[2]
        OBVIOUS
    <3> QED BY <3>1 DEF GivenOK
  <2> QED BY <2>1 DEF TypeOK, Steps
<1>2. InRange /\ ClaimsOfSession /\ MarksKept /\ PausedIsWatched
    BY DEF InRange, ClaimsOfSession, MarksKept, PausedIsWatched, Holding
<1>3. CoveredIsDelivered
    BY DEF CoveredIsDelivered, Covered, Taken
<1>4. DeliveredIsBehind
    BY DEF DeliveredIsBehind
<1> QED BY <1>1, <1>2, <1>3, <1>4 DEF IInv

(* Every behaviour of the receiver satisfies it. *)
THEOREM Invariant == Spec => []IInv
PROOF
<1>1. IInv /\ [Next]_vars => IInv'
    BY TypeStep, RangeStep, ClaimsStep, CoveredStep, MarksStep, BehindStep, WatchedStep DEF IInv
<1> QED BY <1>1, InitInvariant, PTL DEF Spec

(* The variables keep their types: every offset a claim, a mark or a       *)
(* commit names is one of its partition.                                   *)
THEOREM TypeCorrect == Spec => [](TypeOK /\ InRange)
PROOF
<1>1. IInv => TypeOK /\ InRange
    BY DEF IInv
<1> QED BY <1>1, Invariant, PTL

(* At least once: with messages marked after the pipeline and on success   *)
(* only, every message below a committed offset has been taken by the next *)
(* consumer, whatever ended the sessions in between.                       *)
THEOREM CommittedIsDelivered == Spec => []AtLeastOnce
PROOF
<1>1. ASSUME IInv PROVE AtLeastOnce
  <2> SUFFICES ASSUME config.after, ~config.onError, config.initial = "earliest",
                      NEW p \in Partitions, NEW o \in 0..(committed[p] - 1)
               PROVE  delivered[p][o] > 0
      BY DEF AtLeastOnce
  <2>1. committed[p] \in Int
      BY <1>1 DEF IInv, TypeOK
  <2>2. o \in Nat /\ o < committed[p]
      BY <2>1
  <2> QED BY <1>1, <2>2 DEF IInv, CoveredIsDelivered, Covered
<1> QED BY <1>1, Invariant, PTL

(* No unaccounted repeats: whatever the configuration and the messages,    *)
(* each one is taken at most once more than the process has crashed and    *)
(* sessions have ended with their last commit failed.                      *)
THEOREM RepeatsAreAccountedFor == Spec => []RepeatsAccountedFor
PROOF
<1>1. ASSUME IInv PROVE RepeatsAccountedFor
  <2> SUFFICES ASSUME NEW p \in Partitions, NEW o \in DOMAIN delivered[p]
               PROVE  delivered[p][o] <= 1 + crashes + losses
      BY DEF RepeatsAccountedFor
  <2>1. o \in Offsets(p) /\ delivered[p][o] \in Nat /\ crashes \in Nat /\ losses \in Nat
      BY <1>1 DEF IInv, TypeOK
  <2> QED BY <1>1, <2>1 DEF IInv, DeliveredIsBehind
<1> QED BY <1>1, Invariant, PTL

(* A group that is paused in a live session has a claim in the retry loop  *)
(* of the memory limiter, or on its way to resume the group.               *)
THEOREM PausesAreWatched == Spec => []PausedIsWatched
PROOF
<1>1. IInv => PausedIsWatched
    BY DEF IInv
<1> QED BY <1>1, Invariant, PTL
=============================================================================
