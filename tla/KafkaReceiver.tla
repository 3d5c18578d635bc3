--------------------------- MODULE KafkaReceiver ---------------------------
(***************************************************************************)
(* The Kafka receiver (signozkafkareceiver/kafka_receiver.go).  The        *)
(* traces, metrics and logs consumers are three copies of one consumer,    *)
(* which is modelled once: a loop that joins the consumer group, one       *)
(* ConsumeClaim per partition, and a memory limiter around the next        *)
(* consumer that pauses the whole group while the pipeline refuses data.   *)
(*                                                                         *)
(* The group, its sessions, its partition consumers and its offset manager *)
(* are sarama's, modelled from their use here: a session starts every      *)
(* claim at the committed offset, ends as a whole as soon as one claim     *)
(* returns, and closes its partition consumers, paused or not.  A commit   *)
(* may fail, at a rebalance or a timeout; the session goes on, and the     *)
(* offsets are lost with it unless a later commit takes them along.        *)
(***************************************************************************)
EXTENDS Integers, FiniteSets

CONSTANTS
  Partitions,
  Starts,         \* the configurations and topics to start from
  Messages,       \* how many messages are produced to each partition
  MaxBuffer,      \* messages fetched ahead of a claim
  MaxCrashes,     \* bound on crashes of the process
  MaxEnds,        \* bound on rebalances, passing errors and failing commits
  MaxHigh         \* bound on the times memory runs high

ASSUME KafkaAssumption ==
  /\ Messages \in [Partitions -> Nat] /\ MaxBuffer \in Nat \ {0}
  /\ MaxCrashes \in Nat /\ MaxEnds \in Nat /\ MaxHigh \in Nat
  /\ Starts \subseteq [autocommit : BOOLEAN, after : BOOLEAN, onError : BOOLEAN,
                       initial : {"earliest", "latest"}]
                   \X [malformed : SUBSET (Partitions \X Nat),
                       rejected : SUBSET (Partitions \X Nat)]

VARIABLES
  config,     \* the receiver's configuration
  content,    \* the messages that do not unmarshal, or that the pipeline
              \* answers with a permanent error
  receiver,   \* "starting", "started", "stopping", "stopped"
  session,    \* the group session: "none", "live", "done" (context cancelled)
  claim,      \* the place of every ConsumeClaim
  position,   \* the offset of the message a claim works on or reads next
  fetched,    \* the messages waiting in claim.Messages()
  paused,     \* the partitions whose partition consumer is paused
  marked,     \* the offsets the session has marked
  produced,   \* broker: messages of every partition
  committed,  \* broker: committed offset of every partition, -1 for none
  delivered,  \* how often the next consumer has taken each message
  high,       \* the pipeline refuses data because memory is high
  unflushed,  \* history: the session's last commit has failed
  losses,     \* history: sessions that ended with their last commit failed
  crashes, ends, highs

given    == <<config, content>>
consumer == <<receiver, session, claim, position, fetched, paused, marked>>
broker   == <<produced, committed>>
history  == <<unflushed, losses>>
bounds   == <<crashes, ends, highs>>
vars     == <<given, consumer, broker, delivered, high, history, bounds>>

Offsets(p) == 0..(Messages[p] - 1)

Init ==
  /\ \E start \in Starts : config = start[1] /\ content = start[2]
  /\ receiver = "starting" /\ session = "none"
  /\ claim = [p \in Partitions |-> "none"]
  /\ position = [p \in Partitions |-> 0]
  /\ fetched = [p \in Partitions |-> 0]
  /\ paused = {}
  /\ marked = [p \in Partitions |-> -1]
  /\ produced = [p \in Partitions |-> 0]
  /\ committed = [p \in Partitions |-> -1]
  /\ delivered = [p \in Partitions |-> [o \in Offsets(p) |-> 0]]
  /\ high = FALSE
  /\ unflushed = FALSE /\ losses = 0
  /\ crashes = 0 /\ ends = 0 /\ highs = 0

(* The claims, the partition consumers and the marks go with their session. *)
NoClaims ==
  /\ claim' = [p \in Partitions |-> "none"]
  /\ position' = [p \in Partitions |-> 0]
  /\ fetched' = [p \in Partitions |-> 0]
  /\ paused' = {}
  /\ marked' = [p \in Partitions |-> -1]

Go(p, step) == claim' = [claim EXCEPT ![p] = step]

(* The offset manager sends all marks to the broker.  A commit that fails   *)
(* may have been carried out, for some partitions or for all of them.       *)
Commit(marks) ==
  \/ committed' = marks /\ unflushed' = FALSE /\ UNCHANGED ends
  \/ /\ committed # marks /\ ends < MaxEnds
     /\ \E kept \in SUBSET Partitions :
          committed' = [p \in Partitions |-> IF p \in kept THEN marks[p] ELSE committed[p]]
     /\ unflushed' = TRUE /\ ends' = ends + 1

CommitIf(enabled, marks) ==
  IF enabled THEN Commit(marks) ELSE UNCHANGED <<committed, unflushed, ends>>

----------------------------------------------------------------------------
(* The receiver's life and the consume loop around the group's Consume.     *)

(* Where a partition without a committed offset is read from: the offset    *)
(* is looked up anew by every session.                                      *)
ToSaramaInitialOffset(p) == IF config.initial = "earliest" THEN 0 ELSE produced[p]

(* The loop of consumeLoop enters Consume: the session is set up, which     *)
(* closes ready and lets Start return, and every claim starts with a new    *)
(* partition consumer.                                                      *)
Join(states) ==
  /\ session = "none" /\ receiver \in states
  /\ session' = "live"
  /\ receiver' = "started"
  /\ claim' = [p \in Partitions |-> "select"]
  /\ position' = [p \in Partitions |->
                    IF committed[p] >= 0 THEN committed[p] ELSE ToSaramaInitialOffset(p)]
  /\ marked' = committed /\ unflushed' = FALSE
  /\ fetched' = [p \in Partitions |-> 0] /\ paused' = {}
  /\ UNCHANGED <<given, broker, delivered, high, losses, bounds>>

SetupOnce == Join({"starting"})

Setup == Join({"starting", "started"})

(* Every claim has returned: Cleanup, the offset manager's last flush and   *)
(* the end of Consume.  A cancelled loop context ends the loop, with it     *)
(* goes the group.                                                          *)
Cleanup ==
  /\ session # "none" /\ \A p \in Partitions : claim[p] = "returned"
  /\ session' = "none"
  /\ NoClaims
  /\ CommitIf(config.autocommit, marked)
  /\ losses' = IF unflushed' THEN losses + 1 ELSE losses
  /\ UNCHANGED <<given, receiver, produced, delivered, high, crashes, highs>>

(* Shutdown cancels the loop's context, which is the parent of the          *)
(* session's; closing the group waits for Consume to return.                *)
Shutdown ==
  /\ receiver = "started"
  /\ receiver' = "stopping"
  /\ session' = IF session = "live" THEN "done" ELSE session
  /\ UNCHANGED <<given, claim, position, fetched, paused, marked, broker, delivered, high,
                 history, bounds>>

Stopped ==
  /\ receiver = "stopping" /\ session = "none"
  /\ receiver' = "stopped"
  /\ UNCHANGED <<given, session, claim, position, fetched, paused, marked, broker, delivered,
                 high, history, bounds>>

----------------------------------------------------------------------------
(* ConsumeClaim and WithMemoryLimiter.                                      *)

Marked(p) == [marked EXCEPT ![p] = position[p] + 1]

(* A message is read from the claim and marked now unless it is to be       *)
(* marked after the pipeline.  A cancelled session may still win the select.*)
Receive(p) ==
  /\ claim[p] = "select" /\ fetched[p] > 0
  /\ fetched' = [fetched EXCEPT ![p] = @ - 1]
  /\ marked' = IF config.after THEN marked ELSE Marked(p)
  /\ Go(p, "consume")
  /\ UNCHANGED <<given, receiver, session, position, paused, broker, delivered, high, history,
                 bounds>>

(* The claim returns without an error when its channel is closed or the     *)
(* session's context is done; the deferred Commit runs.                     *)
ReturnNil(p) ==
  /\ claim[p] = "select" /\ session = "done"
  /\ Go(p, "returned")
  /\ CommitIf(~config.autocommit, marked)
  /\ UNCHANGED <<given, receiver, session, position, fetched, paused, marked, produced, delivered,
                 high, losses, crashes, highs>>

(* The pipeline takes a message, or answers it with an error: with a        *)
(* permanent one whenever it sees the message, or with one that passes.     *)
Takes(p) ==
  /\ ~high /\ <<p, position[p]>> \notin content.rejected
  /\ delivered' = [delivered EXCEPT ![p][position[p]] = @ + 1]
Fails(p) ==
  \/ ~high /\ <<p, position[p]>> \in content.rejected /\ UNCHANGED ends
  \/ ends < MaxEnds /\ ends' = ends + 1

(* The message is unmarshalled and given to the next consumer, which takes  *)
(* it, refuses it for memory, or fails.                                     *)
Unmarshals(p) == <<p, position[p]>> \notin content.malformed

Consume(p) ==
  /\ claim[p] = "consume"
  /\ \/ Unmarshals(p) /\ Takes(p) /\ Go(p, "mark") /\ UNCHANGED ends
     \/ Unmarshals(p) /\ high /\ Go(p, "pause") /\ UNCHANGED <<delivered, ends>>
     \/ Unmarshals(p) /\ Fails(p) /\ Go(p, "fail") /\ UNCHANGED delivered
     \/ ~Unmarshals(p) /\ Go(p, "fail") /\ UNCHANGED <<delivered, ends>>
  /\ UNCHANGED <<given, receiver, session, position, fetched, paused, marked, broker, high, history,
                 crashes, highs>>

PauseAll(p) ==
  /\ claim[p] = "pause"
  /\ paused' = Partitions
  /\ Go(p, "retry")
  /\ UNCHANGED <<given, receiver, session, position, fetched, marked, broker, delivered, high,
                 history, bounds>>

(* The ticker of the retry loop: the same call again.                       *)
Retry(p) ==
  /\ claim[p] = "retry"
  /\ \/ Takes(p) /\ Go(p, "resume") /\ UNCHANGED ends
     \/ Fails(p) /\ Go(p, "resumeFail") /\ UNCHANGED delivered
  /\ UNCHANGED <<given, receiver, session, position, fetched, paused, marked, broker, high, history,
                 crashes, highs>>

ResumeAllOnError(p) ==
  /\ claim[p] \in {"resume", "resumeFail"}
  /\ paused' = IF claim[p] = "resume" THEN paused ELSE {}
  /\ Go(p, IF claim[p] = "resume" THEN "mark" ELSE "fail")
  /\ UNCHANGED <<given, receiver, session, position, fetched, marked, broker, delivered, high,
                 history, bounds>>

ResumeAll(p) ==
  /\ claim[p] \in {"resume", "resumeFail"}
  /\ paused' = {}
  /\ Go(p, IF claim[p] = "resume" THEN "mark" ELSE "fail")
  /\ UNCHANGED <<given, receiver, session, position, fetched, marked, broker, delivered, high,
                 history, bounds>>

(* The session ends while the claim applies back pressure: the loop returns *)
(* the context's error and leaves the group paused.                         *)
RetryDone(p) ==
  /\ claim[p] = "retry" /\ session = "done"
  /\ Go(p, "fail")
  /\ UNCHANGED <<given, receiver, session, position, fetched, paused, marked, broker, delivered,
                 high, history, bounds>>

(* Whether a message is marked once the pipeline has taken it.              *)
MarksDeliveredOnError == config.after /\ config.onError

MarksDelivered == config.after

(* Success: the message is marked if it was not before, and committed when  *)
(* nothing commits by itself.                                               *)
Succeed(p) ==
  /\ claim[p] = "mark"
  /\ marked' = IF MarksDelivered THEN Marked(p) ELSE marked
  /\ CommitIf(~config.autocommit, marked')
  /\ position' = [position EXCEPT ![p] = @ + 1]
  /\ Go(p, "select")
  /\ UNCHANGED <<given, receiver, session, fetched, paused, produced, delivered, high, losses,
                 crashes, highs>>

(* Whether a message that failed counts as consumed.                        *)
MarksFailedAlways == config.after

MarksFailedNever == FALSE

MarksFailed == config.after /\ config.onError

(* Failure: the claim returns the error, the session ends with it; the      *)
(* deferred Commit runs.                                                    *)
ReturnError(p) ==
  /\ claim[p] = "fail"
  /\ marked' = IF MarksFailed THEN Marked(p) ELSE marked
  /\ CommitIf(~config.autocommit, marked')
  /\ session' = "done"
  /\ Go(p, "returned")
  /\ UNCHANGED <<given, receiver, position, fetched, paused, produced, delivered, high, losses,
                 crashes, highs>>

----------------------------------------------------------------------------
(* sarama, the broker and the pipeline's memory.                            *)

Fetch(p) ==
  /\ session = "live" /\ p \notin paused /\ claim[p] # "returned"
  /\ fetched[p] < MaxBuffer
  /\ position[p] + (IF claim[p] = "select" THEN 0 ELSE 1) + fetched[p] < produced[p]
  /\ fetched' = [fetched EXCEPT ![p] = @ + 1]
  /\ UNCHANGED <<given, receiver, session, claim, position, paused, marked, broker, delivered,
                 high, history, bounds>>

AutoCommit ==
  /\ session # "none" /\ config.autocommit /\ committed # marked
  /\ Commit(marked)
  /\ UNCHANGED <<given, consumer, produced, delivered, high, losses, crashes, highs>>

Rebalance ==
  /\ session = "live" /\ ends < MaxEnds
  /\ session' = "done" /\ ends' = ends + 1
  /\ UNCHANGED <<given, receiver, claim, position, fetched, paused, marked, broker, delivered, high,
                 history, crashes, highs>>

Produce(p) ==
  /\ produced[p] < Messages[p]
  /\ produced' = [produced EXCEPT ![p] = @ + 1]
  /\ UNCHANGED <<given, consumer, committed, delivered, high, history, bounds>>

MemoryHigh ==
  /\ ~high /\ highs < MaxHigh
  /\ high' = TRUE /\ highs' = highs + 1
  /\ UNCHANGED <<given, consumer, broker, delivered, history, crashes, ends>>

MemoryLow ==
  /\ high /\ high' = FALSE
  /\ UNCHANGED <<given, consumer, broker, delivered, history, bounds>>

(* The process dies and is started again.                                   *)
Crash ==
  /\ receiver # "stopped" /\ crashes < MaxCrashes
  /\ crashes' = crashes + 1
  /\ receiver' = "starting" /\ session' = "none"
  /\ NoClaims
  /\ UNCHANGED <<given, broker, delivered, high, history, ends, highs>>

----------------------------------------------------------------------------
Claim(p) ==
  \/ Receive(p) \/ ReturnNil(p) \/ Consume(p) \/ PauseAll(p) \/ Retry(p)
  \/ ResumeAll(p) \/ RetryDone(p) \/ Succeed(p) \/ ReturnError(p)

Next ==
  \/ Setup \/ Cleanup \/ Shutdown \/ Stopped
  \/ \E p \in Partitions : Claim(p) \/ Fetch(p) \/ Produce(p)
  \/ AutoCommit \/ Rebalance \/ MemoryHigh \/ MemoryLow \/ Crash

(* Goroutines run, the broker serves fetches and joins, and memory does not *)
(* stay high; nothing forces a shutdown, a rebalance, an error or a crash.  *)
Fairness ==
  /\ WF_vars(Setup) /\ WF_vars(Cleanup) /\ WF_vars(Stopped) /\ WF_vars(MemoryLow)
  /\ \A p \in Partitions : WF_vars(Claim(p)) /\ WF_vars(Fetch(p))

Spec == Init /\ [][Next]_vars /\ Fairness

----------------------------------------------------------------------------
(* Messages marked after the pipeline and only when it succeeded: an offset *)
(* the broker holds as committed has every message below it delivered,      *)
(* whatever rebalances, refusals, failures and crashes came between.        *)
AtLeastOnce ==
  config.after /\ ~config.onError /\ config.initial = "earliest" =>
    \A p \in Partitions : \A o \in 0..(committed[p] - 1) : delivered[p][o] > 0

(* Nothing but a crash, or a session whose last commit failed, makes the    *)
(* pipeline take a message again, and each of them once more at the most:   *)
(* a session that ends commits what its claims delivered, and the retries   *)
(* of the memory limiter deliver nothing twice.                             *)
RepeatsAccountedFor ==
  \A p \in Partitions : \A o \in DOMAIN delivered[p] :
    delivered[p][o] <= 1 + crashes + losses

(* A partition of a live session stays paused only while some claim applies *)
(* back pressure and will resume the group: interleaved pauses and resumes  *)
(* of several claims leave nothing paused for good.                         *)
PausedIsWatched ==
  session = "live" /\ paused # {} =>
    \E p \in Partitions : claim[p] \in {"retry", "resume", "resumeFail"}

(* Messages are marked on success only: such a partition is held up by a    *)
(* message that never passes.                                               *)
Blocking == config.after /\ ~config.onError

NeverPasses == content.malformed \cup content.rejected

(* With messages marked on success only, every message of a receiver that   *)
(* keeps running is delivered in the end: pauses are lifted, sessions come  *)
(* back after errors, rebalances and crashes, and none skips a message.     *)
(* What waits behind a message that never passes is not promised, nor what  *)
(* is in another partition: the sessions that message ends are theirs too.  *)
EveryMessageDelivered ==
  Blocking /\ config.initial = "earliest" =>
    \A p \in Partitions : \A o \in Offsets(p) :
      produced[p] > o ~>
        \/ delivered[p][o] > 0
        \/ \E m \in NeverPasses : m[1] # p \/ m[2] <= o
        \/ receiver \in {"stopping", "stopped"}

(* In every other configuration no message holds up its partition, what is  *)
(* malformed and what the pipeline rejects for good included: the receiver  *)
(* gets past each one, with whatever it costs in sessions and retries.      *)
NothingBlocks ==
  ~Blocking /\ config.initial = "earliest" =>
    \A p \in Partitions : \A o \in Offsets(p) :
      produced[p] > o ~> marked[p] > o \/ receiver \in {"stopping", "stopped"}
=============================================================================
