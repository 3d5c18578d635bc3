------------------------------ MODULE IdBatcher ------------------------------
(***************************************************************************)
(* The id batcher of the tail sampler                                      *)
(* (src/processor/signoztailsampler/internal/idbatcher): a pipe of a fixed *)
(* number of batches of trace ids, and the batch being built.  Ids come    *)
(* through a bounded channel that one goroutine empties into the current   *)
(* batch; a timer takes the oldest batch out of the pipe and pushes the    *)
(* current one in.  Stop closes both channels while the timer may still    *)
(* be using them.                                                          *)
(***************************************************************************)
EXTENDS Naturals, Sequences

CONSTANTS
    Ids,          \* trace ids
    NumBatches,   \* batches in the pipe
    PendingCap,   \* capacity of the channel of pending ids
    NoId

ASSUME BatcherAssumption ==
    /\ NumBatches \in Nat \ {0}
    /\ PendingCap \in Nat \ {0}
    /\ NoId \notin Ids

VARIABLES
    pending,   \* the channel pendingIds
    fill,      \* the id the filling goroutine has received and not yet appended
    current,   \* currentBatch
    pipe,      \* the channel batches
    reader,    \* the timer is inside the read lock of stopLock, about to send
    bpc        \* how far Stop has come

batcherVars == <<pending, fill, current, pipe, reader, bpc>>

(* Faulty start: nothing in the pipe. *)
BatcherInitEmpty ==
    /\ pending = <<>>
    /\ fill = NoId
    /\ current = <<>>
    /\ pipe = <<>>
    /\ reader = FALSE
    /\ bpc = "running"

(* The pipe starts with empty batches, which delay the first real one. *)
BatcherInit ==
    /\ pending = <<>>
    /\ fill = NoId
    /\ current = <<>>
    /\ pipe = [i \in 1 .. NumBatches |-> <<>>]
    /\ reader = FALSE
    /\ bpc = "running"

-------------------------------------------------------------------------------
(* Blocks while the channel is full.  (After Stop it would panic.) *)
AddToCurrentBatch(id) ==
    /\ bpc = "running"
    /\ Len(pending) < PendingCap
    /\ pending' = Append(pending, id)
    /\ UNCHANGED <<fill, current, pipe, reader, bpc>>

(* The goroutine that fills the current batch. *)
FillTake ==
    /\ fill = NoId
    /\ pending # <<>>
    /\ fill' = Head(pending)
    /\ pending' = Tail(pending)
    /\ UNCHANGED <<current, pipe, reader, bpc>>

(* Faulty append: the goroutine needs the lock Stop holds while it waits. *)
FillAppendLocked ==
    /\ fill # NoId
    /\ bpc # "locked"
    /\ current' = Append(current, fill)
    /\ fill' = NoId
    /\ UNCHANGED <<pending, pipe, reader, bpc>>

FillAppend ==
    /\ fill # NoId
    /\ current' = Append(current, fill)
    /\ fill' = NoId
    /\ UNCHANGED <<pending, pipe, reader, bpc>>

Fill == FillTake \/ FillAppend

-------------------------------------------------------------------------------
Stopped == bpc \in {"stopped", "closed"}

(* CloseCurrentAndTakeFirstBatch, in the order of its steps: receive the   *)
(* oldest batch; look whether the batcher is stopped, under the read lock; *)
(* if not, send the current batch while still holding it.                  *)
TakeFirst ==
    /\ pipe # <<>>
    /\ pipe' = Tail(pipe)
    /\ UNCHANGED <<pending, fill, current, reader, bpc>>

ReadStopped ==
    /\ bpc # "locked"
    /\ ~reader
    /\ reader' = ~Stopped
    /\ UNCHANGED <<pending, fill, current, pipe, bpc>>

(* Faulty send: the current batch goes to the front of the pipe. *)
SendCurrentFirst ==
    /\ reader
    /\ Len(pipe) < NumBatches
    /\ pipe' = <<current>> \o pipe
    /\ current' = <<>>
    /\ reader' = FALSE
    /\ UNCHANGED <<pending, fill, bpc>>

SendCurrent ==
    /\ reader
    /\ Len(pipe) < NumBatches
    /\ pipe' = Append(pipe, current)
    /\ current' = <<>>
    /\ reader' = FALSE
    /\ UNCHANGED <<pending, fill, bpc>>

(* Once the closed pipe is empty, what is left is the current batch. *)
TakeCurrent ==
    /\ bpc = "closed"
    /\ pipe = <<>>
    /\ current' = <<>>
    /\ UNCHANGED <<pending, fill, pipe, reader, bpc>>

-------------------------------------------------------------------------------
(* Stop: close pendingIds, take the write lock, wait under it for the      *)
(* filling goroutine to have emptied the channel, set stopped and unlock,  *)
(* close the pipe.                                                         *)
StopClosePending ==
    /\ bpc = "running"
    /\ bpc' = "draining"
    /\ UNCHANGED <<pending, fill, current, pipe, reader>>

(* Faulty lock: readers inside it are not waited for. *)
StopLockAnyway ==
    /\ bpc = "draining"
    /\ bpc' = "locked"
    /\ UNCHANGED <<pending, fill, current, pipe, reader>>

StopLock ==
    /\ bpc = "draining"
    /\ ~reader
    /\ bpc' = "locked"
    /\ UNCHANGED <<pending, fill, current, pipe, reader>>

StopWait ==
    /\ bpc = "locked"
    /\ pending = <<>>
    /\ fill = NoId
    /\ bpc' = "stopped"
    /\ UNCHANGED <<pending, fill, current, pipe, reader>>

StopClosePipe ==
    /\ bpc = "stopped"
    /\ bpc' = "closed"
    /\ UNCHANGED <<pending, fill, current, pipe, reader>>

Stop == StopLock \/ StopWait \/ StopClosePipe

-------------------------------------------------------------------------------
BatcherTypeOK ==
    /\ pending \in Seq(Ids) /\ Len(pending) <= PendingCap
    /\ fill \in Ids \cup {NoId}
    /\ current \in Seq(Ids)
    /\ pipe \in Seq(Seq(Ids)) /\ Len(pipe) <= NumBatches
    /\ reader \in BOOLEAN
    /\ bpc \in {"running", "draining", "locked", "stopped", "closed"}

===============================================================================
