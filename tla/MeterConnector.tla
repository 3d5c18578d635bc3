--------------------------- MODULE MeterConnector --------------------------
(***************************************************************************)
(* The meter connector (signozmeterconnector), which counts what passes    *)
(* for billing, and the ClickHouse meter exporter it flushes to.           *)
(*                                                                         *)
(* Traces, logs and metrics pipelines have a connector each, copies of one *)
(* another; this is the one of traces.  Sizes are added up like counts and *)
(* left out.  The dimension is the service.                                *)
(***************************************************************************)
EXTENDS Naturals, Sequences, Bags, Functions, ExporterHelper

VARIABLES
  meterMetrics,  \* aggregatedMeterMetrics: a bag of dimensions
  meterHeld,     \* what a flush has taken out and not yet handed on
  meterLost,     \* what the exporter's queue refused
  meterState,    \* "running", "flushed" (Shutdown waits for the loop), "stopped"
  meterPush,     \* the pushes of the exporter: a sequence of records
  meterTable,    \* the rows of the samples table
  meterExp       \* "open", "closing", "closed"

connectorVars == <<meterMetrics, meterHeld, meterLost, meterState>>
meterVars     == <<connectorVars, meterPush, meterTable, meterExp>>

Flushers == {"loop", "shutdown"}

InitMeter ==
  /\ meterMetrics = EmptyBag
  /\ meterHeld = [f \in Flushers |-> EmptyBag]
  /\ meterLost = 0
  /\ meterState = "running"
  /\ meterPush = << >> /\ meterTable = {} /\ meterExp = "open"

----------------------------------------------------------------------------
(* The connector.                                                           *)

(* A span without the attribute counts under no dimensions.                 *)
BuildDimensions(span) == span.service

UpdateSpanMeterMetrics(span) ==
  meterMetrics' = meterMetrics (+) SetToBag({BuildDimensions(span)})

(* exportMetrics builds the points and resets the aggregate under the lock, *)
(* then hands them on without it.                                           *)
ResetMeter == meterMetrics' = EmptyBag

TakeMeter(flusher) ==
  /\ meterHeld' = [meterHeld EXCEPT ![flusher] = meterMetrics]
  /\ ResetMeter

(* A tick of the loop, unless it is busy with the last one.  A tick that    *)
(* was due before the ticker stopped may still win the select over done.    *)
MeterTick ==
  /\ meterState # "stopped" /\ meterHeld["loop"] = EmptyBag
  /\ TakeMeter("loop")
  /\ UNCHANGED <<meterLost, meterState, meterPush, meterTable, meterExp>>

NewMeterPush(batch) == [pc |-> "enter", batch |-> batch, failed |-> FALSE, tries |-> 0]

(* The queue takes the points or refuses them; then they are gone.          *)
HandOn(flusher) ==
  /\ meterHeld[flusher] # EmptyBag
  /\ meterHeld' = [meterHeld EXCEPT ![flusher] = EmptyBag]
  /\ \/ /\ meterPush' = Append(meterPush, NewMeterPush(meterHeld[flusher]))
        /\ UNCHANGED <<meterLost, faults>>
     \/ /\ StatementFails
        /\ meterLost' = meterLost + SumFunction(meterHeld[flusher])
        /\ UNCHANGED meterPush
  /\ UNCHANGED <<meterMetrics, meterState, meterTable, meterExp>>

ShutdownMeter ==
  /\ meterState = "running"
  /\ meterState' = "flushed"
  /\ TakeMeter("shutdown")
  /\ UNCHANGED <<meterLost, meterPush, meterTable, meterExp, faults>>

(* The last flush has been handed on and the loop, between two flushes,     *)
(* takes done from the channel and returns.                                 *)
MeterStops ==
  /\ meterState = "flushed" /\ \A f \in Flushers : meterHeld[f] = EmptyBag
  /\ meterState' = "stopped"
  /\ UNCHANGED <<meterMetrics, meterHeld, meterLost, meterPush, meterTable, meterExp, faults>>

----------------------------------------------------------------------------
(* The exporter.                                                            *)

SetMeterPush(i, rec) == meterPush' = [meterPush EXCEPT ![i] = rec]

EnterMeterPush(i) ==
  /\ meterPush[i].pc = "enter"
  /\ SetMeterPush(i, [meterPush[i] EXCEPT !.pc = "check", !.tries = @ + 1])
  /\ UNCHANGED <<connectorVars, meterTable, meterExp, faults>>

CheckMeterPush(i) ==
  /\ meterPush[i].pc = "check"
  /\ SetMeterPush(i, IF meterExp = "open" THEN [meterPush[i] EXCEPT !.pc = "write"]
                     ELSE [meterPush[i] EXCEPT !.pc = "done", !.failed = TRUE])
  /\ UNCHANGED <<connectorVars, meterTable, meterExp, faults>>

(* One row for each dimension of the batch.                                 *)
MeterRows(i) ==
  {[of |-> i, dims |-> d, value |-> meterPush[i].batch[d]] :
     d \in BagToSet(meterPush[i].batch)}

WriteMeterBatch(i) ==
  /\ meterPush[i].pc = "write"
  /\ \/ /\ meterTable' = meterTable \cup MeterRows(i)
        /\ SetMeterPush(i, [meterPush[i] EXCEPT !.pc = "done"])
        /\ UNCHANGED faults
     \/ /\ StatementFails
        /\ SetMeterPush(i, [meterPush[i] EXCEPT !.pc = "done", !.failed = TRUE])
        /\ UNCHANGED meterTable
  /\ UNCHANGED <<connectorVars, meterExp>>

RetryMeterPush(i) ==
  /\ PushesAgain(meterPush[i])
  /\ SetMeterPush(i, [meterPush[i] EXCEPT !.pc = "enter", !.failed = FALSE])
  /\ UNCHANGED <<connectorVars, meterTable, meterExp, faults>>

(* The collector shuts an exporter down after the connector before it.      *)
ShutdownMeterExporter ==
  /\ meterState = "stopped" /\ meterExp = "open"
  /\ meterExp' = "closing"
  /\ UNCHANGED <<connectorVars, meterPush, meterTable, faults>>

CloseMeterConn ==
  /\ meterExp = "closing"
  /\ \A i \in DOMAIN meterPush : meterPush[i].pc \in {"enter", "done"}
  /\ meterExp' = "closed"
  /\ UNCHANGED <<connectorVars, meterPush, meterTable, faults>>

MeterStep ==
  \/ \E f \in Flushers : HandOn(f)
  \/ MeterStops
  \/ \E i \in DOMAIN meterPush :
       EnterMeterPush(i) \/ CheckMeterPush(i) \/ WriteMeterBatch(i) \/ RetryMeterPush(i)
  \/ ShutdownMeterExporter \/ CloseMeterConn
=============================================================================
