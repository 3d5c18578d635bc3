-------------------------- MODULE WrappedCollector --------------------------
(***************************************************************************)
(* The wrapped collector (signozcol/collector.go): one OpenTelemetry       *)
(* collector behind a mutex, which several goroutines start, stop and ask  *)
(* about.  Run and Shutdown hold the mutex while they wait for the         *)
(* collector, GetState needs it too.  A goroutine's place in a call is its *)
(* pc; what it does next is given by the caller.                           *)
(*                                                                         *)
(* newOtelColSettings and NewCollector fail for no reason that a           *)
(* configuration can bring about; their error returns are left out.        *)
(***************************************************************************)
EXTENDS Naturals, FiniteSets

CONSTANTS
  Configs,      \* contents of the configuration file
  Startable,    \* those a collector starts with
  Initial,      \* the one the process is given
  Callers,      \* the goroutines that start and stop the collector
  MaxFaults     \* bound on faults of the collector and of the file system

ASSUME CollectorAssumption ==
  /\ Startable \subseteq Configs /\ Initial \in Startable
  /\ "free" \notin Callers /\ MaxFaults \in Nat

VARIABLES
  file,     \* the configuration file
  mux,      \* the holder of WrappedCollector.mux, or "free"
  svc,      \* the collector: "none" (nil), "starting", "running", "closed"
  config,   \* the configuration it was started with
  errChan,  \* values in errChan, which has room for one
  pc,       \* the place of every caller
  faults,   \* faults so far
  events    \* their kinds

collector == <<mux, svc, config, errChan>>
fault     == <<faults, events>>

Fault(kind) ==
  /\ faults < MaxFaults
  /\ faults' = faults + 1
  /\ events' = events \cup {kind}

Go(p, step) == pc' = [pc EXCEPT ![p] = step]

----------------------------------------------------------------------------
(* Shutdown.  A collector that runs is told to end and waited for; without  *)
(* one a nil is sent on errChan, which blocks when there is a value in it.  *)

ShutdownLock(p) ==
  /\ pc[p] = "shutdown" /\ mux = "free"
  /\ mux' = p
  /\ Go(p, IF svc = "none" THEN "shutdownSend" ELSE "shutdownWait")
  /\ UNCHANGED <<svc, config, errChan, file, fault>>

ShutdownDone(p, next) ==
  /\ pc[p] = "shutdownWait" /\ svc = "closed"
  /\ svc' = "none" /\ mux' = "free"
  /\ Go(p, next)
  /\ UNCHANGED <<config, errChan, file, fault>>

ShutdownSend(p, next) ==
  /\ pc[p] = "shutdownSend" /\ errChan = 0
  /\ errChan' = 1 /\ mux' = "free"
  /\ Go(p, next)
  /\ UNCHANGED <<svc, config, file, fault>>

----------------------------------------------------------------------------
(* Run, which returns when the collector is in the Running state or has     *)
(* ended; one that has ended stays where it is until Shutdown.              *)

RunLock(p, bad) ==
  /\ pc[p] = "run" /\ mux = "free"
  /\ IF svc = "none"
     THEN mux' = p /\ svc' = "starting" /\ config' = file /\ Go(p, "runWait")
     ELSE Go(p, bad) /\ UNCHANGED <<mux, svc, config>>
  /\ UNCHANGED <<errChan, file, fault>>

RunReturn(p, good, bad) ==
  /\ pc[p] = "runWait" /\ svc \in {"running", "closed"}
  /\ mux' = "free"
  /\ Go(p, IF svc = "running" THEN good ELSE bad)
  /\ UNCHANGED <<svc, config, errChan, file, fault>>

----------------------------------------------------------------------------
(* The goroutine of Run: svc.Run, then reportError, which does not block. *)

Started ==
  /\ svc = "starting" /\ config \in Startable
  /\ svc' = "running"
  /\ UNCHANGED <<mux, config, errChan, file, pc, fault>>

ClosesSilently == svc' = "closed" /\ UNCHANGED <<errChan, mux, config, file, pc>>  \* faulty
Closes == svc' = "closed" /\ errChan' = 1 /\ UNCHANGED <<mux, config, file, pc>>

StartFails ==
  /\ svc = "starting" /\ config \notin Startable
  /\ Closes /\ UNCHANGED fault

(* A good configuration does not start (a port in use), or a component fails. *)
Dies ==
  /\ svc \in {"starting", "running"} /\ config \in Startable
  /\ Closes /\ Fault("died")

Ends ==
  /\ svc = "running" /\ \E p \in Callers : pc[p] = "shutdownWait"
  /\ Closes /\ UNCHANGED fault

ServiceStep == Started \/ StartFails \/ Ends

(* GetState, when the mutex can be had. *)
StateIs(s) == mux = "free" /\ svc = s
=============================================================================
