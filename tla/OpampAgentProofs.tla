-------------------------- MODULE OpampAgentProofs --------------------------
(***************************************************************************)
(* Proofs about the OpAMP agent and the wrapped collector, for any sets of *)
(* configurations and messages and any number of faults.                   *)
(*                                                                         *)
(* Two goroutines restart the collector: the handler of remote             *)
(* configurations, and the main goroutine when it starts and when it       *)
(* stops.  The argument is about who may write the file and who may start  *)
(* or end the collector at each place of the two, and about what the file, *)
(* its backup and the collector hold there.                                *)
(***************************************************************************)
EXTENDS OpampAgent, TLAPS

(* The places under the collector's mutex, and the ones under the reload    *)
(* mutex.                                                                   *)
InCollector == {"shutdownWait", "shutdownSend", "runWait"}
InRestart   == {"shutdown", "run", "runGood", "runBad"} \cup InCollector
InReload    == {"backup", "write", "reloadBad"} \cup InRestart

Stopping == {"shutdown", "shutdownWait", "shutdownSend", "stopClient", "stopWait", "exited"}
Simple   == {"start", "run", "runWait", "runGood", "runBad", "wait", "exited"}
MainSteps ==
  {"start", "startNop", "reload", "reloadedGood", "reloadedBad", "wait"}
    \cup InReload \cup Stopping
HandlerSteps ==
  {"idle", "apply", "same", "reload", "reloadedGood", "reloadedBad", "changed", "changedBad",
   "leaveNop", "effective"} \cup InReload

(* The types of the variables. *)
TypeOK ==
  /\ file \in Configs /\ rollback \in Configs /\ config \in Configs /\ hash \in Configs
  /\ mux \in Callers \cup {"free"} /\ reloadMux \in Callers \cup {"free"}
  /\ svc \in {"none", "starting", "running", "closed"}
  /\ errChan \in {0, 1} /\ faults \in Nat
  /\ events \subseteq {"file", "damage", "died", "hash", "status", "effective"}
  /\ pc \in [Callers -> MainSteps \cup HandlerSteps]
  /\ pc["main"] \in MainSteps /\ pc["handler"] \in HandlerSteps
  /\ target \in [Callers -> Configs \cup {NoConfig}] /\ attempt \in [Callers -> {1, 2}]
  /\ server \in BOOLEAN /\ connected \in BOOLEAN /\ early \in BOOLEAN /\ stopped \in BOOLEAN
  /\ initialConfigReceived \in BOOLEAN /\ runningNopConfig \in BOOLEAN
  /\ received \in Nat /\ err \in Nat
  /\ wpc \in {"off", "poll", "check", "send", "ended"}
  /\ status \in [config : Configs \cup {NoConfig}, st : {"UNSET", "APPLIED", "FAILED"}]
  /\ effective \in Configs \cup {Nothing}

(* The two mutexes, and who is where: only a goroutine that reloads holds   *)
(* the reload mutex, and the main goroutine reloads in Start, with a        *)
(* server.                                                                  *)
Places ==
  /\ \A p \in Callers : mux = p <=> pc[p] \in InCollector
  /\ reloadMux = "handler" <=> pc["handler"] \in InReload
  /\ reloadMux = "main" <=> server /\ ~stopped /\ pc["main"] \in InReload
  /\ stopped => pc["main"] \in Stopping
  /\ ~stopped => pc["main"] \notin {"stopClient", "stopWait"}
  /\ ~server => pc["handler"] = "idle" /\ (stopped \/ pc["main"] \in Simple)
  /\ ~server => ~connected /\ ~early
  /\ connected => pc["main"] # "start"
  /\ pc["handler"] # "idle" => pc["main"] # "start"

(* What the collector is, seen from the places of the goroutines: it is     *)
(* starting only while Run waits for it, and gone when a restart is about   *)
(* to run it again.                                                         *)
Collector ==
  /\ svc = "starting" => mux # "free" /\ pc[mux] = "runWait"
  /\ svc = "running" => config \in Startable
  /\ \A p \in Callers :
       /\ pc[p] \in {"shutdownWait", "runWait"} => svc # "none"
       /\ pc[p] \in {"shutdownSend", "run"} => svc = "none"
       /\ pc[p] = "runBad" => svc \in {"none", "closed"}
  /\ pc["main"] = "start" => svc = "none"

(* A reload has a configuration to write. *)
Targets ==
  /\ target["main"] = Nop
  /\ \A p \in Callers : pc[p] \in {"reload", "backup", "write"} => target[p] \in Configs

Undamaged == "damage" \notin events

(* What the file and its backup hold until a file system error damages the *)
(* file: the backup is taken before the file is written, and the           *)
(* configuration in force is one that starts.                              *)
Backed ==
  Undamaged =>
    /\ ~OnTrial => file \in Startable
    /\ Reloading =>
         /\ pc[reloadMux] \in {"backup", "write"} => attempt[reloadMux] = 1
         /\ pc[reloadMux] = "write" => rollback = file
         /\ pc[reloadMux] \in InRestart =>
              /\ rollback \in Startable
              /\ file = IF attempt[reloadMux] = 1 THEN target[reloadMux] ELSE rollback

(* Outside the restart of a reload a collector that starts or runs has the *)
(* configuration of the file.                                              *)
Served ==
  Undamaged =>
    /\ svc \in {"starting", "running"}
         /\ (Reloading => pc[reloadMux] \notin {"shutdown", "shutdownWait", "shutdownSend"})
         => config = file
    /\ \A p \in Callers : pc[p] = "runWait" => config = file

(* The main goroutine has its reload in Start before it: until then a      *)
(* message that did not come early finds nothing to reload.                *)
Before == pc["main"] \in {"start", "startNop", "reload"} \/ reloadMux = "main"
Waiting == {"idle", "apply", "same", "reload"}

StartFirst ==
  ~early /\ Before =>
    /\ ~initialConfigReceived
    /\ pc["handler"] \in Waiting
    /\ pc["main"] \in {"start", "startNop", "reload"} => pc["handler"] = "idle"

(* A message that came early may have been applied before Start overwrites  *)
(* the file with the no-op configuration: nothing is known until Start has  *)
(* done so, and afterwards that one may be in force.                        *)
Settled == early => stopped \/ pc["main"] \in {"reloadedGood", "wait"}
InForce == IF OnTrial THEN rollback ELSE file
Over    == early /\ InForce = Nop

(* The hash was that of an empty file, since the file could not be read. *)
HashLost(c) == "hash" \in events /\ c = Empty

(* A reload has succeeded and is not reported yet. *)
Fresh == \/ pc["handler"] = "runGood" /\ attempt["handler"] = 1
         \/ pc["handler"] \in {"reloadedGood", "changed", "changedBad"}

(* What the handler has found out and reported, unless the file is damaged  *)
(* or the client refused a status: the hash is that of the configuration    *)
(* in force, except from the end of a successful reload until it is taken,  *)
(* and the effective configuration follows when the report is complete.     *)
Found ==
  LET h == pc["handler"]
  IN  /\ h \in {"reloadedGood", "changed", "changedBad", "leaveNop", "effective"} =>
           file = target["handler"]
      /\ h = "effective" => ~runningNopConfig
      /\ initialConfigReceived =>
           /\ \/ h = "reloadedGood" \/ (h = "runGood" /\ attempt["handler"] = 1)
              \/ hash = InForce \/ HashLost(hash)
           /\ Fresh \/ h \in {"leaveNop", "effective"} \/ effective = InForce
                \/ "effective" \in events
      /\ status.st = "APPLIED" /\ status.config # NoConfig /\ ~Fresh =>
           /\ initialConfigReceived
           /\ status.config = InForce \/ HashLost(status.config)

Reported ==
  LET h == pc["handler"]
  IN  /\ h = "same" => \/ target["handler"] = NoConfig
                       \/ initialConfigReceived /\ target["handler"] = hash
      /\ h = "changed" => initialConfigReceived
      /\ Undamaged /\ "status" \notin events /\ Settled => Over \/ Found

(* Unless the file or the collector fails, the collector runs whenever     *)
(* Start has returned and no reload has it in its hands.                   *)
Harmless == "file" \notin events /\ "damage" \notin events /\ "died" \notin events

Serving ==
  Harmless =>
    /\ \A p \in Callers : pc[p] # "reloadBad"
    /\ \A p \in Callers : pc[p] = "runWait" /\ svc = "closed" => config \notin Startable
    /\ pc["main"] \in {"runGood", "reloadedGood", "wait"} =>
         /\ pc["handler"] \notin {"shutdown", "shutdownWait", "shutdownSend", "run",
                                  "runWait", "runBad"} => svc = "running"
         /\ pc["handler"] = "runBad" => attempt["handler"] = 1

-----------------------------------------------------------------------------
(* Every step preserves the types. *)
LEMMA TypeStep ==
  ASSUME TypeOK, Targets, [Next]_vars
  PROVE  TypeOK'
PROOF
<1> USE AgentAssumption, CollectorAssumption DEF TypeOK, Targets, InCollector, InRestart,
   InReload, Stopping, Simple, MainSteps, HandlerSteps
<1>1. ASSUME NEW p \in Callers, ReloadLock(p) PROVE TypeOK'
    BY <1>1 DEF ReloadLock, Go, mainOnly, handlerOnly, watcherOnly, client, reloading, watcher,
       collector, fault
<1>2. ASSUME NEW p \in Callers, Backup(p) PROVE TypeOK'
    BY <1>2 DEF Backup, Go, mainOnly, handlerOnly, watcherOnly, client, reloading, watcher,
       collector, fault
<1>3. ASSUME NEW p \in Callers, Write(p) PROVE TypeOK'
    BY <1>3 DEF Write, Go, mainOnly, handlerOnly, watcherOnly, client, reloading, watcher,
       collector, fault
<1>4. ASSUME NEW p \in Callers, Restore(p) PROVE TypeOK'
    BY <1>4 DEF Restore, Go, mainOnly, handlerOnly, watcherOnly, client, reloading, watcher,
       collector, fault
<1>5. ASSUME NEW p \in Callers, ReloadReturn(p) PROVE TypeOK'
    BY <1>5 DEF ReloadReturn, Go, mainOnly, handlerOnly, watcherOnly, client, reloading,
       watcher, collector, fault
<1>6. ASSUME NEW p \in Callers, BackupFails(p) PROVE TypeOK'
    BY <1>6 DEF BackupFails, Go, Fault, mainOnly, handlerOnly, watcherOnly, client, reloading,
       watcher, collector, fault
<1>7. ASSUME NEW p \in Callers, WriteFails(p) PROVE TypeOK'
    BY <1>7 DEF WriteFails, Go, Fault, mainOnly, handlerOnly, watcherOnly, client, reloading,
       watcher, collector, fault
<1>8. ASSUME NEW p \in Callers, RestoreFails(p) PROVE TypeOK'
    BY <1>8 DEF RestoreFails, Go, Fault, mainOnly, handlerOnly, watcherOnly, client, reloading,
       watcher, collector, fault
<1>9. ASSUME NEW p \in Callers, Shutdown(p) PROVE TypeOK'
  <2>1. CASE ShutdownLock(p)
      BY <1>9, <2>1 DEF Shutdown, ShutdownLock, Go, mainOnly, handlerOnly, watcherOnly, client,
         reloading, watcher, collector, fault
  <2>2. CASE ShutdownDone(p, AfterShutdown(p))
      BY <1>9, <2>2 DEF Shutdown, ShutdownDone, AfterShutdown, Go, mainOnly, handlerOnly,
         watcherOnly, client, reloading, watcher, collector, fault
  <2>3. CASE ShutdownSend(p, AfterShutdown(p))
      BY <1>9, <2>3 DEF Shutdown, ShutdownSend, AfterShutdown, Go, mainOnly, handlerOnly,
         watcherOnly, client, reloading, watcher, collector, fault
  <2> QED BY <1>9, <2>1, <2>2, <2>3 DEF Shutdown
<1>10. ASSUME NEW p \in Callers, Run(p) PROVE TypeOK'
  <2>1. CASE RunLock(p, "runBad")
      BY <1>10, <2>1 DEF Run, RunLock, Go, mainOnly, handlerOnly, watcherOnly, client, reloading,
         watcher, collector, fault
  <2>2. CASE RunReturn(p, "runGood", "runBad")
      BY <1>10, <2>2 DEF Run, RunReturn, Go, mainOnly, handlerOnly, watcherOnly, client, reloading,
         watcher, collector, fault
  <2> QED BY <1>10, <2>1, <2>2 DEF Run
<1>11. CASE StartSimple
    BY <1>11 DEF StartSimple, Go, mainOnly, handlerOnly, watcherOnly, client, reloading,
       watcher, collector, fault
<1>12. CASE StartServer
    BY <1>12 DEF StartServer, Go, mainOnly, handlerOnly, watcherOnly, client, reloading,
       watcher, collector, fault
<1>13. CASE StartNop
    BY <1>13 DEF StartNop, Go, mainOnly, handlerOnly, watcherOnly, client, reloading, watcher,
       collector, fault
<1>14. CASE StartReturn
    BY <1>14 DEF StartReturn, Go, mainOnly, handlerOnly, watcherOnly, client, reloading,
       watcher, collector, fault
<1>15. CASE StartFailed
    BY <1>15 DEF StartFailed, Go, mainOnly, handlerOnly, watcherOnly, client, reloading,
       watcher, collector, fault
<1>16. CASE Error
    BY <1>16 DEF Error, StopBegins, Go, mainOnly, handlerOnly, watcherOnly, client, reloading,
       watcher, collector, fault
<1>17. CASE Signal
    BY <1>17 DEF Signal, StopBegins, Go, mainOnly, handlerOnly, watcherOnly, client, reloading,
       watcher, collector, fault
<1>18. CASE StopClient
  <2>1. connected' \in BOOLEAN
      BY <1>18 DEF StopClient, Go, mainOnly, handlerOnly, watcherOnly, client, reloading,
             watcher, collector, fault
  <2>2. /\ pc' \in [Callers -> MainSteps \cup HandlerSteps]
        /\ pc'["main"] \in MainSteps /\ pc'["handler"] \in HandlerSteps
      BY <1>18 DEF StopClient, Go, mainOnly, handlerOnly, watcherOnly, client, reloading,
             watcher, collector, fault
  <2> QED BY <1>18, <2>1, <2>2 DEF StopClient, Go, mainOnly, handlerOnly, watcherOnly, client,
         reloading, watcher, collector, fault
<1>19. CASE StopReturn
    BY <1>19 DEF StopReturn, Go, mainOnly, handlerOnly, watcherOnly, client, reloading, watcher,
       collector, fault
<1>20. CASE Apply
    BY <1>20 DEF Apply, Go, mainOnly, handlerOnly, watcherOnly, client, reloading, watcher,
       collector, fault
<1>21. CASE UpdateCurrentHash
    BY <1>21 DEF UpdateCurrentHash, Go, mainOnly, handlerOnly, watcherOnly, client, reloading,
       watcher, collector, fault
<1>22. CASE Report
    BY <1>22 DEF Report, Reporting, Go, mainOnly, handlerOnly, watcherOnly, client, reloading,
       watcher,
       collector, fault
<1>23. CASE LeaveNop
  <2>1. runningNopConfig' \in BOOLEAN
      BY <1>23 DEF LeaveNop, Go, mainOnly, handlerOnly, watcherOnly, client, reloading, watcher,
             collector, fault
  <2>2. /\ pc' \in [Callers -> MainSteps \cup HandlerSteps]
        /\ pc'["main"] \in MainSteps /\ pc'["handler"] \in HandlerSteps
      BY <1>23 DEF LeaveNop, Go, mainOnly, handlerOnly, watcherOnly, client, reloading, watcher,
             collector, fault
  <2> QED BY <1>23, <2>1, <2>2 DEF LeaveNop, Go, mainOnly, handlerOnly, watcherOnly, client,
         reloading, watcher, collector, fault
<1>24. CASE ReportEffective
    BY <1>24 DEF ReportEffective, Go, mainOnly, handlerOnly, watcherOnly, client, reloading,
       watcher, collector, fault
<1>25. ASSUME NEW m \in Messages, Receive(m) PROVE TypeOK'
    BY <1>25 DEF Receive, Go, mainOnly, handlerOnly, watcherOnly, client, reloading, watcher,
       collector, fault
<1>26. CASE Poll
    BY <1>26 DEF Poll, mainOnly, handlerOnly, watcherOnly, client, reloading, watcher,
       collector, fault
<1>27. CASE CheckReloading
    BY <1>27 DEF CheckReloading, mainOnly, handlerOnly, watcherOnly, client, reloading, watcher,
       collector, fault
<1>28. CASE SendError
    BY <1>28 DEF SendError, mainOnly, handlerOnly, watcherOnly, client, reloading, watcher,
       collector, fault
<1>29. CASE WatchEnds
    BY <1>29 DEF WatchEnds, mainOnly, handlerOnly, watcherOnly, client, reloading, watcher,
       collector, fault
<1>30. CASE Service
  <2>1. CASE Started
      BY <1>30, <2>1 DEF Service, Started, mainOnly, handlerOnly, watcherOnly, client, reloading,
         watcher, collector, fault
  <2>2. CASE StartFails
      BY <1>30, <2>2 DEF Service, StartFails, Closes, mainOnly, handlerOnly, watcherOnly, client,
         reloading, watcher, collector, fault
  <2>3. CASE Ends
      BY <1>30, <2>3 DEF Service, Ends, Closes, mainOnly, handlerOnly, watcherOnly, client,
         reloading, watcher, collector, fault
  <2>4. CASE Dies
      BY <1>30, <2>4 DEF Service, Dies, Closes, Fault, mainOnly, handlerOnly, watcherOnly, client,
         reloading, watcher, collector, fault
  <2> QED BY <1>30, <2>1, <2>2, <2>3, <2>4 DEF Service, ServiceStep
<1>31. CASE UNCHANGED vars
    BY <1>31 DEF vars, client, reloading, watcher, collector, fault
<1>32. CASE HashFails
    BY <1>32 DEF HashFails, Reporting, Go, Fault, mainOnly, handlerOnly, watcherOnly, client,
       reloading, watcher, collector, fault
<1>33. CASE ReportFails
    BY <1>33 DEF ReportFails, Reporting, Go, Fault, mainOnly, handlerOnly, watcherOnly, client,
       reloading, watcher, collector, fault
<1>34. CASE EffectiveFails
    BY <1>34 DEF EffectiveFails, Reporting, Go, Fault, mainOnly, handlerOnly, watcherOnly, client,
       reloading, watcher, collector, fault
<1> QED BY <1>1, <1>2, <1>3, <1>4, <1>5, <1>6, <1>7, <1>8, <1>9, <1>10, <1>11, <1>12, <1>13,
   <1>14, <1>15, <1>16, <1>17, <1>18, <1>19, <1>20, <1>21, <1>22, <1>23, <1>24, <1>25, <1>26,
   <1>27, <1>28, <1>29, <1>30, <1>31, <1>32, <1>33, <1>34 DEF Next, MainStep, HandlerStep,
   HandlerFails, WatchStep, Goroutine,
   Reload, FileFails

(* Every step preserves the places. *)
LEMMA PlacesStep ==
  ASSUME TypeOK, Places, [Next]_vars
  PROVE  Places'
PROOF
<1> USE AgentAssumption, CollectorAssumption DEF TypeOK, Places, InCollector, InRestart,
   InReload, Stopping, Simple, MainSteps, HandlerSteps
<1>1. ASSUME NEW p \in Callers, ReloadLock(p) PROVE Places'
    BY <1>1 DEF ReloadLock, Go, mainOnly, handlerOnly, watcherOnly, client, reloading, watcher,
       collector, fault
<1>2. ASSUME NEW p \in Callers, Backup(p) PROVE Places'
    BY <1>2 DEF Backup, Go, mainOnly, handlerOnly, watcherOnly, client, reloading, watcher,
       collector, fault
<1>3. ASSUME NEW p \in Callers, Write(p) PROVE Places'
    BY <1>3 DEF Write, Go, mainOnly, handlerOnly, watcherOnly, client, reloading, watcher,
       collector, fault
<1>4. ASSUME NEW p \in Callers, Restore(p) PROVE Places'
    BY <1>4 DEF Restore, Go, mainOnly, handlerOnly, watcherOnly, client, reloading, watcher,
       collector, fault
<1>5. ASSUME NEW p \in Callers, ReloadReturn(p) PROVE Places'
    BY <1>5 DEF ReloadReturn, Go, mainOnly, handlerOnly, watcherOnly, client, reloading,
       watcher, collector, fault
<1>6. ASSUME NEW p \in Callers, BackupFails(p) PROVE Places'
    BY <1>6 DEF BackupFails, Go, Fault, mainOnly, handlerOnly, watcherOnly, client, reloading,
       watcher, collector, fault
<1>7. ASSUME NEW p \in Callers, WriteFails(p) PROVE Places'
    BY <1>7 DEF WriteFails, Go, Fault, mainOnly, handlerOnly, watcherOnly, client, reloading,
       watcher, collector, fault
<1>8. ASSUME NEW p \in Callers, RestoreFails(p) PROVE Places'
    BY <1>8 DEF RestoreFails, Go, Fault, mainOnly, handlerOnly, watcherOnly, client, reloading,
       watcher, collector, fault
<1>9. ASSUME NEW p \in Callers, Shutdown(p) PROVE Places'
    BY <1>9 DEF Shutdown, ShutdownLock, ShutdownDone, ShutdownSend, AfterShutdown, Go, mainOnly,
       handlerOnly, watcherOnly, client, reloading, watcher, collector, fault
<1>10. ASSUME NEW p \in Callers, Run(p) PROVE Places'
    BY <1>10 DEF Run, RunLock, RunReturn, Go, mainOnly, handlerOnly, watcherOnly, client,
       reloading, watcher, collector, fault
<1>11. CASE StartSimple
    BY <1>11 DEF StartSimple, Go, mainOnly, handlerOnly, watcherOnly, client, reloading,
       watcher, collector, fault
<1>12. CASE StartServer
    BY <1>12 DEF StartServer, Go, mainOnly, handlerOnly, watcherOnly, client, reloading,
       watcher, collector, fault
<1>13. CASE StartNop
    BY <1>13 DEF StartNop, Go, mainOnly, handlerOnly, watcherOnly, client, reloading, watcher,
       collector, fault
<1>14. CASE StartReturn
    BY <1>14 DEF StartReturn, Go, mainOnly, handlerOnly, watcherOnly, client, reloading,
       watcher, collector, fault
<1>15. CASE StartFailed
    BY <1>15 DEF StartFailed, Go, mainOnly, handlerOnly, watcherOnly, client, reloading,
       watcher, collector, fault
<1>16. CASE Error
    BY <1>16 DEF Error, StopBegins, Go, mainOnly, handlerOnly, watcherOnly, client, reloading,
       watcher, collector, fault
<1>17. CASE Signal
    BY <1>17 DEF Signal, StopBegins, Go, mainOnly, handlerOnly, watcherOnly, client, reloading,
       watcher, collector, fault
<1>18. CASE StopClient
    BY <1>18 DEF StopClient, Go, mainOnly, handlerOnly, watcherOnly, client, reloading, watcher,
       collector, fault
<1>19. CASE StopReturn
    BY <1>19 DEF StopReturn, Go, mainOnly, handlerOnly, watcherOnly, client, reloading, watcher,
       collector, fault
<1>20. CASE Apply
    BY <1>20 DEF Apply, Go, mainOnly, handlerOnly, watcherOnly, client, reloading, watcher,
       collector, fault
<1>21. CASE UpdateCurrentHash
    BY <1>21 DEF UpdateCurrentHash, Go, mainOnly, handlerOnly, watcherOnly, client, reloading,
       watcher, collector, fault
<1>22. CASE Report
    BY <1>22 DEF Report, Reporting, Go, mainOnly, handlerOnly, watcherOnly, client, reloading,
       watcher,
       collector, fault
<1>23. CASE LeaveNop
    BY <1>23 DEF LeaveNop, Go, mainOnly, handlerOnly, watcherOnly, client, reloading, watcher,
       collector, fault
<1>24. CASE ReportEffective
    BY <1>24 DEF ReportEffective, Go, mainOnly, handlerOnly, watcherOnly, client, reloading,
       watcher, collector, fault
<1>25. ASSUME NEW m \in Messages, Receive(m) PROVE Places'
    BY <1>25 DEF Receive, Go, mainOnly, handlerOnly, watcherOnly, client, reloading, watcher,
       collector, fault
<1>26. CASE Poll
    BY <1>26 DEF Poll, mainOnly, handlerOnly, watcherOnly, client, reloading, watcher,
       collector, fault
<1>27. CASE CheckReloading
    BY <1>27 DEF CheckReloading, mainOnly, handlerOnly, watcherOnly, client, reloading, watcher,
       collector, fault
<1>28. CASE SendError
    BY <1>28 DEF SendError, mainOnly, handlerOnly, watcherOnly, client, reloading, watcher,
       collector, fault
<1>29. CASE WatchEnds
    BY <1>29 DEF WatchEnds, mainOnly, handlerOnly, watcherOnly, client, reloading, watcher,
       collector, fault
<1>30. CASE Service
    BY <1>30 DEF Service, ServiceStep, Started, StartFails, Ends, Dies, Closes, Fault, mainOnly,
       handlerOnly, watcherOnly, client, reloading, watcher, collector, fault
<1>31. CASE UNCHANGED vars
    BY <1>31 DEF vars, client, reloading, watcher, collector, fault
<1>32. CASE HashFails
    BY <1>32 DEF HashFails, Reporting, Go, Fault, mainOnly, handlerOnly, watcherOnly, client,
       reloading, watcher, collector, fault
<1>33. CASE ReportFails
    BY <1>33 DEF ReportFails, Reporting, Go, Fault, mainOnly, handlerOnly, watcherOnly, client,
       reloading, watcher, collector, fault
<1>34. CASE EffectiveFails
    BY <1>34 DEF EffectiveFails, Reporting, Go, Fault, mainOnly, handlerOnly, watcherOnly, client,
       reloading, watcher, collector, fault
<1> QED BY <1>1, <1>2, <1>3, <1>4, <1>5, <1>6, <1>7, <1>8, <1>9, <1>10, <1>11, <1>12, <1>13,
   <1>14, <1>15, <1>16, <1>17, <1>18, <1>19, <1>20, <1>21, <1>22, <1>23, <1>24, <1>25, <1>26,
   <1>27, <1>28, <1>29, <1>30, <1>31, <1>32, <1>33, <1>34 DEF Next, MainStep, HandlerStep,
   HandlerFails, WatchStep, Goroutine,
   Reload, FileFails

(* Every step preserves what is known of the collector. *)
LEMMA CollectorStep ==
  ASSUME TypeOK, Places, Collector, [Next]_vars
  PROVE  Collector'
PROOF
<1> USE AgentAssumption, CollectorAssumption DEF TypeOK, Places, Collector, InCollector,
   InRestart, InReload, Stopping, Simple, MainSteps, HandlerSteps
<1>1. ASSUME NEW p \in Callers, ReloadLock(p) PROVE Collector'
    BY <1>1 DEF ReloadLock, Go, mainOnly, handlerOnly, watcherOnly, client, reloading, watcher,
       collector, fault
<1>2. ASSUME NEW p \in Callers, Backup(p) PROVE Collector'
    BY <1>2 DEF Backup, Go, mainOnly, handlerOnly, watcherOnly, client, reloading, watcher,
       collector, fault
<1>3. ASSUME NEW p \in Callers, Write(p) PROVE Collector'
    BY <1>3 DEF Write, Go, mainOnly, handlerOnly, watcherOnly, client, reloading, watcher,
       collector, fault
<1>4. ASSUME NEW p \in Callers, Restore(p) PROVE Collector'
    BY <1>4 DEF Restore, Go, mainOnly, handlerOnly, watcherOnly, client, reloading, watcher,
       collector, fault
<1>5. ASSUME NEW p \in Callers, ReloadReturn(p) PROVE Collector'
    BY <1>5 DEF ReloadReturn, Go, mainOnly, handlerOnly, watcherOnly, client, reloading,
       watcher, collector, fault
<1>6. ASSUME NEW p \in Callers, BackupFails(p) PROVE Collector'
    BY <1>6 DEF BackupFails, Go, Fault, mainOnly, handlerOnly, watcherOnly, client, reloading,
       watcher, collector, fault
<1>7. ASSUME NEW p \in Callers, WriteFails(p) PROVE Collector'
    BY <1>7 DEF WriteFails, Go, Fault, mainOnly, handlerOnly, watcherOnly, client, reloading,
       watcher, collector, fault
<1>8. ASSUME NEW p \in Callers, RestoreFails(p) PROVE Collector'
    BY <1>8 DEF RestoreFails, Go, Fault, mainOnly, handlerOnly, watcherOnly, client, reloading,
       watcher, collector, fault
<1>9. ASSUME NEW p \in Callers, Shutdown(p) PROVE Collector'
    BY <1>9 DEF Shutdown, ShutdownLock, ShutdownDone, ShutdownSend, AfterShutdown, Go, mainOnly,
       handlerOnly, watcherOnly, client, reloading, watcher, collector, fault
<1>10. ASSUME NEW p \in Callers, Run(p) PROVE Collector'
    BY <1>10 DEF Run, RunLock, RunReturn, Go, mainOnly, handlerOnly, watcherOnly, client,
       reloading, watcher, collector, fault
<1>11. CASE StartSimple
    BY <1>11 DEF StartSimple, Go, mainOnly, handlerOnly, watcherOnly, client, reloading,
       watcher, collector, fault
<1>12. CASE StartServer
    BY <1>12 DEF StartServer, Go, mainOnly, handlerOnly, watcherOnly, client, reloading,
       watcher, collector, fault
<1>13. CASE StartNop
    BY <1>13 DEF StartNop, Go, mainOnly, handlerOnly, watcherOnly, client, reloading, watcher,
       collector, fault
<1>14. CASE StartReturn
    BY <1>14 DEF StartReturn, Go, mainOnly, handlerOnly, watcherOnly, client, reloading,
       watcher, collector, fault
<1>15. CASE StartFailed
    BY <1>15 DEF StartFailed, Go, mainOnly, handlerOnly, watcherOnly, client, reloading,
       watcher, collector, fault
<1>16. CASE Error
    BY <1>16 DEF Error, StopBegins, Go, mainOnly, handlerOnly, watcherOnly, client, reloading,
       watcher, collector, fault
<1>17. CASE Signal
    BY <1>17 DEF Signal, StopBegins, Go, mainOnly, handlerOnly, watcherOnly, client, reloading,
       watcher, collector, fault
<1>18. CASE StopClient
    BY <1>18 DEF StopClient, Go, mainOnly, handlerOnly, watcherOnly, client, reloading, watcher,
       collector, fault
<1>19. CASE StopReturn
    BY <1>19 DEF StopReturn, Go, mainOnly, handlerOnly, watcherOnly, client, reloading, watcher,
       collector, fault
<1>20. CASE Apply
    BY <1>20 DEF Apply, Go, mainOnly, handlerOnly, watcherOnly, client, reloading, watcher,
       collector, fault
<1>21. CASE UpdateCurrentHash
    BY <1>21 DEF UpdateCurrentHash, Go, mainOnly, handlerOnly, watcherOnly, client, reloading,
       watcher, collector, fault
<1>22. CASE Report
    BY <1>22 DEF Report, Reporting, Go, mainOnly, handlerOnly, watcherOnly, client, reloading,
       watcher,
       collector, fault
<1>23. CASE LeaveNop
    BY <1>23 DEF LeaveNop, Go, mainOnly, handlerOnly, watcherOnly, client, reloading, watcher,
       collector, fault
<1>24. CASE ReportEffective
    BY <1>24 DEF ReportEffective, Go, mainOnly, handlerOnly, watcherOnly, client, reloading,
       watcher, collector, fault
<1>25. ASSUME NEW m \in Messages, Receive(m) PROVE Collector'
    BY <1>25 DEF Receive, Go, mainOnly, handlerOnly, watcherOnly, client, reloading, watcher,
       collector, fault
<1>26. CASE Poll
    BY <1>26 DEF Poll, mainOnly, handlerOnly, watcherOnly, client, reloading, watcher,
       collector, fault
<1>27. CASE CheckReloading
    BY <1>27 DEF CheckReloading, mainOnly, handlerOnly, watcherOnly, client, reloading, watcher,
       collector, fault
<1>28. CASE SendError
    BY <1>28 DEF SendError, mainOnly, handlerOnly, watcherOnly, client, reloading, watcher,
       collector, fault
<1>29. CASE WatchEnds
    BY <1>29 DEF WatchEnds, mainOnly, handlerOnly, watcherOnly, client, reloading, watcher,
       collector, fault
<1>30. CASE Service
    BY <1>30 DEF Service, ServiceStep, Started, StartFails, Ends, Dies, Closes, Fault, mainOnly,
       handlerOnly, watcherOnly, client, reloading, watcher, collector, fault
<1>31. CASE UNCHANGED vars
    BY <1>31 DEF vars, client, reloading, watcher, collector, fault
<1>32. CASE HashFails
    BY <1>32 DEF HashFails, Reporting, Go, Fault, mainOnly, handlerOnly, watcherOnly, client,
       reloading, watcher, collector, fault
<1>33. CASE ReportFails
    BY <1>33 DEF ReportFails, Reporting, Go, Fault, mainOnly, handlerOnly, watcherOnly, client,
       reloading, watcher, collector, fault
<1>34. CASE EffectiveFails
    BY <1>34 DEF EffectiveFails, Reporting, Go, Fault, mainOnly, handlerOnly, watcherOnly, client,
       reloading, watcher, collector, fault
<1> QED BY <1>1, <1>2, <1>3, <1>4, <1>5, <1>6, <1>7, <1>8, <1>9, <1>10, <1>11, <1>12, <1>13,
   <1>14, <1>15, <1>16, <1>17, <1>18, <1>19, <1>20, <1>21, <1>22, <1>23, <1>24, <1>25, <1>26,
   <1>27, <1>28, <1>29, <1>30, <1>31, <1>32, <1>33, <1>34 DEF Next, MainStep, HandlerStep,
   HandlerFails, WatchStep, Goroutine,
   Reload, FileFails

(* Every step leaves reloads a configuration to write. *)
LEMMA TargetsStep ==
  ASSUME TypeOK, Places, Targets, [Next]_vars
  PROVE  Targets'
PROOF
<1> USE AgentAssumption, CollectorAssumption DEF TypeOK, Targets
<1>1. ASSUME NEW p \in Callers, ReloadLock(p) PROVE Targets'
    BY <1>1 DEF ReloadLock, Go, mainOnly, handlerOnly, watcherOnly, client, reloading, watcher,
       collector, fault
<1>2. ASSUME NEW p \in Callers, Backup(p) PROVE Targets'
    BY <1>2 DEF Backup, Go, mainOnly, handlerOnly, watcherOnly, client, reloading, watcher,
       collector, fault
<1>3. ASSUME NEW p \in Callers, Write(p) PROVE Targets'
    BY <1>3 DEF Write, Go, mainOnly, handlerOnly, watcherOnly, client, reloading, watcher,
       collector, fault
<1>4. ASSUME NEW p \in Callers, Restore(p) PROVE Targets'
    BY <1>4 DEF Restore, Go, mainOnly, handlerOnly, watcherOnly, client, reloading, watcher,
       collector, fault
<1>5. ASSUME NEW p \in Callers, ReloadReturn(p) PROVE Targets'
    BY <1>5 DEF ReloadReturn, Go, mainOnly, handlerOnly, watcherOnly, client, reloading,
       watcher, collector, fault
<1>6. ASSUME NEW p \in Callers, BackupFails(p) PROVE Targets'
    BY <1>6 DEF BackupFails, Go, Fault, mainOnly, handlerOnly, watcherOnly, client, reloading,
       watcher, collector, fault
<1>7. ASSUME NEW p \in Callers, WriteFails(p) PROVE Targets'
    BY <1>7 DEF WriteFails, Go, Fault, mainOnly, handlerOnly, watcherOnly, client, reloading,
       watcher, collector, fault
<1>8. ASSUME NEW p \in Callers, RestoreFails(p) PROVE Targets'
    BY <1>8 DEF RestoreFails, Go, Fault, mainOnly, handlerOnly, watcherOnly, client, reloading,
       watcher, collector, fault
<1>9. ASSUME NEW p \in Callers, Shutdown(p) PROVE Targets'
    BY <1>9 DEF Shutdown, ShutdownLock, ShutdownDone, ShutdownSend, AfterShutdown, Go, mainOnly,
       handlerOnly, watcherOnly, client, reloading, watcher, collector, fault
<1>10. ASSUME NEW p \in Callers, Run(p) PROVE Targets'
    BY <1>10 DEF Run, RunLock, RunReturn, Go, mainOnly, handlerOnly, watcherOnly, client,
       reloading, watcher, collector, fault
<1>11. CASE StartSimple
    BY <1>11 DEF StartSimple, Go, mainOnly, handlerOnly, watcherOnly, client, reloading,
       watcher, collector, fault
<1>12. CASE StartServer
    BY <1>12 DEF StartServer, Go, mainOnly, handlerOnly, watcherOnly, client, reloading,
       watcher, collector, fault
<1>13. CASE StartNop
    BY <1>13 DEF StartNop, Go, mainOnly, handlerOnly, watcherOnly, client, reloading, watcher,
       collector, fault
<1>14. CASE StartReturn
    BY <1>14 DEF StartReturn, Go, mainOnly, handlerOnly, watcherOnly, client, reloading,
       watcher, collector, fault
<1>15. CASE StartFailed
    BY <1>15 DEF StartFailed, Go, mainOnly, handlerOnly, watcherOnly, client, reloading,
       watcher, collector, fault
<1>16. CASE Error
    BY <1>16 DEF Error, StopBegins, Go, mainOnly, handlerOnly, watcherOnly, client, reloading,
       watcher, collector, fault
<1>17. CASE Signal
    BY <1>17 DEF Signal, StopBegins, Go, mainOnly, handlerOnly, watcherOnly, client, reloading,
       watcher, collector, fault
<1>18. CASE StopClient
    BY <1>18 DEF StopClient, Go, mainOnly, handlerOnly, watcherOnly, client, reloading, watcher,
       collector, fault
<1>19. CASE StopReturn
    BY <1>19 DEF StopReturn, Go, mainOnly, handlerOnly, watcherOnly, client, reloading, watcher,
       collector, fault
<1>20. CASE Apply
    BY <1>20 DEF Apply, Go, mainOnly, handlerOnly, watcherOnly, client, reloading, watcher,
       collector, fault
<1>21. CASE UpdateCurrentHash
    BY <1>21 DEF UpdateCurrentHash, Go, mainOnly, handlerOnly, watcherOnly, client, reloading,
       watcher, collector, fault
<1>22. CASE Report
    BY <1>22 DEF Report, Reporting, Go, mainOnly, handlerOnly, watcherOnly, client, reloading,
       watcher,
       collector, fault
<1>23. CASE LeaveNop
    BY <1>23 DEF LeaveNop, Go, mainOnly, handlerOnly, watcherOnly, client, reloading, watcher,
       collector, fault
<1>24. CASE ReportEffective
    BY <1>24 DEF ReportEffective, Go, mainOnly, handlerOnly, watcherOnly, client, reloading,
       watcher, collector, fault
<1>25. ASSUME NEW m \in Messages, Receive(m) PROVE Targets'
    BY <1>25 DEF Receive, Go, mainOnly, handlerOnly, watcherOnly, client, reloading, watcher,
       collector, fault
<1>26. CASE Poll
    BY <1>26 DEF Poll, mainOnly, handlerOnly, watcherOnly, client, reloading, watcher,
       collector, fault
<1>27. CASE CheckReloading
    BY <1>27 DEF CheckReloading, mainOnly, handlerOnly, watcherOnly, client, reloading, watcher,
       collector, fault
<1>28. CASE SendError
    BY <1>28 DEF SendError, mainOnly, handlerOnly, watcherOnly, client, reloading, watcher,
       collector, fault
<1>29. CASE WatchEnds
    BY <1>29 DEF WatchEnds, mainOnly, handlerOnly, watcherOnly, client, reloading, watcher,
       collector, fault
<1>30. CASE Service
    BY <1>30 DEF Service, ServiceStep, Started, StartFails, Ends, Dies, Closes, Fault, mainOnly,
       handlerOnly, watcherOnly, client, reloading, watcher, collector, fault
<1>31. CASE UNCHANGED vars
    BY <1>31 DEF vars, client, reloading, watcher, collector, fault
<1>32. CASE HashFails
    BY <1>32 DEF HashFails, Reporting, Go, Fault, mainOnly, handlerOnly, watcherOnly, client,
       reloading, watcher, collector, fault
<1>33. CASE ReportFails
    BY <1>33 DEF ReportFails, Reporting, Go, Fault, mainOnly, handlerOnly, watcherOnly, client,
       reloading, watcher, collector, fault
<1>34. CASE EffectiveFails
    BY <1>34 DEF EffectiveFails, Reporting, Go, Fault, mainOnly, handlerOnly, watcherOnly, client,
       reloading, watcher, collector, fault
<1> QED BY <1>1, <1>2, <1>3, <1>4, <1>5, <1>6, <1>7, <1>8, <1>9, <1>10, <1>11, <1>12, <1>13,
   <1>14, <1>15, <1>16, <1>17, <1>18, <1>19, <1>20, <1>21, <1>22, <1>23, <1>24, <1>25, <1>26,
   <1>27, <1>28, <1>29, <1>30, <1>31, <1>32, <1>33, <1>34 DEF Next, MainStep, HandlerStep,
   HandlerFails, WatchStep, Goroutine,
   Reload, FileFails

(* The backup is taken in time. *)
LEMMA BackedStep ==
  ASSUME TypeOK, Places, Collector, Targets, Served, Backed, [Next]_vars
  PROVE  Backed'
PROOF
<1> USE AgentAssumption, CollectorAssumption DEF TypeOK, Places, Collector, Targets, Backed,
   Served, OnTrial, Reloading, Undamaged, InCollector, InRestart, InReload, Stopping, Simple,
   MainSteps, HandlerSteps
<1>1. ASSUME NEW p \in Callers, ReloadLock(p) PROVE Backed'
    BY <1>1 DEF ReloadLock, Go, mainOnly, handlerOnly, watcherOnly, client, reloading, watcher,
       collector, fault
<1>2. ASSUME NEW p \in Callers, Backup(p) PROVE Backed'
    BY <1>2 DEF Backup, Go, mainOnly, handlerOnly, watcherOnly, client, reloading, watcher,
       collector, fault
<1>3. ASSUME NEW p \in Callers, Write(p) PROVE Backed'
    BY <1>3 DEF Write, Go, mainOnly, handlerOnly, watcherOnly, client, reloading, watcher,
       collector, fault
<1>4. ASSUME NEW p \in Callers, Restore(p) PROVE Backed'
    BY <1>4 DEF Restore, Go, mainOnly, handlerOnly, watcherOnly, client, reloading, watcher,
       collector, fault
<1>5. ASSUME NEW p \in Callers, ReloadReturn(p) PROVE Backed'
    BY <1>5 DEF ReloadReturn, Go, mainOnly, handlerOnly, watcherOnly, client, reloading,
       watcher, collector, fault
<1>6. ASSUME NEW p \in Callers, BackupFails(p) PROVE Backed'
    BY <1>6 DEF BackupFails, Go, Fault, mainOnly, handlerOnly, watcherOnly, client, reloading,
       watcher, collector, fault
<1>7. ASSUME NEW p \in Callers, WriteFails(p) PROVE Backed'
    BY <1>7 DEF WriteFails, Go, Fault, mainOnly, handlerOnly, watcherOnly, client, reloading,
       watcher, collector, fault
<1>8. ASSUME NEW p \in Callers, RestoreFails(p) PROVE Backed'
    BY <1>8 DEF RestoreFails, Go, Fault, mainOnly, handlerOnly, watcherOnly, client, reloading,
       watcher, collector, fault
<1>9. ASSUME NEW p \in Callers, Shutdown(p) PROVE Backed'
    BY <1>9 DEF Shutdown, ShutdownLock, ShutdownDone, ShutdownSend, AfterShutdown, Go, mainOnly,
       handlerOnly, watcherOnly, client, reloading, watcher, collector, fault
<1>10. ASSUME NEW p \in Callers, Run(p) PROVE Backed'
    BY <1>10 DEF Run, RunLock, RunReturn, Go, mainOnly, handlerOnly, watcherOnly, client,
       reloading, watcher, collector, fault
<1>11. CASE StartSimple
    BY <1>11 DEF StartSimple, Go, mainOnly, handlerOnly, watcherOnly, client, reloading,
       watcher, collector, fault
<1>12. CASE StartServer
    BY <1>12 DEF StartServer, Go, mainOnly, handlerOnly, watcherOnly, client, reloading,
       watcher, collector, fault
<1>13. CASE StartNop
    BY <1>13 DEF StartNop, Go, mainOnly, handlerOnly, watcherOnly, client, reloading, watcher,
       collector, fault
<1>14. CASE StartReturn
    BY <1>14 DEF StartReturn, Go, mainOnly, handlerOnly, watcherOnly, client, reloading,
       watcher, collector, fault
<1>15. CASE StartFailed
    BY <1>15 DEF StartFailed, Go, mainOnly, handlerOnly, watcherOnly, client, reloading,
       watcher, collector, fault
<1>16. CASE Error
    BY <1>16 DEF Error, StopBegins, Go, mainOnly, handlerOnly, watcherOnly, client, reloading,
       watcher, collector, fault
<1>17. CASE Signal
    BY <1>17 DEF Signal, StopBegins, Go, mainOnly, handlerOnly, watcherOnly, client, reloading,
       watcher, collector, fault
<1>18. CASE StopClient
    BY <1>18 DEF StopClient, Go, mainOnly, handlerOnly, watcherOnly, client, reloading, watcher,
       collector, fault
<1>19. CASE StopReturn
    BY <1>19 DEF StopReturn, Go, mainOnly, handlerOnly, watcherOnly, client, reloading, watcher,
       collector, fault
<1>20. CASE Apply
    BY <1>20 DEF Apply, Go, mainOnly, handlerOnly, watcherOnly, client, reloading, watcher,
       collector, fault
<1>21. CASE UpdateCurrentHash
    BY <1>21 DEF UpdateCurrentHash, Go, mainOnly, handlerOnly, watcherOnly, client, reloading,
       watcher, collector, fault
<1>22. CASE Report
    BY <1>22 DEF Report, Reporting, Go, mainOnly, handlerOnly, watcherOnly, client, reloading,
       watcher,
       collector, fault
<1>23. CASE LeaveNop
    BY <1>23 DEF LeaveNop, Go, mainOnly, handlerOnly, watcherOnly, client, reloading, watcher,
       collector, fault
<1>24. CASE ReportEffective
    BY <1>24 DEF ReportEffective, Go, mainOnly, handlerOnly, watcherOnly, client, reloading,
       watcher, collector, fault
<1>25. ASSUME NEW m \in Messages, Receive(m) PROVE Backed'
    BY <1>25 DEF Receive, Go, mainOnly, handlerOnly, watcherOnly, client, reloading, watcher,
       collector, fault
<1>26. CASE Poll
    BY <1>26 DEF Poll, mainOnly, handlerOnly, watcherOnly, client, reloading, watcher,
       collector, fault
<1>27. CASE CheckReloading
    BY <1>27 DEF CheckReloading, mainOnly, handlerOnly, watcherOnly, client, reloading, watcher,
       collector, fault
<1>28. CASE SendError
    BY <1>28 DEF SendError, mainOnly, handlerOnly, watcherOnly, client, reloading, watcher,
       collector, fault
<1>29. CASE WatchEnds
    BY <1>29 DEF WatchEnds, mainOnly, handlerOnly, watcherOnly, client, reloading, watcher,
       collector, fault
<1>30. CASE Service
    BY <1>30 DEF Service, ServiceStep, Started, StartFails, Ends, Dies, Closes, Fault, mainOnly,
       handlerOnly, watcherOnly, client, reloading, watcher, collector, fault
<1>31. CASE UNCHANGED vars
    BY <1>31 DEF vars, client, reloading, watcher, collector, fault
<1>32. CASE HashFails
    BY <1>32 DEF HashFails, Reporting, Go, Fault, mainOnly, handlerOnly, watcherOnly, client,
       reloading, watcher, collector, fault
<1>33. CASE ReportFails
    BY <1>33 DEF ReportFails, Reporting, Go, Fault, mainOnly, handlerOnly, watcherOnly, client,
       reloading, watcher, collector, fault
<1>34. CASE EffectiveFails
    BY <1>34 DEF EffectiveFails, Reporting, Go, Fault, mainOnly, handlerOnly, watcherOnly, client,
       reloading, watcher, collector, fault
<1> QED BY <1>1, <1>2, <1>3, <1>4, <1>5, <1>6, <1>7, <1>8, <1>9, <1>10, <1>11, <1>12, <1>13,
   <1>14, <1>15, <1>16, <1>17, <1>18, <1>19, <1>20, <1>21, <1>22, <1>23, <1>24, <1>25, <1>26,
   <1>27, <1>28, <1>29, <1>30, <1>31, <1>32, <1>33, <1>34 DEF Next, MainStep, HandlerStep,
   HandlerFails, WatchStep, Goroutine,
   Reload, FileFails

(* The file is what is served. *)
LEMMA ServedStep ==
  ASSUME TypeOK, Places, Collector, Served, [Next]_vars
  PROVE  Served'
PROOF
<1> USE AgentAssumption, CollectorAssumption DEF TypeOK, Places, Collector, Served, Reloading,
   Undamaged, InCollector, InRestart, InReload, Stopping, Simple, MainSteps, HandlerSteps
<1>1. ASSUME NEW p \in Callers, ReloadLock(p) PROVE Served'
    BY <1>1 DEF ReloadLock, Go, mainOnly, handlerOnly, watcherOnly, client, reloading, watcher,
       collector, fault
<1>2. ASSUME NEW p \in Callers, Backup(p) PROVE Served'
    BY <1>2 DEF Backup, Go, mainOnly, handlerOnly, watcherOnly, client, reloading, watcher,
       collector, fault
<1>3. ASSUME NEW p \in Callers, Write(p) PROVE Served'
    BY <1>3 DEF Write, Go, mainOnly, handlerOnly, watcherOnly, client, reloading, watcher,
       collector, fault
<1>4. ASSUME NEW p \in Callers, Restore(p) PROVE Served'
    BY <1>4 DEF Restore, Go, mainOnly, handlerOnly, watcherOnly, client, reloading, watcher,
       collector, fault
<1>5. ASSUME NEW p \in Callers, ReloadReturn(p) PROVE Served'
    BY <1>5 DEF ReloadReturn, Go, mainOnly, handlerOnly, watcherOnly, client, reloading,
       watcher, collector, fault
<1>6. ASSUME NEW p \in Callers, BackupFails(p) PROVE Served'
    BY <1>6 DEF BackupFails, Go, Fault, mainOnly, handlerOnly, watcherOnly, client, reloading,
       watcher, collector, fault
<1>7. ASSUME NEW p \in Callers, WriteFails(p) PROVE Served'
    BY <1>7 DEF WriteFails, Go, Fault, mainOnly, handlerOnly, watcherOnly, client, reloading,
       watcher, collector, fault
<1>8. ASSUME NEW p \in Callers, RestoreFails(p) PROVE Served'
    BY <1>8 DEF RestoreFails, Go, Fault, mainOnly, handlerOnly, watcherOnly, client, reloading,
       watcher, collector, fault
<1>9. ASSUME NEW p \in Callers, Shutdown(p) PROVE Served'
    BY <1>9 DEF Shutdown, ShutdownLock, ShutdownDone, ShutdownSend, AfterShutdown, Go, mainOnly,
       handlerOnly, watcherOnly, client, reloading, watcher, collector, fault
<1>10. ASSUME NEW p \in Callers, Run(p) PROVE Served'
    BY <1>10 DEF Run, RunLock, RunReturn, Go, mainOnly, handlerOnly, watcherOnly, client,
       reloading, watcher, collector, fault
<1>11. CASE StartSimple
    BY <1>11 DEF StartSimple, Go, mainOnly, handlerOnly, watcherOnly, client, reloading,
       watcher, collector, fault
<1>12. CASE StartServer
    BY <1>12 DEF StartServer, Go, mainOnly, handlerOnly, watcherOnly, client, reloading,
       watcher, collector, fault
<1>13. CASE StartNop
    BY <1>13 DEF StartNop, Go, mainOnly, handlerOnly, watcherOnly, client, reloading, watcher,
       collector, fault
<1>14. CASE StartReturn
    BY <1>14 DEF StartReturn, Go, mainOnly, handlerOnly, watcherOnly, client, reloading,
       watcher, collector, fault
<1>15. CASE StartFailed
    BY <1>15 DEF StartFailed, Go, mainOnly, handlerOnly, watcherOnly, client, reloading,
       watcher, collector, fault
<1>16. CASE Error
    BY <1>16 DEF Error, StopBegins, Go, mainOnly, handlerOnly, watcherOnly, client, reloading,
       watcher, collector, fault
<1>17. CASE Signal
    BY <1>17 DEF Signal, StopBegins, Go, mainOnly, handlerOnly, watcherOnly, client, reloading,
       watcher, collector, fault
<1>18. CASE StopClient
    BY <1>18 DEF StopClient, Go, mainOnly, handlerOnly, watcherOnly, client, reloading, watcher,
       collector, fault
<1>19. CASE StopReturn
    BY <1>19 DEF StopReturn, Go, mainOnly, handlerOnly, watcherOnly, client, reloading, watcher,
       collector, fault
<1>20. CASE Apply
    BY <1>20 DEF Apply, Go, mainOnly, handlerOnly, watcherOnly, client, reloading, watcher,
       collector, fault
<1>21. CASE UpdateCurrentHash
    BY <1>21 DEF UpdateCurrentHash, Go, mainOnly, handlerOnly, watcherOnly, client, reloading,
       watcher, collector, fault
<1>22. CASE Report
    BY <1>22 DEF Report, Reporting, Go, mainOnly, handlerOnly, watcherOnly, client, reloading,
       watcher,
       collector, fault
<1>23. CASE LeaveNop
    BY <1>23 DEF LeaveNop, Go, mainOnly, handlerOnly, watcherOnly, client, reloading, watcher,
       collector, fault
<1>24. CASE ReportEffective
    BY <1>24 DEF ReportEffective, Go, mainOnly, handlerOnly, watcherOnly, client, reloading,
       watcher, collector, fault
<1>25. ASSUME NEW m \in Messages, Receive(m) PROVE Served'
    BY <1>25 DEF Receive, Go, mainOnly, handlerOnly, watcherOnly, client, reloading, watcher,
       collector, fault
<1>26. CASE Poll
    BY <1>26 DEF Poll, mainOnly, handlerOnly, watcherOnly, client, reloading, watcher,
       collector, fault
<1>27. CASE CheckReloading
    BY <1>27 DEF CheckReloading, mainOnly, handlerOnly, watcherOnly, client, reloading, watcher,
       collector, fault
<1>28. CASE SendError
    BY <1>28 DEF SendError, mainOnly, handlerOnly, watcherOnly, client, reloading, watcher,
       collector, fault
<1>29. CASE WatchEnds
    BY <1>29 DEF WatchEnds, mainOnly, handlerOnly, watcherOnly, client, reloading, watcher,
       collector, fault
<1>30. CASE Service
    BY <1>30 DEF Service, ServiceStep, Started, StartFails, Ends, Dies, Closes, Fault, mainOnly,
       handlerOnly, watcherOnly, client, reloading, watcher, collector, fault
<1>31. CASE UNCHANGED vars
    BY <1>31 DEF vars, client, reloading, watcher, collector, fault
<1>32. CASE HashFails
    BY <1>32 DEF HashFails, Reporting, Go, Fault, mainOnly, handlerOnly, watcherOnly, client,
       reloading, watcher, collector, fault
<1>33. CASE ReportFails
    BY <1>33 DEF ReportFails, Reporting, Go, Fault, mainOnly, handlerOnly, watcherOnly, client,
       reloading, watcher, collector, fault
<1>34. CASE EffectiveFails
    BY <1>34 DEF EffectiveFails, Reporting, Go, Fault, mainOnly, handlerOnly, watcherOnly, client,
       reloading, watcher, collector, fault
<1> QED BY <1>1, <1>2, <1>3, <1>4, <1>5, <1>6, <1>7, <1>8, <1>9, <1>10, <1>11, <1>12, <1>13,
   <1>14, <1>15, <1>16, <1>17, <1>18, <1>19, <1>20, <1>21, <1>22, <1>23, <1>24, <1>25, <1>26,
   <1>27, <1>28, <1>29, <1>30, <1>31, <1>32, <1>33, <1>34 DEF Next, MainStep, HandlerStep,
   HandlerFails, WatchStep, Goroutine,
   Reload, FileFails

(* Start comes first. *)
LEMMA StartFirstStep ==
  ASSUME TypeOK, Places, StartFirst, [Next]_vars
  PROVE  StartFirst'
PROOF
<1> USE AgentAssumption, CollectorAssumption DEF TypeOK, Places, StartFirst, Before, Waiting,
   InCollector, InRestart, InReload, Stopping, Simple, MainSteps, HandlerSteps
<1>1. ASSUME NEW p \in Callers, ReloadLock(p) PROVE StartFirst'
    BY <1>1 DEF ReloadLock, Go, mainOnly, handlerOnly, watcherOnly, client, reloading, watcher,
       collector, fault
<1>2. ASSUME NEW p \in Callers, Backup(p) PROVE StartFirst'
    BY <1>2 DEF Backup, Go, mainOnly, handlerOnly, watcherOnly, client, reloading, watcher,
       collector, fault
<1>3. ASSUME NEW p \in Callers, Write(p) PROVE StartFirst'
    BY <1>3 DEF Write, Go, mainOnly, handlerOnly, watcherOnly, client, reloading, watcher,
       collector, fault
<1>4. ASSUME NEW p \in Callers, Restore(p) PROVE StartFirst'
    BY <1>4 DEF Restore, Go, mainOnly, handlerOnly, watcherOnly, client, reloading, watcher,
       collector, fault
<1>5. ASSUME NEW p \in Callers, ReloadReturn(p) PROVE StartFirst'
    BY <1>5 DEF ReloadReturn, Go, mainOnly, handlerOnly, watcherOnly, client, reloading,
       watcher, collector, fault
<1>6. ASSUME NEW p \in Callers, BackupFails(p) PROVE StartFirst'
    BY <1>6 DEF BackupFails, Go, Fault, mainOnly, handlerOnly, watcherOnly, client, reloading,
       watcher, collector, fault
<1>7. ASSUME NEW p \in Callers, WriteFails(p) PROVE StartFirst'
    BY <1>7 DEF WriteFails, Go, Fault, mainOnly, handlerOnly, watcherOnly, client, reloading,
       watcher, collector, fault
<1>8. ASSUME NEW p \in Callers, RestoreFails(p) PROVE StartFirst'
    BY <1>8 DEF RestoreFails, Go, Fault, mainOnly, handlerOnly, watcherOnly, client, reloading,
       watcher, collector, fault
<1>9. ASSUME NEW p \in Callers, Shutdown(p) PROVE StartFirst'
    BY <1>9 DEF Shutdown, ShutdownLock, ShutdownDone, ShutdownSend, AfterShutdown, Go, mainOnly,
       handlerOnly, watcherOnly, client, reloading, watcher, collector, fault
<1>10. ASSUME NEW p \in Callers, Run(p) PROVE StartFirst'
    BY <1>10 DEF Run, RunLock, RunReturn, Go, mainOnly, handlerOnly, watcherOnly, client,
       reloading, watcher, collector, fault
<1>11. CASE StartSimple
    BY <1>11 DEF StartSimple, Go, mainOnly, handlerOnly, watcherOnly, client, reloading,
       watcher, collector, fault
<1>12. CASE StartServer
    BY <1>12 DEF StartServer, Go, mainOnly, handlerOnly, watcherOnly, client, reloading,
       watcher, collector, fault
<1>13. CASE StartNop
    BY <1>13 DEF StartNop, Go, mainOnly, handlerOnly, watcherOnly, client, reloading, watcher,
       collector, fault
<1>14. CASE StartReturn
    BY <1>14 DEF StartReturn, Go, mainOnly, handlerOnly, watcherOnly, client, reloading,
       watcher, collector, fault
<1>15. CASE StartFailed
    BY <1>15 DEF StartFailed, Go, mainOnly, handlerOnly, watcherOnly, client, reloading,
       watcher, collector, fault
<1>16. CASE Error
    BY <1>16 DEF Error, StopBegins, Go, mainOnly, handlerOnly, watcherOnly, client, reloading,
       watcher, collector, fault
<1>17. CASE Signal
    BY <1>17 DEF Signal, StopBegins, Go, mainOnly, handlerOnly, watcherOnly, client, reloading,
       watcher, collector, fault
<1>18. CASE StopClient
    BY <1>18 DEF StopClient, Go, mainOnly, handlerOnly, watcherOnly, client, reloading, watcher,
       collector, fault
<1>19. CASE StopReturn
    BY <1>19 DEF StopReturn, Go, mainOnly, handlerOnly, watcherOnly, client, reloading, watcher,
       collector, fault
<1>20. CASE Apply
    BY <1>20 DEF Apply, Go, mainOnly, handlerOnly, watcherOnly, client, reloading, watcher,
       collector, fault
<1>21. CASE UpdateCurrentHash
    BY <1>21 DEF UpdateCurrentHash, Go, mainOnly, handlerOnly, watcherOnly, client, reloading,
       watcher, collector, fault
<1>22. CASE Report
    BY <1>22 DEF Report, Reporting, Go, mainOnly, handlerOnly, watcherOnly, client, reloading,
       watcher,
       collector, fault
<1>23. CASE LeaveNop
    BY <1>23 DEF LeaveNop, Go, mainOnly, handlerOnly, watcherOnly, client, reloading, watcher,
       collector, fault
<1>24. CASE ReportEffective
    BY <1>24 DEF ReportEffective, Go, mainOnly, handlerOnly, watcherOnly, client, reloading,
       watcher, collector, fault
<1>25. ASSUME NEW m \in Messages, Receive(m) PROVE StartFirst'
    BY <1>25 DEF Receive, Go, mainOnly, handlerOnly, watcherOnly, client, reloading, watcher,
       collector, fault
<1>26. CASE Poll
    BY <1>26 DEF Poll, mainOnly, handlerOnly, watcherOnly, client, reloading, watcher,
       collector, fault
<1>27. CASE CheckReloading
    BY <1>27 DEF CheckReloading, mainOnly, handlerOnly, watcherOnly, client, reloading, watcher,
       collector, fault
<1>28. CASE SendError
    BY <1>28 DEF SendError, mainOnly, handlerOnly, watcherOnly, client, reloading, watcher,
       collector, fault
<1>29. CASE WatchEnds
    BY <1>29 DEF WatchEnds, mainOnly, handlerOnly, watcherOnly, client, reloading, watcher,
       collector, fault
<1>30. CASE Service
    BY <1>30 DEF Service, ServiceStep, Started, StartFails, Ends, Dies, Closes, Fault, mainOnly,
       handlerOnly, watcherOnly, client, reloading, watcher, collector, fault
<1>31. CASE UNCHANGED vars
    BY <1>31 DEF vars, client, reloading, watcher, collector, fault
<1>32. CASE HashFails
    BY <1>32 DEF HashFails, Reporting, Go, Fault, mainOnly, handlerOnly, watcherOnly, client,
       reloading, watcher, collector, fault
<1>33. CASE ReportFails
    BY <1>33 DEF ReportFails, Reporting, Go, Fault, mainOnly, handlerOnly, watcherOnly, client,
       reloading, watcher, collector, fault
<1>34. CASE EffectiveFails
    BY <1>34 DEF EffectiveFails, Reporting, Go, Fault, mainOnly, handlerOnly, watcherOnly, client,
       reloading, watcher, collector, fault
<1> QED BY <1>1, <1>2, <1>3, <1>4, <1>5, <1>6, <1>7, <1>8, <1>9, <1>10, <1>11, <1>12, <1>13,
   <1>14, <1>15, <1>16, <1>17, <1>18, <1>19, <1>20, <1>21, <1>22, <1>23, <1>24, <1>25, <1>26,
   <1>27, <1>28, <1>29, <1>30, <1>31, <1>32, <1>33, <1>34 DEF Next, MainStep, HandlerStep,
   HandlerFails, WatchStep, Goroutine,
   Reload, FileFails

(* Reports are true. *)
LEMMA ReportedStep ==
  ASSUME TypeOK, Places, Collector, Targets, Backed, StartFirst, Reported, [Next]_vars
  PROVE  Reported'
PROOF
<1> USE AgentAssumption, CollectorAssumption DEF TypeOK, Places, Targets, Backed, StartFirst,
   Reported,
   Before, Waiting, Settled, InForce, Over, HashLost, Fresh, Found,
   OnTrial, Reloading, Undamaged, InCollector, InRestart, InReload,
   Stopping, Simple, MainSteps, HandlerSteps
<1>1. ASSUME NEW p \in Callers, ReloadLock(p) PROVE Reported'
    BY <1>1 DEF ReloadLock, Go, mainOnly, handlerOnly, watcherOnly, client, reloading, watcher,
       collector, fault
<1>2. ASSUME NEW p \in Callers, Backup(p) PROVE Reported'
    BY <1>2 DEF Backup, Go, mainOnly, handlerOnly, watcherOnly, client, reloading, watcher,
       collector, fault
<1>3. ASSUME NEW p \in Callers, Write(p) PROVE Reported'
    BY <1>3 DEF Write, Go, mainOnly, handlerOnly, watcherOnly, client, reloading, watcher,
       collector, fault
<1>4. ASSUME NEW p \in Callers, Restore(p) PROVE Reported'
    BY <1>4 DEF Restore, Go, mainOnly, handlerOnly, watcherOnly, client, reloading, watcher,
       collector, fault
<1>5. ASSUME NEW p \in Callers, ReloadReturn(p) PROVE Reported'
    BY <1>5 DEF ReloadReturn, Go, mainOnly, handlerOnly, watcherOnly, client, reloading,
       watcher, collector, fault
<1>6. ASSUME NEW p \in Callers, BackupFails(p) PROVE Reported'
    BY <1>6 DEF BackupFails, Go, Fault, mainOnly, handlerOnly, watcherOnly, client, reloading,
       watcher, collector, fault
<1>7. ASSUME NEW p \in Callers, WriteFails(p) PROVE Reported'
    BY <1>7 DEF WriteFails, Go, Fault, mainOnly, handlerOnly, watcherOnly, client, reloading,
       watcher, collector, fault
<1>8. ASSUME NEW p \in Callers, RestoreFails(p) PROVE Reported'
    BY <1>8 DEF RestoreFails, Go, Fault, mainOnly, handlerOnly, watcherOnly, client, reloading,
       watcher, collector, fault
<1>9. ASSUME NEW p \in Callers, Shutdown(p) PROVE Reported'
    BY <1>9 DEF Shutdown, ShutdownLock, ShutdownDone, ShutdownSend, AfterShutdown, Go, mainOnly,
       handlerOnly, watcherOnly, client, reloading, watcher, collector, fault
<1>10. ASSUME NEW p \in Callers, Run(p) PROVE Reported'
    BY <1>10 DEF Run, RunLock, RunReturn, Go, mainOnly, handlerOnly, watcherOnly, client,
       reloading, watcher, collector, fault
<1>11. CASE StartSimple
    BY <1>11 DEF StartSimple, Go, mainOnly, handlerOnly, watcherOnly, client, reloading,
       watcher, collector, fault
<1>12. CASE StartServer
    BY <1>12 DEF StartServer, Go, mainOnly, handlerOnly, watcherOnly, client, reloading,
       watcher, collector, fault
<1>13. CASE StartNop
    BY <1>13 DEF StartNop, Go, mainOnly, handlerOnly, watcherOnly, client, reloading, watcher,
       collector, fault
<1>14. CASE StartReturn
    BY <1>14 DEF StartReturn, Go, mainOnly, handlerOnly, watcherOnly, client, reloading,
       watcher, collector, fault
<1>15. CASE StartFailed
    BY <1>15 DEF StartFailed, Go, mainOnly, handlerOnly, watcherOnly, client, reloading,
       watcher, collector, fault
<1>16. CASE Error
    BY <1>16 DEF Error, StopBegins, Go, mainOnly, handlerOnly, watcherOnly, client, reloading,
       watcher, collector, fault
<1>17. CASE Signal
    BY <1>17 DEF Signal, StopBegins, Go, mainOnly, handlerOnly, watcherOnly, client, reloading,
       watcher, collector, fault
<1>18. CASE StopClient
    BY <1>18 DEF StopClient, Go, mainOnly, handlerOnly, watcherOnly, client, reloading, watcher,
       collector, fault
<1>19. CASE StopReturn
    BY <1>19 DEF StopReturn, Go, mainOnly, handlerOnly, watcherOnly, client, reloading, watcher,
       collector, fault
<1>20. CASE Apply
    BY <1>20 DEF Apply, Go, mainOnly, handlerOnly, watcherOnly, client, reloading, watcher,
       collector, fault
<1>21. CASE UpdateCurrentHash
    BY <1>21 DEF UpdateCurrentHash, Go, mainOnly, handlerOnly, watcherOnly, client, reloading,
       watcher, collector, fault
<1>22. CASE Report
    BY <1>22 DEF Report, Reporting, Go, mainOnly, handlerOnly, watcherOnly, client, reloading,
       watcher,
       collector, fault
<1>23. CASE LeaveNop
    BY <1>23 DEF LeaveNop, Go, mainOnly, handlerOnly, watcherOnly, client, reloading, watcher,
       collector, fault
<1>24. CASE ReportEffective
    BY <1>24 DEF ReportEffective, Go, mainOnly, handlerOnly, watcherOnly, client, reloading,
       watcher, collector, fault
<1>25. ASSUME NEW m \in Messages, Receive(m) PROVE Reported'
    BY <1>25 DEF Receive, Go, mainOnly, handlerOnly, watcherOnly, client, reloading, watcher,
       collector, fault
<1>26. CASE Poll
    BY <1>26 DEF Poll, mainOnly, handlerOnly, watcherOnly, client, reloading, watcher,
       collector, fault
<1>27. CASE CheckReloading
    BY <1>27 DEF CheckReloading, mainOnly, handlerOnly, watcherOnly, client, reloading, watcher,
       collector, fault
<1>28. CASE SendError
    BY <1>28 DEF SendError, mainOnly, handlerOnly, watcherOnly, client, reloading, watcher,
       collector, fault
<1>29. CASE WatchEnds
    BY <1>29 DEF WatchEnds, mainOnly, handlerOnly, watcherOnly, client, reloading, watcher,
       collector, fault
<1>30. CASE Service
    BY <1>30 DEF Service, ServiceStep, Started, StartFails, Ends, Dies, Closes, Fault, mainOnly,
       handlerOnly, watcherOnly, client, reloading, watcher, collector, fault
<1>31. CASE UNCHANGED vars
    BY <1>31 DEF vars, client, reloading, watcher, collector, fault
<1>32. CASE HashFails
    BY <1>32 DEF HashFails, Reporting, Go, Fault, mainOnly, handlerOnly, watcherOnly, client,
       reloading, watcher, collector, fault
<1>33. CASE ReportFails
    BY <1>33 DEF ReportFails, Reporting, Go, Fault, mainOnly, handlerOnly, watcherOnly, client,
       reloading, watcher, collector, fault
<1>34. CASE EffectiveFails
    BY <1>34 DEF EffectiveFails, Reporting, Go, Fault, mainOnly, handlerOnly, watcherOnly, client,
       reloading, watcher, collector, fault
<1> QED BY <1>1, <1>2, <1>3, <1>4, <1>5, <1>6, <1>7, <1>8, <1>9, <1>10, <1>11, <1>12, <1>13,
   <1>14, <1>15, <1>16, <1>17, <1>18, <1>19, <1>20, <1>21, <1>22, <1>23, <1>24, <1>25, <1>26,
   <1>27, <1>28, <1>29, <1>30, <1>31, <1>32, <1>33, <1>34 DEF Next, MainStep, HandlerStep,
   HandlerFails, WatchStep, Goroutine,
   Reload, FileFails

(* The collector runs. *)
LEMMA ServingStep ==
  ASSUME TypeOK, Places, Collector, Backed, Served, Serving, [Next]_vars
  PROVE  Serving'
PROOF
<1> USE AgentAssumption, CollectorAssumption DEF TypeOK, Places, Collector, Backed, Served,
   Serving, Harmless, OnTrial, Reloading, Undamaged, InCollector, InRestart, InReload, Stopping,
      Simple,
   MainSteps, HandlerSteps
<1>1. ASSUME NEW p \in Callers, ReloadLock(p) PROVE Serving'
    BY <1>1 DEF ReloadLock, Go, mainOnly, handlerOnly, watcherOnly, client, reloading, watcher,
       collector, fault
<1>2. ASSUME NEW p \in Callers, Backup(p) PROVE Serving'
    BY <1>2 DEF Backup, Go, mainOnly, handlerOnly, watcherOnly, client, reloading, watcher,
       collector, fault
<1>3. ASSUME NEW p \in Callers, Write(p) PROVE Serving'
    BY <1>3 DEF Write, Go, mainOnly, handlerOnly, watcherOnly, client, reloading, watcher,
       collector, fault
<1>4. ASSUME NEW p \in Callers, Restore(p) PROVE Serving'
    BY <1>4 DEF Restore, Go, mainOnly, handlerOnly, watcherOnly, client, reloading, watcher,
       collector, fault
<1>5. ASSUME NEW p \in Callers, ReloadReturn(p) PROVE Serving'
    BY <1>5 DEF ReloadReturn, Go, mainOnly, handlerOnly, watcherOnly, client, reloading,
       watcher, collector, fault
<1>6. ASSUME NEW p \in Callers, BackupFails(p) PROVE Serving'
    BY <1>6 DEF BackupFails, Go, Fault, mainOnly, handlerOnly, watcherOnly, client, reloading,
       watcher, collector, fault
<1>7. ASSUME NEW p \in Callers, WriteFails(p) PROVE Serving'
    BY <1>7 DEF WriteFails, Go, Fault, mainOnly, handlerOnly, watcherOnly, client, reloading,
       watcher, collector, fault
<1>8. ASSUME NEW p \in Callers, RestoreFails(p) PROVE Serving'
    BY <1>8 DEF RestoreFails, Go, Fault, mainOnly, handlerOnly, watcherOnly, client, reloading,
       watcher, collector, fault
<1>9. ASSUME NEW p \in Callers, Shutdown(p) PROVE Serving'
    BY <1>9 DEF Shutdown, ShutdownLock, ShutdownDone, ShutdownSend, AfterShutdown, Go, mainOnly,
       handlerOnly, watcherOnly, client, reloading, watcher, collector, fault
<1>10. ASSUME NEW p \in Callers, Run(p) PROVE Serving'
    BY <1>10 DEF Run, RunLock, RunReturn, Go, mainOnly, handlerOnly, watcherOnly, client,
       reloading, watcher, collector, fault
<1>11. CASE StartSimple
    BY <1>11 DEF StartSimple, Go, mainOnly, handlerOnly, watcherOnly, client, reloading,
       watcher, collector, fault
<1>12. CASE StartServer
    BY <1>12 DEF StartServer, Go, mainOnly, handlerOnly, watcherOnly, client, reloading,
       watcher, collector, fault
<1>13. CASE StartNop
    BY <1>13 DEF StartNop, Go, mainOnly, handlerOnly, watcherOnly, client, reloading, watcher,
       collector, fault
<1>14. CASE StartReturn
    BY <1>14 DEF StartReturn, Go, mainOnly, handlerOnly, watcherOnly, client, reloading,
       watcher, collector, fault
<1>15. CASE StartFailed
    BY <1>15 DEF StartFailed, Go, mainOnly, handlerOnly, watcherOnly, client, reloading,
       watcher, collector, fault
<1>16. CASE Error
    BY <1>16 DEF Error, StopBegins, Go, mainOnly, handlerOnly, watcherOnly, client, reloading,
       watcher, collector, fault
<1>17. CASE Signal
    BY <1>17 DEF Signal, StopBegins, Go, mainOnly, handlerOnly, watcherOnly, client, reloading,
       watcher, collector, fault
<1>18. CASE StopClient
    BY <1>18 DEF StopClient, Go, mainOnly, handlerOnly, watcherOnly, client, reloading, watcher,
       collector, fault
<1>19. CASE StopReturn
    BY <1>19 DEF StopReturn, Go, mainOnly, handlerOnly, watcherOnly, client, reloading, watcher,
       collector, fault
<1>20. CASE Apply
    BY <1>20 DEF Apply, Go, mainOnly, handlerOnly, watcherOnly, client, reloading, watcher,
       collector, fault
<1>21. CASE UpdateCurrentHash
    BY <1>21 DEF UpdateCurrentHash, Go, mainOnly, handlerOnly, watcherOnly, client, reloading,
       watcher, collector, fault
<1>22. CASE Report
    BY <1>22 DEF Report, Reporting, Go, mainOnly, handlerOnly, watcherOnly, client, reloading,
       watcher,
       collector, fault
<1>23. CASE LeaveNop
    BY <1>23 DEF LeaveNop, Go, mainOnly, handlerOnly, watcherOnly, client, reloading, watcher,
       collector, fault
<1>24. CASE ReportEffective
    BY <1>24 DEF ReportEffective, Go, mainOnly, handlerOnly, watcherOnly, client, reloading,
       watcher, collector, fault
<1>25. ASSUME NEW m \in Messages, Receive(m) PROVE Serving'
    BY <1>25 DEF Receive, Go, mainOnly, handlerOnly, watcherOnly, client, reloading, watcher,
       collector, fault
<1>26. CASE Poll
    BY <1>26 DEF Poll, mainOnly, handlerOnly, watcherOnly, client, reloading, watcher,
       collector, fault
<1>27. CASE CheckReloading
    BY <1>27 DEF CheckReloading, mainOnly, handlerOnly, watcherOnly, client, reloading, watcher,
       collector, fault
<1>28. CASE SendError
    BY <1>28 DEF SendError, mainOnly, handlerOnly, watcherOnly, client, reloading, watcher,
       collector, fault
<1>29. CASE WatchEnds
    BY <1>29 DEF WatchEnds, mainOnly, handlerOnly, watcherOnly, client, reloading, watcher,
       collector, fault
<1>30. CASE Service
    BY <1>30 DEF Service, ServiceStep, Started, StartFails, Ends, Dies, Closes, Fault, mainOnly,
       handlerOnly, watcherOnly, client, reloading, watcher, collector, fault
<1>31. CASE UNCHANGED vars
    BY <1>31 DEF vars, client, reloading, watcher, collector, fault
<1>32. CASE HashFails
    BY <1>32 DEF HashFails, Reporting, Go, Fault, mainOnly, handlerOnly, watcherOnly, client,
       reloading, watcher, collector, fault
<1>33. CASE ReportFails
    BY <1>33 DEF ReportFails, Reporting, Go, Fault, mainOnly, handlerOnly, watcherOnly, client,
       reloading, watcher, collector, fault
<1>34. CASE EffectiveFails
    BY <1>34 DEF EffectiveFails, Reporting, Go, Fault, mainOnly, handlerOnly, watcherOnly, client,
       reloading, watcher, collector, fault
<1> QED BY <1>1, <1>2, <1>3, <1>4, <1>5, <1>6, <1>7, <1>8, <1>9, <1>10, <1>11, <1>12, <1>13,
   <1>14, <1>15, <1>16, <1>17, <1>18, <1>19, <1>20, <1>21, <1>22, <1>23, <1>24, <1>25, <1>26,
   <1>27, <1>28, <1>29, <1>30, <1>31, <1>32, <1>33, <1>34 DEF Next, MainStep, HandlerStep,
   HandlerFails, WatchStep, Goroutine,
   Reload, FileFails

-----------------------------------------------------------------------------
(* The inductive invariant of the agent. *)
IInv ==
  /\ TypeOK /\ Places /\ Collector /\ Targets /\ Backed /\ Served /\ StartFirst /\ Reported
  /\ Serving

(* It holds when the process starts. *)
LEMMA InitInvariant == Init => IInv
PROOF
<1> SUFFICES ASSUME Init PROVE IInv
    OBVIOUS
<1> USE AgentAssumption, CollectorAssumption
<1>0. /\ pc["main"] = "start" /\ pc["handler"] = "idle"
      /\ \A p \in Callers : pc[p] \in {"start", "idle"}
    BY DEF Init
<1>1. TypeOK
    BY <1>0 DEF Init, TypeOK, MainSteps, HandlerSteps, InReload, InRestart, InCollector, Stopping
<1>2. Places
    BY <1>0 DEF Init, Places, InReload, InRestart, InCollector, Stopping, Simple
<1>3. Collector /\ Targets
    BY <1>0 DEF Init, Collector, Targets
<1>4. Backed /\ Served
    BY <1>0 DEF Init, Backed, Served, OnTrial, Reloading
<1>5. StartFirst /\ Reported /\ Serving
    BY <1>0 DEF Init, StartFirst, Reported, Found, Fresh, Serving, Before, Waiting, InForce,
       OnTrial, Reloading
<1> QED BY <1>1, <1>2, <1>3, <1>4, <1>5 DEF IInv

(* Every behaviour of the agent satisfies it. *)
THEOREM Invariant == Spec => []IInv
PROOF
<1>1. IInv /\ [Next]_vars => IInv'
    BY TypeStep, PlacesStep, CollectorStep, TargetsStep, BackedStep, ServedStep, StartFirstStep,
       ReportedStep, ServingStep DEF IInv
<1> QED BY <1>1, InitInvariant, PTL DEF Spec

(* The variables keep their types, and the two mutexes are held exactly at *)
(* the places of the code that lie between their lock and their unlock.    *)
THEOREM TypeCorrect == Spec => [](TypeOK /\ Places)
PROOF
<1>1. IInv => TypeOK /\ Places
    BY DEF IInv
<1> QED BY <1>1, Invariant, PTL

(* Outside reload a collector that runs was started with what the          *)
(* configuration file holds.                                               *)
THEOREM RunsTheFile == Spec => []RunningIsFile
PROOF
<1>1. IInv => RunningIsFile
    BY DEF IInv, Served, RunningIsFile, Undamaged
<1> QED BY <1>1, Invariant, PTL

(* A remote configuration the agent has reported as APPLIED is the one in  *)
(* the file and the effective one that was sent, once the agent is at      *)
(* rest, with the exceptions the property names.                           *)
THEOREM AppliedIsInForce == Spec => []AppliedInForce
PROOF
<1>1. ASSUME IInv PROVE AppliedInForce
  <2> SUFFICES ASSUME Quiet, status.st = "APPLIED", status.config # NoConfig, Undamaged,
                      "status" \notin events
               PROVE  \/ early /\ file = Nop
                      \/ "hash" \in events /\ status.config = Empty
                      \/ /\ file = status.config
                         /\ effective = status.config \/ "effective" \in events
      BY DEF AppliedInForce, Undamaged
  <2>1. ~Reloading
      BY <1>1, AgentAssumption DEF IInv, TypeOK, Places, Quiet, Reloading, InReload, InRestart,
             InCollector
  <2>2. InForce = file
      BY <2>1 DEF InForce, OnTrial
  <2>3. Settled /\ ~Fresh
      BY DEF Settled, Fresh, Quiet
  <2>4. Over \/ Found
      BY <1>1, <2>3 DEF IInv, Reported
  <2>5. CASE Over
      BY <2>2, <2>5 DEF Over
  <2>6. CASE Found
    <3>1. initialConfigReceived /\ (status.config = file \/ HashLost(status.config))
        BY <2>2, <2>3, <2>6 DEF Found
    <3>2. effective = file \/ "effective" \in events
        BY <2>2, <2>3, <2>6, <3>1 DEF Found, Quiet
    <3> QED BY <3>1, <3>2 DEF HashLost
  <2> QED BY <2>4, <2>5, <2>6
<1> QED BY <1>1, Invariant, PTL

(* After a remote configuration that FAILED the collector runs again, with *)
(* a configuration it starts with, unless the file or the collector failed. *)
THEOREM FailureRollsBack == Spec => []FailedIsRolledBack
PROOF
<1>1. IInv => FailedIsRolledBack
    BY DEF IInv, Serving, Harmless, Collector, FailedIsRolledBack, Quiet
<1> QED BY <1>1, Invariant, PTL

-----------------------------------------------------------------------------
(***************************************************************************)
(* The refinement: every step of the agent is a step of the register or    *)
(* leaves it as it is.                                                     *)
(***************************************************************************)

(* The agent starts as a register that holds the initial configuration. *)
LEMMA RegisterInit == Init => Register!Init
PROOF
    BY AgentAssumption, CollectorAssumption DEF Init, Register!Init, OnTrial, Reloading

(* Every step of the agent is one of the register. *)
LEMMA RegisterStep ==
  ASSUME IInv, IInv', [Next]_vars
  PROVE  [Register!Next]_(Register!vars)
PROOF
<1> USE AgentAssumption, CollectorAssumption DEF IInv, TypeOK, Places, Collector, Targets,
   Backed, Served, OnTrial, Reloading, Undamaged, InCollector, InRestart, InReload, Stopping,
   Simple, MainSteps, HandlerSteps, Register!Next, Register!vars, Register!Start, Register!End,
   Register!BeginSwitch, Register!Adopt, Register!EndSwitch, Register!Damage, Register!Damaged
<1>1. ASSUME NEW p \in Callers, ReloadLock(p) PROVE [Register!Next]_(Register!vars)
    BY <1>1 DEF ReloadLock, Go, mainOnly, handlerOnly, watcherOnly, client, reloading, watcher,
       collector, fault
<1>2. ASSUME NEW p \in Callers, Backup(p) PROVE [Register!Next]_(Register!vars)
    BY <1>2 DEF Backup, Go, mainOnly, handlerOnly, watcherOnly, client, reloading, watcher,
       collector, fault
<1>3. ASSUME NEW p \in Callers, Write(p) PROVE [Register!Next]_(Register!vars)
    BY <1>3 DEF Write, Go, mainOnly, handlerOnly, watcherOnly, client, reloading, watcher,
       collector, fault
<1>4. ASSUME NEW p \in Callers, Restore(p) PROVE [Register!Next]_(Register!vars)
    BY <1>4 DEF Restore, Go, mainOnly, handlerOnly, watcherOnly, client, reloading, watcher,
       collector, fault
<1>5. ASSUME NEW p \in Callers, ReloadReturn(p) PROVE [Register!Next]_(Register!vars)
    BY <1>5 DEF ReloadReturn, Go, mainOnly, handlerOnly, watcherOnly, client, reloading,
       watcher, collector, fault
<1>6. ASSUME NEW p \in Callers, BackupFails(p) PROVE [Register!Next]_(Register!vars)
    BY <1>6 DEF BackupFails, Go, Fault, mainOnly, handlerOnly, watcherOnly, client, reloading,
       watcher, collector, fault
<1>7. ASSUME NEW p \in Callers, WriteFails(p) PROVE [Register!Next]_(Register!vars)
    BY <1>7 DEF WriteFails, Go, Fault, mainOnly, handlerOnly, watcherOnly, client, reloading,
       watcher, collector, fault
<1>8. ASSUME NEW p \in Callers, RestoreFails(p) PROVE [Register!Next]_(Register!vars)
    BY <1>8 DEF RestoreFails, Go, Fault, mainOnly, handlerOnly, watcherOnly, client, reloading,
       watcher, collector, fault
<1>9. ASSUME NEW p \in Callers, Shutdown(p) PROVE [Register!Next]_(Register!vars)
    BY <1>9 DEF Shutdown, ShutdownLock, ShutdownDone, ShutdownSend, AfterShutdown, Go, mainOnly,
       handlerOnly, watcherOnly, client, reloading, watcher, collector, fault
<1>10. ASSUME NEW p \in Callers, Run(p) PROVE [Register!Next]_(Register!vars)
    BY <1>10 DEF Run, RunLock, RunReturn, Go, mainOnly, handlerOnly, watcherOnly, client,
       reloading, watcher, collector, fault
<1>11. CASE StartSimple
    BY <1>11 DEF StartSimple, Go, mainOnly, handlerOnly, watcherOnly, client, reloading,
       watcher, collector, fault
<1>12. CASE StartServer
    BY <1>12 DEF StartServer, Go, mainOnly, handlerOnly, watcherOnly, client, reloading,
       watcher, collector, fault
<1>13. CASE StartNop
    BY <1>13 DEF StartNop, Go, mainOnly, handlerOnly, watcherOnly, client, reloading, watcher,
       collector, fault
<1>14. CASE StartReturn
    BY <1>14 DEF StartReturn, Go, mainOnly, handlerOnly, watcherOnly, client, reloading,
       watcher, collector, fault
<1>15. CASE StartFailed
    BY <1>15 DEF StartFailed, Go, mainOnly, handlerOnly, watcherOnly, client, reloading,
       watcher, collector, fault
<1>16. CASE Error
    BY <1>16 DEF Error, StopBegins, Go, mainOnly, handlerOnly, watcherOnly, client, reloading,
       watcher, collector, fault
<1>17. CASE Signal
    BY <1>17 DEF Signal, StopBegins, Go, mainOnly, handlerOnly, watcherOnly, client, reloading,
       watcher, collector, fault
<1>18. CASE StopClient
    BY <1>18 DEF StopClient, Go, mainOnly, handlerOnly, watcherOnly, client, reloading, watcher,
       collector, fault
<1>19. CASE StopReturn
    BY <1>19 DEF StopReturn, Go, mainOnly, handlerOnly, watcherOnly, client, reloading, watcher,
       collector, fault
<1>20. CASE Apply
    BY <1>20 DEF Apply, Go, mainOnly, handlerOnly, watcherOnly, client, reloading, watcher,
       collector, fault
<1>21. CASE UpdateCurrentHash
    BY <1>21 DEF UpdateCurrentHash, Go, mainOnly, handlerOnly, watcherOnly, client, reloading,
       watcher, collector, fault
<1>22. CASE Report
    BY <1>22 DEF Report, Reporting, Go, mainOnly, handlerOnly, watcherOnly, client, reloading,
       watcher,
       collector, fault
<1>23. CASE LeaveNop
    BY <1>23 DEF LeaveNop, Go, mainOnly, handlerOnly, watcherOnly, client, reloading, watcher,
       collector, fault
<1>24. CASE ReportEffective
    BY <1>24 DEF ReportEffective, Go, mainOnly, handlerOnly, watcherOnly, client, reloading,
       watcher, collector, fault
<1>25. ASSUME NEW m \in Messages, Receive(m) PROVE [Register!Next]_(Register!vars)
    BY <1>25 DEF Receive, Go, mainOnly, handlerOnly, watcherOnly, client, reloading, watcher,
       collector, fault
<1>26. CASE Poll
    BY <1>26 DEF Poll, mainOnly, handlerOnly, watcherOnly, client, reloading, watcher,
       collector, fault
<1>27. CASE CheckReloading
    BY <1>27 DEF CheckReloading, mainOnly, handlerOnly, watcherOnly, client, reloading, watcher,
       collector, fault
<1>28. CASE SendError
    BY <1>28 DEF SendError, mainOnly, handlerOnly, watcherOnly, client, reloading, watcher,
       collector, fault
<1>29. CASE WatchEnds
    BY <1>29 DEF WatchEnds, mainOnly, handlerOnly, watcherOnly, client, reloading, watcher,
       collector, fault
<1>30. CASE Service
    BY <1>30 DEF Service, ServiceStep, Started, StartFails, Ends, Dies, Closes, Fault, mainOnly,
       handlerOnly, watcherOnly, client, reloading, watcher, collector, fault
<1>31. CASE UNCHANGED vars
    BY <1>31 DEF vars, client, reloading, watcher, collector, fault
<1>32. CASE HashFails
    BY <1>32 DEF HashFails, Reporting, Go, Fault, mainOnly, handlerOnly, watcherOnly, client,
       reloading, watcher, collector, fault
<1>33. CASE ReportFails
    BY <1>33 DEF ReportFails, Reporting, Go, Fault, mainOnly, handlerOnly, watcherOnly, client,
       reloading, watcher, collector, fault
<1>34. CASE EffectiveFails
    BY <1>34 DEF EffectiveFails, Reporting, Go, Fault, mainOnly, handlerOnly, watcherOnly, client,
       reloading, watcher, collector, fault
<1> QED BY <1>1, <1>2, <1>3, <1>4, <1>5, <1>6, <1>7, <1>8, <1>9, <1>10, <1>11, <1>12, <1>13,
   <1>14, <1>15, <1>16, <1>17, <1>18, <1>19, <1>20, <1>21, <1>22, <1>23, <1>24, <1>25, <1>26,
   <1>27, <1>28, <1>29, <1>30, <1>31, <1>32, <1>33, <1>34 DEF Next, MainStep, HandlerStep,
   HandlerFails, WatchStep, Goroutine,
   Reload, FileFails

(* The agent implements the register. *)
THEOREM Implements == Spec => ImplementsRegister
PROOF
<1>1. IInv /\ IInv' /\ [Next]_vars => [Register!Next]_(Register!vars)
    BY RegisterStep
<1> QED BY <1>1, Invariant, RegisterInit, PTL DEF Spec, ImplementsRegister, Register!Spec

=============================================================================
