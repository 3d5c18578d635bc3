----------------------------- MODULE OpampAgent -----------------------------
(***************************************************************************)
(* The OpAMP agent (opamp/) and the program around it (service/service.go, *)
(* cmd/signozotelcollector/main.go), over the wrapped collector.  The main *)
(* goroutine starts the client, waits, and stops it; the client's callback *)
(* goroutine applies remote configurations; a watcher polls the            *)
(* collector's state.  The file system and the collector may fail.         *)
(***************************************************************************)
EXTENDS WrappedCollector

CONSTANTS
  Nop,         \* the no-op form of the initial configuration
  Empty,       \* an empty file, with which no collector starts
  Messages,    \* remote configurations; NoConfig is a message without one
  NoConfig,
  Nothing,     \* no configuration
  MaxMessages  \* bound on messages

ASSUME AgentAssumption ==
  /\ Callers = {"main", "handler"}
  /\ Nop \in Startable /\ Empty \in Configs \ Startable
  /\ Messages \subseteq Configs \cup {NoConfig}
  /\ NoConfig \notin Configs /\ Nothing \notin Configs /\ MaxMessages \in Nat

VARIABLES
  server,       \* there is a manager configuration: serverClient, not simpleClient
  rollback,     \* the file <config>.rollback
  reloadMux,    \* its holder, or "free"; isReloading is true while it is held
  target,       \* caller -> the contents its reload is to write
  attempt,      \* caller -> 1 the restart of its reload, 2 the one after a rollback
  connected,    \* the OpAMP client delivers messages
  received,     \* messages delivered
  early,        \* one was delivered before Start had the reload mutex
  hash,         \* currentHash, as the contents it was taken of
  initialConfigReceived,
  runningNopConfig,
  status,       \* the last remote configuration status: [config, st]
  effective,    \* the last effective configuration sent, or Nothing
  wpc,          \* the watcher's place
  err,          \* values in the client's error channel
  stopped       \* the channel stopped is closed

client == <<server, target, connected, received, early, hash, initialConfigReceived,
            runningNopConfig, status, effective>>
reloading == <<rollback, reloadMux, attempt>>
watcher == <<wpc, err>>
vars == <<file, collector, pc, fault, client, reloading, watcher, stopped>>

Reloading == reloadMux # "free"

----------------------------------------------------------------------------
(***************************************************************************)
(* reload, on the main goroutine (no-op configuration) and in the handler. *)
(***************************************************************************)
ReloadLock(p) ==
  /\ pc[p] = "reload" /\ reloadMux = "free"
  /\ reloadMux' = p /\ attempt' = [attempt EXCEPT ![p] = 1]
  /\ Go(p, "backup")
  /\ UNCHANGED <<file, collector, fault, client, rollback, watcher, stopped>>

Backup(p) ==
  /\ pc[p] = "backup"
  /\ rollback' = file
  /\ Go(p, "write")
  /\ UNCHANGED <<file, collector, fault, client, reloadMux, attempt, watcher, stopped>>

BackupFails(p) ==
  /\ pc[p] = "backup"
  /\ Go(p, "reloadBad") /\ Fault("file")
  /\ UNCHANGED <<file, collector, client, reloading, watcher, stopped>>

Write(p) ==
  /\ pc[p] = "write"
  /\ file' = target[p]
  /\ Go(p, "shutdown")
  /\ UNCHANGED <<collector, fault, client, reloading, watcher, stopped>>

(* os.WriteFile has truncated the file, and nobody restores it. *)
WriteFails(p) ==
  /\ pc[p] = "write"
  /\ file' \in Configs \ Startable
  /\ Go(p, "reloadBad") /\ Fault("damage")
  /\ UNCHANGED <<collector, client, reloading, watcher, stopped>>

(* Faulty: the collector is not started again; the backup is not copied back. *)
RestoreOnly(p) ==
  /\ pc[p] = "runBad" /\ attempt[p] = 1 /\ reloadMux = p
  /\ file' = rollback
  /\ attempt' = [attempt EXCEPT ![p] = 2]
  /\ UNCHANGED <<pc, collector, fault, client, rollback, reloadMux, watcher, stopped>>
RestoreNot(p) ==
  /\ pc[p] = "runBad" /\ attempt[p] = 1 /\ reloadMux = p
  /\ attempt' = [attempt EXCEPT ![p] = 2]
  /\ Go(p, "shutdown")
  /\ UNCHANGED <<file, collector, fault, client, rollback, reloadMux, watcher, stopped>>

Restore(p) ==
  /\ pc[p] = "runBad" /\ attempt[p] = 1 /\ reloadMux = p
  /\ file' = rollback
  /\ attempt' = [attempt EXCEPT ![p] = 2]
  /\ Go(p, "shutdown")
  /\ UNCHANGED <<collector, fault, client, rollback, reloadMux, watcher, stopped>>

(* The copy fails: the collector is restarted with what is there. *)
RestoreFails(p) ==
  /\ pc[p] = "runBad" /\ attempt[p] = 1 /\ reloadMux = p
  /\ attempt' = [attempt EXCEPT ![p] = 2]
  /\ Go(p, "shutdown") /\ Fault("damage")
  /\ UNCHANGED <<file, collector, client, rollback, reloadMux, watcher, stopped>>

(* Faulty: the mutex is not given back after an error. *)
ReloadReturnLocked(p) ==
  /\ \/ pc[p] = "runGood" /\ attempt[p] = 1 /\ Go(p, "reloadedGood") /\ reloadMux' = "free"
     \/ pc[p] \in {"runGood", "runBad"} /\ attempt[p] = 2 /\ Go(p, "reloadedBad")
          /\ UNCHANGED reloadMux
     \/ pc[p] = "reloadBad" /\ Go(p, "reloadedBad") /\ UNCHANGED reloadMux
  /\ reloadMux = p
  /\ UNCHANGED <<file, collector, fault, client, rollback, attempt, watcher, stopped>>

(* The deferred unlock.  The first restart decides what reload returns. *)
ReloadReturn(p) ==
  /\ \/ pc[p] = "runGood" /\ attempt[p] = 1 /\ Go(p, "reloadedGood")
     \/ pc[p] \in {"runGood", "runBad"} /\ attempt[p] = 2 /\ Go(p, "reloadedBad")
     \/ pc[p] = "reloadBad" /\ Go(p, "reloadedBad")
  /\ reloadMux = p /\ reloadMux' = "free"
  /\ UNCHANGED <<file, collector, fault, client, rollback, attempt, watcher, stopped>>

(* Restart is Shutdown, then Run; the mutex is free in between. *)
AfterShutdown(p) == IF p = "main" /\ stopped THEN "stopClient" ELSE "run"

Shutdown(p) ==
  /\ ShutdownLock(p) \/ ShutdownDone(p, AfterShutdown(p)) \/ ShutdownSend(p, AfterShutdown(p))
  /\ UNCHANGED <<client, reloading, watcher, stopped>>

Run(p) ==
  /\ RunLock(p, "runBad") \/ RunReturn(p, "runGood", "runBad")
  /\ UNCHANGED <<client, reloading, watcher, stopped>>

Reload(p) ==
  \/ ReloadLock(p) \/ Backup(p) \/ Write(p) \/ Restore(p) \/ ReloadReturn(p)
  \/ Shutdown(p) \/ Run(p)

FileFails(p) == BackupFails(p) \/ WriteFails(p) \/ RestoreFails(p)

----------------------------------------------------------------------------
(***************************************************************************)
(* The main goroutine: Start, wait for a signal or an error, Stop.         *)
(***************************************************************************)
mainOnly == <<file, collector, fault, reloading, target, received, early, hash,
              initialConfigReceived, status, effective, server>>

(* simpleClient only runs the collector. *)
StartSimple ==
  /\ pc["main"] = "start" /\ ~server
  /\ Go("main", "run")
  /\ UNCHANGED <<mainOnly, connected, runningNopConfig, watcher, stopped>>

(* From here on messages may come. *)
StartServer ==
  /\ pc["main"] = "start" /\ server
  /\ connected' = TRUE
  /\ Go("main", "startNop")
  /\ UNCHANGED <<mainOnly, runningNopConfig, watcher, stopped>>

StartNop ==
  /\ pc["main"] = "startNop"
  /\ runningNopConfig' = TRUE
  /\ Go("main", "reload")
  /\ UNCHANGED <<mainOnly, connected, watcher, stopped>>

StartReturn ==
  /\ pc["main"] = IF server THEN "reloadedGood" ELSE "runGood"
  /\ Go("main", "wait") /\ wpc' = "poll"
  /\ UNCHANGED <<mainOnly, connected, runningNopConfig, err, stopped>>

(* Start has failed and the program ends. *)
StartFailed ==
  /\ pc["main"] = IF server THEN "reloadedBad" ELSE "runBad"
  /\ Go("main", "exited")
  /\ UNCHANGED <<mainOnly, connected, runningNopConfig, watcher, stopped>>

StopBegins ==
  /\ Go("main", "shutdown") /\ stopped' = TRUE
  /\ UNCHANGED <<mainOnly, connected, runningNopConfig, wpc>>

Signal == pc["main"] = "wait" /\ StopBegins /\ UNCHANGED err
Error  == pc["main"] = "wait" /\ err > 0 /\ err' = err - 1 /\ StopBegins

(* opampClient.Stop gives up waiting for the callback after five seconds. *)
StopClient ==
  /\ pc["main"] = "stopClient"
  /\ connected' = FALSE
  /\ Go("main", "stopWait")
  /\ UNCHANGED <<mainOnly, runningNopConfig, watcher, stopped>>

StopReturn ==
  /\ pc["main"] = "stopWait" /\ errChan > 0
  /\ errChan' = errChan - 1
  /\ Go("main", "exited")
  /\ UNCHANGED <<file, mux, svc, config, fault, client, reloading, watcher, stopped>>

MainStep == \/ StartSimple \/ StartServer \/ StartNop \/ StartReturn \/ StartFailed
            \/ Error \/ StopClient \/ StopReturn

----------------------------------------------------------------------------
(***************************************************************************)
(* The callback goroutine: onRemoteConfigHandler.                          *)
(***************************************************************************)
handlerOnly == <<file, collector, fault, reloading, watcher, stopped, server, connected>>

Receive(m) ==
  /\ pc["handler"] = "idle" /\ connected /\ received < MaxMessages
  /\ received' = received + 1
  /\ early' = (early \/ pc["main"] \in {"startNop", "reload"})
  /\ target' = [target EXCEPT !["handler"] = m]
  /\ Go("handler", "apply")
  /\ UNCHANGED <<handlerOnly, hash, initialConfigReceived, runningNopConfig, status, effective>>

(* Apply and applyRemoteConfig up to the reloader. *)
Apply ==
  /\ pc["handler"] = "apply"
  /\ LET m == target["handler"]
         unchanged == m = NoConfig \/ (initialConfigReceived /\ m = hash)
     IN  Go("handler", IF unchanged THEN "same" ELSE "reload")
  /\ UNCHANGED <<handlerOnly, target, received, early, hash, initialConfigReceived,
                 runningNopConfig, status, effective>>

(* Faulty: the hash of the configuration that runs is not taken. *)
UpdateCurrentHashNot ==
  /\ pc["handler"] = "reloadedGood"
  /\ initialConfigReceived' = TRUE
  /\ Go("handler", "changed")
  /\ UNCHANGED <<handlerOnly, target, received, early, hash, runningNopConfig, status, effective>>

(* The file is read again, after the reload mutex is given back. *)
UpdateCurrentHash ==
  /\ pc["handler"] = "reloadedGood"
  /\ hash' = file /\ initialConfigReceived' = TRUE
  /\ Go("handler", "changed")
  /\ UNCHANGED <<handlerOnly, target, received, early, runningNopConfig, status, effective>>

(* The file cannot be read: the hash is that of an empty one, and the       *)
(* configuration counts as changed and as failed although it runs.          *)
HashFails ==
  /\ pc["handler"] = "reloadedGood"
  /\ hash' = Empty
  /\ Go("handler", "changedBad") /\ Fault("hash")
  /\ UNCHANGED <<file, collector, server, target, connected, received, early,
                 initialConfigReceived, runningNopConfig, status, effective, reloading, watcher,
                 stopped>>

(* SetRemoteConfigStatus. *)
Reporting == pc["handler"] \in {"same", "changed", "changedBad", "reloadedBad"}

Report ==
  /\ Reporting
  /\ status' = [config |-> target["handler"],
                st |-> IF pc["handler"] \in {"same", "changed"} THEN "APPLIED" ELSE "FAILED"]
  /\ Go("handler", IF pc["handler"] \in {"changed", "changedBad"} THEN "leaveNop" ELSE "idle")
  /\ UNCHANGED <<handlerOnly, target, received, early, hash, initialConfigReceived,
                 runningNopConfig, effective>>

(* The client refuses the status, and the handler returns at once. *)
ReportFails ==
  /\ Reporting
  /\ Go("handler", "idle") /\ Fault("status")
  /\ UNCHANGED <<file, collector, client, reloading, watcher, stopped>>

LeaveNop ==
  /\ pc["handler"] = "leaveNop"
  /\ runningNopConfig' = FALSE
  /\ Go("handler", "effective")
  /\ UNCHANGED <<handlerOnly, target, received, early, hash, initialConfigReceived, status,
                 effective>>

(* UpdateEffectiveConfig asks GetEffectiveConfig. *)
ReportEffective ==
  /\ pc["handler"] = "effective"
  /\ effective' = IF runningNopConfig THEN Initial ELSE file
  /\ Go("handler", "idle")
  /\ UNCHANGED <<handlerOnly, target, received, early, hash, initialConfigReceived,
                 runningNopConfig, status>>

(* The file cannot be read, and no effective configuration is sent. *)
EffectiveFails ==
  /\ pc["handler"] = "effective" /\ ~runningNopConfig
  /\ Go("handler", "idle") /\ Fault("effective")
  /\ UNCHANGED <<file, collector, client, reloading, watcher, stopped>>

HandlerFails == HashFails \/ ReportFails \/ EffectiveFails

HandlerStep == Apply \/ UpdateCurrentHash \/ Report \/ LeaveNop \/ ReportEffective

----------------------------------------------------------------------------
(***************************************************************************)
(* ensureRunning.  The state and isReloading are read one after the other; *)
(* a full error channel holds the watcher up.                              *)
(***************************************************************************)
watcherOnly == <<file, collector, pc, fault, client, reloading, stopped>>

Poll ==
  /\ wpc = "poll" /\ StateIs("closed")
  /\ wpc' = "check" /\ UNCHANGED <<watcherOnly, err>>

(* Faulty: the meaning of isReloading is turned round. *)
CheckReloadingSwapped ==
  /\ wpc = "check"
  /\ wpc' = IF Reloading THEN "send" ELSE "poll"
  /\ UNCHANGED <<watcherOnly, err>>

CheckReloading ==
  /\ wpc = "check"
  /\ wpc' = IF Reloading THEN "poll" ELSE "send"
  /\ UNCHANGED <<watcherOnly, err>>

(* The channel of serverClient holds one value, main receives from the other. *)
SendError ==
  /\ wpc = "send"
  /\ IF server THEN err < 1 ELSE pc["main"] = "wait" /\ err = 0
  /\ err' = err + 1 /\ wpc' = "poll" /\ UNCHANGED watcherOnly

WatchEnds ==
  /\ wpc = "poll" /\ stopped
  /\ wpc' = "ended" /\ UNCHANGED <<watcherOnly, err>>

WatchStep == Poll \/ CheckReloading \/ SendError \/ WatchEnds

----------------------------------------------------------------------------
Init ==
  /\ server \in BOOLEAN
  /\ file = Initial /\ rollback = Initial /\ hash = Initial
  /\ mux = "free" /\ svc = "none" /\ config = Initial /\ errChan = 0
  /\ pc = [p \in Callers |-> IF p = "main" THEN "start" ELSE "idle"]
  /\ faults = 0 /\ events = {}
  /\ target = [p \in Callers |-> Nop] /\ attempt = [p \in Callers |-> 1]
  /\ reloadMux = "free"
  /\ connected = FALSE /\ received = 0 /\ early = FALSE
  /\ initialConfigReceived = FALSE /\ runningNopConfig = FALSE
  /\ status = [config |-> NoConfig, st |-> "UNSET"] /\ effective = Nothing
  /\ wpc = "off" /\ err = 0 /\ stopped = FALSE

Alive == pc["main"] # "exited"

Service == (ServiceStep \/ Dies) /\ UNCHANGED <<client, reloading, watcher, stopped>>

Goroutine(p) == Reload(p) \/ FileFails(p)

Next ==
  /\ Alive
  /\ \/ MainStep \/ Signal \/ HandlerStep \/ HandlerFails \/ WatchStep \/ Service
     \/ \E p \in Callers : Goroutine(p)
     \/ \E m \in Messages : Receive(m)

Fairness ==
  /\ WF_vars(Alive /\ (MainStep \/ Reload("main")))
  /\ WF_vars(Alive /\ (HandlerStep \/ Reload("handler")))
  /\ WF_vars(Alive /\ WatchStep)
  /\ WF_vars(Alive /\ ServiceStep /\ UNCHANGED <<client, reloading, watcher, stopped>>)

Spec == Init /\ [][Next]_vars /\ Fairness

----------------------------------------------------------------------------
(* Properties. *)

Quiet == pc["handler"] = "idle" /\ pc["main"] = "wait"

(* Outside reload a collector that runs was started with what the file holds,  *)
(* although two goroutines write it and restart the collector, as long as no    *)
(* write of the file failed half way.                                           *)
RunningIsFile ==
  ~Reloading /\ svc = "running" /\ "damage" \notin events => config = file

(* When the agent has reported a remote configuration as APPLIED and is at      *)
(* rest, the file holds it and it is the effective configuration last sent.     *)
(* Three things may have come between: one that arrived before Start had        *)
(* written the no-op configuration may have been overwritten by just that; an   *)
(* empty one counts as unchanged after the hash could not be taken; and what    *)
(* was sent is older when the file could not be read for the effective one.     *)
AppliedInForce ==
  Quiet /\ status.st = "APPLIED" /\ status.config # NoConfig
    /\ events \cap {"damage", "status"} = {} =>
    \/ early /\ file = Nop
    \/ "hash" \in events /\ status.config = Empty
    \/ /\ file = status.config
       /\ effective = status.config \/ "effective" \in events

(* When a remote configuration has FAILED, the collector runs with one it can   *)
(* start with: reload rolls back and restarts, and errors in taking the hash    *)
(* and in reporting leave the collector alone.                                  *)
FailedIsRolledBack ==
  Quiet /\ status.st = "FAILED" /\ events \subseteq {"hash", "status", "effective"} =>
    svc = "running" /\ config \in Startable

(* Stop returns when no remote configuration is being applied meanwhile.        *)
QuietStopReturns ==
  []((stopped /\ [](pc["handler"] = "idle")) => <>~Alive)

(* The handler of every remote configuration comes to its end, unless the       *)
(* program is being stopped or has ended.                                       *)
HandlerReplies == pc["handler"] = "apply" ~> (pc["handler"] = "idle" \/ stopped \/ ~Alive)

(* A collector that has ended on its own ends the program, or is restarted by   *)
(* a remote configuration: the watcher notices.                                 *)
ClosedIsNoticed ==
  (svc = "closed" /\ pc["main"] = "wait") ~> (svc # "closed" \/ stopped)

(* Stop always returns. *)
StopReturns == stopped ~> ~Alive

(***************************************************************************)
(* The agent implements the register of ConfigRegister.  From the moment   *)
(* the file is overwritten until the restart has succeeded or the backup   *)
(* is back, the configuration in force is in the backup.                   *)
(***************************************************************************)
OnTrial ==
  /\ Reloading /\ attempt[reloadMux] = 1
  /\ pc[reloadMux] \in {"shutdown", "shutdownWait", "shutdownSend", "run", "runWait", "runBad"}

Register ==
  INSTANCE ConfigRegister
    WITH value     <- IF OnTrial THEN rollback ELSE file,
         serves    <- IF ~Reloading /\ svc = "running" THEN config ELSE Nothing,
         switching <- Reloading,
         intact    <- "damage" \notin events

(* The file, its backup and the restarts together behave as one register that   *)
(* only takes configurations a collector has started with.                      *)
ImplementsRegister == Register!Spec
=============================================================================
