--------------------------- MODULE SchemaMigrator ---------------------------
(***************************************************************************)
(* The schema migrator: the sync and async commands of                     *)
(* cmd/signozschemamigrator and the MigrationManager they drive.  A        *)
(* command walks through lists of migrations and runs their operations one *)
(* by one, keeping a record per migration in the database that it reads to *)
(* decide whether the migration has still to run.  The process may stop at *)
(* any point, statements may fail, and mutations and queued DDL end on     *)
(* each host in their own time.                                            *)
(***************************************************************************)
EXTENDS SchemaOps

CONSTANTS
  Migrations,   \* list name -> [db |-> database, migs |-> sequence of migrations]
  Plans         \* the deployments: [lists, logsV2, hosts, home, development, sharded,
                \*                   commands, maxRuns, maxFaults]; home is the host that the
                \*                   commands are connected to

InProgress == "in-progress"
Finished   == "finished"
Failed     == "failed"

RecordsTable == "schema_migrations_v2"
LegacyTable  == "schema_migrations"

Databases == {Migrations[l].db : l \in DOMAIN Migrations}

ASSUME MigrationsAssumption ==
  /\ \A p \in Plans : p.lists \subseteq DOMAIN Migrations
  /\ \A p \in Plans : p.maxRuns \in Nat /\ p.maxFaults \in Nat
  /\ \A p \in Plans : p.home \in p.hosts /\ p.development \in BOOLEAN /\ p.sharded \in BOOLEAN
  /\ \A p \in Plans : \A c \in p.commands : c.sync \in BOOLEAN /\ c.down \in BOOLEAN

VARIABLES
  plan,       \* the deployment of this behaviour, never changed
  schema,     \* database -> table -> columns, target and sources
  status,     \* <<database, migration id>> -> the status its record shows at home
  away,       \* the keys of records that went to another shard
  upd,        \* updates of records whose mutation has not run yet at home
  mutating,   \* the hosts with an unfinished mutation
  ddl,        \* the hosts that have not executed the queued DDL statements
  queued,     \* whether one of these leaves a mutation
  seen,       \* the hosts on which the last wait for mutations has found none
  late,       \* those of them where a queued statement has begun one since
  cmd,        \* the command that runs, or the last one
  pos,        \* its position: stage (list), migration and item
  pc,         \* its next step
  result,     \* how the last command ended
  runs,       \* commands started
  faults,     \* faults that have happened
  events,     \* their kinds
  executed,   \* operations executed: <<list, mode, in sync, migration, item>>
  failed      \* migrations whose record has been set to failed

records  == <<status, away, upd>>
hosts    == <<mutating, ddl, queued>>
database == <<schema, records, hosts>>
history  == <<executed, failed>>
vars == <<plan, schema, status, away, upd, mutating, ddl, queued, seen, late, cmd, pos, pc,
          result, runs, faults, events, executed, failed>>

----------------------------------------------------------------------------
(* The lists a command walks through, with the mode in which it runs them. *)

BootstrapLists ==
  <<"V2MigrationTablesLogs", "V2MigrationTablesMetrics", "V2MigrationTablesTraces",
    "V2MigrationTablesMetadata", "V2MigrationTablesAnalytics", "V2MigrationTablesMeter">>

SquashedLists ==
  <<"CustomRetentionLogsMigrations", "SquashedMetricsMigrations", "SquashedTracesMigrations">>

LogsList(p) == IF p.logsV2 THEN "LogsMigrationsV2" ELSE "LogsMigrations"

UpSyncLists(p) ==
  <<"TracesMigrations", LogsList(p), "MetricsMigrations", "MetadataMigrations",
    "AnalyticsMigrations", "MeterMigrations">>

DownSyncLists(p) ==
  <<"TracesMigrations", LogsList(p), "MetricsMigrations", "AnalyticsMigrations",
    "MeterMigrations">>

UpAsyncLists(p) == <<"TracesMigrations", "MetricsMigrations", LogsList(p)>>
DownAsyncLists  == <<"TracesMigrations", "MetricsMigrations", "LogsMigrations">>

Present(p, lists) == {lists[i] : i \in DOMAIN lists} \cap p.lists

InMode(mode, lists) == [i \in 1..Len(lists) |-> [mode |-> mode, list |-> lists[i]]]

StagesOf(p, c) ==
  IF c.sync
  THEN InMode("bootstrap", BootstrapLists) \o InMode("squashed", SquashedLists)
         \o IF c.down THEN InMode("down", DownSyncLists(p)) ELSE InMode("up", UpSyncLists(p))
  ELSE IF c.down THEN InMode("down", DownAsyncLists) ELSE InMode("up", UpAsyncLists(p))

Stages == StagesOf(plan, cmd)

----------------------------------------------------------------------------
(***************************************************************************)
(* What the lists of the repository have in common and the manager relies  *)
(* on, beside that each list is a sequence and has a migration.            *)
(***************************************************************************)
UpItems(l, m)  == Migrations[l].migs[m].up
KeyIn(l, m)    == <<Migrations[l].db, Migrations[l].migs[m].id>>
Of(l)          == DOMAIN Migrations[l].migs

(* No migration has operations of both commands.                            *)
NotMixed(l) ==
  \A m \in Of(l) : \A i, j \in DOMAIN UpItems(l, m) :
    ~(RunsInSync(UpItems(l, m)[i]) /\ RunsInAsync(UpItems(l, m)[j]))

(* The migrations that write records have each its own.                     *)
OwnRecords(p) ==
  \A l, k \in Present(p, SquashedLists) \cup Present(p, UpSyncLists(p)) :
    \A m \in Of(l), n \in Of(k) : KeyIn(l, m) = KeyIn(k, n) => l = k /\ m = n

(* A squashed list brings every table it needs before it needs it, and takes *)
(* none away;                                                               *)
SelfContained(l) ==
  \A m \in Of(l) : \A i \in DOMAIN UpItems(l, m) :
    /\ UpItems(l, m)[i].op \notin {"DropTable", "MaterializeColumn"}
    /\ \A t \in {UpItems(l, m)[i].t, UpItems(l, m)[i].to} \cup UpItems(l, m)[i].src :
         Needs(UpItems(l, m)[i], t) =>
           \E n \in Of(l) : \E j \in DOMAIN UpItems(l, n) :
             (n < m \/ (n = m /\ j < i)) /\ Creates(UpItems(l, n)[j], t)

(* and some sync operation alters a table that no other list creates.       *)
BringsAlone(p, l, t) ==
  \A k \in p.lists \ {l} : Migrations[k].db = Migrations[l].db =>
    \A m \in Of(k) : \A i \in DOMAIN UpItems(k, m) : ~Creates(UpItems(k, m)[i], t)

NeededBySync(p, l) ==
  \E k \in Present(p, UpSyncLists(p)) : \E m \in Of(k) : \E i \in DOMAIN UpItems(k, m) :
    /\ Migrations[k].db = Migrations[l].db
    /\ RunsInSync(UpItems(k, m)[i])
    /\ Alters(UpItems(k, m)[i], UpItems(k, m)[i].t)
    /\ BringsAlone(p, l, UpItems(k, m)[i].t)

(* Nothing takes the table of records away.                                 *)
KeepsRecords(l) ==
  \A m \in Of(l) : \A i \in DOMAIN UpItems(l, m) :
    UpItems(l, m)[i].op = "DropTable" => UpItems(l, m)[i].t # RecordsTable

ASSUME ListsAssumption ==
  /\ \A l \in DOMAIN Migrations :
       /\ Of(l) = 1..Len(Migrations[l].migs) /\ Len(Migrations[l].migs) \in Nat \ {0}
       /\ \A m \in Of(l) : DOMAIN Migrations[l].migs[m].up \cup DOMAIN Migrations[l].migs[m].down
                            \subseteq Nat \ {0}
       /\ KeepsRecords(l)
  /\ \A p \in Plans :
       /\ OwnRecords(p)
       /\ \A l \in Present(p, UpSyncLists(p)) : NotMixed(l)
       /\ \A l \in Present(p, SquashedLists) : SelfContained(l) /\ NeededBySync(p, l)
       /\ \A l, k \in Present(p, SquashedLists) : Migrations[l].db = Migrations[k].db => l = k
       /\ Present(p, BootstrapLists) # {}
       /\ \A l \in Present(p, BootstrapLists) : DOMAIN UpItems(l, 1) # {}

----------------------------------------------------------------------------
(* Where the command is. *)

Mode == Stages[pos.stage].mode
List == Stages[pos.stage].list
Db   == Migrations[List].db
Migs == Migrations[List].migs
Mig  == Migs[pos.mig]
Key  == <<Db, Mig.id>>

(* Bootstrap and the squashed lists run every up item, whatever its kind, and *)
(* do not look at the record of a migration.                                 *)
LooksAtRecord == Mode \notin {"bootstrap", "squashed"}

Items == IF Mode = "down" THEN Mig.down ELSE Mig.up

Selected(o) == LooksAtRecord => IF cmd.sync THEN RunsInSync(o) ELSE RunsInAsync(o)

Item == Items[pos.item]

NoCommand == [sync |-> FALSE, down |-> FALSE, versions |-> {}]

Start == [stage |-> 1, mig |-> 1, item |-> 1]

(* HostAddrs knows no host in development, so that no mutation is waited for. *)
WaitedHosts == IF plan.development THEN {} ELSE plan.hosts

(* The steps behind a wait for mutations, and before the next. *)
Looked == {"beforeQueue", "insert", "exec", "afterQueue", "finish"}

GoTo(step, p) ==
  /\ pc' = step /\ pos' = p
  /\ seen' = IF step \in Looked THEN WaitedHosts ELSE {}
  /\ late' = IF step \in Looked THEN late ELSE {}

NextList      == GoTo("list", [stage |-> pos.stage + 1, mig |-> 1, item |-> 1])
NextMigrationStays == GoTo("migration", [pos EXCEPT !.item = 1])   \* faulty: no progress
NextMigration == GoTo("migration", [pos EXCEPT !.mig = @ + 1, !.item = 1])

(* The items after i that the command runs, and the first of them. *)
Later(i) == {j \in DOMAIN Items : i < j /\ Selected(Items[j])}

ItemAfter(i) ==
  \/ \E j \in Later(i) : /\ \A k \in Later(i) : j <= k
                         /\ GoTo("before", [pos EXCEPT !.item = j])
  \/ Later(i) = {} /\ NextMigration

NextItem == ItemAfter(pos.item)

----------------------------------------------------------------------------
(* Records and faults. *)

(* Faulty: the table of records is taken for the records in it. *)
ShouldRunSquashedByTable(db) ==
  LegacyTable \notin DOMAIN schema[db] /\ RecordsTable \notin DOMAIN schema[db]

(* The database has neither the legacy table nor, on any shard, a record of any *)
(* status: the records are counted through the Distributed table.              *)
ShouldRunSquashed(db) ==
  LegacyTable \notin DOMAIN schema[db] /\ \A k \in DOMAIN status \cup away : k[1] # db

(* Faulty: any record will do, or only a finished one. *)
ShouldRunMigrationOnce ==
  /\ cmd.versions # {} => Mig.id \in cmd.versions
  /\ Key \notin DOMAIN status
ShouldRunMigrationUnfinished ==
  /\ cmd.versions # {} => Mig.id \in cmd.versions
  /\ Key \in DOMAIN status => status[Key] # Finished

(* The record is looked up in the local table, of the host at home. *)
ShouldRunMigration ==
  /\ cmd.versions # {} => Mig.id \in cmd.versions
  /\ Key \in DOMAIN status => status[Key] = Failed

(* Records, and changes to some of them. *)
Updated(old, change) ==
  [k \in DOMAIN old \cup DOMAIN change |->
     IF k \in DOMAIN change THEN change[k] ELSE old[k]]

HasRecords(db) == RecordsTable \in DOMAIN schema[db]

(* A mutation on every host, behind the statements that hosts D have queued. *)
MutateBehind(D) ==
  /\ ddl' = D /\ queued' = (D # {})
  /\ mutating' = mutating \cup (plan.hosts \ D)

(***************************************************************************)
(* updateMigrationEntry is an ALTER ... ON CLUSTER UPDATE: readers see the *)
(* new status when its mutation has run.  It changes no record that is not *)
(* there.                                                                  *)
(***************************************************************************)
UpdateMigrationEntry(k, new) ==
  /\ upd' = Updated(upd, [j \in {k} \cap DOMAIN status |-> new])
  /\ UNCHANGED <<status, away>>

(***************************************************************************)
(* insertMigrationEntry writes to the Distributed table, which picks a     *)
(* shard at random.  A mutation that runs does not change the new record;  *)
(* one that is still queued will.                                          *)
(***************************************************************************)
InsertMigrationEntry(k) ==
  \/ /\ status' = Updated(status, [j \in {k} |-> InProgress])
     /\ upd' = IF queued /\ plan.home \in ddl THEN upd ELSE [j \in DOMAIN upd \ {k} |-> upd[j]]
     /\ UNCHANGED away
  \/ plan.sharded /\ away' = away \cup {k} /\ UNCHANGED <<status, upd>>

Fault(kind) ==
  /\ faults < plan.maxFaults
  /\ faults' = faults + 1
  /\ events' = events \cup {kind}

(* No later command takes up a squashed list that an error has ended. *)
Kind(kind) == IF Mode = "squashed" THEN "squashed" ELSE kind

NoFault == UNCHANGED <<faults, events>>

Exit(how) == GoTo("idle", Start) /\ result' = how /\ UNCHANGED <<plan, cmd, runs>>

Running == UNCHANGED <<plan, cmd, runs, result>>

(* RunOperation returns an error after recording it, here behind what hosts D *)
(* have queued.                                                              *)
FailOperation(D) ==
  /\ Exit("error")
  /\ UpdateMigrationEntry(Key, Failed) /\ MutateBehind(D)
  /\ failed' = IF Key \in DOMAIN status THEN failed \cup {Key} ELSE failed

----------------------------------------------------------------------------
(* The commands. *)

Begin(c) ==
  /\ pc = "idle" /\ runs < plan.maxRuns
  /\ cmd' = c
  /\ runs' = runs + 1
  /\ result' = "none"
  /\ GoTo("list", Start)
  /\ NoFault /\ UNCHANGED <<plan, database, history>>

EnterList ==
  /\ pc = "list" /\ pos.stage <= Len(Stages)
  /\ IF List \notin plan.lists \/ (Mode = "squashed" /\ ~ShouldRunSquashed(Db))
     THEN NextList ELSE GoTo("migration", pos)
  /\ Running /\ NoFault /\ UNCHANGED <<database, history>>

EndCommand ==
  /\ pc = "list" /\ pos.stage > Len(Stages)
  /\ Exit("ok")
  /\ NoFault /\ UNCHANGED <<database, history>>

EnterMigration ==
  /\ pc = "migration"
  /\ pos.mig <= Len(Migs) /\ LooksAtRecord => HasRecords(Db)
  /\ \/ pos.mig > Len(Migs) /\ NextList
     \/ /\ pos.mig <= Len(Migs)
        /\ IF LooksAtRecord /\ ~ShouldRunMigration THEN NextMigration ELSE ItemAfter(0)
  /\ Running /\ NoFault /\ UNCHANGED <<database, history>>

(* shouldRunMigration panics when the status cannot be read. *)
Panic ==
  /\ pc = "migration"
  /\ pos.mig <= Len(Migs) /\ LooksAtRecord /\ ~HasRecords(Db)
  /\ Exit("panic")
  /\ NoFault /\ UNCHANGED <<database, history>>

----------------------------------------------------------------------------
(* RunOperation, step by step. *)

AfterWait == IF Mode = "bootstrap" THEN "exec" ELSE "insert"

(***************************************************************************)
(* WaitForRunningMutations visits one host after the other, before the     *)
(* statement and after it.  What is queued may begin a mutation on a host  *)
(* it has already seen; while nothing is queued the order is all the same. *)
(***************************************************************************)
Look(h) ==
  /\ pc \in {"before", "after"} /\ ddl # {}
  /\ h \in WaitedHosts \ (seen \cup mutating)
  /\ seen' = seen \cup {h}
  /\ Running /\ NoFault /\ UNCHANGED <<late, pos, pc, database, history>>

WaitEnds ==
  \/ pc = "before" /\ GoTo("beforeQueue", pos)
  \/ pc = "after" /\ GoTo("afterQueue", pos)

(* Faulty: the mutations that run are not waited for. *)
WaitForNoMutations ==
  WaitEnds /\ Running /\ NoFault /\ UNCHANGED <<database, history>>

WaitForRunningMutations ==
  /\ mutating \cap (WaitedHosts \ seen) = {}
  /\ WaitEnds
  /\ Running /\ NoFault /\ UNCHANGED <<database, history>>

(* Then the queue is waited for. *)
QueueEnds ==
  \/ pc = "beforeQueue" /\ GoTo(AfterWait, pos)
  \/ pc = "afterQueue" /\ IF Mode = "bootstrap" THEN NextItem ELSE GoTo("finish", pos)

WaitDistributedDDLQueue ==
  /\ ddl = {}
  /\ QueueEnds
  /\ Running /\ NoFault /\ UNCHANGED <<database, history>>

(* A host cannot be asked, the distribution queue has errors or the backoff ends. *)
WaitFails ==
  /\ pc \in {"before", "beforeQueue", "after", "afterQueue"}
  /\ FailOperation(ddl)
  /\ Fault(Kind("wait")) /\ UNCHANGED <<schema, executed>>

(* getDistributedDDLQueue returns an empty queue after ten "No node" answers. *)
GiveUpOnQueue ==
  /\ ddl # {}
  /\ QueueEnds
  /\ Fault("queue") /\ Running /\ UNCHANGED <<database, history>>

Insert ==
  /\ pc = "insert"
  /\ InsertMigrationEntry(Key)
  /\ GoTo("exec", pos)
  /\ Running /\ NoFault /\ UNCHANGED <<schema, hosts, history>>

InsertFails ==
  /\ pc = "insert"
  /\ Exit("error")
  /\ Fault("entry") /\ UNCHANGED <<database, history>>

Identity == <<List, Mode, cmd.sync, pos.mig, pos.item>>

Execute ==
  /\ schema' = [schema EXCEPT ![Db] = Apply(@, Item)]
  /\ executed' = executed \cup {Identity}

Exec ==
  /\ pc = "exec" /\ ~Refused(schema[Db], Item)
  /\ Execute
  /\ IF LeavesMutation(Item) THEN MutateBehind(ddl) ELSE UNCHANGED hosts
  /\ GoTo("after", pos)
  /\ Running /\ NoFault /\ UNCHANGED <<records, failed>>

(* ClickHouse refuses the statement. *)
ExecRefused ==
  /\ pc = "exec" /\ Refused(schema[Db], Item)
  /\ FailOperation(ddl)
  /\ NoFault /\ UNCHANGED <<schema, executed>>

(* The statement is lost, or the answer: then some hosts have yet to execute it, *)
(* and the update of the record after it.                                       *)
ExecFails ==
  /\ pc = "exec"
  /\ \/ FailOperation(ddl) /\ UNCHANGED <<schema, executed>>
     \/ ~Refused(schema[Db], Item) /\ Execute /\ FailOperation(plan.hosts)
  /\ Fault(Kind("exec"))

Finish ==
  /\ pc = "finish"
  /\ UpdateMigrationEntry(Key, Finished) /\ MutateBehind(ddl)
  /\ NextItem
  /\ Running /\ NoFault /\ UNCHANGED <<schema, history>>

UpdateFails ==
  /\ pc = "finish"
  /\ Exit("error")
  /\ Fault("entry") /\ UNCHANGED <<database, history>>

(* The process dies, or loses the database so that it cannot record the failure. *)
Crash ==
  /\ pc # "idle"
  /\ Exit("crash")
  /\ Fault("crash") /\ UNCHANGED <<database, history>>

----------------------------------------------------------------------------
(* The hosts. *)

process == <<plan, cmd, pos, pc, result, runs>>

(* The mutations of a host have run.  At home readers see the updates, unless *)
(* there are some among what is queued.                                       *)
MutationDone(h) ==
  /\ h \in mutating
  /\ mutating' = mutating \ {h} /\ late' = late \ {h}
  /\ IF h = plan.home /\ ~(queued /\ h \in ddl)
     THEN status' = Updated(status, upd) /\ upd' = <<>>
     ELSE UNCHANGED <<status, upd>>
  /\ NoFault /\ UNCHANGED <<process, schema, away, ddl, queued, seen, history>>

(* A host has executed what was queued, and begins the mutations of it. *)
QueueDone(h) ==
  /\ h \in ddl
  /\ ddl' = ddl \ {h} /\ queued' = (queued /\ ddl # {h})
  /\ IF queued
     THEN mutating' = mutating \cup {h} /\ late' = late \cup ({h} \cap seen)
     ELSE UNCHANGED <<mutating, late>>
  /\ NoFault /\ UNCHANGED <<process, schema, records, seen, history>>

----------------------------------------------------------------------------
Init ==
  /\ plan \in Plans
  /\ schema = [db \in Databases |-> <<>>]
  /\ status = <<>> /\ away = {} /\ upd = <<>>
  /\ mutating = {} /\ ddl = {} /\ queued = FALSE
  /\ seen = {} /\ late = {}
  /\ cmd = NoCommand
  /\ pos = Start /\ pc = "idle" /\ result = "none"
  /\ runs = 0 /\ faults = 0 /\ events = {}
  /\ executed = {} /\ failed = {}

Operate == \/ WaitForRunningMutations \/ WaitDistributedDDLQueue
           \/ Insert \/ Exec \/ ExecRefused \/ Finish

Walk == EnterList \/ EndCommand \/ EnterMigration \/ Panic

Failing == \/ WaitFails \/ GiveUpOnQueue \/ InsertFails \/ ExecFails \/ UpdateFails
           \/ Crash

Hosts == \E h \in plan.hosts : MutationDone(h) \/ QueueDone(h)

Next == \/ Walk \/ Operate \/ Failing \/ Hosts
        \/ \E h \in plan.hosts : Look(h)
        \/ \E c \in plan.commands : Begin(c)

(* The process runs on, and ClickHouse ends what it has been given. *)
Fairness == WF_vars(Walk \/ Operate) /\ WF_vars(Hosts)

Spec == Init /\ [][Next]_vars /\ Fairness

----------------------------------------------------------------------------
(* What a complete sync leaves behind it: every operation of its lists. *)

Ran(l, mode, m) ==
  \A i \in DOMAIN UpItems(l, m) :
    mode = "squashed" \/ RunsInSync(UpItems(l, m)[i]) => <<l, mode, TRUE, m, i>> \in executed

RequiredRan ==
  /\ \A l \in Present(plan, SquashedLists) : \A m \in Of(l) : Ran(l, "squashed", m)
  /\ \A l \in Present(plan, UpSyncLists(plan)) : \A m \in Of(l) : Ran(l, "up", m)

(***************************************************************************)
(* migrate sync check asks this of every list: that its last migration has *)
(* no record, or one that is in progress or finished.  It also asks it of  *)
(* a list that ends with a migration of the async command.                 *)
(***************************************************************************)
LastOf(l) == Len(Migrations[l].migs)

IsMigrationSuccess(l) ==
  /\ HasRecords(Migrations[l].db)
  /\ KeyIn(l, LastOf(l)) \in DOMAIN status => status[KeyIn(l, LastOf(l))] \in {InProgress, Finished}

----------------------------------------------------------------------------
(* Properties. *)

(* An earlier command was killed, could not write a record, or was interrupted *)
(* in a squashed list, or has recorded a failure in development, where no      *)
(* command waits until the record says so.  What it left undone no later       *)
(* command need take up again.                                                 *)
LeftUndone ==
  /\ runs > 1
  /\ \/ events \cap {"crash", "entry", "squashed"} # {}
     \/ plan.development /\ failed # {}

(* At every step of every command, wherever it stops, each Distributed table   *)
(* and each view of the migrations writes to a table that exists and has its   *)
(* columns, and reads tables that exist, so that inserts into them succeed.    *)
(* Commands that go on after one that left a migration undone are excepted:    *)
(* they may put a Distributed table over a local one that is not there.        *)
SchemaConsistent == LeftUndone \/ \A db \in Databases : Consistent(schema[db])

(* RunOperation submits a statement only when nothing queued is unfinished on  *)
(* any host, unless the queue could not be read ten times and was taken for     *)
(* empty, and no mutation, also after a restart; except on a host that has been *)
(* seen without one and where a queued statement has begun one since, because   *)
(* the queue is waited for after the mutations and not before.                  *)
StatementAlone ==
  pc = "exec" => /\ ddl = {} \/ "queue" \in events
                 /\ mutating \cap WaitedHosts \subseteq late

(* The operations of a migration are run again only after its record was set   *)
(* to failed or when a record of it went to another shard, which the lookup in *)
(* the local table does not find: what crashed half way, or is recorded here,  *)
(* is never repeated (the INSERT of the logs migrations is not idempotent).    *)
RepeatedOnlyAfterFailure ==
  [][(Exec /\ Mode # "bootstrap" /\ Identity \in executed) => Key \in failed \cup away]_vars

(* The last command has been a whole sync, up, and has ended well.            *)
Synced ==
  /\ pc = "idle" /\ result = "ok" /\ cmd.sync /\ ~cmd.down /\ cmd.versions = {}
  /\ ~LeftUndone
  /\ \A e \in executed : e[2] # "down"

(* A sync command that ends well has run every operation of its lists, and the *)
(* records that the check reads say so once they have been updated, also after *)
(* earlier commands failed on waits and statements.  Excepted are commands that *)
(* left something undone, migrations that were run down, and commands that took *)
(* a queue they could not read for empty, with updates of records in it; and    *)
(* the check of a list that ends with an operation of the async command, whose  *)
(* record is not the sync command's.                                            *)
RetryCompletes ==
  Synced /\ "queue" \notin events =>
    /\ RequiredRan
    /\ DOMAIN upd = {} =>
         \A l \in Present(plan, UpSyncLists(plan)) :
           (\E i \in DOMAIN UpItems(l, LastOf(l)) : RunsInSync(UpItems(l, LastOf(l))[i]))
             => IsMigrationSuccess(l)

(* Without faults and without down commands no statement of the lists is       *)
(* refused: each ALTER finds its table, each view its sources.                 *)
HealthyRunSucceeds ==
  result = "error" => events # {} \/ \E e \in executed : e[2] = "down"

(* Every command ends. *)
CommandsEnd == []<>(pc = "idle")
=============================================================================
