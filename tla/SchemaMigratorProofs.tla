------------------------- MODULE SchemaMigratorProofs -------------------------
(***************************************************************************)
(* Proofs about the schema migrator, for any lists of migrations and any   *)
(* deployment: which mutations a statement may find unfinished; that the   *)
(* operations of a migration are run again only after its record was set to*)
(* failed or went to another shard, however often commands are killed, fail*)
(* or are started again; and that a sync command that ends well completes  *)
(* what failed commands before it have left, from what the lists of the    *)
(* repository have in common (ListsAssumption).                            *)
(*                                                                         *)
(* What depends on the single operations of the lists (SchemaConsistent,   *)
(* HealthyRunSucceeds) is left to TLC.                                     *)
(***************************************************************************)
EXTENDS SchemaMigrator, TLAPS

(* The steps of RunOperation, those behind the statement, and those that end it. *)
Operating == {"before", "beforeQueue", "insert", "exec", "after", "afterQueue", "finish"}
Submitted == {"after", "afterQueue", "finish"}
Closing   == {"afterQueue", "finish"}

Working   == Operating \cup {"migration"}

(* The command is one of the plan's, and where it works there is a migration *)
(* of a list, and an item that the command selects.                         *)
Position ==
  /\ plan \in Plans /\ cmd.sync \in BOOLEAN /\ cmd.down \in BOOLEAN
  /\ pos = [stage |-> pos.stage, mig |-> pos.mig, item |-> pos.item]
  /\ pos.stage \in Nat \ {0} /\ pos.mig \in Nat \ {0} /\ pos.item \in Nat
  /\ pc \in Working => pos.stage \in DOMAIN Stages /\ List \in plan.lists
  /\ pc \in Operating => pos.mig \in Of(List) /\ pos.item \in DOMAIN Items /\ Selected(Item)

(***************************************************************************)
(* On the hosts that a wait has seen, only what has been queued before it  *)
(* has begun mutations since.  Behind the wait for the queue nothing is    *)
(* queued, so that behind the next one nothing begins.                     *)
(***************************************************************************)
Misread == "queue" \in events

Alone ==
  /\ pc \in Looked => seen = WaitedHosts
  /\ mutating \cap seen \subseteq late
  /\ pc \in Submitted \cup {"insert", "exec"} => ddl = {} \/ Misread
  /\ pc \in Submitted => late = {} \/ Misread

(* An update of a record waits for a mutation that runs at home, or is queued. *)
Pending ==
  /\ DOMAIN upd # {} => plan.home \in mutating \/ (plan.home \in ddl /\ queued)
  /\ mutating \subseteq plan.hosts /\ ddl \subseteq plan.hosts /\ plan.home \in plan.hosts
  /\ DOMAIN upd \subseteq DOMAIN status

(* What has been executed has a record, which bootstrap does not write, and *)
(* so has what is about to be, at home or on another shard.                 *)
KeyOf(e) == <<Migrations[e[1]].db, Migrations[e[1]].migs[e[4]].id>>

Recorded == DOMAIN status \cup away

Known ==
  /\ \A e \in executed : e[4] \in Nat /\ e[5] \in Nat
  /\ \A e \in executed : e[2] # "bootstrap" => KeyOf(e) \in Recorded
  /\ pc = "exec" /\ Mode # "bootstrap" => Key \in Recorded

(* A record that says failed, now or when its mutation has run. *)
FailedKnown ==
  /\ \A k \in DOMAIN status : status[k] = Failed => k \in failed
  /\ \A k \in DOMAIN upd : upd[k] = Failed => k \in failed

(* The items before the one at hand, and that one once it has been executed. *)
Behind(e) == e[5] < pos.item \/ (pc \in Submitted /\ e[5] = pos.item)

(* Of the migration at hand only the items behind have been executed in this *)
(* mode, unless its record was set to failed or a record of it is elsewhere. *)
This(e) == e[1] = List /\ e[2] = Mode /\ e[3] = cmd.sync /\ e[4] = pos.mig

NotAhead ==
  pc \in Operating /\ LooksAtRecord =>
    Key \in failed \cup away \/ \A e \in executed : This(e) => Behind(e)

(* Squashed lists do not look at records: of the list at hand only the      *)
(* migrations before have been executed, and the items behind.              *)
NotAheadSquashed ==
  pc \in Operating \cup {"migration"} /\ Mode = "squashed" =>
    \A e \in executed : e[1] = List /\ e[2] = "squashed" =>
      \/ e[4] < pos.mig
      \/ pc \in Operating /\ e[4] = pos.mig /\ Behind(e)

IInv == Position /\ Alone /\ Pending /\ Known /\ FailedKnown /\ NotAhead /\ NotAheadSquashed

-----------------------------------------------------------------------------
(* The steps, by what they do to the position and to what is executed. *)

At(p) == cmd' = cmd /\ plan' = plan /\ pos' = p

Stops ==
  /\ pc' \in {"idle", "list"} /\ Position'
  /\ executed' = executed \/ (pc = "exec" /\ executed' = executed \cup {Identity})

Enters ==
  /\ pc = "list" /\ pc' = "migration" /\ At(pos) /\ UNCHANGED executed
  /\ pos.stage \in DOMAIN Stages /\ List \in plan.lists
  /\ Mode = "squashed" => ShouldRunSquashed(Db)

(* The first item of the migration, or the next. *)
FirstAfter(i, j) == j \in Later(i) /\ \A k \in Later(i) : j <= k

Opens ==
  /\ pc = "migration" /\ pc' = "before" /\ UNCHANGED executed
  /\ \E j : FirstAfter(0, j) /\ At([pos EXCEPT !.item = j])
  /\ LooksAtRecord => ShouldRunMigration
  /\ pos.mig \in Of(List)

Works ==
  /\ At(pos) /\ UNCHANGED executed
  /\ \/ pc = "before" /\ pc' = "beforeQueue"
     \/ pc = "beforeQueue" /\ pc' = AfterWait
     \/ pc = "insert" /\ pc' = "exec" /\ Key \in Recorded'
     \/ pc = "after" /\ pc' = "afterQueue"
     \/ pc = "afterQueue" /\ pc' = "finish"

Executes == pc = "exec" /\ pc' = "after" /\ At(pos) /\ executed' = executed \cup {Identity}

Advances ==
  /\ pc \in Closing /\ pc' = "before" /\ UNCHANGED executed
  /\ \E j : FirstAfter(pos.item, j) /\ At([pos EXCEPT !.item = j])

Passes ==
  /\ pc \in Closing \cup {"migration"} /\ pc' = "migration" /\ UNCHANGED executed
  /\ At([pos EXCEPT !.mig = @ + 1, !.item = 1])

Rests == At(pos) /\ UNCHANGED <<pc, executed>>

Moves == Stops \/ Enters \/ Opens \/ Works \/ Executes \/ Advances \/ Passes \/ Rests

(* The places where a command begins and ends. *)
LEMMA AtStart ==
  ASSUME pos' = Start, pc' \in {"idle", "list"}, plan' \in Plans,
         cmd'.sync \in BOOLEAN, cmd'.down \in BOOLEAN
  PROVE  Position'
PROOF
  BY DEF Start, Position, Working, Operating

(* Lists in a mode, and one sequence after another. *)
Sequence(s, n) == n \in Nat /\ s = [i \in 1..n |-> s[i]]

InModeIs(s, n, mode, lists) ==
  Sequence(s, n) /\ \A i \in 1..n : s[i] = [mode |-> mode, list |-> lists[i]]

(* The stages of one mode. *)
LEMMA InModes ==
  ASSUME NEW mode, NEW lists, NEW n \in Nat, Len(lists) = n
  PROVE  InModeIs(InMode(mode, lists), n, mode, lists)
PROOF
  BY DEF InMode, Sequence, InModeIs

Joined(u, s, n, t, m) ==
  /\ DOMAIN u = 1..(n + m) /\ Len(u) = n + m
  /\ \A i \in 1..n : u[i] = s[i]
  /\ \A i \in 1..m : u[n + i] = t[i]

(* The stages of two modes, one after the other. *)
LEMMA Joins ==
  ASSUME NEW s, NEW n, NEW t, NEW m, Sequence(s, n), Sequence(t, m)
  PROVE  Joined(s \o t, s, n, t, m)
PROOF
<1>1. PICK f : s = [i \in 1..n |-> f[i]]
    BY DEF Sequence
<1>2. PICK g : t = [i \in 1..m |-> g[i]]
    BY DEF Sequence
<1>3. n \in Nat /\ m \in Nat
    BY DEF Sequence
<1> QED BY <1>1, <1>2, <1>3 DEF Sequence, Joined

(* The stages of a sync command: bootstrap, the squashed lists, the others. *)
SyncStages(stages, last, mode, lists) ==
  /\ DOMAIN stages = 1..(9 + last) /\ Len(stages) = 9 + last
  /\ \A i \in 1..6 : stages[i] = [mode |-> "bootstrap", list |-> BootstrapLists[i]]
  /\ \A i \in 1..3 : stages[6 + i] = [mode |-> "squashed", list |-> SquashedLists[i]]
  /\ \A i \in 1..last : stages[9 + i] = [mode |-> mode, list |-> lists[i]]

(* All stages of a sync command, at their places. *)
LEMMA SyncStagesOf ==
  ASSUME NEW mode, NEW lists, NEW last \in Nat, Len(lists) = last
  PROVE  SyncStages(InMode("bootstrap", BootstrapLists) \o InMode("squashed", SquashedLists)
                      \o InMode(mode, lists), last, mode, lists)
PROOF
<1> DEFINE b == InMode("bootstrap", BootstrapLists)
           q == InMode("squashed", SquashedLists)
           r == InMode(mode, lists)
           f == b \o q
           g == f \o r
<1>1. Len(BootstrapLists) = 6 /\ Len(SquashedLists) = 3
    BY DEF BootstrapLists, SquashedLists
<1>2. InModeIs(b, 6, "bootstrap", BootstrapLists)
    BY <1>1, 6 \in Nat, InModes
<1>3. InModeIs(q, 3, "squashed", SquashedLists)
    BY <1>1, 3 \in Nat, InModes
<1>4. InModeIs(r, last, mode, lists)
    BY InModes
<1> HIDE DEF b, q, r
<1>5. /\ Sequence(f, 9) /\ \A i \in 1..6 : f[i] = b[i]
      /\ \A i \in 1..3 : f[6 + i] = q[i]
    BY <1>2, <1>3 DEF InModeIs, Sequence
<1> HIDE DEF f
<1>6. /\ DOMAIN g = 1..(9 + last) /\ Len(g) = 9 + last
      /\ \A i \in 1..9 : g[i] = f[i]
      /\ \A i \in 1..last : g[9 + i] = r[i]
  <2>1. Sequence(r, last)
      BY <1>4 DEF InModeIs
  <2>2. Joined(f \o r, f, 9, r, last)
      BY <1>5, <2>1, Joins
  <2> QED BY <2>2 DEF Joined
<1> HIDE DEF g
<1>7. \A i \in 1..6 : g[i] = b[i]
  <2>1. \A i \in 1..6 : i \in 1..9
      OBVIOUS
  <2> QED BY <1>5, <1>6, <2>1
<1>8. \A i \in 1..3 : g[6 + i] = q[i]
  <2>1. \A i \in 1..3 : 6 + i \in 1..9
      OBVIOUS
  <2> QED BY <1>5, <1>6, <2>1
<1>9. SyncStages(g, last, mode, lists)
    BY <1>2, <1>3, <1>4, <1>6, <1>7, <1>8 DEF SyncStages, InModeIs
<1> QED BY <1>9 DEF b, q, r, f, g

(* The stages of every command. *)
LEMMA StagesAre ==
  ASSUME NEW p, NEW c
  PROVE  LET stages == StagesOf(p, c)
         IN  /\ c.sync /\ c.down => SyncStages(stages, 5, "down", DownSyncLists(p))
             /\ c.sync /\ ~c.down => SyncStages(stages, 6, "up", UpSyncLists(p))
             /\ ~c.sync /\ c.down => InModeIs(stages, 3, "down", DownAsyncLists)
             /\ ~c.sync /\ ~c.down => InModeIs(stages, 3, "up", UpAsyncLists(p))
PROOF
<1>1. /\ Len(DownSyncLists(p)) = 5 /\ Len(UpSyncLists(p)) = 6
      /\ Len(DownAsyncLists) = 3 /\ Len(UpAsyncLists(p)) = 3
    BY DEF DownSyncLists, UpSyncLists, DownAsyncLists, UpAsyncLists
<1>2. ASSUME c.sync, c.down PROVE SyncStages(StagesOf(p, c), 5, "down", DownSyncLists(p))
    BY <1>1, <1>2, SyncStagesOf DEF StagesOf
<1>3. ASSUME c.sync, ~c.down PROVE SyncStages(StagesOf(p, c), 6, "up", UpSyncLists(p))
    BY <1>1, <1>3, SyncStagesOf DEF StagesOf
<1>4. ASSUME ~c.sync, c.down PROVE InModeIs(StagesOf(p, c), 3, "down", DownAsyncLists)
    BY <1>1, <1>4, 3 \in Nat, InModes DEF StagesOf
<1>5. ASSUME ~c.sync, ~c.down PROVE InModeIs(StagesOf(p, c), 3, "up", UpAsyncLists(p))
    BY <1>1, <1>5, 3 \in Nat, InModes DEF StagesOf
<1> QED BY <1>2, <1>3, <1>4, <1>5

(* A stage is what its mode says. *)
ModeFits(i, mode, list) ==
  \/ mode = "bootstrap" /\ cmd.sync /\ i \in 1..6 /\ list = BootstrapLists[i]
  \/ mode = "squashed" /\ cmd.sync /\ i > 6 /\ \E j \in 1..3 : list = SquashedLists[j]
  \/ mode = "down" /\ cmd.down /\ (cmd.sync => i > 9)
  \/ mode = "up" /\ ~cmd.down /\ (cmd.sync => i > 9) /\ \E j \in 1..6 : list = UpSyncLists(plan)[j]

(* The list and the mode of every stage. *)
LEMMA StageFits ==
  ASSUME NEW i \in DOMAIN Stages
  PROVE  i \in Nat \ {0} /\ ModeFits(i, Stages[i].mode, Stages[i].list)
PROOF
<1>u. \A k \in 1..3 : \E j \in 1..6 : UpAsyncLists(plan)[k] = UpSyncLists(plan)[j]
    BY DEF UpSyncLists, UpAsyncLists
<1> DEFINE F(last, mode, lists) ==
      SyncStages(Stages, last, mode, lists) =>
        /\ i \in 1..(9 + last)
        /\ \/ i \in 1..6 /\ Stages[i] = [mode |-> "bootstrap", list |-> BootstrapLists[i]]
           \/ i > 6 /\ \E j \in 1..3 : Stages[i] = [mode |-> "squashed", list |-> SquashedLists[j]]
           \/ i > 9 /\ \E j \in 1..last : Stages[i] = [mode |-> mode, list |-> lists[j]]
<1>f. ASSUME NEW last \in Nat, NEW mode, NEW lists
      PROVE  F(last, mode, lists)
  <2> SUFFICES ASSUME SyncStages(Stages, last, mode, lists)
               PROVE  F(last, mode, lists)
      OBVIOUS
  <2>1. i \in 1..(9 + last)
      BY DEF SyncStages
  <2>2. CASE i \in 1..6
      BY <2>1, <2>2 DEF SyncStages
  <2>3. CASE i \in 7..9
    <3>1. i - 6 \in 1..3 /\ 6 + (i - 6) = i /\ i > 6
        BY <2>3
    <3>2. Stages[6 + (i - 6)] = [mode |-> "squashed", list |-> SquashedLists[i - 6]]
        BY <3>1 DEF SyncStages
    <3> QED BY <2>1, <3>1, <3>2
  <2>4. CASE i > 9
    <3>1. i - 9 \in 1..last /\ 9 + (i - 9) = i
        BY <2>1, <2>4
    <3>2. Stages[9 + (i - 9)] = [mode |-> mode, list |-> lists[i - 9]]
        BY <3>1 DEF SyncStages
    <3> QED BY <2>1, <2>4, <3>1, <3>2
  <2> QED BY <2>1, <2>2, <2>3, <2>4
<1> HIDE DEF F
<1>1. CASE cmd.sync /\ cmd.down
  <2>1. SyncStages(Stages, 5, "down", DownSyncLists(plan)) /\ F(5, "down", DownSyncLists(plan))
      BY <1>1, <1>f, StagesAre DEF Stages
  <2> QED BY <1>1, <2>1 DEF F, ModeFits
<1>2. CASE cmd.sync /\ ~cmd.down
  <2>1. SyncStages(Stages, 6, "up", UpSyncLists(plan)) /\ F(6, "up", UpSyncLists(plan))
      BY <1>2, <1>f, StagesAre DEF Stages
  <2> QED BY <1>2, <2>1 DEF F, ModeFits
<1>3. CASE ~cmd.sync /\ cmd.down
  <2>1. InModeIs(Stages, 3, "down", DownAsyncLists)
      BY <1>3, StagesAre DEF Stages
  <2> QED BY <1>3, <2>1 DEF InModeIs, Sequence, ModeFits
<1>4. CASE ~cmd.sync /\ ~cmd.down
  <2>1. InModeIs(Stages, 3, "up", UpAsyncLists(plan))
      BY <1>4, StagesAre DEF Stages
  <2> QED BY <1>4, <1>u, <2>1 DEF InModeIs, Sequence, ModeFits
<1> QED BY <1>1, <1>2, <1>3, <1>4

(* The stages are a sequence. *)
LEMMA StagesLen == DOMAIN Stages = 1..Len(Stages) /\ Len(Stages) \in Nat
PROOF
<1>1. CASE cmd.sync
    BY <1>1, StagesAre DEF Stages, SyncStages
<1>2. CASE ~cmd.sync
    BY <1>2, StagesAre DEF Stages, InModeIs, Sequence
<1> QED BY <1>1, <1>2

(* The migrations of the list at hand. *)
LEMMA MigrationOf ==
  ASSUME Position, pc \in Working, pos.mig <= Len(Migs)
  PROVE  pos.mig \in Of(List)
PROOF
<1>1. List \in DOMAIN Migrations
    BY MigrationsAssumption DEF Position
<1> QED BY <1>1, ListsAssumption DEF Position, Migs, Of

(* The next item, or the next migration. *)
LEMMA NextItemMoves ==
  ASSUME NextItem, Running, UNCHANGED executed, pc \in Closing
  PROVE  Moves
PROOF
<1>1. ASSUME NEW j \in Later(pos.item), \A k \in Later(pos.item) : j <= k,
             GoTo("before", [pos EXCEPT !.item = j])
      PROVE  Moves
  <2>1. Advances
      BY <1>1 DEF Running, GoTo, Advances, At, FirstAfter
  <2> QED BY <2>1 DEF Moves
<1>2. CASE NextMigration
  <2>1. Passes
      BY <1>2 DEF NextMigration, Running, GoTo, Passes, At
  <2> QED BY <2>1 DEF Moves
<1> QED BY <1>1, <1>2 DEF NextItem, ItemAfter

(* A command that ends is at the start again. *)
LEMMA ExitStops ==
  ASSUME Position, NEW how, Exit(how),
         UNCHANGED executed \/ (pc = "exec" /\ executed' = executed \cup {Identity})
  PROVE  Moves
PROOF
<1>1. pc' = "idle" /\ pos' = Start /\ UNCHANGED <<plan, cmd>>
    BY DEF Exit, GoTo
<1>2. Position'
    BY <1>1, AtStart DEF Position
<1> QED BY <1>1, <1>2 DEF Stops, Moves

(* Every step is one of these. *)
LEMMA StepMoves ==
  ASSUME Position, [Next]_vars
  PROVE  Moves
PROOF
<1>1. ASSUME NEW c \in plan.commands, Begin(c) PROVE Moves
  <2>1. pc' = "list" /\ pos' = Start /\ UNCHANGED <<plan, executed>> /\ cmd' = c
      BY <1>1 DEF Begin, GoTo, history
  <2>2. Position'
      BY <2>1, AtStart, MigrationsAssumption DEF Position
  <2> QED BY <2>1, <2>2 DEF Stops, Moves
<1>n. ASSUME NextList, Running PROVE pc' = "list" /\ Position'
    BY <1>n DEF NextList, GoTo, Running, Position, Working, Operating
<1>2. CASE EnterList
  <2>1. CASE NextList
      BY <1>2, <1>n, <2>1 DEF EnterList, history, Stops, Moves
  <2>2. CASE /\ GoTo("migration", pos) /\ List \in plan.lists
             /\ Mode = "squashed" => ShouldRunSquashed(Db)
    <3>0. pos.stage \in DOMAIN Stages
        BY <1>2, StagesLen DEF EnterList, Position
    <3>1. Enters
        BY <1>2, <2>2, <3>0 DEF EnterList, history, GoTo, Running, Enters, At
    <3> QED BY <3>1 DEF Moves
  <2> QED BY <1>2, <2>1, <2>2 DEF EnterList
<1>3. CASE EndCommand
    BY <1>3, ExitStops DEF EndCommand, history
<1>4. CASE EnterMigration
  <2>1. CASE NextList
      BY <1>4, <1>n, <2>1 DEF EnterMigration, history, Stops, Moves
  <2>2. CASE NextMigration
    <3>1. Passes
        BY <1>4, <2>2 DEF EnterMigration, history, NextMigration, GoTo, Running, Passes, At
    <3> QED BY <3>1 DEF Moves
  <2>3. ASSUME pos.mig <= Len(Migs), LooksAtRecord => ShouldRunMigration,
               NEW j \in Later(0), \A k \in Later(0) : j <= k,
               GoTo("before", [pos EXCEPT !.item = j])
        PROVE  Moves
    <3>1. pos.mig \in Of(List)
        BY <1>4, <2>3, MigrationOf DEF EnterMigration, Working
    <3>2. Opens
        BY <1>4, <2>3, <3>1 DEF EnterMigration, history, GoTo, Running, Opens, At, FirstAfter
    <3> QED BY <3>2 DEF Moves
  <2> QED BY <1>4, <2>1, <2>2, <2>3 DEF EnterMigration, ItemAfter
<1>5. CASE Panic
    BY <1>5, ExitStops DEF Panic, history
<1>6. CASE WaitForRunningMutations
    BY <1>6 DEF WaitForRunningMutations, WaitEnds, history, GoTo, Running, Works, At, Moves
<1>7. CASE Insert
  <2>1. Key \in Recorded'
      BY <1>7 DEF Insert, InsertMigrationEntry, Updated, Recorded
  <2> QED BY <1>7, <2>1 DEF Insert, history, GoTo, Running, Works, At, Moves
<1>8. CASE Exec
  <2>1. Executes
      BY <1>8 DEF Exec, Execute, GoTo, Running, Executes, At
  <2> QED BY <2>1 DEF Moves
<1>9. CASE ExecRefused
    BY <1>9, ExitStops DEF ExecRefused, FailOperation
<1>10. CASE WaitDistributedDDLQueue \/ GiveUpOnQueue
  <2>1. QueueEnds /\ Running /\ UNCHANGED executed
      BY <1>10 DEF WaitDistributedDDLQueue, GiveUpOnQueue, history
  <2>2. CASE NextItem /\ pc = "afterQueue"
      BY <2>1, <2>2, NextItemMoves DEF Closing
  <2>3. CASE (pc = "afterQueue" /\ GoTo("finish", pos)) \/ (pc = "beforeQueue" /\ GoTo(AfterWait,
     pos))
      BY <2>1, <2>3 DEF GoTo, Running, Works, At, Moves
  <2> QED BY <2>1, <2>2, <2>3 DEF QueueEnds
<1>11. CASE Finish
    BY <1>11, NextItemMoves DEF Finish, history, Closing
<1>12. CASE WaitFails
    BY <1>12, ExitStops DEF WaitFails, FailOperation
<1>14. CASE InsertFails
    BY <1>14, ExitStops DEF InsertFails, history
<1>15. CASE ExecFails
    BY <1>15, ExitStops DEF ExecFails, FailOperation, Execute
<1>16. CASE UpdateFails
    BY <1>16, ExitStops DEF UpdateFails, history
<1>17. CASE Crash
    BY <1>17, ExitStops DEF Crash, history
<1>18. ASSUME NEW h \in plan.hosts, MutationDone(h) \/ QueueDone(h) \/ Look(h) PROVE Moves
    BY <1>18 DEF MutationDone, QueueDone, Look, Running, process, history, Rests, At, Moves
<1>19. CASE UNCHANGED vars
    BY <1>19 DEF vars, Rests, At, Moves
<1> QED BY <1>1, <1>2, <1>3, <1>4, <1>5, <1>6, <1>7, <1>8, <1>9, <1>10, <1>11, <1>12,
        <1>14, <1>15, <1>16, <1>17, <1>18, <1>19 DEF Next, Walk, Operate, Failing, Hosts

-----------------------------------------------------------------------------
(* Records. *)

(* Records stay, and whoever reads failed in one will find it among those   *)
(* that were set to failed.                                                 *)
RecordsKept ==
  /\ DOMAIN status \subseteq DOMAIN status' /\ away \subseteq away'
  /\ failed \subseteq failed' /\ FailedKnown'

(* What an update does to the records: it is pending. *)
Update(k, new) ==
  /\ status' = status
  /\ DOMAIN upd' = DOMAIN upd \cup ({k} \cap DOMAIN status)
  /\ \A j \in DOMAIN upd' : upd'[j] = IF j = k /\ k \in DOMAIN status THEN new ELSE upd[j]

(* What updateMigrationEntry does. *)
LEMMA UpdateIs ==
  ASSUME NEW k, NEW new, UpdateMigrationEntry(k, new)
  PROVE  Update(k, new) /\ away' = away
PROOF
<1> DEFINE change == [j \in {k} \cap DOMAIN status |-> new]
<1>1. upd' = Updated(upd, change) /\ UNCHANGED <<status, away>>
    BY DEF UpdateMigrationEntry
<1>2. DOMAIN change = {k} \cap DOMAIN status /\ \A j \in DOMAIN change : change[j] = new /\ j = k
    OBVIOUS
<1> HIDE DEF change
<1> QED BY <1>1, <1>2 DEF Updated, Update

(* And an insert at home, and the end of a mutation there. *)
InsertIs(k) ==
  /\ DOMAIN status' = DOMAIN status \cup {k}
  /\ \A j \in DOMAIN status' : status'[j] = IF j = k THEN InProgress ELSE status[j]
  /\ DOMAIN upd \ {k} \subseteq DOMAIN upd' /\ DOMAIN upd' \subseteq DOMAIN upd
  /\ \A j \in DOMAIN upd' : upd'[j] = upd[j]

(* What insertMigrationEntry does: elsewhere it leaves the records at home. *)
LEMMA InsertsOne ==
  ASSUME NEW k, InsertMigrationEntry(k)
  PROVE  (InsertIs(k) /\ away' = away) \/ (UNCHANGED <<status, upd>> /\ away' = away \cup {k})
PROOF
<1> DEFINE change == [j \in {k} |-> InProgress]
           rest   == [j \in DOMAIN upd \ {k} |-> upd[j]]
<1>1. CASE status' = Updated(status, change) /\ (upd' = upd \/ upd' = rest) /\ UNCHANGED away
  <2>1. DOMAIN change = {k} /\ \A j \in DOMAIN change : change[j] = InProgress /\ j = k
      OBVIOUS
  <2>2. DOMAIN rest = DOMAIN upd \ {k} /\ \A j \in DOMAIN rest : rest[j] = upd[j]
      OBVIOUS
  <2> HIDE DEF change, rest
  <2>3. DOMAIN status' = DOMAIN status \cup {k}
      BY <1>1, <2>1 DEF Updated
  <2>4. \A j \in DOMAIN status' : status'[j] = IF j = k THEN InProgress ELSE status[j]
      BY <1>1, <2>1 DEF Updated
  <2>5. /\ DOMAIN upd \ {k} \subseteq DOMAIN upd' /\ DOMAIN upd' \subseteq DOMAIN upd
        /\ \A j \in DOMAIN upd' : upd'[j] = upd[j]
      BY <1>1, <2>2
  <2> QED BY <1>1, <2>3, <2>4, <2>5 DEF InsertIs
<1>2. CASE UNCHANGED <<status, upd>> /\ away' = away \cup {k}
    BY <1>2
<1> QED BY <1>1, <1>2 DEF InsertMigrationEntry

FlushIs ==
  /\ DOMAIN status' = DOMAIN status \cup DOMAIN upd /\ upd' = << >>
  /\ \A j \in DOMAIN status' : status'[j] = IF j \in DOMAIN upd THEN upd[j] ELSE status[j]

(* The mutations of a host, or of another one. *)
LEMMA FlushesHome ==
  ASSUME NEW h, MutationDone(h)
  PROVE  FlushIs \/ UNCHANGED <<status, upd>>
PROOF
<1>1. CASE status' = Updated(status, upd) /\ upd' = << >>
    BY <1>1 DEF Updated, FlushIs
<1> QED BY <1>1 DEF MutationDone

(* The actions that leave records, or records and hosts, as they are. *)
Walking ==
  \/ \E c \in plan.commands : Begin(c)
  \/ EnterList \/ EndCommand \/ EnterMigration \/ Panic
  \/ WaitForRunningMutations \/ WaitDistributedDDLQueue \/ GiveUpOnQueue
  \/ InsertFails \/ UpdateFails \/ Crash
  \/ \E h \in plan.hosts : Look(h)

(* They change no database and no history. *)
LEMMA WalkingLeaves ==
  ASSUME Walking
  PROVE  UNCHANGED <<plan, database, history>>
PROOF
<1> USE DEF Exit, Running
<1>1. ASSUME NEW c \in plan.commands, Begin(c) PROVE UNCHANGED <<plan, database, history>>
    BY <1>1 DEF Begin
<1>2. ASSUME NEW h \in plan.hosts, Look(h) PROVE UNCHANGED <<plan, database, history>>
    BY <1>2 DEF Look
<1>3. CASE EnterList \/ EndCommand \/ EnterMigration \/ Panic
    BY <1>3 DEF EnterList, EndCommand, EnterMigration, Panic
<1>4. CASE WaitForRunningMutations \/ WaitDistributedDDLQueue \/ GiveUpOnQueue
    BY <1>4 DEF WaitForRunningMutations, WaitDistributedDDLQueue, GiveUpOnQueue
<1>5. CASE InsertFails \/ UpdateFails \/ Crash
    BY <1>5 DEF InsertFails, UpdateFails, Crash
<1> QED BY <1>1, <1>2, <1>3, <1>4, <1>5 DEF Walking

(* The actions by which an operation fails. *)
Failures == WaitFails \/ ExecRefused \/ ExecFails

(* They record the failure, behind what hosts D have queued. *)
LEMMA FailuresAre ==
  ASSUME Failures
  PROVE  \E D : FailOperation(D) /\ D \subseteq ddl \cup plan.hosts
PROOF
<1>1. CASE WaitFails \/ ExecRefused
    BY <1>1 DEF WaitFails, ExecRefused
<1>2. CASE ExecFails
  <2>1. FailOperation(ddl) \/ FailOperation(plan.hosts)
      BY <1>2 DEF ExecFails
  <2> QED BY <2>1
<1> QED BY <1>1, <1>2 DEF Failures

(* Every action is of one of these sorts. *)
LEMMA Actions ==
  ASSUME [Next]_vars
  PROVE  \/ Walking \/ Failures \/ Insert \/ Exec \/ Finish \/ UNCHANGED vars
         \/ \E h \in plan.hosts : MutationDone(h) \/ QueueDone(h)
PROOF
<1> USE DEF Walking, Failures
<1>1. Walk => Walking
    BY DEF Walk
<1>2. Operate => Walking \/ Failures \/ Insert \/ Exec \/ Finish
    BY DEF Operate
<1>3. Failing => Walking \/ Failures
    BY DEF Failing
<1> QED BY <1>1, <1>2, <1>3 DEF Next, Hosts

(* Every step keeps the records. *)
LEMMA StepKeepsRecords ==
  ASSUME FailedKnown, [Next]_vars
  PROVE  RecordsKept
PROOF
<1> USE DEF RecordsKept, FailedKnown
<1>u. ASSUME UNCHANGED <<status, upd, away, failed>> PROVE RecordsKept
    BY <1>u
<1>1. CASE Walking
    BY <1>1, <1>u, WalkingLeaves DEF database, records, history
<1>2. CASE Failures
  <2>1. PICK D : FailOperation(D)
      BY <1>2, FailuresAre
  <2>2. /\ Update(Key, Failed) /\ away' = away /\ failed \subseteq failed'
        /\ Key \in DOMAIN status => Key \in failed'
      BY <2>1, UpdateIs DEF FailOperation
  <2> QED BY <2>2 DEF Update
<1>3. CASE Insert
  <2>1. /\ (InsertIs(Key) /\ away' = away) \/ (UNCHANGED <<status, upd>> /\ away' = away \cup {Key})
        /\ UNCHANGED failed
      BY <1>3, InsertsOne DEF Insert, history
  <2> QED BY <2>1 DEF InsertIs, InProgress, Failed
<1>4. CASE Exec
    BY <1>4, <1>u DEF Exec, records
<1>5. CASE Finish
  <2>1. Update(Key, Finished) /\ away' = away /\ UNCHANGED failed
      BY <1>5, UpdateIs DEF Finish, history
  <2> QED BY <2>1 DEF Update, Finished, Failed
<1>6. ASSUME NEW h \in plan.hosts, MutationDone(h) PROVE RecordsKept
  <2>1. (FlushIs \/ UNCHANGED <<status, upd>>) /\ UNCHANGED <<away, failed>>
      BY <1>6, FlushesHome DEF MutationDone, history
  <2> QED BY <2>1 DEF FlushIs
<1>7. ASSUME NEW h \in plan.hosts, QueueDone(h) PROVE RecordsKept
    BY <1>7, <1>u DEF QueueDone, records, history
<1>8. CASE UNCHANGED vars
    BY <1>8, <1>u DEF vars
<1> QED BY <1>1, <1>2, <1>3, <1>4, <1>5, <1>6, <1>7, <1>8, Actions

(* Updates wait for a mutation of their host, and for records that exist. *)
LEMMA PendingStep ==
  ASSUME Pending, [Next]_vars
  PROVE  Pending'
PROOF
<1> USE DEF Pending
<1>1. CASE Walking \/ UNCHANGED vars
  <2>1. UNCHANGED <<plan, status, upd, hosts>>
      BY <1>1, WalkingLeaves DEF vars, database, records, hosts
  <2> QED BY <2>1 DEF hosts
<1>m. ASSUME NEW D, MutateBehind(D), UNCHANGED <<plan, status>>, D \subseteq plan.hosts,
             DOMAIN upd' \subseteq DOMAIN status
      PROVE  Pending'
  <2>1. ddl' = D /\ queued' = (D # {}) /\ mutating' = mutating \cup (plan.hosts \ D)
      BY <1>m DEF MutateBehind
  <2> QED BY <1>m, <2>1
<1>2. CASE Failures
  <2>1. PICK D : FailOperation(D) /\ D \subseteq ddl \cup plan.hosts
      BY <1>2, FailuresAre
  <2>2. Update(Key, Failed) /\ MutateBehind(D) /\ UNCHANGED plan
      BY <2>1, UpdateIs DEF FailOperation, Exit
  <2>3. UNCHANGED status /\ DOMAIN upd' \subseteq DOMAIN status
      BY <2>2 DEF Update
  <2>4. D \subseteq plan.hosts
      BY <2>1
  <2> QED BY <1>m, <2>2, <2>3, <2>4
<1>3. CASE Insert
  <2>1. /\ InsertIs(Key) \/ UNCHANGED <<status, upd>>
        /\ UNCHANGED <<plan, mutating, ddl, queued>>
      BY <1>3, InsertsOne DEF Insert, Running, hosts
  <2> QED BY <2>1 DEF InsertIs
<1>4. CASE Exec
  <2>1. UNCHANGED <<plan, status, upd>>
      BY <1>4 DEF Exec, Running, records
  <2>2. CASE MutateBehind(ddl)
      BY <1>m, <2>1, <2>2
  <2>3. CASE UNCHANGED hosts
      BY <2>1, <2>3 DEF hosts
  <2> QED BY <1>4, <2>2, <2>3 DEF Exec
<1>5. CASE Finish
  <2>1. Update(Key, Finished) /\ MutateBehind(ddl) /\ UNCHANGED plan
      BY <1>5, UpdateIs DEF Finish, Running
  <2>2. UNCHANGED status /\ DOMAIN upd' \subseteq DOMAIN status
      BY <2>1 DEF Update
  <2> QED BY <1>m, <2>1, <2>2
<1>6. ASSUME NEW h \in plan.hosts, MutationDone(h) PROVE Pending'
  <2>1. mutating' = mutating \ {h} /\ UNCHANGED <<plan, ddl, queued>>
      BY <1>6 DEF MutationDone, process
  <2>2. CASE h = plan.home /\ ~(queued /\ h \in ddl)
    <3>1. FlushIs
        BY <1>6, <2>2 DEF MutationDone, Updated, FlushIs
    <3> QED BY <2>1, <3>1 DEF FlushIs
  <2>3. CASE ~(h = plan.home /\ ~(queued /\ h \in ddl))
    <3>1. UNCHANGED <<status, upd>>
        BY <1>6, <2>3 DEF MutationDone
    <3> QED BY <2>1, <2>3, <3>1
  <2> QED BY <2>2, <2>3
<1>7. ASSUME NEW h \in plan.hosts, QueueDone(h) PROVE Pending'
  <2>1. ddl' = ddl \ {h} /\ queued' = (queued /\ ddl # {h}) /\ UNCHANGED <<plan, status, upd>>
      BY <1>7 DEF QueueDone, process, records
  <2>2. mutating' = IF queued THEN mutating \cup {h} ELSE mutating
      BY <1>7 DEF QueueDone
  <2> QED BY <2>1, <2>2
<1> QED BY <1>1, <1>2, <1>3, <1>4, <1>5, <1>6, <1>7, Actions

-----------------------------------------------------------------------------
(* The invariant. *)

(* Where the command does not leave its list, or its migration. *)
SameList ==
  /\ pos'.stage = pos.stage /\ UNCHANGED <<plan, cmd>>
  /\ Mode' = Mode /\ List' = List /\ Db' = Db /\ Migs' = Migs /\ Stages' = Stages
  /\ LooksAtRecord' = LooksAtRecord

SameMig ==
  /\ SameList /\ pos'.mig = pos.mig /\ Mig' = Mig /\ Key' = Key /\ Items' = Items
  /\ \A o : Selected(o)' = Selected(o)

SameItem == SameMig /\ pos' = pos /\ Item' = Item /\ Identity' = Identity

(* Where the position stays, so does what is derived from it. *)
LEMMA Stays ==
  ASSUME cmd' = cmd, plan' = plan, pos'.stage = pos.stage
  PROVE  /\ SameList
         /\ pos'.mig = pos.mig => SameMig
         /\ pos' = pos => SameItem
PROOF
<1>1. SameList
    BY DEF SameList, Mode, List, Db, Migs, Stages, LooksAtRecord
<1>2. pos'.mig = pos.mig => SameMig
    BY <1>1 DEF SameMig, SameList, Mig, Key, Items, Selected
<1>3. pos' = pos => SameItem
    BY <1>1, <1>2 DEF SameItem, SameMig, SameList, Item, Identity
<1> QED BY <1>1, <1>2, <1>3

(* The position after a step to an item, or to the next migration. *)
LEMMA PosIs ==
  ASSUME Position
  PROVE  /\ \A j : [pos EXCEPT !.item = j] = [stage |-> pos.stage, mig |-> pos.mig, item |-> j]
         /\ [pos EXCEPT !.mig = @ + 1, !.item = 1]
               = [stage |-> pos.stage, mig |-> pos.mig + 1, item |-> 1]
PROOF
<1>1. PICK a, b, c : pos = [stage |-> a, mig |-> b, item |-> c]
    BY DEF Position
<1>2. pos.stage = a /\ pos.mig = b /\ pos.item = c
    BY <1>1
<1>3. ASSUME NEW d, NEW j
      PROVE  [[stage |-> a, mig |-> d, item |-> c] EXCEPT !.item = j]
               = [stage |-> a, mig |-> d, item |-> j]
    OBVIOUS
<1>4. [pos EXCEPT !.mig = b + 1] = [stage |-> a, mig |-> b + 1, item |-> c]
    BY <1>1
<1>5. [pos EXCEPT !.mig = @ + 1, !.item = 1] = [[pos EXCEPT !.mig = pos.mig + 1] EXCEPT !.item = 1]
    OBVIOUS
<1>6. [pos EXCEPT !.mig = @ + 1, !.item = 1] = [stage |-> a, mig |-> b + 1, item |-> 1]
    BY <1>2, <1>3, <1>4, <1>5
<1>7. \A j : [pos EXCEPT !.item = j] = [stage |-> a, mig |-> b, item |-> j]
    BY <1>1, <1>3
<1> QED BY <1>2, <1>6, <1>7

(* The items of a migration are counted from one. *)
LEMMA ItemsFrom ==
  ASSUME Position, List \in plan.lists, pos.mig \in Of(List)
  PROVE  DOMAIN Items \subseteq Nat \ {0}
PROOF
<1>1. List \in DOMAIN Migrations
    BY MigrationsAssumption DEF Position
<1> QED BY <1>1, ListsAssumption DEF Items, Mig, Migs

(* The key of what is executed is that of its migration. *)
LEMMA IdentityKey == KeyOf(Identity) = Key
PROOF
  BY DEF KeyOf, Identity, Key, Db, Mig, Migs

(* What a step of each kind leaves as it is. *)
LEMMA MovesStay ==
  ASSUME Position, Moves
  PROVE  /\ Enters \/ Works \/ Executes \/ Rests => SameItem
         /\ Opens \/ Advances => SameMig /\ pos' = [stage |-> pos.stage, mig |-> pos.mig,
                                                    item |-> pos'.item]
         /\ Passes => SameList /\ pos' = [stage |-> pos.stage, mig |-> pos.mig + 1, item |-> 1]
PROOF
<1>1. ASSUME Enters \/ Works \/ Executes \/ Rests PROVE SameItem
  <2>1. At(pos)
      BY <1>1 DEF Enters, Works, Executes, Rests
  <2>2. cmd' = cmd /\ plan' = plan /\ pos' = pos /\ pos'.stage = pos.stage
      BY <2>1 DEF At
  <2> QED BY <2>2, Stays
<1>2. ASSUME Opens \/ Advances
      PROVE  SameMig /\ pos' = [stage |-> pos.stage, mig |-> pos.mig, item |-> pos'.item]
  <2>1. PICK j : At([pos EXCEPT !.item = j])
      BY <1>2 DEF Opens, Advances
  <2>2. pos' = [stage |-> pos.stage, mig |-> pos.mig, item |-> j] /\ cmd' = cmd /\ plan' = plan
      BY <2>1, PosIs DEF At
  <2>3. pos'.stage = pos.stage /\ pos'.mig = pos.mig /\ pos'.item = j
      BY <2>2
  <2>4. SameMig
      BY <2>2, <2>3, Stays
  <2> QED BY <2>2, <2>3, <2>4
<1>3. ASSUME Passes
      PROVE  SameList /\ pos' = [stage |-> pos.stage, mig |-> pos.mig + 1, item |-> 1]
  <2>1. pos' = [stage |-> pos.stage, mig |-> pos.mig + 1, item |-> 1] /\ cmd' = cmd /\ plan' = plan
      BY <1>3, PosIs DEF Passes, At
  <2>2. pos'.stage = pos.stage
      BY <2>1
  <2> QED BY <2>1, <2>2, Stays
<1> QED BY <1>1, <1>2, <1>3

(* The next item is a later one. *)
LEMMA AdvancesOn ==
  ASSUME Position, Advances
  PROVE  /\ UNCHANGED <<plan, cmd, executed>> /\ pc \in Closing /\ pc' = "before"
         /\ pos'.mig = pos.mig /\ pos.item < pos'.item /\ pos'.item \in Nat
PROOF
<1>1. PICK j : FirstAfter(pos.item, j) /\ pos' = [stage |-> pos.stage, mig |-> pos.mig, item |-> j]
               /\ plan' = plan /\ cmd' = cmd
    BY PosIs DEF Advances, At
<1>2. DOMAIN Items \subseteq Nat \ {0}
    BY ItemsFrom DEF Position, Advances, Operating, Working, Closing
<1> QED BY <1>1, <1>2 DEF Advances, FirstAfter, Later

(* The position stays one. *)
LEMMA PositionStep ==
  ASSUME Position, Moves
  PROVE  Position'
PROOF
<1> USE DEF Working, Operating, Closing
<1>1. CASE Advances \/ Opens
  <2>1. PICK i, j : FirstAfter(i, j) /\ pos' = [stage |-> pos.stage, mig |-> pos.mig, item |-> j]
      BY <1>1, PosIs DEF Advances, Opens, At
  <2>2. SameMig /\ pc \in Working /\ pc' = "before" /\ pos.mig \in Of(List)
      BY <1>1, MovesStay DEF Advances, Opens, Position
  <2>3. j \in DOMAIN Items /\ Selected(Items[j]) /\ j \in Nat
      BY <2>1, <2>2, ItemsFrom DEF FirstAfter, Later, Position
  <2>4. Items' = Items /\ Item' = Items[j] /\ Selected(Item)'
      BY <2>1, <2>2, <2>3 DEF SameMig, Item
  <2> QED BY <2>1, <2>2, <2>3, <2>4 DEF Position, SameMig, SameList, Of
<1>2. CASE Passes
  <2>1. SameList /\ pos' = [stage |-> pos.stage, mig |-> pos.mig + 1, item |-> 1]
        /\ pc \in Working /\ pc' = "migration"
      BY <1>2, MovesStay DEF Passes
  <2> QED BY <2>1 DEF Position, SameList
<1>3. CASE Stops
    BY <1>3 DEF Stops
<1>4. CASE Enters
  <2>1. SameItem
      BY <1>4, MovesStay
  <2> QED BY <1>4, <2>1 DEF Enters, SameItem, SameMig, SameList, Position
<1>5. CASE Works \/ Executes \/ Rests
  <2>1. SameItem /\ (pc' \in Operating => pc \in Operating) /\ (pc' \in Working => pc \in Working)
      BY <1>5, MovesStay DEF Works, Executes, Rests, AfterWait
  <2> QED BY <2>1 DEF SameItem, SameMig, SameList, Position, Of
<1> QED BY <1>1, <1>2, <1>3, <1>4, <1>5 DEF Moves

(* Where a step does not lead behind a wait nothing has been seen. *)
LEMMA AloneElsewhere ==
  ASSUME NEW step, NEW p, GoTo(step, p), step \notin Looked,
         step \in Submitted => ddl' = {} \/ Misread'
  PROVE  Alone'
PROOF
<1>1. pc' = step /\ seen' = {} /\ late' = {}
    BY DEF GoTo
<1> QED BY <1>1 DEF Alone, Looked

(* Where it does, all hosts have. *)
LEMMA AloneBehind ==
  ASSUME NEW step, NEW p, GoTo(step, p), step \in Looked, plan' = plan,
         mutating' \cap WaitedHosts \subseteq late,
         step # "beforeQueue" => ddl' = {} \/ Misread',
         step \in Submitted => late = {} \/ Misread'
  PROVE  Alone'
PROOF
<1>1. pc' = step /\ seen' = WaitedHosts /\ late' = late
    BY DEF GoTo
<1>2. WaitedHosts' = WaitedHosts
    BY DEF WaitedHosts
<1> QED BY <1>1, <1>2 DEF Alone, Looked, Submitted

(* A command that ends, or goes on to an item. *)
LEMMA AloneAway ==
  ASSUME (\E how : Exit(how)) \/ (\E i : ItemAfter(i)) \/ NextList
         \/ (\E p : GoTo("list", p) \/ GoTo("migration", p))
  PROVE  Alone'
PROOF
<1>1. \E step \in {"idle", "list", "migration", "before"} : \E p : GoTo(step, p)
    BY DEF Exit, ItemAfter, NextMigration, NextList
<1> QED BY <1>1, AloneElsewhere DEF Looked, Submitted

(* What a wait for mutations lets through has been seen. *)
LEMMA AloneStep ==
  ASSUME Alone, [Next]_vars
  PROVE  Alone'
PROOF
<1>s. pc \in Looked => mutating \cap WaitedHosts \subseteq late
    BY DEF Alone
<1>1. ASSUME NEW c \in plan.commands, Begin(c) PROVE Alone'
    BY <1>1, AloneAway DEF Begin
<1>2. CASE EnterList
  <2>1. NextList \/ GoTo("migration", pos)
      BY <1>2 DEF EnterList
  <2> QED BY <2>1, AloneAway
<1>3. CASE EnterMigration
  <2>1. NextList \/ ItemAfter(0) \/ NextMigration
      BY <1>3 DEF EnterMigration
  <2> QED BY <2>1, AloneAway DEF NextMigration
<1>4. CASE EndCommand \/ Panic \/ InsertFails \/ UpdateFails \/ Crash
    BY <1>4, AloneAway DEF EndCommand, Panic, InsertFails, UpdateFails, Crash
<1>5. CASE WaitForRunningMutations
  <2>1. /\ mutating \cap (WaitedHosts \ seen) = {}
        /\ UNCHANGED <<plan, events, mutating, ddl>>
      BY <1>5 DEF WaitForRunningMutations, Running, NoFault, database, hosts
  <2>2. mutating' \cap WaitedHosts \subseteq late
      BY <2>1 DEF Alone
  <2>3. CASE pc = "before" /\ GoTo("beforeQueue", pos)
      BY <2>1, <2>2, <2>3, AloneBehind DEF Looked, Submitted
  <2>4. CASE pc = "after" /\ GoTo("afterQueue", pos)
    <3>1. (ddl' = {} \/ Misread') /\ (late = {} \/ Misread')
        BY <2>1, <2>4 DEF Alone, Misread, Submitted
    <3> QED BY <2>1, <2>2, <2>4, <3>1, AloneBehind DEF Looked, Submitted
  <2> QED BY <1>5, <2>3, <2>4 DEF WaitForRunningMutations, WaitEnds
<1>6. CASE WaitDistributedDDLQueue \/ GiveUpOnQueue
  <2>1. /\ QueueEnds /\ UNCHANGED <<plan, mutating>>
        /\ ddl' = {} \/ Misread'
        /\ Misread => Misread'
      BY <1>6 DEF WaitDistributedDDLQueue, GiveUpOnQueue, Running, NoFault, Fault, Misread,
         database,
         hosts
  <2>2. CASE pc = "beforeQueue" /\ GoTo(AfterWait, pos)
      BY <1>s, <2>1, <2>2, AloneBehind DEF Looked, Submitted, AfterWait
  <2>3. CASE pc = "afterQueue" /\ GoTo("finish", pos)
    <3>1. late = {} \/ Misread'
        BY <2>1, <2>3 DEF Alone, Submitted
    <3> QED BY <1>s, <2>1, <2>3, <3>1, AloneBehind DEF Looked
  <2>4. CASE NextItem
      BY <2>4, AloneAway DEF NextItem
  <2>5. \/ pc = "beforeQueue" /\ GoTo(AfterWait, pos)
        \/ pc = "afterQueue" /\ (NextItem \/ GoTo("finish", pos))
    <3>1. CASE Mode = "bootstrap"
        BY <2>1, <3>1 DEF QueueEnds
    <3>2. CASE Mode # "bootstrap"
        BY <2>1, <3>2 DEF QueueEnds
    <3> QED BY <3>1, <3>2
  <2> QED BY <2>2, <2>3, <2>4, <2>5
<1>7. CASE Failures
    BY <1>7, FailuresAre, AloneAway DEF FailOperation
<1>8. CASE Insert
  <2>1. GoTo("exec", pos) /\ pc = "insert" /\ UNCHANGED <<plan, events, mutating, ddl>>
      BY <1>8 DEF Insert, Running, NoFault, hosts
  <2>2. ddl' = {} \/ Misread'
      BY <2>1 DEF Alone, Misread
  <2> QED BY <1>s, <2>1, <2>2, AloneBehind DEF Looked, Submitted
<1>9. CASE Exec
  <2>1. GoTo("after", pos) /\ pc = "exec" /\ ddl' = ddl /\ events' = events
      BY <1>9 DEF Exec, NoFault, hosts, MutateBehind
  <2>2. ddl' = {} \/ Misread'
      BY <2>1 DEF Alone, Misread
  <2> QED BY <2>1, <2>2, AloneElsewhere DEF Looked
<1>10. CASE Finish
    BY <1>10, AloneAway DEF Finish, NextItem
<1>11. ASSUME NEW h \in plan.hosts, Look(h) PROVE Alone'
    BY <1>11 DEF Look, Running, NoFault, database, hosts, Alone, Looked, Submitted, WaitedHosts,
       Misread
<1>12. ASSUME NEW h \in plan.hosts, MutationDone(h) PROVE Alone'
    BY <1>12 DEF MutationDone, NoFault, process, Alone, WaitedHosts, Misread
<1>13. ASSUME NEW h \in plan.hosts, QueueDone(h) PROVE Alone'
  <2>1. /\ UNCHANGED <<plan, pc, events, seen>> /\ h \in ddl /\ ddl' = ddl \ {h}
        /\ \/ mutating' = mutating \cup {h} /\ late' = late \cup ({h} \cap seen)
           \/ UNCHANGED <<mutating, late>>
      BY <1>13 DEF QueueDone, NoFault, process
  <2> QED BY <2>1 DEF Alone, WaitedHosts, Misread, Submitted
<1>14. CASE UNCHANGED vars
    BY <1>14 DEF vars, Alone, WaitedHosts, Misread
<1> QED BY <1>1, <1>2, <1>3, <1>4, <1>5, <1>6, <1>7, <1>8, <1>9, <1>10, <1>11, <1>12, <1>13,
        <1>14, Actions DEF Walking

(* What is executed has its record. *)
LEMMA KnownStep ==
  ASSUME Position, Known, Moves, RecordsKept
  PROVE  Known'
PROOF
<1>1. executed' = executed \/ (pc = "exec" /\ executed' = executed \cup {Identity})
    BY DEF Moves, Stops, Enters, Opens, Works, Executes, Advances, Passes, Rests
<1>2. /\ Identity[4] = pos.mig /\ Identity[5] = pos.item /\ Identity[2] = Mode
      /\ KeyOf(Identity) = Key
    BY IdentityKey DEF Identity
<1>3. /\ \A e \in executed' : e[4] \in Nat /\ e[5] \in Nat
      /\ \A e \in executed' : e[2] # "bootstrap" => KeyOf(e) \in Recorded'
    BY <1>1, <1>2 DEF Known, Recorded, RecordsKept, Position
<1>4. pc' = "exec" /\ Mode' # "bootstrap" => Key' \in Recorded'
  <2> SUFFICES ASSUME pc' = "exec", Mode' # "bootstrap" PROVE Key' \in Recorded'
      OBVIOUS
  <2>1. Works \/ Rests
      BY DEF Moves, Stops, Enters, Opens, Executes, Advances, Passes
  <2>3. Mode # "bootstrap" /\ Key' = Key
      BY <2>1, MovesStay DEF SameItem, SameMig, SameList
  <2>4. CASE Works
      BY <2>3, <2>4 DEF Works, AfterWait
  <2>5. CASE Rests
      BY <2>3, <2>5 DEF Rests, Known, Recorded, RecordsKept
  <2> QED BY <2>1, <2>4, <2>5
<1>5. \A e : KeyOf(e)' = KeyOf(e)
    BY DEF KeyOf
<1> QED BY <1>3, <1>4, <1>5 DEF Known, KeyOf

(* No item ahead of the one at hand has been executed. *)
LEMMA NotAheadStep ==
  ASSUME Position, Known, FailedKnown, NotAhead, Moves, RecordsKept
  PROVE  NotAhead'
PROOF
<1> SUFFICES ASSUME pc' \in Operating, LooksAtRecord'
             PROVE  Key' \in failed' \cup away' \/ \A e \in executed' : This(e)' => Behind(e)'
    BY DEF NotAhead
<1> USE DEF Operating, Submitted, Closing
<1>i. Identity[5] = pos.item
    BY DEF Identity
<1>1. CASE Opens
  <2>1. /\ LooksAtRecord /\ Key' = Key /\ List' = List /\ Mode' = Mode /\ executed' = executed
        /\ pos'.mig = pos.mig /\ cmd' = cmd
      BY <1>1, MovesStay DEF Opens, SameMig, SameList
  <2>2. CASE Key \in DOMAIN status
      BY <1>1, <2>1, <2>2 DEF Opens, ShouldRunMigration, FailedKnown, RecordsKept
  <2>3. CASE Key \notin Recorded
    <3>1. ASSUME NEW e \in executed, This(e) PROVE FALSE
      <4>1. KeyOf(e) = Key /\ e[2] # "bootstrap"
          BY <2>1, <3>1 DEF This, KeyOf, Key, Db, Mig, Migs, LooksAtRecord
      <4> QED BY <2>3, <4>1 DEF Known
    <3> QED BY <2>1, <3>1 DEF This
  <2>4. CASE Key \in away
      BY <2>1, <2>4 DEF RecordsKept
  <2> QED BY <2>2, <2>3, <2>4 DEF Recorded
<1>2. CASE Works \/ Executes \/ Rests
  <2>1. pc \in Operating
      BY <1>2 DEF Works, Executes, Rests
  <2>2. /\ LooksAtRecord /\ Key' = Key /\ List' = List /\ Mode' = Mode /\ pos' = pos
        /\ cmd' = cmd
      BY <1>2, MovesStay DEF SameItem, SameMig, SameList
  <2>3. CASE Key \in failed \cup away
      BY <2>2, <2>3 DEF RecordsKept
  <2>4. CASE Key \notin failed \cup away
    <3>1. \A e \in executed : This(e) => Behind(e)
        BY <2>1, <2>2, <2>4 DEF NotAhead
    <3>2. \A e \in executed : Behind(e) => Behind(e)'
        BY <1>2, <2>2 DEF Behind, Works, Executes, Rests, AfterWait
    <3>3. \A e \in executed' : This(e)' => e \in executed \/ (pc' = "after" /\ e = Identity)
        BY <1>2 DEF Works, Executes, Rests
    <3> QED BY <1>i, <2>2, <3>1, <3>2, <3>3 DEF This, Behind
  <2> QED BY <2>3, <2>4
<1>3. CASE Advances
  <2>1. /\ pos'.mig = pos.mig /\ pos.item < pos'.item
        /\ cmd' = cmd /\ executed' = executed /\ pc \in Closing
      BY <1>3, AdvancesOn
  <2>2. LooksAtRecord /\ List' = List /\ Mode' = Mode
      BY <1>3, MovesStay DEF SameMig, SameList
  <2>3. Key' = Key
      BY <1>3, MovesStay DEF SameMig
  <2>4. CASE Key \in failed \cup away
      BY <2>3, <2>4 DEF RecordsKept
  <2>5. CASE Key \notin failed \cup away
    <3>1. \A e \in executed : This(e) => Behind(e)
        BY <2>1, <2>2, <2>5 DEF NotAhead
    <3>2. \A e \in executed : Behind(e) => Behind(e)'
      <4>1. pos.item \in Nat /\ pos'.item \in Nat /\ \A e \in executed : e[5] \in Nat
          BY <1>3, AdvancesOn DEF Position, Known
      <4> QED BY <2>1, <4>1 DEF Behind
    <3> QED BY <2>1, <2>2, <3>1, <3>2 DEF This
  <2> QED BY <2>4, <2>5
<1> QED BY <1>1, <1>2, <1>3 DEF Moves, Stops, Enters, Passes

(* Nor in a squashed list. *)
LEMMA NotAheadSquashedStep ==
  ASSUME Position, Known, NotAheadSquashed, Moves
  PROVE  NotAheadSquashed'
PROOF
<1> SUFFICES ASSUME pc' \in Operating \cup {"migration"}, Mode' = "squashed",
                    NEW e \in executed', e[1] = List', e[2] = "squashed"
             PROVE  \/ e[4] < pos'.mig
                    \/ pc' \in Operating /\ e[4] = pos'.mig /\ Behind(e)'
    BY DEF NotAheadSquashed
<1> USE DEF Operating, Submitted, Closing
<1>1. CASE Enters
  <2>1. List' = List /\ Mode' = Mode /\ executed' = executed
      BY <1>1, MovesStay DEF Enters, SameItem, SameMig, SameList
  <2>2. KeyOf(e)[1] = Db /\ KeyOf(e) \in Recorded
      BY <2>1 DEF KeyOf, Db, Known
  <2> QED BY <1>1, <2>1, <2>2 DEF Enters, ShouldRunSquashed, Recorded
<1>2. CASE Works \/ Executes \/ Rests
  <2>1. pc \in Operating \cup {"migration"}
      BY <1>2 DEF Works, Executes, Rests
  <2>2. List' = List /\ Mode' = Mode /\ pos' = pos
      BY <1>2, MovesStay DEF SameItem, SameMig, SameList
  <2>3. CASE e \in executed
    <3>1. e[4] < pos.mig \/ (pc \in Operating /\ e[4] = pos.mig /\ Behind(e))
        BY <2>1, <2>2, <2>3 DEF NotAheadSquashed
    <3>2. pc \in Operating /\ Behind(e) => pc' \in Operating /\ Behind(e)'
        BY <1>2, <2>2 DEF Behind, Works, Executes, Rests, AfterWait
    <3> QED BY <2>2, <3>1, <3>2
  <2>4. CASE e \notin executed
    <3>1. e = Identity /\ pc' = "after"
        BY <1>2, <2>4 DEF Works, Executes, Rests
    <3>2. e[4] = pos.mig /\ e[5] = pos.item
        BY <3>1 DEF Identity
    <3> QED BY <2>2, <3>1, <3>2 DEF Behind
  <2> QED BY <2>3, <2>4
<1>3. CASE Opens \/ Advances \/ Passes
  <2>1. pc \in Operating \cup {"migration"} /\ executed' = executed
      BY <1>3 DEF Opens, Advances, Passes
  <2>2. List' = List /\ Mode' = Mode
      BY <1>3, MovesStay DEF SameMig, SameList
  <2>3. e[4] < pos.mig \/ (pc \in Operating /\ e[4] = pos.mig /\ Behind(e))
      BY <2>1, <2>2 DEF NotAheadSquashed
  <2>4. e[4] \in Nat /\ e[5] \in Nat /\ pos.mig \in Nat /\ pos.item \in Nat
      BY <2>1 DEF Known, Position
  <2>5. CASE Advances
    <3>1. pos'.mig = pos.mig /\ pos.item < pos'.item /\ pos'.item \in Nat /\ pc' = "before"
        BY <2>5, AdvancesOn
    <3>2. Behind(e) => Behind(e)'
        BY <2>4, <3>1 DEF Behind
    <3> QED BY <2>3, <3>1, <3>2
  <2>6. CASE Opens
    <3>1. pos'.mig = pos.mig /\ pc = "migration"
        BY <2>6, MovesStay DEF Opens, SameMig
    <3> QED BY <2>3, <3>1
  <2>7. CASE Passes
    <3>1. pos'.mig = pos.mig + 1
        BY <2>7, MovesStay
    <3> QED BY <2>3, <2>4, <3>1
  <2> QED BY <1>3, <2>5, <2>6, <2>7
<1> QED BY <1>1, <1>2, <1>3 DEF Moves, Stops

(* The invariant holds before the first command. *)
LEMMA InitInv ==
  ASSUME Init
  PROVE  IInv
PROOF
<1>1. Pending
    BY MigrationsAssumption DEF Init, Pending
<1>2. Alone
    BY DEF Init, Alone, Looked, Submitted
<1>3. Position /\ Known /\ FailedKnown /\ NotAhead /\ NotAheadSquashed
    BY DEF Init, Start, NoCommand, Position, Known, FailedKnown, NotAhead, NotAheadSquashed,
       Operating, Working
<1> QED BY <1>1, <1>2, <1>3 DEF IInv

(* Every step keeps it. *)
LEMMA IInvStep ==
  ASSUME IInv, [Next]_vars
  PROVE  IInv'
PROOF
<1>1. Moves /\ RecordsKept
    BY StepMoves, StepKeepsRecords DEF IInv
<1> QED BY <1>1, PositionStep, AloneStep, PendingStep, KnownStep, NotAheadStep, NotAheadSquashedStep
      DEF IInv, RecordsKept

-----------------------------------------------------------------------------
(* The inductive invariant holds in every state, for any lists of           *)
(* migrations: what has been executed has a record, no item ahead of the    *)
(* one at hand has been executed unless its migration has failed or has a   *)
(* record elsewhere, and hosts are seen before they are left alone.         *)
THEOREM Invariant == Spec => []IInv
PROOF
<1>1. Init => IInv
    BY InitInv
<1>2. IInv /\ [Next]_vars => IInv'
    BY IInvStep
<1> QED BY <1>1, <1>2, PTL DEF Spec

(* RunOperation submits a statement only when nothing queued is unfinished,  *)
(* unless the queue could not be read and was taken for empty, and when each *)
(* unfinished mutation was begun by a queued statement on a host that had    *)
(* been seen without one: the two waits follow each other, and each lets     *)
(* through what begins during the other.                                     *)
THEOREM StatementsAlone == Spec => []StatementAlone
PROOF
<1>1. IInv => StatementAlone
    BY DEF IInv, Alone, StatementAlone, Looked, Misread
<1> QED BY <1>1, Invariant, PTL

(* An operation that has been executed is executed again in its list only   *)
(* after the record of its migration was set to failed, or when one went to *)
(* another shard: shouldRunMigration and shouldRunSquashed never repeat     *)
(* what crashed half way and is recorded at home.                           *)
THEOREM NothingRepeated == Spec => RepeatedOnlyAfterFailure
PROOF
<1>1. ASSUME IInv, Exec, Mode # "bootstrap", Identity \in executed
      PROVE  Key \in failed \cup away
  <2>1. /\ Identity[1] = List /\ Identity[2] = Mode /\ Identity[3] = cmd.sync
        /\ Identity[4] = pos.mig /\ Identity[5] = pos.item
      BY DEF Identity
  <2>2. pc = "exec" /\ pos.mig \in Nat /\ pos.item \in Nat
      BY <1>1 DEF Exec, IInv, Position
  <2>3. ~Behind(Identity)
      BY <2>1, <2>2 DEF Behind, Submitted
  <2>4. CASE Mode = "squashed"
      BY <1>1, <2>1, <2>2, <2>3, <2>4 DEF IInv, NotAheadSquashed, Operating
  <2>5. CASE Mode # "squashed"
      BY <1>1, <2>1, <2>2, <2>3, <2>5 DEF IInv, NotAhead, LooksAtRecord, Operating, This
  <2> QED BY <2>4, <2>5
<1>2. IInv =>
        [(Exec /\ Mode # "bootstrap" /\ Identity \in executed) => Key \in failed \cup away]_vars
    BY <1>1
<1> QED BY <1>2, Invariant, PTL DEF RepeatedOnlyAfterFailure

-----------------------------------------------------------------------------
(* A sync command completes what failed. *)

Bad == {"crash", "entry", "squashed"}

(* Nothing has been left undone and nothing taken back, and every queue that *)
(* was waited for has been read.                                            *)
Sane ==
  /\ events \cap Bad = {} /\ ~Misread
  /\ plan.development => failed = {}
  /\ \A e \in executed : e[2] # "down"

(* What a bad event leaves undone is left by this command, which has ended, *)
(* or by an earlier one.                                                    *)
Ended ==
  /\ runs \in Nat /\ (pc # "idle" => runs >= 1)
  /\ events \cap Bad # {} \/ failed # {} =>
       runs > 1 \/ (runs = 1 /\ pc = "idle" /\ result # "ok")

(* Bootstrap writes no records; what records say. *)
Writing  == (pc \in {"insert", "finish"} => Mode # "bootstrap") /\ (pc = "list" => pos.mig = 1)
Statuses == /\ \A k \in DOMAIN status : status[k] \in {InProgress, Finished, Failed}
            /\ \A k \in DOMAIN upd : upd[k] \in {InProgress, Finished, Failed}

(* A sync command waits in the first bootstrap list, and finds behind it no   *)
(* failure of an earlier command still to be written.                        *)
Past(s, m) ==
  \/ pc = "idle" /\ result = "ok"
  \/ pc # "idle" /\ (s < pos.stage \/ (s = pos.stage /\ m < pos.mig /\ pc \in Working))

Waited == cmd.sync /\ \E b \in 1..6 : BootstrapLists[b] \in plan.lists /\ Past(b, 1)

NoneFailed == Waited => \A k \in DOMAIN upd : upd[k] # Failed

(* What has been executed is an item of a list, run by a command of its mode. *)
ItemOf(e) == UpItems(e[1], e[4])[e[5]]
DbOf(e)   == Migrations[e[1]].db

Entries ==
  /\ DOMAIN schema = Databases
  /\ \A e \in executed :
       /\ e[1] \in plan.lists
       /\ e[2] # "down" => e[4] \in Of(e[1]) /\ e[5] \in DOMAIN UpItems(e[1], e[4])
       /\ e[1] \in Present(plan, SquashedLists) => e[2] # "bootstrap"

(* Of the migration at hand the items behind have been executed, of the     *)
(* squashed list at hand the migrations behind.                             *)
Progress ==
  pc \in Operating =>
    \A i \in DOMAIN Items :
      Selected(Items[i]) /\ (i < pos.item \/ (pc \in Submitted /\ i = pos.item))
        => <<List, Mode, cmd.sync, pos.mig, i>> \in executed

InSquashed(l) == pc \in Working /\ Mode = "squashed" /\ List = l

SquashedProgress ==
  \A l \in Present(plan, SquashedLists) : InSquashed(l) =>
    \A m \in Of(l) : m < pos.mig => Ran(l, "squashed", m)

(* The tables that the squashed list at hand has created are there, *)
Brings ==
  \A l \in Present(plan, SquashedLists) : InSquashed(l) =>
    \A e \in executed : \A t : e[1] = l /\ Creates(ItemOf(e), t) =>
      t \in DOMAIN schema[Migrations[l].db]

(* so that a squashed list is not ended by a refusal: it is done, or not begun. *)
Begun(l) == \E e \in executed : e[1] = l

WholeRun(l) == \A m \in Of(l) : Ran(l, "squashed", m)

SquashedWhole ==
  \A l \in Present(plan, SquashedLists) : Begun(l) => WholeRun(l) \/ InSquashed(l)

(* A table has been created by an item, and one that an item altered had been. *)
Created(items, db, t) == \E e \in items : DbOf(e) = db /\ Creates(ItemOf(e), t)

Origins ==
  /\ \A db \in Databases : \A t \in DOMAIN schema[db] : Created(executed, db, t)
  /\ \A e \in executed : \A t : Alters(ItemOf(e), t) => Created(executed, DbOf(e), t)

(* The table of records is there while a migration with a record runs. *)
RecordsThere == pc \in Operating /\ LooksAtRecord => HasRecords(Db)

(* A migration that has a record has run, or is running, or has failed and the *)
(* record says so or will when its mutation has run.                          *)
FailedSoon(k) ==
  k \in DOMAIN status /\ IF k \in DOMAIN upd THEN upd[k] = Failed ELSE status[k] = Failed

Busy(k) == pc \in Operating /\ LooksAtRecord /\ Key = k

RecordsTell ==
  \A l \in Present(plan, UpSyncLists(plan)) : \A m \in Of(l) :
    KeyIn(l, m) \in DOMAIN status =>
      Ran(l, "up", m) \/ FailedSoon(KeyIn(l, m)) \/ Busy(KeyIn(l, m))

(* The migrations that the sync command at hand has passed. *)
UpSync == cmd.sync /\ ~cmd.down /\ cmd.versions = {}

Passed(l, m) ==
  /\ Ran(l, "up", m)
  /\ HasRecords(Migrations[l].db)
  /\ (\E i \in DOMAIN UpItems(l, m) : RunsInSync(UpItems(l, m)[i])) => ~FailedSoon(KeyIn(l, m))

AllPassed ==
  UpSync => \A s \in 1..6 : UpSyncLists(plan)[s] \in plan.lists =>
    \A m \in Of(UpSyncLists(plan)[s]) : Past(9 + s, m) => Passed(UpSyncLists(plan)[s], m)

Always == Ended /\ Writing /\ Statuses /\ Entries /\ Progress

RInv ==
  /\ Always
  /\ Sane => /\ NoneFailed /\ SquashedProgress /\ Brings /\ SquashedWhole /\ Origins /\ RecordsThere
             /\ RecordsTell /\ AllPassed

-----------------------------------------------------------------------------
(* The steps, by what they do to the records and to what is executed. *)

Calm == UNCHANGED <<plan, schema, status, upd, executed, failed>>

(* The command goes on, at this position or on the list after it. *)
Goes ==
  /\ UNCHANGED <<plan, cmd, result, runs, failed>>
  /\ events \subseteq events' /\ events' \subseteq events \cup {"queue"}

ToNextList ==
  Goes /\ pc' = "list" /\ pos' = [stage |-> pos.stage + 1, mig |-> 1, item |-> 1]

Begins ==
  /\ pc = "idle" /\ pc' = "list" /\ pos' = Start /\ result' = "none"
  /\ runs' = runs + 1 /\ events' = events /\ Calm

Ends ==
  /\ pc = "list" /\ pos.stage > Len(Stages) /\ pc' = "idle" /\ result' = "ok"
  /\ UNCHANGED <<cmd, runs, events>> /\ Calm

(* It ends in a panic, or is killed or loses the database. *)
Quits ==
  /\ pc # "idle" /\ pc' = "idle" /\ result' \in {"error", "panic", "crash"}
  /\ UNCHANGED <<cmd, runs>> /\ events \subseteq events' /\ Calm
  /\ (pc = "migration" /\ LooksAtRecord) \/ events' \cap Bad # {}

(* It ends with an operation that has failed. *)
Fails ==
  /\ pc \in Operating /\ pc' = "idle" /\ result' = "error"
  /\ UpdateMigrationEntry(Key, Failed)
  /\ UNCHANGED <<plan, cmd, runs>> /\ events \subseteq events' /\ failed \subseteq failed'
  /\ \/ UNCHANGED <<schema, executed>>
     \/ pc = "exec" /\ ~Refused(schema[Db], Item) /\ Execute
  /\ Mode = "squashed" => (pc = "exec" /\ Refused(schema[Db], Item)) \/ events' \cap Bad # {}

Skips ==
  /\ pc = "list" /\ ToNextList /\ Calm /\ pos.stage \in DOMAIN Stages
  /\ List \notin plan.lists \/ Mode = "squashed"

Comes == Enters /\ Goes /\ Calm

Leaves == pc = "migration" /\ pos.mig > Len(Migs) /\ ToNextList /\ Calm

(* A migration that is not run. *)
Omits ==
  /\ pc = "migration" /\ Passes /\ Goes /\ Calm
  /\ pos.mig \in Of(List) /\ (LooksAtRecord => HasRecords(Db))
  /\ (LooksAtRecord /\ ~ShouldRunMigration) \/ Later(0) = {}

Takes == Opens /\ Goes /\ Calm /\ (LooksAtRecord => HasRecords(Db))

Waits ==
  /\ At(pos) /\ Goes /\ Calm
  /\ (pc = "before" /\ pc' = "beforeQueue") \/ (pc = "beforeQueue" /\ pc' = AfterWait)

Inserts ==
  /\ pc = "insert" /\ pc' = "exec" /\ At(pos) /\ Goes
  /\ InsertMigrationEntry(Key) /\ UNCHANGED <<schema, executed>>

Submits ==
  /\ pc = "exec" /\ pc' = "after" /\ At(pos) /\ Goes
  /\ ~Refused(schema[Db], Item) /\ Execute
  /\ UNCHANGED <<status, upd>>

Settles ==
  /\ At(pos) /\ Goes /\ Calm
  /\ \/ pc = "after" /\ pc' = "afterQueue"
     \/ pc = "afterQueue" /\ Mode # "bootstrap" /\ pc' = "finish"

(* On to the next item, or to the next migration after the last. *)
GoesOn == Goes /\ (Advances \/ (Passes /\ Later(pos.item) = {}))

Continues ==
  /\ pc = "afterQueue" /\ Mode = "bootstrap" /\ GoesOn /\ Calm
  /\ ddl = {} \/ Misread'

Finishes ==
  /\ pc = "finish" /\ GoesOn
  /\ UpdateMigrationEntry(Key, Finished) /\ UNCHANGED <<plan, schema, executed>>

Flushes ==
  /\ At(pos) /\ pc' = pc /\ Goes /\ UNCHANGED <<schema, executed>>
  /\ FlushIs \/ UNCHANGED <<status, upd>>

Idles == At(pos) /\ pc' = pc /\ Goes /\ Calm

Walks   == Begins \/ Ends \/ Skips \/ Comes \/ Leaves \/ Omits \/ Takes
Handles == Waits \/ Inserts \/ Submits \/ Settles \/ Continues \/ Finishes
Kinds   == Walks \/ Handles \/ Quits \/ Fails \/ Flushes \/ Idles

(* An operation that fails ends the command. *)
LEMMA FailKind ==
  ASSUME NEW D, FailOperation(D), pc \in Operating, events \subseteq events',
         \/ UNCHANGED <<schema, executed>>
         \/ pc = "exec" /\ ~Refused(schema[Db], Item) /\ Execute,
         Mode = "squashed" => (pc = "exec" /\ Refused(schema[Db], Item)) \/ events' \cap Bad # {}
  PROVE  Fails
PROOF
<1>1. failed \subseteq failed'
    BY DEF FailOperation
<1> QED BY <1>1 DEF FailOperation, Exit, GoTo, Fails

(* A panic, a kill or a lost database ends it, and changes nothing there. *)
LEMMA QuitKind ==
  ASSUME NEW how \in {"error", "panic", "crash"}, Exit(how), pc # "idle",
         events \subseteq events', UNCHANGED <<database, history>>,
         (pc = "migration" /\ LooksAtRecord) \/ events' \cap Bad # {}
  PROVE  Quits
PROOF
  BY DEF Exit, GoTo, Quits, database, records, history, Calm

(* After an item the command goes on to the next item, or the next migration. *)
LEMMA OnKind ==
  ASSUME NextItem, Goes, Running, UNCHANGED executed, pc \in Closing
  PROVE  GoesOn
PROOF
<1>2. ASSUME NEW j \in Later(pos.item), \A k \in Later(pos.item) : j <= k,
             GoTo("before", [pos EXCEPT !.item = j])
      PROVE  Advances
    BY <1>2 DEF Running, GoTo, Advances, At, FirstAfter
<1>3. ASSUME NextMigration PROVE Passes
    BY <1>3 DEF NextMigration, Running, GoTo, Passes, At
<1> QED BY <1>2, <1>3 DEF NextItem, ItemAfter, GoesOn

(* Every step is one of these. *)
LEMMA StepKinds ==
  ASSUME Position, [Next]_vars
  PROVE  Kinds
PROOF
<1> USE DEF Operating
<1>f. ASSUME NEW kind, Fault(kind) PROVE events' = events \cup {kind}
    BY <1>f DEF Fault
<1>q. NoFault => events' = events
    BY DEF NoFault
<1>g. Running => UNCHANGED <<plan, cmd, result, runs>>
    BY DEF Running
<1>d. UNCHANGED <<database, history>> => UNCHANGED <<schema, status, upd, executed, failed>>
    BY DEF database, records, history
<1>1. ASSUME NEW c \in plan.commands, Begin(c) PROVE Kinds
  <2>1. Begins
      BY <1>1, <1>q, <1>d DEF Begin, GoTo, Begins, Calm
  <2> QED BY <2>1 DEF Walks, Kinds
<1>n. ASSUME NextList, Running, NoFault, UNCHANGED failed PROVE ToNextList
    BY <1>n, <1>q, <1>g DEF NextList, GoTo, Goes, ToNextList
<1>2. CASE EnterList
  <2>0. pos.stage \in DOMAIN Stages
      BY <1>2, StagesLen DEF EnterList, Position
  <2>1. CASE NextList /\ (List \notin plan.lists \/ Mode = "squashed")
    <3>1. Skips
        BY <1>2, <1>n, <1>d, <2>0, <2>1 DEF EnterList, Skips, Calm, Running
    <3> QED BY <3>1 DEF Walks, Kinds
  <2>2. CASE /\ GoTo("migration", pos) /\ List \in plan.lists
             /\ Mode = "squashed" => ShouldRunSquashed(Db)
    <3>1. Comes
        BY <1>2, <1>q, <1>g, <1>d, <2>0, <2>2 DEF EnterList, GoTo, Comes, Enters, At, Calm, Goes
    <3> QED BY <3>1 DEF Walks, Kinds
  <2> QED BY <1>2, <2>1, <2>2 DEF EnterList
<1>3. CASE EndCommand
  <2>1. Ends
      BY <1>3, <1>q, <1>d DEF EndCommand, Exit, GoTo, Ends, Calm
  <2> QED BY <2>1 DEF Walks, Kinds
<1>4. CASE EnterMigration
  <2>c. Goes /\ Calm /\ pc = "migration"
      BY <1>4, <1>q, <1>g, <1>d DEF EnterMigration, Goes, Calm
  <2>1. CASE pos.mig > Len(Migs) /\ NextList
    <3>1. Leaves
        BY <1>4, <1>n, <2>1, <2>c DEF EnterMigration, Leaves, Calm
    <3> QED BY <3>1 DEF Walks, Kinds
  <2>m. ASSUME pos.mig <= Len(Migs)
        PROVE  pos.mig \in Of(List) /\ (LooksAtRecord => HasRecords(Db))
      BY <1>4, <2>m, MigrationOf DEF EnterMigration, Working
  <2>2. CASE /\ pos.mig <= Len(Migs) /\ NextMigration
             /\ (LooksAtRecord /\ ~ShouldRunMigration) \/ Later(0) = {}
    <3>1. Passes
        BY <2>c, <2>2 DEF NextMigration, GoTo, Passes, At, Goes, Calm
    <3>2. Omits
        BY <2>2, <2>c, <2>m, <3>1 DEF Omits
    <3> QED BY <3>2 DEF Walks, Kinds
  <2>3. ASSUME pos.mig <= Len(Migs), LooksAtRecord => ShouldRunMigration,
               NEW j \in Later(0), \A k \in Later(0) : j <= k,
               GoTo("before", [pos EXCEPT !.item = j])
        PROVE  Kinds
    <3>1. Opens
        BY <2>c, <2>m, <2>3 DEF GoTo, Opens, At, FirstAfter, Goes, Calm
    <3>2. Takes
        BY <2>3, <2>c, <2>m, <3>1 DEF Takes
    <3> QED BY <3>2 DEF Walks, Kinds
  <2> QED BY <1>4, <2>1, <2>2, <2>3 DEF EnterMigration, ItemAfter
<1>5. CASE Panic
  <2>1. Quits
      BY <1>5, <1>q, QuitKind DEF Panic
  <2> QED BY <2>1 DEF Kinds
<1>6. CASE WaitForRunningMutations
  <2>1. Goes /\ Calm /\ WaitEnds
      BY <1>6, <1>q, <1>g, <1>d DEF WaitForRunningMutations, Goes, Calm
  <2>2. CASE pc = "before" /\ GoTo("beforeQueue", pos)
    <3>1. Waits
        BY <2>1, <2>2 DEF GoTo, Waits, At, Goes
    <3> QED BY <3>1 DEF Handles, Kinds
  <2>3. CASE pc = "after" /\ GoTo("afterQueue", pos)
    <3>1. Settles
        BY <2>1, <2>3 DEF GoTo, Settles, At, Goes
    <3> QED BY <3>1 DEF Handles, Kinds
  <2> QED BY <2>1, <2>2, <2>3 DEF WaitEnds
<1>7. CASE Insert
  <2>1. Inserts
      BY <1>7, <1>q, <1>g DEF Insert, GoTo, history, Inserts, At, Goes
  <2> QED BY <2>1 DEF Handles, Kinds
<1>8. CASE Exec
  <2>1. Submits
      BY <1>8, <1>q, <1>g DEF Exec, GoTo, Submits, At, Goes, records
  <2> QED BY <2>1 DEF Handles, Kinds
<1>9. CASE ExecRefused
  <2>1. Fails
      BY <1>9, <1>q, FailKind DEF ExecRefused
  <2> QED BY <2>1 DEF Kinds
<1>10. CASE WaitDistributedDDLQueue \/ GiveUpOnQueue
  <2>1. /\ Calm /\ Goes /\ Running /\ QueueEnds /\ UNCHANGED executed
        /\ ddl = {} \/ Misread'
      BY <1>10, <1>q, <1>g, <1>f, <1>d DEF Misread, WaitDistributedDDLQueue, GiveUpOnQueue, Calm,
         Goes
  <2>2. CASE pc = "beforeQueue" /\ GoTo(AfterWait, pos)
    <3>1. Waits
        BY <2>1, <2>2 DEF GoTo, Waits, At, Goes
    <3> QED BY <3>1 DEF Handles, Kinds
  <2>3. CASE pc = "afterQueue" /\ Mode = "bootstrap" /\ NextItem
    <3>1. Continues
        BY <2>1, <2>3, OnKind DEF Continues, Closing
    <3> QED BY <3>1 DEF Handles, Kinds
  <2>4. CASE pc = "afterQueue" /\ Mode # "bootstrap" /\ GoTo("finish", pos)
    <3>1. Settles
        BY <2>1, <2>4 DEF Settles, GoTo, At, Goes
    <3> QED BY <3>1 DEF Handles, Kinds
  <2> QED BY <2>1, <2>2, <2>3, <2>4 DEF QueueEnds
<1>11. CASE Finish
  <2>1. GoesOn
      BY <1>11, <1>q, <1>g, OnKind DEF Finish, history, Goes, Closing
  <2>2. Finishes
      BY <1>11, <2>1 DEF Finish, history, Running, Finishes
  <2> QED BY <2>2 DEF Handles, Kinds
<1>12. CASE WaitFails
  <2>1. Fails
    <3>1. FailOperation(ddl) /\ pc \in Operating /\ events' = events \cup {Kind("wait")}
          /\ UNCHANGED <<schema, executed>>
        BY <1>12, <1>f DEF WaitFails
    <3>2. Mode = "squashed" => events' \cap Bad # {}
        BY <3>1 DEF Kind, Bad
    <3> QED BY <3>1, <3>2, FailKind
  <2> QED BY <2>1 DEF Kinds
<1>14. CASE InsertFails \/ UpdateFails \/ Crash
  <2>1. /\ pc # "idle" /\ UNCHANGED <<database, history>>
        /\ \E how \in {"error", "crash"} : Exit(how)
        /\ \E kind \in {"entry", "crash"} : events' = events \cup {kind}
      BY <1>14, <1>f DEF InsertFails, UpdateFails, Crash
  <2>2. events' \cap Bad # {}
      BY <2>1 DEF Bad
  <2>3. Quits
      BY <2>1, <2>2, QuitKind
  <2> QED BY <2>3 DEF Kinds
<1>15. CASE ExecFails
  <2>1. PICK D : /\ FailOperation(D) /\ pc = "exec" /\ events' = events \cup {Kind("exec")}
                 /\ \/ UNCHANGED <<schema, executed>>
                    \/ ~Refused(schema[Db], Item) /\ Execute
      BY <1>15, <1>f DEF ExecFails
  <2>2. Mode = "squashed" => events' \cap Bad # {}
      BY <2>1 DEF Kind, Bad
  <2>3. Fails
      BY <2>1, <2>2, FailKind
  <2> QED BY <2>3 DEF Kinds
<1>16. ASSUME NEW h \in plan.hosts, MutationDone(h) PROVE Kinds
  <2>1. At(pos) /\ pc' = pc /\ Goes /\ UNCHANGED <<schema, executed>>
      BY <1>16, <1>q DEF MutationDone, process, history, At, Goes
  <2>2. Flushes
      BY <1>16, <2>1, FlushesHome DEF Flushes
  <2> QED BY <2>2 DEF Kinds
<1>17. ASSUME NEW h \in plan.hosts, QueueDone(h) \/ Look(h) PROVE Kinds
  <2>1. Idles
      BY <1>17, <1>q DEF QueueDone, Look, Running, process, database, records, history, Idles, At,
         Goes, Calm
  <2> QED BY <2>1 DEF Kinds
<1>18. CASE UNCHANGED vars
  <2>1. Idles
      BY <1>18 DEF vars, Idles, At, Goes, Calm
  <2> QED BY <2>1 DEF Kinds
<1> QED BY <1>1, <1>2, <1>3, <1>4, <1>5, <1>6, <1>7, <1>8, <1>9, <1>10, <1>11, <1>12,
        <1>14, <1>15, <1>16, <1>17, <1>18 DEF Next, Walk, Operate, Failing, Hosts

-----------------------------------------------------------------------------
(* What holds whatever has happened. *)

(* What the kinds leave as it is. *)
LEMMA KindsStay ==
  ASSUME Position
  PROVE  /\ At(pos) => SameItem
         /\ Takes \/ Advances => SameMig /\ pos' = [stage |-> pos.stage, mig |-> pos.mig,
                                                    item |-> pos'.item]
         /\ Passes => SameList /\ pos' = [stage |-> pos.stage, mig |-> pos.mig + 1, item |-> 1]
PROOF
<1>1. At(pos) => SameItem
    BY Stays DEF At
<1>2. Takes \/ Advances \/ Passes => Moves /\ (Takes => Opens)
    BY DEF Takes, Moves
<1> QED BY <1>1, <1>2, MovesStay

(* A later command has nothing left undone that the count of runs does not *)
(* show.                                                                   *)
LEMMA EndedStep ==
  ASSUME Ended, Kinds
  PROVE  Ended'
PROOF
<1> USE DEF Ended
<1>b. "queue" \notin Bad
    BY DEF Bad
<1>1. CASE Begins
    BY <1>1 DEF Begins, Calm
<1>2. CASE Ends \/ Quits \/ Fails
    BY <1>2 DEF Ends, Quits, Fails, Operating, Calm
<1>g. ASSUME Goes, pc # "idle" \/ pc' = pc PROVE Ended'
    BY <1>b, <1>g DEF Goes
<1>3. CASE Skips \/ Comes \/ Leaves \/ Omits \/ Takes
    BY <1>3, <1>g DEF Skips, Comes, Enters, Leaves, ToNextList, Omits, Takes, Opens
<1>4. CASE Handles
    BY <1>4, <1>g DEF Handles, Waits, Inserts, Submits, Settles, Continues, Finishes, GoesOn
<1>5. CASE Flushes \/ Idles
    BY <1>5, <1>g DEF Flushes, Idles
<1> QED BY <1>1, <1>2, <1>3, <1>4, <1>5 DEF Kinds, Walks

(* Only squashed and later lists write records; a list starts at its first *)
(* migration.                                                              *)
LEMMA WritingStep ==
  ASSUME Position, Writing, Kinds
  PROVE  Writing'
PROOF
<1> USE DEF Writing
<1>1. CASE Begins \/ Ends \/ Quits \/ Fails
    BY <1>1 DEF Begins, Ends, Quits, Fails, Start
<1>2. CASE Skips \/ Leaves
    BY <1>2 DEF Skips, Leaves, ToNextList
<1>3. CASE Comes \/ Omits \/ Takes \/ Inserts \/ Submits \/ Continues
    BY <1>3 DEF Comes, Enters, Omits, Passes, Takes, Opens, Inserts, Submits, Continues, GoesOn,
        Advances
<1>4. CASE Finishes
    BY <1>4 DEF Finishes, GoesOn, Advances, Passes
<1>5. CASE Waits \/ Settles \/ Flushes \/ Idles
  <2>1. SameItem
      BY <1>5, KindsStay DEF Waits, Settles, Flushes, Idles
  <2> QED BY <1>5, <2>1 DEF SameItem, SameMig, SameList, Waits, AfterWait, Settles, Flushes, Idles
<1> QED BY <1>1, <1>2, <1>3, <1>4, <1>5 DEF Kinds, Walks, Handles

(* Every step does one of these to the records. *)
RecordKinds ==
  \/ Calm
  \/ Inserts /\ (InsertIs(Key) \/ UNCHANGED <<status, upd>>)
  \/ Submits
  \/ Fails /\ Update(Key, Failed)
  \/ Finishes /\ Update(Key, Finished)
  \/ Flushes /\ (FlushIs \/ UNCHANGED <<status, upd>>)

(* Every step changes the records in one of these ways. *)
LEMMA RecordSteps ==
  ASSUME Kinds
  PROVE  RecordKinds
PROOF
<1>1. CASE Walks \/ Quits \/ Idles
    BY <1>1 DEF Walks, Begins, Ends, Skips, Comes, Leaves, Omits, Takes, Quits, Idles, RecordKinds
<1>2. CASE Fails
    BY <1>2, UpdateIs DEF Fails, RecordKinds
<1>3. CASE Flushes
    BY <1>3 DEF Flushes, RecordKinds
<1>4. CASE Handles
    BY <1>4, UpdateIs, InsertsOne DEF Handles, Waits, Inserts, Settles, Continues, Finishes,
       RecordKinds
<1> QED BY <1>1, <1>2, <1>3, <1>4 DEF Kinds

(* A record shows one of the three statuses. *)
LEMMA StatusesStep ==
  ASSUME Statuses, RecordKinds
  PROVE  Statuses'
PROOF
<1> USE DEF Statuses
<1>1. CASE Calm \/ Submits \/ UNCHANGED <<status, upd>>
    BY <1>1 DEF Calm, Submits
<1>2. CASE InsertIs(Key)
    BY <1>2 DEF InsertIs
<1>4. ASSUME NEW new \in {Finished, Failed}, Update(Key, new) PROVE Statuses'
    BY <1>4 DEF Update
<1>5. CASE FlushIs
    BY <1>5 DEF FlushIs
<1> QED BY <1>1, <1>2, <1>4, <1>5 DEF RecordKinds

(* The bootstrap stages come first. *)
LEMMA BootstrapFirst ==
  ASSUME cmd.sync, NEW b \in 1..6
  PROVE  /\ Stages[b].mode = "bootstrap" /\ Stages[b].list = BootstrapLists[b]
         /\ b \in DOMAIN Stages /\ b <= Len(Stages)
PROOF
<1>1. \E last \in {5, 6} : \E mode, lists : SyncStages(Stages, last, mode, lists)
    BY StagesAre DEF Stages
<1> QED BY <1>1 DEF SyncStages

(* A bootstrap list has an item to wait for in its first migration. *)
LEMMA BootstrapItems ==
  ASSUME Position, pc = "migration", Mode = "bootstrap", List \in Present(plan, BootstrapLists),
         pos.mig = 1
  PROVE  Later(0) # {}
PROOF
<1>1. List \in DOMAIN Migrations /\ plan \in Plans
    BY MigrationsAssumption DEF Position, Working
<1>2. 1 \in Of(List)
    BY <1>1, ListsAssumption
<1>3. DOMAIN UpItems(List, 1) # {} /\ DOMAIN UpItems(List, 1) \subseteq Nat \ {0}
    BY <1>1, <1>2, ListsAssumption DEF UpItems
<1>4. Items = UpItems(List, 1) /\ \A o : Selected(o)
    BY DEF Items, Mig, Migs, UpItems, Selected, LooksAtRecord
<1> QED BY <1>3, <1>4 DEF Later

(* A command that has passed a bootstrap migration had before, or goes on now. *)
LEMMA PastSince ==
  ASSUME Position, Writing, Kinds, NEW b \in 1..6, BootstrapLists[b] \in plan.lists, cmd.sync,
         Past(b, 1)', cmd' = cmd, ~Continues
  PROVE  Waited
PROOF
<1> USE DEF Working, Operating
<1>p. pos.stage \in Nat /\ pos.mig \in Nat \ {0}
    BY DEF Position
<1>a. Past(b, 1) => Waited
    BY DEF Waited
<1>b. Stages[b].mode = "bootstrap" /\ Stages[b].list = BootstrapLists[b] /\ b <= Len(Stages)
    BY BootstrapFirst
<1>1. CASE Begins
    BY <1>1 DEF Begins, Past, Start
<1>2. CASE Ends
    BY <1>2, <1>a, <1>b, <1>p, StagesLen DEF Ends, Past
<1>3. CASE Quits \/ Fails
    BY <1>3 DEF Quits, Fails, Past
<1>4. CASE Skips
  <2>1. b # pos.stage
      BY <1>4, <1>b DEF Skips, Mode, List
  <2> QED BY <1>4, <1>a, <1>p, <2>1 DEF Skips, ToNextList, Past
<1>5. CASE Comes
    BY <1>5, <1>a, <1>p DEF Comes, Enters, At, Past, Writing
<1>6. CASE Leaves
  <2>1. List \in plan.lists /\ List \in DOMAIN Migrations
      BY <1>6, MigrationsAssumption DEF Leaves, Position
  <2>2. Len(Migs) \in Nat \ {0}
      BY <2>1, ListsAssumption DEF Migs
  <2> QED BY <1>6, <1>a, <1>p, <2>2 DEF Leaves, ToNextList, Past
<1>7. CASE Omits
  <2>1. pos' = [stage |-> pos.stage, mig |-> pos.mig + 1, item |-> 1] /\ pc' = "migration"
        /\ pc = "migration"
      BY <1>7, KindsStay DEF Omits, Passes
  <2>2. ASSUME b = pos.stage, pos.mig = 1 PROVE FALSE
    <3>1. Mode = "bootstrap" /\ List \in Present(plan, BootstrapLists)
        BY <1>b, <2>2 DEF Mode, List, Present, BootstrapLists
    <3> QED BY <1>7, <2>1, <2>2, <3>1, BootstrapItems DEF Omits, LooksAtRecord
  <2> QED BY <1>a, <1>p, <2>1, <2>2 DEF Past
<1>8. CASE Takes
  <2>1. pos'.stage = pos.stage /\ pos'.mig = pos.mig /\ pc = "migration" /\ pc' = "before"
      BY <1>8, KindsStay DEF Takes, Opens
  <2> QED BY <1>a, <2>1 DEF Past
<1>9. CASE Waits \/ Inserts \/ Submits \/ Settles
  <2>1. pos' = pos /\ pc \in Operating /\ pc # "idle"
      BY <1>9 DEF Waits, Inserts, Submits, Settles, At
  <2>2. pc' \in Operating
      BY <1>9 DEF Waits, AfterWait, Inserts, Submits, Settles
  <2> QED BY <1>a, <1>p, <2>1, <2>2 DEF Past
<1>11. CASE Finishes
  <2>1. pos'.stage = pos.stage /\ pc = "finish" /\ pc' \in {"before",
     "migration"} /\ Mode # "bootstrap"
      BY <1>11, KindsStay DEF Finishes, GoesOn, Advances, Passes, SameMig, SameList, Writing
  <2>2. b # pos.stage
      BY <1>b, <2>1 DEF Mode
  <2> QED BY <1>a, <1>p, <2>1, <2>2 DEF Past
<1>10. CASE Flushes \/ Idles
  <2>1. pos' = pos /\ pc' = pc /\ result' = result
      BY <1>10 DEF Flushes, Idles, At, Goes
  <2> QED BY <1>a, <2>1 DEF Past
<1> QED BY <1>1, <1>2, <1>3, <1>4, <1>5, <1>6, <1>7, <1>8, <1>9, <1>10, <1>11
      DEF Kinds, Walks, Handles

(* A command has waited if it had before, or if nothing is pending now. *)
LEMMA WaitedSince ==
  ASSUME Position, Writing, Kinds, Waited'
  PROVE  Waited \/ Continues
PROOF
<1>1. PICK b \in 1..6 : cmd'.sync /\ BootstrapLists[b] \in plan'.lists /\ Past(b, 1)'
    BY DEF Waited, BootstrapLists
<1>2. CASE Begins
    BY <1>1, <1>2 DEF Begins, Past, Start
<1>3. CASE ~Begins
  <2>1. cmd' = cmd /\ plan' = plan
      BY <1>3 DEF Kinds, Walks, Handles, Ends, Quits, Fails, Skips, Comes, Leaves,
         ToNextList, Omits, Takes, Inserts, Submits, Settles, Continues, Finishes, GoesOn, Waits,
         Flushes, Idles, Goes, Calm
  <2> QED BY <1>1, <2>1, PastSince
<1> QED BY <1>2, <1>3

(* Where bootstrap goes on no update is pending, or none that says failed: the *)
(* hosts have been seen, and nothing queued has begun a mutation since; in     *)
(* development nothing has failed.                                            *)
LEMMA NonePending ==
  ASSUME Alone, Pending, FailedKnown, Continues, Sane'
  PROVE  \A k \in DOMAIN upd' : upd'[k] # Failed
PROOF
<1>1. pc = "afterQueue" /\ plan' = plan /\ upd' = upd /\ failed' = failed /\ events \subseteq events'
    BY DEF Continues, Calm, GoesOn, Goes
<1>2. ~Misread' /\ ~Misread /\ (plan.development => failed = {})
    BY <1>1 DEF Sane, Misread
<1>3. CASE plan.development
    BY <1>1, <1>2, <1>3 DEF FailedKnown
<1>4. CASE ~plan.development
  <2>1. seen = plan.hosts /\ late = {} /\ ddl = {}
      BY <1>1, <1>2, <1>4 DEF Alone, Looked, Submitted, WaitedHosts, Continues
  <2>2. mutating = {}
      BY <2>1 DEF Alone, Pending
  <2> QED BY <1>1, <2>1, <2>2 DEF Pending
<1> QED BY <1>3, <1>4

(* Behind a wait no failure of an earlier command is still to be written. *)
LEMMA NoneFailedStep ==
  ASSUME Position, Writing, Alone, Pending, FailedKnown, NoneFailed, Kinds, Sane'
  PROVE  NoneFailed'
PROOF
<1> SUFFICES ASSUME Waited', NEW k \in DOMAIN upd' PROVE upd'[k] # Failed
    BY DEF NoneFailed
<1>1. CASE Continues
    BY <1>1, NonePending
<1>2. CASE ~Continues
  <2>1. \A j \in DOMAIN upd : upd[j] # Failed
      BY <1>2, WaitedSince DEF NoneFailed
  <2>2. CASE Calm \/ Submits \/ UNCHANGED <<status, upd>>
      BY <2>1, <2>2 DEF Calm, Submits
  <2>3. CASE InsertIs(Key)
      BY <2>1, <2>3 DEF InsertIs
  <2>4. CASE Finishes /\ Update(Key, Finished)
      BY <2>1, <2>4 DEF Update, Finished, Failed
  <2>5. CASE Fails
      BY <2>5 DEF Fails, Waited, Past
  <2>6. CASE FlushIs
      BY <2>6 DEF FlushIs
  <2> QED BY <2>2, <2>3, <2>4, <2>5, <2>6, RecordSteps DEF RecordKinds
<1> QED BY <1>1, <1>2

(* What a step executes is the item at hand. *)
Executing ==
  pc = "exec" /\ ~Refused(schema[Db], Item) /\ Execute /\ (Submits \/ Fails)

(* A step executes the item at hand, or nothing. *)
LEMMA ExecutingOrNot ==
  ASSUME Kinds
  PROVE  Executing \/ UNCHANGED <<schema, executed>>
PROOF
  BY DEF Kinds, Walks, Handles, Begins, Ends, Quits, Fails, Skips, Comes, Leaves, Omits, Takes,
     Waits, Inserts, Submits, Settles, Continues, Finishes, Flushes, Idles, Calm, Executing

(* The identity of the item at hand. *)
LEMMA IdentityIs ==
  /\ Identity = <<List, Mode, cmd.sync, pos.mig, pos.item>>
  /\ Identity[1] = List /\ Identity[2] = Mode /\ Identity[3] = cmd.sync
  /\ Identity[4] = pos.mig /\ Identity[5] = pos.item
  /\ DbOf(Identity) = Db
  /\ Mode # "down" => Items = UpItems(List, pos.mig) /\ ItemOf(Identity) = Item
PROOF
  BY DEF Identity, DbOf, Db, ItemOf, Item, Items, UpItems, Mig, Migs

(* The lists of the modes are different ones. *)
LEMMA SquashedMode ==
  ASSUME Position, pc \in Working
  PROVE  /\ List \in Present(plan, SquashedLists) => Mode \in {"squashed", "down"}
         /\ Mode = "squashed" => List \in Present(plan, SquashedLists) /\ cmd.sync
         /\ Mode = "up" => List \in Present(plan, UpSyncLists(plan))
         /\ Mode \in {"bootstrap", "squashed", "up", "down"}
PROOF
<1>1. ModeFits(pos.stage, Mode, List) /\ List \in plan.lists
    BY StageFits DEF Position, Mode, List
<1>2. CASE Mode = "bootstrap" /\ \E i \in 1..6 : List = BootstrapLists[i]
  <2>1. \A i \in 1..6 : \A j \in 1..3 : BootstrapLists[i] # SquashedLists[j]
      BY DEF BootstrapLists, SquashedLists
  <2> QED BY <1>2, <2>1 DEF Present, SquashedLists
<1>3. CASE Mode = "squashed" /\ cmd.sync /\ \E j \in 1..3 : List = SquashedLists[j]
    BY <1>1, <1>3 DEF Present, SquashedLists
<1>4. CASE Mode = "up" /\ \E j \in 1..6 : List = UpSyncLists(plan)[j]
  <2>1. \A i \in 1..6 : \A j \in 1..3 : UpSyncLists(plan)[i] # SquashedLists[j]
      BY DEF UpSyncLists, SquashedLists, LogsList
  <2>2. List \in Present(plan, UpSyncLists(plan))
      BY <1>1, <1>4 DEF Present, UpSyncLists
  <2> QED BY <1>4, <2>1, <2>2 DEF Present, SquashedLists
<1>5. CASE Mode = "down"
    BY <1>5
<1> QED BY <1>1, <1>2, <1>3, <1>4, <1>5 DEF ModeFits

(* What is executed is an item of a list of the plan. *)
LEMMA EntriesStep ==
  ASSUME Position, Entries, Kinds
  PROVE  Entries'
PROOF
<1>1. UNCHANGED plan
    BY DEF Kinds, Walks, Handles, Begins, Ends, Quits, Fails, Skips, Comes, Leaves, Omits, Takes,
       Waits, Inserts, Submits, Settles, Continues, Finishes, Flushes, Idles, Calm, At
<1>2. CASE UNCHANGED <<schema, executed>>
    BY <1>1, <1>2 DEF Entries
<1>3. CASE Executing
  <2>1. executed' = executed \cup {Identity} /\ pc = "exec" /\ DOMAIN schema' = DOMAIN schema
      BY <1>3 DEF Executing, Execute
  <2>2. List \in plan.lists /\ pos.mig \in Of(List) /\ pos.item \in DOMAIN Items
      BY <2>1 DEF Position, Working, Operating
  <2>3. List \in Present(plan, SquashedLists) => Mode # "bootstrap"
      BY <2>1, SquashedMode DEF Working, Operating
  <2> QED BY <1>1, <2>1, <2>2, <2>3, IdentityIs DEF Entries
<1> QED BY <1>2, <1>3, ExecutingOrNot

(* The items behind the one at hand have been executed. *)
LEMMA ProgressStep ==
  ASSUME Position, Progress, Kinds
  PROVE  Progress'
PROOF
<1> USE DEF Operating, Working, Submitted, Closing
<1> SUFFICES ASSUME pc' \in Operating, NEW i \in DOMAIN Items', Selected(Items[i])',
                    i < pos'.item \/ (pc' \in Submitted /\ i = pos'.item)
             PROVE  <<List', Mode', cmd'.sync, pos'.mig, i>> \in executed'
    BY DEF Progress
<1>1. CASE Takes
  <2>1. PICK j : FirstAfter(0, j) /\ pos' = [pos EXCEPT !.item = j]
      BY <1>1 DEF Takes, Opens, At
  <2>2. pos'.item = j /\ SameMig /\ pc' = "before" /\ pos.mig \in Of(List) /\ pc = "migration"
      BY <1>1, <2>1, PosIs, KindsStay DEF Takes, Opens
  <2>3. DOMAIN Items \subseteq Nat \ {0}
      BY <2>2, ItemsFrom DEF Position
  <2>4. i < j /\ i \in Later(0) /\ j \in Nat
      BY <2>1, <2>2, <2>3 DEF SameMig, Later, FirstAfter
  <2> QED BY <2>1, <2>3, <2>4 DEF FirstAfter, Later
<1>2. CASE Advances
  <2>1. PICK j : FirstAfter(pos.item, j) /\ pos' = [pos EXCEPT !.item = j]
      BY <1>2 DEF Advances, At
  <2>2. /\ pos'.item = j /\ SameMig /\ pc' = "before" /\ pc \in Closing
        /\ executed' = executed /\ cmd' = cmd
      BY <1>2, <2>1, PosIs, KindsStay, AdvancesOn
  <2>3. DOMAIN Items \subseteq Nat \ {0} /\ pos.item \in Nat
      BY <2>2, ItemsFrom DEF Position
  <2>4. i < j /\ i \in DOMAIN Items /\ Selected(Items[i]) /\ j \in Nat
      BY <2>1, <2>2, <2>3 DEF SameMig, FirstAfter, Later
  <2>5. i <= pos.item
      BY <2>1, <2>3, <2>4 DEF FirstAfter, Later
  <2>6. <<List, Mode, cmd.sync, pos.mig, i>> \in executed
      BY <2>2, <2>3, <2>4, <2>5 DEF Progress
  <2> QED BY <2>2, <2>6 DEF SameMig, SameList
<1>3. CASE At(pos) /\ (Waits \/ Inserts \/ Submits \/ Settles \/ Flushes \/ Idles)
  <2>1. SameItem /\ cmd' = cmd /\ executed \subseteq executed'
      BY <1>3, KindsStay DEF At, Waits, Inserts, Submits, Execute, Settles, Flushes, Idles, Calm
  <2>2. pc \in Operating
      BY <1>3 DEF Waits, Inserts, Submits, Settles, Flushes, Idles
  <2>3. CASE i < pos.item \/ (pc \in Submitted /\ i = pos.item)
      BY <2>1, <2>2, <2>3 DEF Progress, SameItem, SameMig, SameList
  <2>4. CASE Submits /\ i = pos.item
      BY <2>1, <2>4, IdentityIs DEF Submits, Execute, SameItem, SameMig, SameList
  <2> QED BY <1>3, <2>1, <2>3, <2>4 DEF Waits, AfterWait, Inserts, Submits, Settles, Flushes, Idles,
        SameItem
<1>4. Takes \/ Advances \/ (At(pos) /\ (Waits \/ Inserts \/ Submits \/ Settles \/ Flushes \/ Idles))
    BY DEF Kinds, Walks, Handles, Begins, Ends, Quits, Fails, Skips, Comes, Enters, Leaves,
       ToNextList, Omits, Passes, Continues, Finishes, GoesOn, Waits, Inserts, Submits,
       Settles, Flushes, Idles
<1> QED BY <1>1, <1>2, <1>3, <1>4

-----------------------------------------------------------------------------
(* What holds as long as nothing has been left undone or taken back. *)

(* What has been executed stays so, and so does what has gone wrong. *)
LEMMA Grows ==
  ASSUME Kinds
  PROVE  /\ executed \subseteq executed' /\ plan' = plan
         /\ Sane' => Sane
PROOF
<1>1. executed \subseteq executed'
    BY ExecutingOrNot DEF Executing, Execute
<1>2. plan' = plan
    BY DEF Kinds, Walks, Handles, Begins, Ends, Quits, Fails, Skips, Comes, Leaves, Omits, Takes,
       Waits, Inserts, Submits, Settles, Continues, Finishes, Flushes, Idles, Calm, At
<1>3. events \subseteq events' /\ failed \subseteq failed'
  <2>1. CASE Goes
      BY <2>1 DEF Goes
  <2>2. CASE ~Goes
      BY <2>2 DEF Kinds, Walks, Handles, Begins, Ends, Quits, Fails, Skips, Comes, Leaves, Omits,
         Takes, ToNextList, Waits, Inserts, Submits, Settles, Continues, Finishes, GoesOn, Flushes,
         Idles, Calm
  <2> QED BY <2>1, <2>2
<1> QED BY <1>1, <1>2, <1>3 DEF Sane, Misread

(* A migration that has run stays so. *)
LEMMA RanStays ==
  ASSUME Kinds, NEW l, NEW mode, NEW m, Ran(l, mode, m)
  PROVE  Ran(l, mode, m)'
PROOF
  BY Grows DEF Ran, UpItems

(* A migration whose last item has been executed, or that has none to run. *)
LEMMA RanNow ==
  ASSUME Position, Progress, Writing,
         \/ pc \in Closing /\ Later(pos.item) = {}
         \/ pc = "migration" /\ Later(0) = {},
         pos.mig \in Of(List), cmd.sync
  PROVE  /\ Mode = "squashed" => Ran(List, "squashed", pos.mig)
         /\ Mode = "up" => Ran(List, "up", pos.mig)
PROOF
<1> USE DEF Operating, Working, Submitted, Closing
<1>1. SUFFICES ASSUME Mode \in {"squashed", "up"}, NEW i \in DOMAIN UpItems(List, pos.mig),
                      Mode = "squashed" \/ RunsInSync(UpItems(List, pos.mig)[i])
               PROVE  <<List, Mode, TRUE, pos.mig, i>> \in executed
    BY DEF Ran
<1>2. Items = UpItems(List, pos.mig) /\ Selected(Items[i])
    BY <1>1, IdentityIs DEF Selected, LooksAtRecord
<1>3. DOMAIN Items \subseteq Nat \ {0} /\ pos.item \in Nat /\ cmd.sync = TRUE
    BY ItemsFrom DEF Position
<1>4. i \in DOMAIN Items /\ pc \in Closing /\ (i < pos.item \/ i = pos.item)
    BY <1>1, <1>2, <1>3 DEF Later
<1>5. <<List, Mode, cmd.sync, pos.mig, i>> \in executed
    BY <1>2, <1>4 DEF Progress
<1> QED BY <1>3, <1>5

(* Where the migration at hand is passed. *)
LEMMA PassesAt ==
  ASSUME Position, Omits \/ Continues \/ Finishes, Passes
  PROVE  /\ (pc \in Closing /\ Later(pos.item) = {}) \/ pc = "migration"
         /\ pc = "migration" => Omits
         /\ pos.mig \in Of(List) /\ pc \in Working /\ pc' = "migration"
         /\ Mode' = Mode /\ List' = List /\ pos'.stage = pos.stage /\ pos'.mig = pos.mig + 1
PROOF
<1>1. Mode' = Mode /\ List' = List /\ pos'.stage = pos.stage /\ pos'.mig = pos.mig + 1
    BY KindsStay DEF SameList
<1>2. pc' = "migration"
    BY DEF Passes
<1>3. CASE Omits
    BY <1>1, <1>2, <1>3 DEF Omits, Working
<1>4. CASE Continues \/ Finishes
  <2>1. GoesOn /\ pc \in Closing
      BY <1>4 DEF Continues, Finishes, Closing
  <2>2. Later(pos.item) = {}
      BY <1>2, <2>1 DEF GoesOn, Advances
  <2> QED BY <1>1, <1>2, <2>1, <2>2 DEF Position, Working, Operating, Closing
<1> QED BY <1>3, <1>4

(* A step within a list leaves the migration, or goes on to the next one. *)
LEMMA WithinList ==
  ASSUME Position, Kinds, pc' \in Working
  PROVE  \/ Comes
         \/ /\ Passes /\ (Omits \/ Continues \/ Finishes) /\ cmd' = cmd
         \/ /\ pc \in Working /\ SameMig
PROOF
<1> USE DEF Working, Operating
<1>1. CASE Walks \/ Quits \/ Fails
    BY <1>1, KindsStay DEF Walks, Begins, Ends, Quits, Fails, Skips, Leaves, ToNextList, Omits,
       Takes, Opens, Goes
<1>2. CASE Continues \/ Finishes
    BY <1>2, KindsStay DEF Continues, Finishes, GoesOn, Goes
<1>3. CASE Waits \/ Inserts \/ Submits \/ Settles \/ Flushes \/ Idles
    BY <1>3, KindsStay DEF SameItem, Waits, Inserts, Submits, Settles, Flushes, Idles
<1> QED BY <1>1, <1>2, <1>3 DEF Kinds, Handles

(* The squashed list at hand has been it before, or begins. *)
LEMMA SquashedBefore ==
  ASSUME Position, Kinds, NEW l, InSquashed(l)'
  PROVE  InSquashed(l) \/ (Comes /\ Mode = "squashed" /\ List = l)
PROOF
<1>1. pc' \in Working /\ Mode' = "squashed" /\ List' = l
    BY DEF InSquashed
<1>2. CASE Comes
  <2>1. SameItem
      BY <1>2, KindsStay DEF Comes, Enters
  <2> QED BY <1>1, <1>2, <2>1 DEF SameItem, SameMig, SameList
<1>3. CASE Passes /\ (Omits \/ Continues \/ Finishes)
    BY <1>1, <1>3, PassesAt DEF InSquashed
<1>4. CASE pc \in Working /\ SameMig
    BY <1>1, <1>4 DEF InSquashed, SameMig, SameList
<1> QED BY <1>1, <1>2, <1>3, <1>4, WithinList

(* The migrations of a squashed list are run in their order. *)
LEMMA SquashedProgressStep ==
  ASSUME Position, Writing, Progress, SquashedProgress, Kinds
  PROVE  SquashedProgress'
PROOF
<1> SUFFICES ASSUME NEW l \in Present(plan', SquashedLists), InSquashed(l)', NEW m \in Of(l)',
                    m < pos'.mig
             PROVE  Ran(l, "squashed", m)'
    BY DEF SquashedProgress
<1>1. plan' = plan /\ Of(l)' = Of(l) /\ l \in Present(plan, SquashedLists)
    BY Grows DEF Of
<1>2. m \in Nat \ {0} /\ pos.mig \in Nat
    BY <1>1, MigrationsAssumption, ListsAssumption DEF Position, Present
<1>3. CASE Comes
    BY <1>2, <1>3 DEF Comes, Enters, At, Writing
<1>4. CASE Passes /\ (Omits \/ Continues \/ Finishes)
  <2>1. InSquashed(l) /\ pos'.mig = pos.mig + 1 /\ pos.mig \in Of(List) /\ pc \in Working
    <3>1. pos'.mig = pos.mig + 1 /\ pos.mig \in Of(List) /\ pc \in Working
        BY <1>4, PassesAt
    <3>2. ~Comes
        BY <3>1 DEF Comes, Enters, Working, Operating
    <3> QED BY <3>1, <3>2, SquashedBefore
  <2>2. CASE m < pos.mig
      BY <1>1, <2>1, <2>2, RanStays DEF SquashedProgress
  <2>3. CASE m = pos.mig
    <3>1. cmd.sync /\ Mode = "squashed" /\ List = l
        BY <2>1, SquashedMode DEF InSquashed
    <3>2. pc = "migration" => Later(0) = {}
        BY <1>4, <3>1, PassesAt DEF Omits, LooksAtRecord
    <3>3. Ran(List, "squashed", pos.mig)
        BY <1>4, <2>1, <3>1, <3>2, PassesAt, RanNow
    <3> QED BY <2>3, <3>1, <3>3, RanStays
  <2> QED BY <1>2, <2>1, <2>2, <2>3
<1>5. CASE pc \in Working /\ SameMig /\ ~Comes
  <2>1. InSquashed(l) /\ pos'.mig = pos.mig
      BY <1>5, SquashedBefore DEF SameMig
  <2> QED BY <1>1, <2>1, RanStays DEF SquashedProgress
<1>6. pc' \in Working
    BY DEF InSquashed
<1> QED BY <1>3, <1>4, <1>5, <1>6, WithinList

(* The tables of a schema after an operation. *)
LEMMA ApplyTables ==
  ASSUME NEW db, NEW o
  PROVE  /\ \A t \in DOMAIN Apply(db, o) : t \in DOMAIN db \/ Creates(o, t)
         /\ \A t \in DOMAIN db : t \in DOMAIN Apply(db, o) \/ (o.op = "DropTable" /\ o.t = t)
         /\ \A t : Creates(o, t) => t \in DOMAIN Apply(db, o)
PROOF
<1>1. CASE o.op \in {"CreateTable", "CreateView"}
  <2>1. DOMAIN Apply(db, o) = DOMAIN db \cup {o.t}
      BY <1>1 DEF Apply
  <2> QED BY <1>1, <2>1 DEF Creates
<1>2. CASE o.op = "DropTable"
  <2>1. DOMAIN Apply(db, o) = DOMAIN db \ {o.t}
      BY <1>2 DEF Apply, Without
  <2> QED BY <1>2, <2>1 DEF Creates
<1>3. CASE o.op \notin {"CreateTable", "CreateView", "DropTable"}
  <2>1. DOMAIN Apply(db, o) = DOMAIN db
      BY <1>3 DEF Apply
  <2> QED BY <1>3, <2>1 DEF Creates
<1> QED BY <1>1, <1>2, <1>3

(* And of the schema of a database after a step. *)
LEMMA TablesAfter ==
  ASSUME Entries, Position, Executing
  PROVE  /\ executed' = executed \cup {Identity}
         /\ \A db \in Databases : db # Db => schema'[db] = schema[db]
         /\ Db \in Databases /\ schema'[Db] = Apply(schema[Db], Item)
         /\ pc \in Working /\ pc \in Operating /\ ~Refused(schema[Db], Item)
PROOF
<1>1. pc = "exec" /\ schema' = [schema EXCEPT ![Db] = Apply(schema[Db], Item)]
      /\ executed' = executed \cup {Identity} /\ ~Refused(schema[Db], Item)
    BY DEF Executing, Execute
<1>2. List \in DOMAIN Migrations
    BY <1>1, MigrationsAssumption DEF Position, Working, Operating
<1>3. Db \in Databases /\ DOMAIN schema = Databases
    BY <1>2 DEF Db, Databases, Entries
<1> QED BY <1>1, <1>3 DEF Working, Operating

(* An item of a squashed list is neither a drop nor refused. *)
LEMMA SquashedItem ==
  ASSUME Position, pc \in Operating, NEW l \in Present(plan, SquashedLists), InSquashed(l)
  PROVE  /\ Items = UpItems(l, pos.mig) /\ pos.mig \in Of(l)
         /\ pos.item \in DOMAIN UpItems(l, pos.mig)
         /\ Item = UpItems(l, pos.mig)[pos.item]
         /\ Item.op \notin {"DropTable", "MaterializeColumn"}
         /\ SelfContained(l)
PROOF
<1>1. List = l /\ Mode = "squashed"
    BY DEF InSquashed
<1>2. Items = UpItems(l, pos.mig) /\ pos.mig \in Of(l) /\ pos.item \in DOMAIN UpItems(l, pos.mig)
      /\ Item = UpItems(l, pos.mig)[pos.item]
    BY <1>1, IdentityIs DEF Position, Item
<1>3. SelfContained(l)
    BY ListsAssumption DEF Position
<1> QED BY <1>2, <1>3 DEF SelfContained

(* What a squashed list has created is still there. *)
LEMMA BringsStep ==
  ASSUME Position, Known, Entries, Brings, Kinds
  PROVE  Brings'
PROOF
<1> SUFFICES ASSUME NEW l \in Present(plan', SquashedLists), InSquashed(l)', NEW e \in executed',
                    NEW t, e[1] = l, Creates(ItemOf(e), t)
             PROVE  t \in DOMAIN schema'[Migrations[l].db]
    BY DEF Brings, ItemOf, UpItems
<1>1. l \in Present(plan, SquashedLists)
    BY Grows
<1>2. CASE Comes /\ Mode = "squashed" /\ List = l
  <2>1. executed' = executed /\ ShouldRunSquashed(Db) /\ Migrations[l].db = Db
      BY <1>2 DEF Comes, Enters, Db
  <2>2. e[2] # "bootstrap" /\ KeyOf(e) \in Recorded /\ KeyOf(e)[1] = Db
      BY <1>1, <2>1 DEF Entries, Known, KeyOf
  <2> QED BY <2>1, <2>2 DEF ShouldRunSquashed, Recorded
<1>3. CASE InSquashed(l) /\ UNCHANGED <<schema, executed>>
    BY <1>1, <1>3 DEF Brings
<1>4. CASE InSquashed(l) /\ Executing
  <2>1. /\ executed' = executed \cup {Identity} /\ schema'[Db] = Apply(schema[Db], Item)
        /\ pc \in Operating /\ Migrations[l].db = Db
      BY <1>4, TablesAfter DEF InSquashed, Db
  <2>2. Item.op # "DropTable"
      BY <1>1, <1>4, <2>1, SquashedItem
  <2>3. CASE e \in executed
    <3>1. t \in DOMAIN schema[Db]
        BY <1>1, <1>4, <2>1, <2>3 DEF Brings
    <3> QED BY <2>1, <2>2, <3>1, ApplyTables
  <2>4. CASE e = Identity
    <3>1. ItemOf(e) = Item
        BY <1>4, <2>4, IdentityIs DEF InSquashed
    <3> QED BY <2>1, <3>1, ApplyTables
  <2> QED BY <2>1, <2>3, <2>4
<1> QED BY <1>2, <1>3, <1>4, SquashedBefore, ExecutingOrNot

(* The table that an executed item of the squashed list has created is there. *)
LEMMA BroughtBy ==
  ASSUME Brings, NEW l \in Present(plan, SquashedLists), InSquashed(l), NEW n, NEW j, NEW t,
         <<l, "squashed", TRUE, n, j>> \in executed, Creates(UpItems(l, n)[j], t)
  PROVE  t \in DOMAIN schema[Migrations[l].db]
PROOF
<1> DEFINE e == <<l, "squashed", TRUE, n, j>>
<1>1. e[1] = l /\ ItemOf(e) = UpItems(l, n)[j]
    BY DEF ItemOf
<1> QED BY <1>1 DEF Brings

(* No statement of a squashed list is refused. *)
LEMMA SquashedAccepted ==
  ASSUME Position, Entries, Progress, SquashedProgress, Brings, pc \in Operating,
         NEW l \in Present(plan, SquashedLists), InSquashed(l)
  PROVE  ~Refused(schema[Db], Item)
PROOF
<1>1. /\ Items = UpItems(l, pos.mig) /\ pos.mig \in Of(l) /\ pos.item \in DOMAIN UpItems(l, pos.mig)
      /\ Item = UpItems(l, pos.mig)[pos.item]
      /\ Item.op \notin {"DropTable", "MaterializeColumn"}
      /\ SelfContained(l)
    BY SquashedItem
<1>2. List = l /\ Mode = "squashed" /\ Db = Migrations[l].db /\ cmd.sync = TRUE
    BY SquashedMode DEF InSquashed, Db, Position
<1>3. ASSUME NEW t \in {Item.t, Item.to} \cup Item.src, Needs(Item, t)
      PROVE  t \in DOMAIN schema[Db]
  <2>1. PICK n \in Of(l) : \E j \in DOMAIN UpItems(l, n) :
               (n < pos.mig \/ (n = pos.mig /\ j < pos.item)) /\ Creates(UpItems(l, n)[j], t)
      BY <1>1, <1>3 DEF SelfContained
  <2>2. PICK j \in DOMAIN UpItems(l, n) :
               (n < pos.mig \/ (n = pos.mig /\ j < pos.item)) /\ Creates(UpItems(l, n)[j], t)
      BY <2>1
  <2>3. CASE n < pos.mig
    <3>1. Ran(l, "squashed", n)
        BY <2>3 DEF SquashedProgress
    <3>2. <<l, "squashed", TRUE, n, j>> \in executed
        BY <2>2, <3>1 DEF Ran
    <3> QED BY <1>2, <2>2, <3>2, BroughtBy
  <2>4. CASE n = pos.mig /\ j < pos.item
    <3>1. Selected(Items[j]) /\ j \in DOMAIN Items
        BY <1>1, <1>2, <2>4 DEF Selected, LooksAtRecord
    <3>2. <<List, Mode, cmd.sync, pos.mig, j>> \in executed
        BY <2>4, <3>1 DEF Progress
    <3> QED BY <1>2, <2>2, <2>4, <3>2, BroughtBy
  <2> QED BY <2>2, <2>3, <2>4
<1> QED BY <1>1, <1>3 DEF Refused, Needs, Alters

(* A squashed list that has been begun is whole, or at hand. *)
LEMMA SquashedWholeStep ==
  ASSUME Position, Entries, Progress, SquashedProgress, Brings, SquashedWhole, Kinds, Sane'
  PROVE  SquashedWhole'
PROOF
<1> SUFFICES ASSUME NEW l \in Present(plan', SquashedLists), Begun(l)'
             PROVE  WholeRun(l)' \/ InSquashed(l)'
    BY DEF SquashedWhole
<1>1. l \in Present(plan, SquashedLists) /\ events' \cap Bad = {}
    BY Grows DEF Sane
<1>2. WholeRun(l) => WholeRun(l)'
    BY RanStays DEF WholeRun, Of
<1>3. ASSUME InSquashed(l) PROVE WholeRun(l)' \/ InSquashed(l)'
  <2>1. pc \in Working /\ Mode = "squashed" /\ List = l /\ ~LooksAtRecord
      BY <1>3 DEF InSquashed, LooksAtRecord
  <2>2. CASE pc' \in Working
    <3>1. ~Comes
        BY <2>1 DEF Comes, Enters, Working, Operating
    <3> QED BY <2>1, <2>2, <3>1, WithinList, PassesAt DEF InSquashed, SameMig, SameList
  <2>3. CASE Leaves
    <3>1. pos.mig > Len(Migrations[l].migs)
        BY <2>1, <2>3 DEF Leaves, Migs
    <3>2. Of(l) = 1..Len(Migrations[l].migs) /\ Len(Migrations[l].migs) \in Nat /\ pos.mig \in Nat
        BY <1>1, MigrationsAssumption, ListsAssumption DEF Position, Present
    <3>3. WholeRun(l)
        BY <1>1, <1>3, <3>1, <3>2 DEF SquashedProgress, WholeRun
    <3> QED BY <1>2, <3>3
  <2>4. CASE Fails
    <3>1. Refused(schema[Db], Item) /\ pc \in Operating
        BY <1>1, <2>1, <2>4 DEF Fails
    <3> QED BY <1>1, <1>3, <3>1, SquashedAccepted
  <2>5. CASE Quits
      BY <1>1, <2>1, <2>5 DEF Quits
  <2>6. pc' \in Working \/ Leaves \/ Fails \/ Quits
      BY <2>1 DEF Kinds, Walks, Handles, Begins, Ends, Skips, Comes, Enters, Omits, Passes, Takes,
         Opens, Waits, AfterWait, Inserts, Submits, Settles, Continues, Finishes, GoesOn, Advances,
         Flushes, Idles, Working, Operating
  <2> QED BY <2>2, <2>3, <2>4, <2>5, <2>6
<1>4. CASE Begun(l)
    BY <1>1, <1>2, <1>3, <1>4 DEF SquashedWhole
<1>5. CASE ~Begun(l)
  <2>1. Executing /\ Identity[1] = l /\ Identity \in executed'
      BY <1>5, ExecutingOrNot, TablesAfter DEF Begun
  <2>2. pc \in Working /\ List = l /\ Mode # "down"
      BY <2>1, TablesAfter, IdentityIs DEF Sane
  <2>3. InSquashed(l)
      BY <1>1, <2>2, SquashedMode DEF InSquashed
  <2> QED BY <1>3, <2>3
<1> QED BY <1>4, <1>5

(* Tables come from items, and an item that alters one finds it. *)
LEMMA OriginsStep ==
  ASSUME Position, Entries, Origins, Kinds, Sane'
  PROVE  Origins'
PROOF
<1>1. ASSUME NEW db, NEW t, Created(executed, db, t) PROVE Created(executed', db, t)
    BY <1>1, Grows DEF Created
<1>2. CASE UNCHANGED <<schema, executed>>
    BY <1>2 DEF Origins, DbOf, ItemOf, UpItems
<1>3. CASE Executing
  <2>1. /\ executed' = executed \cup {Identity}
        /\ \A db \in Databases : db # Db => schema'[db] = schema[db]
        /\ Db \in Databases /\ schema'[Db] = Apply(schema[Db], Item)
        /\ ~Refused(schema[Db], Item)
      BY <1>3, TablesAfter
  <2>2. DOMAIN schema = Databases /\ DOMAIN schema' = Databases /\ Databases' = Databases
      BY <1>3 DEF Entries, Executing, Execute, Databases
  <2>3. DbOf(Identity) = Db /\ ItemOf(Identity) = Item
      BY <2>1, IdentityIs DEF Sane
  <2>4. ASSUME NEW t, Creates(Item, t) PROVE Created(executed', Db, t)
      BY <2>1, <2>3, <2>4 DEF Created
  <2>5. ASSUME NEW db \in Databases, NEW t \in DOMAIN schema'[db] PROVE Created(executed', db, t)
    <3>1. CASE t \in DOMAIN schema[db]
        BY <1>1, <3>1 DEF Origins
    <3>2. CASE t \notin DOMAIN schema[db]
      <4>1. db = Db /\ t \in DOMAIN Apply(schema[Db], Item) /\ t \notin DOMAIN schema[Db]
          BY <2>1, <2>5, <3>2
      <4>2. Creates(Item, t)
          BY <4>1, ApplyTables
      <4> QED BY <2>4, <4>1, <4>2
    <3> QED BY <3>1, <3>2
  <2>6. ASSUME NEW e \in executed', NEW t, Alters(ItemOf(e), t) PROVE Created(executed', DbOf(e), t)
    <3>1. CASE e \in executed
        BY <1>1, <2>6, <3>1 DEF Origins
    <3>2. CASE e = Identity
      <4>1. t \in DOMAIN schema[Db]
          BY <2>1, <2>3, <2>6, <3>2 DEF Alters, Refused
      <4> QED BY <1>1, <2>1, <2>3, <3>2, <4>1 DEF Origins
    <3> QED BY <2>1, <3>1, <3>2
  <2> QED BY <2>2, <2>5, <2>6 DEF Origins, DbOf, ItemOf, UpItems
<1> QED BY <1>2, <1>3, ExecutingOrNot

(* The table of records stays. *)
LEMMA RecordsStay ==
  ASSUME Position, Entries, Kinds, Sane', NEW db \in Databases, HasRecords(db)
  PROVE  HasRecords(db)'
PROOF
<1>1. CASE UNCHANGED <<schema, executed>>
    BY <1>1 DEF HasRecords
<1>2. CASE Executing
  <2>1. /\ executed' = executed \cup {Identity}
        /\ db # Db => schema'[db] = schema[db]
        /\ schema'[Db] = Apply(schema[Db], Item) /\ pc \in Working /\ pc \in Operating
      BY <1>2, TablesAfter
  <2>2. Items = UpItems(List, pos.mig)
      BY <2>1, IdentityIs DEF Sane
  <2>3. List \in DOMAIN Migrations /\ pos.mig \in Of(List) /\ pos.item \in DOMAIN Items
      BY <2>1, MigrationsAssumption DEF Position
  <2>4. Item.op = "DropTable" => Item.t # RecordsTable
      BY <2>2, <2>3, ListsAssumption DEF KeepsRecords, Item
  <2> QED BY <2>1, <2>4, ApplyTables DEF HasRecords
<1> QED BY <1>1, <1>2, ExecutingOrNot

(* The database of the list at hand. *)
LEMMA DbAt ==
  ASSUME Position, pc \in Working
  PROVE  List \in DOMAIN Migrations /\ Db \in Databases
PROOF
  BY MigrationsAssumption DEF Position, Db, Databases

(* The steps of an operation are those of the migration at hand. *)
LEMMA OperatingBefore ==
  ASSUME Position, Kinds, pc' \in Operating
  PROVE  Takes \/ (pc \in Operating /\ SameMig /\ cmd' = cmd)
PROOF
<1> USE DEF Working, Operating
<1>1. CASE Walks \/ Quits \/ Fails
    BY <1>1 DEF Walks, Begins, Ends, Quits, Fails, Skips, Comes, Enters, Leaves, ToNextList, Omits,
       Passes
<1>2. CASE Continues \/ Finishes
    BY <1>2, KindsStay DEF Continues, Finishes, GoesOn, Passes, Goes
<1>3. CASE Waits \/ Inserts \/ Submits \/ Settles \/ Flushes \/ Idles
    BY <1>3, KindsStay DEF SameItem, Waits, Inserts, Submits, Settles, Flushes, Idles, At
<1> QED BY <1>1, <1>2, <1>3 DEF Kinds, Handles

(* The table of records stays while an operation that has one is run. *)
LEMMA RecordsThereStep ==
  ASSUME Position, Entries, RecordsThere, Kinds, Sane'
  PROVE  RecordsThere'
PROOF
<1> SUFFICES ASSUME pc' \in Operating, LooksAtRecord' PROVE HasRecords(Db)'
    BY DEF RecordsThere
<1>1. SameMig /\ pc \in Working
    BY OperatingBefore, KindsStay DEF Takes, Opens, Working, Operating
<1>2. Db' = Db /\ LooksAtRecord
    BY <1>1 DEF SameMig, SameList
<1>3. HasRecords(Db)
    BY <1>2, OperatingBefore DEF Takes, RecordsThere
<1>4. \A db \in Databases : HasRecords(db) => HasRecords(db)'
    BY RecordsStay
<1> QED BY <1>1, <1>2, <1>3, <1>4, DbAt DEF HasRecords

-----------------------------------------------------------------------------
(* Records and what has run. *)

(* The records of the up lists are not those of the squashed ones. *)
LEMMA UpNotSquashed ==
  ASSUME NEW l \in Present(plan, UpSyncLists(plan))
  PROVE  l \notin Present(plan, SquashedLists)
PROOF
<1>1. \A i \in 1..6 : \A j \in 1..3 : UpSyncLists(plan)[i] # SquashedLists[j]
    BY DEF UpSyncLists, SquashedLists, LogsList
<1> QED BY <1>1 DEF Present, UpSyncLists, SquashedLists

(* The record of a migration of the up lists is written for no other *)
(* migration.                                                        *)
LEMMA OwnRecord ==
  ASSUME Position, pc \in Operating, Mode # "bootstrap", NEW l \in Present(plan, UpSyncLists(plan)),
         NEW m \in Of(l), Key = KeyIn(l, m)
  PROVE  /\ LooksAtRecord
         /\ Mode = "up" => l = List /\ m = pos.mig
PROOF
<1>1. pc \in Working /\ pos.mig \in Of(List) /\ OwnRecords(plan)
    BY ListsAssumption DEF Working, Position
<1>2. Key = KeyIn(List, pos.mig)
    BY DEF Key, KeyIn, Db, Mig, Migs
<1>3. CASE Mode = "squashed"
  <2>1. List \in Present(plan, SquashedLists)
      BY <1>1, <1>3, SquashedMode
  <2>2. List = l
      BY <1>1, <1>2, <2>1 DEF OwnRecords
  <2> QED BY <2>1, <2>2, UpNotSquashed
<1>4. CASE Mode = "up"
  <2>1. List \in Present(plan, UpSyncLists(plan))
      BY <1>1, <1>4, SquashedMode
  <2> QED BY <1>1, <1>2, <1>4, <2>1 DEF OwnRecords, LooksAtRecord
<1>5. CASE Mode = "down"
    BY <1>5 DEF LooksAtRecord
<1> QED BY <1>1, <1>3, <1>4, <1>5, SquashedMode

(* A migration that ends in the up mode has run, as far as it is of the sync *)
(* command.                                                                  *)
LEMMA RanUp ==
  ASSUME Position, Progress, Writing, pc \in Closing, Mode = "up", Later(pos.item) = {}
  PROVE  Ran(List, "up", pos.mig)
PROOF
<1> USE DEF Operating, Working, Closing
<1>1. pos.mig \in Of(List) /\ pos.item \in DOMAIN Items /\ Selected(Item)
    BY DEF Position
<1>2. CASE cmd.sync
    BY <1>1, <1>2, RanNow
<1>3. CASE ~cmd.sync
  <2>1. RunsInAsync(Item) /\ Items = UpItems(List, pos.mig)
      BY <1>1, <1>3, IdentityIs DEF Selected, LooksAtRecord
  <2>2. NotMixed(List)
      BY SquashedMode, ListsAssumption DEF Position
  <2>3. \A i \in DOMAIN UpItems(List, pos.mig) : ~RunsInSync(UpItems(List, pos.mig)[i])
      BY <1>1, <2>1, <2>2 DEF NotMixed, Item
  <2> QED BY <2>3 DEF Ran
<1> QED BY <1>2, <1>3

(* A record that shows no failure is one of a migration that has run. *)
LEMMA RecordsTellStep ==
  ASSUME Position, Writing, Pending, Progress, RecordsTell, Kinds, Sane'
  PROVE  RecordsTell'
PROOF
<1> USE DEF Operating, Closing
<1> SUFFICES ASSUME NEW l \in Present(plan', UpSyncLists(plan')), NEW m \in Of(l)',
                    (KeyIn(l, m) \in DOMAIN status)'
             PROVE  Ran(l, "up", m)' \/ FailedSoon(KeyIn(l, m))' \/ Busy(KeyIn(l, m))'
    BY DEF RecordsTell
<1> DEFINE k == KeyIn(l, m)
<1>1. l \in Present(plan, UpSyncLists(plan)) /\ m \in Of(l) /\ KeyIn(l, m)' = k
    BY Grows DEF Of, KeyIn
<1>2. Ran(l, "up", m) => Ran(l, "up", m)'
    BY RanStays
<1>3. k \in DOMAIN status => Ran(l, "up", m) \/ FailedSoon(k) \/ Busy(k)
    BY <1>1 DEF RecordsTell
<1>4. Key = k /\ pc \in Operating /\ Mode # "bootstrap" =>
        LooksAtRecord /\ (Mode = "up" => l = List /\ m = pos.mig)
    BY <1>1, OwnRecord
<1> HIDE DEF k
<1>s. SUFFICES Ran(l, "up", m)' \/ FailedSoon(k)' \/ Busy(k)'
    BY <1>1 DEF FailedSoon, Busy
<1>b. ASSUME Busy(k), SameMig, pc' \in Operating PROVE Busy(k)'
    BY <1>b DEF Busy, SameMig, SameList
<1>5. CASE Walks \/ Waits \/ Settles \/ Continues \/ Quits \/ Idles
  <2>1. Calm
      BY <1>5 DEF Walks, Begins, Ends, Skips, Comes, Leaves, Omits, Takes, Waits, Settles,
       Continues,
         Quits, Idles
  <2>2. k \in DOMAIN status /\ (FailedSoon(k) => FailedSoon(k)')
      BY <1>1, <2>1 DEF Calm, FailedSoon
  <2>3. ASSUME Busy(k) PROVE Busy(k)'
    <3>1. pc \in Operating /\ Mode # "bootstrap"
        BY <2>3 DEF Busy, LooksAtRecord
    <3>2. Waits \/ Settles \/ Idles
        BY <1>5, <3>1 DEF Walks, Begins, Ends, Skips, Comes, Enters, Leaves, Omits, Takes, Opens,
           Continues, Quits, Sane
    <3>3. SameMig /\ pc' \in Operating
        BY <3>1, <3>2, KindsStay DEF Waits, AfterWait, Settles, Idles, SameItem
    <3> QED BY <1>b, <2>3, <3>3
  <2> QED BY <1>2, <1>3, <2>2, <2>3
<1>6. CASE Inserts
  <2>1. SameMig /\ pc \in Operating /\ pc' \in Operating /\ Mode # "bootstrap"
      BY <1>6, KindsStay DEF Inserts, Writing, SameItem
  <2>i. InsertIs(Key) \/ UNCHANGED <<status, upd>>
      BY <1>6, InsertsOne DEF Inserts
  <2>2. CASE k = Key
      BY <1>4, <2>1, <2>2 DEF Busy, SameMig, SameList
  <2>3. CASE k # Key
    <3>1. k \in DOMAIN status /\ (FailedSoon(k) => FailedSoon(k)')
        BY <1>1, <2>3, <2>i DEF InsertIs, FailedSoon
    <3> QED BY <1>2, <1>3, <2>1, <2>3, <3>1 DEF Busy
  <2> QED BY <2>2, <2>3
<1>7. CASE Submits \/ (Flushes /\ UNCHANGED <<status, upd>>)
  <2>1. SameMig /\ (pc \in Operating => pc' \in Operating) /\ UNCHANGED <<status, upd>>
      BY <1>7, KindsStay DEF Submits, Flushes, SameItem
  <2> QED BY <1>1, <1>2, <1>3, <1>b, <2>1 DEF FailedSoon, Busy
<1>8. CASE Fails
  <2>1. Update(Key, Failed)
      BY <1>8, UpdateIs DEF Fails
  <2>2. k \in DOMAIN status
      BY <1>1, <2>1 DEF Update
  <2>3. CASE k = Key
      BY <2>1, <2>2, <2>3 DEF Update, FailedSoon, Pending
  <2>4. CASE k # Key
    <3>1. FailedSoon(k) => FailedSoon(k)'
        BY <2>1, <2>2, <2>4 DEF Update, FailedSoon
    <3> QED BY <1>2, <1>3, <2>2, <2>4, <3>1 DEF Busy
  <2> QED BY <2>3, <2>4
<1>9. CASE Finishes
  <2>1. Update(Key, Finished) /\ pc = "finish" /\ GoesOn /\ Mode # "bootstrap"
      BY <1>9, UpdateIs DEF Finishes, Writing
  <2>2. k \in DOMAIN status
      BY <1>1, <2>1 DEF Update
  <2>3. CASE k # Key
    <3>1. FailedSoon(k) => FailedSoon(k)'
        BY <2>1, <2>2, <2>3 DEF Update, FailedSoon
    <3> QED BY <1>2, <1>3, <2>2, <2>3, <3>1 DEF Busy
  <2>4. CASE k = Key
    <3>1. LooksAtRecord /\ (Mode = "up" => l = List /\ m = pos.mig) /\ pc \in Operating
        BY <1>4, <2>1, <2>4
    <3>2. CASE Advances
      <4>1. SameMig /\ pc' = "before"
          BY <3>2, KindsStay DEF Advances
      <4> QED BY <2>4, <3>1, <4>1 DEF Busy, SameMig, SameList
    <3>3. CASE Passes /\ Later(pos.item) = {}
      <4>1. <<List, Mode, cmd.sync, pos.mig, pos.item>> \in executed
          BY <2>1, <3>1 DEF Progress, Position, Item, Submitted
      <4>2. executed \subseteq executed'
          BY Grows
      <4>3. Mode # "down"
          BY <4>1, <4>2 DEF Sane
      <4>4. Mode = "up"
          BY <3>1, <4>3, SquashedMode DEF LooksAtRecord, Working
      <4> QED BY <1>2, <2>1, <3>1, <3>3, <4>4, RanUp
    <3> QED BY <2>1, <3>2, <3>3 DEF GoesOn
  <2> QED BY <2>3, <2>4
<1>10. CASE Flushes /\ FlushIs
  <2>1. k \in DOMAIN status
      BY <1>1, <1>10 DEF FlushIs, Pending
  <2>2. FailedSoon(k) => FailedSoon(k)'
      BY <1>10, <2>1 DEF FlushIs, FailedSoon
  <2>3. Busy(k) => Busy(k)'
      BY <1>10, <1>b, KindsStay DEF Flushes, Busy, SameItem
  <2> QED BY <1>2, <1>3, <2>1, <2>2, <2>3
<1>11. Flushes => FlushIs \/ UNCHANGED <<status, upd>>
    BY DEF Flushes
<1> QED BY <1>5, <1>6, <1>7, <1>8, <1>9, <1>10, <1>11 DEF Kinds, Handles

-----------------------------------------------------------------------------
(* What the sync command has passed. *)

(* The up stages of a sync command come last, and after bootstrap. *)
LEMMA UpStages ==
  ASSUME UpSync, NEW s \in 1..6
  PROVE  /\ Stages[9 + s] = [mode |-> "up", list |-> UpSyncLists(plan)[s]]
         /\ 9 + s \in DOMAIN Stages /\ 9 + s <= Len(Stages)
PROOF
<1>1. SyncStages(Stages, 6, "up", UpSyncLists(plan))
    BY StagesAre DEF UpSync, Stages
<1> QED BY <1>1 DEF SyncStages

(* A sync command that has reached them has waited. *)
LEMMA WaitedBeforeUp ==
  ASSUME Position, UpSync, NEW s \in 1..6, NEW m,
         Past(9 + s, m) \/ (pos.stage = 9 + s /\ pc # "idle")
  PROVE  Waited
PROOF
<1>1. PICK b \in 1..6 : BootstrapLists[b] \in plan.lists
    BY ListsAssumption DEF Position, Present, BootstrapLists
<1>2. b < 9 + s /\ pos.stage \in Nat
    BY DEF Position
<1>3. Past(b, 1)
    BY <1>2 DEF Past
<1> QED BY <1>1, <1>3 DEF Waited, UpSync

(* What has been passed stays so. *)
LEMMA PassedStays ==
  ASSUME Position, Pending, Entries, Kinds, Sane', ~Fails,
         NEW l \in Present(plan, UpSyncLists(plan)), NEW m, Passed(l, m)
  PROVE  Passed(l, m)'
PROOF
<1> DEFINE k == KeyIn(l, m)
           some == \E i \in DOMAIN UpItems(l, m) : RunsInSync(UpItems(l, m)[i])
<1>1. Migrations[l].db \in Databases
    BY MigrationsAssumption DEF Position, Present, Databases
<1>2. Ran(l, "up", m)' /\ HasRecords(Migrations[l].db)'
    BY <1>1, RanStays, RecordsStay DEF Passed
<1>3. some => ~FailedSoon(k)
    BY DEF Passed
<1> HIDE DEF k, some
<1>4. ASSUME ~FailedSoon(k), k' = k PROVE ~FailedSoon(k)'
  <2> USE DEF FailedSoon
  <2>p. DOMAIN upd \subseteq DOMAIN status
      BY DEF Pending
  <2>2. CASE Calm \/ Submits \/ UNCHANGED <<status, upd>>
      BY <1>4, <2>2 DEF Calm, Submits
  <2>3. CASE InsertIs(Key)
      BY <1>4, <2>3, <2>p DEF InsertIs, InProgress, Failed
  <2>4. CASE Update(Key, Finished)
      BY <1>4, <2>4 DEF Update, Finished, Failed
  <2>5. CASE FlushIs
      BY <1>4, <2>5, <2>p DEF FlushIs
  <2> QED BY <2>2, <2>3, <2>4, <2>5, RecordSteps DEF RecordKinds
<1>5. k' = k /\ some' = some
    BY DEF k, some, KeyIn, UpItems
<1>6. some => ~FailedSoon(k)'
    BY <1>3, <1>4, <1>5
<1> QED BY <1>2, <1>5, <1>6 DEF Passed, k, some

(* A migration is passed when the command goes on to the next. *)
LEMMA PastUp ==
  ASSUME Position, Writing, Kinds, UpSync', NEW s \in 1..6, UpSyncLists(plan)[s] \in plan.lists,
         NEW m \in Of(UpSyncLists(plan)[s]), Past(9 + s, m)'
  PROVE  /\ UpSync /\ ~Fails
         /\ \/ Past(9 + s, m)
            \/ /\ Passes /\ (Omits \/ Continues \/ Finishes)
               /\ pos.stage = 9 + s /\ pos.mig = m /\ pc \in Working
PROOF
<1> USE DEF Working, Operating
<1> DEFINE l == UpSyncLists(plan)[s]
<1>p. pos.stage \in Nat /\ pos.mig \in Nat \ {0} /\ 9 + s \in Nat /\ 1 < 9 + s
    BY DEF Position
<1>m. m \in Nat \ {0} /\ m <= Len(Migrations[l].migs) /\ Len(Migrations[l].migs) \in Nat
  <2>1. l \in DOMAIN Migrations
      BY MigrationsAssumption DEF Position
  <2> QED BY <2>1, ListsAssumption
<1>b. ~Begins
    BY <1>p DEF Begins, Past, Start
<1>f. ~Fails /\ ~Quits
    BY DEF Fails, Quits, Past
<1>c. cmd' = cmd
    BY <1>b, <1>f DEF Kinds, Walks, Handles, Ends, Skips, Comes, Enters, At, Leaves,
       ToNextList, Omits,
       Takes, Waits, Inserts, Submits, Settles, Continues, Finishes, GoesOn, Flushes, Idles, Goes
<1>u. UpSync
    BY <1>c DEF UpSync
<1>s. Stages[9 + s] = [mode |-> "up", list |-> l] /\ 9 + s <= Len(Stages) /\ Len(Stages) \in Nat
    BY <1>u, UpStages, StagesLen
<1> HIDE DEF l
<1>2. CASE Ends
    BY <1>2, <1>p, <1>s, <1>u, <1>f DEF Ends, Past
<1>4. CASE Skips
  <2>1. 9 + s # pos.stage
      BY <1>4, <1>s DEF Skips, Mode, List, l
  <2> QED BY <1>4, <1>p, <1>u, <1>f, <2>1 DEF Skips, ToNextList, Past
<1>5. CASE Comes
    BY <1>5, <1>p, <1>m, <1>u, <1>f DEF Comes, Enters, At, Past, Writing
<1>6. CASE Leaves
  <2>1. 9 + s = pos.stage => Migs = Migrations[l].migs
      BY <1>s DEF Migs, List
  <2>2. pc = "migration" /\ pos.mig > Len(Migs) /\ pc' = "list" /\ pos'.stage = pos.stage + 1
      BY <1>6 DEF Leaves, ToNextList
  <2>3. 9 + s < pos.stage \/ (9 + s = pos.stage /\ m < pos.mig)
      BY <1>p, <1>m, <2>1, <2>2 DEF Past
  <2> QED BY <1>u, <1>f, <2>2, <2>3 DEF Past
<1>7. CASE Passes /\ (Omits \/ Continues \/ Finishes)
  <2>1. pos'.stage = pos.stage /\ pos'.mig = pos.mig + 1 /\ pc \in Working
      BY <1>7, PassesAt
  <2>2. pc' = "migration"
      BY <1>7, PassesAt
  <2>3. 9 + s < pos.stage \/ (9 + s = pos.stage /\ m < pos.mig + 1)
      BY <2>1, <2>2 DEF Past
  <2>4. Past(9 + s, m) \/ (pos.stage = 9 + s /\ pos.mig = m)
      BY <1>p, <1>m, <2>1, <2>3 DEF Past
  <2> QED BY <1>7, <1>u, <1>f, <2>1, <2>4
<1>8. CASE pc' \in Working /\ pc \in Working /\ SameMig
    BY <1>8, <1>u, <1>f DEF SameMig, SameList, Past
<1>9. CASE Flushes \/ Idles
    BY <1>9, <1>u, <1>f DEF Flushes, Idles, At, Goes, Past
<1>10. Ends \/ Skips \/ Leaves \/ pc' \in Working \/ Flushes \/ Idles
    BY <1>b, <1>f DEF Kinds, Walks, Handles, Comes, Enters, Omits, Passes, Takes, Opens, Waits,
       AfterWait, Inserts, Submits, Settles, Continues, Finishes, GoesOn, Advances
<1> QED BY <1>2, <1>4, <1>5, <1>6, <1>7, <1>8, <1>9, <1>10, WithinList

(* The migration that is passed. *)
LEMMA PassedNow ==
  ASSUME Position, Writing, Pending, NoneFailed, Entries, Progress, RecordsThere, RecordsTell,
         Kinds, Sane', UpSync, NEW s \in 1..6, NEW l \in plan.lists, l = UpSyncLists(plan)[s],
         NEW m, m = pos.mig, Passes, Omits \/ Continues \/ Finishes, pos.stage = 9 + s
  PROVE  Passed(l, m)'
PROOF
<1> DEFINE k == KeyIn(l, m)
<1>1. List = l /\ Mode = "up" /\ LooksAtRecord /\ Db = Migrations[l].db /\ Key = k
  <2>1. List = l /\ Mode = "up"
      BY UpStages DEF List, Mode
  <2> QED BY <2>1 DEF LooksAtRecord, Db, Key, KeyIn, Mig, Migs
<1>2. l \in Present(plan, UpSyncLists(plan)) /\ Migrations[l].db \in Databases
    BY MigrationsAssumption DEF Position, Present, UpSyncLists, Databases
<1>3. pos.mig \in Of(List) /\ cmd.sync
    BY PassesAt DEF UpSync
<1>4. CASE Omits
  <2>1. pc = "migration" /\ HasRecords(Db) /\ Calm
      BY <1>1, <1>4 DEF Omits
  <2>2. CASE Later(0) = {}
    <3>1. Ran(l, "up", m)
        BY <1>1, <1>3, <2>1, <2>2, RanNow
    <3>2. ~\E i \in DOMAIN UpItems(l, m) : RunsInSync(UpItems(l, m)[i])
      <4>1. Items = UpItems(l, m) /\ DOMAIN Items \subseteq Nat \ {0}
          BY <1>1, <1>3, <2>1, IdentityIs, ItemsFrom DEF Position, Working
      <4> QED BY <1>1, <1>3, <2>2, <4>1 DEF Later, Selected
    <3>3. Ran(l, "up", m)' /\ HasRecords(Migrations[l].db)'
        BY <1>1, <1>2, <2>1, <3>1, RanStays, RecordsStay
    <3> QED BY <3>2, <3>3 DEF Passed, UpItems
  <2>3. CASE ~ShouldRunMigration
    <3>1. k \in DOMAIN status /\ status[k] # Failed
        BY <1>1, <2>3 DEF ShouldRunMigration, UpSync
    <3>2. Waited
        BY <2>1, WaitedBeforeUp
    <3>3. ~FailedSoon(k) /\ ~Busy(k)
        BY <2>1, <3>1, <3>2 DEF FailedSoon, Busy, NoneFailed, Operating
    <3>4. Ran(l, "up", m)
        BY <1>1, <1>2, <1>3, <3>1, <3>3 DEF RecordsTell
    <3>5. Passed(l, m)
        BY <1>1, <2>1, <3>3, <3>4 DEF Passed
    <3>6. ~Fails
        BY <2>1 DEF Fails, Operating
    <3> QED BY <1>2, <3>5, <3>6, PassedStays
  <2> QED BY <1>1, <1>4, <2>2, <2>3 DEF Omits
<1>5. CASE Finishes
  <2>1. pc = "finish" /\ Later(pos.item) = {} /\ Update(Key, Finished)
      BY <1>5, PassesAt, UpdateIs DEF Finishes
  <2>2. Ran(l, "up", m) /\ HasRecords(Migrations[l].db)
      BY <1>1, <2>1, RanUp DEF RecordsThere, Operating, Closing
  <2>3. Ran(l, "up", m)' /\ HasRecords(Migrations[l].db)'
      BY <1>2, <2>2, RanStays, RecordsStay
  <2>4. ~FailedSoon(k)'
      BY <1>1, <2>1 DEF Update, FailedSoon, Finished, Failed
  <2> QED BY <2>3, <2>4 DEF Passed, KeyIn
<1>6. CASE Continues
    BY <1>1, <1>6 DEF Continues
<1> QED BY <1>4, <1>5, <1>6

(* What the sync command has passed has run and shows no failure. *)
LEMMA AllPassedStep ==
  ASSUME Position, Writing, Pending, NoneFailed, Entries, Progress, RecordsThere, RecordsTell,
         AllPassed, Kinds, Sane'
  PROVE  AllPassed'
PROOF
<1>1. UpSyncLists(plan)' = UpSyncLists(plan) /\ plan' = plan
    BY Grows DEF UpSyncLists, LogsList
<1> SUFFICES ASSUME UpSync', NEW s \in 1..6, NEW l \in plan.lists, l = UpSyncLists(plan)[s],
                    NEW m \in Of(l), Past(9 + s, m)'
             PROVE  Passed(l, m)'
  <2>1. \A s \in 1..6 : UpSyncLists(plan)'[s] = UpSyncLists(plan)[s]
      BY <1>1
  <2> QED BY <1>1, <2>1 DEF AllPassed, Of, Passed, FailedSoon, Ran, UpItems, KeyIn, HasRecords
<1>2. CASE Past(9 + s, m)
  <2>1. UpSync /\ ~Fails
      BY PastUp
  <2>2. Passed(l, m)
      BY <1>2, <2>1 DEF AllPassed
  <2>3. l \in Present(plan, UpSyncLists(plan))
      BY DEF Present, UpSyncLists
  <2> QED BY <2>1, <2>2, <2>3, PassedStays
<1>3. CASE ~Past(9 + s, m)
    BY <1>3, PastUp, PassedNow
<1> QED BY <1>2, <1>3

-----------------------------------------------------------------------------
(* The invariant holds before any command. *)
LEMMA RetryInit ==
  ASSUME Init
  PROVE  RInv
PROOF
<1>1. Always
    BY DEF Init, Start, Always, Ended, Writing, Statuses, Entries, Progress, Operating, Working
<1>2. /\ NoneFailed /\ SquashedProgress /\ Brings /\ SquashedWhole /\ Origins /\ RecordsThere
      /\ RecordsTell /\ AllPassed
    BY DEF Init, NoneFailed, SquashedProgress, Brings, SquashedWhole, Begun, InSquashed, Origins,
       RecordsThere,
       RecordsTell, AllPassed, Past, Operating, Working
<1> QED BY <1>1, <1>2 DEF RInv

(* Every step preserves it. *)
LEMMA RetryStep ==
  ASSUME IInv, RInv, [Next]_vars
  PROVE  RInv'
PROOF
<1>1. Kinds /\ RecordKinds /\ Position /\ Known /\ Alone /\ Pending /\ FailedKnown
    BY StepKinds, RecordSteps DEF IInv
<1>2. Always'
    BY <1>1, EndedStep, WritingStep, StatusesStep, EntriesStep, ProgressStep DEF RInv, Always
<1>3. ASSUME Sane'
      PROVE  (/\ NoneFailed /\ SquashedProgress /\ Brings /\ SquashedWhole /\ Origins
              /\ RecordsThere /\ RecordsTell /\ AllPassed)'
    BY <1>1, <1>3, Grows, NoneFailedStep, SquashedProgressStep, BringsStep, SquashedWholeStep,
       OriginsStep, RecordsThereStep, RecordsTellStep, AllPassedStep DEF RInv, Always
<1> QED BY <1>2, <1>3 DEF RInv

(* The steps by which a sync command makes up for what failed before. *)
THEOREM RetryInvariant == Spec => []RInv
PROOF
<1>1. Init => RInv
    BY RetryInit
<1>2. IInv /\ RInv /\ [Next]_vars => RInv'
    BY RetryStep
<1> QED BY <1>1, <1>2, Invariant, PTL DEF Spec

(* Nothing is left undone behind a command that ended well. *)
LEMMA SyncedIsSane ==
  ASSUME Ended, Synced, ~Misread
  PROVE  Sane
PROOF
  BY DEF Ended, Synced, Sane, LeftUndone, Bad

(* A sync command that ended well has passed all its migrations. *)
LEMMA SyncedPassed ==
  ASSUME Position, RInv, Synced, ~Misread, NEW l \in Present(plan, UpSyncLists(plan)),
     NEW m \in Of(l)
  PROVE  Passed(l, m)
PROOF
<1>1. Sane
    BY SyncedIsSane DEF RInv, Always
<1>2. PICK s \in 1..6 : l = UpSyncLists(plan)[s] /\ l \in plan.lists
    BY DEF Present, UpSyncLists
<1>3. Past(9 + s, m) /\ UpSync
    BY DEF Past, Synced, UpSync
<1> QED BY <1>1, <1>2, <1>3 DEF RInv, AllPassed

(* A squashed list has been run: the sync command has altered a table that  *)
(* only this list creates.                                                  *)
LEMMA SyncedWhole ==
  ASSUME Position, RInv, Synced, ~Misread, NEW l \in Present(plan, SquashedLists)
  PROVE  WholeRun(l)
PROOF
<1>1. Sane /\ Origins /\ SquashedWhole /\ Entries
    BY SyncedIsSane DEF RInv, Always
<1>2. NeededBySync(plan, l)
    BY ListsAssumption DEF Position
<1>3. PICK k \in Present(plan, UpSyncLists(plan)) : \E m \in Of(k) :
             \E i \in DOMAIN UpItems(k, m) :
               /\ Migrations[k].db = Migrations[l].db
               /\ RunsInSync(UpItems(k, m)[i])
               /\ Alters(UpItems(k, m)[i], UpItems(k, m)[i].t)
               /\ BringsAlone(plan, l, UpItems(k, m)[i].t)
    BY <1>2 DEF NeededBySync
<1>4a. PICK m \in Of(k) : \E i \in DOMAIN UpItems(k, m) :
               /\ Migrations[k].db = Migrations[l].db
               /\ RunsInSync(UpItems(k, m)[i])
               /\ Alters(UpItems(k, m)[i], UpItems(k, m)[i].t)
               /\ BringsAlone(plan, l, UpItems(k, m)[i].t)
    BY <1>3
<1>4. PICK i \in DOMAIN UpItems(k, m) :
             /\ Migrations[k].db = Migrations[l].db
             /\ RunsInSync(UpItems(k, m)[i])
             /\ Alters(UpItems(k, m)[i], UpItems(k, m)[i].t)
             /\ BringsAlone(plan, l, UpItems(k, m)[i].t)
    BY <1>4a
<1> DEFINE t == UpItems(k, m)[i].t
           f == <<k, "up", TRUE, m, i>>
<1>5. f \in executed
    BY <1>4, SyncedPassed DEF Passed, Ran
<1>6. DbOf(f) = Migrations[l].db /\ ItemOf(f) = UpItems(k, m)[i]
    BY <1>4 DEF DbOf, ItemOf
<1>7. Created(executed, Migrations[l].db, t)
    BY <1>1, <1>4, <1>5, <1>6 DEF Origins
<1>8. PICK e \in executed : DbOf(e) = Migrations[l].db /\ Creates(ItemOf(e), t)
    BY <1>7 DEF Created
<1>9. /\ e[1] \in plan.lists /\ e[4] \in Of(e[1]) /\ e[5] \in DOMAIN UpItems(e[1], e[4])
    BY <1>1, <1>8 DEF Entries, Sane
<1>10. e[1] = l
    BY <1>4, <1>8, <1>9 DEF BringsAlone, DbOf, ItemOf
<1>11. Begun(l) /\ ~InSquashed(l)
    BY <1>8, <1>10 DEF Begun, InSquashed, Synced, Working, Operating
<1> QED BY <1>1, <1>11 DEF SquashedWhole

(* A sync command that ends well has run every operation of its lists, and   *)
(* the records that migrate sync check reads say so, also after commands     *)
(* that failed, for any lists of migrations as the assumption on lists asks: *)
(* what a failed command has recorded as failed the next one takes up again. *)
THEOREM RetriesComplete == Spec => []RetryCompletes
PROOF
<1>1. ASSUME IInv, RInv, Synced, ~Misread
      PROVE  /\ RequiredRan
             /\ DOMAIN upd = {} => \A l \in Present(plan, UpSyncLists(plan)) :
                  (\E i \in DOMAIN UpItems(l, LastOf(l)) : RunsInSync(UpItems(l, LastOf(l))[i]))
                    => IsMigrationSuccess(l)
  <2>1. Position
      BY <1>1 DEF IInv
  <2>2. \A l \in Present(plan, SquashedLists) : WholeRun(l)
      BY <1>1, <2>1, SyncedWhole
  <2>3. \A l \in Present(plan, UpSyncLists(plan)) : \A m \in Of(l) : Passed(l, m)
      BY <1>1, <2>1, SyncedPassed
  <2>4. RequiredRan
      BY <2>2, <2>3 DEF RequiredRan, WholeRun, Passed, Of
  <2>5. ASSUME DOMAIN upd = {}, NEW l \in Present(plan, UpSyncLists(plan)),
               \E i \in DOMAIN UpItems(l, LastOf(l)) : RunsInSync(UpItems(l, LastOf(l))[i])
        PROVE  IsMigrationSuccess(l)
    <3>1. l \in DOMAIN Migrations
        BY <2>1, MigrationsAssumption DEF Position, Present
    <3>2. LastOf(l) \in Of(l)
        BY <3>1, ListsAssumption DEF LastOf
    <3>3. Passed(l, LastOf(l))
        BY <2>3, <3>2
    <3> QED BY <1>1, <2>5, <3>3 DEF Passed, FailedSoon, IsMigrationSuccess, RInv, Always, Statuses
  <2> QED BY <2>4, <2>5
<1>2. IInv /\ RInv => RetryCompletes
    BY <1>1 DEF RetryCompletes, Misread
<1> QED BY <1>2, Invariant, RetryInvariant, PTL
===============================================================================
