------------------------------ MODULE SchemaOps ------------------------------
(***************************************************************************)
(* The operations of the schema migrator (cmd/signozschemamigrator/        *)
(* schema_migrator/*_operations.go) and their effect on a ClickHouse       *)
(* schema.                                                                 *)
(*                                                                         *)
(* A schema maps a database to its tables and a table to its columns, the  *)
(* table it writes to (the local table of a Distributed one, the           *)
(* destination of a materialized view, NoTable otherwise) and the tables   *)
(* its query reads.  Types, codecs, engines, indexes, TTLs and settings    *)
(* are left out: an operation on one of them needs its table and leaves    *)
(* this schema as it is.  A table of another database than the list's is   *)
(* named with its database.                                                *)
(***************************************************************************)
EXTENDS Naturals, Sequences, FiniteSets, TLC

NoTable == ""

(* Every operation names its kind, its table and what its kind needs. *)
Operation(kind, table) ==
  [op |-> kind, t |-> table, x |-> "", cols |-> {}, to |-> NoTable, src |-> {}]

CreateTable(table, columns) == [Operation("CreateTable", table) EXCEPT !.cols = columns]

CreateDistributed(table, local, columns) ==
  [Operation("CreateTable", table) EXCEPT !.cols = columns, !.to = local]

CreateView(view, dest, columns, from) ==
  [Operation("CreateView", view) EXCEPT !.cols = columns, !.to = dest, !.src = {from}]

ModifyQuery(view, columns, from) ==
  [Operation("ModifyQuery", view) EXCEPT !.cols = columns, !.src = {from}]

DropTable(table)           == Operation("DropTable", table)
AddColumn(table, c)        == [Operation("AddColumn", table) EXCEPT !.x = c]
DropColumn(table, c)       == [Operation("DropColumn", table) EXCEPT !.x = c]
MaterializeColumn(table, c) == [Operation("MaterializeColumn", table) EXCEPT !.x = c]
AddIndex(table, i)         == [Operation("AddIndex", table) EXCEPT !.x = i]
DropIndex(table, i)        == [Operation("DropIndex", table) EXCEPT !.x = i]
ModifySettings(table)      == Operation("ModifySettings", table)
InsertInto(table)          == Operation("InsertInto", table)
DropTTL(table)             == Operation("DropTTL", table)
ModifyTTL(table, materialize) ==
  Operation(IF materialize THEN "MaterializeTTL" ELSE "ModifyTTL", table)

Migration(id, up, down) == [id |-> id, up |-> up, down |-> down]

(***************************************************************************)
(* Classification.  An operation runs in the sync command if it is forced  *)
(* to or is cheap and harmless, in the async command otherwise.            *)
(***************************************************************************)
IsMutation(o)   == o.op \in {"DropTable", "DropColumn", "DropIndex",
                             "MaterializeColumn", "MaterializeTTL"}
IsIdempotent(o) == o.op # "InsertInto"
IsLightweight(o) == o.op \notin {"MaterializeColumn", "MaterializeTTL"}
ForceMigrate(o) == o.op = "InsertInto"

RunsInSync(o)  == ForceMigrate(o) \/ (~IsMutation(o) /\ IsIdempotent(o) /\ IsLightweight(o))
RunsInAsync(o) == ~RunsInSync(o) /\ IsIdempotent(o)

(* DROP TABLE is no entry of system.mutations; the others are. *)
LeavesMutation(o) == IsMutation(o) /\ o.op # "DropTable"

(***************************************************************************)
(* Effect.  Creations and drops say IF [NOT] EXISTS of their object; an    *)
(* ALTER needs its table, MATERIALIZE COLUMN its column, a view its        *)
(* destination and its sources.                                            *)
(***************************************************************************)
Refused(db, o) ==
  \/ /\ o.op = "CreateView"
     /\ o.t \notin DOMAIN db
     /\ ~({o.to} \cup o.src \subseteq DOMAIN db)
  \/ o.op \notin {"CreateTable", "CreateView", "DropTable"} /\ o.t \notin DOMAIN db
  \/ o.op = "ModifyQuery" /\ ~(o.src \subseteq DOMAIN db)
  \/ o.op = "MaterializeColumn" /\ o.t \in DOMAIN db /\ o.x \notin db[o.t].cols

Without(db, table) == [t \in DOMAIN db \ {table} |-> db[t]]

Apply(db, o) ==
  CASE o.op \in {"CreateTable", "CreateView"} ->
         [t \in DOMAIN db \cup {o.t} |->
            IF t \in DOMAIN db THEN db[t] ELSE [cols |-> o.cols, to |-> o.to, src |-> o.src]]
    [] o.op = "ModifyQuery" -> [db EXCEPT ![o.t].cols = o.cols, ![o.t].src = o.src]
    [] o.op = "DropTable"   -> Without(db, o.t)
    [] o.op = "AddColumn"   -> [db EXCEPT ![o.t].cols = @ \cup {o.x}]
    [] o.op = "DropColumn"  -> [db EXCEPT ![o.t].cols = @ \ {o.x}]
    [] OTHER                -> db

(* The table an operation creates, the one it alters, and those it needs.    *)
Creates(o, t) == o.op \in {"CreateTable", "CreateView"} /\ o.t = t
Alters(o, t)  == o.op \notin {"CreateTable", "CreateView", "DropTable"} /\ o.t = t

Needs(o, t) ==
  \/ Alters(o, t)
  \/ o.op = "CreateView" /\ t \in {o.to} \cup o.src
  \/ o.op = "ModifyQuery" /\ t \in o.src

(***************************************************************************)
(* A database is consistent when every Distributed table and every view    *)
(* writes to a table that exists and has its columns, and every query      *)
(* reads tables that exist: an insert fails otherwise.                     *)
(***************************************************************************)
Consistent(db) ==
  \A t \in DOMAIN db :
    /\ db[t].to # NoTable => /\ db[t].to \in DOMAIN db
                             /\ db[t].cols \subseteq db[db[t].to].cols
    /\ db[t].src \subseteq DOMAIN db
=============================================================================
