------------------------ MODULE MetadataExporterProofs ------------------------
(***************************************************************************)
(* Proofs about the metadata exporter and its cache, for any number of     *)
(* consumers, any batches, limits and counts, and any number of faults,    *)
(* expiries and restarts.                                                  *)
(*                                                                         *)
(* The steps of the model are first grouped by what they do to the cache,  *)
(* the tables and the statements; the invariants are proved of the groups. *)
(***************************************************************************)
EXTENDS MetadataExporter, FiniteSetTheorems, TLAPS

(* The places of a push before its first row, and the ones between the     *)
(* rows of a resource and its entry in the cache.                          *)
Before == {"idle", "prepare", "collect", "resources", "total", "sum", "limits"}
Adding == {"add", "create", "get", "fill", "stale", "card", "exec"}
Places == Before \cup Adding \cup {"group"}

(* The shape of the variables. *)
Record(pc, items, records, todo, keys, at, fresh, stmt) ==
  [pc |-> pc, items |-> items, records |-> records, todo |-> todo,
   keys |-> keys, at |-> at, fresh |-> fresh, stmt |-> stmt]

Fields(x) ==
  x = Record(x.pc, x.items, x.records, x.todo, x.keys, x.at, x.fresh, x.stmt)

Appended(x, todo, at, fresh, stmt, pc) ==
  [x EXCEPT !.todo = todo, !.at = at, !.fresh = fresh, !.stmt = stmt, !.pc = pc]

Shape ==
  /\ deployment \in Deployments
  /\ push = [p \in Pushers |-> push[p]]
  /\ \A p \in Pushers : push[p].pc \in Places /\ Fields(push[p])

(* Which places belong to the cache in memory and which to Redis; an entry *)
(* about to be filled is in the cache.                                     *)
Modes ==
  \A p \in Pushers :
    /\ push[p].pc \in {"create", "get", "fill", "stale"} => ~deployment.redis
    /\ push[p].pc \in {"card", "exec"} => deployment.redis
    /\ push[p].pc = "fill" => push[p].at \in DOMAIN cache

(* A push that is about to enter fingerprints in the cache has their rows  *)
(* in its statement, and a push that ends early has no rows.               *)
HasRow(rows, r, a) == \E row \in rows : row.resource = r /\ row.fprint = a

Prepared ==
  \A p \in Pushers :
    /\ push[p].pc \in Before => push[p].stmt = {}
    /\ push[p].pc \in Adding =>
         \A a \in push[p].fresh : HasRow(push[p].stmt, push[p].at, a)

(* CachedIsStored, consumer by consumer. *)
StoredAt(r, a) ==
  \/ HasRow(table, r, a) \/ HasRow(lost, r, a)
  \/ \E p \in Pushers : HasRow(push[p].stmt, r, a)

Stored == \A r \in DOMAIN cache : \A a \in cache[r] : StoredAt(r, a)

(* What is counted is finite. *)
Finite ==
  /\ IsFiniteSet(DOMAIN cache)
  /\ \A r \in DOMAIN cache : IsFiniteSet(cache[r])
  /\ \A p \in Pushers : IsFiniteSet(DOMAIN push[p].records) /\ IsFiniteSet(push[p].fresh)

(* Who has found room for a resource and has not entered it yet counts as  *)
(* an entry; who finds room finds it for the entries alone, and may be the *)
(* last of all the consumers to do so.                                     *)
Entering == {q \in Pushers : push[q].pc \in {"create", "card", "exec"}}

Room == Cardinality(DOMAIN cache) + Cardinality(Entering)
          < Own.resources + Cardinality(Pushers)

(* In memory the attributes are counted and added under the entry's lock.  *)
InMemory ==
  ~deployment.redis => \A r \in DOMAIN cache : Cardinality(cache[r]) <= Own.perResource

(* In Redis a pipeline is executed after the count.  Of the consumers that *)
(* are about to execute one for a resource there is one, the last that has *)
(* counted or one before it, for whose attributes there is room in what    *)
(* the consumers that have executed theirs, and it, may fill.              *)
Size(r)    == Cardinality(Known(r))
Execing(r) == {q \in Pushers : push[q].pc = "exec" /\ push[q].at = r}
Share(n)   == Own.perResource * (Cardinality(Pushers) + 1 - n)

Pipelines(r) ==
  /\ \A q \in Execing(r) : Cardinality(push[q].fresh) <= Own.perResource
  /\ IF Execing(r) = {}
     THEN Size(r) <= Own.perResource * Cardinality(Pushers)
     ELSE \E q \in Execing(r) :
            Size(r) + Cardinality(push[q].fresh) <= Share(Cardinality(Execing(r)))

InRedis ==
  deployment.redis =>
    \A r \in DOMAIN cache \cup {push[q].at : q \in Pushers} : Pipelines(r)

(* The inductive invariant. *)
IInv == Shape /\ Modes /\ Prepared /\ Stored /\ Finite /\ Room /\ InMemory /\ InRedis

-----------------------------------------------------------------------------
(* What the steps do to one push, and to the others.                       *)

Alone(p) ==
  /\ push' = [q \in Pushers |-> push'[q]]
  /\ \A q \in Pushers : q # p => push'[q] = push[q]

Effect(p, pc, at, fresh, stmt, records) ==
  /\ Alone(p) /\ Fields(push'[p])
  /\ push'[p].pc = pc /\ push'[p].at = at /\ push'[p].fresh = fresh
  /\ push'[p].stmt = stmt /\ push'[p].records = records

Moves(p, pc) == Effect(p, pc, push[p].at, push[p].fresh, push[p].stmt, push[p].records)

(* Every push keeps all but its place, and its place too unless an entry   *)
(* of the cache is taken from under it.                                    *)
Keeps ==
  /\ push' = [q \in Pushers |-> push'[q]]
  /\ \A q \in Pushers :
       /\ Fields(push'[q])
       /\ push'[q].at = push[q].at /\ push'[q].fresh = push[q].fresh
       /\ push'[q].stmt = push[q].stmt /\ push'[q].records = push[q].records

Stays(q, from, to) ==
  push'[q].pc = push[q].pc \/ (push[q].pc \in from /\ push'[q].pc = to)

stored == <<cache, table, lost>>

(* One entry of the cache is set, and some are gone. *)
Sets(r, attrs) ==
  /\ DOMAIN cache' = DOMAIN cache \cup {r} /\ cache'[r] = attrs
  /\ \A s \in DOMAIN cache : s # r => cache'[s] = cache[s]

Leaves(rs) == DOMAIN cache' = rs /\ \A s \in rs : cache'[s] = cache[s]

(* The groups of steps.  A push ends without a row, or begins; it goes on  *)
(* before its first row; it appends the rows of a resource; it goes on     *)
(* between the rows and the cache.                                         *)
Quits(p) ==
  /\ push[p].pc \in Before /\ UNCHANGED stored
  /\ Effect(p, "idle", None, {}, {}, <<>>) \/ Effect(p, "prepare", None, {}, {}, <<>>)

Walks(p) ==
  /\ push[p].pc \in Before /\ UNCHANGED stored
  /\ \E pc \in Before \cup {"group"} :
       \/ Moves(p, pc)
       \/ \E k, v : Effect(p, pc, push[p].at, push[p].fresh, push[p].stmt,
                           With(push[p].records, k, v))

Appends(p) ==
  /\ push[p].pc = "group" /\ UNCHANGED stored
  /\ \/ Moves(p, "group")
     \/ \E r, fresh, pc :
          /\ pc \in {"group", "add"} /\ fresh \subseteq AttrsOf(p, r)
          /\ Effect(p, pc, r, fresh, push[p].stmt \cup {Row(p, r, a) : a \in fresh},
                    push[p].records)

Turns(p) ==
  /\ UNCHANGED stored
  /\ \/ push[p].pc \in Adding /\ Moves(p, "group")
     \/ /\ push[p].pc \in {"add", "get"} /\ ~deployment.redis
        /\ push[p].at \in DOMAIN cache /\ Moves(p, "fill")
     \/ /\ push[p].pc = "add" /\ Cardinality(DOMAIN cache) < Own.resources
        /\ \/ deployment.redis /\ Moves(p, "card")
           \/ ~deployment.redis /\ Moves(p, "create")
     \/ push[p].pc = "card" /\ ~TooMany(p) /\ Moves(p, "exec")

(* An entry is made, and filled; the statement is sent, or fails; entries  *)
(* expire, with the window or one by one; the process starts again.        *)
Makes(p) ==
  /\ push[p].pc = "create" /\ Sets(push[p].at, {})
  /\ UNCHANGED <<table, lost>>
  /\ Keeps /\ push'[p].pc = "get"
  /\ \A q \in Pushers : q # p => Stays(q, {"fill"}, "stale")

Fills(p) ==
  /\ \/ push[p].pc = "fill" /\ ~TooMany(p)
     \/ push[p].pc = "exec"
  /\ \/ Sets(push[p].at, push[p].fresh \cup Known(push[p].at))
     \/ push[p].pc = "exec" /\ Sets(push[p].at, Known(push[p].at))
  /\ Moves(p, "group") /\ UNCHANGED <<table, lost>>

Finishes(p) ==
  /\ push[p].pc = "group" /\ UNCHANGED cache
  /\ Effect(p, "idle", None, {}, {}, <<>>)
  /\ \/ table' = table \cup push[p].stmt /\ UNCHANGED lost
     \/ lost' = lost \cup push[p].stmt /\ UNCHANGED table

Forgets ==
  /\ UNCHANGED <<table, lost>> /\ Keeps
  /\ \/ /\ deployment.redis /\ Leaves({})
        /\ \A q \in Pushers : /\ Stays(q, {"card", "exec"}, "group")
                              /\ push'[q].pc \notin {"card", "exec"}
     \/ \E r : /\ ~deployment.redis /\ Leaves(DOMAIN cache \ {r})
               /\ \A q \in Pushers : /\ Stays(q, {"fill"}, "stale")
                                     /\ push'[q].pc = "fill" => push'[q].at # r

Restarts ==
  /\ UNCHANGED table
  /\ UNCHANGED cache \/ Leaves({})
  /\ lost' = lost \cup UNION {push[p].stmt : p \in Pushers}
  /\ push' = [p \in Pushers |-> NoPush]

Rests == UNCHANGED <<stored, push>>

Kinds ==
  /\ deployment' = deployment
  /\ \/ Forgets \/ Restarts \/ Rests
     \/ \E p \in Pushers : \/ Quits(p) \/ Walks(p) \/ Appends(p) \/ Turns(p) \/ Makes(p)
                           \/ Fills(p) \/ Finishes(p)

-----------------------------------------------------------------------------
(* What a map holds after one of its keys was set. *)
LEMMA WithIs ==
  ASSUME NEW f, NEW k, NEW v
  PROVE  /\ DOMAIN With(f, k, v) = DOMAIN f \cup {k}
         /\ With(f, k, v)[k] = v
         /\ \A j \in DOMAIN f : j # k => With(f, k, v)[j] = f[j]
PROOF
  BY DEF With

(* The cache after one of its entries was set. *)
LEMMA SetsIs ==
  ASSUME NEW r, NEW attrs, cache' = With(cache, r, attrs)
  PROVE  Sets(r, attrs)
PROOF
<1> DEFINE c == With(cache, r, attrs)
<1>1. /\ DOMAIN c = DOMAIN cache \cup {r} /\ c[r] = attrs
      /\ \A s \in DOMAIN cache : s # r => c[s] = cache[s]
    BY DEF With
<1> HIDE DEF c
<1>2. cache' = c
    BY DEF c
<1> QED BY <1>1, <1>2 DEF Sets

(* A push that adds to the cache. *)
LEMMA AddIs ==
  ASSUME NEW p, Add(p)
  PROVE  Sets(push[p].at, push[p].fresh \cup Known(push[p].at))
PROOF
<1>1. cache' = With(cache, push[p].at, push[p].fresh \cup Known(push[p].at))
    BY DEF Add, Enter
<1> QED BY <1>1, SetsIs

(* An empty cache. *)
LEMMA EmptyIs ==
  ASSUME cache' = <<>>
  PROVE  Leaves({})
PROOF
  BY DEF Leaves

(* A record after some of its fields were set: its place; *)
LEMMA SetPc ==
  ASSUME NEW x, Fields(x), NEW u
  PROVE  [x EXCEPT !.pc = u]
           = Record(u, x.items, x.records, x.todo, x.keys, x.at, x.fresh, x.stmt)
PROOF
<1> DEFINE x0 == Record(x.pc, x.items, x.records, x.todo, x.keys, x.at, x.fresh, x.stmt)
           x1 == Record(u, x.items, x.records, x.todo, x.keys, x.at, x.fresh, x.stmt)
<1>1. [x0 EXCEPT !.pc = u] = x1
    BY DEF Record
<1> HIDE DEF x0
<1>2. x = x0
    BY DEF x0, Fields
<1> QED BY <1>1, <1>2

(* what a push begins with; *)
LEMMA SetBegun ==
  ASSUME NEW x, Fields(x), NEW u, NEW v
  PROVE  [x EXCEPT !.pc = u, !.items = v]
           = Record(u, v, x.records, x.todo, x.keys, x.at, x.fresh, x.stmt)
PROOF
<1> DEFINE x0 == Record(x.pc, x.items, x.records, x.todo, x.keys, x.at, x.fresh, x.stmt)
           x1 == Record(u, x.items, x.records, x.todo, x.keys, x.at, x.fresh, x.stmt)
           x2 == Record(u, v, x.records, x.todo, x.keys, x.at, x.fresh, x.stmt)
<1>1. [x0 EXCEPT !.pc = u] = x1
    BY DEF Record
<1>2. [x1 EXCEPT !.items = v] = x2
    BY DEF Record
<1> HIDE DEF x0, x1
<1>3. x = x0
    BY DEF x0, Fields
<1>4. [x EXCEPT !.pc = u, !.items = v]
        = [[x EXCEPT !.pc = u] EXCEPT !.items = v]
    OBVIOUS
<1> QED BY <1>1, <1>2, <1>3, <1>4

(* what it has collected; *)
LEMMA SetCollected ==
  ASSUME NEW x, Fields(x), NEW u, NEW v
  PROVE  [x EXCEPT !.items = u, !.records = v]
           = Record(x.pc, u, v, x.todo, x.keys, x.at, x.fresh, x.stmt)
PROOF
<1> DEFINE x0 == Record(x.pc, x.items, x.records, x.todo, x.keys, x.at, x.fresh, x.stmt)
           x1 == Record(x.pc, u, x.records, x.todo, x.keys, x.at, x.fresh, x.stmt)
           x2 == Record(x.pc, u, v, x.todo, x.keys, x.at, x.fresh, x.stmt)
<1>1. [x0 EXCEPT !.items = u] = x1
    BY DEF Record
<1>2. [x1 EXCEPT !.records = v] = x2
    BY DEF Record
<1> HIDE DEF x0, x1
<1>3. x = x0
    BY DEF x0, Fields
<1>4. [x EXCEPT !.items = u, !.records = v]
        = [[x EXCEPT !.items = u] EXCEPT !.records = v]
    OBVIOUS
<1> QED BY <1>1, <1>2, <1>3, <1>4

(* the keys it has read; *)
LEMMA SetKeys ==
  ASSUME NEW x, Fields(x), NEW u, NEW v
  PROVE  [x EXCEPT !.pc = u, !.keys = v]
           = Record(u, x.items, x.records, x.todo, v, x.at, x.fresh, x.stmt)
PROOF
<1> DEFINE x0 == Record(x.pc, x.items, x.records, x.todo, x.keys, x.at, x.fresh, x.stmt)
           x1 == Record(u, x.items, x.records, x.todo, x.keys, x.at, x.fresh, x.stmt)
           x2 == Record(u, x.items, x.records, x.todo, v, x.at, x.fresh, x.stmt)
<1>1. [x0 EXCEPT !.pc = u] = x1
    BY DEF Record
<1>2. [x1 EXCEPT !.keys = v] = x2
    BY DEF Record
<1> HIDE DEF x0, x1
<1>3. x = x0
    BY DEF x0, Fields
<1>4. [x EXCEPT !.pc = u, !.keys = v]
        = [[x EXCEPT !.pc = u] EXCEPT !.keys = v]
    OBVIOUS
<1> QED BY <1>1, <1>2, <1>3, <1>4

(* the groups it goes through; *)
LEMMA SetGroups ==
  ASSUME NEW x, Fields(x), NEW u, NEW v
  PROVE  [x EXCEPT !.pc = u, !.todo = v]
           = Record(u, x.items, x.records, v, x.keys, x.at, x.fresh, x.stmt)
PROOF
<1> DEFINE x0 == Record(x.pc, x.items, x.records, x.todo, x.keys, x.at, x.fresh, x.stmt)
           x1 == Record(u, x.items, x.records, x.todo, x.keys, x.at, x.fresh, x.stmt)
           x2 == Record(u, x.items, x.records, v, x.keys, x.at, x.fresh, x.stmt)
<1>1. [x0 EXCEPT !.pc = u] = x1
    BY DEF Record
<1>2. [x1 EXCEPT !.todo = v] = x2
    BY DEF Record
<1> HIDE DEF x0, x1
<1>3. x = x0
    BY DEF x0, Fields
<1>4. [x EXCEPT !.pc = u, !.todo = v]
        = [[x EXCEPT !.pc = u] EXCEPT !.todo = v]
    OBVIOUS
<1> QED BY <1>1, <1>2, <1>3, <1>4

(* the groups that are left; *)
LEMMA SetTodo ==
  ASSUME NEW x, Fields(x), NEW u
  PROVE  [x EXCEPT !.todo = u]
           = Record(x.pc, x.items, x.records, u, x.keys, x.at, x.fresh, x.stmt)
PROOF
<1> DEFINE x0 == Record(x.pc, x.items, x.records, x.todo, x.keys, x.at, x.fresh, x.stmt)
           x1 == Record(x.pc, x.items, x.records, u, x.keys, x.at, x.fresh, x.stmt)
<1>1. [x0 EXCEPT !.todo = u] = x1
    BY DEF Record
<1> HIDE DEF x0
<1>2. x = x0
    BY DEF x0, Fields
<1> QED BY <1>1, <1>2

(* and the rows of a group. *)
LEMMA SetRows ==
  ASSUME NEW x, Fields(x), NEW u, NEW v, NEW w, NEW s, NEW t
  PROVE  Appended(x, u, v, w, s, t)
           = Record(t, x.items, x.records, u, x.keys, v, w, s)
PROOF
<1> DEFINE x0 == Record(x.pc, x.items, x.records, x.todo, x.keys, x.at, x.fresh, x.stmt)
           x1 == Record(x.pc, x.items, x.records, u, x.keys, x.at, x.fresh, x.stmt)
           x2 == Record(x.pc, x.items, x.records, u, x.keys, v, x.fresh, x.stmt)
           x3 == Record(x.pc, x.items, x.records, u, x.keys, v, w, x.stmt)
           x4 == Record(x.pc, x.items, x.records, u, x.keys, v, w, s)
           x5 == Record(t, x.items, x.records, u, x.keys, v, w, s)
<1>1. [x0 EXCEPT !.todo = u] = x1
    BY DEF Record
<1>2. [x1 EXCEPT !.at = v] = x2
    BY DEF Record
<1>3. [x2 EXCEPT !.fresh = w] = x3
    BY DEF Record
<1>4. [x3 EXCEPT !.stmt = s] = x4
    BY DEF Record
<1>5. [x4 EXCEPT !.pc = t] = x5
    BY DEF Record
<1> HIDE DEF x0, x1, x2, x3, x4
<1>6. x = x0
    BY DEF x0, Fields
<1>7. [x EXCEPT !.todo = u, !.at = v, !.fresh = w, !.stmt = s, !.pc = t]
        = [[[[[x EXCEPT !.todo = u] EXCEPT !.at = v] EXCEPT !.fresh = w]
            EXCEPT !.stmt = s] EXCEPT !.pc = t]
    OBVIOUS
<1> QED BY <1>1, <1>2, <1>3, <1>4, <1>5, <1>6, <1>7 DEF Appended

(* A push that becomes a record. *)
LEMMA BecomesIs ==
  ASSUME Shape, NEW p \in Pushers, NEW pc, NEW items, NEW records, NEW todo, NEW keys,
         NEW at, NEW fresh, NEW stmt,
         Becomes(p, Record(pc, items, records, todo, keys, at, fresh, stmt))
  PROVE  Effect(p, pc, at, fresh, stmt, records)
PROOF
<1> DEFINE rec == Record(pc, items, records, todo, keys, at, fresh, stmt)
<1>0. /\ Fields(rec) /\ rec.pc = pc /\ rec.at = at /\ rec.fresh = fresh
      /\ rec.stmt = stmt /\ rec.records = records
    BY DEF Record, Fields
<1> HIDE DEF rec
<1>1. push' = [push EXCEPT ![p] = rec]
    BY DEF Becomes, rec
<1>2. push = [q \in Pushers |-> push[q]]
    BY DEF Shape
<1>3. push'[p] = rec /\ Alone(p)
    BY <1>1, <1>2 DEF Alone
<1> QED BY <1>0, <1>3 DEF Effect

(* A push that goes to another place, one that ends, and one that begins. *)
LEMMA GoesToIs ==
  ASSUME Shape, NEW p \in Pushers, NEW pc, GoesTo(p, pc)
  PROVE  Moves(p, pc)
PROOF
<1>1. [push[p] EXCEPT !.pc = pc]
        = Record(pc, push[p].items, push[p].records, push[p].todo, push[p].keys,
                 push[p].at, push[p].fresh, push[p].stmt)
    BY SetPc DEF Shape
<1> QED BY <1>1, BecomesIs DEF GoesTo, Moves

(* A push that returns leaves nothing behind. *)
LEMMA NoPushIs ==
  ASSUME Shape, NEW p \in Pushers, Becomes(p, NoPush)
  PROVE  Effect(p, "idle", None, {}, {}, <<>>)
PROOF
<1>1. NoPush = Record("idle", <<>>, <<>>, {}, {}, None, {}, {})
    BY DEF NoPush, Record
<1> QED BY <1>1, BecomesIs

(* An entry that leaves the cache is lost to the pushes that hold it, and only *)
(* those change.                                                               *)
LEMMA UnlinkedIs ==
  ASSUME Shape, NEW r, push' = Unlinked(r)
  PROVE  /\ Keeps
         /\ \A q \in Pushers : /\ Stays(q, {"fill"}, "stale")
                               /\ push'[q].pc = "fill" => push'[q].at # r
PROOF
<1>1. ASSUME NEW q \in Pushers
      PROVE  /\ Fields(push[q])
             /\ push'[q] = IF push[q].pc = "fill" /\ push[q].at = r
                           THEN [push[q] EXCEPT !.pc = "stale"] ELSE push[q]
    BY DEF Shape, Unlinked
<1>2. push' = [q \in Pushers |-> push'[q]]
    BY DEF Unlinked
<1>3. ASSUME NEW q \in Pushers
      PROVE  /\ Fields(push'[q])
             /\ push'[q].at = push[q].at /\ push'[q].fresh = push[q].fresh
             /\ push'[q].stmt = push[q].stmt /\ push'[q].records = push[q].records
             /\ push'[q].pc = IF push[q].pc = "fill" /\ push[q].at = r THEN "stale" ELSE push[q].pc
  <2>1. CASE push[q].pc = "fill" /\ push[q].at = r
    <3>1. push'[q] = Record("stale", push[q].items, push[q].records, push[q].todo,
                               push[q].keys, push[q].at, push[q].fresh, push[q].stmt)
        BY <1>1, <2>1, SetPc
    <3> QED BY <2>1, <3>1 DEF Fields, Record
  <2>2. CASE ~(push[q].pc = "fill" /\ push[q].at = r)
      BY <1>1, <2>2
  <2> QED BY <2>1, <2>2
<1> QED BY <1>2, <1>3 DEF Keeps, Stays

(* A push that has other groups left. *)
LEMMA TodoIs ==
  ASSUME Shape, NEW p \in Pushers, NEW todo,
         \/ Becomes(p, [push[p] EXCEPT !.pc = "group", !.todo = todo])
         \/ push[p].pc = "group" /\ Becomes(p, [push[p] EXCEPT !.todo = todo])
  PROVE  Moves(p, "group")
PROOF
<1> DEFINE rec == Record("group", push[p].items, push[p].records, todo, push[p].keys,
                         push[p].at, push[p].fresh, push[p].stmt)
<1>1. [push[p] EXCEPT !.pc = "group", !.todo = todo] = rec
    BY SetGroups DEF Shape
<1>2. push[p].pc = "group" => [push[p] EXCEPT !.todo = todo] = rec
    BY SetTodo DEF Shape
<1> HIDE DEF rec
<1>3. Becomes(p, rec)
    BY <1>1, <1>2
<1> QED BY <1>3, BecomesIs DEF Moves, rec

(* The limits of a deployment are natural numbers. *)
LEMMA OwnIsNat ==
  ASSUME Shape
  PROVE  Own.resources \in Nat /\ Own.perResource \in Nat
PROOF
  BY MetadataAssumption DEF Shape, Own, Signal

(* What the check of the limit leaves is room for another resource. *)
LEMMA RoomLeft ==
  ASSUME Shape, IsFiniteSet(DOMAIN cache), ~(Cardinality(DOMAIN cache) >= Own.resources)
  PROVE  Cardinality(DOMAIN cache) < Own.resources
PROOF
  BY OwnIsNat, FS_CardinalityType

(* Every step is of one of the groups. *)
LEMMA StepIs ==
  ASSUME Shape, Modes, IsFiniteSet(DOMAIN cache), [Next]_vars
  PROVE  Kinds
PROOF
<1>1. ASSUME NEW p \in Pushers, Prepare(p) PROVE Kinds
  <2>1. Moves(p, "collect")
      BY <1>1, GoesToIs DEF Prepare
  <2> QED BY <1>1, <2>1 DEF Prepare, Walks, AtStep, cacheRead, stored, Before, Adding, Kinds
<1>2. ASSUME NEW p \in Pushers, PrepareFails(p) PROVE Kinds
  <2>1. Effect(p, "idle", None, {}, {}, <<>>)
      BY <1>2, NoPushIs DEF PrepareFails
  <2> QED BY <1>2, <2>1 DEF PrepareFails, Quits, AtStep, Fault, cacheRead, stored, Before, Kinds
<1>3. ASSUME NEW p \in Pushers, Collect(p) PROVE Kinds
  <2>1. PICK k, v :
          Becomes(p, [push[p] EXCEPT !.items = Tail(@), !.records = With(@, k, v)])
      BY <1>3 DEF Collect
  <2>2. Fields(push[p]) /\ push[p].pc = "collect"
      BY <1>3 DEF Shape, Collect, AtStep
  <2> DEFINE items   == Tail(push[p].items)
             records == With(push[p].records, k, v)
  <2>3. Becomes(p, [push[p] EXCEPT !.items = items, !.records = records])
      BY <2>1
  <2> HIDE DEF items
  <2>4. Effect(p, "collect", push[p].at, push[p].fresh, push[p].stmt, records)
    <3> HIDE DEF records
    <3>1. [push[p] EXCEPT !.items = items, !.records = records]
            = Record(push[p].pc, items, records, push[p].todo, push[p].keys,
                     push[p].at, push[p].fresh, push[p].stmt)
        BY <2>2, SetCollected
    <3> QED BY <2>2, <2>3, <3>1, BecomesIs
  <2> QED BY <1>3, <2>2, <2>4 DEF Collect, Walks, stored, Before, Kinds
<1>4. ASSUME NEW p \in Pushers, Collected(p) PROVE Kinds
  <2>1. Moves(p, "resources")
      BY <1>4, GoesToIs DEF Collected
  <2> QED BY <1>4, <2>1 DEF Collected, Walks, AtStep, cacheRead, stored, Before, Adding, Kinds
<1>5. ASSUME NEW p \in Pushers, CheckResources(p) PROVE Kinds
  <2>1. Effect(p, "idle", None, {}, {}, <<>>) \/ Moves(p, "total")
      BY <1>5, NoPushIs, GoesToIs DEF CheckResources
  <2> QED BY <1>5, <2>1 DEF CheckResources, AtStep, Quits, Walks, cacheRead, stored, Before, Kinds
<1>6. ASSUME NEW p \in Pushers, ReadKeys(p) PROVE Kinds
  <2>1. PICK keys : Becomes(p, [push[p] EXCEPT !.pc = "sum", !.keys = keys])
      BY <1>6 DEF ReadKeys
  <2>2. [push[p] EXCEPT !.pc = "sum", !.keys = keys]
          = Record("sum", push[p].items, push[p].records, push[p].todo, keys,
                   push[p].at, push[p].fresh, push[p].stmt)
      BY SetKeys DEF Shape
  <2>3. Moves(p, "sum")
      BY <2>1, <2>2, BecomesIs DEF Moves
  <2> QED BY <1>6, <2>3 DEF ReadKeys, AtStep, Walks, cacheRead, stored, Before, Kinds
<1>7. ASSUME NEW p \in Pushers, CheckTotal(p) PROVE Kinds
  <2>1. Effect(p, "idle", None, {}, {}, <<>>) \/ Moves(p, "limits")
      BY <1>7, NoPushIs, GoesToIs DEF CheckTotal
  <2> QED BY <1>7, <2>1 DEF CheckTotal, AtStep, Quits, Walks, cacheRead, stored, Before, Kinds
<1>8. ASSUME NEW p \in Pushers, CheckLimits(p) PROVE Kinds
  <2>1. Moves(p, "group")
      BY <1>8, TodoIs DEF CheckLimits
  <2> QED BY <1>8, <2>1 DEF CheckLimits, AtStep, Walks, cacheRead, stored, Before, Kinds
<1>9. ASSUME NEW p \in Pushers, AppendNew(p) PROVE Kinds
  <2>1. PICK r \in push[p].todo :
          LET fresh == AttrsOf(p, r) \ Known(r)
          IN  Becomes(p, [push[p] EXCEPT !.todo = @ \ {r}, !.at = r, !.fresh = fresh,
                            !.stmt = @ \cup {Row(p, r, a) : a \in fresh},
                            !.pc = IF fresh = {} THEN "group" ELSE "add"])
      BY <1>9 DEF AppendNew
  <2> DEFINE fresh == AttrsOf(p, r) \ Known(r)
             rows  == {Row(p, r, a) : a \in fresh}
             pc    == IF fresh = {} THEN "group" ELSE "add"
  <2>2. Becomes(p, [push[p] EXCEPT !.todo = @ \ {r}, !.at = r, !.fresh = fresh,
                      !.stmt = @ \cup rows, !.pc = pc])
      BY <2>1
  <2>3. fresh \subseteq AttrsOf(p, r) /\ pc \in {"group", "add"} /\ Fields(push[p])
      BY DEF Shape
  <2> HIDE DEF fresh, pc
  <2>4. Effect(p, pc, r, fresh, push[p].stmt \cup rows, push[p].records)
    <3> DEFINE todo == push[p].todo \ {r}
               stmt == push[p].stmt \cup rows
    <3>1. Becomes(p, Appended(push[p], todo, r, fresh, stmt, pc))
        BY <2>2 DEF Appended
    <3> HIDE DEF todo, stmt
    <3>2. Appended(push[p], todo, r, fresh, stmt, pc)
            = Record(pc, push[p].items, push[p].records, todo, push[p].keys, r, fresh, stmt)
        BY <2>3, SetRows
    <3>3. Effect(p, pc, r, fresh, stmt, push[p].records)
        BY <3>1, <3>2, BecomesIs
    <3> QED BY <3>3 DEF stmt
  <2>5. push[p].pc = "group" /\ UNCHANGED <<stored, deployment>>
      BY <1>9 DEF AppendNew, AtStep, cacheRead, stored
  <2> QED BY <2>3, <2>4, <2>5 DEF Appends, Kinds
<1>10. ASSUME NEW p \in Pushers, FindEntry(p) PROVE Kinds
  <2>1. push[p].pc = "add" /\ ~deployment.redis /\ UNCHANGED <<stored, deployment>>
      BY <1>10 DEF FindEntry, AtStep, cacheRead, stored
  <2>2. CASE push[p].at \in DOMAIN cache
    <3>0. GoesTo(p, "fill")
        BY <1>10, <2>2 DEF FindEntry
    <3>1. Moves(p, "fill")
        BY <3>0, GoesToIs
    <3> QED BY <2>1, <2>2, <3>1 DEF Turns, Kinds
  <2>3. CASE push[p].at \notin DOMAIN cache /\ Cardinality(DOMAIN cache) >= Own.resources
    <3>1. Moves(p, "group")
        BY <1>10, <2>3, GoesToIs DEF FindEntry
    <3> QED BY <2>1, <3>1 DEF Turns, Adding, Kinds
  <2>4. CASE push[p].at \notin DOMAIN cache /\ ~(Cardinality(DOMAIN cache) >= Own.resources)
    <3>1. Moves(p, "create")
        BY <1>10, <2>4, GoesToIs DEF FindEntry
    <3>2. Cardinality(DOMAIN cache) < Own.resources
        BY <2>4, RoomLeft
    <3> QED BY <2>1, <2>4, <3>1, <3>2 DEF Turns, Kinds
  <2> QED BY <2>2, <2>3, <2>4
<1>11. ASSUME NEW p \in Pushers, CreateEntry(p) PROVE Kinds
  <2> DEFINE u == Unlinked(push[p].at)
  <2>1. /\ push[p].pc = "create" /\ push' = [u EXCEPT ![p].pc = "get"]
        /\ cache' = With(cache, push[p].at, {}) /\ UNCHANGED <<table, lost, deployment>>
      BY <1>11 DEF CreateEntry, AtStep
  <2>2. u = [q \in Pushers |-> u[q]] /\ u[p] = push[p]
      BY <2>1 DEF Unlinked
  <2>3. ASSUME NEW q \in Pushers
        PROVE  /\ Fields(push[q])
               /\ u[q] = IF push[q].pc = "fill" /\ push[q].at = push[p].at
                         THEN [push[q] EXCEPT !.pc = "stale"] ELSE push[q]
      BY DEF Shape, Unlinked
  <2> HIDE DEF u
  <2>4. push' = [q \in Pushers |-> IF q = p THEN [u[p] EXCEPT !.pc = "get"] ELSE u[q]]
      BY <2>1, <2>2
  <2>5. push'[p] = [push[p] EXCEPT !.pc = "get"] /\ Fields(push[p])
      BY <2>2, <2>3, <2>4
  <2>6. ASSUME NEW q \in Pushers, q # p
        PROVE  /\ Fields(push'[q]) /\ Stays(q, {"fill"}, "stale")
               /\ push'[q].at = push[q].at /\ push'[q].fresh = push[q].fresh
               /\ push'[q].stmt = push[q].stmt /\ push'[q].records = push[q].records
    <3>1. push'[q] = u[q]
        BY <2>4, <2>6
    <3>2. CASE push[q].pc = "fill" /\ push[q].at = push[p].at
      <4>1. push'[q] = Record("stale", push[q].items, push[q].records, push[q].todo,
                               push[q].keys, push[q].at, push[q].fresh, push[q].stmt)
          BY <2>3, <3>1, <3>2, SetPc
      <4> QED BY <3>2, <4>1 DEF Fields, Record, Stays
    <3>3. CASE ~(push[q].pc = "fill" /\ push[q].at = push[p].at)
        BY <2>3, <3>1, <3>3 DEF Stays
    <3> QED BY <3>2, <3>3
  <2>7. Keeps /\ push'[p].pc = "get"
    <3>0. push'[p] = Record("get", push[p].items, push[p].records, push[p].todo,
                            push[p].keys, push[p].at, push[p].fresh, push[p].stmt)
        BY <2>5, SetPc
    <3>1. push' = [q \in Pushers |-> push'[q]]
        BY <2>4
    <3>2. /\ Fields(push'[p]) /\ push'[p].pc = "get"
          /\ push'[p].at = push[p].at /\ push'[p].fresh = push[p].fresh
          /\ push'[p].stmt = push[p].stmt /\ push'[p].records = push[p].records
        BY <3>0 DEF Fields, Record
    <3> QED BY <2>6, <3>1, <3>2 DEF Keeps
  <2>8. Sets(push[p].at, {})
      BY <2>1, SetsIs
  <2> QED BY <2>1, <2>6, <2>7, <2>8 DEF Makes, Kinds
<1>12. ASSUME NEW p \in Pushers, GetEntry(p) PROVE Kinds
  <2>1. Moves(p, "fill")
      BY <1>12, GoesToIs DEF GetEntry
  <2>2. push[p].pc = "get" /\ push[p].at \in DOMAIN cache /\ UNCHANGED <<stored, deployment>>
      BY <1>12 DEF GetEntry, AtStep, cacheRead, stored
  <2>3. ~deployment.redis
      BY <2>2 DEF Modes
  <2> QED BY <2>1, <2>2, <2>3 DEF Turns, Kinds
<1>13. ASSUME NEW p \in Pushers, FillEntry(p) PROVE Kinds
  <2>1. /\ Moves(p, "group") /\ push[p].pc \in {"fill", "stale"}
        /\ UNCHANGED <<table, lost, deployment>>
      BY <1>13, GoesToIs DEF FillEntry, AtStep
  <2>2. \/ push[p].pc = "fill" /\ ~TooMany(p) /\ Add(p)
        \/ UNCHANGED cache
      BY <1>13 DEF FillEntry, AtStep
  <2> QED BY <2>1, <2>2, AddIs DEF Fills, Turns, Adding, stored, Kinds
<1>14. ASSUME NEW p \in Pushers, CountResources(p) PROVE Kinds
  <2>1. push[p].pc = "add" /\ deployment.redis /\ UNCHANGED <<stored, deployment>>
      BY <1>14 DEF CountResources, AtStep, cacheRead, stored
  <2>2. CASE Cardinality(DOMAIN cache) >= Own.resources
    <3>1. Moves(p, "group")
        BY <1>14, <2>2, GoesToIs DEF CountResources
    <3> QED BY <2>1, <3>1 DEF Turns, Adding, Kinds
  <2>3. CASE ~(Cardinality(DOMAIN cache) >= Own.resources)
    <3>1. Moves(p, "card")
        BY <1>14, <2>3, GoesToIs DEF CountResources
    <3>2. Cardinality(DOMAIN cache) < Own.resources
        BY <2>3, RoomLeft
    <3> QED BY <2>1, <2>3, <3>1, <3>2 DEF Turns, Kinds
  <2> QED BY <2>2, <2>3
<1>15. ASSUME NEW p \in Pushers, CountAttrs(p) PROVE Kinds
  <2>1. push[p].pc = "card" /\ UNCHANGED <<stored, deployment>>
      BY <1>15 DEF CountAttrs, AtStep, cacheRead, stored
  <2>2. CASE TooMany(p)
    <3>1. Moves(p, "group")
        BY <1>15, <2>2, GoesToIs DEF CountAttrs
    <3> QED BY <2>1, <3>1 DEF Turns, Adding, Kinds
  <2>3. CASE ~TooMany(p)
    <3>1. Moves(p, "exec")
        BY <1>15, <2>3, GoesToIs DEF CountAttrs
    <3> QED BY <2>1, <2>3, <3>1 DEF Turns, Kinds
  <2> QED BY <2>2, <2>3
<1>16. ASSUME NEW p \in Pushers, ExecPipeline(p) PROVE Kinds
  <2>1. Moves(p, "group") /\ Sets(push[p].at, push[p].fresh \cup Known(push[p].at))
      BY <1>16, GoesToIs, AddIs DEF ExecPipeline
  <2> QED BY <1>16, <2>1 DEF ExecPipeline, AtStep, Fills, Kinds
<1>16a. ASSUME NEW p \in Pushers, ExecFails(p) PROVE Kinds
  <2>1. /\ Moves(p, "group") /\ push[p].pc = "exec" /\ UNCHANGED <<table, lost, deployment>>
        /\ UNCHANGED cache \/ Enter(push[p].at, {}) \/ Add(p)
      BY <1>16a, GoesToIs DEF ExecFails, AtStep
  <2>2. CASE UNCHANGED cache
      BY <2>1, <2>2 DEF Turns, Adding, stored, Kinds
  <2>3. CASE Enter(push[p].at, {})
    <3>1. cache' = With(cache, push[p].at, Known(push[p].at))
        BY <2>3 DEF Enter
    <3>2. Sets(push[p].at, Known(push[p].at))
        BY <3>1, SetsIs
    <3> QED BY <2>1, <3>2 DEF Fills, Kinds
  <2>4. CASE Add(p)
      BY <2>1, <2>4, AddIs DEF Fills, Kinds
  <2> QED BY <2>1, <2>2, <2>3, <2>4
<1>17. ASSUME NEW p \in Pushers, Send(p) PROVE Kinds
  <2>1. Effect(p, "idle", None, {}, {}, <<>>)
      BY <1>17, NoPushIs DEF Send
  <2> QED BY <1>17, <2>1 DEF Send, Finishes, AtStep, Fault, cacheRead, stored, Before, Kinds
<1>18. ASSUME NEW p \in Pushers, SendFails(p) PROVE Kinds
  <2>1. Effect(p, "idle", None, {}, {}, <<>>)
      BY <1>18, NoPushIs DEF SendFails
  <2> QED BY <1>18, <2>1 DEF SendFails, Finishes, AtStep, Fault, cacheRead, stored, Before, Kinds
<1>19. ASSUME NEW p \in Pushers, RedisFails(p) PROVE Kinds
  <2>1. UNCHANGED <<stored, deployment>>
      BY <1>19 DEF RedisFails, cacheRead, stored
  <2>2. CASE push[p].pc \in {"resources", "total"} /\ Becomes(p, NoPush)
    <3>1. Effect(p, "idle", None, {}, {}, <<>>)
        BY <2>2, NoPushIs
    <3> QED BY <2>1, <2>2, <3>1 DEF Quits, Before, Kinds
  <2>3. CASE /\ push[p].pc = "limits"
             /\ Becomes(p, [push[p] EXCEPT !.pc = "group", !.todo = Groups(p)])
    <3>1. Moves(p, "group")
        BY <2>3, TodoIs
    <3> QED BY <2>1, <2>3, <3>1 DEF Walks, Before, Kinds
  <2>4. CASE /\ push[p].pc = "group"
             /\ \E r \in push[p].todo : Becomes(p, [push[p] EXCEPT !.todo = @ \ {r}])
    <3>1. PICK r : Becomes(p, [push[p] EXCEPT !.todo = @ \ {r}])
        BY <2>4
    <3>2. Becomes(p, [push[p] EXCEPT !.todo = push[p].todo \ {r}])
        BY <3>1
    <3>3. Moves(p, "group")
        BY <2>4, <3>2, TodoIs
    <3> QED BY <2>1, <2>4, <3>3 DEF Appends, Kinds
  <2>5. CASE push[p].pc \in {"add", "card"} /\ GoesTo(p, "group")
    <3>1. Moves(p, "group")
        BY <2>5, GoesToIs
    <3> QED BY <2>1, <2>5, <3>1 DEF Turns, Adding, Kinds
  <2> QED BY <1>19, <2>2, <2>3, <2>4, <2>5 DEF RedisFails, AtStep
<1>20. ASSUME NEW p \in Pushers, Panic(p) PROVE Kinds
    BY <1>20, EmptyIs DEF Panic, Restart, Restarts, Kinds
<1>21. ASSUME NEW p \in Pushers, NEW b \in deployment.batches, Receive(p, b) PROVE Kinds
  <2>1. Fields(NoPush) /\ NoPush = Record("idle", <<>>, <<>>, {}, {}, None, {}, {})
      BY DEF NoPush, Record, Fields
  <2>2. [NoPush EXCEPT !.pc = "prepare", !.items = b]
          = Record("prepare", b, NoPush.records, NoPush.todo, NoPush.keys, NoPush.at,
                   NoPush.fresh, NoPush.stmt)
      BY <2>1, SetBegun
  <2>3. [NoPush EXCEPT !.pc = "prepare", !.items = b]
          = Record("prepare", b, <<>>, {}, {}, None, {}, {})
      BY <2>2 DEF NoPush
  <2>4. Effect(p, "prepare", None, {}, {}, <<>>)
      BY <1>21, <2>3, BecomesIs DEF Receive
  <2> QED BY <1>21, <2>4 DEF Receive, AtStep, Quits, stored, Before, Kinds
<1>22. CASE Fetch
    BY <1>22 DEF Fetch, Rests, stored, Kinds
<1>23. CASE NewWindow
  <2>1. /\ deployment.redis /\ cache' = <<>> /\ UNCHANGED <<table, lost, deployment>>
        /\ push' = [q \in Pushers |-> IF push[q].pc \in {"card", "exec"}
                                       THEN [push[q] EXCEPT !.pc = "group"] ELSE push[q]]
      BY <1>23 DEF NewWindow
  <2>2. ASSUME NEW q \in Pushers
        PROVE  /\ Fields(push'[q]) /\ Stays(q, {"card", "exec"}, "group")
               /\ push'[q].pc \notin {"card", "exec"}
               /\ push'[q].at = push[q].at /\ push'[q].fresh = push[q].fresh
               /\ push'[q].stmt = push[q].stmt /\ push'[q].records = push[q].records
    <3>0. Fields(push[q])
        BY DEF Shape
    <3>1. CASE push[q].pc \in {"card", "exec"}
      <4>1. push'[q] = Record("group", push[q].items, push[q].records, push[q].todo,
                               push[q].keys, push[q].at, push[q].fresh, push[q].stmt)
          BY <2>1, <3>0, <3>1, SetPc
      <4> QED BY <3>1, <4>1 DEF Fields, Record, Stays
    <3>2. CASE push[q].pc \notin {"card", "exec"}
        BY <2>1, <3>0, <3>2 DEF Stays
    <3> QED BY <3>1, <3>2
  <2>3. Keeps
      BY <2>1, <2>2 DEF Keeps
  <2> QED BY <2>1, <2>2, <2>3, EmptyIs DEF Forgets, Kinds
<1>24. CASE Crash
    BY <1>24, EmptyIs DEF Crash, Restart, Restarts, Kinds
<1>25. CASE Shutdown
    BY <1>25 DEF Shutdown, Rests, stored, Kinds
<1>26. ASSUME NEW k \in DOMAIN tracker, ForgetKey(k) PROVE Kinds
    BY <1>26 DEF ForgetKey, Rests, stored, Kinds
<1>27. ASSUME NEW r \in DOMAIN cache, Expire(r) PROVE Kinds
  <2>1. /\ ~deployment.redis /\ cache' = [s \in DOMAIN cache \ {r} |-> cache[s]]
        /\ push' = Unlinked(r) /\ UNCHANGED <<table, lost, deployment>>
      BY <1>27 DEF Expire
  <2>2. Keeps /\ \A q \in Pushers : /\ Stays(q, {"fill"}, "stale")
                                    /\ push'[q].pc = "fill" => push'[q].at # r
      BY <2>1, UnlinkedIs
  <2>3. Leaves(DOMAIN cache \ {r})
      BY <2>1 DEF Leaves
  <2> QED BY <2>1, <2>2, <2>3 DEF Forgets, Kinds
<1>28. CASE UNCHANGED vars
    BY <1>28 DEF vars, Rests, stored, Kinds
<1> QED BY <1>1, <1>2, <1>3, <1>4, <1>5, <1>6, <1>7, <1>8, <1>9, <1>10, <1>11, <1>12, <1>13,
   <1>14, <1>15, <1>16, <1>16a, <1>17, <1>18, <1>19, <1>20, <1>21, <1>22, <1>23, <1>24, <1>25, <1>26,
   <1>27, <1>28 DEF Next, PushStep

-----------------------------------------------------------------------------
(* The invariants, each of the groups. *)

(* The variables keep their shape. *)
LEMMA ShapeStep ==
  ASSUME Shape, Kinds
  PROVE  Shape'
PROOF
<1>0. deployment' = deployment
    BY DEF Kinds
<1>1. CASE Forgets
  <2>2. ASSUME NEW q \in Pushers PROVE push'[q].pc \in Places /\ Fields(push'[q])
      BY <1>1 DEF Forgets, Keeps, Stays, Shape, Places, Adding
  <2> QED BY <1>1, <1>0, <2>2 DEF Forgets, Keeps, Shape
<1>2. CASE Restarts
  <2>2. NoPush.pc \in Places /\ Fields(NoPush)
      BY DEF NoPush, Fields, Record, Places, Before
  <2> QED BY <1>2, <1>0, <2>2 DEF Restarts, Shape
<1>3. CASE Rests
    BY <1>3, <1>0 DEF Rests, stored, Shape
<1>4. ASSUME NEW p \in Pushers, Quits(p) PROVE Shape'
    BY <1>4, <1>0 DEF Quits, Moves, Effect, Alone, stored, Shape, Places, Before, Adding
<1>5. ASSUME NEW p \in Pushers, Walks(p) PROVE Shape'
    BY <1>5, <1>0 DEF Walks, Moves, Effect, Alone, stored, Shape, Places, Before, Adding
<1>6. ASSUME NEW p \in Pushers, Appends(p) PROVE Shape'
    BY <1>6, <1>0 DEF Appends, Moves, Effect, Alone, stored, Shape, Places, Before, Adding
<1>7. ASSUME NEW p \in Pushers, Turns(p) PROVE Shape'
    BY <1>7, <1>0 DEF Turns, Moves, Effect, Alone, stored, Shape, Places, Before, Adding
<1>8. ASSUME NEW p \in Pushers, Makes(p) PROVE Shape'
  <2>2. ASSUME NEW q \in Pushers PROVE push'[q].pc \in Places /\ Fields(push'[q])
      BY <1>8 DEF Makes, Keeps, Stays, Shape, Places, Adding
  <2> QED BY <1>8, <1>0, <2>2 DEF Makes, Keeps, Shape
<1>9. ASSUME NEW p \in Pushers, Fills(p) PROVE Shape'
    BY <1>9, <1>0 DEF Fills, Moves, Effect, Alone, Shape, Places
<1>10. ASSUME NEW p \in Pushers, Finishes(p) PROVE Shape'
    BY <1>10, <1>0 DEF Finishes, Moves, Effect, Alone, stored, Shape, Places, Before, Adding
<1> QED BY <1>1, <1>2, <1>3, <1>4, <1>5, <1>6, <1>7, <1>8, <1>9, <1>10 DEF Kinds

(* The places of the cache in memory and of Redis stay apart. *)
LEMMA ModesStep ==
  ASSUME Shape, Modes, Kinds
  PROVE  Modes'
PROOF
<1>0. deployment' = deployment
    BY DEF Kinds
<1> USE DEF Modes
<1>1. CASE Forgets
    BY <1>1, <1>0 DEF Forgets, Leaves, Keeps, Stays
<1>2. CASE Restarts
    BY <1>2, <1>0 DEF Restarts, NoPush
<1>3. CASE Rests
    BY <1>3, <1>0 DEF Rests, stored
<1>4. ASSUME NEW p \in Pushers, Quits(p) PROVE Modes'
    BY <1>4, <1>0 DEF Quits, Moves, Effect, Alone, stored, Before, Adding
<1>5. ASSUME NEW p \in Pushers, Walks(p) PROVE Modes'
    BY <1>5, <1>0 DEF Walks, Moves, Effect, Alone, stored, Before, Adding
<1>6. ASSUME NEW p \in Pushers, Appends(p) PROVE Modes'
    BY <1>6, <1>0 DEF Appends, Moves, Effect, Alone, stored, Before, Adding
<1>7. ASSUME NEW p \in Pushers, Turns(p) PROVE Modes'
    BY <1>7, <1>0 DEF Turns, Moves, Effect, Alone, stored, Before, Adding
<1>8. ASSUME NEW p \in Pushers, Makes(p) PROVE Modes'
    BY <1>8, <1>0 DEF Makes, Sets, Keeps, Stays
<1>9. ASSUME NEW p \in Pushers, Fills(p) PROVE Modes'
    BY <1>9, <1>0 DEF Fills, Sets, Moves, Effect, Alone
<1>10. ASSUME NEW p \in Pushers, Finishes(p) PROVE Modes'
    BY <1>10, <1>0 DEF Finishes, Moves, Effect, Alone, stored, Before, Adding
<1> QED BY <1>1, <1>2, <1>3, <1>4, <1>5, <1>6, <1>7, <1>8, <1>9, <1>10 DEF Kinds

(* Of what a push has collected, every set of attributes that occurs with  *)
(* a resource is a key, and the row of a fingerprint has it.               *)
LEMMA RowHas ==
  ASSUME NEW p, NEW r, NEW a, NEW S, NEW fresh, a \in fresh
  PROVE  HasRow(S \cup {Row(p, r, b) : b \in fresh}, r, a)
PROOF
<1>1. Row(p, r, a).resource = r /\ Row(p, r, a).fprint = a
    BY DEF Row
<1>2. Row(p, r, a) \in S \cup {Row(p, r, b) : b \in fresh}
    OBVIOUS
<1> QED BY <1>1, <1>2 DEF HasRow

(* What is entered in the cache has its rows in the statement. *)
LEMMA PreparedStep ==
  ASSUME Shape, Prepared, Kinds
  PROVE  Prepared'
PROOF
<1> USE DEF Prepared
<1>1. CASE Forgets
    BY <1>1 DEF Forgets, Keeps, Stays, Before, Adding
<1>2. CASE Restarts
    BY <1>2 DEF Restarts, NoPush, Before, Adding
<1>3. CASE Rests
    BY <1>3 DEF Rests, stored
<1>4. ASSUME NEW p \in Pushers, Quits(p) PROVE Prepared'
    BY <1>4 DEF Quits, Moves, Effect, Alone, stored, Before, Adding
<1>5. ASSUME NEW p \in Pushers, Walks(p) PROVE Prepared'
    BY <1>5 DEF Walks, Moves, Effect, Alone, stored, Before, Adding
<1>6. ASSUME NEW p \in Pushers, Appends(p) PROVE Prepared'
  <2>1. CASE Moves(p, "group")
      BY <1>6, <2>1 DEF Appends, Moves, Effect, Alone, Before, Adding
  <2>2. ASSUME NEW r, NEW fresh, NEW pc \in {"group", "add"},
               Effect(p, pc, r, fresh, push[p].stmt \cup {Row(p, r, a) : a \in fresh},
                      push[p].records)
        PROVE  Prepared'
    <3>1. \A a \in push'[p].fresh : HasRow(push'[p].stmt, push'[p].at, a)
      <4>1. /\ push'[p].fresh = fresh /\ push'[p].at = r
            /\ push'[p].stmt = push[p].stmt \cup {Row(p, r, a) : a \in fresh}
          BY <2>2 DEF Effect
      <4>2. \A a \in fresh : HasRow(push[p].stmt \cup {Row(p, r, b) : b \in fresh}, r, a)
          BY RowHas
      <4> QED BY <4>1, <4>2
    <3>2. push'[p].pc \in {"group", "add"} /\ \A q \in Pushers : q # p => push'[q] = push[q]
        BY <2>2 DEF Effect, Alone
    <3> QED BY <3>1, <3>2 DEF Before, Adding
  <2> QED BY <1>6, <2>1, <2>2 DEF Appends
<1>7. ASSUME NEW p \in Pushers, Turns(p) PROVE Prepared'
    BY <1>7 DEF Turns, Moves, Effect, Alone, stored, Before, Adding
<1>8. ASSUME NEW p \in Pushers, Makes(p) PROVE Prepared'
    BY <1>8 DEF Makes, Keeps, Stays, Before, Adding
<1>9. ASSUME NEW p \in Pushers, Fills(p) PROVE Prepared'
    BY <1>9 DEF Fills, Moves, Effect, Alone, stored, Before, Adding
<1>10. ASSUME NEW p \in Pushers, Finishes(p) PROVE Prepared'
    BY <1>10 DEF Finishes, Moves, Effect, Alone, stored, Before, Adding
<1> QED BY <1>1, <1>2, <1>3, <1>4, <1>5, <1>6, <1>7, <1>8, <1>9, <1>10 DEF Kinds

(* More rows have what fewer have. *)
LEMMA MoreRows ==
  ASSUME NEW S, NEW T, S \subseteq T, NEW r, NEW a, HasRow(S, r, a)
  PROVE  HasRow(T, r, a)
PROOF
  BY DEF HasRow

(* A row that is stored, lost or in a statement stays so: a statement only *)
(* grows until it is sent, fails or is lost.                               *)
LEMMA StoredStays ==
  ASSUME Shape, Prepared, NEW r, NEW a, StoredAt(r, a), Kinds
  PROVE  StoredAt(r, a)'
PROOF
<1> USE DEF StoredAt
<1>1. CASE Forgets
    BY <1>1 DEF Forgets, Keeps
<1>2. CASE Restarts
  <2>1. CASE HasRow(table, r, a) \/ HasRow(lost, r, a)
    <3>1. UNCHANGED table /\ lost \subseteq lost'
        BY <1>2 DEF Restarts
    <3> QED BY <2>1, <3>1, MoreRows
  <2>2. CASE \E p \in Pushers : HasRow(push[p].stmt, r, a)
    <3>1. PICK p \in Pushers : HasRow(push[p].stmt, r, a)
        BY <2>2
    <3>2. push[p].stmt \subseteq lost'
        BY <1>2 DEF Restarts
    <3> QED BY <3>1, <3>2, MoreRows
  <2> QED BY <2>1, <2>2
<1>3. CASE Rests
    BY <1>3 DEF Rests, stored
<1>4. ASSUME NEW p \in Pushers, Quits(p) PROVE StoredAt(r, a)'
  <2>1. push[p].stmt = {} /\ UNCHANGED stored /\ Alone(p)
      BY <1>4 DEF Quits, Prepared, Effect
  <2>2. ~HasRow(push[p].stmt, r, a)
      BY <2>1 DEF HasRow
  <2> QED BY <2>1, <2>2 DEF Alone, stored
<1>5. ASSUME NEW p \in Pushers, Walks(p) PROVE StoredAt(r, a)'
    BY <1>5 DEF Walks, Moves, Effect, Alone, stored
<1>6. ASSUME NEW p \in Pushers, Appends(p) PROVE StoredAt(r, a)'
  <2>1. push[p].stmt \subseteq push'[p].stmt /\ Alone(p) /\ UNCHANGED stored
      BY <1>6 DEF Appends, Moves, Effect
  <2> QED BY <2>1, MoreRows DEF Alone, stored
<1>7. ASSUME NEW p \in Pushers, Turns(p) PROVE StoredAt(r, a)'
    BY <1>7 DEF Turns, Moves, Effect, Alone, stored
<1>8. ASSUME NEW p \in Pushers, Makes(p) PROVE StoredAt(r, a)'
    BY <1>8 DEF Makes, Keeps
<1>9. ASSUME NEW p \in Pushers, Fills(p) PROVE StoredAt(r, a)'
    BY <1>9 DEF Fills, Moves, Effect, Alone, stored
<1>10. ASSUME NEW p \in Pushers, Finishes(p) PROVE StoredAt(r, a)'
  <2>1. /\ Alone(p) /\ table \subseteq table' /\ lost \subseteq lost'
        /\ push[p].stmt \subseteq table' \/ push[p].stmt \subseteq lost'
      BY <1>10 DEF Finishes, Effect
  <2>2. CASE HasRow(table, r, a) \/ HasRow(lost, r, a)
      BY <2>1, <2>2, MoreRows
  <2>3. CASE \E q \in Pushers : HasRow(push[q].stmt, r, a)
      BY <2>1, <2>3, MoreRows DEF Alone
  <2> QED BY <2>2, <2>3
<1> QED BY <1>1, <1>2, <1>3, <1>4, <1>5, <1>6, <1>7, <1>8, <1>9, <1>10 DEF Kinds

(* What the cache holds was there, or is that of a push that adds it. *)
LEMMA Cached ==
  ASSUME Kinds, NEW r \in DOMAIN cache', NEW a \in cache'[r]
  PROVE  \/ r \in DOMAIN cache /\ a \in cache[r]
         \/ \E p \in Pushers : push[p].pc \in Adding /\ push[p].at = r /\ a \in push[p].fresh
PROOF
<1>1. CASE Forgets
    BY <1>1 DEF Forgets, Leaves
<1>2. CASE Restarts
    BY <1>2 DEF Restarts, Leaves
<1>3. ASSUME NEW p \in Pushers, Makes(p) PROVE r \in DOMAIN cache /\ a \in cache[r]
    BY <1>3 DEF Makes, Sets
<1>4. ASSUME NEW p \in Pushers, Fills(p)
      PROVE  \/ r \in DOMAIN cache /\ a \in cache[r]
             \/ push[p].pc \in Adding /\ push[p].at = r /\ a \in push[p].fresh
    BY <1>4 DEF Fills, Sets, Known, Adding
<1> QED BY <1>1, <1>2, <1>3, <1>4
      DEF Kinds, Rests, Quits, Walks, Appends, Turns, Finishes, stored

(* What the cache holds stays stored. *)
LEMMA StoredStep ==
  ASSUME Shape, Prepared, Stored, Kinds
  PROVE  Stored'
PROOF
<1> SUFFICES ASSUME NEW r \in DOMAIN cache', NEW a \in cache'[r] PROVE StoredAt(r, a)'
    BY DEF Stored
<1>1. StoredAt(r, a)
  <2>1. CASE r \in DOMAIN cache /\ a \in cache[r]
      BY <2>1 DEF Stored
  <2>2. CASE \E p \in Pushers : push[p].pc \in Adding /\ push[p].at = r /\ a \in push[p].fresh
      BY <2>2 DEF Prepared, StoredAt
  <2> QED BY <2>1, <2>2, Cached
<1> QED BY <1>1, StoredStays

-----------------------------------------------------------------------------
(* The bounds. *)

(* The attributes that occur with a resource are finitely many. *)
LEMMA AttrsFinite ==
  ASSUME NEW p, NEW r, IsFiniteSet(DOMAIN push[p].records)
  PROVE  IsFiniteSet(AttrsOf(p, r))
PROOF
<1> DEFINE S == {j \in DOMAIN push[p].records : j[1] = r}
           f == [k \in S |-> k[2]]
<1>1. IsFiniteSet(S)
    BY FS_Subset
<1>2. f \in Surjection(S, AttrsOf(p, r))
    BY DEF Surjection, AttrsOf
<1> QED BY <1>1, <1>2, FS_Surjection

(* Nothing collected, and an empty cache. *)
LEMMA NoRecords == DOMAIN <<>> = {} /\ IsFiniteSet(DOMAIN <<>>) /\ IsFiniteSet({})
PROOF
  BY FS_EmptySet

(* What is counted stays finite. *)
LEMMA FiniteStep ==
  ASSUME Shape, Finite, Kinds
  PROVE  Finite'
PROOF
<1> USE DEF Finite
<1>1. CASE Forgets
    BY <1>1, FS_Subset DEF Forgets, Leaves, Keeps
<1>2. CASE Restarts
    BY <1>2, NoRecords DEF Restarts, Leaves, NoPush
<1>3. CASE Rests
    BY <1>3 DEF Rests, stored
<1>4. ASSUME NEW p \in Pushers, Quits(p) PROVE Finite'
  <2>1. push'[p].fresh = {} /\ push'[p].records = <<>> /\ Alone(p) /\ UNCHANGED stored
      BY <1>4 DEF Quits, Effect
  <2> QED BY <2>1, NoRecords DEF Alone, stored
<1>5. ASSUME NEW p \in Pushers, Walks(p) PROVE Finite'
  <2>1. /\ push'[p].fresh = push[p].fresh /\ Alone(p) /\ UNCHANGED stored
        /\ \/ push'[p].records = push[p].records
           \/ \E k, v : push'[p].records = With(push[p].records, k, v)
      BY <1>5 DEF Walks, Moves, Effect
  <2>2. ASSUME NEW k, NEW v PROVE IsFiniteSet(DOMAIN With(push[p].records, k, v))
    <3>1. DOMAIN With(push[p].records, k, v) = DOMAIN push[p].records \cup {k}
        BY DEF With
    <3> QED BY <3>1, FS_AddElement
  <2> QED BY <2>1, <2>2 DEF Alone, stored
<1>6. ASSUME NEW p \in Pushers, Appends(p) PROVE Finite'
  <2>1. /\ Alone(p) /\ UNCHANGED stored /\ push'[p].records = push[p].records
        /\ \/ push'[p].fresh = push[p].fresh
           \/ \E r : push'[p].fresh \subseteq AttrsOf(p, r)
      BY <1>6 DEF Appends, Moves, Effect
  <2>2. IsFiniteSet(push'[p].fresh)
      BY <2>1, AttrsFinite, FS_Subset
  <2> QED BY <2>1, <2>2 DEF Alone, stored
<1>7. ASSUME NEW p \in Pushers, Turns(p) PROVE Finite'
    BY <1>7 DEF Turns, Moves, Effect, Alone, stored
<1>8. ASSUME NEW p \in Pushers, Makes(p) PROVE Finite'
  <2>1. IsFiniteSet(DOMAIN cache') /\ \A r \in DOMAIN cache' : IsFiniteSet(cache'[r])
      BY <1>8, FS_AddElement, FS_EmptySet DEF Makes, Sets
  <2> QED BY <1>8, <2>1 DEF Makes, Keeps
<1>9. ASSUME NEW p \in Pushers, Fills(p) PROVE Finite'
  <2>1. IsFiniteSet(push[p].fresh \cup Known(push[p].at)) /\ IsFiniteSet(Known(push[p].at))
      BY FS_Union, FS_EmptySet DEF Known
  <2>2. IsFiniteSet(DOMAIN cache') /\ \A r \in DOMAIN cache' : IsFiniteSet(cache'[r])
      BY <1>9, <2>1, FS_AddElement DEF Fills, Sets
  <2> QED BY <1>9, <2>2 DEF Fills, Moves, Effect, Alone
<1>10. ASSUME NEW p \in Pushers, Finishes(p) PROVE Finite'
  <2>1. push'[p].fresh = {} /\ push'[p].records = <<>> /\ Alone(p) /\ UNCHANGED cache
      BY <1>10 DEF Finishes, Effect
  <2> QED BY <2>1, NoRecords DEF Alone
<1> QED BY <1>1, <1>2, <1>3, <1>4, <1>5, <1>6, <1>7, <1>8, <1>9, <1>10 DEF Kinds

(* The sizes are natural numbers. *)
LEMMA Numbers ==
  ASSUME Shape, Finite
  PROVE  /\ Own.resources \in Nat /\ Own.perResource \in Nat
         /\ IsFiniteSet(Pushers) /\ Cardinality(Pushers) \in Nat /\ Cardinality(Pushers) > 0
         /\ Cardinality(DOMAIN cache) \in Nat
         /\ IsFiniteSet(Entering) /\ Cardinality(Entering) \in Nat
         /\ Cardinality(Entering) <= Cardinality(Pushers)
         /\ \A p \in Pushers : Cardinality(push[p].fresh) \in Nat
         /\ \A r : /\ IsFiniteSet(Known(r)) /\ Size(r) \in Nat
                   /\ IsFiniteSet(Execing(r)) /\ Cardinality(Execing(r)) \in Nat
                   /\ Cardinality(Execing(r)) <= Cardinality(Pushers)
PROOF
<1>1. IsFiniteSet(Pushers) /\ Cardinality(Pushers) \in Nat /\ Cardinality(Pushers) > 0
    BY MetadataAssumption, FS_CardinalityType, FS_EmptySet
<1>2. ASSUME NEW S \in SUBSET Pushers
      PROVE  IsFiniteSet(S) /\ Cardinality(S) \in Nat /\ Cardinality(S) <= Cardinality(Pushers)
    BY <1>1, FS_Subset, FS_CardinalityType
<1>3. ASSUME NEW r PROVE IsFiniteSet(Known(r)) /\ Size(r) \in Nat
  <2>1. IsFiniteSet(Known(r))
      BY FS_EmptySet DEF Known, Finite
  <2> QED BY <2>1, FS_CardinalityType DEF Size
<1>4. Entering \in SUBSET Pushers /\ \A r : Execing(r) \in SUBSET Pushers
    BY DEF Entering, Execing
<1>5. Cardinality(DOMAIN cache) \in Nat /\ \A p \in Pushers : Cardinality(push[p].fresh) \in Nat
    BY FS_CardinalityType DEF Finite
<1> QED BY <1>1, <1>2, <1>3, <1>4, <1>5, OwnIsNat

(* The entries and those to come, when neither become more. *)
LEMMA RoomKept ==
  ASSUME Shape, Finite, Room, deployment' = deployment,
         DOMAIN cache' \subseteq DOMAIN cache, Entering' \subseteq Entering
  PROVE  Room'
PROOF
<1>1. Cardinality(DOMAIN cache') <= Cardinality(DOMAIN cache) /\ Cardinality(DOMAIN cache') \in Nat
    BY FS_Subset, FS_CardinalityType DEF Finite
<1>2. Cardinality(Entering') <= Cardinality(Entering) /\ Cardinality(Entering') \in Nat
    BY Numbers, FS_Subset, FS_CardinalityType
<1>3. Own' = Own
    BY DEF Own, Signal
<1> QED BY <1>1, <1>2, <1>3, Numbers DEF Room

(* One that was to come has come. *)
LEMMA RoomTaken ==
  ASSUME Shape, Finite, Room, deployment' = deployment, NEW p \in Entering, NEW r,
         DOMAIN cache' = DOMAIN cache \cup {r}, Entering' \subseteq Entering \ {p}
  PROVE  Room'
PROOF
<1>1. /\ Cardinality(DOMAIN cache') <= Cardinality(DOMAIN cache) + 1
      /\ Cardinality(DOMAIN cache') \in Nat
  <2>1. /\ IsFiniteSet(DOMAIN cache \cup {r})
        /\ Cardinality(DOMAIN cache \cup {r})
             = IF r \in DOMAIN cache THEN Cardinality(DOMAIN cache)
               ELSE Cardinality(DOMAIN cache) + 1
      BY FS_AddElement DEF Finite
  <2>2. Cardinality(DOMAIN cache \cup {r}) \in Nat
      BY <2>1, FS_CardinalityType
  <2> QED BY <2>1, <2>2, Numbers
<1>2. IsFiniteSet(Entering \ {p}) /\ Cardinality(Entering \ {p}) = Cardinality(Entering) - 1
    BY Numbers, FS_RemoveElement
<1>3. /\ Cardinality(Entering') <= Cardinality(Entering \ {p})
      /\ Cardinality(Entering') \in Nat
    BY <1>2, FS_Subset, FS_CardinalityType
<1>4. Own' = Own
    BY DEF Own, Signal
<1> QED BY <1>1, <1>2, <1>3, <1>4, Numbers DEF Room

(* There are never more entries than allowed and one for every other       *)
(* consumer.                                                               *)
LEMMA RoomStep ==
  ASSUME Shape, Finite, Modes, Room, Kinds
  PROVE  Room'
PROOF
<1>0. deployment' = deployment
    BY DEF Kinds
<1>1. CASE Forgets
  <2>1. DOMAIN cache' \subseteq DOMAIN cache /\ Entering' \subseteq Entering
      BY <1>1 DEF Forgets, Leaves, Keeps, Stays, Entering
  <2> QED BY <1>0, <2>1, RoomKept
<1>2. CASE Restarts
  <2>1. DOMAIN cache' \subseteq DOMAIN cache /\ Entering' \subseteq Entering
      BY <1>2 DEF Restarts, Leaves, NoPush, Entering
  <2> QED BY <1>0, <2>1, RoomKept
<1>3. CASE Rests
  <2>1. DOMAIN cache' \subseteq DOMAIN cache /\ Entering' \subseteq Entering
      BY <1>3 DEF Rests, stored, Entering
  <2> QED BY <1>0, <2>1, RoomKept
<1>4. ASSUME NEW p \in Pushers, Quits(p) PROVE Room'
  <2>1. DOMAIN cache' \subseteq DOMAIN cache /\ Entering' \subseteq Entering
      BY <1>4 DEF Quits, Moves, Effect, Alone, stored, Before, Entering
  <2> QED BY <1>0, <2>1, RoomKept
<1>5. ASSUME NEW p \in Pushers, Walks(p) PROVE Room'
  <2>1. DOMAIN cache' \subseteq DOMAIN cache /\ Entering' \subseteq Entering
      BY <1>5 DEF Walks, Moves, Effect, Alone, stored, Before, Entering
  <2> QED BY <1>0, <2>1, RoomKept
<1>6. ASSUME NEW p \in Pushers, Appends(p) PROVE Room'
  <2>1. DOMAIN cache' \subseteq DOMAIN cache /\ Entering' \subseteq Entering
      BY <1>6 DEF Appends, Moves, Effect, Alone, stored, Before, Entering
  <2> QED BY <1>0, <2>1, RoomKept
<1>7. ASSUME NEW p \in Pushers, Turns(p) PROVE Room'
  <2>1. CASE DOMAIN cache' = DOMAIN cache /\ Entering' \subseteq Entering
      BY <1>0, <2>1, RoomKept
  <2>2. CASE UNCHANGED cache /\ Cardinality(DOMAIN cache) < Own.resources
    <3>1. Shape' /\ Finite'
        BY ShapeStep, FiniteStep
    <3>2. Cardinality(Entering') <= Cardinality(Pushers) /\ Cardinality(Entering') \in Nat
      <4>1. Entering' \in SUBSET Pushers
          BY DEF Entering
      <4> QED BY <4>1, Numbers, FS_Subset, FS_CardinalityType
    <3>3. Own' = Own
        BY <1>0 DEF Own, Signal
    <3> QED BY <2>2, <3>2, <3>3, Numbers DEF Room
  <2>3. UNCHANGED cache /\ Alone(p)
      BY <1>7 DEF Turns, Moves, Effect, stored
  <2>4. \/ push'[p].pc \in {"group", "fill"}
        \/ push[p].pc = "card" /\ push'[p].pc = "exec"
        \/ Cardinality(DOMAIN cache) < Own.resources
      BY <1>7 DEF Turns, Moves, Effect
  <2>5. CASE push'[p].pc \in {"group", "fill"} \/ (push[p].pc = "card" /\ push'[p].pc = "exec")
    <3>1. Entering' \subseteq Entering
        BY <2>3, <2>5 DEF Alone, Entering
    <3> QED BY <2>1, <2>3, <3>1
  <2> QED BY <2>2, <2>3, <2>4, <2>5
<1>8. ASSUME NEW p \in Pushers, Makes(p) PROVE Room'
  <2>1. p \in Entering /\ Entering' \subseteq Entering \ {p}
      BY <1>8 DEF Makes, Keeps, Stays, Entering
  <2>2. DOMAIN cache' = DOMAIN cache \cup {push[p].at}
      BY <1>8 DEF Makes, Sets
  <2> QED BY <1>0, <2>1, <2>2, RoomTaken
<1>9. ASSUME NEW p \in Pushers, Fills(p) PROVE Room'
  <2>1. DOMAIN cache' = DOMAIN cache \cup {push[p].at} /\ Alone(p) /\ push'[p].pc = "group"
      BY <1>9 DEF Fills, Sets, Moves, Effect
  <2>2. CASE push[p].pc = "fill"
    <3>1. DOMAIN cache' \subseteq DOMAIN cache /\ Entering' \subseteq Entering
        BY <2>1, <2>2 DEF Modes, Entering, Alone
    <3> QED BY <1>0, <3>1, RoomKept
  <2>3. CASE push[p].pc = "exec"
    <3>1. p \in Entering /\ Entering' \subseteq Entering \ {p}
        BY <2>1, <2>3 DEF Entering, Alone
    <3> QED BY <1>0, <2>1, <3>1, RoomTaken
  <2> QED BY <1>9, <2>2, <2>3 DEF Fills
<1>10. ASSUME NEW p \in Pushers, Finishes(p) PROVE Room'
  <2>1. DOMAIN cache' \subseteq DOMAIN cache /\ Entering' \subseteq Entering
      BY <1>10 DEF Finishes, Moves, Effect, Alone, stored, Before, Entering
  <2> QED BY <1>0, <2>1, RoomKept
<1> QED BY <1>1, <1>2, <1>3, <1>4, <1>5, <1>6, <1>7, <1>8, <1>9, <1>10 DEF Kinds

(* A push that has room: what it adds and what is there are no more than   *)
(* the limit, together.                                                    *)
LEMMA FitsIn ==
  ASSUME Shape, Finite, NEW p \in Pushers, ~TooMany(p)
  PROVE  /\ Size(push[p].at) + Cardinality(push[p].fresh) <= Own.perResource
         /\ Cardinality(push[p].fresh) <= Own.perResource
PROOF
<1>1. ~(Size(push[p].at) + Cardinality(push[p].fresh) > Own.perResource)
    BY FS_EmptySet DEF TooMany, Size, Known
<1> QED BY <1>1, Numbers

(* Together they are no more than their sum. *)
LEMMA UnionSize ==
  ASSUME Shape, Finite, NEW p \in Pushers
  PROVE  /\ Cardinality(push[p].fresh \cup Known(push[p].at))
              <= Size(push[p].at) + Cardinality(push[p].fresh)
         /\ Cardinality(push[p].fresh \cup Known(push[p].at)) \in Nat
PROOF
<1>1. IsFiniteSet(push[p].fresh) /\ IsFiniteSet(Known(push[p].at))
    BY Numbers DEF Finite
<1>2. IsFiniteSet(push[p].fresh \cap Known(push[p].at))
    BY <1>1, FS_Subset
<1>3. Cardinality(push[p].fresh \cap Known(push[p].at)) \in Nat
    BY <1>2, FS_CardinalityType
<1>4. /\ IsFiniteSet(push[p].fresh \cup Known(push[p].at))
      /\ Cardinality(push[p].fresh \cup Known(push[p].at))
           = Cardinality(push[p].fresh) + Cardinality(Known(push[p].at))
               - Cardinality(push[p].fresh \cap Known(push[p].at))
    BY <1>1, FS_Union
<1>5. Cardinality(push[p].fresh \cup Known(push[p].at)) \in Nat
    BY <1>4, FS_CardinalityType
<1> QED BY <1>3, <1>4, <1>5, Numbers DEF Size

(* In memory the limit of a resource is kept exactly. *)
LEMMA InMemoryStep ==
  ASSUME Shape, Finite, Modes, InMemory, Kinds
  PROVE  InMemory'
PROOF
<1>0. deployment' = deployment /\ Own' = Own
    BY DEF Kinds, Own, Signal
<1>1. CASE Forgets
    BY <1>1, <1>0 DEF Forgets, Leaves, InMemory
<1>2. CASE Restarts
    BY <1>2, <1>0 DEF Restarts, Leaves, InMemory
<1>3. CASE Rests
    BY <1>3, <1>0 DEF Rests, stored, InMemory
<1>4. ASSUME NEW p \in Pushers, Quits(p) PROVE InMemory'
    BY <1>4, <1>0 DEF Quits, stored, InMemory
<1>5. ASSUME NEW p \in Pushers, Walks(p) PROVE InMemory'
    BY <1>5, <1>0 DEF Walks, stored, InMemory
<1>6. ASSUME NEW p \in Pushers, Appends(p) PROVE InMemory'
    BY <1>6, <1>0 DEF Appends, stored, InMemory
<1>7. ASSUME NEW p \in Pushers, Turns(p) PROVE InMemory'
    BY <1>7, <1>0 DEF Turns, stored, InMemory
<1>8. ASSUME NEW p \in Pushers, Makes(p) PROVE InMemory'
  <2>1. Cardinality({}) <= Own.perResource
      BY FS_EmptySet, Numbers
  <2> QED BY <1>8, <1>0, <2>1 DEF Makes, Sets, InMemory
<1>9. ASSUME NEW p \in Pushers, Fills(p) PROVE InMemory'
  <2> SUFFICES ASSUME ~deployment.redis, NEW r \in DOMAIN cache'
               PROVE  Cardinality(cache'[r]) <= Own.perResource
      BY <1>0 DEF InMemory
  <2>1. ~TooMany(p)
      BY <1>9 DEF Fills, Modes
  <2>2. CASE r = push[p].at
    <3>1. cache'[r] = push[p].fresh \cup Known(push[p].at)
        BY <1>9, <2>2 DEF Fills, Sets, Modes
    <3>2. Cardinality(push[p].fresh \cup Known(push[p].at)) <= Own.perResource
        BY <2>1, FitsIn, UnionSize, Numbers
    <3> QED BY <3>1, <3>2
  <2>3. CASE r # push[p].at
      BY <1>9, <2>3 DEF Fills, Sets, InMemory
  <2> QED BY <2>2, <2>3
<1>10. ASSUME NEW p \in Pushers, Finishes(p) PROVE InMemory'
    BY <1>10, <1>0 DEF Finishes, stored, InMemory
<1> QED BY <1>1, <1>2, <1>3, <1>4, <1>5, <1>6, <1>7, <1>8, <1>9, <1>10 DEF Kinds

(* What n consumers leave to the others. *)
LEMMA ShareIs ==
  ASSUME Shape, Finite, NEW n \in Nat, n <= Cardinality(Pushers), n >= 1
  PROVE  /\ Share(n) \in Nat /\ Share(n - 1) = Share(n) + Own.perResource
         /\ Own.perResource <= Share(n)
         /\ Share(n) <= Own.perResource * Cardinality(Pushers)
         /\ Share(1) = Own.perResource * Cardinality(Pushers)
PROOF
<1>1. ASSUME NEW P \in Nat, NEW N \in Nat, n <= N
      PROVE  /\ P * (N + 1 - n) \in Nat /\ P * (N + 1 - (n - 1)) = P * (N + 1 - n) + P
             /\ P <= P * (N + 1 - n) /\ P * (N + 1 - n) <= P * N
             /\ P * (N + 1 - 1) = P * N
  <2>1. N + 1 - n \in Nat /\ N - n \in Nat /\ n - 1 \in Nat
      BY <1>1
  <2>2. P * (N - n) \in Nat /\ P * (n - 1) \in Nat
      BY <2>1, <1>1
  <2>3. P * (N + 1 - n) = P * (N - n) + P
      BY <2>1, <1>1
  <2>4. P * N = P * (N + 1 - n) + P * (n - 1)
      BY <2>1, <1>1
  <2>5. P * (N + 1 - (n - 1)) = P * (N + 1 - n) + P
      BY <2>1, <1>1
  <2>6. N + 1 - 1 = N
      BY <1>1
  <2> QED BY <2>2, <2>3, <2>4, <2>5, <2>6, <1>1
<1> QED BY <1>1, Numbers DEF Share

(* What is in Redis is no more than if everyone had filled it alone. *)
LEMMA TotalShare ==
  ASSUME Shape, Finite, NEW r, Pipelines(r)
  PROVE  Size(r) <= Own.perResource * Cardinality(Pushers)
PROOF
<1>1. CASE Execing(r) = {}
    BY <1>1 DEF Pipelines
<1>2. CASE Execing(r) # {}
  <2>1. PICK q \in Execing(r) :
          Size(r) + Cardinality(push[q].fresh) <= Share(Cardinality(Execing(r)))
      BY <1>2 DEF Pipelines
  <2>2. q \in Pushers
      BY DEF Execing
  <2>3. Cardinality(Execing(r)) >= 1
      BY <1>2, Numbers, FS_EmptySet
  <2>4. /\ Share(Cardinality(Execing(r))) \in Nat
        /\ Share(Cardinality(Execing(r))) <= Own.perResource * Cardinality(Pushers)
      BY <2>3, Numbers, ShareIs
  <2> QED BY <2>1, <2>2, <2>4, Numbers
<1> QED BY <1>1, <1>2

(* A resource that is neither in the cache nor at hand has its room. *)
LEMMA Everywhere ==
  ASSUME Shape, Finite, InRedis, deployment.redis, NEW r
  PROVE  Pipelines(r)
PROOF
<1>1. CASE r \in DOMAIN cache \cup {push[q].at : q \in Pushers}
    BY <1>1 DEF InRedis
<1>2. CASE r \notin DOMAIN cache \cup {push[q].at : q \in Pushers}
  <2>1. Execing(r) = {} /\ Known(r) = {}
      BY <1>2 DEF Execing, Known
  <2>2. Size(r) = 0
      BY <2>1, FS_EmptySet DEF Size
  <2>3. 0 <= Own.perResource * Cardinality(Pushers)
    <3>1. \A P, N \in Nat : 0 <= P * N
        OBVIOUS
    <3> QED BY <3>1, Numbers
  <2> QED BY <2>1, <2>2, <2>3 DEF Pipelines
<1> QED BY <1>1, <1>2

(* Nobody comes to a resource or leaves it, and it stays as it is. *)
LEMMA SharesKept ==
  ASSUME NEW r, Pipelines(r), Own' = Own, Execing(r)' = Execing(r), Size(r)' = Size(r),
         \A q \in Execing(r) : push'[q].fresh = push[q].fresh
  PROVE  Pipelines(r)'
PROOF
<1>1. Share(Cardinality(Execing(r)))' = Share(Cardinality(Execing(r)))
    BY DEF Share
<1>2. \A q \in Execing(r) : Cardinality(push[q].fresh) <= Own.perResource
    BY DEF Pipelines
<1>3. Execing(r) = {} => Size(r) <= Own.perResource * Cardinality(Pushers)
    BY DEF Pipelines
<1>4. Execing(r) # {} => \E q \in Execing(r) :
            Size(r) + Cardinality(push[q].fresh) <= Share(Cardinality(Execing(r)))
    BY DEF Pipelines
<1> QED BY <1>1, <1>2, <1>3, <1>4 DEF Pipelines

(* One leaves, and has added its attributes or not. *)
LEMMA SharesLeft ==
  ASSUME Shape, Finite, NEW r, Pipelines(r), Own' = Own, NEW p \in Execing(r),
         Execing(r)' = Execing(r) \ {p},
         \A q \in Execing(r)' : push'[q].fresh = push[q].fresh,
         Size(r)' \in Nat, Size(r)' <= Size(r) + Cardinality(push[p].fresh)
  PROVE  Pipelines(r)'
PROOF
<1> DEFINE n == Cardinality(Execing(r))
<1>1. PICK q \in Execing(r) : Size(r) + Cardinality(push[q].fresh) <= Share(n)
    BY DEF Pipelines
<1>2. n \in Nat /\ n >= 1 /\ n <= Cardinality(Pushers) /\ Cardinality(Execing(r)') = n - 1
  <2>1. IsFiniteSet(Execing(r)) /\ n \in Nat /\ n <= Cardinality(Pushers)
      BY Numbers
  <2>2. Cardinality(Execing(r) \ {p}) = n - 1
      BY <2>1, FS_RemoveElement
  <2>3. n # 0
      BY <2>1, FS_EmptySet
  <2> QED BY <2>1, <2>2, <2>3
<1>3. /\ Share(n) \in Nat /\ Share(n - 1) = Share(n) + Own.perResource
      /\ Share(1) = Own.perResource * Cardinality(Pushers)
    BY <1>2, ShareIs
<1>4. \A s \in Execing(r) : /\ Cardinality(push[s].fresh) \in Nat
                            /\ Cardinality(push[s].fresh) <= Own.perResource
    BY Numbers DEF Pipelines, Execing
<1>5. \A s \in Execing(r)' : Cardinality(push'[s].fresh) <= Own.perResource'
    BY <1>4
<1>6. CASE Execing(r)' = {}
  <2>1. q = p /\ n = 1
    <3>1. q = p
        BY <1>6
    <3>2. Cardinality(Execing(r)') = 0
        BY <1>6, FS_EmptySet
    <3> QED BY <1>2, <3>1, <3>2
  <2>2. Size(r)' <= Own.perResource * Cardinality(Pushers)
      BY <1>1, <1>3, <1>4, <2>1, Numbers
  <2> QED BY <1>5, <1>6, <2>2 DEF Pipelines
<1>7. CASE Execing(r)' # {}
  <2>1. \E s \in Execing(r)' : Size(r)' + Cardinality(push[s].fresh) <= Share(n - 1)
    <3>1. CASE q # p
      <4>1. q \in Execing(r)'
          BY <3>1
      <4>2. Size(r)' + Cardinality(push[q].fresh) <= Share(n - 1)
          BY <1>1, <1>3, <1>4, Numbers
      <4> QED BY <4>1, <4>2
    <3>2. CASE q = p
      <4>1. PICK s \in Execing(r)' : TRUE
          BY <1>7
      <4>2. s \in Execing(r)
          OBVIOUS
      <4>3. Size(r)' + Cardinality(push[s].fresh) <= Share(n - 1)
          BY <1>1, <1>3, <1>4, <3>2, <4>2, Numbers
      <4> QED BY <4>1, <4>3
    <3> QED BY <3>1, <3>2
  <2>2. Share(Cardinality(Execing(r)))' = Share(n - 1)
      BY <1>2 DEF Share
  <2>3. \E s \in Execing(r)' :
          Size(r)' + Cardinality(push'[s].fresh) <= Share(Cardinality(Execing(r)))'
      BY <2>1, <2>2
  <2> QED BY <1>5, <1>7, <2>3 DEF Pipelines
<1> QED BY <1>6, <1>7

(* One comes, having found room. *)
LEMMA SharesTaken ==
  ASSUME Shape, Finite, NEW r, Pipelines(r), Own' = Own,
         NEW p \in Pushers, p \notin Execing(r), push[p].at = r, ~TooMany(p),
         Execing(r)' = Execing(r) \cup {p}, Size(r)' = Size(r),
         \A q \in Execing(r)' : push'[q].fresh = push[q].fresh
  PROVE  Pipelines(r)'
PROOF
<1> DEFINE n == Cardinality(Execing(r))
<1>1. n \in Nat /\ Cardinality(Execing(r)') = n + 1
    BY Numbers, FS_AddElement
<1>2. n + 1 <= Cardinality(Pushers)
  <2>1. Execing(r)' \in SUBSET Pushers
      BY DEF Execing
  <2> QED BY <1>1, <2>1, Numbers, FS_Subset
<1>3. Share(n + 1) \in Nat /\ Own.perResource <= Share(n + 1)
    BY <1>1, <1>2, ShareIs
<1>4. Size(r)' + Cardinality(push'[p].fresh) <= Share(n + 1)
    BY <1>3, FitsIn, Numbers
<1>5. Share(Cardinality(Execing(r)))' = Share(n + 1)
    BY <1>1 DEF Share
<1>6. \A q \in Execing(r)' : Cardinality(push'[q].fresh) <= Own.perResource'
    BY FitsIn DEF Pipelines
<1>7. /\ Execing(r)' # {}
      /\ \E q \in Execing(r)' :
           Size(r)' + Cardinality(push'[q].fresh) <= Share(Cardinality(Execing(r)))'
    BY <1>4, <1>5
<1> QED BY <1>6, <1>7 DEF Pipelines

(* In Redis the shares stay. *)
LEMMA InRedisStep ==
  ASSUME Shape, Finite, Modes, InRedis, Kinds
  PROVE  InRedis'
PROOF
<1> SUFFICES ASSUME deployment.redis, NEW r PROVE Pipelines(r)'
    BY DEF Kinds, InRedis
<1>0. deployment' = deployment /\ Own' = Own
    BY DEF Kinds, Own, Signal
<1>a. Pipelines(r)
    BY Everywhere
<1>1. CASE Forgets
  <2>1. Execing(r)' = {} /\ Known(r)' = {}
      BY <1>1 DEF Forgets, Leaves, Execing, Known
  <2>2. Size(r)' = 0
      BY <2>1, FS_EmptySet DEF Size
  <2>3. 0 <= Own.perResource * Cardinality(Pushers)
      BY <1>a, TotalShare, Numbers, ShareIs
  <2> QED BY <1>0, <2>1, <2>2, <2>3 DEF Pipelines
<1>2. CASE Restarts
  <2>1. Execing(r)' = {} /\ (Size(r)' = Size(r) \/ Known(r)' = {})
      BY <1>2 DEF Restarts, NoPush, Leaves, Execing, Known, Size
  <2>2. Size(r)' = Size(r) \/ Size(r)' = 0
      BY <2>1, FS_EmptySet DEF Size
  <2>3. /\ Size(r) <= Own.perResource * Cardinality(Pushers)
        /\ 0 <= Own.perResource * Cardinality(Pushers)
      BY <1>a, TotalShare, Numbers, ShareIs
  <2> QED BY <1>0, <2>1, <2>2, <2>3 DEF Pipelines
<1>3. CASE Rests
  <2>1. /\ Execing(r)' = Execing(r) /\ Size(r)' = Size(r)
        /\ \A q \in Execing(r) : push'[q].fresh = push[q].fresh
      BY <1>3 DEF Rests, stored, Execing, Size, Known
  <2> QED BY <1>0, <1>a, <2>1, SharesKept
<1>4. ASSUME NEW p \in Pushers, Quits(p) PROVE Pipelines(r)'
  <2>1. /\ Execing(r)' = Execing(r) /\ Size(r)' = Size(r)
        /\ \A q \in Execing(r) : push'[q].fresh = push[q].fresh
      BY <1>4 DEF Quits, Moves, Effect, Alone, stored, Before, Execing, Size, Known
  <2> QED BY <1>0, <1>a, <2>1, SharesKept
<1>5. ASSUME NEW p \in Pushers, Walks(p) PROVE Pipelines(r)'
  <2>1. /\ Execing(r)' = Execing(r) /\ Size(r)' = Size(r)
        /\ \A q \in Execing(r) : push'[q].fresh = push[q].fresh
      BY <1>5 DEF Walks, Moves, Effect, Alone, stored, Before, Execing, Size, Known
  <2> QED BY <1>0, <1>a, <2>1, SharesKept
<1>6. ASSUME NEW p \in Pushers, Appends(p) PROVE Pipelines(r)'
  <2>1. /\ Execing(r)' = Execing(r) /\ Size(r)' = Size(r)
        /\ \A q \in Execing(r) : push'[q].fresh = push[q].fresh
      BY <1>6 DEF Appends, Moves, Effect, Alone, stored, Before, Execing, Size, Known
  <2> QED BY <1>0, <1>a, <2>1, SharesKept
<1>7. ASSUME NEW p \in Pushers, Turns(p) PROVE Pipelines(r)'
  <2>1. /\ UNCHANGED cache /\ Alone(p) /\ push'[p].at = push[p].at
        /\ push'[p].fresh = push[p].fresh
      BY <1>7 DEF Turns, Moves, Effect, stored
  <2>2. Size(r)' = Size(r)
      BY <2>1 DEF Size, Known
  <2>3. CASE p \in Execing(r) /\ push'[p].pc # "exec"
    <3>1. Execing(r)' = Execing(r) \ {p}
        BY <2>1, <2>3 DEF Execing, Alone
    <3>2. \A q \in Execing(r)' : push'[q].fresh = push[q].fresh
        BY <2>1, <3>1 DEF Execing, Alone
    <3>3. Size(r)' \in Nat /\ Size(r)' <= Size(r) + Cardinality(push[p].fresh)
        BY <2>2, Numbers
    <3> QED BY <1>0, <1>a, <2>3, <3>1, <3>2, <3>3, SharesLeft
  <2>4. CASE push[p].pc = "card" /\ push[p].at = r /\ ~TooMany(p) /\ push'[p].pc = "exec"
    <3>1. Execing(r)' = Execing(r) \cup {p} /\ p \notin Execing(r)
        BY <2>1, <2>4 DEF Execing, Alone
    <3>2. \A q \in Execing(r)' : push'[q].fresh = push[q].fresh
        BY <2>1, <3>1 DEF Execing, Alone
    <3> QED BY <1>0, <1>a, <2>2, <2>4, <3>1, <3>2, SharesTaken
  <2>5. CASE (push'[p].pc # "exec" /\ p \notin Execing(r)) \/ push[p].at # r
    <3>1. Execing(r)' = Execing(r)
        BY <2>1, <2>5 DEF Execing, Alone
    <3>2. \A q \in Execing(r) : push'[q].fresh = push[q].fresh
        BY <2>1 DEF Execing, Alone
    <3> QED BY <1>0, <1>a, <2>2, <3>1, <3>2, SharesKept
  <2>6. push'[p].pc # "exec" \/ (push[p].pc = "card" /\ ~TooMany(p) /\ push'[p].pc = "exec")
      BY <1>7 DEF Turns, Moves, Effect
  <2> QED BY <2>3, <2>4, <2>5, <2>6
<1>8. ASSUME NEW p \in Pushers, Makes(p) PROVE Pipelines(r)'
    BY <1>8 DEF Makes, Modes
<1>9. ASSUME NEW p \in Pushers, Fills(p) PROVE Pipelines(r)'
  <2>1. /\ push[p].pc = "exec" /\ Alone(p) /\ push'[p].pc = "group"
        /\ \/ Sets(push[p].at, push[p].fresh \cup Known(push[p].at))
           \/ Sets(push[p].at, Known(push[p].at))
      BY <1>9 DEF Fills, Modes, Moves, Effect
  <2>2. CASE push[p].at = r
    <3>1. p \in Execing(r) /\ Execing(r)' = Execing(r) \ {p}
        BY <2>1, <2>2 DEF Execing, Alone
    <3>2. \A q \in Execing(r)' : push'[q].fresh = push[q].fresh
        BY <2>1, <3>1 DEF Execing, Alone
    <3>3. \/ Known(r)' = push[p].fresh \cup Known(push[p].at)
          \/ Known(r)' = Known(push[p].at)
        BY <2>1, <2>2 DEF Sets, Known
    <3>4. Size(r)' \in Nat /\ Size(r)' <= Size(r) + Cardinality(push[p].fresh)
        BY <2>2, <3>3, UnionSize, Numbers DEF Size
    <3> QED BY <1>0, <1>a, <3>1, <3>2, <3>4, SharesLeft
  <2>3. CASE push[p].at # r
    <3>1. Execing(r)' = Execing(r) /\ \A q \in Execing(r) : push'[q].fresh = push[q].fresh
        BY <2>1, <2>3 DEF Execing, Alone
    <3>2. Size(r)' = Size(r)
        BY <2>1, <2>3 DEF Sets, Size, Known
    <3> QED BY <1>0, <1>a, <3>1, <3>2, SharesKept
  <2> QED BY <2>2, <2>3
<1>10. ASSUME NEW p \in Pushers, Finishes(p) PROVE Pipelines(r)'
  <2>1. /\ Execing(r)' = Execing(r) /\ Size(r)' = Size(r)
        /\ \A q \in Execing(r) : push'[q].fresh = push[q].fresh
      BY <1>10 DEF Finishes, Moves, Effect, Alone, stored, Before, Execing, Size, Known
  <2> QED BY <1>0, <1>a, <2>1, SharesKept
<1> QED BY <1>1, <1>2, <1>3, <1>4, <1>5, <1>6, <1>7, <1>8, <1>9, <1>10 DEF Kinds

-----------------------------------------------------------------------------
(* The initial states satisfy the invariant. *)
LEMMA InitInv == Init => IInv
PROOF
<1> SUFFICES ASSUME Init PROVE IInv
    OBVIOUS
<1>1. /\ deployment \in Deployments /\ cache = <<>> /\ table = {} /\ lost = {}
      /\ push = [p \in Pushers |-> NoPush]
    BY DEF Init
<1>2. DOMAIN cache = {}
    BY <1>1
<1>3. /\ Fields(NoPush) /\ NoPush.pc = "idle" /\ NoPush.fresh = {} /\ NoPush.stmt = {}
      /\ NoPush.records = <<>>
    BY DEF NoPush, Fields, Record
<1>4. Shape
    BY <1>1, <1>3 DEF Shape, Places, Before
<1>5. Finite
    BY <1>1, <1>2, <1>3, NoRecords DEF Finite
<1>6. Modes /\ Prepared /\ Stored /\ InMemory
    BY <1>1, <1>2, <1>3 DEF Modes, Prepared, Stored, InMemory, Before, Adding
<1>7. Room
  <2>1. Entering = {}
      BY <1>1, <1>3 DEF Entering
  <2>2. Cardinality(DOMAIN cache) = 0 /\ Cardinality(Entering) = 0
      BY <1>2, <2>1, FS_EmptySet
  <2> QED BY <1>4, <1>5, <2>2, Numbers DEF Room
<1>8. InRedis
  <2> SUFFICES ASSUME NEW r PROVE Pipelines(r)
      BY DEF InRedis
  <2>1. Execing(r) = {} /\ Known(r) = {}
      BY <1>1, <1>2, <1>3 DEF Execing, Known
  <2>2. Size(r) = 0
      BY <2>1, FS_EmptySet DEF Size
  <2>3. 0 <= Own.perResource * Cardinality(Pushers)
    <3>1. \A P, N \in Nat : 0 <= P * N
        OBVIOUS
    <3> QED BY <1>4, <1>5, <3>1, Numbers
  <2> QED BY <2>1, <2>2, <2>3 DEF Pipelines
<1> QED BY <1>4, <1>5, <1>6, <1>7, <1>8 DEF IInv

(* Every step keeps it. *)
LEMMA StepInv == IInv /\ [Next]_vars => IInv'
PROOF
<1> SUFFICES ASSUME IInv, [Next]_vars PROVE IInv'
    OBVIOUS
<1>1. Kinds
    BY StepIs DEF IInv, Finite
<1> QED BY <1>1, ShapeStep, ModesStep, PreparedStep, StoredStep, FiniteStep, RoomStep,
           InMemoryStep, InRedisStep DEF IInv

(* The invariant holds in every reachable state. *)
THEOREM Invariant == Spec => []IInv
PROOF
  BY InitInv, StepInv, PTL DEF Spec

(* Whatever is in the cache, in memory or in Redis, is stored, in the      *)
(* statement of a push under way, or in a statement that was lost: no      *)
(* early return, limit, expiry or failing call of the cache leaves a       *)
(* fingerprint that is taken for stored without its row.                   *)
THEOREM CacheIsHonest == Spec => []CachedIsStored
PROOF
<1>1. IInv => CachedIsStored
  <2> SUFFICES ASSUME IInv, NEW r \in DOMAIN cache, NEW a \in cache[r]
               PROVE  \E row \in table \cup lost \cup UNION {push[p].stmt : p \in Pushers} :
                        row.resource = r /\ row.fprint = a
      BY DEF CachedIsStored
  <2>1. StoredAt(r, a)
      BY DEF IInv, Stored
  <2> QED BY <2>1 DEF StoredAt, HasRow
<1> QED BY <1>1, Invariant, PTL

(* The cache keeps its limits, for any number of consumers and any limits: *)
(* at most one resource too many for every consumer but one, in memory no  *)
(* attribute too many, and in Redis for a resource at most what all the    *)
(* consumers may fill alone.                                               *)
THEOREM CacheStaysBounded == Spec => []CacheBounded
PROOF
<1>1. IInv => CacheBounded
  <2> SUFFICES ASSUME IInv PROVE CacheBounded
      OBVIOUS
  <2>0. Shape /\ Finite /\ Room /\ InMemory /\ InRedis
      BY DEF IInv
  <2>1. Cardinality(DOMAIN cache) < Own.resources + Cardinality(Pushers)
      BY <2>0, Numbers DEF Room
  <2>2. ASSUME NEW r \in DOMAIN cache, deployment.redis
        PROVE  Cardinality(cache[r]) <= Own.perResource * Cardinality(Pushers)
    <3>1. Cardinality(cache[r]) = Size(r)
        BY DEF Size, Known
    <3> QED BY <2>0, <2>2, <3>1, Everywhere, TotalShare
  <2>3. ASSUME NEW r \in DOMAIN cache, ~deployment.redis
        PROVE  Cardinality(cache[r]) <= Own.perResource * 1
      BY <2>0, <2>3, Numbers DEF InMemory
  <2> QED BY <2>1, <2>2, <2>3 DEF CacheBounded
<1> QED BY <1>1, Invariant, PTL
===============================================================================
