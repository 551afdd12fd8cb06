----------------------------- MODULE ModelCache -----------------------------
(***************************************************************************)
(* The path of a model between MySQL, the per-request identity map and     *)
(* Redis: lib/db/manager/manager.go (ModelManager) driven by               *)
(* lib/db/client.go (Client).  Each process is one request.  Every SQL     *)
(* statement and every Redis command is one atomic step; the Go code       *)
(* between two of them is local to the request and is folded into the      *)
(* step it follows.  MySQL is external: row locks are exclusive, a lock on *)
(* a missing row is a lock on the gap it lies in, which several            *)
(* transactions may hold but which keeps the others from inserting, and    *)
(* plain reads of a transaction come from the snapshot its first plain     *)
(* read takes (REPEATABLE READ).                                           *)
(*                                                                         *)
(* A row image is abstracted to the number of the WriteAll that produced   *)
(* it, so two images of a key are equal only if the same WriteAll wrote    *)
(* them.  Absent stands for a missing row and for a missing Redis entry    *)
(* (the code never caches that a row is missing).                          *)
(***************************************************************************)
EXTENDS Integers, FiniteSetsExt

CONSTANTS
    Procs,        \* the concurrent requests
    Keys,         \* primary keys; their order is WriteAll's sort order
    MaxVersion,   \* bound on the number of row images
    InitialRows,  \* the images a row may have at the start
    Allowed       \* operations and events of the run, a subset of Events

Kinds  == {"save", "insert", "update"}
Events == Kinds \cup {"delete", "get", "txGet", "forUpdate", "create",
                      "bareForUpdate", "rewrite", "rollback", "fault",
                      "expiry"}

Absent == 0
None   == -1
Row    == 0 .. MaxVersion
MaybeRow == Row \cup {None}

ASSUME ConstantsAssumption ==
    /\ Keys \subseteq Nat /\ Keys # {}
    /\ MaxVersion \in Nat \ {0}
    /\ InitialRows \subseteq {Absent, 1}
    /\ Allowed \subseteq Events

VARIABLES
    committed,    \* MySQL: the committed image of each row
    locks,        \* MySQL: the transactions holding a lock on each key
    lastVersion,  \* the last row image handed out
    installed,    \* history: the images that were ever committed
    redis,        \* Redis: the cached image of each key
    ttl,          \* Redis: "none", or "new"/"old" for an entry that expires
    tx,           \* Client.transaction # nil and not yet committed
    snap,         \* MySQL: the transaction's snapshot, None before it exists
    own,          \* MySQL: the transaction's uncommitted images
    store,        \* ModelCacheStore: the image each model was loaded from
    locked,       \* the stored models whose IsForUpdate is set
    plan,         \* reservedSaveInfos and reservedDelModels, by kind
    base,         \* the image the reserved model was loaded from
    pc, cur,      \* the next external command and the key it is about
    todo,         \* the keys WriteAll has still to write
    image,        \* the image the last WriteAll writes, Absent before it
    saved, updated, deleted,  \* savedModels, updatedModels, deletedModels
    delCache      \* delCacheModels

dbVars    == <<committed, locks, lastVersion, installed>>
redisVars == <<redis, ttl>>
txVars    == <<tx, snap, own>>
storeVars == <<store, locked>>
planVars  == <<plan, base>>
writeVars == <<todo, image, saved, updated, deleted, delCache>>
vars == <<dbVars, redisVars, txVars, storeVars, planVars, pc, cur, writeVars>>

NoRows == [k \in Keys |-> None]
NoPlan == [k \in Keys |-> "none"]

\* What transaction p sees with a locking read: its own write, else the
\* committed row.
Latest(p, k) == IF own[p][k] # None THEN own[p][k] ELSE committed[k]

\* What a plain SELECT of p returns, taking the snapshot if p has none.
Visible(p, k) == IF own[p][k] # None THEN own[p][k]
                 ELSE IF snap[p][k] # None THEN snap[p][k]
                 ELSE committed[k]

\* There is no row, not even one that a transaction has still to commit.
Missing(k) == committed[k] = Absent /\ \A q \in Procs : own[q][k] = None

\* What a lock on k covers.  The gap around a missing row may hold any of the
\* other missing ones: the rows that part them are not all in Keys.
Gaps(k) == IF Missing(k)
           THEN {{k} \cup others : others \in SUBSET {j \in Keys : Missing(j)}}
           ELSE {{k}}

TakeLocks(p, covered) ==
    locks' = [j \in Keys |-> IF j \in covered THEN locks[j] \cup {p} ELSE locks[j]]

\* InnoDB lets p insert k: nobody else has a lock on the row or its gap.
Exclusive(p, k) == locks[k] \subseteq {p}

\* InnoDB grants p a lock on k; gap locks do not conflict.
Lockable(p, k) ==
    \/ Exclusive(p, k)
    \/ committed[k] = Absent /\ \A q \in Procs \ {p} : own[q][k] = None

\* The statement WriteAll is at is an INSERT: db.Create, or the second half of
\* a db.Save whose UPDATE has found no row and left its gap locked.
Inserts(p, k) ==
    \/ plan[p][k] = "insert"
    \/ plan[p][k] = "save" /\ Latest(p, k) = Absent /\ p \in locks[k]

CanWrite(p, k) == IF Inserts(p, k) THEN Exclusive(p, k) ELSE Lockable(p, k)

Reserved(p) == {k \in Keys : plan[p][k] # "none"}

Goto(p, step) == pc' = [pc EXCEPT ![p] = step]

\* A Redis SET: the new value carries no time to live.
SetEntry(k, v) == /\ redis' = [redis EXCEPT ![k] = v]
                  /\ ttl' = [ttl EXCEPT ![k] = "none"]

\* A Redis SETNX.
SetNxEntry(k, v) == IF redis[k] = Absent THEN SetEntry(k, v)
                    ELSE UNCHANGED redisVars

\* Mutant: DEL gets the first key only.
DelFirstEntry(S) ==
    /\ redis' = [k \in Keys |-> IF k \in S /\ k = Min(S) THEN Absent ELSE redis[k]]
    /\ ttl' = [k \in Keys |-> IF k \in S /\ k = Min(S) THEN "none" ELSE ttl[k]]

\* A Redis DEL of several keys.
DelEntries(S) ==
    /\ redis' = [k \in Keys |-> IF k \in S THEN Absent ELSE redis[k]]
    /\ ttl' = [k \in Keys |-> IF k \in S THEN "none" ELSE ttl[k]]

\* Mutant: the EXPIRE is forgotten.
NoExpireEntry(k) == k \in Keys /\ UNCHANGED redisVars

\* EXPIRE on an entry that may be gone by now.
ExpireEntry(k) == /\ ttl' = [ttl EXCEPT ![k] = IF redis[k] # Absent
                                               THEN "new" ELSE "none"]
                  /\ UNCHANGED redis

\* The identity map has a model of the key, or takes one.
Held(p, k) == store[p][k] # None
Keep(p, k, v) == store' = [store EXCEPT ![p][k] = v]

\* Mutant: Client keeps its ModelManager.
SameManager(p) == UNCHANGED <<storeVars, planVars, writeVars>>

\* A new ModelManager: identity map, reservations and delCacheModels empty.
FreshManager(p) ==
    /\ store' = [store EXCEPT ![p] = NoRows]
    /\ locked' = [locked EXCEPT ![p] = {}]
    /\ plan' = [plan EXCEPT ![p] = NoPlan]
    /\ base' = [base EXCEPT ![p] = NoRows]
    /\ todo' = [todo EXCEPT ![p] = {}]
    /\ saved' = [saved EXCEPT ![p] = {}]
    /\ updated' = [updated EXCEPT ![p] = {}]
    /\ deleted' = [deleted EXCEPT ![p] = {}]
    /\ delCache' = [delCache EXCEPT ![p] = {}]
    /\ image' = [image EXCEPT ![p] = Absent]

\* The database side of COMMIT and ROLLBACK.
EndTransaction(p) ==
    /\ tx' = [tx EXCEPT ![p] = FALSE]
    /\ snap' = [snap EXCEPT ![p] = NoRows]
    /\ own' = [own EXCEPT ![p] = NoRows]
    /\ locks' = [k \in Keys |-> locks[k] \ {p}]

Init ==
    /\ committed \in [Keys -> InitialRows]
    /\ locks = [k \in Keys |-> {}]
    /\ lastVersion = 1
    /\ installed = {1}
    /\ redis = [k \in Keys |-> Absent]
    /\ ttl = [k \in Keys |-> "none"]
    /\ tx = [p \in Procs |-> FALSE]
    /\ snap = [p \in Procs |-> NoRows]
    /\ own = [p \in Procs |-> NoRows]
    /\ store = [p \in Procs |-> NoRows]
    /\ locked = [p \in Procs |-> {}]
    /\ plan = [p \in Procs |-> NoPlan]
    /\ base = [p \in Procs |-> NoRows]
    /\ pc = [p \in Procs |-> "app"]
    /\ cur = [p \in Procs |-> CHOOSE k \in Keys : TRUE]
    /\ todo = [p \in Procs |-> {}]
    /\ image = [p \in Procs |-> Absent]
    /\ saved = [p \in Procs |-> {}]
    /\ updated = [p \in Procs |-> {}]
    /\ deleted = [p \in Procs |-> {}]
    /\ delCache = [p \in Procs |-> {}]

\* Without "rewrite" nothing follows WriteAll but the end of the transaction.
Ready(p) == pc[p] = "app" /\ ("rewrite" \in Allowed \/ image[p] = Absent)

-----------------------------------------------------------------------------
(* Client: the life of a transaction                                       *)

\* StartTransaction discards the manager used so far, and with it every
\* model read outside the transaction.
StartTransaction(p) ==
    /\ pc[p] = "app" /\ ~tx[p]
    /\ tx' = [tx EXCEPT ![p] = TRUE]
    /\ FreshManager(p)
    /\ UNCHANGED <<dbVars, redisVars, snap, own, pc, cur>>

\* A handler without a transaction returns; its manager goes with it.
EndRequest(p) ==
    /\ pc[p] \in {"app", "failed"} /\ ~tx[p]
    /\ Goto(p, "app")
    /\ FreshManager(p)
    /\ UNCHANGED <<dbVars, redisVars, txVars, cur>>

\* CommitTransaction up to the answer of MySQL; WriteEnd is the next step.
Commit(p) ==
    /\ pc[p] = "app" /\ tx[p]
    /\ committed' = [k \in Keys |-> Latest(p, k)]
    /\ installed' = installed \cup {Latest(p, k) : k \in Keys}
    /\ EndTransaction(p)
    /\ Goto(p, "writeEnd")
    /\ UNCHANGED <<redisVars, lastVersion, storeVars, planVars, cur, writeVars>>

\* WriteEnd deletes what WriteAll collected; its error is ignored.
WriteEnd(p) ==
    /\ pc[p] = "writeEnd"
    /\ DelEntries(delCache[p])
    /\ FreshManager(p)
    /\ Goto(p, "app")
    /\ UNCHANGED <<dbVars, txVars, cur>>

\* RollbackTransaction, called by the application, by a failed COMMIT, or by
\* Terminate after a failed operation.  Redis is left as it is.
Rollback(p) ==
    /\ pc[p] = "failed" \/ (pc[p] = "app" /\ "rollback" \in Allowed)
    /\ tx[p]
    /\ EndTransaction(p)
    /\ FreshManager(p)
    /\ Goto(p, "app")
    /\ UNCHANGED <<committed, lastVersion, installed, redisVars, cur>>

\* A panic, the death of the process or a failed Redis command between two
\* steps of an operation: the transaction is rolled back, what was still to be
\* sent to Redis is not.  After COMMIT only WriteEnd's DEL is lost; so it is
\* when MySQL commits and its answer does not arrive.
Fault(p) ==
    /\ "fault" \in Allowed
    /\ pc[p] \notin {"app", "failed"}
    /\ EndTransaction(p)
    /\ FreshManager(p)
    /\ Goto(p, "app")
    /\ UNCHANGED <<committed, lastVersion, installed, redisVars, cur>>

-----------------------------------------------------------------------------
(* Reading: getModels                                                      *)

\* Mutant: a writable manager reads Redis too.
AlwaysReadsRedis(p) == p \in Procs

\* A writable manager, one made in a transaction, goes past Redis.
ReadsRedis(p) == ~tx[p]

\* A plain read looks in Redis first.
Get(p, k) ==
    /\ "get" \in Allowed
    /\ Ready(p) /\ ReadsRedis(p) /\ ~Held(p, k)
    /\ IF redis[k] # Absent
       THEN Keep(p, k, redis[k]) /\ UNCHANGED <<pc, cur>>
       ELSE /\ Goto(p, "select")
            /\ cur' = [cur EXCEPT ![p] = k]
            /\ UNCHANGED store
    /\ UNCHANGED <<dbVars, redisVars, txVars, locked, planVars, writeVars>>

\* A plain read in a transaction goes to MySQL.
TxGet(p, k) ==
    /\ "txGet" \in Allowed
    /\ Ready(p) /\ ~ReadsRedis(p) /\ ~Held(p, k)
    /\ Goto(p, "select")
    /\ cur' = [cur EXCEPT ![p] = k]
    /\ UNCHANGED <<dbVars, redisVars, txVars, storeVars, planVars, writeVars>>

\* Mutant: a reserved model is read again like any other.
NeverDangerous(p, k) == p \notin Procs

\* A model held without its lock that is reserved for saving: the image about
\* to be written predates the lock.
Dangerous(p, k) == Held(p, k) /\ plan[p][k] \in Kinds

\* A model already held with its lock is returned from the identity map.  One
\* held without is read again, unless that is dangerous: then the call fails.
GetForUpdate(p, k) ==
    /\ "forUpdate" \in Allowed
    /\ tx[p] \/ "bareForUpdate" \in Allowed
    /\ Ready(p) /\ k \notin locked[p]
    /\ Goto(p, IF Dangerous(p, k) THEN "failed" ELSE "lock")
    /\ cur' = [cur EXCEPT ![p] = k]
    /\ UNCHANGED <<dbVars, redisVars, txVars, storeVars, planVars, writeVars>>

\* The plain SELECT.  A row that is found enters the identity map and is then
\* offered to Redis.
Select(p) ==
    LET k == cur[p]
        v == Visible(p, k)
    IN /\ pc[p] = "select"
       /\ snap' = IF tx[p] /\ snap[p] = NoRows
                  THEN [snap EXCEPT ![p] = committed] ELSE snap
       /\ IF v = Absent THEN UNCHANGED store ELSE Keep(p, k, v)
       /\ Goto(p, IF v = Absent THEN "app" ELSE "fill")
       /\ UNCHANGED <<dbVars, redisVars, tx, own, locked, planVars, cur,
                      writeVars>>

\* SELECT ... FOR UPDATE.  Outside a transaction the lock ends with the
\* statement.  GetModelForUpdateWithCreate puts a new model, marked as locked,
\* in the place of a missing row.
SelectForUpdate(p) ==
    LET k == cur[p]
        v == Latest(p, k)
        found == v # Absent
    IN /\ pc[p] = "lock"
       /\ Lockable(p, k)
       /\ IF tx[p] THEN \E gap \in Gaps(k) : TakeLocks(p, gap)
                   ELSE UNCHANGED locks
       /\ \/ /\ found \/ "create" \in Allowed
             /\ Keep(p, k, v)
             /\ locked' = [locked EXCEPT ![p] = @ \cup {k}]
          \/ ~found /\ UNCHANGED storeVars
       /\ Goto(p, IF found THEN "fill" ELSE "app")
       /\ UNCHANGED <<committed, lastVersion, installed, redisVars, txVars,
                      planVars, cur, writeVars>>

\* InnoDB ends a wait by its timeout or because it found a deadlock; the
\* operation fails.
LockWaitEnds(p) ==
    /\ \/ pc[p] = "lock" /\ ~Lockable(p, cur[p])
       \/ pc[p] = "write" /\ ~CanWrite(p, Min(todo[p]))
    /\ Goto(p, "failed")
    /\ UNCHANGED <<dbVars, redisVars, txVars, storeVars, planVars, cur,
                   writeVars>>

\* Mutant: what was read always replaces the entry.
AlwaysOverwrites(p, k) == p \in Procs

\* SaveModelsToCache's argument update: set for a locked read.
Overwrites(p, k) == k \in locked[p]

\* SaveModelsToCache for one model just read: SET for a locked read, SETNX for
\* a plain one.
Fill(p) ==
    LET k == cur[p]
    IN /\ pc[p] = "fill"
       /\ IF Overwrites(p, k) THEN SetEntry(k, store[p][k])
                              ELSE SetNxEntry(k, store[p][k])
       /\ Goto(p, "expire")
       /\ UNCHANGED <<dbVars, txVars, storeVars, planVars, cur, writeVars>>

\* The EXPIRE that follows, whether or not SETNX stored anything.
FillExpire(p) ==
    /\ pc[p] = "expire"
    /\ ExpireEntry(cur[p])
    /\ Goto(p, "app")
    /\ UNCHANGED <<dbVars, txVars, storeVars, planVars, cur, writeVars>>

-----------------------------------------------------------------------------
(* Writing: SetSave, SetForceDelete and WriteAll                           *)

\* The kind of a reservation made twice: ForceInsert stays, and a save of all
\* fields absorbs a save of some.
Merged(old, new) ==
    IF old = "none" THEN new
    ELSE IF "insert" \in {old, new} THEN "insert"
    ELSE IF "save" \in {old, new} THEN "save"
    ELSE "update"

\* SetSave refuses a key reserved for deletion.
SetSave(p, k, kind) ==
    /\ kind \in Allowed
    /\ Ready(p) /\ tx[p] /\ plan[p][k] # "delete"
    /\ plan' = [plan EXCEPT ![p][k] = Merged(@, kind)]
    /\ base' = [base EXCEPT ![p][k] = store[p][k]]
    /\ UNCHANGED <<dbVars, redisVars, txVars, storeVars, pc, cur, writeVars>>

\* SetForceDelete replaces a save reservation; SetDelete is the case without.
SetForceDelete(p, k) ==
    /\ "delete" \in Allowed
    /\ Ready(p) /\ tx[p]
    /\ plan' = [plan EXCEPT ![p][k] = "delete"]
    /\ base' = [base EXCEPT ![p][k] = None]
    /\ UNCHANGED <<dbVars, redisVars, txVars, storeVars, pc, cur, writeVars>>

\* WriteAll is entered; it is refused outside a transaction.
WriteAll(p) ==
    /\ Ready(p) /\ tx[p] /\ Reserved(p) # {}
    /\ lastVersion < MaxVersion
    /\ lastVersion' = lastVersion + 1
    /\ image' = [image EXCEPT ![p] = lastVersion + 1]
    /\ todo' = [todo EXCEPT ![p] = Reserved(p)]
    /\ Goto(p, "write")
    /\ UNCHANGED <<committed, locks, installed, redisVars, txVars, storeVars,
                   planVars, cur, saved, updated, deleted, delCache>>

\* The end of one statement of WriteAll's loop.  After the last one the
\* reservations and the identity map are dropped.
WriteRow(p, k, v) ==
    /\ own' = [own EXCEPT ![p][k] = v]
    /\ todo' = [todo EXCEPT ![p] = @ \ {k}]
    /\ IF todo[p] = {k}
       THEN /\ plan' = [plan EXCEPT ![p] = NoPlan]
            /\ base' = [base EXCEPT ![p] = NoRows]
            /\ store' = [store EXCEPT ![p] = NoRows]
            /\ locked' = [locked EXCEPT ![p] = {}]
            /\ Goto(p, "push")
       ELSE UNCHANGED <<planVars, storeVars, pc>>
    /\ UNCHANGED <<committed, lastVersion, installed, redisVars, tx, snap,
                   cur, image, delCache>>

\* Mutant: the keys are not sorted.
AtAnyRow(p, k) == pc[p] = "write" /\ k \in todo[p] /\ CanWrite(p, k)

\* The rows are written in the order of the sorted keys.
AtRow(p, k) == /\ pc[p] = "write" /\ k \in todo[p] /\ k = Min(todo[p])
               /\ CanWrite(p, k)

\* db.Create: fails on an existing row, and leaves Redis alone.
WriteInsert(p, k) ==
    /\ AtRow(p, k) /\ plan[p][k] = "insert" /\ Latest(p, k) = Absent
    /\ TakeLocks(p, {k}) /\ WriteRow(p, k, image[p])
    /\ UNCHANGED <<saved, updated, deleted>>

DuplicateEntry(p, k) ==
    /\ AtRow(p, k) /\ plan[p][k] = "insert" /\ Latest(p, k) # Absent
    /\ Goto(p, "failed")
    /\ UNCHANGED <<dbVars, redisVars, txVars, storeVars, planVars, cur,
                   writeVars>>

\* db.Save: the UPDATE finds no row.  One that meets its own gap lock there
\* changes nothing, and is no step of its own.
SaveMisses(p, k) ==
    /\ AtRow(p, k) /\ plan[p][k] = "save"
    /\ Latest(p, k) = Absent /\ p \notin locks[k]
    /\ \E gap \in Gaps(k) : TakeLocks(p, gap)
    /\ UNCHANGED <<committed, lastVersion, installed, redisVars, txVars,
                   storeVars, planVars, pc, cur, writeVars>>

\* db.Save: the UPDATE of all fields, or the INSERT ... ON DUPLICATE KEY UPDATE
\* behind an UPDATE that found no row.
WriteSave(p, k) ==
    /\ AtRow(p, k) /\ plan[p][k] = "save"
    /\ Latest(p, k) # Absent \/ p \in locks[k]
    /\ TakeLocks(p, {k}) /\ WriteRow(p, k, image[p])
    /\ saved' = [saved EXCEPT ![p] = @ \cup {k}]
    /\ UNCHANGED <<updated, deleted>>

\* db.Updates: some fields of the row, which need not exist.
WriteUpdate(p, k) ==
    /\ AtRow(p, k) /\ plan[p][k] = "update"
    /\ \E gap \in Gaps(k) : TakeLocks(p, gap)
    /\ WriteRow(p, k, IF Latest(p, k) = Absent THEN own[p][k] ELSE image[p])
    /\ updated' = [updated EXCEPT ![p] = @ \cup {k}]
    /\ UNCHANGED <<saved, deleted>>

\* db.Delete.
WriteDelete(p, k) ==
    /\ AtRow(p, k) /\ plan[p][k] = "delete"
    /\ \E gap \in Gaps(k) : TakeLocks(p, gap)
    /\ WriteRow(p, k, IF Latest(p, k) = Absent THEN own[p][k] ELSE Absent)
    /\ deleted' = [deleted EXCEPT ![p] = @ \cup {k}]
    /\ UNCHANGED <<saved, updated>>

\* Mutant: the pushed model is taken from the identity map.
StoredImage(p, k) == store[p][k]

\* The pushed model is the one that was saved.
SavedImage(p, k) == own[p][k]

\* SaveModelsToCache(savedModels, ttl, true): SET and EXPIRE model by model,
\* before the transaction commits.
PushSaved(p, k) ==
    /\ pc[p] = "push" /\ k \in saved[p] /\ k = Min(saved[p])
    /\ cur' = [cur EXCEPT ![p] = k]
    /\ SetEntry(k, SavedImage(p, k))
    /\ Goto(p, "pushExpire")
    /\ UNCHANGED <<dbVars, txVars, storeVars, planVars, writeVars>>

PushExpire(p) ==
    /\ pc[p] = "pushExpire"
    /\ ExpireEntry(cur[p])
    /\ saved' = [saved EXCEPT ![p] = @ \ {cur[p]}]
    /\ Goto(p, "push")
    /\ UNCHANGED <<dbVars, txVars, storeVars, planVars, cur, todo, image,
                   updated, deleted, delCache>>

\* DeleteModelsFromCache(updatedModels)
PurgeUpdated(p) ==
    /\ pc[p] = "push" /\ saved[p] = {}
    /\ DelEntries(updated[p])
    /\ Goto(p, "purge")
    /\ UNCHANGED <<dbVars, txVars, storeVars, planVars, cur, writeVars>>

\* Mutant: deleted models are left out of delCacheModels.
OnlyUpdated(p) == updated[p]

\* What WriteAll appends to delCacheModels.
ToInvalidate(p) == updated[p] \cup deleted[p]

\* DeleteModelsFromCache(deletedModels), and both lists are kept for WriteEnd.
PurgeDeleted(p) ==
    /\ pc[p] = "purge"
    /\ DelEntries(deleted[p])
    /\ delCache' = [delCache EXCEPT ![p] = @ \cup ToInvalidate(p)]
    /\ updated' = [updated EXCEPT ![p] = {}]
    /\ deleted' = [deleted EXCEPT ![p] = {}]
    /\ Goto(p, "app")
    /\ UNCHANGED <<dbVars, txVars, storeVars, planVars, cur, todo, image,
                   saved>>

-----------------------------------------------------------------------------
(* Redis: the 86400 seconds of CacheTTL run out                            *)

Age(k) ==
    /\ "expiry" \in Allowed /\ ttl[k] = "new"
    /\ ttl' = [ttl EXCEPT ![k] = "old"]
    /\ UNCHANGED <<dbVars, redis, txVars, storeVars, planVars, pc, cur,
                   writeVars>>

Expire(k) ==
    /\ "expiry" \in Allowed /\ ttl[k] = "old"
    /\ DelEntries({k})
    /\ UNCHANGED <<dbVars, txVars, storeVars, planVars, pc, cur, writeVars>>

-----------------------------------------------------------------------------
\* The application chooses the next operation.
Application(p) ==
    \/ StartTransaction(p) \/ EndRequest(p) \/ Commit(p) \/ Rollback(p)
    \/ WriteAll(p)
    \/ \E k \in Keys : \/ Get(p, k) \/ TxGet(p, k) \/ GetForUpdate(p, k)
                       \/ SetForceDelete(p, k)
                       \/ \E kind \in Kinds : SetSave(p, k, kind)

\* An operation under way goes on.
Continue(p) ==
    \/ Select(p) \/ SelectForUpdate(p) \/ Fill(p) \/ FillExpire(p)
    \/ \E k \in Keys : \/ WriteInsert(p, k) \/ DuplicateEntry(p, k)
                       \/ SaveMisses(p, k) \/ WriteSave(p, k)
                       \/ WriteUpdate(p, k) \/ WriteDelete(p, k)
                       \/ PushSaved(p, k)
    \/ PushExpire(p) \/ PurgeUpdated(p) \/ PurgeDeleted(p)
    \/ WriteEnd(p) \/ LockWaitEnds(p)

Next == \/ \E p \in Procs : Application(p) \/ Continue(p) \/ Fault(p)
        \/ \E k \in Keys : Age(k) \/ Expire(k)

Spec == Init /\ [][Next]_vars

\* Go runs an operation to its end, Terminate follows a failure, a handler
\* ends its transaction, and an entry that nobody touches reaches its TTL.
Fairness ==
    /\ \A p \in Procs : /\ WF_vars(Continue(p))
                        /\ WF_vars(pc[p] = "failed" /\ Rollback(p))
                        /\ WF_vars(pc[p] = "failed" /\ EndRequest(p))
                        /\ SF_vars(Commit(p) \/ Rollback(p))
    /\ \A k \in Keys : WF_vars(Age(k)) /\ WF_vars(Expire(k))

FairSpec == Spec /\ Fairness

-----------------------------------------------------------------------------
(* Properties                                                              *)

TypeOK ==
    /\ committed \in [Keys -> Row]
    /\ locks \in [Keys -> SUBSET Procs]
    /\ lastVersion \in 1 .. MaxVersion
    /\ installed \subseteq Row
    /\ redis \in [Keys -> Row]
    /\ ttl \in [Keys -> {"none", "new", "old"}]
    /\ tx \in [Procs -> BOOLEAN]
    /\ snap \in [Procs -> [Keys -> MaybeRow]]
    /\ own \in [Procs -> [Keys -> MaybeRow]]
    /\ store \in [Procs -> [Keys -> MaybeRow]]
    /\ locked \in [Procs -> SUBSET Keys]
    /\ plan \in [Procs -> [Keys -> Kinds \cup {"none", "delete"}]]
    /\ base \in [Procs -> [Keys -> MaybeRow]]
    /\ pc \in [Procs -> {"app", "select", "lock", "fill", "expire", "write",
                         "push", "pushExpire", "purge", "writeEnd", "failed"}]
    /\ cur \in [Procs -> Keys]
    /\ todo \in [Procs -> SUBSET Keys]
    /\ image \in [Procs -> Row]
    /\ saved \in [Procs -> SUBSET Keys]
    /\ updated \in [Procs -> SUBSET Keys]
    /\ deleted \in [Procs -> SUBSET Keys]
    /\ delCache \in [Procs -> SUBSET Keys]

\* The WriteAll under way has not written key k yet.
Unwritten(p, k) ==
    todo[p] # {} /\ plan[p][k] # "none" => k \in todo[p]

\* A model marked IsForUpdate in a transaction's identity map is locked by
\* that transaction and shows the row as it is now, whatever was read without
\* the lock, cached by others or created in its place before.
LockedModelsAreCurrent ==
    \A p \in Procs, k \in Keys :
        tx[p] /\ k \in locked[p] /\ Unwritten(p, k)
            => p \in locks[k] /\ store[p][k] = Latest(p, k)

\* A reservation whose model is held locked when WriteAll writes it was made
\* from the row as it still is: a save never restores a state read before the
\* lock was taken (the "for update" test in getModels).
LockedSavesAreCurrent ==
    \A p \in Procs, k \in Keys :
        (/\ tx[p] /\ k \in locked[p] /\ Unwritten(p, k)
         /\ plan[p][k] \in Kinds /\ base[p][k] # None)
            => base[p][k] = Latest(p, k)

\* A transaction only ever works on committed rows and on its own writes,
\* although Redis shows uncommitted images: a writable manager does not read
\* Redis, and StartTransaction drops what was read before.
TxModelsAreCommitted ==
    \A p \in Procs, k \in Keys :
        tx[p] /\ store[p][k] # None /\ Unwritten(p, k)
            => store[p][k] \in installed \cup {Absent, own[p][k]}

\* Every entry of Redis has a time to live, or the request that wrote it is
\* about to send the EXPIRE: the pairs SET/EXPIRE of several requests never
\* combine into an entry that stays for ever.
NoImmortalEntry ==
    \A k \in Keys :
        redis[k] # Absent /\ ttl[k] = "none"
            => \E p \in Procs : pc[p] \in {"expire", "pushExpire"} /\ cur[p] = k

\* With nothing but saves of whole models, a row nobody holds locked is either
\* not cached or cached as committed: SET under the row lock beats every
\* SETNX of an older image.
CoherentWhenUnlocked ==
    \A k \in Keys :
        locks[k] = {} /\ redis[k] # Absent => redis[k] = committed[k]

\* A transaction that is about to commit has every row it deleted on the list
\* WriteEnd invalidates, however often WriteAll ran: WriteEnd's DEL takes out
\* the entries that readers put back between WriteAll and COMMIT.  (A SETNX
\* that comes after that DEL may put one back once more.)
DeletedRowsAreInvalidated ==
    \A p \in Procs, k \in Keys :
        pc[p] = "app" /\ tx[p] /\ own[p][k] = Absent => k \in delCache[p]

\* Transactions that only write never wait for each other's rows in a cycle:
\* WriteAll writes in the order of the keys.  Where they do wait in a cycle, one
\* of them is at an INSERT into a gap that another one has locked: that does
\* happen, say when two of them save the same missing row.
Blocked(p) == pc[p] = "write" /\ ~CanWrite(p, Min(todo[p]))
WaitsForRow(p) == Blocked(p) /\ ~Missing(Min(todo[p]))
NoWriteCycle ==
    \A S \in (SUBSET Procs) \ {{}} :
        \E p \in S : WaitsForRow(p) => locks[Min(todo[p])] \cap S \subseteq {p}

\* A cached image that is not the committed row is gone again some time later:
\* the TTL bounds every stale fill.
StaleEntriesGo ==
    \A k \in Keys : []<>(redis[k] \in {Absent, committed[k]})

-----------------------------------------------------------------------------
(* The abstract table                                                      *)

\* The image of a row that its writer has not committed yet.
Uncommitted ==
    [k \in Keys |-> IF \A p \in Procs : own[p][k] = None THEN None
                    ELSE own[CHOOSE p \in Procs : own[p][k] # None][k]]

Table == INSTANCE CachedTable WITH
    row     <- committed,
    entry   <- redis,
    pending <- Uncommitted

\* With disciplined requests, identity maps, snapshots, SETNX and a cache that
\* is written before COMMIT amount to a table with one writer per row, whose
\* entries only ever show the committed row or the one about to be committed.
CachedTableSpec == Table!Spec
=============================================================================
