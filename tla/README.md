# TLA+ models of ttcs-go

`ttcs-go` is the skeleton of a Go web server (gin, gorm/MySQL, Redis). Its
application handlers are still empty; its substance is the library underneath
them, which decides what a request reads, locks, caches and writes, and in
which order MySQL and Redis hear of it. This directory models that library,
checks the models with TLC and proves their main invariants with TLAPS.

## 1. The system

All paths are below `src/src/`.

| Part | Code | State | Operations |
|---|---|---|---|
| Database client | `lib/db/client.go` | `db`, `transaction`, `modelManager` of one request and one database | StartTransaction, CommitTransaction (then WriteEnd), RollbackTransaction, Close |
| Model manager | `lib/db/manager/manager.go` | identity map (`modelInfos`, `cache.go`), reservations (`reservedSave*`, `reservedDel*`), `writeEndTasks`, `delCacheModels`, `writable` | GetModel(s), GetModel(s)ForUpdate, ...WithCreate, SetSave, SetSaveSupportEmptyKey, SetDelete, SetForceDelete, AddWriteEndTask, WriteAll, WriteEnd |
| Key strings, reflection | `lib/db/manager/info.go`, `cache.go` | trees of models by primary key | MakePrimaryKeyString, Save, get, GetModels, Query |
| Local cache of master data | `lib/cache/localcache.go` | `localcacheTime` in the main and in the local Redis, master rows in the local one | InitLocalCache, DeleteLocalCache, Get/SetLocalCache |
| Key list of master tables | `manager.go` GetMasterModelAll | `mastermodel_keyset2::table` in Redis | GetMasterModelAll, deletion of the key |
| Redis client | `lib/redis/` | connections by name, logical database of each | thin wrappers of Redis commands |
| Start and shutdown | `main.go`, `goose.go` | global pools and Redis connections, the listener, the channel of signals, the limiter | the command line, Connect, ListenAndServe, Notify, Shutdown, the deferred closing |
| Request handling | `lib/handler/base.go`, `main.go`, `lib/db/db.go` | gin context (`isEnd`), clients of the request, connection pools | Wrap, Run, ProcessError, Terminate |
| Checked arithmetic | `lib/math/math.go`, `lib/util/rand/rand.go` | none | SafeAdd, SafeSub, random numbers of an interval |
| The rest | `lib/error`, `lib/debug`, other `lib/util`, `lib/google`, `config`, `app` | none to speak of | formatting, logging, constants |

How the parts interact. gin lets 40 requests in at a time, each in a goroutine
with a handler of its own. `Run` calls `InitLocalCache`, then the handler's
CheckUser, PreProcess, Process and AfterProcess. These get a client per
database; a client hands out one model manager outside transactions and a new
one in each transaction. Managers of different requests share nothing in
memory: they meet in MySQL (row locks, snapshots), in Redis (`SET`, `SETNX`,
`EXPIRE`, `DEL`, `FLUSHDB`, each atomic, no two of them together), and in the
connection pools.

What is hard here:

* the order of Redis commands against locks and commits of the rows they are
  about: images are sent to Redis *before* COMMIT, deletions before and after;
* state read without a lock and used after it was taken (identity map);
* `SET` and `EXPIRE` as two commands; SETNX of something read long ago;
* two copies of a time that several requests compare and write without a lock;
* long sequences of SetSave / SetDelete / SetForceDelete / WriteAll, with
  failed batches, tasks that call back, and two Go slices on one array;
* 40 requests on 25 connections, errors and panics at any point;
* a SIGTERM at any point of main, and a shutdown that races with requests.

What makes each part correct:

* *client and manager*: what is held locked is the row as it is; a
  transaction sees committed rows and its own writes; Redis agrees with MySQL
  or soon will; no entry stays for ever; writers do not wait for each other's rows in a cycle;
* *unit of work*: every accepted reservation is carried out once, completely,
  in one global order, and a batch that stops keeps them all;
* *lookups*: they return the rows below the keys asked for, each once, and a
  locked lookup returns locked rows; what was found stale is not passed off as locked;
* *key list*: behind a deletion it does not name the deleted rows, unless a late
  reader or a lost DEL has put or left them there;
* *arithmetic*: exact, or the nearest value of the type;
* *local cache*: an invalidation is never lost;
* *requests*: everyone is answered, no connection is lost, everyone ends;
* *server*: a graceful shutdown cuts nobody off.

## 2. Modules

| Module | Models | Proofs | TLC instance |
|---|---|---|---|
| `ModelCache` | one row's way between MySQL, identity map and Redis, for concurrent requests: client.go and the reading, locking, writing and caching half of manager.go | `ModelCache_proofs` | `MCModelCache` |
| `CachedTable` | the abstract table: rows, their entries in Redis, and one uncommitted image per row; what `ModelCache` promises to disciplined requests | | |
| `UnitOfWork` | the abstract unit of work: a set of rows carried out once, in order, or kept | | |
| `Reservation` | the unit of work of one manager in detail: options, merged columns, tasks, failing rows and caches, slices; implements `UnitOfWork` | `Reservation_proofs`, `UnitOfWork_proofs` | `MCReservation` |
| `KeyLookup` | lookups by complete and incomplete composite keys: info.go, the trees of cache.go, getModels | in `MasterList_proofs` | in `MCMasterList` |
| `MasterList` | GetMasterModelAll and its key list, composed with `KeyLookup` (which it extends) and the writers of the table | `MasterList_proofs` | `MCMasterList` |
| `LocalCache` | localcache.go with master rows and the choice of the logical database | `LocalCache_proofs` | `MCLocalCache` |
| `Handler` | base.go, the pools of db.go, transactions as holders of connections | `Handler_proofs` | `MCHandler` |
| `Server` | main.go from the command line to the deferred closing, the limiter and Shutdown around requests, the entry of goose.go | `Server_proofs` | none: proved only |
| `SafeMath` | math.go and the intervals of rand.go with Go's wrap-around, as operators | `SafeMath_proofs` | none: no states |

`ModelCache` and `Reservation` look at WriteAll from two sides. `ModelCache`
abstracts a reservation to its kind and a row to the number of the WriteAll
that wrote it; `Reservation` has no database but every list of the code.
`ModelCache` and `KeyLookup` look at getModels from two sides in the same way:
the first follows the images of rows with a complete key, the second which rows
a set of keys leads to, where a model is nothing but its key.

### ModelCache

A process is a request. One action is one SQL statement or one Redis command
with the Go code up to the next one; `pc` names the command that comes next.

| Variable | Code |
|---|---|
| `committed`, `locks`, `snap`, `own` | MySQL (external): committed rows, row locks, snapshot and uncommitted images of each transaction |
| `redis`, `ttl` | the entry `{table}table:key` and whether it expires |
| `tx` | `Client.transaction` (`writable` of the manager made in it) |
| `store`, `locked` | `ModelCacheStore`, and the models with `IsForUpdate` |
| `plan`, `base` | `reservedSaveInfos` / `reservedDelModels`; the image a reserved model was loaded from |
| `todo`, `saved`, `updated`, `deleted`, `delCache` | WriteAll's keys, its three lists, `delCacheModels` |
| `installed`, `lastVersion`, `image` | history and naming of images |

`Get`, `TxGet`, `GetForUpdate`, `Select`, `SelectForUpdate`, `Fill`,
`FillExpire` are getModels and SaveModelsToCache; `SetSave`, `SetForceDelete`,
`WriteAll`, `WriteInsert/Save/Update/Delete`, `SaveMisses`, `DuplicateEntry`, `PushSaved`,
`PushExpire`, `PurgeUpdated`, `PurgeDeleted` are the write side; `Commit`,
`WriteEnd`, `Rollback` the client; `Fault` is a panic, a failed Redis command
or the death of the process between any two steps. A refused call (a save of a
key reserved for deletion, WriteAll outside a transaction) changes nothing and
is a guard. After an operation returns an error the handler is taken to give
up: `failed` leads to Rollback.

`CachedTable` says what all this comes to when the requests keep to a discipline
(see the proofs): a row has at most one uncommitted image (`Write`); a reader
caches the committed row, into an empty entry or while nobody writes it (`Fill`);
the writer caches its own image before COMMIT (`Publish`); entries go at any time
(`Evict`). The promise is in the guards of the end of a transaction: `Commit` finds
each of its rows cached as written or not at all, `Rollback` each as before or not at
all. `ModelCache` maps to it by `row <- committed`, `entry <- redis` and
`pending <- Uncommitted`, the image that any request has written and not
committed; all of getModels, identity maps, snapshots and WriteAll's lists are steps that leave it alone.

MySQL is modelled as InnoDB documents it under REPEATABLE READ: exclusive row
locks, gap locks that are shared but exclude inserts, a
snapshot taken by the first plain read, lock waits that may end by timeout or
as a deadlock's victim (`LockWaitEnds`). A statement that finds no row locks the gap
around the missing one, and which other missing keys lie in that gap is any set of
them (`Gaps`), since the rows that part them need not be in `Keys`. `Save` of gorm is
two statements: an UPDATE and, if it finds no row, INSERT ... ON DUPLICATE KEY UPDATE
(`SaveMisses`, then `WriteSave`). Two transactions that save the same missing row
therefore both lock its gap and wait for each other at their INSERTs: a deadlock that
WriteAll's sort does not prevent, in the code and in the model.

### Reservation and UnitOfWork

One goroutine; the difficulty is in the data structures. `array` and `count`
are the Go slice `reservedSaveModelKeys` with the spare capacity behind it;
`shared` tells whether WriteAll's `keys` lies in the same array, which is what
`append(mm.reservedSaveModelKeys, ...)` does when both lists fit. A save that a
task reserves in the middle of the loop writes into that array (`AppendKey`),
and a failed WriteAll leaves it sorted with deletions mixed in. `info` holds
Fields, ForceInsert, ForceUpdate and whether there are SaveFunctions; `log` is
the list of statements sent. Behind the rows, in `"end"`, WriteAll has emptied
the reservations and runs `writeEndTasks`, which may reserve rows again, and
which nothing removes, so that a second WriteAll runs them a second time; then
the caches hear of the rows, but for those that a ForceInsert wrote, which are on none
of WriteAll's three lists unless they are master rows (`Told`). Rows, tasks and caches
may fail (`RowFails`, `EndFails`).
A task that calls WriteAll itself is left out: a write-end task that does so
starts itself again.

`UnitOfWork` is what the comment at the top of manager.go promises, without a list in
it: `wanted` says for each row whether it is to be saved or deleted, `Begin`
takes all of them, `Write` sends the first in the global order, `Finish`
forgets them when none is left, `Abort` keeps them. `Reservation` maps to it by
`wanted <- ` the two maps, `left <- ` the keys behind the loop's position, `sent
<- log`. The promise has a condition, `steady`, mapped to the history variable
`smooth`: a task has not reserved a save inside the loop, and no failed batch
has sorted deletions into the array of the saves. `lost` shows that the first
condition is needed, and TLC finds a `BatchIsComplete` without the second violated too.

### KeyLookup and MasterList

A key is a sequence of column texts; one shorter than `KeyLen` stands for all
rows below it. `MakePrimaryKeyString` joins the columns with the code's
separator, and keys are compared by these strings, as in the code. A lookup is
a call record: `missing` are the keys not found yet, `found` counts how often
each row is in the result, `fill` the rows still to be written to the cache.
`GetModels` looks into the identity map (`held`, and `isForUpdate` for the
flag), `ReadCache` is the MGET, `Query` the SELECT for the missing keys of one
length, in any order of the lengths as Go's map has none, `Fill` the write to
the cache; each may fail. `stable` is history: the rows that were visible when
the call began and were not deleted since. `cache` is the local cache if the
table is a master table and Redis if not. `SetSave` and `WriteAll` are there
as far as they touch the identity map and the locks.

`MasterList` adds GetMasterModelAll: EXISTS, GET, the SELECT of the whole table,
a SET of each row, SET and EXPIRE of the list. It hands the keys it finds to
`GetModels` of `KeyLookup`. The writer is a process of its own: its statement,
the DEL at the end of WriteAll, COMMIT, and the DEL of WriteEnd, which the
code sends for deleted rows and not for inserted ones. The first DEL may fail and with
it WriteAll (`WriteAllFails`); COMMIT may fail and is followed by WriteEnd all the same
(`CommitFails`); the last DEL may fail, which CommitTransaction ignores, or never come
because the process died behind COMMIT (`WriteEndFails`): the list it spares keeps the
deleted row until it expires. A list that goes between EXISTS and GET leaves a struct with no
keys and the empty version, which a caller with the version `""` takes for its own (`Got`).

### SafeMath

`Unsigned` and `Signed` are the wrap-around of Go's integer types; every
operation of math.go and rand.go goes through them, those inside the tests for overflow included.

### LocalCache

`time[d]` is the key `localcacheTime` of logical database `d`; `DbOf` is the
function `init` of redis/config.go, which tests the parameter `DB` and reads
`Db`. With the repository's settings both connections get database 0, and
`time` has one element. `Now` reads the clock, one clock for all requests that
never shows a value twice. Master rows are one row with a version number.
Each command of InitLocalCache may fail, before or after Redis carried it out
(`InitFails`, bounded by `MaxFailures`): Run answers with the error and the request is over.
Reads between StartTransaction and WriteAll are left out.

### Handler

`pc` walks through Run; at each method the application may answer, ask for a
connection, commit, start a second transaction by mistake, return nil or an
error, or panic. `busy[d]` counts the connections in use of a pool;
`victims` are transactions MySQL has rolled back in a deadlock and which still
hold their connection while WriteAll asks for `SHOW ENGINE INNODB STATUS` over
another one. Begin never fails here (`StartTransaction` ignores that error;
every later call on that transaction then returns it).

### Server

`pc` is where main is, `listener` the goroutine of ListenAndServe, `req` what
became of each request, `inside` the tokens of the limiter, `open` and `redis`
what the deferred function closes. net/http, os/signal and gin-limit are
external: Shutdown closes the listener and waits for active connections, a
request in the limiter's queue included. SIGTERMs come at any time, any number of them.
One before Notify kills (`SigtermKills`); behind it os/signal sends without waiting
(`SigtermSent`): main gets the signal if it is receiving, else `quit`, the channel, if it has
room, else nobody. `Buffer` is the channel's capacity, 0 in main.go (`Unbuffered`), and
`came` is history: where main was when signals came. A request is what `Handler` models; here
it only lasts, for any time, and may need a pool. `gooseMain` is the second parsing of the command line. No run checks this module; its
properties are proved.

## 3. Model checking

Each run is `tlc -config <cfg> <module>`; the cfg files are named
`<module>_<run>.cfg`. TLC explores every reachable state of every run.
"Violation" runs are expected to fail: they state what a comment or document
of the repository says, and the code does otherwise.

| Run | Instance | Checks | Shows |
|---|---|---|---|
| `tx` | 2 requests, 1 row, 3 images, all operations, rollbacks, faults | `TypeOK`, `LockedModelsAreCurrent`, `LockedSavesAreCurrent`, `TxModelsAreCommitted`, `DeletedRowsAreInvalidated` | what is held locked is the row as it is; a locked save starts from the row as it is; nothing uncommitted of another request gets into a transaction; every deleted row is on WriteEnd's list when its transaction commits (a SETNX that comes after WriteEnd may still put the entry back) |
| `saves` | 2 requests, 1 row, 4 images, whole saves, inserts, all reads | `CoherentWhenUnlocked`, `NoImmortalEntry`, `CachedTableSpec` | without partial updates, deletions and rollbacks Redis agrees with MySQL whenever nobody holds the row, every entry has, or is about to get, a time to live, and every step is one of `CachedTable` |
| `order` | 2 transactions that save, update, insert and delete, 2 rows, 3 images | `NoWriteCycle`, `CachedTableSpec` | WriteAll's sort keeps two batches from waiting for each other's rows in a cycle (cycles with an INSERT into a locked gap are there, and end by `LockWaitEnds`); with several rows in a transaction, updated and deleted too, every step is one of `CachedTable` |
| `live` | 2 requests, 1 row, 3 images, saves, updates, plain reads outside transactions, rollback, expiry; fairness | `NoImmortalEntry`, `StaleEntriesGo` | every stale entry is replaced or expires |
| `refresh` | 2 requests, updates, reads in and outside transactions, expiry; fairness | `StaleEntriesGo` violated | the EXPIRE after a SETNX that stored nothing renews a stale entry; see below |
| `unit` | 1 manager, 3 keys, 2 columns, all options, failing rows and caches, tasks that save, 1 write-end task | `TypeOK`, `NeverSavedAndDeleted`, `AcceptedColumnsAreWritten`, `BatchIsComplete`, `BatchIsOrdered`, `UnsyncedRowsStayReserved`, `UnitOfWorkSpec` | the unit of work keeps its lists consistent through failed batches and shared arrays; a batch that was not touched by its own tasks is complete and ordered; rows written by a batch that failed are written again and reach the caches; the lists implement `UnitOfWork` |
| `lost` | 1 manager, 3 keys, plain saves, tasks that save | `NoReservationIsLost` violated | a SetSave from a SavedTask overwrites the key of a row still to be written |
| `flush` | 3 requests, separate logical databases, times to 10, 1 failure | `TypeOK`, `InvalidationIsNotLost` | InitLocalCache as designed loses no invalidation, whichever of its commands fails, but in one case (see below) |
| `aliased` | 2 requests, the repository's settings (one database) | `InvalidationIsNotLost` violated | with both connections on database 0 an invalidation can be lost |
| `masters` | 2 requests, separate databases, saved master rows | `MastersBecomeCurrent` violated | saved master rows are invalidated before COMMIT only |
| `lookup` | 1 request and a writer, 3 rows with keys of 2 columns, 4 sets of keys, 2 versions, 1 change, any command of the writer fails, master table or not | `TypeOK`, `ResultsMatchTheKeys`, `LookupsAreComplete`, `LockedResultsAreLocked`, `EarlySavesStayUnlocked`, `LockedModelsAreKept`, `DeletedRowsAreUnlisted` | lookups return what they were asked for, completely but for the shortcut of incomplete keys; nothing unlocked passes for locked; the key list forgets deleted rows, but for a list stored late and for one whose DEL was lost |
| `requests` | 3 requests, 2 pools of 2 connections; fairness | `TypeOK`, `NobodyLeavesUnanswered`, `ConnectionsAreOwned`, `RefusedRequestsAreNotProcessed`, `EveryRequestEnds` | every request that comes to Terminate is answered; each gives its connections back and ends (one whose constructor panics ends without an answer, in the code too) |

### Bounds and why they are enough

* `Procs`: two requests in `ModelCache` (each hazard there is between a writer
  and one other), three in `flush`: a late SET, a writer and a request that
  reads between them are three.
* `MaxVersion` bounds the number of WriteAlls that give a row an image. Three
  are an initial row, a write and a write over it; `saves` has four, so that
  a reader can be two commits behind. Reaching the bound only stops further
  WriteAlls: nothing under way is cut off.
* `Keys`: all keys of `ModelCache` are alike and only WriteAll and the gaps of
  missing rows relate two of them, so one key is enough but for `order`. `Reservation` needs three, one
  before, one at and one behind the position of the loop; the key order and the
  priority disagree (`SomePriority`), so sorting by either one shows.
* `MaxTime` limits nothing in `flush`: the main time is missing at the start and
  after each of at most two DELs (`MaxVersion` is 2, so there is one write), and
  each of three requests reads the clock at most once each time: 9 readings, and
  one more by the request that failed (`MaxFailures` is 1).
  The violation runs need fewer than their 6.
* `MaxTasks` is 1: write-end tasks are alike, and one that stays behind its
  WriteAll and runs in the next is what can go wrong.
* `lookup` has one request with all its calls, because what requests share, the
  rows and the caches, is moved by the writer, by `CacheLoses` and by
  `ListExpires` as any other request could; a second one squares the states.
  Three rows are two below one prefix and one below another; the texts are `1`
  and `11`, so that keys differ in the place of the separator only. `MaxChanges`
  is 1: a lookup meets at most one change in each of its gaps, and the theorems
  hold for any number of requests and changes. `MasterWrites` is FALSE: master rows are
  written by the writer, ordinary rows by the request too.
* `Conns` is 2 instead of 25 for 3 requests instead of 40: fewer connections
  than requests, and as many as a deadlock with its victim's second connection needs.
* `DbStages = {"Process"}` has the application use databases in Process only;
  Wrap treats the four methods alike with regard to errors and panics, which
  may occur in all of them.
* `Allowed` chooses the operations of a run. Without `"rewrite"` a request calls
  WriteAll once and nothing after it but the end of the transaction, the
  common case; `tx` has it. Without `"bareForUpdate"` a locked read is in a
  transaction.

Symmetry is used for requests in runs that check safety only, invariants and the
refinement of `CachedTable`, which names no request; liveness runs have none.

### Fairness

`ModelCache`: `Continue` (a Go function under way sends its next command) and
the end of a request that failed are weakly fair: the goroutine is scheduled
and Terminate runs as a deferred call. That a transaction ends by Commit or
Rollback is strongly fair, since the handler may do other things in between; an
application that loops for ever inside a transaction is outside the model.
`Age` and `Expire` are weakly fair: time passes. Application calls are not fair.
The liveness runs have no `Fault`: none of them covers a DEL of WriteEnd that fails, or a
process that dies between SET and EXPIRE (whose entry stays for ever) or between SET and COMMIT.

`Handler`: gin's loop and the deferred functions are weakly fair (`Starts`,
`Cleans`); a method of the application does not run for ever (strong fairness
of `Ends`, because other calls interrupt it), and a waiting
caller gets one of the connections that come free again and again (strong
fairness of `GetsConnection`, because `database/sql` serves those who wait in
turn). A time limit is not assumed: base.go only logs late requests.

### What the violation runs show

* `refresh` (manager.go:421, comment at 418). In getModels' cache fill the
  SETNX respects an existing entry but the EXPIRE behind it does not look at
  SETNX's result. A request whose snapshot is older than an update refills
  Redis with the old image after WriteEnd's DEL; every later fill of that kind renews
  its time to live. The behaviour needs such readers again and again, so it
  matters for hot rows. `live`, without readers that have an old snapshot,
  shows the entry does go otherwise.
* `lost` (manager.go:716). `append` shares the array of `reservedSaveModelKeys`
  if there is room, and a task's SetSave appends into it at the index of a key
  WriteAll has still to visit. `unit` checks that there are only two ways to lose
  a row, this one and a failed batch whose deletions were sorted into the shared
  array: everything else keeps the promise of `UnitOfWork`.
* `aliased` (redis/config.go:51). `init` looks for `"DB"`, the settings say `"Db"`, so
  both connections use logical database 0. `flush` and the theorem
  `InvalidationSurvives` show that the protocol of localcache.go is right when they are apart.
  One exception is left there, and named in the property (`overtaken`): a request whose
  FLUSHDB fails, or is never reached because its SETNX stored the time but reported an error,
  while another request with a later time has flushed: its invalidation is gone.
* `masters` (manager.go:891). Deleted and updated master rows are invalidated
  before COMMIT and again by WriteEnd, saved ones only before COMMIT; the row
  cached in between has no time to live.

Two things no run is about, although the models show them: saved images go to
Redis before COMMIT (manager.go:891) and a rollback does not touch Redis, so an
image of a transaction that was rolled back is served outside transactions
until it expires (`live` has rollbacks, and `StaleEntriesGo` holds there); and a
lookup by an incomplete key returns only what the identity map holds once it
holds anything below that key (manager.go:229), which `LookupsAreComplete` names as its exception.

## 4. Proofs

All proofs are checked by TLAPS and hold for any number of requests, keys,
columns, databases, images, tasks and failures.

| Theorem | States | Assumes |
|---|---|---|
| `TypeCorrect` | `Spec => []TypeOK` (ModelCache) | `ConstantsAssumption` |
| `LockedModelsStayCurrent` | `[]LockedModelsAreCurrent` | the same |
| `LockedSavesStayCurrent` | `[]LockedSavesAreCurrent` | the same |
| `TransactionsReadClean` | `[]TxModelsAreCommitted` | the same |
| `DeletesReachWriteEnd` | `[]DeletedRowsAreInvalidated` | the same |
| `EntriesExpire` | `[]NoImmortalEntry` | `NoFaults`: nothing fails or dies between two commands |
| `SortedWritesWaitForRowsInOrder` | `[]NoWriteCycle` | `WritersOnly`: locks are taken by WriteAll only, which runs once per transaction; finitely many requests |
| `SavesKeepCacheCoherent` | `[]CoherentWhenUnlocked` | `WholeSavesOnly` |
| `LockedReadsKeepCacheCoherent` | `[]CoherentWhenUnlocked` | `LockedReadsOnly` |
| `DisciplinedRequestsImplementCachedTable` | `Spec => CachedTableSpec`: the refinement (ModelCache) | `WholeSavesOnly` or `LockedReadsOnly` |
| `NeverBothReserved` | `[]NeverSavedAndDeleted` (Reservation) | `ReservationAssumption` |
| `ColumnsAreKept` | `[]AcceptedColumnsAreWritten` | the same |
| `ReservationImplementsUnitOfWork` | `Spec => UnitOfWorkSpec`: the refinement (Reservation) | the same |
| `BatchesAreComplete`, `BatchesAreOrdered` | `[]BatchIsComplete`, `[]BatchIsOrdered` | the same |
| `UnsyncedRowsAreKept` | `[]UnsyncedRowsStayReserved` | the same |
| `ReservationTypes` | `[]TypeOK` | the same |
| `LookupTypes` | `[]TypeOK` (MasterList with KeyLookup) | `KeysAssumption`; `KeyStringsDiffer`: different keys make different strings |
| `LookupsReturnNoExcess` | `[]ResultsMatchTheKeys` | the same |
| `LookupsReturnAllRows` | `[]LookupsAreComplete` | the same |
| `LockedLookupsReturnLockedRows` | `[]LockedResultsAreLocked` | the same |
| `EarlySavesAreNeverLocked` | `[]EarlySavesStayUnlocked` | the same |
| `LockedModelsStay` | `LockedModelsAreKept` | the same |
| `DeletedRowsLeaveTheList` | `[]DeletedRowsAreUnlisted` | the same, without `KeyStringsDiffer` |
| `InvalidationSurvives` | `Apart => []InvalidationIsNotLost` (LocalCache) | `LocalCacheAssumption`; `Apart`: two logical databases |
| `LocalCacheTypes` | `[]TypeOK` | `LocalCacheAssumption` |
| `EveryoneIsAnswered` | `[]NobodyLeavesUnanswered` (Handler) | `HandlerAssumption` |
| `ProcessIsGuarded` | `RefusedRequestsAreNotProcessed` | the same |
| `ConnectionsBelongToRequests` | `[]ConnectionsAreOwned` | the same |
| `HandlerTypes` | `[]TypeOK` | the same |
| `ServerTypes`, `ShutdownIsGraceful` | `[]TypeOK`, `[]OnlyLateRequestsBreak` (Server) | `ProperSettings` |
| `EarlySignalsStayLost` | `[]EarlySignalsAreLost` (Server) | the same; `Unbuffered`: the channel of main.go:87 |
| `BufferedSignalsAreKept` | `[]EarlySignalsAreKept` (Server) | `ProperSettings`; `Buffer > 0` |
| `MigrateFlagIsRefused` | `[]NoMigrationRuns` (Server) | `ProperSettings` |
| `SafeAddUintIsExact`, `SafeSubUintIsExact`, `SafeAddIntIsExact` | the result is the exact one, moved into the type (SafeMath) | any width |
| `RandomIntsAreInRange`, `WideRandomIntsPanic` | the values are those of the interval; a wider one panics | any width |

The arguments:

* *Types* of `ModelCache`: `TypeInv` adds `Pending` to `TypeOK`: what is about to be
  written to Redis, by a read or by WriteAll, is there. Without it a step could
  put None into an entry.
* *Locks*: that a locked model equals the row is not inductive, because it says
  nothing of why nobody else may write. `LockInv` adds it: only open
  transactions hold locks (`HoldersAreOpen`), a lock held by two is the gap of a
  missing row (`SharedLocksAreGaps`), who has written a row is alone on it
  (`WritersAreAlone`), what the steps of one call expect of the identity map
  (`StoreSteps`: no locking read of a model reserved for saving, for one), and that a
  reserved model is the one in the map (`ReservedIsStored`). A commit by another
  request then cannot touch a row that is held. `Takes` is what any locking statement
  does: it gets the lock on its row, or on its gap and other missing keys, and nobody loses one.
* *Clean reads*: `CleanInv` is `TxModelsAreCommitted` together with: committed rows
  and snapshots show images that were committed once. It uses `StoreSteps`. The map is
  filled from Redis only outside transactions, and StartTransaction makes a new manager.
* *Deleted rows*: `DeletesAreListed` follows a deletion from WriteAll's own list to
  `delCache`: while WriteAll runs, an image `Absent` is in one of the two.
* *Time to live*: `NoImmortalEntry` is inductive with `TypeOK` where nothing dies
  between SET and EXPIRE; a request that does die there leaves an entry for ever,
  so `NoFaults` cannot be dropped.
* *Lock order*: `LocksPrecedeWaits`: the rows a request in WriteAll's loop has locked come
  before every key it has still to write, none of which it has changed. In a cycle of
  waits for rows the one that waits for the
  greatest key (`GreatestRank`, for any finite set) would be waited for by one that
  holds a greater key yet. Missing rows are left out, and have to be: a gap lock may cover
  greater keys, and two transactions may share it, so that an INSERT can wait in a
  cycle. What the theorem says of deadlocks is that each has such an INSERT in it. Keys are integers here; `Reservation` has the
  order by priority and key, and `BatchesAreOrdered` proves that WriteAll writes in it.
* *Coherence*, under two disciplines. Both are for requests that write once and
  last, lock in transactions only, and neither die nor roll back on purpose
  (`PlainRequests`; a statement that fails still rolls back). `WholeSavesOnly`:
  models are saved whole or inserted, and entries outlive transactions; reads are
  free. Then a written row is in Redis as written before its COMMIT (`WritesArePushed`),
  and what a reader has read without a lock and not yet sent by SETNX is either
  still the committed row or finds an entry (`ReadsAreCurrent`). `LockedReadsOnly`:
  every read takes the lock; rows may be updated in part and deleted, and entries may
  expire. Then nobody can put an old image back, and at COMMIT whatever is cached of a
  written row is the image written (`WritesReachRedis`; `Due` is what a push or a purge has still
  to do). The disciplines are as wide as they can be: with any one further operation
  or event in `Allowed`, TLC finds `CoherentWhenUnlocked` violated with one row and two
  requests. They describe where the code is coherent, not how the
  (still empty) application behaves.
* *Refinement of `CachedTable`*: `Served` is what both disciplines have in common: what
  is about to be filled is the committed row or finds an entry, and a transaction that
  is about to end finds its rows as the guards of `Commit` and `Rollback` want them. With it
  and the locks each action maps to one abstract action or a stutter; by `LoneWriter`
  `Uncommitted` is the image of the only request that writes the row.
* *Reservations*: two lemmas about `FieldsMerged` do the work. The empty list
  stands for all columns, so a merge must never turn "all" into "some"
  (`MergedKeepsBoth`); the invariant says so for each reserved key.
* *Refinement*: `WorkInv` says what a smooth manager's slices have to do with its
  maps: outside WriteAll the listed keys are the reserved ones, once each; inside, the
  keys of the loop, in `array` or apart, are a sorted arrangement of both lists,
  and the log is the part before the loop's position. Every statement then takes the first
  of the rows left (`Write`), and RowsAreDone finds none left (`Finish`). A task's
  SetSave and a failed batch that was sorted in the shared array map to `Disturb` and to
  `Abort` with `steady` gone; after that only `UnitOfWork`'s weaker half has to be shown.
* *Unsynced rows*: `Around` keeps the property together with the history: `sound` means
  `smooth` all the time, and when it is lost nothing is promised any more, so a write-end task
  or a cache that fails behind the rows is not covered. A row of a forced INSERT counts as settled when
  it is written: the code never tells the caches of it.
* *Lookups*: `LookupInv` follows one call through its steps. `FoundInv`: for each key
  that is not missing any more every row of `stable` below it is in the result, and no row
  is there more often than by these keys. `StableInv`: what is in `stable` is what the SELECTs
  still to come will see. `FlagsInv`: below a key still missing there is no model
  reserved early (locked call) and none locked (plain call), so neither call touches the
  wrong one. `LocksInv`: a model marked as locked exists and lies below a locked key, and nobody
  changes such a row. That a hit of the cache belongs to its key needs that strings of
  different keys differ: `KeyStringsDiffer` assumes it; a value containing the separator breaks it.
* *Key list*: `ListInv` is the property together with the shape of the list; each step either
  leaves rows and list alone or stores, deletes or expires the list, and COMMIT of a deletion
  leads to the state `"committed"`. WriteEnd's DEL leaves it with no list; where that DEL is lost,
  the list that is there is marked `spared`. A list that names a row which is gone already when it is
  stored is marked `belated`. The property excepts these two and no other list: what a request
  stores between WriteAll's DEL and COMMIT is neither, and must be gone when WriteEnd is done.
* *Connections*: `ConnInv` counts the holders of a pool (`Owners`) and follows them through every way
  a transaction ends; each step changes the holders of one request only.
* *Server*: `ServerInv` says when there can be requests at all (`FirstListen`), that the pools
  are open until main closes (`PoolsAreOpen`), and that main closes with nothing under way unless
  time ran out (`ClosesQuiet`); `TokensMatch` counts the limiter's tokens. Two theorems say what the
  code does against its comments. The channel of main.go:87 has no buffer and os/signal does not
  wait: SIGTERMs that come between lines 88 and 89, however many, leave main waiting
  (`EarlySignalsStayLost`), until one comes while it waits, although line 86 has main monitor the signals;
  `BufferedSignalsAreKept` shows that the missing buffer is the reason: with room for one signal main
  finds it in the channel. And `gooseMain` (goose.go:19) parses `os.Args[1:]` with a flag set that only defines `-dir`, so the
  `-migrate` that led there ends the process before any migration, although main.go:23 promises them.
  What follows in `gooseMain` is not modelled: nothing reaches it.
* *Arithmetic*: `SignedInRange`: a value inside the type is its own wrap-around. The tests of
  math.go stay inside the type in the branch where they are evaluated.
* *Local cache*: after an invalidation the main time is missing or a request is on its way
  to the flush (`Obeyed`). What makes that last is `Fresh`: a request that
  sends SETNX has read the clock after its local time, so its own comparison
  sends it to the flush. When the SETNX of another request came first, that one flushes.
* *Handler*: the flag `isEnd`, which Run and Wrap test, agrees with the responses really
  written while a method runs (`FlagIsTrue`), and a new request begins with
  neither (`FreshBegin`); every way into Terminate passes through ProcessError or
  a stage that looked at the flag.

Only model-checked: the liveness properties `StaleEntriesGo` and
`EveryRequestEnds`, because TLAPS does not reach liveness under fairness. Every
invariant and every refinement of a passing run is proved too; where the table names a hypothesis on
`Allowed` or on the settings, the runs that check the property satisfy it.

## 5. What is not modelled

* *Assumed of the environment*: MySQL keeps what InnoDB documents for REPEATABLE
  READ; a Redis command is atomic; all servers share one clock (`LocalCache`).
* *Assumed of the application* in `Handler` with `Careful = TRUE`: one transaction at a time.
  With two, on two databases, TLC finds requests that wait for
  connections of each other for ever. The repository has no handler that does so.
* *Faults*: any step of `ModelCache` may be a request's last (`Fault`), any
  command of InitLocalCache, of a lookup and of GetMasterModelAll may fail. The
  commands of a master row's writer in `LocalCache` do not; those in `MasterList` do.
* *Keys*: the new keys that makeKey invents for models whose auto-increment key is
  zero; key columns whose texts contain the separator; the float64 that a number in the key
  list becomes. They are hazards in PROJECT.json without a property.
* *ModelManager* with a nil Redis client (the server always has one);
  SetGotModel; custom column types (`customTypes` is always empty); master rows in
  `ModelCache` (they are in `LocalCache` and `KeyLookup`).
* *Server*: connections that net/http accepts in the moment of Shutdown; the timer that logs late
  requests; goose's own work; error formatting; configuration; the empty
  application handlers; Redis commands that nothing calls.

## 6. Order of the work, and what is left

The modules were built with the most exposed behaviour first: `ModelCache`,
`Reservation`, `LocalCache`, `Handler`, then `UnitOfWork`, `KeyLookup`,
`MasterList`, `SafeMath` and `Server`, last `CachedTable`. What would come next:

1. An abstract cache, "an entry is the row or will expire", for `ModelCache`
   without readers that have an old snapshot, beyond the two disciplines of `CachedTable`.
2. Keys of models that are not saved yet, in `Reservation`.
