----------------------------- MODULE LocalCache -----------------------------
(***************************************************************************)
(* Master data and its cache: lib/cache/localcache.go, called by every      *)
(* request (handler/base.go, Run) and by ModelManager                       *)
(* (db/manager/manager.go) for models whose GetIsMaster is true.            *)
(*                                                                         *)
(* A change of master data deletes the key "localcacheTime" of the main     *)
(* Redis.  A request starts with InitLocalCache: it gives the main key a    *)
(* new time if it is missing, and flushes the local Redis if its own        *)
(* "localcacheTime" is older.  Each Redis command, SQL statement and        *)
(* reading of the clock is one step, so requests interleave inside          *)
(* InitLocalCache, between SELECT and SET, and around COMMIT.               *)
(*                                                                         *)
(* The logical databases come from redis/config.go, which looks for the     *)
(* parameter "DB" before it reads the parameter "Db".  One master row       *)
(* stands for the master data; its image is a version number.               *)
(***************************************************************************)
EXTENDS Integers

CONSTANTS
    Procs,      \* the concurrent requests
    Params,     \* config.GetRedisConnectionSettings for "cache" and "local":
                \* the names given and, for "Db", the number
    Kinds,      \* how master rows are written: "update", "save"
    MaxFailures, \* bound on the failures of InitLocalCache
    MaxTime,    \* bound on the readings of the clock
    MaxVersion  \* bound on the images of the row

ASSUME LocalCacheAssumption ==
    /\ Params \in [{"cache", "local"} -> [given : SUBSET {"DB", "Db"}, Db : Nat]]
    /\ Kinds \subseteq {"update", "save"} /\ MaxFailures \in Nat
    /\ MaxTime \in Nat /\ MaxVersion \in Nat \ {0}

Missing == 0

\* The logical database of a connection (redis/config.go, init).
DbOf(name) == IF "DB" \in Params[name].given THEN Params[name].Db ELSE 0

Dbs == {DbOf("cache"), DbOf("local")}

VARIABLES
    time,      \* Redis: "localcacheTime" in each logical database
    row,       \* Redis: the cached master row, in the local database
    clock,     \* the last reading of time.Now().UnixNano()
    failures,  \* how often a command of InitLocalCache failed
    master,    \* MySQL: the committed image of the row
    lock,      \* MySQL: the request that holds the row's lock, if any
    own,       \* MySQL: a transaction's uncommitted image
    newest,    \* the last image handed out
    pc,        \* the next command of each request
    localTime, mainTime,  \* InitLocalCache: localcacheTime and t
    seen,      \* the row in the request's identity map
    kind,      \* how the request's WriteAll wrote the row
    dirty,     \* history: invalidated and not flushed since
    overtaken  \* history: a request failed to flush behind a later one

redisVars == <<time, row, dirty, overtaken>>
sqlVars == <<master, lock, own, newest>>
clockVars == <<clock, failures>>
initVars == <<localTime, mainTime>>
vars == <<redisVars, clockVars, sqlVars, pc, initVars, seen, kind>>

Nobody == {}

Init ==
    /\ time = [d \in Dbs |-> Missing]
    /\ row = Missing
    /\ clock = 0 /\ failures = 0
    /\ master = 1 /\ newest = 1
    /\ lock = Nobody
    /\ own = [p \in Procs |-> Missing]
    /\ pc = [p \in Procs |-> "idle"]
    /\ localTime = [p \in Procs |-> Missing]
    /\ mainTime = [p \in Procs |-> Missing]
    /\ seen = [p \in Procs |-> Missing]
    /\ kind = [p \in Procs |-> "none"]
    /\ dirty = FALSE /\ overtaken = FALSE

Step(p, from, to) == pc[p] = from /\ pc' = [pc EXCEPT ![p] = to]

Forget(p) == /\ localTime' = [localTime EXCEPT ![p] = Missing]
             /\ mainTime' = [mainTime EXCEPT ![p] = Missing]

-----------------------------------------------------------------------------
(* InitLocalCache                                                          *)

\* redisLocal.Get(&localcacheTime, "localcacheTime")
GetLocalTime(p) ==
    /\ Step(p, "idle", "getMain")
    /\ localTime' = [localTime EXCEPT ![p] = time[DbOf("local")]]
    /\ UNCHANGED <<redisVars, clockVars, sqlVars, mainTime, seen, kind>>

\* InitLocalCache goes on to the flush, or returns and forgets its two times.
Compare(p, from, t) ==
    IF localTime[p] < t
    THEN /\ Step(p, from, "flush")
         /\ mainTime' = [mainTime EXCEPT ![p] = t]
         /\ UNCHANGED localTime
    ELSE Step(p, from, "ready") /\ Forget(p)

\* client.Get(&t, "localcacheTime")
GetMainTime(p) ==
    LET t == time[DbOf("cache")]
    IN /\ IF t = Missing THEN Step(p, "getMain", "now") /\ UNCHANGED initVars
                         ELSE Compare(p, "getMain", t)
       /\ UNCHANGED <<redisVars, clockVars, sqlVars, seen, kind>>

\* t = time.Now().UnixNano(): later than every reading before.
Now(p) ==
    /\ clock < MaxTime
    /\ Step(p, "now", "setNx")
    /\ clock' = clock + 1
    /\ mainTime' = [mainTime EXCEPT ![p] = clock + 1]
    /\ UNCHANGED <<redisVars, failures, sqlVars, localTime, seen, kind>>

StoreMainTime(p) ==
    time' = [time EXCEPT ![DbOf("cache")] = IF @ = Missing THEN mainTime[p] ELSE @]

\* client.SetNx("localcacheTime", t); whether it stored t is not looked at.
SetNx(p) ==
    /\ Compare(p, "setNx", mainTime[p])
    /\ StoreMainTime(p)
    /\ UNCHANGED <<row, dirty, overtaken, clockVars, sqlVars, seen, kind>>

\* FLUSHDB empties the logical database, whatever else lies in it.
FlushDb ==
    /\ time' = [time EXCEPT ![DbOf("local")] = Missing]
    /\ row' = Missing
    /\ dirty' = FALSE

Flush(p) ==
    /\ Step(p, "flush", "setLocal")
    /\ FlushDb
    /\ UNCHANGED <<overtaken, clockVars, sqlVars, initVars, seen, kind>>

StoreLocalTime(p) ==
    time' = [time EXCEPT ![DbOf("local")] = mainTime[p]]

\* redisLocal.Set("localcacheTime", t)
SetLocalTime(p) ==
    /\ Step(p, "setLocal", "ready")
    /\ StoreLocalTime(p)
    /\ Forget(p)
    /\ UNCHANGED <<row, dirty, overtaken, clockVars, sqlVars, seen, kind>>

\* A request that has flushed gives, or gave, the local Redis a time as late as
\* the main one.
LaterFlushed ==
    LET t == time[DbOf("cache")]
    IN \/ time[DbOf("local")] >= t
       \/ \E q \in Procs : pc[q] = "setLocal" /\ mainTime[q] >= t

\* A failed FLUSHDB ends the request like any other failed command.
FlushFails(p) ==
    /\ Step(p, "flush", "idle")
    /\ UNCHANGED <<time, row, dirty>>
    /\ overtaken' = (overtaken \/ LaterFlushed)

\* A failed SETNX may have stored the time all the same.
SetNxFails(p) ==
    /\ Step(p, "setNx", "idle")
    /\ \/ UNCHANGED <<time, overtaken>>
       \/ /\ StoreMainTime(p)
          /\ overtaken' = (overtaken \/ (time # time' /\ LaterFlushed'))
    /\ UNCHANGED <<row, dirty>>

\* Redis fails, before or behind the command: Run answers with the error, and
\* the request is over without a flush or without its local time.
InitFails(p) ==
    /\ failures < MaxFailures /\ failures' = failures + 1
    /\ Forget(p)
    /\ \/ Step(p, "getMain", "idle") /\ UNCHANGED redisVars
       \/ SetNxFails(p)
       \/ FlushFails(p)
       \/ Step(p, "flush", "idle") /\ FlushDb /\ UNCHANGED overtaken
       \/ Step(p, "setLocal", "idle") /\ UNCHANGED redisVars
       \/ /\ Step(p, "setLocal", "idle") /\ StoreLocalTime(p)
          /\ UNCHANGED <<row, dirty, overtaken>>
    /\ UNCHANGED <<clock, sqlVars, seen, kind>>

-----------------------------------------------------------------------------
(* ModelManager: reading and writing a master row                          *)

\* Where the application is between two operations.
Resting(p) == IF lock = {p} THEN "written" ELSE "ready"

\* GetModel: identity map, then local cache, then SELECT.  For master data a
\* transaction is no exception.
GetMaster(p) ==
    /\ seen[p] = Missing
    /\ Step(p, Resting(p), IF row = Missing THEN "select" ELSE Resting(p))
    /\ seen' = [seen EXCEPT ![p] = row]
    /\ UNCHANGED <<redisVars, clockVars, sqlVars, initVars, kind>>

SelectMaster(p) ==
    /\ Step(p, "select", "setRow")
    /\ seen' = [seen EXCEPT ![p] = IF lock = {p} THEN own[p] ELSE master]
    /\ UNCHANGED <<redisVars, clockVars, sqlVars, initVars, kind>>

\* lib_cache.SetLocalCache: unconditional and without a time to live.
SetLocalRow(p) ==
    /\ Step(p, "setRow", Resting(p))
    /\ row' = seen[p]
    /\ UNCHANGED <<time, dirty, overtaken, clockVars, sqlVars, initVars, seen, kind>>

\* StartTransaction, SetSave and the statement of WriteAll, which ends with an
\* empty identity map.  Reads between StartTransaction and WriteAll are left out.
WriteMaster(p, k) ==
    /\ lock = Nobody /\ newest < MaxVersion
    /\ Step(p, "ready", "invalidate")
    /\ lock' = {p}
    /\ newest' = newest + 1
    /\ own' = [own EXCEPT ![p] = newest + 1]
    /\ seen' = [seen EXCEPT ![p] = Missing]
    /\ kind' = [kind EXCEPT ![p] = k]
    /\ UNCHANGED <<redisVars, clockVars, master, initVars>>

\* Mutant: the main Redis is not told.
NotDeleted == UNCHANGED time

\* client.Del("localcacheTime")
DelMainTime == time' = [time EXCEPT ![DbOf("cache")] = Missing]

DeleteLocalCache ==
    /\ DelMainTime
    /\ dirty' = TRUE
    /\ UNCHANGED <<row, overtaken>>

\* The end of WriteAll, before the transaction commits.
Invalidate(p) ==
    /\ Step(p, "invalidate", "written")
    /\ DeleteLocalCache
    /\ UNCHANGED <<clockVars, sqlVars, initVars, seen, kind>>

\* Mutant: the client forgets a transaction without ending it.
ForgetTransaction(p) ==
    /\ UNCHANGED <<lock, own>>
    /\ seen' = [seen EXCEPT ![p] = Missing]
    /\ kind' = [kind EXCEPT ![p] = "none"]

\* MySQL drops the lock and the uncommitted image, the client its manager.
EndTransaction(p) ==
    /\ lock' = Nobody
    /\ own' = [own EXCEPT ![p] = Missing]
    /\ seen' = [seen EXCEPT ![p] = Missing]
    /\ kind' = [kind EXCEPT ![p] = "none"]

\* CommitTransaction; the client's next manager is a new one.  A row that was
\* updated is in delCacheModels, one that was saved is not.
Commit(p) ==
    /\ Step(p, "written", IF kind[p] = "update" THEN "writeEnd" ELSE "ready")
    /\ master' = own[p]
    /\ EndTransaction(p)
    /\ UNCHANGED <<redisVars, clockVars, newest, initVars>>

WriteEnd(p) ==
    /\ Step(p, "writeEnd", "ready")
    /\ DeleteLocalCache
    /\ UNCHANGED <<clockVars, sqlVars, initVars, seen, kind>>

Rollback(p) ==
    /\ Step(p, "written", "ready")
    /\ EndTransaction(p)
    /\ UNCHANGED <<redisVars, clockVars, master, newest, initVars>>

\* The handler returns; what it held is garbage.
EndRequest(p) ==
    /\ Step(p, "ready", "idle")
    /\ seen' = [seen EXCEPT ![p] = Missing]
    /\ UNCHANGED <<redisVars, clockVars, sqlVars, initVars, kind>>

Next ==
    \E p \in Procs :
        \/ GetLocalTime(p) \/ GetMainTime(p) \/ Now(p) \/ SetNx(p) \/ Flush(p)
        \/ SetLocalTime(p) \/ InitFails(p)
        \/ GetMaster(p) \/ SelectMaster(p) \/ SetLocalRow(p)
        \/ \E k \in Kinds : WriteMaster(p, k)
        \/ Invalidate(p) \/ Commit(p) \/ WriteEnd(p) \/ Rollback(p)
        \/ EndRequest(p)

Spec == Init /\ [][Next]_vars

-----------------------------------------------------------------------------
(* Properties                                                              *)

Steps == {"idle", "getMain", "now", "setNx", "flush", "setLocal", "ready",
          "select", "setRow", "invalidate", "written", "writeEnd"}

\* The types of the variables, no time from the future, and a lock exactly for
\* the request that has an uncommitted image and is about to end its transaction.
TypeOK ==
    /\ time \in [Dbs -> 0 .. clock]
    /\ row \in 0 .. MaxVersion
    /\ clock \in 0 .. MaxTime /\ failures \in 0 .. MaxFailures
    /\ master \in 1 .. MaxVersion /\ newest \in 1 .. MaxVersion
    /\ lock \subseteq Procs
    /\ own \in [Procs -> 0 .. MaxVersion]
    /\ pc \in [Procs -> Steps]
    /\ localTime \in [Procs -> 0 .. clock]
    /\ mainTime \in [Procs -> 0 .. clock]
    /\ seen \in [Procs -> 0 .. MaxVersion]
    /\ kind \in [Procs -> Kinds \cup {"none"}]
    /\ dirty \in BOOLEAN /\ overtaken \in BOOLEAN
    /\ \A p \in Procs : /\ own[p] # Missing <=> lock = {p}
                        /\ kind[p] # "none" <=> lock = {p}

\* The next InitLocalCache that starts will flush the local Redis.
WillFlush ==
    \/ time[DbOf("cache")] = Missing
    \/ time[DbOf("local")] < time[DbOf("cache")]

\* An invalidation is not lost: until the local Redis has been flushed, the
\* two times make the next InitLocalCache flush it, or one that is under way
\* is about to, however their GET, SETNX, FLUSHDB and SET interleave with each
\* other and with the DEL of a writer, and wherever they fail.  The one
\* exception: a FLUSHDB fails, or is not reached behind a SETNX that stored its
\* time, while another request with a later reading of the clock has flushed.
InvalidationIsNotLost ==
    dirty /\ ~overtaken => WillFlush \/ \E p \in Procs : pc[p] = "flush"

\* Once every request has ended, a master row that is still in the local Redis
\* is the committed one, or the next request flushes it.
MastersBecomeCurrent ==
    (\A p \in Procs : pc[p] = "idle") => row \in {Missing, master} \/ WillFlush
=============================================================================
