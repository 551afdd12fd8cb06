-------------------------- MODULE LocalCache_proofs --------------------------
(***************************************************************************)
(* No invalidation of the local cache is lost, for every number of          *)
(* requests, of failures and every bound, provided that the settings give   *)
(* the main and the local Redis different logical databases.  The argument: *)
(* the request whose SETNX gives the main key a time has read its local     *)
(* time before it read the clock, so its own comparison sends it on to the  *)
(* flush; until then a missing main key keeps every later request on the    *)
(* same path.  If it fails there, its time stays in the main Redis and is   *)
(* later than every local time, unless it was overtaken.                    *)
(***************************************************************************)
EXTENDS LocalCache, TLAPS

\* The settings tell the two databases apart.
Apart == DbOf("cache") # DbOf("local")

\* No time lies in the future.
Times ==
    /\ clock \in Nat
    /\ time \in [Dbs -> Nat] /\ \A d \in Dbs : time[d] <= clock
    /\ localTime \in [Procs -> Nat] /\ \A p \in Procs : localTime[p] <= clock
    /\ mainTime \in [Procs -> Nat]
    /\ pc \in [Procs -> Steps] /\ overtaken \in BOOLEAN

\* A request that sends SETNX has read the clock after its local time, and one
\* that flushes keeps a time that is not in the future.
Fresh ==
    \A p \in Procs :
        /\ pc[p] = "setNx" => localTime[p] < mainTime[p]
        /\ mainTime[p] <= clock

\* An invalidation that was answered with a new time is about to be obeyed, or
\* the time it was answered with has not been reached by the local Redis.
Obeyed ==
    dirty /\ ~overtaken =>
        \/ time[DbOf("cache")] = Missing
        \/ \E p \in Procs : pc[p] = "flush"
        \/ ~LaterFlushed

Inv == Times /\ Fresh /\ Obeyed

\* The initial state: no times, nothing invalidated.
LEMMA InvInit == Init => Inv
<1> SUFFICES ASSUME Init PROVE Inv
  OBVIOUS
<1>0. /\ time = [d \in Dbs |-> 0] /\ clock = 0
      /\ localTime = [p \in Procs |-> 0] /\ mainTime = [p \in Procs |-> 0]
      /\ pc = [p \in Procs |-> "idle"]
  BY DEF Init, Missing
<1>4. overtaken \in BOOLEAN
  BY DEF Init
<1>1. Times
  BY <1>0, <1>4 DEF Times, Steps
<1>2. Fresh
  <2> SUFFICES ASSUME NEW p \in Procs
               PROVE  pc[p] # "setNx" /\ mainTime[p] <= clock
    BY DEF Fresh
  <2>1. mainTime[p] = 0 /\ clock = 0 /\ pc[p] = "idle"
    BY <1>0
  <2>2. pc[p] # "setNx"
    BY <2>1
  <2>3. mainTime[p] <= clock
    BY <2>1
  <2> QED
    BY <2>2, <2>3
<1>3. Obeyed
  BY DEF Init, Obeyed
<1> QED
  BY <1>1, <1>2, <1>3 DEF Inv

\* The databases of both connections are databases.
LEMMA DbFacts == DbOf("cache") \in Dbs /\ DbOf("local") \in Dbs
BY DEF Dbs

\* Every step keeps the times apart from the future and in order.
LEMMA TimesStep == Inv /\ [Next]_vars => Times' /\ Fresh'
<1> SUFFICES ASSUME Inv, [Next]_vars PROVE Times' /\ Fresh'
  OBVIOUS
<1> USE DbFacts DEF Inv, Times, Fresh, Step, Steps, Missing, clockVars, StoreMainTime,
                StoreLocalTime, Forget
<1>1. ASSUME NEW p \in Procs, GetLocalTime(p) PROVE Times' /\ Fresh'
  BY <1>1 DEF GetLocalTime, redisVars
<1>2. ASSUME NEW p \in Procs, GetMainTime(p) PROVE Times' /\ Fresh'
  BY <1>2 DEF GetMainTime, Compare, Forget, redisVars, initVars
<1>3. ASSUME NEW p \in Procs, Now(p) PROVE Times' /\ Fresh'
  BY <1>3 DEF Now, redisVars
<1>4. ASSUME NEW p \in Procs, SetNx(p) PROVE Times' /\ Fresh'
  BY <1>4 DEF SetNx, Compare, Forget
<1>5. ASSUME NEW p \in Procs, Flush(p) \/ SetLocalTime(p) PROVE Times' /\ Fresh'
  BY <1>5 DEF Flush, FlushDb, SetLocalTime, Forget, initVars
<1>6. ASSUME NEW p \in Procs,
             \/ GetMaster(p) \/ SelectMaster(p) \/ SetLocalRow(p)
             \/ \E k \in Kinds : WriteMaster(p, k)
      PROVE  Times' /\ Fresh'
  BY <1>6 DEF GetMaster, SelectMaster, SetLocalRow, WriteMaster, Resting,
              redisVars, initVars
<1>7. ASSUME NEW p \in Procs,
             Invalidate(p) \/ Commit(p) \/ WriteEnd(p) \/ Rollback(p)
             \/ EndRequest(p)
      PROVE  Times' /\ Fresh'
  BY <1>7 DEF Invalidate, Commit, WriteEnd, Rollback, EndRequest,
              DeleteLocalCache, DelMainTime, redisVars, initVars
<1>8. ASSUME NEW p \in Procs, InitFails(p) PROVE Times' /\ Fresh'
  <2>1. overtaken' \in BOOLEAN
    BY <1>8 DEF InitFails, SetNxFails, FlushFails, redisVars
  <2>2. time' \in [Dbs -> Nat] /\ \A d \in Dbs : time'[d] <= clock'
    BY <1>8 DEF InitFails, SetNxFails, FlushFails, FlushDb, redisVars
  <2>3. /\ UNCHANGED clock /\ pc' \in [Procs -> Steps]
        /\ \A q \in Procs : pc'[q] = "setNx" => pc[q] = "setNx" /\ q # p
    BY <1>8 DEF InitFails, SetNxFails, FlushFails
  <2>4. /\ localTime' = [localTime EXCEPT ![p] = Missing]
        /\ mainTime' = [mainTime EXCEPT ![p] = Missing]
    BY <1>8 DEF InitFails
  <2>5. Times'
    BY <2>1, <2>2, <2>3, <2>4
  <2>6. Fresh'
    BY <2>3, <2>4
  <2> QED
    BY <2>5, <2>6
<1>9. CASE UNCHANGED vars
  BY <1>9 DEF vars, redisVars, initVars
<1> QED
  BY <1>1, <1>2, <1>3, <1>4, <1>5, <1>6, <1>7, <1>8, <1>9 DEF Next

\* A step that leaves the times alone, and neither leaves the flush nor has
\* flushed, keeps an invalidation pending.
LEMMA ObeyedKept ==
    ASSUME Inv, NEW p \in Procs, NEW s, s # "setLocal", pc[p] # "flush",
           pc' = [pc EXCEPT ![p] = s], UNCHANGED <<time, dirty, overtaken>>,
           \A q \in Procs \ {p} : mainTime'[q] = mainTime[q]
    PROVE  Obeyed'
BY DEF Inv, Times, Obeyed, LaterFlushed

\* Every step keeps an invalidation pending until it is obeyed.
LEMMA ObeyedStep == Apart /\ Inv /\ [Next]_vars => Obeyed'
<1> SUFFICES ASSUME Apart, Inv, [Next]_vars PROVE Obeyed'
  OBVIOUS
<1> USE DbFacts DEF Step, redisVars, clockVars
<1>1. ASSUME NEW p \in Procs,
             \/ GetLocalTime(p) \/ GetMainTime(p) \/ Now(p)
             \/ GetMaster(p) \/ SelectMaster(p) \/ SetLocalRow(p)
             \/ \E k \in Kinds : WriteMaster(p, k)
             \/ Commit(p) \/ Rollback(p) \/ EndRequest(p)
      PROVE  Obeyed'
  <2>1. \A q \in Procs \ {p} : mainTime'[q] = mainTime[q]
    BY <1>1 DEF GetLocalTime, GetMainTime, Compare, Forget, Now, GetMaster, SelectMaster,
                SetLocalRow, WriteMaster, Commit, Rollback, EndRequest, initVars,
                Inv, Times
  <2>2. /\ \E s : s # "setLocal" /\ pc' = [pc EXCEPT ![p] = s]
        /\ pc[p] # "flush" /\ UNCHANGED <<time, dirty, overtaken>>
    BY <1>1 DEF GetLocalTime, GetMainTime, Compare, Now, GetMaster, SelectMaster,
                SetLocalRow, WriteMaster, Commit, Rollback, EndRequest, Resting
  <2> QED
    BY <2>1, <2>2, ObeyedKept
<1>2. ASSUME NEW p \in Procs, SetNx(p) PROVE Obeyed'
  <2>1. localTime[p] < mainTime[p]
    BY <1>2 DEF SetNx, Compare, Inv, Fresh
  <2>2. pc'[p] = "flush"
    BY <1>2, <2>1 DEF SetNx, Compare, Inv, Times
  <2> QED
    BY <2>2 DEF Obeyed
<1>3. ASSUME NEW p \in Procs, Flush(p) PROVE Obeyed'
  BY <1>3 DEF Flush, FlushDb, Obeyed
<1>4. ASSUME NEW p \in Procs, pc[p] = "setLocal", StoreLocalTime(p),
             \E s \in {"ready", "idle"} : pc' = [pc EXCEPT ![p] = s],
             UNCHANGED <<dirty, overtaken>>, Forget(p)
      PROVE  Obeyed'
  <2>1. time'[DbOf("cache")] = time[DbOf("cache")]
    BY <1>4 DEF StoreLocalTime, Apart, Inv, Times
  <2>2. \A q \in Procs : pc[q] = "flush" => pc'[q] = "flush"
    BY <1>4 DEF Inv, Times
  <2>3. ~LaterFlushed => ~LaterFlushed'
    <3>1. \A q \in Procs : pc'[q] = "setLocal" =>
              pc[q] = "setLocal" /\ mainTime'[q] = mainTime[q]
      BY <1>4 DEF Forget, Inv, Times
    <3>2. time'[DbOf("local")] = mainTime[p]
      BY <1>4 DEF StoreLocalTime, Inv, Times
    <3> QED
      BY <1>4, <2>1, <3>1, <3>2 DEF LaterFlushed, Inv, Times
  <2> QED
    BY <1>4, <2>1, <2>2, <2>3 DEF Inv, Obeyed
<1>5. ASSUME NEW p \in Procs, SetLocalTime(p) PROVE Obeyed'
  BY <1>4, <1>5 DEF SetLocalTime
<1>6. ASSUME NEW p \in Procs, Invalidate(p) \/ WriteEnd(p) PROVE Obeyed'
  BY <1>6 DEF Invalidate, WriteEnd, DeleteLocalCache, DelMainTime, Obeyed, Inv, Times
<1>7. ASSUME NEW p \in Procs, InitFails(p) PROVE Obeyed'
  <2>1. \A q \in Procs \ {p} : mainTime'[q] = mainTime[q]
    BY <1>7 DEF InitFails, Forget, Inv, Times
  <2>2. CASE /\ pc[p] # "flush" /\ pc' = [pc EXCEPT ![p] = "idle"]
             /\ UNCHANGED <<time, dirty, overtaken>>
    BY <2>1, <2>2, ObeyedKept
  <2>3. CASE SetNxFails(p) /\ StoreMainTime(p) /\ time # time'
             /\ overtaken' = (overtaken \/ (time # time' /\ LaterFlushed'))
    BY <2>3 DEF Obeyed
  <2>4. CASE FlushFails(p)
    <3>1. UNCHANGED <<time, dirty>> /\ pc' = [pc EXCEPT ![p] = "idle"] /\ pc[p] = "flush"
      BY <2>4 DEF FlushFails
    <3>2. LaterFlushed' <=> LaterFlushed
      BY <2>1, <3>1 DEF LaterFlushed, Inv, Times
    <3>3. overtaken' <=> overtaken \/ LaterFlushed
      BY <2>4 DEF FlushFails
    <3> QED
      BY <3>2, <3>3 DEF Obeyed
  <2>5. CASE FlushDb /\ UNCHANGED overtaken
    BY <2>5 DEF FlushDb, Obeyed
  <2>6. CASE Step(p, "setLocal", "idle") /\ StoreLocalTime(p)
             /\ UNCHANGED <<row, dirty, overtaken>>
    BY <1>4, <1>7, <2>6 DEF InitFails
  <2>7. CASE SetNxFails(p) /\ StoreMainTime(p) /\ time = time'
             /\ overtaken' = (overtaken \/ (time # time' /\ LaterFlushed'))
    <3>1. overtaken' = overtaken
      BY <2>7 DEF Inv, Times
    <3> QED
      BY <2>1, <2>7, <3>1, ObeyedKept DEF SetNxFails
  <2> QED
    BY <1>7, <2>2, <2>3, <2>4, <2>5, <2>6, <2>7 DEF InitFails, SetNxFails
<1>8. CASE UNCHANGED vars
  BY <1>8 DEF vars, Inv, Obeyed, LaterFlushed, initVars
<1> QED
  BY <1>1, <1>2, <1>3, <1>5, <1>6, <1>7, <1>8 DEF Next

\* No invalidation of the master data is lost between concurrent runs of
\* InitLocalCache, wherever they fail without being overtaken, and of
\* DeleteLocalCache: until the local Redis is flushed, the
\* two times or a request under way will have it flushed.
THEOREM InvalidationSurvives == Apart /\ Spec => []InvalidationIsNotLost
<1>1. Apart /\ Inv /\ [Next]_vars => Inv'
  BY TimesStep, ObeyedStep DEF Inv
<1>2. Inv => InvalidationIsNotLost
  BY DbFacts DEF Inv, Times, Obeyed, LaterFlushed, InvalidationIsNotLost, WillFlush
<1>3. Apart => []Apart
  <2>1. Apart => Apart'
    BY DEF Apart, DbOf
  <2> QED
    BY <2>1, PTL
<1> QED
  BY InvInit, <1>1, <1>2, <1>3, PTL DEF Spec

-----------------------------------------------------------------------------
(* The types                                                               *)

\* Only the request that holds the lock is about to end a transaction.
Locked == \A p \in Procs : pc[p] \in {"invalidate", "written"} => lock = {p}

\* The types of what the requests read and wrote.
LEMMA TypesStep == TypeOK /\ Locked /\ [Next]_vars => TypeOK' /\ Locked'
<1> SUFFICES ASSUME TypeOK, Locked, [Next]_vars PROVE TypeOK' /\ Locked'
  OBVIOUS
<1> USE DbFacts, LocalCacheAssumption
    DEF TypeOK, Locked, Step, Steps, Missing, Nobody, redisVars, clockVars, sqlVars,
        initVars
<1>1. ASSUME NEW p \in Procs, GetLocalTime(p) PROVE TypeOK' /\ Locked'
  BY <1>1 DEF GetLocalTime
<1>2. ASSUME NEW p \in Procs, GetMainTime(p) PROVE TypeOK' /\ Locked'
  BY <1>2 DEF GetMainTime, Compare, Forget
<1>3. ASSUME NEW p \in Procs, Now(p) PROVE TypeOK' /\ Locked'
  <2>1. clock' = clock + 1 /\ clock + 1 \in 0 .. MaxTime
        /\ \A n \in 0 .. clock : n \in 0 .. clock'
    BY <1>3 DEF Now
  <2>2. /\ time' \in [Dbs -> 0 .. clock'] /\ localTime' \in [Procs -> 0 .. clock']
        /\ mainTime' \in [Procs -> 0 .. clock']
    BY <1>3, <2>1 DEF Now
  <2> QED
    BY <1>3, <2>1, <2>2 DEF Now
<1>4. ASSUME NEW p \in Procs, SetNx(p) PROVE TypeOK' /\ Locked'
  BY <1>4 DEF SetNx, StoreMainTime, Compare, Forget
<1>5. ASSUME NEW p \in Procs, Flush(p) \/ SetLocalTime(p) \/ InitFails(p)
      PROVE  TypeOK' /\ Locked'
  <2>1. time' \in [Dbs -> 0 .. clock] /\ row' \in 0 .. MaxVersion
    BY <1>5 DEF Flush, FlushDb, SetLocalTime, StoreLocalTime, InitFails, SetNxFails,
                FlushFails, StoreMainTime
  <2>4. dirty' \in BOOLEAN
    BY <1>5 DEF Flush, FlushDb, SetLocalTime, InitFails, SetNxFails, FlushFails
  <2>5. overtaken' \in BOOLEAN
    BY <1>5 DEF Flush, SetLocalTime, InitFails, SetNxFails, FlushFails
  <2>2. /\ localTime' \in [Procs -> 0 .. clock] /\ mainTime' \in [Procs -> 0 .. clock]
        /\ UNCHANGED <<clock, master, newest, lock, own, seen, kind>>
        /\ failures' \in 0 .. MaxFailures
    BY <1>5 DEF Flush, SetLocalTime, InitFails, Forget
  <2>3. \E s \in {"setLocal", "ready", "idle"} : pc' = [pc EXCEPT ![p] = s]
    BY <1>5 DEF Flush, SetLocalTime, InitFails, SetNxFails, FlushFails
  <2> QED
    BY <2>1, <2>2, <2>3, <2>4, <2>5
<1>6. ASSUME NEW p \in Procs, GetMaster(p) \/ SelectMaster(p) \/ SetLocalRow(p)
      PROVE  TypeOK' /\ Locked'
  BY <1>6 DEF GetMaster, SelectMaster, SetLocalRow, Resting
<1>7. ASSUME NEW p \in Procs, NEW k \in Kinds, WriteMaster(p, k)
      PROVE  TypeOK' /\ Locked'
  BY <1>7 DEF WriteMaster
<1>8. ASSUME NEW p \in Procs, Invalidate(p) \/ WriteEnd(p) PROVE TypeOK' /\ Locked'
  <2>1. time' \in [Dbs -> 0 .. clock]
    BY <1>8 DEF Invalidate, WriteEnd, DeleteLocalCache, DelMainTime
  <2>3. dirty' \in BOOLEAN
    BY <1>8 DEF Invalidate, WriteEnd, DeleteLocalCache
  <2>2. /\ UNCHANGED <<row, overtaken, clock, failures, sqlVars, initVars, seen, kind>>
        /\ \/ pc[p] = "invalidate" /\ pc' = [pc EXCEPT ![p] = "written"]
           \/ pc' = [pc EXCEPT ![p] = "ready"]
    BY <1>8 DEF Invalidate, WriteEnd, DeleteLocalCache
  <2> QED
    BY <2>1, <2>2, <2>3
<1>9. ASSUME NEW p \in Procs, Commit(p) \/ Rollback(p) PROVE TypeOK' /\ Locked'
  <2>1. /\ lock = {p} /\ own[p] # Missing
        /\ \A q \in Procs \ {p} : /\ own[q] = Missing /\ kind[q] = "none"
                                 /\ pc[q] \notin {"invalidate", "written"}
    BY <1>9 DEF Commit, Rollback
  <2>2. /\ lock' = {} /\ own' = [own EXCEPT ![p] = Missing]
        /\ seen' = [seen EXCEPT ![p] = Missing] /\ kind' = [kind EXCEPT ![p] = "none"]
    BY <1>9 DEF Commit, Rollback, EndTransaction
  <2>3. master' \in 1 .. MaxVersion
    BY <1>9, <2>1 DEF Commit, Rollback
  <2>4. /\ UNCHANGED <<time, row, dirty, overtaken, clock, failures, newest, localTime,
                       mainTime>>
        /\ \E s \in {"writeEnd", "ready"} : pc' = [pc EXCEPT ![p] = s]
    BY <1>9 DEF Commit, Rollback
  <2> QED
    BY <2>1, <2>2, <2>3, <2>4
<1>10. ASSUME NEW p \in Procs, EndRequest(p) PROVE TypeOK' /\ Locked'
  BY <1>10 DEF EndRequest
<1>11. CASE UNCHANGED vars
  BY <1>11 DEF vars
<1> QED
  BY <1>1, <1>2, <1>3, <1>4, <1>5, <1>6, <1>7, <1>8, <1>9, <1>10, <1>11 DEF Next

\* No time is from the future, and the lock, the uncommitted image and the
\* manager's record of the write come and go together.
THEOREM LocalCacheTypes == Spec => []TypeOK
<1>1. Init => TypeOK /\ Locked
  <2> SUFFICES ASSUME Init PROVE TypeOK /\ Locked
    OBVIOUS
  <2>1. /\ time \in [Dbs -> 0 .. clock] /\ clock \in 0 .. MaxTime
        /\ failures \in 0 .. MaxFailures /\ row \in 0 .. MaxVersion
        /\ master \in 1 .. MaxVersion /\ newest \in 1 .. MaxVersion
        /\ lock \subseteq Procs
    BY LocalCacheAssumption DEF Init, Missing, Nobody
  <2>2. /\ own \in [Procs -> 0 .. MaxVersion] /\ pc \in [Procs -> Steps]
        /\ localTime \in [Procs -> 0 .. clock] /\ mainTime \in [Procs -> 0 .. clock]
        /\ seen \in [Procs -> 0 .. MaxVersion]
        /\ kind \in [Procs -> Kinds \cup {"none"}]
    BY LocalCacheAssumption DEF Init, Missing, Steps
  <2>3. dirty \in BOOLEAN /\ overtaken \in BOOLEAN
    BY DEF Init
  <2>4. \A p \in Procs : own[p] = Missing /\ kind[p] = "none" /\ pc[p] = "idle"
                        /\ lock # {p}
    BY DEF Init, Nobody
  <2> QED
    BY <2>1, <2>2, <2>3, <2>4 DEF TypeOK, Locked
<1> QED
  BY <1>1, TypesStep, PTL DEF Spec
=============================================================================
